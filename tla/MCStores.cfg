\* Ranges: four objects over seven values, so that the searches narrow from
\* either side before they join, split or insert a block.
CONSTANTS
  o1 = o1
  o2 = o2
  o3 = o3
  o4 = o4
  p1 = p1
  p2 = p2
  nobody = nobody
  Obj = {o1, o2, o3, o4}
  Lo = 0
  Hi = 6
  AutoMin = 4
  AutoMax = 6
  Null = Null
SPECIFICATION MCSpec
INVARIANTS UsedExact SearchSound AutoLeast Mirror Acyclic  PathWhole
PROPERTIES CallsEnd ImplementsSlot
