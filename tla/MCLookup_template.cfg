SPECIFICATION Spec
CONSTANTS
  Uuid = {u1}
  ClassName = {c1}
  Kind = {k1, k2}
  Pointer = {1, 2, 3}
  Null = Null
  Absent = Absent
  BaseChanges = TRUE
INVARIANT NoPanic
