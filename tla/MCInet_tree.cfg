SPECIFICATION Spec
CONSTANTS
  NSHIFT = 2
  inet_bits = 6
  uni = uni
  n1 = n1
  n2 = n2
  n3 = n3
  h1 = h1
  r1 = r1
  r2 = r2
  host = host
  NULL = NULL
  Universe = uni
  AutoBits = {5}
  MaxUpdates = 4
  Nets <- MCNets
  Nodes <- MCNodes
  DhcpRanges <- MCRanges
  NetInputs <- MCNetInputs
  NodeInputs <- MCNodeInputs
  RangeInputs <- MCRangeInputs
  Classes <- MCClasses
  NodeZero = "Reserved"
  LastNode = "Reserved"
  NetZero = "Available"
  LastNet = "Available"
SYMMETRY MCSymmetry
INVARIANTS EveryItemFound TreeShape OwnersExact  NetofPredicts AutoNetVacant
