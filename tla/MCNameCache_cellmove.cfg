SPECIFICATION Spec
CONSTANTS
  rc = rc
  c1 = c1
  c2 = c2
  g = g
  h = h
  p = p
  n1 = n1
  xo = xo
  Cell = {rc, c1}
  Region = {g}
  Leaf = {h, p}
  Root = rc
  Org = {}
  Name = {n1}
  Null = Null
  Rule <- LocalRule
  Revive = TRUE
  MaxCalls = 3
INVARIANT StaysPut
