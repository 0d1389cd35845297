SPECIFICATION FairSpec
CONSTANTS
  p1 = p1
  p2 = p2
  Nodes = {n1, n2, n3}
  Null = Null
  Pushers = {p1, p2}
  Poppers = {c1, c2}
  Quota <- TwoAndOne
  LenModulus = 16
  Reuse = TRUE
INVARIANTS
  SystemFifo
  LenBalanced
PROPERTIES
  EverythingPopped
