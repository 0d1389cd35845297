SPECIFICATION FairSpec
CONSTANTS
  a = a
  b = b
  c = c
  x = x
  y = y
  Callers = {p, x, y}
  Guards = {p, x}
  Stoppers = {z}
  Workers = {x, y}
  Tasks = {a, b, c}
  Affinity <- AffinityTwoQueues
  Capacity = 1
  NoTask = NoTask
CHECK_DEADLOCK FALSE
INVARIANTS
  SlotExclusive
  TasksConserved
PROPERTY
  ExecuteReturns
