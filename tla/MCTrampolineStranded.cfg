SPECIFICATION FairSpec
CONSTANTS
  a = a
  b = b
  c = c
  x = x
  y = y
  Callers = {p, q}
  Guards = {}
  Stoppers = {}
  Workers = {x}
  Tasks = {a, b, c}
  Affinity <- AffinityOneQueue
  Capacity = 3
  NoTask = NoTask
CHECK_DEADLOCK FALSE
PROPERTY
  OkTaskRuns
