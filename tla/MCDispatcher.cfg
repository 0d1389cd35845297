SPECIFICATION Spec
CONSTANTS
  m1 = m1
  m2 = m2
  w1 = w1
  w2 = w2
  Senders = {s1, s2}
  Closers = {c1}
  Stoppers = {z}
  Workers = {w1}
  Callers = {s1, s2, w1}
  Guards = {}
  Mailboxes = {m1, m2}
  Tasks = {m1, m2}
  Affinity <- AffinityShared
  Capacity = 1
  MaxSends = 3
  NoTask = NoTask
CHECK_DEADLOCK FALSE
INVARIANTS
  OneClosure
  DetachHandsOff
