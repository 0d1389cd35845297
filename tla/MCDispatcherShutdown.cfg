SPECIFICATION FairSpec
CONSTANTS
  m1 = m1
  m2 = m2
  w1 = w1
  w2 = w2
  Senders = {s1, s2}
  Closers = {}
  Stoppers = {z}
  Workers = {w1}
  Callers = {s1, s2, w1}
  Guards = {}
  Mailboxes = {m1, m2}
  Tasks = {m1, m2}
  Affinity <- AffinityShared
  Capacity = 2
  MaxSends = 2
  NoTask = NoTask
CHECK_DEADLOCK FALSE
PROPERTY
  ShutdownReturns
