SPECIFICATION FairSpec
CONSTANTS
  s1 = s1
  s2 = s2
  w1 = w1
  w2 = w2
  c1 = c1
  c2 = c2
  u1 = u1
  u2 = u2
  y1 = y1
  Senders = {s1}
  Spawners = {s1}
  Workers = {w1}
  Closers = {}
  UserMessages = {u1}
  SystemMessages = {y1}
  SystemKind <- OneSuspend
  Throughput = 1
  PutLock = FALSE
  CanReject = FALSE
  NoMessage = NoMessage
  NoThread = NoThread
CHECK_DEADLOCK FALSE
PROPERTY
  SuspendedRests
