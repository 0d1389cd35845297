SPECIFICATION FairSpec
CONSTANTS
  Producers = {p1, p2}
  Consumers = {runner1, runner2}
  Closers = {finalizer}
  MaxPush = 2
INVARIANTS
  Fifo
  ConsumerExclusive
  LenCoversWaiting
PROPERTIES
  RefinesUserQueue
  CloseTerminates
