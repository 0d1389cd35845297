SPECIFICATION FairSpec
CONSTANTS
  na = na
  nb = nb
  Nodes = {na, nb}
  Script <- MCScript
  Lane <- MCLane
  SendWindow = 2
  ReceiveWindow = 2
  Watching = {na}
  ControlQueue = 2
  MessageQueue = 1
  LaneCapacity = 1
  MaxFaults = 1
INVARIANTS
  InOrderOnce
  AckedWasHandled
PROPERTIES
  HandshakeEnds
  SentIsHandled
CHECK_DEADLOCK FALSE
