SPECIFICATION Spec
CONSTANTS
  na = na
  nb = nb
  Nodes = {na, nb}
  Script <- MCResetScript
  Lane <- MCResetLane
  SendWindow = 2
  ReceiveWindow = 2
  Watching = {na}
  ControlQueue = 2
  MessageQueue = 1
  LaneCapacity = 1
  MaxFaults = 1
INVARIANT DeliveredOnce
CHECK_DEADLOCK FALSE
