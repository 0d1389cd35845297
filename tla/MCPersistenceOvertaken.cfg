SPECIFICATION Spec
CONSTANTS
  Scripts <- MCSingleEvents
  StashCapacity = 1
  Overflow = "Fail"
  Directives = {"Stop"}
  RetryMax = 0
  MaxCommands = 4
  MaxErrors = 0
  MaxRestarts = 0
  MaxTicks = 0
CHECK_DEADLOCK FALSE
INVARIANTS FenceKeepsOrder
