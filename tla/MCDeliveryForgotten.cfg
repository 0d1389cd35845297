SPECIFICATION Spec
CONSTANTS
  Window = 2
  Retries = 2
  MaxMessages = 2
  MaxFaults = 1
  MaxRestarts = 1
  MaxInFlight = 2
CHECK_DEADLOCK FALSE
INVARIANTS NothingForgotten
