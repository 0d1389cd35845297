SPECIFICATION Spec
CONSTANTS
  Window = 1
  Retries = 2
  MaxMessages = 2
  MaxFaults = 2
  MaxRestarts = 1
  MaxInFlight = 2
CHECK_DEADLOCK FALSE
INVARIANTS Recoverable
