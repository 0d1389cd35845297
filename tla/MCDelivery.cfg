SPECIFICATION FairSpec
CONSTANTS
  Window = 3
  Retries = 2
  MaxMessages = 3
  MaxFaults = 1
  MaxRestarts = 0
  MaxInFlight = 2
CHECK_DEADLOCK FALSE
INVARIANTS ConfirmedWasGiven
PROPERTIES InOrder AllGiven
