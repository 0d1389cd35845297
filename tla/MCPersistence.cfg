SPECIFICATION Spec
CONSTANTS
  Scripts <- MCScripts
  StashCapacity = 1
  Overflow = "Fail"
  Directives = {"Restart", "Resume", "Stop"}
  RetryMax = 1
  MaxCommands = 3
  MaxErrors = 2
  MaxRestarts = 1
  MaxTicks = 1
CHECK_DEADLOCK FALSE
INVARIANTS StateIsHistory AckedSurvives HandlersInOrder CommandsInOrder NothingStranded
