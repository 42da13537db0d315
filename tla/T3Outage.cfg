SPECIFICATION Spec
CONSTANTS
  Actions = {"reply"}
  Plans = {}
  OnlyFirst = {}
  Memory = 3
  Refusals = FALSE
  MaxVersion = 2
  MaxEpoch = 2
  MaxPresses = 1
  MaxFaults = 3
INVARIANT ReadOnlyUntilChanged
CHECK_DEADLOCK FALSE
