SPECIFICATION Spec
CONSTANTS
  Events = TRUE
  Chooses = TRUE
  Alike = TRUE
  Ways = {"banner"}
  WakesAtOnce = TRUE
  MaxQuestions = 2
  MaxRequests = 1
  MaxFaults = 0
  MaxReads = 1
INVARIANT OptionsHitTheirQuestion
CHECK_DEADLOCK FALSE
