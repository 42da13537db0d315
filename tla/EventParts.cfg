SPECIFICATION PartsSpec
CONSTANTS
  Clients = {c1}
  Episodes = {e1, e2}
  None = None
  MaxQuestions = 1
  RingMax = 1
  MaxSeq = 2
  MaxEpochs = 2
  MaxConnects = 2
  SnapshotsInOrder = TRUE
  ListMayFail = TRUE
  Watchdog = FALSE
  RuntimeCrash = TRUE
  AlertCrash = TRUE
CONSTANT r1 = r1
INVARIANTS PartsTypeOK CursorIsKnown AlertsOnce ShowsEveryQuestion
PROPERTIES NothingIsSkipped
SYMMETRY EventSymmetry
CHECK_DEADLOCK FALSE
