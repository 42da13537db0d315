SPECIFICATION Spec
CONSTANTS
  Clients = {c1}
  Episodes = {e1}
  None = None
  MaxQuestions = 2
  RingMax = 2
  MaxSeq = 4
  MaxEpochs = 1
  MaxConnects = 2
  SnapshotsInOrder = TRUE
  ListMayFail = FALSE
  Watchdog = FALSE
  RuntimeCrash = FALSE
  AlertCrash = FALSE
INVARIANTS SpentIsAnswered
CHECK_DEADLOCK FALSE
