SPECIFICATION ProgressSpec
CONSTANTS
  Clients = {c1}
  Episodes = {e1}
  None = None
  MaxQuestions = 1
  RingMax = 2
  MaxSeq = 2
  MaxEpochs = 1
  MaxConnects = 2
  SnapshotsInOrder = TRUE
  ListMayFail = FALSE
  Watchdog = FALSE
  RuntimeCrash = TRUE
  AlertCrash = FALSE
CONSTANT r1 = r1
PROPERTIES HandlesAll UpdateEnds ViewsConvergeWithPanes BlockedIsAnnounced RequestsEnd NewQuestionIsTold
CHECK_DEADLOCK FALSE
