SPECIFICATION FairSpec
CONSTANTS
  Clients = {c1, c2}
  Edits = {e1, e2}
  None = None
  Orphan = Orphan
  MaxConnects = 2
  MaxStops = 1
  CacheMayFail = TRUE
  FileMayFail = FALSE
INVARIANTS TypeOK RevisionNamesDocument
PROPERTIES ImplementsRegister ViewsConverge
CHECK_DEADLOCK FALSE
