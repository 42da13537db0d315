SPECIFICATION Spec
CONSTANT None = None
INVARIANTS TypeOK TerminalsAreWhole ClocksAreKept FleetIsTrue
PROPERTIES StopIsFinal
CHECK_DEADLOCK FALSE
