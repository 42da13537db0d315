SPECIFICATION Spec
CONSTANTS
  Panes = {p1}
  Prompts = {q1, q2}
  Output = output
  None = None
  Unread = Unread
  Requests = {r1, r2}
  Kinds = {"act"}
  MaxTurns = 3
  Rereads = 1
  ReadsMayFail = TRUE
  ReadsInOrder = FALSE
  RpcMayFail = TRUE
  TerminalTyping = TRUE
  UnclaimedAnswers = TRUE
SYMMETRY Interchangeable
INVARIANTS TypeOK OneAnswerInFlight ClosedForGood ClientsKnowTheRevision
CHECK_DEADLOCK FALSE
