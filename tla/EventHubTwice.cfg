SPECIFICATION Spec
CONSTANTS
  Panes = {p1}
  Prompts = {q1, q2}
  Output = output
  None = None
  Unread = Unread
  Requests = {r1, r2, r3}
  Kinds = {"act"}
  MaxTurns = 4
  Rereads = 1
  ReadsMayFail = FALSE
  ReadsInOrder = TRUE
  RpcMayFail = FALSE
  TerminalTyping = FALSE
  UnclaimedAnswers = FALSE
SYMMETRY Interchangeable
INVARIANTS AnsweredOnce
CHECK_DEADLOCK FALSE
