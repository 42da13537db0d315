SPECIFICATION Spec
CONSTANTS
  Panes = {p1}
  Prompts = {q1, q2}
  Output = output
  None = None
  Unread = Unread
  Requests = {r1, r2}
  Kinds = {"send_text"}
  MaxTurns = 3
  Rereads = 1
  ReadsMayFail = FALSE
  ReadsInOrder = TRUE
  RpcMayFail = FALSE
  TerminalTyping = FALSE
  UnclaimedAnswers = FALSE
PROPERTY RefusedWhenAnswered
CHECK_DEADLOCK FALSE
