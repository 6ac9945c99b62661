SPECIFICATION Spec
CONSTANTS
  Requests = {r1, r2}
  Clients = {}
  Processes = {p1}
  Analysis = analysis
  None = none
INVARIANT RejectAnswerIsRejected
CHECK_DEADLOCK FALSE
