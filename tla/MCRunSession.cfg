SPECIFICATION Spec
CONSTANTS
  Requests = {r1, r2}
  Clients = {c1}
  Processes = {p1, p2}
  Analysis = analysis
  None = none
INVARIANTS
  TypeOK
  QueueReclaimArmed
  OpenStreamWillClose
  StreamFollowsRouting
  SoleDecisionHonoured
  ExecutionNeedsAcceptedApproval
PROPERTY
  SoleDecisionFollowsWorkflow
SYMMETRY Symmetry
CHECK_DEADLOCK FALSE
