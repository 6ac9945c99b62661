SPECIFICATION Spec
CONSTANTS
  Requests = {r1}
  Clients = {c1}
  Processes = {p1}
  Analysis = analysis
  None = none
INVARIANT CleanupSparesActiveRuns
CHECK_DEADLOCK FALSE
