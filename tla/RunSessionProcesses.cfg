SPECIFICATION Spec
CONSTANTS
  Requests = {r1}
  Clients = {c1}
  Processes = {p1, p2}
  Analysis = analysis
  None = none
PROPERTY CheckpointedRunIsKnown
CHECK_DEADLOCK FALSE
