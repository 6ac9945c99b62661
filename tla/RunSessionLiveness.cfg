SPECIFICATION FairSpec
CONSTANTS
  Requests = {r1}
  Clients = {c1}
  Processes = {p1}
  Analysis = analysis
  None = none
PROPERTIES
  DecisionTakesEffect
  StreamEnds
  QueueReclaimed
CHECK_DEADLOCK FALSE
