SPECIFICATION Spec
INVARIANTS
  TypeOK
  DraftNeedsApproval
  EveryGapHasAnError
  ListsDoubleAtEverySubgraph
PROPERTIES
  ImplementsWorkflow
  RunSettles
CHECK_DEADLOCK FALSE
