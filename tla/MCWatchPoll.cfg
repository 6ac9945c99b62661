SPECIFICATION FairSpec
CONSTANTS
  Configs = {c1, c2}
  Editals = {e1}
  Matching <- MatchAll
  Pollers = {loop, manual}
  Loop = loop
  Lookback = 1
  MaxDay = 2
  None = none
INVARIANTS
  TypeOK
  OneRunPerEdital
  NothingSkipped
PROPERTY NewEditalIsAnalysed
CHECK_DEADLOCK FALSE
