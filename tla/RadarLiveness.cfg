SPECIFICATION FairSpec
CONSTANTS
  Tenants = {t1}
  Items = {i1}
  Workers = {w1, w2}
  MaxDay = 1
  MaxFaults = 1
  Never = Never
  None = None
  NoRow = NoRow
PROPERTIES DueIsAlerted
