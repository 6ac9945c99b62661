SPECIFICATION Spec
CONSTANTS
  Tenants = {t1, t2}
  Items = {i1}
  Workers = {w1, w2}
  MaxDay = 1
  MaxFaults = 1
  Never = Never
  None = None
  NoRow = NoRow
SYMMETRY Symmetry
INVARIANTS TypeOK OneAlertUnlessExcused AlertedIsPublished
PROPERTIES DismissalStands
