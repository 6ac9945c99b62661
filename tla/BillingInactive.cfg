SPECIFICATION BillingSpec
CONSTANTS
  None = none
  Tenants = {t1}
  Plans = {p1}
  MaxEvents = 2
  MaxSubs = 1
INVARIANT InactiveIsRefused
CHECK_DEADLOCK FALSE
