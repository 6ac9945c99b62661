SPECIFICATION Spec
CONSTANTS
  None = none
  Calls = {k1, k2}
  MaxClauses = 2
  Tenants = {t1, t2}
  Plans = {p1, p2}
  MaxEvents = 3
  MaxSubs = 2
  Runs = {r1, r2}
  Verdicts = {v1, v2}
  ContractIds = {c1, c2}
  Days = {0, 30, 31}
  Organs = {o1, o2}
  Statuses = {"ativo", "encerrado"}
  RunResults <- WinsAndLosses
  Dispatches = {d1, d2, d3}
  Keys = {alert1}
  Hours = {6, 8, 11, 12}
  Docs = {x1, x2}
  Workers = {w1, w2}
  MaxFaults = 2
  Served = TRUE
  Queued = {q1, q2}
  Requests = {a1, a2, a3}
  Adapters <- AdapterList
  Hashes = {h1, h2}
  MaxFetch = 2
  Dates <- OpeningDates
  Notices <- BusinessDays
  Prices <- BasePrices
  Costs = {0, 250}
  Terms = {0, 30, 77, 1460}
  Revenues = {0, 180000, 180001, 3600001, 4800001}
INVARIANTS
  TypeOK
  MetricInOnePlace
  OwnMetricUnlessShared
  EventsFindTheirTenant
  StatusFollowsStripe
  LossesDifferByFailedRuns
  ReportsAgree
  ScoreRisesByTimeOnlyOnLapse
  OncePerWindow
  AcceptedIsNotLost
  AnnouncedMatchesUnlessLate
  FirstOccurrenceWins
  AnswersMatchReference
PROPERTIES
  MovesBackOnApprovalOnly
SYMMETRY Symmetry
CHECK_DEADLOCK FALSE
