CONSTANTS
  WgUsers = {u1, u2}
  Addresses = {2, 3}
  MaxKeys = 3
  Nobody = Nobody
  AmdSessions = {s1}
  Requests = {r1, r2, r3}
  Verdicts = {"human", "beep", "silence"}
  MaxRetry = 1
  NoSession = NoSession
  Destinations = {d1}
  Operations = {o1, o2, o3}
  MaxConn = 2
  Ids = {i1, i2}
  All = All
  Listeners = {l1, svc}
  Service = svc
  Events = {e1, e2}
  NoId = NoId
  Days = {day1, day2}
  Today = day1
  Partitioned = {day1}
  CdrIds = {c1, c2}
  Refreshers = {v1, v2}
  Readers = {q1}
  NoFigures = NoFigures
  Templates = {m1, m2, m3}
  Reports = {p1}
  RepTenants = {t1}
  NoTemplate = NoTemplate
  CallNumbers <- NumberPairs
  Enrichers = {e1, e2}
  MaxVersions = 2
  NoCdr = NoCdr
  MaxLines = 4
  MaxEdits = 2
  Calls = {c1, c2}
  Users = {alice}
  Credentials = {old, new}
  None = None
  LogTenants = {t1, t2}
  LogRules <- TwoRules
  Analysts = {v1}
  LogSize = 2
  MaxLogs = 3
SPECIFICATION Spec
SYMMETRY Alike
INVARIANTS PeersAgree RoutesMatch TablesAgree EventsReachListeners  ReportsTrue
  RowsSound DescriptionKept  AnswersAgree
PROPERTIES StaysHungUp
CHECK_DEADLOCK FALSE
