CONSTANTS
  Channels = {c1, c2}
  NoRow = NoRow
  TenantIds = {t1, t2}
  Names = {n1, n2}
  Domains = {d1, d2}
  NoTenant = NoTenant
  RowTenants = {t1, t2}
  RowChannels = {c1}
  Workers = {w1}
  NoCall = NoCall
  KeyTenants = {t1, t2}
  ApiKeys = {k1, k2}
  Clients = {w1}
  Limit = 2
  Window = 2
  Rules = {r1}
  Evaluators = {v1, v2}
  Duration = 2
  MaxAlerts = 2
  MonCalls = {c1, c2, c3}
  MaxChanges = 2
  Probes = {p1, p2}
  Threshold = 2
  MaxSize = 3
  BatchCap = 2
  MaxEvents = 6
SPECIFICATION Spec
INVARIANTS CallsRecorded LookupsAgree TenantsApart GateKept AlertsSpaced FiguresAgree
  BreakerAgrees EventsAccounted
PROPERTIES OrderKept EventuallyStored HealthCallsEnd
CHECK_DEADLOCK FALSE
