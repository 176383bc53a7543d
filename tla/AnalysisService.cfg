\* Three clients for two places; histories of two events within two units.
SPECIFICATION Spec
CONSTANTS
  p1 = p1  p2 = p2  c1 = c1  c2 = c2  c3 = c3
  Connections = {p1, p2}
  Scripts <- MCScripts
  AnalysisEnabled = TRUE
  MaxBatchEvents = 5
  Clients = {c1, c2, c3}
  Times = {0, 1, 3}
  MaxEvents = 2
  MaxClients = 2
  Window = 2
INVARIANTS TypeOK HistoryIsRecentWindow SessionsAreAccounted AnswersMatchRequests
PROPERTIES RequestsAreAnswered
CHECK_DEADLOCK FALSE
