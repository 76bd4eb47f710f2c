SPECIFICATION ServerSpec
CONSTANTS
  Connection = {c1, c2}
  Uid = {u1}
  NoUid = NoUid
  NotJson = NotJson
  Nothing = Nothing
  TlsModes = {TRUE, FALSE}
  GracefulShutdown = TRUE
  MaxRequests = 1
CHECK_DEADLOCK FALSE
INVARIANTS
  ServerTypeOK
  DecidesAsAsked
PROPERTIES
  RequestsComplete
  StopsOnSignal
