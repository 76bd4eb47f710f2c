SPECIFICATION ProcessSpec
CONSTANTS
  Object = {o1, o2}
  GracefulShutdown = TRUE
  UseLease = TRUE
  ReconcileTimeout = TRUE
  Concurrency = 1
  MaxVersion = 2
CHECK_DEADLOCK FALSE
INVARIANTS
  ProcessTypeOK
  NoLostWork
  NothingRunsAfterReturn
PROPERTIES
  EveryChangeReconciled
  EndsWhenTold
