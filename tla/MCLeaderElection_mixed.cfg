SPECIFICATION Spec
CONSTANTS
  r1 = r1
  r2 = r2
  NoReplica = NoReplica
  Replica <- Two
  LeaseDuration <- MixedDuration
  RenewPeriod <- OneSecond
  RetryPeriod <- OneSecond
  ClockOffset <- SkewedClock
  MaxSkew = 1
  MaxLatency = 0
  MaxTime = 7
  MaxVersion = 2
  MaxAbandoned = 1
CHECK_DEADLOCK FALSE
INVARIANTS
  IInv
  MutualExclusion
  LeaderHoldsLease
PROPERTIES
  NoEarlyTakeover
  ImplementsLock
  LeaseHistory
