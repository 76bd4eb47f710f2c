SPECIFICATION Spec
CONSTANTS
  r1 = r1
  r2 = r2
  NoReplica = NoReplica
  Replica <- Two
  LeaseDuration <- DefaultDuration
  RenewPeriod <- DefaultRenew
  RetryPeriod <- OneSecond
  ClockOffset <- SameClock
  MaxSkew = 0
  MaxLatency = 1
  MaxTime = 9
  MaxVersion = 2
  MaxAbandoned = 0
CHECK_DEADLOCK FALSE
INVARIANT MutualExclusion
