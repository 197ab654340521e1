CONSTANTS
  Keys = {k1, k2}
  Burst = 10
  Rate = 2
  Cost = 5
  TicksPerSecond = 1
  IdleTTL = 5
  MaxTime = 9
  NoBucket = NoBucket
  NoAdvice = NoAdvice
SPECIFICATION LimiterSpec
INVARIANT RateBound RetryAfterOneMoreSecond
PROPERTY SteadySpec
SYMMETRY MCSymmetry
CHECK_DEADLOCK FALSE
