\* The delivery loop: three deliveries over one slot, so that a due retry and
\* a new submitter compete for one; two attempts each; a breaker that trips
\* after two failures.
SPECIFICATION FairSpec
CONSTANTS
  Items = {i1, i2, i3}
  Window = 1
  MaxAttempts = 2
  BreakerMin = 2
INVARIANTS Accounting WindowUsed
PROPERTIES DrainMeansSettled ImplementsContract CallersAnswered
CHECK_DEADLOCK FALSE
