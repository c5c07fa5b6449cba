\* One, two or three deliveries a second, a window of one slot.
SPECIFICATION Spec
CONSTANTS
  PerSecond = 2
  RecoverIn = 2
  Scopes <- MCScopes
  Start = 2
  Window = 1
  Backoffs = {1, 2}
INVARIANTS BurstBounded RetriesOnTime
PROPERTIES Recovers
CHECK_DEADLOCK FALSE
