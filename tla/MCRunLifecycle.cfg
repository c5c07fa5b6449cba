\* A run of two partitions, two attempts each, with a control request or a
\* crash of the worker.
SPECIFICATION FairSpec
CONSTANTS
  N = 2
  Attempts = 2
  MaxStalls = 1
  Requests = {r1}
  Crashes = 1
CONSTRAINT OneTrouble
INVARIANTS CompletedIsWhole FailureEarned
PROPERTIES RunEnds
CHECK_DEADLOCK FALSE
