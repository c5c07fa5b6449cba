\* Two sinks of one row, one sink of two, or one of one row and a crash of the
\* worker, each with one retry, skip or start request.
SPECIFICATION FairSpec
CONSTANTS
  M = 2
  Rows = 2
  CheckpointRows = 1
  Requests = {r1}
  Fresh = 2
  Files = 3
  Crashes = 1
  Budget = 3
INVARIANTS CursorCovered LabelledOnce
PROPERTIES ReplayBeforeLive ReplayEnds LiveStarts
CHECK_DEADLOCK FALSE
