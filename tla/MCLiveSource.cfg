\* Chunks of two in a buffer of five, asked for by one, two and four.
SPECIFICATION FairSpec
CONSTANTS
  DayLengths <- SixDays
  SkipFirst = 1
  MaxBuffered = 5
  ChunkEvents = 2
  Wanted = {0, 1, 2, 4}
  Faults = 2
INVARIANTS BufferBounded
PROPERTIES IsAFeed TakeAnswered
CHECK_DEADLOCK FALSE
