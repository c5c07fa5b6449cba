\* Two sessions over a live day of two deliveries and the start of a second,
\* two control requests, one fault.
SPECIFICATION FairSpec
CONSTANTS
  Sessions = 2
  Total = 3
  DayLength = 2
  Requests = 2
  Faults = 1
INVARIANTS HandedOverInOrder NoRepeats PublishedResumable
PROPERTIES StopHonoured
CHECK_DEADLOCK FALSE
