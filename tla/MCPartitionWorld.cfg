\* Two consumers, two days of history and one live day, done again.
SPECIFICATION Spec
CONSTANTS
  Consumers = {c1, c2}
  HistoryDays = 2
  LastDay = 2
  DayTicks = 4
  Moments = {0, 1}
  Spending <- FewThings
  DormancyDays = 1
  Steps = 2
  StepGap = 3
  RingSize = 2
  RefundDelay = 3
  LegitPerFraud = 1
  Expected = 1
SYMMETRY AnyConsumer
INVARIANTS PlannedAccounted QuietVictims DayRepeats
CHECK_DEADLOCK FALSE
