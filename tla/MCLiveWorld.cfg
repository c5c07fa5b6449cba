\* Two partitions, three events over a day of history and two live days,
\* to a sink with imperfections and one without.
SPECIFICATION WorldSpec
CONSTANTS
  P = 2
  Sinks = {rough, clean}
  Plain = {clean}
  HistoryDays = 1
  LastDay = 2
  DayTicks = 2
  Moments = {0, 1}
  EventsPerDay = 2
  EventsInAll = 3
  Fates <- SomeFates
  LateBy = 2
  BatchSize = 2
INVARIANTS Continues EachOnce LabelsTellOrder
CHECK_DEADLOCK FALSE
