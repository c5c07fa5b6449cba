\* Each kind of sink, three attempts over two connections and two faults.
SPECIFICATION SinkSpec
CONSTANTS
  Attempts = {p1, p2, p3}
  Conns = 2
  Faults = 2
INVARIANTS NothingLeftOpen
PROPERTIES CallsSettle
CHECK_DEADLOCK FALSE
