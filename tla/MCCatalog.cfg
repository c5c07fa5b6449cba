SPECIFICATION Spec
CONSTANTS
  r1 = r1
  r2 = r2
  r3 = r3
  Calls = {r1, r2, r3}
  Broker <- MCBroker
  Template = "streamed"
  Sinks = {"out"}
  Types = {"kafka", "webhook"}
  Names = {"local", "ops", "mine"}
  Configs = {"demo", "hook"}
  Local <- MCLocal
  Env <- MCEnv
  Crashes = 1
SYMMETRY Symmetry
CHECK_DEADLOCK FALSE
INVARIANT RecordsHold
PROPERTY HistoryKept
