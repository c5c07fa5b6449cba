\* Every page may come to rest.
\* The run's page: two changes of the rows, one call of a kind, two polls,
\* messages of one poll.
SPECIFICATION WebSpec
CONSTANTS
  Texts = {"one", "two", "wrong", "broken", "empty"}
  Valid = {"one", "two"}
  Broken = {"broken"}
  First = "empty"
  SinksOf <- MCSinksOf
  Scopes <- MCScopes
  MaxChanges = 2
  MaxCalls = 1
  MaxPolls = 2
  MaxWire = 2
INVARIANTS DoesWhatItShows ChoicesKept
PROPERTIES LiveShown CatchesUp
CHECK_DEADLOCK FALSE
