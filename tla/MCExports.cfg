\* One export of a run under way, with two drop files, and a failed attempt,
\* a crash of the worker, or a deletion of the outputs, file by file.
SPECIFICATION FairExports
CONSTANTS
  Segs <- TwoPartitions
  Drops = 2
  Exports = {e1}
  Troubles = 1
INVARIANTS ExportsWhole
PROPERTIES ExportEnds
CONSTRAINTS OneTrouble InTurn
CHECK_DEADLOCK FALSE
