\* Two writes or deletions, nothing that fails.
CONSTANTS
  root = root
  plain = plain
  custom = custom
  stamp = stamp
  dump = dump
  log = log
  wal = wal
  Partitions = {plain, custom}
  Root = root
  Files = {stamp, dump, log, wal}
  Timestamp = stamp
  Unit <- MCUnit
  Pieces <- MCPieces
  Kept = {stamp, log, wal}
  Custom = {custom}
  Watched = {dump, wal}
  MaxRuns = 2
  MaxWrites = 2
  MaxFailures = 0
SPECIFICATION Spec
INVARIANTS OneMoment UnitsIntact
CHECK_DEADLOCK FALSE
