\* One write or deletion, one failure or kill anywhere, and fairness.
CONSTANTS
  root = root
  plain = plain
  custom = custom
  stamp = stamp
  dump = dump
  log = log
  wal = wal
  Partitions = {plain, custom}
  Root = root
  Files = {stamp, dump, log, wal}
  Timestamp = stamp
  Unit <- MCUnit
  Pieces <- MCTwoPieces
  Kept = {stamp, log, wal}
  Custom = {custom}
  Watched = {dump, wal}
  MaxRuns = 2
  MaxWrites = 1
  MaxFailures = 1
SPECIFICATION FairSpec
INVARIANT ExitFileTells
PROPERTY Cloned
CHECK_DEADLOCK FALSE
