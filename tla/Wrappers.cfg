\* Files change at any time, and inotify may have no watch left to give; three
\* processes of a wrapper with any options, at any pace.
CONSTANTS
  f1 = f1
  f2 = f2
  f3 = f3
  d1 = d1
  d2 = d2
  Files <- MCFiles
  Dirs <- MCDirs
  DirOf <- MCDirOf
  MaxChanges = 5
  WatchesLeft = FALSE
  Procs = {p1, p2, p3}
  NoPid = NoPid
  Empty = Empty
SPECIFICATION MCSpec
INVARIANTS AllTogether ExclusiveCommand NeverKilledBySignal
PROPERTY EndsIfQuiet
CHECK_DEADLOCK FALSE
