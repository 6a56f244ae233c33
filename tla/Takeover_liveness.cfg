\* Two takeovers, one of which may be killed; a lost computer; the root is
\* processed at any time; fairness.  The second takeover may find its reference
\* taken.
CONSTANTS
  Instances = {i1, i2, i3, i4}
  Main = main
  CloneNames = {clone1}
  BrokenNames = {b1}
  NoName = noname
  Runs = {r1, r2}
  Crashable = {r1}
  Nobody = nobody
  Placement <- OneClone
  i1 = i1
  i2 = i2
  i3 = i3
  clone1 = clone1
  clone2 = clone2
SPECIFICATION FairSpec
PROPERTIES Settles WinnerTakesOver
CHECK_DEADLOCK FALSE
