\* One takeover, a root processed at any time.
CONSTANTS
  Instances = {i1, i2, i3, i4, i5}
  Main = main
  CloneNames = {clone1, clone2}
  BrokenNames = {b1, b2}
  NoName = noname
  Runs = {r1}
  Crashable = {}
  Nobody = nobody
  Placement <- TwoClones
  i1 = i1
  i2 = i2
  i3 = i3
  clone1 = clone1
  clone2 = clone2
SPECIFICATION Spec
INVARIANT BrokenIsFrozen
CHECK_DEADLOCK FALSE
