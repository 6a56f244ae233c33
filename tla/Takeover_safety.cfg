\* Two takeovers that race, either of which may be killed, and a root that is
\* processed at any time.  Runs may start in the same clone.
CONSTANTS
  Instances = {i1, i2, i3, i4, i5}
  Main = main
  CloneNames = {clone1, clone2}
  BrokenNames = {b1, b2}
  NoName = noname
  Runs = {r1, r2}
  Crashable = {r1, r2}
  Nobody = nobody
  Placement <- TwoClones
  i1 = i1
  i2 = i2
  i3 = i3
  clone1 = clone1
  clone2 = clone2
SPECIFICATION Spec
SYMMETRY Symmetry
INVARIANTS ServingCloneImports MainIsNotNew FrozenIfNotRaced
PROPERTY BrokenStaysAside
CHECK_DEADLOCK FALSE
