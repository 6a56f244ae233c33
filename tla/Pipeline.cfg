\* Three backups that overlap, pushes during imports included, and two failures.
CONSTANTS
  Pieces = {p1, p2}
  Signature = sig
  MaxRuns = 3
  MaxFailures = 2
SPECIFICATION FairSpec
INVARIANT InOrder
PROPERTIES ImplementsReplica CatchesUp
CHECK_DEADLOCK FALSE
