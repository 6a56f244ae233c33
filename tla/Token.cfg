\* One slave, two managers that may overlap, a recipe that may be killed.
CONSTANTS
  Slaves = {r1}
  Managers = {m1, m2}
  MaxTokens = 2
  MaxFailures = 1
SPECIFICATION FairSpec
INVARIANTS UsedMeansUsed NoOrphanIfAlone
PROPERTY Served
CHECK_DEADLOCK FALSE
