CONSTANTS
  NodeCount = 2
  MaxRootKills = 3
  MaxErrors = 2
SPECIFICATION FairTree
INVARIANT OneCluster
PROPERTY Converges
