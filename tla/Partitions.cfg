CONSTANTS
  minimum = 1
  maximum = 3
  MaxFaults = 3
  MaxPasses = 4
  Hosts = {h1}
  MaxAccessFaults = 2
  MaxSleep = 2
  MaxScripts = 2
  MaxMySqlFaults = 3
  MaxSigningFaults = 4
SPECIFICATION MCSpec
INVARIANT UrlWorks
PROPERTIES Serves Reaches Updated Joins
CHECK_DEADLOCK FALSE
