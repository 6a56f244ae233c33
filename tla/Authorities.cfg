CONSTANTS
  Names = {a, b}
  CA = own
  MaxCaInstalls = 2
  MaxCaFaults = 2
  Keys = {a, b}
  Openssh = TRUE
  MaxSshInstalls = 3
  MaxSshFaults = 2
  MaxRegistryFaults = 4
SPECIFICATION Spec
INVARIANT PairsMatch
PROPERTY AllServed
CHECK_DEADLOCK FALSE
