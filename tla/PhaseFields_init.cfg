\* The smallest chains whose first signal the code does not cut off.
SPECIFICATION Spec
CONSTANTS
  DomainRate = 10
  MCRates = {4, 5, 10}
  MaxLength = 3
  Chains <- MCChains
  Bases = {0, 1}
  WordSize = 1024
  MaxTicks = 6
INVARIANT
  InitResetsPhases
CHECK_DEADLOCK FALSE
