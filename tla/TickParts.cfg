\* Every pair of rates up to 8, for more than two periods of the longest; a
\* rate of each kind and two that decimate in chains, five ticks being the
\* longest period; a machine of three levels with every kind of transition.
SPECIFICATION PartsSpec
CONSTANTS
  MaxRate = 8
  MaxElapsed = 18
  MaxRuns = 150
  Rates <- MCRatePairs
  DomainRate = 10
  MCRates = {4, 5, 6, 10, 15, 20}
  MaxLength = 4
  Chains <- MCChains
  Bases = {0, 1}
  WordSize = 1024
  MaxTicks = 6
  NumStates = 7
  Parent <- MCParent
  InitialState <- MCInitialState
  Resume <- MCResume
  NumTransitions = 7
  Owner <- MCOwner
  Target <- MCTarget
  On <- MCOn
  Guarded <- MCGuarded
  Generator <- MCGenerator
  Switches = {"go", "stop"}
  Momentary = {"stop"}
  DefaultOn = {"go"}
  DefaultOff = {}
  Args = {1, 2}
  MaxEdges = 2
  MaxRequests = 2
INVARIANTS
  PhaseTracksTime
  KeepsPace
  EverySegmentHasItsField
  FieldsFit
  SegmentsKeepPace
  MachineTypeOK
  HistoryInside
  EdgesFireOnce
  RequestsFireOnce
  ActiveIsEntered
PROPERTIES
  EvenlySpread
  LoopEnds
  LandsInTarget
CHECK_DEADLOCK FALSE
