\* Three blocks read in place.
SPECIFICATION Spec
CONSTANTS
  Capacity = 6
  FrameSize = 2
  Hop = 2
  Programs <- AllPrograms
  MaxSamples = 14
INVARIANTS
  ViewInOrder
  ViewCoversFreshSamples
PROPERTIES
  ImplementsFrameSource
CHECK_DEADLOCK FALSE
