\* A ring of one block, the layout when only a capacity is given, read on
\* every tick.
SPECIFICATION Spec
CONSTANTS
  Capacity = 3
  FrameSize = 3
  Hop = 3
  Programs <- PeekingProgram
  MaxSamples = 8
INVARIANT ViewInOrder
CHECK_DEADLOCK FALSE
