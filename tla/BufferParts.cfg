\* Overlapping frames in a ring that the hop does not divide; and every
\* declaration with sizes up to 8 that the layout code is defined on.
SPECIFICATION PartsSpec
CONSTANTS
  Capacity = 5
  FrameSize = 3
  Hop = 2
  Programs <- AllPrograms
  MaxSamples = 12
  Unset = Unset
  NotConstant = NotConstant
  MaxSize = 8
  Declarations <- DefinedLayouts
INVARIANTS
  ValidLayout
  MirroredWhenFramesStraddle
  RingConsistent
  ViewInBounds
  ViewIsNewest
  BuiltinCadence
PROPERTIES
  NoSampleSkipped
  ImplementsFrameSource
CHECK_DEADLOCK FALSE
