\* Every declaration, the ones with a zero frame and hop included.
SPECIFICATION LayoutSpec
CONSTANTS
  Unset = Unset
  NotConstant = NotConstant
  MaxSize = 4
  Declarations <- MCDeclarations
INVARIANT BadSizesAreReported
CHECK_DEADLOCK FALSE
