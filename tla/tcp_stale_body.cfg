SPECIFICATION Spec
CONSTANTS
  Sizes = {0, 1}
  MaxSends = 2
INVARIANT SizeInHeader
CHECK_DEADLOCK FALSE
