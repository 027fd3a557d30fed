SPECIFICATION FairSpec
CONSTANTS
  BufferLen = 4
  Sizes = {0, 1, 2, 4}
INVARIANTS TypeOK PrintsTheRest
PROPERTIES NeverGoesBack AlwaysCatchesUp
CHECK_DEADLOCK FALSE
