SPECIFICATION Spec
CONSTANTS
  Chunks = 3
  Depth = 2
  Budget = 2
  MaxSeeks = 1
  Size <- ThreeParts
  Threshold = 1
  MaxPartSeeks = 2
INVARIANT ReadsInOrder
\* the stream is closed
CHECK_DEADLOCK FALSE
