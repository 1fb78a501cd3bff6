SPECIFICATION Spec
CONSTANTS
  Chunks = 3
  Depth = 2
  Budget = 2
  MaxSeeks = 2
  Size <- ThreeParts
  Threshold = 1
  MaxPartSeeks = 2
INVARIANT TypeOK
INVARIANT BufferInWindow
INVARIANT GivesBack
INVARIANT ReadsOwnPart
\* the stream is closed
CHECK_DEADLOCK FALSE
