\* A file that ends with a full buffer.
SPECIFICATION Spec
CONSTANTS
  Workers = {w1, w2, w3}
  BufSize = 2
  FileSizes = {2}
  OffsetLimit = 16
  FaultSets = {{}}
INVARIANT NothingLeftAtEnd
\* the one request ends, and with it all that can happen
CHECK_DEADLOCK FALSE
