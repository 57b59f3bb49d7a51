\* Every length of a file up to two and a half buffers; opening, handling, reading
\* or pushing may fail.
SPECIFICATION FairSpec
CONSTANTS
  Workers = {w1, w2, w3}
  BufSize = 2
  FileSizes <- AllSizes
  OffsetLimit = 16
  FaultSets <- Failures
INVARIANTS AssertsHold FlagsTruthful AliveWhenUsed InOrder
PROPERTIES Ends ImplementsTransfer
\* the one request ends, and with it all that can happen
CHECK_DEADLOCK FALSE
