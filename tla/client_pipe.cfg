\* No byte to a buffer and a half, of which all positions fit; opening, calling, pulling or
\* writing may fail, also with a GetLastError of 0.
SPECIFICATION FairSpec
CONSTANTS
  Workers = {w1, w2}
  BufSize = 2
  Extension = 2
  PosLimit = 5
  FileSizes <- AllSizes
  FaultSets <- Failures
INVARIANTS AssertsHold AliveWhenUsed EachByteOnce Copied CompletedAfterNotice
PROPERTY Ends
\* the one request ends, and with it all that can happen
CHECK_DEADLOCK FALSE
