SPECIFICATION FairSpec
CONSTANTS
  BatchSize = 2
  Exacts <- Both
  MaxSerial = 4
INVARIANT InOrder
PROPERTY FlushEnds
