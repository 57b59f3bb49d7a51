SPECIFICATION FairSpec
CONSTANTS
  BatchSize = 2
  Exacts <- Both
  FlushingOpts <- Both
  Resets <- Both
  MaxSerial = 2
  MaxList = 3
PROPERTIES ResetReturns
CHECK_DEADLOCK FALSE
