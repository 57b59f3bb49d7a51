SPECIFICATION FairSpec
CONSTANTS
  BatchSize = 2
  Exacts <- Both
  FlushingOpts <- Both
  Resets <- Both
  MaxSerial = 3
  MaxList = 3
INVARIANTS TypeOK InOrder NoLostWakeup FlushedAll NothingLost
PROPERTIES NothingAfterRefusal CallsEnd Drains
CHECK_DEADLOCK FALSE
