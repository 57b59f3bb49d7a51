\* Three requests of two users; the bounds are reached.
SPECIFICATION FairSpec
CONSTANTS
  r1 = r1 r2 = r2 r3 = r3 u1 = u1 u2 = u2
  Reqs = {r1, r2, r3}
  Users = {u1, u2}
  NumPriGroups = 1
  UserOf <- TwoAndOne
  PriOf <- OneGroup
  ReqBound = 2
  ActiveBound = 2
  MaxUserReqs = 1
  Chunks = 1
  Slow = {r1}
  NoReq = NoReq
INVARIANTS NeverTwice CountersExact TakeTurns
PROPERTY ThreadsReturn
\* the threads may all have ended
CHECK_DEADLOCK FALSE
