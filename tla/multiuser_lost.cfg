\* "Take it off the hash queue and put it on the back": the code loses the last
\* subqueue of the list, and the requests left in it.
SPECIFICATION Spec
CONSTANTS
  r1 = r1 r2 = r2 r3 = r3 u1 = u1 u2 = u2
  Reqs = {r1, r2, r3}
  Users = {u1, u2}
  NumPriGroups = 1
  UserOf <- TwoAndOne
  PriOf <- OneGroup
  ReqBound = 3
  ActiveBound = 3
  MaxUserReqs = 2
  Chunks = 1
  Slow = {}
  NoReq = NoReq
INVARIANT NoneLost
CHECK_DEADLOCK FALSE
