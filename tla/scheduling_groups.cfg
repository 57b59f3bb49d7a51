\* Three requests of two users in two groups; each bound can be reached, and each
\* failure that the code only logs can happen.
SPECIFICATION Spec
CONSTANTS
  Reqs = {r1, r2, r3}
  Users = {u1, u2}
  NumPriGroups = 2
  ServerReqBounds <- SomeWait
  ServerActiveReqBounds <- Mixed
  MaxUserReqs = 1
  NoReq = NoReq
  NoUser = NoUser
  Faults = {"queueAdd", "handle"}
SYMMETRY Symmetry
INVARIANTS CountersExact OnePlace ActiveWithinBounds
PROPERTY ImplementsAdmission
\* every request may end lost or stranded in a queue
CHECK_DEADLOCK FALSE
