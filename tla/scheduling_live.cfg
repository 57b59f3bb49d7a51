\* Bounds that the requests cannot exceed, so that no search ever puts one back;
\* two groups, fair threads.
SPECIFICATION FairSpec
CONSTANTS
  Reqs = {r1, r2}
  Users = {u1}
  NumPriGroups = 2
  ServerReqBounds <- Roomy
  ServerActiveReqBounds <- Roomy
  MaxUserReqs = 2
  NoReq = NoReq
  NoUser = NoUser
  Faults = {}
INVARIANT NoStranded
PROPERTY TopGroupServed
