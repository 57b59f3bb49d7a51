------------------------ MODULE ServerSchedulingProofs ------------------------
(***************************************************************************)
(* What holds of ServerScheduling for every number of requests, users and  *)
(* groups, every value of the bounds and every set of Faults: its types,   *)
(* that a request is in one place at a time, that the counters are exact   *)
(* and the bounds are kept, that a request is left behind only when a      *)
(* search has put one back, and that Admission is implemented.             *)
(*                                                                         *)
(* A counter is the number of requests that are charged to it.  By         *)
(* OnePlace, where a request is says what it is charged to (ByPlace); so a *)
(* step, which moves one request, changes each of the sets of charged      *)
(* requests by that request at most, and the counter must follow.          *)
(***************************************************************************)
EXTENDS ServerScheduling, FiniteSetTheorems, TLAPS

(***************************************************************************)
(* Type correctness.  TypeOK needs Locals: a thread that searches has a    *)
(* loop variable in range, and one that examines a request has a request.  *)
(***************************************************************************)
LEMMA Groups ==
  /\ NumPriGroups \in Nat /\ NumPriGroups > 0 /\ 0 \in Pri
  /\ FirstGroup \in 0 .. NumPriGroups /\ FirstGroup # 0
  /\ NoReq \notin Reqs
BY SchedulingAssumption DEF Pri, FirstGroup

LEMMA TypeInit == Init => TypeOK /\ Locals
BY SchedulingAssumption
   DEF Init, TypeOK, Locals, Pri, Steps, States, Examining

LEMMA ThreadFacts ==
  \A r \in Reqs : /\ Rpc(r) \in Threads /\ Worker(r) \in Threads
                  /\ Rpc(r) # Worker(r)
                  /\ Own(Rpc(r)) = r /\ Own(Worker(r)) = r
BY DEF Threads, Rpc, Worker, Own

LEMMA OwnType ==
  \A t \in Threads : Own(t) \in Reqs /\ (t = Rpc(Own(t)) \/ t = Worker(Own(t)))
BY DEF Threads, Own, Rpc, Worker

LEMMA UserCountType ==
  ASSUME NEW c \in [Pri -> [Users -> Int]], NEW p, NEW u, NEW d \in Int
  PROVE  /\ [c EXCEPT ![p][u] = @ + d] \in [Pri -> [Users -> Int]]
         /\ [c EXCEPT ![p][u] = @ - d] \in [Pri -> [Users -> Int]]
<1>1. ASSUME NEW f \in [Users -> Int]
      PROVE  /\ [f EXCEPT ![u] = @ + d] \in [Users -> Int]
             /\ [f EXCEPT ![u] = @ - d] \in [Users -> Int]
  <2>1. CASE u \in Users
    <3>1. f[u] + d \in Int /\ f[u] - d \in Int
      BY <1>1, <2>1
    <3>. QED BY <1>1, <2>1, <3>1
  <2>2. CASE u \notin Users
    BY <1>1, <2>2
  <2>. QED BY <2>1, <2>2
<1>2. CASE p \in Pri
  BY <1>1, <1>2
<1>3. CASE p \notin Pri
  BY <1>3
<1>. QED BY <1>2, <1>3

LEMMA AddedType ==
  ASSUME TypeOK, NEW r \in Reqs, NEW q \in Added(r)
  PROVE  q \in [Pri -> Seq(Reqs)]
<1>1. CASE q = queue
  BY <1>1 DEF TypeOK
<1>2. CASE q = [queue EXCEPT ![pri[r]] = Append(@, r)]
  <2>1. pri[r] \in Pri /\ queue[pri[r]] \in Seq(Reqs)
    BY DEF TypeOK
  <2>2. Append(queue[pri[r]], r) \in Seq(Reqs)
    BY <2>1
  <2>. QED BY <1>2, <2>1, <2>2 DEF TypeOK
<1>. QED BY <1>1, <1>2 DEF Added

LEMMA TypeArrive ==
  ASSUME TypeOK, Locals, NEW r \in Reqs, Arrive(r)
  PROVE  TypeOK' /\ Locals'
<1>0. Rpc(r) \in Threads /\ Worker(r) \in Threads
  BY ThreadFacts
<1>. USE <1>0, Groups
<1>1. TypeOK'
  <2>1. /\ state' \in [Reqs -> States] /\ pri' \in [Reqs -> Pri]
        /\ sid' \in [Reqs -> Users \cup {NoUser}]
    BY SMTT(30) DEF TypeOK, Arrive, CallerPri, States
  <2>2. pc' \in [Threads -> Steps] /\ scan' \in [Threads -> 0 .. NumPriGroups]
    <3>1. CASE pc' = [pc EXCEPT ![Rpc(r)] = "count"] /\ scan' = scan
      BY <3>1 DEF TypeOK, Steps
    <3>2. CASE /\ pc' = [pc EXCEPT ![Rpc(r)] = "scan"]
               /\ scan' = [scan EXCEPT ![Rpc(r)] = FirstGroup]
      BY <3>2 DEF TypeOK, Steps
    <3>. QED BY <3>1, <3>2 DEF Arrive
  <2>3. UNCHANGED <<queue, reqCount, activeCount, userCount, held>>
    BY DEF Arrive, counters
  <2>. QED BY <2>1, <2>2, <2>3 DEF TypeOK
<1>2. Locals'
  <2>1. \/ pc' = [pc EXCEPT ![Rpc(r)] = "count"] /\ scan' = scan
        \/ /\ pc' = [pc EXCEPT ![Rpc(r)] = "scan"]
           /\ scan' = [scan EXCEPT ![Rpc(r)] = FirstGroup]
    BY DEF Arrive
  <2>2. held' = held
    BY DEF Arrive
  <2>. QED BY <2>1, <2>2 DEF TypeOK, Locals, Examining
<1>. QED BY <1>1, <1>2

LEMMA TypeRpc ==
  ASSUME TypeOK, Locals, NEW r \in Reqs, Count(r) \/ Uncount(r) \/ Enqueue(r)
  PROVE  TypeOK' /\ Locals'
<1>0. Rpc(r) \in Threads
  BY ThreadFacts
<1>. USE <1>0, Groups
<1>1. CASE Count(r)
  BY <1>1 DEF TypeOK, Locals, Count, request, Steps, Examining
<1>2. CASE Uncount(r)
  <2>1. TypeOK'
    BY <1>2 DEF TypeOK, Uncount, request, Steps
  <2>2. Locals'
    BY <1>2 DEF TypeOK, Locals, Uncount, Examining
  <2>. QED BY <2>1, <2>2
<1>3. CASE Enqueue(r)
  BY <1>3, AddedType DEF TypeOK, Locals, Enqueue, counters, Steps, States, Examining
<1>. QED BY <1>1, <1>2, <1>3

LEMMA TypeWorker ==
  ASSUME TypeOK, Locals, NEW r \in Reqs, Handle(r) \/ Finish(r)
  PROVE  TypeOK' /\ Locals'
<1>0. Rpc(r) \in Threads /\ Worker(r) \in Threads
  BY ThreadFacts
<1>. USE <1>0, Groups
<1>1. CASE Handle(r)
  BY <1>1, ZenonT(40) DEF TypeOK, Locals, Handle, counters, request, Steps, Examining
<1>2. CASE Finish(r)
  BY <1>2 DEF TypeOK, Locals, Finish, counters, request, Steps, Examining
<1>. QED BY <1>1, <1>2

LEMMA TypeFind ==
  ASSUME TypeOK, Locals, NEW t \in Threads, Find(t)
  PROVE  TypeOK' /\ Locals'
<1>. USE Groups
<1>1. CASE SkipEmpty(t)
  BY <1>1 DEF TypeOK, Locals, SkipEmpty, Return, counters, request, Steps, Examining
<1>2. CASE Take(t)
  <2>1. scan[t] - 1 \in Pri
    <3>1. scan[t] \in 0 .. NumPriGroups /\ scan[t] # 0
      BY <1>2 DEF Take, TypeOK, Locals
    <3>. QED BY <3>1 DEF Pri
  <2>2. /\ Head(queue[scan[t] - 1]) \in Reqs
        /\ Tail(queue[scan[t] - 1]) \in Seq(Reqs)
    BY <1>2, <2>1 DEF Take, TypeOK
  <2>3. queue' \in [Pri -> Seq(Reqs)]
    BY <1>2, <2>1, <2>2 DEF TypeOK, Take
  <2>4. held' \in [Threads -> Reqs \cup {NoReq}]
    BY <1>2, <2>1, <2>2 DEF TypeOK, Take
  <2>5. /\ scan' \in [Threads -> 0 .. NumPriGroups] /\ pc' \in [Threads -> Steps]
        /\ UNCHANGED <<reqCount, activeCount, userCount, state, pri, sid>>
    BY <1>2 DEF TypeOK, Take, counters, request, Steps, Examining
  <2>6. Locals'
    BY <1>2, <2>2 DEF TypeOK, Locals, Take, Examining
  <2>. QED BY <2>3, <2>4, <2>5, <2>6 DEF TypeOK
<1>3. CASE IncActive(t)
  BY <1>3 DEF TypeOK, Locals, IncActive, request, Steps, Examining
<1>4. CASE DecOver(t)
  BY <1>4 DEF TypeOK, Locals, DecOver, request, Steps, Examining
<1>5. CASE IncUser(t)
  <2>1. userCount' \in [Pri -> [Users -> Int]]
    <3>. DEFINE p == pri[held[t]]  u == sid[held[t]]
    <3>1. CASE userCount' = [userCount EXCEPT ![p][u] = @ + 1]
      <4>1. userCount \in [Pri -> [Users -> Int]] /\ 1 \in Int
        BY DEF TypeOK
      <4>. QED BY ONLY <3>1, <4>1, UserCountType
    <3>2. CASE userCount' = userCount
      BY <3>2 DEF TypeOK
    <3>. QED BY <1>5, <3>1, <3>2 DEF IncUser
  <2>2. /\ pc' \in [Threads -> Steps]
        /\ UNCHANGED <<queue, reqCount, activeCount, state, pri, sid, held, scan>>
    BY <1>5 DEF TypeOK, IncUser, request, Steps, Examining
  <2>3. Locals'
    BY <1>5, <2>2 DEF TypeOK, Locals, IncUser, Examining
  <2>. QED BY <2>1, <2>2, <2>3 DEF TypeOK
<1>6. CASE DecActive(t)
  BY <1>6 DEF TypeOK, Locals, DecActive, request, Steps, Examining
<1>7. CASE PutBack(t)
  <2>1. held[t] \in Reqs
    BY <1>7 DEF PutBack, TypeOK, Locals, Examining
  <2>. QED BY <1>7, <2>1, AddedType
           DEF TypeOK, Locals, PutBack, Return, counters, request, Steps, Examining
<1>8. CASE DecReq(t)
  BY <1>8 DEF TypeOK, Locals, DecReq, request, Steps, Examining
<1>9. CASE Activate(t)
  <2>1. /\ state' \in [Reqs -> States] /\ pc' \in [Threads -> Steps]
        /\ held' \in [Threads -> Reqs \cup {NoReq}]
        /\ UNCHANGED <<queue, reqCount, activeCount, userCount, pri, sid, scan>>
    BY <1>9 DEF TypeOK, Activate, Return, counters, Steps, States
  <2>2. Worker(held[t]) \in Threads
    BY <1>9, ThreadFacts DEF Activate, TypeOK, Locals, Examining
  <2>3. held'[t] = NoReq /\ \A x \in Threads \ {t} : held'[x] = held[x]
    BY <1>9 DEF Activate, TypeOK
  <2>4. pc' = [pc EXCEPT ![t] = Return(t), ![Worker(held[t])] = "posted"]
    BY <1>9 DEF Activate
  <2>5. ASSUME NEW x \in Threads
        PROVE  /\ pc'[x] \in Examining => held'[x] # NoReq
               /\ pc'[x] = "scan" => scan'[x] # 0
    BY <2>1, <2>2, <2>3, <2>4 DEF TypeOK, Locals, Return, Examining
  <2>. QED BY <2>1, <2>5 DEF TypeOK, Locals
<1>. QED BY <1>1, <1>2, <1>3, <1>4, <1>5, <1>6, <1>7, <1>8, <1>9 DEF Find

LEMMA TypeShutdown ==
  ASSUME TypeOK, Locals, NEW t \in Threads, Shutdown(t)
  PROVE  TypeOK' /\ Locals'
<1>. USE OwnType, Groups
<1>1. CASE Release(t)
  BY <1>1 DEF TypeOK, Locals, Release, request, Steps, Examining
<1>2. CASE DecUser(t)
  <2>1. userCount' \in [Pri -> [Users -> Int]]
    <3>. DEFINE p == pri[Own(t)]  u == sid[Own(t)]
    <3>1. userCount' = [userCount EXCEPT ![p][u] = @ - 1]
      BY <1>2 DEF DecUser
    <3>2. userCount \in [Pri -> [Users -> Int]] /\ 1 \in Int
      BY DEF TypeOK
    <3>. QED BY ONLY <3>1, <3>2, UserCountType
  <2>2. /\ pc' \in [Threads -> Steps]
        /\ UNCHANGED <<queue, reqCount, activeCount, state, pri, sid, held, scan>>
    BY <1>2 DEF TypeOK, DecUser, request, Steps
  <2>3. Locals'
    BY <1>2, <2>2 DEF TypeOK, Locals, DecUser, Examining
  <2>. QED BY <2>1, <2>2, <2>3 DEF TypeOK
<1>3. CASE FreeReq(t)
  BY <1>3 DEF TypeOK, Locals, FreeReq, counters, Steps, States, Examining
<1>. QED BY <1>1, <1>2, <1>3 DEF Shutdown

LEMMA TypeNext == TypeOK /\ Locals /\ [Next]_vars => TypeOK' /\ Locals'
<1>. SUFFICES ASSUME TypeOK, Locals, [Next]_vars
              PROVE  TypeOK' /\ Locals'
  OBVIOUS
<1>1. CASE Next
  BY <1>1, TypeArrive, TypeRpc, TypeWorker, TypeFind, TypeShutdown DEF Next
<1>2. CASE UNCHANGED vars
  BY <1>2 DEF TypeOK, Locals, vars
<1>. QED BY <1>1, <1>2

\* The variables keep their types, and a thread in FindSReq holds a request, and has a
\* group to look at, wherever the code uses pReq and pri as an index.
THEOREM TypeCorrect == Spec => [](TypeOK /\ Locals)
<1>. QED BY TypeInit, TypeNext, PTL DEF Spec

(***************************************************************************)
(* A request is in one place at a time (OnePlace), for every number of     *)
(* requests, users and groups, every bound and every set of Faults.        *)
(*                                                                         *)
(* OnePlace is not inductive alone.  Roles says which thread can be where: *)
(* without it a thread that shuts a request down could be one whose        *)
(* request is queued, and freeing it would leave a stale node behind.      *)
(***************************************************************************)

PlaceInv == TypeOK /\ Locals /\ Roles /\ OnePlace

LEMMA PlaceInit == Init => Roles /\ OnePlace
<1>. SUFFICES ASSUME Init PROVE Roles /\ OnePlace
  OBVIOUS
<1>1. \A p \in Pri : queue[p] = <<>> /\ Len(queue[p]) = 0
  BY DEF Init
<1>2. /\ \A t \in Threads : pc[t] = "idle" /\ held[t] = NoReq
      /\ \A r \in Reqs : state[r] = "Free"
  BY DEF Init
<1>. QED BY <1>1, <1>2, ThreadFacts
         DEF Roles, OnePlace, QueuedOnce, QueuedSound, HeldOnce, ServedIffActive

LEMMA ThreadOf ==
  /\ \A r, s \in Reqs : /\ Rpc(r) = Rpc(s) => r = s
                        /\ Worker(r) = Worker(s) => r = s
                        /\ Rpc(r) # Worker(s)
  /\ \A t \in Threads : \E r \in Reqs : t = Rpc(r) \/ t = Worker(r)
BY DEF Threads, Rpc, Worker

(***************************************************************************)
(* Steps of one thread that move no request: the queues, the requests and  *)
(* the thread's hold are left alone, and the thread stays in its role.     *)
(***************************************************************************)
StaysInRole(t, s) ==
  /\ held[t] # NoReq => s \in Examining
  /\ \A r \in Reqs :
       /\ t = Worker(r) => /\ pc[t] # "idle"
                           /\ s \notin {"idle", "count", "uncount", "enqueue"}
       /\ t = Rpc(r) => /\ s \notin {"posted", "serve", "lost", "decUser"}
                        /\ s \in {"count", "uncount", "enqueue", "release", "free"}
                             => state[r] = "Arrived"

LEMMA QuietStep ==
  ASSUME PlaceInv, NEW t \in Threads, NEW s, StaysInRole(t, s),
         pc' = [pc EXCEPT ![t] = s], UNCHANGED <<queue, held, state, pri, sid>>
  PROVE  Roles' /\ OnePlace'
<1>1. QueuedOnce' /\ QueuedSound' /\ HeldOnce'
  BY DEF PlaceInv, OnePlace, QueuedOnce, QueuedSound, HeldOnce
<1>2. /\ pc'[t] = s /\ \A u \in Threads \ {t} : pc'[u] = pc[u]
      /\ UNCHANGED <<held, state, sid>>
  BY DEF PlaceInv, TypeOK
<1>3. ServedIffActive'
  BY <1>2, ThreadFacts DEF PlaceInv, OnePlace, ServedIffActive, StaysInRole
<1>4. Roles'
  BY <1>2, ThreadFacts DEF PlaceInv, Roles, StaysInRole
<1>. QED BY <1>1, <1>3, <1>4 DEF OnePlace

LEMMA PlaceCountUncount ==
  ASSUME PlaceInv, NEW r \in Reqs, Count(r) \/ Uncount(r)
  PROVE  Roles' /\ OnePlace'
<1>0. /\ Rpc(r) \in Threads /\ held[Rpc(r)] = NoReq /\ state[r] = "Arrived"
      /\ \A s \in Reqs : Rpc(r) # Worker(s) /\ (Rpc(r) = Rpc(s) => r = s)
  <2>1. Rpc(r) \in Threads /\ pc[Rpc(r)] \in {"count", "uncount"}
    BY ThreadFacts DEF Count, Uncount
  <2>. QED BY <2>1, ThreadOf DEF PlaceInv, Roles, Examining
<1>1. \A s \in {"uncount", "enqueue", "scan"} : StaysInRole(Rpc(r), s)
  BY <1>0 DEF StaysInRole
<1>2. PICK s \in {"uncount", "enqueue", "scan"} : pc' = [pc EXCEPT ![Rpc(r)] = s]
  <2>1. CASE Count(r)
    BY <2>1 DEF Count
  <2>2. CASE Uncount(r)
    BY <2>2 DEF Uncount
  <2>. QED BY <2>1, <2>2
<1>3. UNCHANGED <<queue, held, state, pri, sid>>
  BY DEF Count, Uncount, request
<1>. QED BY <1>0, <1>1, <1>2, <1>3, QuietStep

LEMMA PlaceHandleFinish ==
  ASSUME PlaceInv, NEW r \in Reqs, Handle(r) \/ Finish(r)
  PROVE  Roles' /\ OnePlace'
<1>0. /\ Worker(r) \in Threads /\ held[Worker(r)] = NoReq /\ pc[Worker(r)] # "idle"
      /\ \A s \in Reqs : Worker(r) # Rpc(s)
  <2>1. Worker(r) \in Threads /\ pc[Worker(r)] \in {"posted", "serve"}
    BY ThreadFacts DEF Handle, Finish
  <2>. QED BY <2>1, ThreadOf DEF PlaceInv, Roles, Examining
<1>1. \A s \in {"serve", "scan", "lost"} : StaysInRole(Worker(r), s)
  BY <1>0 DEF StaysInRole
<1>2. PICK s \in {"serve", "scan", "lost"} : pc' = [pc EXCEPT ![Worker(r)] = s]
  <2>1. CASE Handle(r)
    BY <2>1 DEF Handle
  <2>2. CASE Finish(r)
    BY <2>2 DEF Finish
  <2>. QED BY <2>1, <2>2
<1>3. UNCHANGED <<queue, held, state, pri, sid>>
  BY DEF Handle, Finish, request
<1>. QED BY <1>0, <1>1, <1>2, <1>3, QuietStep

\* The steps of FindSReq between Take and its last one.
LEMMA PlaceExamine ==
  ASSUME PlaceInv, NEW t \in Threads,
         IncActive(t) \/ DecOver(t) \/ IncUser(t) \/ DecActive(t) \/ DecReq(t)
  PROVE  Roles' /\ OnePlace'
<1>1. /\ pc[t] \in Examining /\ pc[t] # "idle"
      /\ UNCHANGED <<queue, held, state, pri, sid>>
  BY DEF IncActive, DecOver, IncUser, DecActive, DecReq, request, Examining
<1>2. PICK s \in Examining : pc' = [pc EXCEPT ![t] = s]
  <2>1. CASE IncActive(t)
    BY <2>1 DEF IncActive, Examining
  <2>2. CASE DecOver(t)
    BY <2>2 DEF DecOver, Examining
  <2>3. CASE IncUser(t)
    BY <2>3 DEF IncUser, Examining
  <2>4. CASE DecActive(t)
    BY <2>4 DEF DecActive, Examining
  <2>5. CASE DecReq(t)
    BY <2>5 DEF DecReq, Examining
  <2>. QED BY <2>1, <2>2, <2>3, <2>4, <2>5
<1>3. StaysInRole(t, s)
  BY <1>1, <1>2 DEF StaysInRole, Examining
<1>. QED BY <1>1, <1>2, <1>3, QuietStep

\* What Return gives: an idle RPC thread, or one that releases its request.
LEMMA ReturnFacts ==
  ASSUME PlaceInv, NEW t \in Threads, pc[t] # "idle", held[t] = NoReq
  PROVE  StaysInRole(t, Return(t))
<1>1. CASE \E r \in Reqs : t = Worker(r)
  <2>1. PICK r \in Reqs : t = Worker(r)
    BY <1>1
  <2>2. Return(t) = "release"
    BY <2>1 DEF Return, ShuttingDown, Worker
  <2>. QED BY <2>1, <2>2, ThreadOf DEF StaysInRole
<1>2. CASE \E r \in Reqs : t = Rpc(r)
  <2>1. PICK r \in Reqs : t = Rpc(r)
    BY <1>2
  <2>2. /\ Return(t) \in {"release", "idle"}
        /\ Return(t) = "release" => state[r] = "Arrived"
    BY <2>1 DEF Return, ShuttingDown, Rpc, Own
  <2>3. \A s \in Reqs : t # Worker(s) /\ (t = Rpc(s) => s = r)
    BY <2>1, ThreadOf
  <2>. QED BY <2>2, <2>3 DEF StaysInRole
<1>. QED BY <1>1, <1>2, ThreadOf

LEMMA PlaceSkipEmpty ==
  ASSUME PlaceInv, NEW t \in Threads, SkipEmpty(t)
  PROVE  Roles' /\ OnePlace'
<1>1. pc[t] = "scan" /\ held[t] = NoReq
  BY DEF SkipEmpty, PlaceInv, Roles, Examining
<1>2. UNCHANGED <<queue, held, state, pri, sid>>
  BY DEF SkipEmpty, request
<1>3. CASE pc' = pc
  <2>1. pc' = [pc EXCEPT ![t] = "scan"]
    BY <1>1, <1>3 DEF PlaceInv, TypeOK
  <2>2. StaysInRole(t, "scan")
    BY <1>1 DEF StaysInRole
  <2>. QED BY <1>2, <2>1, <2>2, QuietStep
<1>4. CASE pc' = [pc EXCEPT ![t] = Return(t)]
  BY <1>1, <1>2, <1>4, ReturnFacts, QuietStep
<1>. QED BY <1>3, <1>4 DEF SkipEmpty

LEMMA PlaceRelease ==
  ASSUME PlaceInv, NEW t \in Threads, Release(t) \/ DecUser(t)
  PROVE  Roles' /\ OnePlace'
<1>1. /\ pc[t] \in {"release", "decUser"} /\ held[t] = NoReq
      /\ UNCHANGED <<queue, held, state, pri, sid>>
  <2>1. pc[t] \in {"release", "decUser"}
    BY DEF Release, DecUser
  <2>. QED BY <2>1 DEF Release, DecUser, request, PlaceInv, Roles, Examining
<1>2. PICK s \in {"decUser", "free"} :
        /\ pc' = [pc EXCEPT ![t] = s]
        /\ s = "decUser" => state[Own(t)] = "Active"
  <2>1. CASE Release(t)
    BY <2>1 DEF Release
  <2>2. CASE DecUser(t)
    BY <2>2 DEF DecUser
  <2>. QED BY <2>1, <2>2
<1>3. StaysInRole(t, s)
  <2>1. ASSUME NEW r \in Reqs, t = Rpc(r)
        PROVE  s = "free" /\ state[r] = "Arrived"
    <3>1. state[r] = "Arrived"
      BY <1>1, <2>1 DEF PlaceInv, Roles
    <3>2. Own(t) = r
      BY <2>1, ThreadFacts
    <3>. QED BY <1>2, <3>1, <3>2
  <2>. QED BY <1>1, <1>2, <2>1 DEF StaysInRole
<1>. QED BY <1>1, <1>2, <1>3, QuietStep

(***************************************************************************)
(* Steps that move a request.                                              *)
(***************************************************************************)
IsQueued(r) == \E p \in Pri : \E i \in 1 .. Len(queue[p]) : queue[p][i] = r

LEMMA QueuedOnceAt ==
  ASSUME PlaceInv, NEW p \in Pri, NEW q \in Pri,
         NEW i \in 1 .. Len(queue[p]), NEW j \in 1 .. Len(queue[q]),
         queue[p][i] = queue[q][j]
  PROVE  p = q /\ i = j
BY DEF PlaceInv, OnePlace, QueuedOnce

\* QueueAdd of a request that is in no queue.
LEMMA AddedOnce ==
  ASSUME PlaceInv, NEW r \in Reqs, ~IsQueued(r), queue' \in Added(r)
  PROVE  /\ QueuedOnce'
         /\ \A p \in Pri : \A i \in 1 .. Len(queue'[p]) :
              \/ queue'[p][i] = r /\ p = pri[r]
              \/ \E j \in 1 .. Len(queue[p]) : queue'[p][i] = queue[p][j]
<1>1. CASE queue' = queue
  BY <1>1 DEF PlaceInv, OnePlace, QueuedOnce
<1>2. CASE queue' = [queue EXCEPT ![pri[r]] = Append(@, r)]
  <2>. DEFINE g == pri[r]  n == Len(queue[g])
  <2>1. g \in Pri /\ \A p \in Pri : queue[p] \in Seq(Reqs)
    BY DEF PlaceInv, TypeOK
  <2>2. \A p \in Pri \ {g} : queue'[p] = queue[p]
    BY <1>2 DEF PlaceInv, TypeOK
  <2>3. queue'[g] = Append(queue[g], r)
    BY <1>2, <2>1 DEF PlaceInv, TypeOK
  <2>4. /\ n \in Nat /\ Len(queue'[g]) = n + 1 /\ queue'[g][n + 1] = r
        /\ \A i \in 1 .. n : queue'[g][i] = queue[g][i]
    BY <2>1, <2>3
  <2>5. \A p \in Pri : \A i \in 1 .. Len(queue'[p]) :
          \/ p = g /\ i = n + 1 /\ queue'[p][i] = r
          \/ i \in 1 .. Len(queue[p]) /\ queue'[p][i] = queue[p][i]
    <3>1. ASSUME NEW i \in 1 .. (n + 1) PROVE i = n + 1 \/ i \in 1 .. n
      BY <2>4, <3>1
    <3>. QED BY <2>2, <2>4, <3>1
  <2>6. \A p \in Pri : \A i \in 1 .. Len(queue[p]) : queue[p][i] # r
    BY DEF IsQueued
  <2>7. ASSUME NEW p \in Pri, NEW q \in Pri, NEW i \in 1 .. Len(queue'[p]),
               NEW j \in 1 .. Len(queue'[q]), queue'[p][i] = queue'[q][j]
        PROVE  p = q /\ i = j
    <3>1. CASE p = g /\ i = n + 1 /\ queue'[p][i] = r
      BY <2>5, <2>6, <2>7, <3>1
    <3>2. CASE q = g /\ j = n + 1 /\ queue'[q][j] = r
      BY <2>5, <2>6, <2>7, <3>2
    <3>3. CASE /\ i \in 1 .. Len(queue[p]) /\ queue'[p][i] = queue[p][i]
               /\ j \in 1 .. Len(queue[q]) /\ queue'[q][j] = queue[q][j]
      <4>1. queue[p][i] = queue[q][j]
        BY <2>7, <3>3
      <4>. QED BY ONLY PlaceInv, p \in Pri, q \in Pri, <3>3, <4>1, QueuedOnceAt
    <3>. QED BY <2>5, <3>1, <3>2, <3>3
  <2>8. QueuedOnce'
    BY <2>7 DEF QueuedOnce
  <2>. QED BY <2>5, <2>8
<1>. QED BY <1>1, <1>2 DEF Added

LEMMA PlaceArrive ==
  ASSUME PlaceInv, NEW r \in Reqs, Arrive(r)
  PROVE  Roles' /\ OnePlace'
<1>1. PICK s \in {"count", "scan"} : pc' = [pc EXCEPT ![Rpc(r)] = s]
  BY DEF Arrive
<1>2. /\ state[r] = "Free" /\ pc[Rpc(r)] = "idle" /\ queue' = queue /\ held' = held
      /\ state' = [state EXCEPT ![r] = "Arrived"]
  BY DEF Arrive
<1>3. PICK p \in Pri, u \in Users :
        pri' = [pri EXCEPT ![r] = p] /\ sid' = [sid EXCEPT ![r] = u]
  BY DEF Arrive, CallerPri
<1>4. /\ pc'[Rpc(r)] = s /\ \A t \in Threads \ {Rpc(r)} : pc'[t] = pc[t]
      /\ state'[r] = "Arrived" /\ sid'[r] \in Users
      /\ \A x \in Reqs \ {r} : /\ state'[x] = state[x]
                               /\ pri'[x] = pri[x] /\ sid'[x] = sid[x]
  BY <1>1, <1>2, <1>3, ThreadFacts DEF PlaceInv, TypeOK
<1>5. \A p2 \in Pri : \A i \in 1 .. Len(queue[p2]) : queue[p2][i] \in Reqs \ {r}
  <2>1. ASSUME NEW p2 \in Pri, NEW i \in 1 .. Len(queue[p2])
        PROVE  queue[p2][i] \in Reqs
    BY DEF PlaceInv, TypeOK
  <2>. QED BY <1>2, <2>1 DEF PlaceInv, OnePlace, QueuedSound
<1>6. QueuedOnce' /\ QueuedSound'
  BY <1>2, <1>4, <1>5 DEF PlaceInv, OnePlace, QueuedOnce, QueuedSound
<1>7. HeldOnce'
  BY <1>2, <1>4 DEF PlaceInv, TypeOK, OnePlace, HeldOnce
<1>8. ServedIffActive'
  BY <1>2, <1>4, ThreadFacts, ThreadOf DEF PlaceInv, OnePlace, ServedIffActive
<1>9. held[Rpc(r)] = NoReq
  BY <1>2, ThreadFacts DEF PlaceInv, Roles, Examining
<1>10. Roles'
  BY <1>2, <1>4, <1>9, ThreadFacts, ThreadOf DEF PlaceInv, Roles
<1>. QED BY <1>6, <1>7, <1>8, <1>10 DEF OnePlace

LEMMA PlaceEnqueue ==
  ASSUME PlaceInv, NEW r \in Reqs, Enqueue(r)
  PROVE  Roles' /\ OnePlace'
<1>1. /\ Rpc(r) \in Threads /\ pc[Rpc(r)] = "enqueue" /\ state[r] = "Arrived"
      /\ held[Rpc(r)] = NoReq
      /\ queue' \in Added(r) /\ UNCHANGED <<held, pri, sid>>
  BY ThreadFacts DEF Enqueue, PlaceInv, Roles, Examining
<1>2. /\ pc'[Rpc(r)] = "scan" /\ \A t \in Threads \ {Rpc(r)} : pc'[t] = pc[t]
      /\ state'[r] = "Queued" /\ \A x \in Reqs \ {r} : state'[x] = state[x]
  BY <1>1 DEF Enqueue, PlaceInv, TypeOK
<1>3. ~IsQueued(r) /\ \A t \in Threads : held[t] # r
  <2>1. ~IsQueued(r)
    BY <1>1 DEF IsQueued, PlaceInv, OnePlace, QueuedSound
  <2>2. \A t \in Threads : held[t] # r
    BY <1>1, Groups DEF PlaceInv, OnePlace, HeldOnce
  <2>. QED BY <2>1, <2>2
<1>4. /\ QueuedOnce'
      /\ \A p \in Pri : \A i \in 1 .. Len(queue'[p]) :
           \/ queue'[p][i] = r /\ p = pri[r]
           \/ \E j \in 1 .. Len(queue[p]) : queue'[p][i] = queue[p][j]
  BY <1>1, <1>3, AddedOnce
<1>5. QueuedSound'
  <2>1. ASSUME NEW p \in Pri, NEW j \in 1 .. Len(queue[p])
        PROVE  /\ queue[p][j] \in Reqs /\ state'[queue[p][j]] = "Queued"
               /\ pri[queue[p][j]] = p /\ \A t \in Threads : held[t] # queue[p][j]
    <3>1. queue[p][j] \in Reqs
      BY DEF PlaceInv, TypeOK
    <3>. QED BY <1>2, <3>1 DEF PlaceInv, OnePlace, QueuedSound
  <2>. QED BY <1>1, <1>2, <1>3, <1>4, <2>1 DEF QueuedSound
<1>6. HeldOnce'
  BY <1>1, <1>2, <1>3 DEF PlaceInv, TypeOK, OnePlace, HeldOnce
<1>7. ServedIffActive'
  BY <1>1, <1>2, ThreadFacts, ThreadOf DEF PlaceInv, OnePlace, ServedIffActive
<1>8. Roles'
  BY <1>1, <1>2, ThreadFacts, ThreadOf DEF PlaceInv, Roles
<1>. QED BY <1>4, <1>5, <1>6, <1>7, <1>8 DEF OnePlace

LEMMA PlaceTake ==
  ASSUME PlaceInv, NEW t \in Threads, Take(t)
  PROVE  Roles' /\ OnePlace'
<1>. DEFINE g == scan[t] - 1  r == Head(queue[g])
<1>1. g \in Pri /\ queue[g] \in Seq(Reqs) /\ queue[g] # <<>>
  <2>1. scan[t] \in 0 .. NumPriGroups /\ scan[t] # 0
    BY DEF Take, PlaceInv, TypeOK, Locals
  <2>2. g \in Pri
    BY <2>1, Groups DEF Pri
  <2>. QED BY <2>2 DEF Take, PlaceInv, TypeOK
<1>2. Len(queue[g]) \in Nat /\ 1 \in 1 .. Len(queue[g]) /\ r = queue[g][1] /\ r \in Reqs
  BY <1>1
<1>3. /\ held[t] = NoReq /\ pc[t] = "scan" /\ UNCHANGED <<state, pri, sid>>
  BY DEF Take, PlaceInv, Roles, Examining, request
<1>4. /\ pc'[t] = "incActive" /\ \A x \in Threads \ {t} : pc'[x] = pc[x]
      /\ held'[t] = r /\ \A x \in Threads \ {t} : held'[x] = held[x]
  BY DEF Take, PlaceInv, TypeOK
<1>5. /\ queue'[g] = Tail(queue[g]) /\ \A p \in Pri \ {g} : queue'[p] = queue[p]
  BY <1>1 DEF Take, PlaceInv, TypeOK
<1>6. \A i \in 1 .. Len(queue'[g]) : /\ i \in Int
                                     /\ i + 1 \in 1 .. Len(queue[g])
                                     /\ queue'[g][i] = queue[g][i + 1]
  BY <1>1, <1>5
\* Where the items of a queue were before.
<1>. DEFINE Was(p, i) == IF p = g THEN i + 1 ELSE i
<1>7. \A p \in Pri : \A i \in 1 .. Len(queue'[p]) :
        i \in Int /\ Was(p, i) \in 1 .. Len(queue[p])
          /\ queue'[p][i] = queue[p][Was(p, i)]
  <2>1. ASSUME NEW p \in Pri \ {g}, NEW i \in 1 .. Len(queue'[p])
        PROVE  i \in Int /\ i \in 1 .. Len(queue[p]) /\ queue'[p][i] = queue[p][i]
    BY <1>5, <2>1
  <2>. QED BY <1>6, <2>1
<1>8. QueuedOnce'
  <2>1. ASSUME NEW p \in Pri, NEW q \in Pri, NEW i \in 1 .. Len(queue'[p]),
               NEW j \in 1 .. Len(queue'[q]), queue'[p][i] = queue'[q][j]
        PROVE  p = q /\ i = j
    <3>1. p = q /\ Was(p, i) = Was(q, j)
      <4>1. /\ Was(p, i) \in 1 .. Len(queue[p]) /\ Was(q, j) \in 1 .. Len(queue[q])
            /\ queue[p][Was(p, i)] = queue[q][Was(q, j)]
        BY <1>7, <2>1
      <4>. HIDE DEF Was
      <4>. QED BY <4>1, QueuedOnceAt
    <3>2. i \in Int /\ j \in Int
      BY <1>7
    <3>. QED BY <3>1, <3>2
  <2>. QED BY <2>1 DEF QueuedOnce
\* What stays queued is not the request taken.
<1>9. ASSUME NEW p \in Pri, NEW i \in 1 .. Len(queue'[p])
      PROVE  /\ queue'[p][i] # r
             /\ \E j \in 1 .. Len(queue[p]) : queue'[p][i] = queue[p][j]
  <2>1. p = g => Was(p, i) # 1
    BY <1>6
  <2>2. queue[p][Was(p, i)] = queue[g][1] => p = g /\ Was(p, i) = 1
    BY <1>1, <1>2, <1>7, QueuedOnceAt
  <2>. QED BY <1>2, <1>7, <2>1, <2>2
<1>10. QueuedSound'
  BY <1>3, <1>4, <1>9 DEF PlaceInv, OnePlace, QueuedSound
<1>11. HeldOnce'
  BY <1>1, <1>2, <1>3, <1>4 DEF PlaceInv, OnePlace, HeldOnce, QueuedSound
<1>12. ServedIffActive'
  BY <1>3, <1>4, ThreadFacts DEF PlaceInv, OnePlace, ServedIffActive
<1>13. Roles'
  BY <1>3, <1>4, ThreadFacts DEF PlaceInv, Roles, Examining
<1>. QED BY <1>8, <1>10, <1>11, <1>12, <1>13 DEF OnePlace

LEMMA PlacePutBack ==
  ASSUME PlaceInv, NEW t \in Threads, PutBack(t)
  PROVE  Roles' /\ OnePlace'
<1>. DEFINE r == held[t]
<1>1. /\ pc[t] = "putBack" /\ r \in Reqs /\ r # NoReq /\ state[r] = "Queued"
      /\ queue' \in Added(r) /\ UNCHANGED <<state, pri, sid>>
  BY DEF PutBack, request, PlaceInv, TypeOK, Locals, Examining, OnePlace, HeldOnce
<1>2. /\ pc'[t] = Return(t) /\ \A x \in Threads \ {t} : pc'[x] = pc[x]
      /\ held'[t] = NoReq /\ \A x \in Threads \ {t} : held'[x] = held[x]
  BY DEF PutBack, PlaceInv, TypeOK
<1>3. ~IsQueued(r) /\ \A x \in Threads \ {t} : held[x] # r
  BY <1>1 DEF IsQueued, PlaceInv, OnePlace, QueuedSound, HeldOnce
<1>4. /\ QueuedOnce'
      /\ \A p \in Pri : \A i \in 1 .. Len(queue'[p]) :
           \/ queue'[p][i] = r /\ p = pri[r]
           \/ \E j \in 1 .. Len(queue[p]) : queue'[p][i] = queue[p][j]
  BY <1>1, <1>3, AddedOnce
<1>5. QueuedSound'
  <2>1. \A p \in Pri : \A j \in 1 .. Len(queue[p]) :
          /\ state[queue[p][j]] = "Queued" /\ pri[queue[p][j]] = p
          /\ queue[p][j] # NoReq /\ \A x \in Threads : held[x] # queue[p][j]
    <3>1. ASSUME NEW p \in Pri, NEW j \in 1 .. Len(queue[p])
          PROVE  queue[p][j] # NoReq
      <4>1. queue[p][j] \in Reqs
        BY DEF PlaceInv, TypeOK
      <4>. QED BY <4>1, Groups
    <3>. QED BY <3>1 DEF PlaceInv, OnePlace, QueuedSound
  <2>. QED BY <1>1, <1>2, <1>3, <1>4, <2>1 DEF QueuedSound
<1>6. HeldOnce'
  BY <1>1, <1>2 DEF PlaceInv, OnePlace, HeldOnce
<1>7. Return(t) \in {"release", "idle"} /\ \A x \in Reqs :
        /\ t = Worker(x) => Return(t) = "release"
        /\ t = Rpc(x) => (Return(t) = "release" => state[x] = "Arrived")
  BY DEF Return, ShuttingDown, Worker, Rpc, Own
<1>8. ServedIffActive'
  BY <1>1, <1>2, <1>7, ThreadFacts DEF PlaceInv, OnePlace, ServedIffActive
<1>9. Roles'
  BY <1>1, <1>2, <1>7, ThreadFacts DEF PlaceInv, Roles
<1>. QED BY <1>4, <1>5, <1>6, <1>8, <1>9 DEF OnePlace

LEMMA PlaceActivate ==
  ASSUME PlaceInv, NEW t \in Threads, Activate(t)
  PROVE  Roles' /\ OnePlace'
<1>. DEFINE r == held[t]  w == Worker(r)
<1>1. /\ pc[t] = "activate" /\ r \in Reqs /\ r # NoReq /\ state[r] = "Queued"
      /\ queue' = queue /\ UNCHANGED <<pri, sid>>
  BY DEF Activate, counters, PlaceInv, TypeOK, Locals, Examining, OnePlace, HeldOnce
<1>2. w \in Threads /\ pc[w] = "idle" /\ w # t
  BY <1>1, ThreadFacts DEF PlaceInv, OnePlace, ServedIffActive
<1>3. /\ pc'[t] = Return(t) /\ pc'[w] = "posted"
      /\ \A x \in Threads \ {t, w} : pc'[x] = pc[x]
      /\ held'[t] = NoReq /\ \A x \in Threads \ {t} : held'[x] = held[x]
      /\ state'[r] = "Active" /\ \A x \in Reqs \ {r} : state'[x] = state[x]
  BY <1>1, <1>2 DEF Activate, PlaceInv, TypeOK
<1>4. held[w] = NoReq
  BY <1>2 DEF PlaceInv, Roles, Examining
<1>5. QueuedOnce' /\ QueuedSound'
  <2>1. \A p \in Pri : \A i \in 1 .. Len(queue[p]) : queue[p][i] \in Reqs \ {r, NoReq}
    <3>1. ASSUME NEW p \in Pri, NEW i \in 1 .. Len(queue[p])
          PROVE  queue[p][i] \in Reqs
      BY DEF PlaceInv, TypeOK
    <3>. QED BY <3>1, Groups DEF PlaceInv, OnePlace, QueuedSound
  <2>. QED BY <1>1, <1>3, <2>1 DEF PlaceInv, OnePlace, QueuedOnce, QueuedSound
<1>6. HeldOnce'
  <2>1. ASSUME NEW x \in Threads, held'[x] # NoReq
        PROVE  /\ x # t /\ held'[x] = held[x] /\ held[x] \in Reqs \ {r}
               /\ state[held[x]] = "Queued"
    <3>1. x # t /\ held'[x] = held[x]
      BY <1>3, <2>1
    <3>2. held[x] \in Reqs /\ state[held[x]] = "Queued" /\ held[x] # r
      BY <1>1, <2>1, <3>1 DEF PlaceInv, TypeOK, OnePlace, HeldOnce
    <3>. QED BY <3>1, <3>2
  <2>2. ASSUME NEW x \in Threads, NEW u \in Threads, held'[x] # NoReq,
               held'[u] = held'[x]
        PROVE  u = x
    <3>1. held[x] # NoReq /\ held[u] = held[x]
      BY <2>1, <2>2
    <3>. QED BY <3>1 DEF PlaceInv, OnePlace, HeldOnce
  <2>. QED BY <1>3, <2>1, <2>2 DEF HeldOnce
<1>7. Return(t) \in {"release", "idle"} /\ \A x \in Reqs :
        /\ t = Worker(x) => Return(t) = "release"
        /\ t = Rpc(x) => (Return(t) = "release" => state[x] = "Arrived")
  BY DEF Return, ShuttingDown, Worker, Rpc, Own
<1>8. ServedIffActive'
  BY <1>1, <1>2, <1>3, <1>7, ThreadFacts, ThreadOf
     DEF PlaceInv, OnePlace, ServedIffActive
<1>9. Roles'
  BY <1>1, <1>2, <1>3, <1>4, <1>7, ThreadFacts, ThreadOf DEF PlaceInv, Roles
<1>. QED BY <1>5, <1>6, <1>8, <1>9 DEF OnePlace

LEMMA PlaceFree ==
  ASSUME PlaceInv, NEW t \in Threads, FreeReq(t)
  PROVE  Roles' /\ OnePlace'
<1>. DEFINE r == Own(t)
<1>1. /\ pc[t] = "free" /\ r \in Reqs /\ queue' = queue /\ held' = held
      /\ t = Rpc(r) \/ t = Worker(r)
  BY OwnType DEF FreeReq
<1>2. /\ pc'[t] = "idle" /\ \A x \in Threads \ {t} : pc'[x] = pc[x]
      /\ state'[r] = "Free" /\ \A x \in Reqs \ {r} : /\ state'[x] = state[x]
                                                     /\ pri'[x] = pri[x]
                                                     /\ sid'[x] = sid[x]
  BY <1>1 DEF FreeReq, PlaceInv, TypeOK
<1>3. /\ held[t] = NoReq
      /\ t = Rpc(r) => state[r] = "Arrived"
      /\ t = Worker(r) => state[r] = "Active"
  BY <1>1 DEF PlaceInv, Roles, Examining, OnePlace, ServedIffActive
<1>4. QueuedOnce' /\ QueuedSound'
  <2>1. \A p \in Pri : \A i \in 1 .. Len(queue[p]) : queue[p][i] \in Reqs \ {r}
    <3>1. ASSUME NEW p \in Pri, NEW i \in 1 .. Len(queue[p])
          PROVE  queue[p][i] \in Reqs
      BY DEF PlaceInv, TypeOK
    <3>. QED BY <1>1, <1>3, <3>1 DEF PlaceInv, OnePlace, QueuedSound
  <2>. QED BY <1>1, <1>2, <2>1 DEF PlaceInv, OnePlace, QueuedOnce, QueuedSound
<1>5. HeldOnce'
  BY <1>1, <1>2, <1>3 DEF PlaceInv, TypeOK, OnePlace, HeldOnce
<1>6. ServedIffActive'
  BY <1>1, <1>2, <1>3, ThreadFacts, ThreadOf DEF PlaceInv, OnePlace, ServedIffActive
<1>7. Roles'
  BY <1>1, <1>2, <1>3, ThreadFacts, ThreadOf DEF PlaceInv, Roles
<1>. QED BY <1>4, <1>5, <1>6, <1>7 DEF OnePlace

LEMMA PlaceNext == PlaceInv /\ [Next]_vars => PlaceInv'
<1>. SUFFICES ASSUME PlaceInv, [Next]_vars PROVE PlaceInv'
  OBVIOUS
<1>1. TypeOK' /\ Locals'
  BY TypeNext DEF PlaceInv
<1>2. Roles' /\ OnePlace'
  <2>1. CASE UNCHANGED vars
    BY <2>1 DEF vars, PlaceInv, Roles, OnePlace, QueuedOnce, QueuedSound,
                HeldOnce, ServedIffActive
  <2>2. CASE Next
    BY <2>2, PlaceArrive, PlaceCountUncount, PlaceEnqueue, PlaceHandleFinish,
       PlaceSkipEmpty, PlaceTake, PlaceExamine, PlacePutBack, PlaceActivate,
       PlaceRelease, PlaceFree
       DEF Next, Find, Shutdown
  <2>. QED BY <2>1, <2>2
<1>. QED BY <1>1, <1>2 DEF PlaceInv

\* A request is in one place at a time: whatever arrives, is put back, is started
\* or is freed, no request is queued twice, examined by two threads, or served
\* while it is still queued, and no queue holds a freed block.
THEOREM OnePlaceAlways == Spec => []OnePlace
<1>1. Init => PlaceInv
  BY TypeInit, PlaceInit DEF PlaceInv
<1>2. PlaceInv => OnePlace
  BY DEF PlaceInv
<1>. QED BY <1>1, <1>2, PlaceNext, PTL DEF Spec

(***************************************************************************)
(* The counters.                                                           *)
(***************************************************************************)

\* What r is charged to, apart from its group and user.
WaitOf(r)  == \/ pc[Rpc(r)] \in {"uncount", "enqueue"}
              \/ state[r] = "Queued" /\ ~ExaminedAt(r, {"activate"})
GroupOf(r) == \/ ExaminedAt(r, Examining \ {"incActive", "putBack"})
              \/ state[r] = "Active" /\ pc[Worker(r)] \notin {"decUser", "free"}
UserOf(r)  == \/ ExaminedAt(r, {"decReq", "activate"})
              \/ state[r] = "Active" /\ pc[Worker(r)] # "free"

WaitExact  == \A p \in Pri : reqCount[p] = Cardinality(WaitCharged(p))
GroupExact == \A p \in Pri : activeCount[p] = Cardinality(GroupCharged(p))
UserExact  == \A p \in Pri, u \in Users :
                userCount[p][u] = Cardinality(UserCharged(p, u))

LEMMA ChargedSets ==
  /\ \A p : WaitCharged(p) = {r \in Reqs : pri[r] = p /\ WaitOf(r)}
  /\ \A p : GroupCharged(p) = {r \in Reqs : pri[r] = p /\ GroupOf(r)}
  /\ \A p, u : UserCharged(p, u) = {r \in Reqs : pri[r] = p /\ sid[r] = u /\ UserOf(r)}
BY DEF WaitCharged, GroupCharged, UserCharged, WaitOf, GroupOf, UserOf

LEMMA ExactParts == CountersExact <=> WaitExact /\ GroupExact /\ UserExact
BY DEF CountersExact, WaitExact, GroupExact, UserExact

\* Finite sets that differ in one element at most.
LEMMA CountIn ==
  ASSUME NEW S, IsFiniteSet(S), NEW A \in SUBSET S, NEW B \in SUBSET S, NEW x \in S,
         \A r \in S \ {x} : r \in A <=> r \in B
  PROVE  /\ Cardinality(A) \in Nat
         /\ (x \in A <=> x \in B) => Cardinality(B) = Cardinality(A)
         /\ x \notin A /\ x \in B => Cardinality(B) = Cardinality(A) + 1
         /\ x \in A /\ x \notin B => Cardinality(B) = Cardinality(A) - 1
<1>1. IsFiniteSet(A) /\ IsFiniteSet(B)
  BY FS_Subset
<1>2. Cardinality(A) \in Nat
  BY <1>1, FS_CardinalityType
<1>3. (x \in A <=> x \in B) => A = B
  OBVIOUS
<1>4. ASSUME x \notin A, x \in B PROVE Cardinality(B) = Cardinality(A) + 1
  <2>1. B = A \cup {x}
    BY <1>4
  <2>. QED BY <1>1, <1>4, <2>1, FS_AddElement
<1>5. ASSUME x \in A, x \notin B PROVE Cardinality(B) = Cardinality(A) - 1
  <2>1. B = A \ {x}
    BY <1>5
  <2>. QED BY <1>1, <1>5, <2>1, FS_RemoveElement
<1>. QED BY <1>2, <1>3, <1>4, <1>5

\* Sets of requests that differ in one request at most.
LEMMA SetCount ==
  ASSUME NEW A \in SUBSET Reqs, NEW B \in SUBSET Reqs, NEW x \in Reqs,
         \A r \in Reqs \ {x} : r \in A <=> r \in B
  PROVE  /\ Cardinality(A) \in Nat
         /\ (x \in A <=> x \in B) => Cardinality(B) = Cardinality(A)
         /\ x \notin A /\ x \in B => Cardinality(B) = Cardinality(A) + 1
         /\ x \in A /\ x \notin B => Cardinality(B) = Cardinality(A) - 1
BY SchedulingAssumption, CountIn

(***************************************************************************)
(* Where a request is says what it is charged to.                          *)
(***************************************************************************)
ByPlace ==
  /\ \A t \in Threads : held[t] # NoReq =>
       /\ WaitOf(held[t]) <=> pc[t] # "activate"
       /\ GroupOf(held[t]) <=> pc[t] \in Examining \ {"incActive", "putBack"}
       /\ UserOf(held[t]) <=> pc[t] \in {"decReq", "activate"}
  /\ \A r \in Reqs : state[r] \in {"Free", "Arrived"} =>
       /\ WaitOf(r) <=> pc[Rpc(r)] \in {"uncount", "enqueue"}
       /\ ~GroupOf(r) /\ ~UserOf(r)
  /\ \A r \in Reqs : state[r] = "Active" =>
       /\ ~WaitOf(r)
       /\ GroupOf(r) <=> pc[Worker(r)] \notin {"decUser", "free"}
       /\ UserOf(r) <=> pc[Worker(r)] # "free"
  /\ \A r \in Reqs : (\A t \in Threads : held[t] # r) =>
       /\ state[r] = "Queued" => WaitOf(r)
       /\ state[r] # "Active" => ~GroupOf(r) /\ ~UserOf(r)

LEMMA PlaceCharges == PlaceInv => ByPlace
<1>. SUFFICES ASSUME PlaceInv PROVE ByPlace
  OBVIOUS
<1>1. \A r \in Reqs : state[r] = "Queued" \/ \A t \in Threads : held[t] # r
  BY Groups DEF PlaceInv, OnePlace, HeldOnce
<1>2. \A S : \A r \in Reqs : (\A t \in Threads : held[t] # r) => ~ExaminedAt(r, S)
  BY DEF ExaminedAt
<1>3. \A r \in Reqs : pc[Rpc(r)] \in {"uncount", "enqueue"} => state[r] = "Arrived"
  BY DEF PlaceInv, Roles
<1>4. ASSUME NEW t \in Threads, held[t] # NoReq
      PROVE  /\ WaitOf(held[t]) <=> pc[t] # "activate"
             /\ GroupOf(held[t]) <=> pc[t] \in Examining \ {"incActive", "putBack"}
             /\ UserOf(held[t]) <=> pc[t] \in {"decReq", "activate"}
  <2>1. held[t] \in Reqs /\ state[held[t]] = "Queued"
    BY <1>4 DEF PlaceInv, TypeOK, OnePlace, HeldOnce
  <2>2. ASSUME NEW S PROVE ExaminedAt(held[t], S) <=> pc[t] \in S
    BY <1>4 DEF ExaminedAt, PlaceInv, OnePlace, HeldOnce
  <2>. QED BY <1>3, <2>1, <2>2 DEF WaitOf, GroupOf, UserOf
<1>5. ASSUME NEW r \in Reqs, state[r] \in {"Free", "Arrived"}
      PROVE  /\ WaitOf(r) <=> pc[Rpc(r)] \in {"uncount", "enqueue"}
             /\ ~GroupOf(r) /\ ~UserOf(r)
  BY <1>1, <1>2, <1>5 DEF WaitOf, GroupOf, UserOf
<1>6. ASSUME NEW r \in Reqs, state[r] = "Active"
      PROVE  /\ ~WaitOf(r)
             /\ GroupOf(r) <=> pc[Worker(r)] \notin {"decUser", "free"}
             /\ UserOf(r) <=> pc[Worker(r)] # "free"
  BY <1>1, <1>2, <1>3, <1>6 DEF WaitOf, GroupOf, UserOf
<1>7. ASSUME NEW r \in Reqs, \A t \in Threads : held[t] # r
      PROVE  /\ state[r] = "Queued" => WaitOf(r)
             /\ state[r] # "Active" => ~GroupOf(r) /\ ~UserOf(r)
  BY <1>2, <1>7 DEF WaitOf, GroupOf, UserOf
<1>. QED BY <1>4, <1>5, <1>6, <1>7 DEF ByPlace

LEMMA PlaceChargesNext == PlaceInv' => ByPlace'
BY PlaceCharges, PTL

(***************************************************************************)
(* What a step leaves alone keeps its charges.                             *)
(***************************************************************************)
Same(r) ==
  /\ state'[r] = state[r] /\ pri'[r] = pri[r] /\ sid'[r] = sid[r]
  /\ pc'[Rpc(r)] \in {"uncount", "enqueue"} <=> pc[Rpc(r)] \in {"uncount", "enqueue"}
  /\ pc'[Worker(r)] = "decUser" <=> pc[Worker(r)] = "decUser"
  /\ pc'[Worker(r)] = "free" <=> pc[Worker(r)] = "free"
  /\ \A t \in Threads : /\ held'[t] = r <=> held[t] = r
                        /\ held[t] = r => pc'[t] = pc[t]

LEMMA SameCharges ==
  ASSUME NEW r \in Reqs, Same(r)
  PROVE  /\ WaitOf(r)' <=> WaitOf(r)
         /\ GroupOf(r)' <=> GroupOf(r)
         /\ UserOf(r)' <=> UserOf(r)
<1>1. ASSUME NEW S
      PROVE  (\E t \in Threads : held'[t] = r /\ pc'[t] \in S) <=> ExaminedAt(r, S)
  BY DEF Same, ExaminedAt
<1>2. /\ ExaminedAt(r, {"activate"})' <=> ExaminedAt(r, {"activate"})
      /\ ExaminedAt(r, {"decReq", "activate"})' <=> ExaminedAt(r, {"decReq", "activate"})
      /\ ExaminedAt(r, Examining \ {"incActive", "putBack"})'
           <=> ExaminedAt(r, Examining \ {"incActive", "putBack"})
  BY <1>1 DEF ExaminedAt, Examining
<1>. QED BY <1>2 DEF Same, WaitOf, GroupOf, UserOf

(***************************************************************************)
(* A step changes the charges of one request, x, and the counters with it. *)
(***************************************************************************)
Stays(x) == \A r \in Reqs \ {x} : Same(r)

LEMMA WaitStep ==
  ASSUME TypeOK, WaitExact, NEW x \in Reqs, Stays(x),
         \/ /\ reqCount' = reqCount /\ (WaitOf(x)' <=> WaitOf(x))
            /\ WaitOf(x) => pri'[x] = pri[x]
         \/ /\ reqCount' = [reqCount EXCEPT ![pri[x]] = @ + 1]
            /\ ~WaitOf(x) /\ WaitOf(x)' /\ pri'[x] = pri[x]
         \/ /\ reqCount' = [reqCount EXCEPT ![pri[x]] = @ - 1]
            /\ WaitOf(x) /\ ~WaitOf(x)' /\ pri'[x] = pri[x]
  PROVE  WaitExact'
<1>1. \A r \in Reqs \ {x} : pri'[r] = pri[r] /\ (WaitOf(r)' <=> WaitOf(r))
  BY SameCharges DEF Stays, Same
<1>2. SUFFICES ASSUME NEW p \in Pri
               PROVE  reqCount'[p] = Cardinality(WaitCharged(p)')
  BY DEF WaitExact
<1>. DEFINE A == WaitCharged(p)  B == WaitCharged(p)'
<1>3. /\ A = {r \in Reqs : pri[r] = p /\ WaitOf(r)}
      /\ B = {r \in Reqs : pri'[r] = p /\ WaitOf(r)'}
  BY DEF WaitCharged, WaitOf
<1>4. A \in SUBSET Reqs /\ B \in SUBSET Reqs /\ \A r \in Reqs \ {x} : r \in A <=> r \in B
  BY <1>1, <1>3
<1>5. /\ x \in A <=> pri[x] = p /\ WaitOf(x)
      /\ x \in B <=> pri'[x] = p /\ WaitOf(x)'
  BY <1>3
<1>6. /\ reqCount[p] = Cardinality(A) /\ reqCount \in [Pri -> Int] /\ pri[x] \in Pri
  BY DEF WaitExact, TypeOK
<1>. HIDE DEF A, B
<1>7. /\ Cardinality(A) \in Nat
      /\ (x \in A <=> x \in B) => Cardinality(B) = Cardinality(A)
      /\ x \notin A /\ x \in B => Cardinality(B) = Cardinality(A) + 1
      /\ x \in A /\ x \notin B => Cardinality(B) = Cardinality(A) - 1
  BY ONLY <1>4, SetCount
<1>8. reqCount'[p] = Cardinality(B)
  BY <1>5, <1>6, <1>7
<1>. QED BY <1>8 DEF B

LEMMA GroupStep ==
  ASSUME TypeOK, GroupExact, NEW x \in Reqs, Stays(x),
         \/ /\ activeCount' = activeCount /\ (GroupOf(x)' <=> GroupOf(x))
            /\ GroupOf(x) => pri'[x] = pri[x]
         \/ /\ activeCount' = [activeCount EXCEPT ![pri[x]] = @ + 1]
            /\ ~GroupOf(x) /\ GroupOf(x)' /\ pri'[x] = pri[x]
         \/ /\ activeCount' = [activeCount EXCEPT ![pri[x]] = @ - 1]
            /\ GroupOf(x) /\ ~GroupOf(x)' /\ pri'[x] = pri[x]
  PROVE  GroupExact'
<1>1. \A r \in Reqs \ {x} : pri'[r] = pri[r] /\ (GroupOf(r)' <=> GroupOf(r))
  BY SameCharges DEF Stays, Same
<1>2. SUFFICES ASSUME NEW p \in Pri
               PROVE  activeCount'[p] = Cardinality(GroupCharged(p)')
  BY DEF GroupExact
<1>. DEFINE A == GroupCharged(p)  B == GroupCharged(p)'
<1>3. /\ A = {r \in Reqs : pri[r] = p /\ GroupOf(r)}
      /\ B = {r \in Reqs : pri'[r] = p /\ GroupOf(r)'}
  BY DEF GroupCharged, GroupOf
<1>4. A \in SUBSET Reqs /\ B \in SUBSET Reqs /\ \A r \in Reqs \ {x} : r \in A <=> r \in B
  BY <1>1, <1>3
<1>5. /\ x \in A <=> pri[x] = p /\ GroupOf(x)
      /\ x \in B <=> pri'[x] = p /\ GroupOf(x)'
  BY <1>3
<1>6. /\ activeCount[p] = Cardinality(A) /\ activeCount \in [Pri -> Int] /\ pri[x] \in Pri
  BY DEF GroupExact, TypeOK
<1>. HIDE DEF A, B
<1>7. /\ Cardinality(A) \in Nat
      /\ (x \in A <=> x \in B) => Cardinality(B) = Cardinality(A)
      /\ x \notin A /\ x \in B => Cardinality(B) = Cardinality(A) + 1
      /\ x \in A /\ x \notin B => Cardinality(B) = Cardinality(A) - 1
  BY ONLY <1>4, SetCount
<1>8. activeCount'[p] = Cardinality(B)
  BY <1>5, <1>6, <1>7
<1>. QED BY <1>8 DEF B

LEMMA UserStep ==
  ASSUME TypeOK, UserExact, NEW x \in Reqs, Stays(x), sid[x] \in Users \/ ~UserOf(x),
         \/ /\ userCount' = userCount /\ (UserOf(x)' <=> UserOf(x))
            /\ UserOf(x) => pri'[x] = pri[x] /\ sid'[x] = sid[x]
         \/ /\ userCount' = [userCount EXCEPT ![pri[x]][sid[x]] = @ + 1]
            /\ ~UserOf(x) /\ UserOf(x)' /\ pri'[x] = pri[x] /\ sid'[x] = sid[x]
         \/ /\ userCount' = [userCount EXCEPT ![pri[x]][sid[x]] = @ - 1]
            /\ UserOf(x) /\ ~UserOf(x)' /\ pri'[x] = pri[x] /\ sid'[x] = sid[x]
  PROVE  UserExact'
<1>1. \A r \in Reqs \ {x} : /\ pri'[r] = pri[r] /\ sid'[r] = sid[r]
                            /\ UserOf(r)' <=> UserOf(r)
  BY SameCharges DEF Stays, Same
<1>2. SUFFICES ASSUME NEW p \in Pri, NEW u \in Users
               PROVE  userCount'[p][u] = Cardinality(UserCharged(p, u)')
  BY DEF UserExact
<1>. DEFINE A == UserCharged(p, u)  B == UserCharged(p, u)'
<1>3. /\ A = {r \in Reqs : pri[r] = p /\ sid[r] = u /\ UserOf(r)}
      /\ B = {r \in Reqs : pri'[r] = p /\ sid'[r] = u /\ UserOf(r)'}
  BY DEF UserCharged, UserOf
<1>4. A \in SUBSET Reqs /\ B \in SUBSET Reqs /\ \A r \in Reqs \ {x} : r \in A <=> r \in B
  BY <1>1, <1>3
<1>5. /\ x \in A <=> pri[x] = p /\ sid[x] = u /\ UserOf(x)
      /\ x \in B <=> pri'[x] = p /\ sid'[x] = u /\ UserOf(x)'
  BY <1>3
<1>6. /\ userCount[p][u] = Cardinality(A) /\ userCount \in [Pri -> [Users -> Int]]
      /\ pri[x] \in Pri
  BY DEF UserExact, TypeOK
<1>. HIDE DEF A, B
<1>7. /\ Cardinality(A) \in Nat
      /\ (x \in A <=> x \in B) => Cardinality(B) = Cardinality(A)
      /\ x \notin A /\ x \in B => Cardinality(B) = Cardinality(A) + 1
      /\ x \in A /\ x \notin B => Cardinality(B) = Cardinality(A) - 1
  BY ONLY <1>4, SetCount
<1>8. userCount'[p][u] = Cardinality(B)
  <2>2. CASE userCount' = userCount
    BY <1>5, <1>6, <1>7, <2>2
  <2>3. CASE userCount' = [userCount EXCEPT ![pri[x]][sid[x]] = @ + 1]
    BY <1>5, <1>6, <1>7, <2>3
  <2>4. CASE userCount' = [userCount EXCEPT ![pri[x]][sid[x]] = @ - 1]
    BY <1>5, <1>6, <1>7, <2>4
  <2>. QED BY <2>2, <2>3, <2>4
<1>. QED BY <1>8 DEF B

CounterInv == PlaceInv /\ CountersExact

(***************************************************************************)
(* FindSReq: the request that is examined moves.                           *)
(***************************************************************************)
LEMMA ExamineFacts ==
  ASSUME PlaceInv, NEW t \in Threads, pc[t] \in Examining, NEW s \in Examining,
         pc' = [pc EXCEPT ![t] = s], UNCHANGED <<held, state, pri, sid>>
  PROVE  /\ held[t] \in Reqs /\ held[t] # NoReq /\ sid[held[t]] \in Users
         /\ held'[t] = held[t] /\ pc'[t] = s /\ Stays(held[t])
<1>1. /\ held[t] \in Reqs /\ held[t] # NoReq /\ state[held[t]] = "Queued"
      /\ sid[held[t]] \in Users
  BY DEF PlaceInv, TypeOK, Locals, OnePlace, HeldOnce, Roles
<1>2. pc'[t] = s /\ \A u \in Threads \ {t} : pc'[u] = pc[u]
  BY DEF PlaceInv, TypeOK
<1>3. ASSUME NEW r \in Reqs \ {held[t]} PROVE Same(r)
  <2>1. /\ Rpc(r) \in Threads /\ Worker(r) \in Threads
    BY ThreadFacts
  <2>2. pc'[Rpc(r)] = pc[Rpc(r)] \/ (pc'[Rpc(r)] \in Examining /\ pc[Rpc(r)] \in Examining)
    BY <1>2, <2>1
  <2>3. pc'[Worker(r)] = pc[Worker(r)]
          \/ (pc'[Worker(r)] \in Examining /\ pc[Worker(r)] \in Examining)
    BY <1>2, <2>1
  <2>. QED BY <1>2, <2>2, <2>3 DEF Same, Examining
<1>. QED BY <1>1, <1>2, <1>3 DEF Stays

\* Before and after such a step, where x is says what it is charged to.
LEMMA ExamineCharges ==
  ASSUME PlaceInv, PlaceInv', NEW t \in Threads, NEW x \in Reqs, x = held[t],
         pc[t] \in Examining, NEW s \in Examining,
         pc' = [pc EXCEPT ![t] = s], UNCHANGED <<held, state, pri, sid>>
  PROVE  /\ WaitOf(x) <=> pc[t] # "activate"
         /\ GroupOf(x) <=> pc[t] \in Examining \ {"incActive", "putBack"}
         /\ UserOf(x) <=> pc[t] \in {"decReq", "activate"}
         /\ WaitOf(x)' <=> s # "activate"
         /\ GroupOf(x)' <=> s \in Examining \ {"incActive", "putBack"}
         /\ UserOf(x)' <=> s \in {"decReq", "activate"}
<1>1. ByPlace /\ ByPlace'
  BY PlaceCharges, PlaceChargesNext
<1>2. x # NoReq /\ held'[t] = x /\ pc'[t] = s
  BY Groups DEF PlaceInv, TypeOK
<1>3. /\ WaitOf(x) <=> pc[t] # "activate"
      /\ GroupOf(x) <=> pc[t] \in Examining \ {"incActive", "putBack"}
      /\ UserOf(x) <=> pc[t] \in {"decReq", "activate"}
  BY <1>1, <1>2 DEF ByPlace
<1>4. /\ WaitOf(x)' <=> pc'[t] # "activate"
      /\ GroupOf(x)' <=> pc'[t] \in Examining \ {"incActive", "putBack"}
      /\ UserOf(x)' <=> pc'[t] \in {"decReq", "activate"}
  BY <1>1, <1>2 DEF ByPlace
<1>. QED BY <1>2, <1>3, <1>4

LEMMA CountExamine ==
  ASSUME CounterInv, PlaceInv', NEW t \in Threads,
         IncActive(t) \/ DecOver(t) \/ IncUser(t) \/ DecActive(t) \/ DecReq(t)
  PROVE  CountersExact'
<1>1. /\ pc[t] \in Examining /\ UNCHANGED <<held, state, pri, sid>>
  BY DEF IncActive, DecOver, IncUser, DecActive, DecReq, request, Examining
<1>2. PICK x \in Reqs : x = held[t]
  BY <1>1 DEF CounterInv, PlaceInv, TypeOK, Locals
<1>3. PICK s \in Examining :
        /\ pc' = [pc EXCEPT ![t] = s]
        /\ reqCount' = IF s = "activate" THEN [reqCount EXCEPT ![pri[x]] = @ - 1]
                       ELSE reqCount
        /\ activeCount' = IF pc[t] = "incActive" THEN [activeCount EXCEPT ![pri[x]] = @ + 1]
                          ELSE IF s = "putBack" THEN [activeCount EXCEPT ![pri[x]] = @ - 1]
                          ELSE activeCount
        /\ userCount' = IF s = "decReq" THEN [userCount EXCEPT ![pri[x]][sid[x]] = @ + 1]
                        ELSE userCount
        /\ <<pc[t], s>> \in {<<"incActive", "decOver">>, <<"incActive", "incUser">>,
                             <<"decOver", "putBack">>, <<"incUser", "decReq">>,
                             <<"incUser", "decActive">>, <<"decActive", "putBack">>,
                             <<"decReq", "activate">>}
  <2>1. CASE IncActive(t)
    BY <1>2, <2>1 DEF IncActive, Examining
  <2>2. CASE DecOver(t)
    BY <1>2, <2>2 DEF DecOver, Examining
  <2>3. CASE IncUser(t)
    BY <1>2, <2>3 DEF IncUser, Examining
  <2>4. CASE DecActive(t)
    BY <1>2, <2>4 DEF DecActive, Examining
  <2>5. CASE DecReq(t)
    BY <1>2, <2>5 DEF DecReq, Examining
  <2>. QED BY <2>1, <2>2, <2>3, <2>4, <2>5
<1>4. /\ TypeOK /\ WaitExact /\ GroupExact /\ UserExact
      /\ Stays(x) /\ sid[x] \in Users /\ pri'[x] = pri[x] /\ sid'[x] = sid[x]
  BY <1>1, <1>2, <1>3, ExamineFacts, ExactParts DEF CounterInv, PlaceInv
<1>5. /\ WaitOf(x) <=> pc[t] # "activate"
      /\ GroupOf(x) <=> pc[t] \in Examining \ {"incActive", "putBack"}
      /\ UserOf(x) <=> pc[t] \in {"decReq", "activate"}
      /\ WaitOf(x)' <=> s # "activate"
      /\ GroupOf(x)' <=> s \in Examining \ {"incActive", "putBack"}
      /\ UserOf(x)' <=> s \in {"decReq", "activate"}
  BY <1>1, <1>2, <1>3, ExamineCharges DEF CounterInv
<1>6. WaitExact'
  BY <1>3, <1>4, <1>5, WaitStep
<1>7. GroupExact'
  BY <1>3, <1>4, <1>5, GroupStep DEF Examining
<1>8. UserExact'
  BY <1>3, <1>4, <1>5, UserStep
<1>. QED BY <1>6, <1>7, <1>8 DEF CountersExact, WaitExact, GroupExact, UserExact

(***************************************************************************)
(* Steps that change no counter, and the charges of no request.            *)
(***************************************************************************)
LEMMA ChargedUser ==
  ASSUME PlaceInv, NEW x \in Reqs
  PROVE  sid[x] \in Users \/ ~UserOf(x)
<1>1. state[x] = "Free" => ~UserOf(x)
  BY PlaceCharges DEF ByPlace
<1>. QED BY <1>1 DEF PlaceInv, Roles

LEMMA QuietCount ==
  ASSUME CounterInv, NEW x \in Reqs, Stays(x), UNCHANGED counters,
         WaitOf(x)' <=> WaitOf(x), GroupOf(x)' <=> GroupOf(x), UserOf(x)' <=> UserOf(x),
         \/ pri'[x] = pri[x] /\ sid'[x] = sid[x]
         \/ ~WaitOf(x) /\ ~GroupOf(x) /\ ~UserOf(x)
  PROVE  CountersExact'
<1>1. /\ TypeOK /\ WaitExact /\ GroupExact /\ UserExact
      /\ UNCHANGED <<reqCount, activeCount, userCount>>
      /\ sid[x] \in Users \/ ~UserOf(x)
  BY ExactParts, ChargedUser DEF CounterInv, PlaceInv, counters
<1>2. WaitExact'
  BY <1>1, WaitStep
<1>3. GroupExact'
  BY <1>1, GroupStep
<1>4. UserExact'
  BY <1>1, UserStep
<1>. QED BY <1>2, <1>3, <1>4 DEF CountersExact, WaitExact, GroupExact, UserExact

\* The steps of a thread at which its own request is charged by where the thread is.
Charging == {"uncount", "enqueue", "decUser", "free"}

\* A thread t moves, and takes up or puts down the request x at most.
LEMMA OthersStay ==
  ASSUME NEW t \in Threads, NEW x \in Reqs,
         \A r \in Reqs \ {x} : /\ state'[r] = state[r] /\ pri'[r] = pri[r]
                               /\ sid'[r] = sid[r]
                               /\ \A u \in Threads : held'[u] = r <=> held[u] = r,
         \A u \in Threads \ {t, Rpc(x), Worker(x)} : pc'[u] = pc[u],
         \/ t \in {Rpc(x), Worker(x)}
         \/ pc[t] \notin Charging /\ pc'[t] \notin Charging,
         held[t] \in {x, NoReq}, held[Rpc(x)] \in {x, NoReq}  \/ pc'[Rpc(x)] = pc[Rpc(x)],
         held[Worker(x)] \in {x, NoReq} \/ pc'[Worker(x)] = pc[Worker(x)]
  PROVE  Stays(x)
<1>1. ASSUME NEW r \in Reqs \ {x} PROVE Same(r)
  <2>1. /\ Rpc(r) \in Threads \ {Rpc(x), Worker(x)}
        /\ Worker(r) \in Threads \ {Rpc(x), Worker(x)}
    BY ThreadFacts, ThreadOf
  <2>2. ASSUME NEW u \in Threads \ {Rpc(x), Worker(x)}
        PROVE  pc'[u] = pc[u] \/ (pc[u] \notin Charging /\ pc'[u] \notin Charging)
    <3>1. CASE u = t
      BY <2>2, <3>1
    <3>2. CASE u # t
      BY <2>2, <3>2
    <3>. QED BY <3>1, <3>2
  <2>3. \A u \in Threads : held[u] = r => pc'[u] = pc[u]
    BY Groups
  <2>4. /\ pc'[Rpc(r)] = pc[Rpc(r)]
             \/ (pc[Rpc(r)] \notin Charging /\ pc'[Rpc(r)] \notin Charging)
        /\ pc'[Worker(r)] = pc[Worker(r)]
             \/ (pc[Worker(r)] \notin Charging /\ pc'[Worker(r)] \notin Charging)
    BY <2>1, <2>2
  <2>. QED BY <2>3, <2>4 DEF Same, Charging
<1>. QED BY <1>1 DEF Stays

LEMMA CountTake ==
  ASSUME CounterInv, PlaceInv', NEW t \in Threads, Take(t)
  PROVE  CountersExact'
<1>. DEFINE g == scan[t] - 1
<1>1. g \in Pri /\ queue[g] \in Seq(Reqs) /\ queue[g] # <<>>
  <2>1. scan[t] \in 0 .. NumPriGroups /\ scan[t] # 0
    BY DEF Take, CounterInv, PlaceInv, TypeOK, Locals
  <2>2. g \in Pri
    BY <2>1, Groups DEF Pri
  <2>. QED BY <2>2 DEF Take, CounterInv, PlaceInv, TypeOK
<1>2. PICK x \in Reqs : x = Head(queue[g]) /\ x = queue[g][1] /\ 1 \in 1 .. Len(queue[g])
  BY <1>1
<1>3. /\ pc[t] = "scan" /\ held[t] = NoReq /\ UNCHANGED <<state, pri, sid>>
      /\ UNCHANGED counters
  BY DEF Take, CounterInv, PlaceInv, Roles, Examining, request
<1>4. /\ pc'[t] = "incActive" /\ \A u \in Threads \ {t} : pc'[u] = pc[u]
      /\ held'[t] = x /\ \A u \in Threads \ {t} : held'[u] = held[u]
  BY <1>2 DEF Take, CounterInv, PlaceInv, TypeOK
<1>5. state[x] = "Queued" /\ \A u \in Threads : held[u] # x
  BY <1>1, <1>2 DEF CounterInv, PlaceInv, OnePlace, QueuedSound
<1>6. Stays(x)
  <2>1. Rpc(x) \in Threads /\ Worker(x) \in Threads /\ x # NoReq
    BY ThreadFacts, Groups
  <2>2. \A r \in Reqs \ {x} : \A u \in Threads : held'[u] = r <=> held[u] = r
    BY <1>3, <1>4, Groups
  <2>. QED BY <1>3, <1>4, <2>1, <2>2, OthersStay DEF Charging
<1>7. WaitOf(x) /\ ~GroupOf(x) /\ ~UserOf(x)
  BY <1>5, PlaceCharges DEF CounterInv, ByPlace
<1>8. WaitOf(x)' /\ ~GroupOf(x)' /\ ~UserOf(x)'
  BY <1>4, PlaceChargesNext, Groups DEF ByPlace
<1>. QED BY <1>3, <1>6, <1>7, <1>8, QuietCount

LEMMA ReturnQuiet == \A t : Return(t) \notin Charging /\ Return(t) \in {"release", "idle"}
BY DEF Return, Charging

LEMMA CountPutBack ==
  ASSUME CounterInv, PlaceInv', NEW t \in Threads, PutBack(t)
  PROVE  CountersExact'
<1>1. PICK x \in Reqs : x = held[t]
  BY DEF PutBack, CounterInv, PlaceInv, TypeOK, Locals, Examining
<1>2. /\ pc[t] = "putBack" /\ x # NoReq /\ UNCHANGED <<state, pri, sid>>
      /\ UNCHANGED counters
  BY <1>1, Groups DEF PutBack, request
<1>3. /\ pc'[t] = Return(t) /\ \A u \in Threads \ {t} : pc'[u] = pc[u]
      /\ held'[t] = NoReq /\ \A u \in Threads \ {t} : held'[u] = held[u]
  BY DEF PutBack, CounterInv, PlaceInv, TypeOK
<1>4. state[x] = "Queued" /\ \A u \in Threads \ {t} : held[u] # x
  BY <1>1, <1>2 DEF CounterInv, PlaceInv, OnePlace, HeldOnce
<1>5. Stays(x)
  <2>1. Rpc(x) \in Threads /\ Worker(x) \in Threads
    BY ThreadFacts
  <2>2. \A r \in Reqs \ {x} : \A u \in Threads : held'[u] = r <=> held[u] = r
    BY <1>1, <1>3, Groups
  <2>. QED BY <1>1, <1>2, <1>3, <2>1, <2>2, ReturnQuiet, OthersStay DEF Charging
<1>6. WaitOf(x) /\ ~GroupOf(x) /\ ~UserOf(x)
  BY <1>1, <1>2, PlaceCharges DEF CounterInv, ByPlace
<1>7. WaitOf(x)' /\ ~GroupOf(x)' /\ ~UserOf(x)'
  <2>1. \A u \in Threads : held'[u] # x
    BY <1>2, <1>3, <1>4
  <2>. QED BY <1>2, <1>4, <2>1, PlaceChargesNext DEF ByPlace
<1>. QED BY <1>2, <1>5, <1>6, <1>7, QuietCount

LEMMA CountActivate ==
  ASSUME CounterInv, PlaceInv', NEW t \in Threads, Activate(t)
  PROVE  CountersExact'
<1>1. PICK x \in Reqs : x = held[t]
  BY DEF Activate, CounterInv, PlaceInv, TypeOK, Locals, Examining
<1>2. /\ pc[t] = "activate" /\ x # NoReq /\ UNCHANGED <<pri, sid>> /\ UNCHANGED counters
      /\ state[x] = "Queued"
  BY <1>1, Groups DEF Activate, CounterInv, PlaceInv, OnePlace, HeldOnce
<1>3. Worker(x) \in Threads /\ pc[Worker(x)] = "idle" /\ held[Worker(x)] = NoReq
  <2>1. Worker(x) \in Threads /\ pc[Worker(x)] = "idle"
    BY <1>2, ThreadFacts DEF CounterInv, PlaceInv, OnePlace, ServedIffActive
  <2>. QED BY <2>1 DEF CounterInv, PlaceInv, Roles, Examining
<1>4. /\ pc'[t] = Return(t) /\ pc'[Worker(x)] = "posted"
      /\ \A u \in Threads \ {t, Worker(x)} : pc'[u] = pc[u]
      /\ held'[t] = NoReq /\ \A u \in Threads \ {t} : held'[u] = held[u]
      /\ state'[x] = "Active" /\ \A r \in Reqs \ {x} : state'[r] = state[r]
  BY <1>1, <1>2, <1>3 DEF Activate, CounterInv, PlaceInv, TypeOK
<1>5. Stays(x)
  <2>1. Rpc(x) \in Threads /\ (Rpc(x) = t \/ pc'[Rpc(x)] = pc[Rpc(x)])
    BY <1>4, ThreadFacts
  <2>2. \A r \in Reqs \ {x} : \A u \in Threads : held'[u] = r <=> held[u] = r
    BY <1>1, <1>4, Groups
  <2>3. \A r \in Reqs \ {x} : state'[r] = state[r] /\ pri'[r] = pri[r] /\ sid'[r] = sid[r]
    BY <1>2, <1>4
  <2>4. pc[t] \notin Charging /\ pc'[t] \notin Charging
    BY <1>2, <1>4, ReturnQuiet DEF Charging
  <2>. QED BY <1>1, <1>3, <1>4, <2>1, <2>2, <2>3, <2>4, OthersStay
<1>6. ~WaitOf(x) /\ GroupOf(x) /\ UserOf(x)
  BY <1>1, <1>2, PlaceCharges DEF CounterInv, ByPlace, Examining
<1>7. ~WaitOf(x)' /\ GroupOf(x)' /\ UserOf(x)'
  BY <1>4, PlaceChargesNext DEF ByPlace
<1>. QED BY <1>2, <1>5, <1>6, <1>7, QuietCount

LEMMA CountSkipEmpty ==
  ASSUME CounterInv, NEW t \in Threads, SkipEmpty(t)
  PROVE  CountersExact'
<1>1. PICK x \in Reqs : t \in {Rpc(x), Worker(x)}
  BY ThreadOf
<1>2. /\ pc[t] = "scan" /\ held[t] = NoReq /\ UNCHANGED <<state, pri, sid, held>>
      /\ UNCHANGED counters /\ x # NoReq
  BY Groups DEF SkipEmpty, CounterInv, PlaceInv, Roles, Examining, request
<1>3. /\ \A u \in Threads \ {t} : pc'[u] = pc[u]
      /\ pc'[t] \notin Charging
  BY <1>2, ReturnQuiet DEF SkipEmpty, CounterInv, PlaceInv, TypeOK, Charging
<1>4. \A r \in Reqs : Same(r)
  <2>1. ASSUME NEW r \in Reqs PROVE Same(r)
    <3>1. Rpc(r) \in Threads /\ Worker(r) \in Threads
      BY ThreadFacts
    <3>2. \A u \in Threads : pc'[u] = pc[u]
                             \/ (pc[u] \notin Charging /\ pc'[u] \notin Charging)
      BY <1>2, <1>3 DEF Charging
    <3>3. \A u \in Threads : held[u] = r => pc'[u] = pc[u]
      BY <1>2, <1>3, Groups
    <3>. QED BY <1>2, <3>1, <3>2, <3>3 DEF Same, Charging
  <2>. QED BY <2>1
<1>5. Stays(x) /\ (WaitOf(x)' <=> WaitOf(x)) /\ (GroupOf(x)' <=> GroupOf(x))
               /\ (UserOf(x)' <=> UserOf(x))
  BY <1>4, SameCharges DEF Stays
<1>. QED BY <1>2, <1>5, QuietCount

(***************************************************************************)
(* The thread of a request moves, or changes its state.                    *)
(***************************************************************************)
LEMMA CountArrive ==
  ASSUME CounterInv, PlaceInv', NEW x \in Reqs, Arrive(x)
  PROVE  CountersExact'
<1>1. PICK s \in {"count", "scan"} : pc' = [pc EXCEPT ![Rpc(x)] = s]
  BY DEF Arrive
<1>2. /\ state[x] = "Free" /\ pc[Rpc(x)] = "idle" /\ held' = held /\ UNCHANGED counters
      /\ Rpc(x) \in Threads /\ held[Rpc(x)] = NoReq
  BY ThreadFacts DEF Arrive, CounterInv, PlaceInv, Roles, Examining
<1>3. PICK p \in Pri, u \in Users :
        pri' = [pri EXCEPT ![x] = p] /\ sid' = [sid EXCEPT ![x] = u]
  BY DEF Arrive, CallerPri
<1>4. /\ pc'[Rpc(x)] = s /\ \A t \in Threads \ {Rpc(x)} : pc'[t] = pc[t]
      /\ state'[x] = "Arrived"
      /\ \A r \in Reqs \ {x} : /\ state'[r] = state[r]
                               /\ pri'[r] = pri[r] /\ sid'[r] = sid[r]
  BY <1>1, <1>2, <1>3 DEF Arrive, CounterInv, PlaceInv, TypeOK
<1>5. Stays(x)
  <2>1. Worker(x) \in Threads /\ Worker(x) # Rpc(x)
    BY ThreadFacts
  <2>2. pc'[Worker(x)] = pc[Worker(x)]
    BY <1>4, <2>1
  <2>. QED BY <1>2, <1>4, <2>2, OthersStay
<1>6. ~WaitOf(x) /\ ~GroupOf(x) /\ ~UserOf(x)
  BY <1>2, PlaceCharges DEF CounterInv, ByPlace
<1>7. ~WaitOf(x)' /\ ~GroupOf(x)' /\ ~UserOf(x)'
  BY <1>4, PlaceChargesNext DEF ByPlace
<1>. QED BY <1>2, <1>5, <1>6, <1>7, QuietCount

LEMMA CountEnqueue ==
  ASSUME CounterInv, PlaceInv', NEW x \in Reqs, Enqueue(x)
  PROVE  CountersExact'
<1>1. /\ pc[Rpc(x)] = "enqueue" /\ state[x] = "Arrived" /\ Rpc(x) \in Threads
      /\ held[Rpc(x)] = NoReq
      /\ UNCHANGED <<pri, sid, held>> /\ UNCHANGED counters
  BY ThreadFacts DEF Enqueue, CounterInv, PlaceInv, Roles, Examining
<1>2. /\ pc'[Rpc(x)] = "scan" /\ \A t \in Threads \ {Rpc(x)} : pc'[t] = pc[t]
      /\ state'[x] = "Queued" /\ \A r \in Reqs \ {x} : state'[r] = state[r]
  BY <1>1 DEF Enqueue, CounterInv, PlaceInv, TypeOK
<1>3. Stays(x)
  <2>1. Worker(x) \in Threads /\ Worker(x) # Rpc(x)
    BY ThreadFacts
  <2>2. pc'[Worker(x)] = pc[Worker(x)]
    BY <1>2, <2>1
  <2>. QED BY <1>1, <1>2, <2>2, OthersStay
<1>4. WaitOf(x) /\ ~GroupOf(x) /\ ~UserOf(x)
  BY <1>1, PlaceCharges DEF CounterInv, ByPlace
<1>5. WaitOf(x)' /\ ~GroupOf(x)' /\ ~UserOf(x)'
  <2>1. \A t \in Threads : held'[t] # x
    BY <1>1, Groups DEF CounterInv, PlaceInv, OnePlace, HeldOnce
  <2>. QED BY <1>2, <2>1, PlaceChargesNext DEF ByPlace
<1>. QED BY <1>1, <1>3, <1>4, <1>5, QuietCount

LEMMA CountHandleFinish ==
  ASSUME CounterInv, PlaceInv', NEW x \in Reqs, Handle(x) \/ Finish(x)
  PROVE  CountersExact'
<1>1. PICK s \in {"serve", "scan", "lost"} : pc' = [pc EXCEPT ![Worker(x)] = s]
  <2>1. CASE Handle(x)
    BY <2>1 DEF Handle
  <2>2. CASE Finish(x)
    BY <2>2 DEF Finish
  <2>. QED BY <2>1, <2>2
<1>2. /\ Worker(x) \in Threads /\ pc[Worker(x)] \in {"posted", "serve"}
      /\ UNCHANGED <<state, pri, sid, held>> /\ UNCHANGED counters
  BY ThreadFacts DEF Handle, Finish, request
<1>3. state[x] = "Active" /\ held[Worker(x)] = NoReq
  BY <1>2 DEF CounterInv, PlaceInv, OnePlace, ServedIffActive, Roles, Examining
<1>4. /\ pc'[Worker(x)] = s /\ \A t \in Threads \ {Worker(x)} : pc'[t] = pc[t]
  BY <1>1, <1>2 DEF CounterInv, PlaceInv, TypeOK
<1>5. Stays(x)
  <2>1. Rpc(x) \in Threads /\ Worker(x) # Rpc(x)
    BY ThreadFacts
  <2>2. pc'[Rpc(x)] = pc[Rpc(x)]
    BY <1>4, <2>1
  <2>. QED BY <1>2, <1>3, <1>4, <2>2, OthersStay
<1>6. ~WaitOf(x) /\ GroupOf(x) /\ UserOf(x)
  BY <1>2, <1>3, PlaceCharges DEF CounterInv, ByPlace
<1>7. ~WaitOf(x)' /\ GroupOf(x)' /\ UserOf(x)'
  BY <1>2, <1>3, <1>4, PlaceChargesNext DEF ByPlace
<1>. QED BY <1>2, <1>5, <1>6, <1>7, QuietCount

LEMMA CountFree ==
  ASSUME CounterInv, PlaceInv', NEW t \in Threads, FreeReq(t)
  PROVE  CountersExact'
<1>1. PICK x \in Reqs : x = Own(t) /\ (t = Rpc(x) \/ t = Worker(x))
  BY OwnType
<1>2. /\ pc[t] = "free" /\ held' = held /\ UNCHANGED counters /\ held[t] = NoReq
      /\ t = Rpc(x) => state[x] = "Arrived"
      /\ t = Worker(x) => state[x] = "Active"
  BY <1>1 DEF FreeReq, CounterInv, PlaceInv, Roles, Examining, OnePlace, ServedIffActive
<1>3. /\ \A u \in Threads \ {t} : pc'[u] = pc[u]
      /\ state'[x] = "Free" /\ \A r \in Reqs \ {x} : /\ state'[r] = state[r]
                                                     /\ pri'[r] = pri[r]
                                                     /\ sid'[r] = sid[r]
      /\ pc'[t] = "idle"
  BY <1>1 DEF FreeReq, CounterInv, PlaceInv, TypeOK
<1>4. Stays(x)
  <2>1. Rpc(x) \in Threads /\ Worker(x) \in Threads /\ Worker(x) # Rpc(x)
    BY ThreadFacts
  <2>2. /\ held[Rpc(x)] = NoReq \/ pc'[Rpc(x)] = pc[Rpc(x)]
        /\ held[Worker(x)] = NoReq \/ pc'[Worker(x)] = pc[Worker(x)]
    BY <1>2, <1>3, <2>1
  <2>. QED BY <1>1, <1>2, <1>3, <2>2, OthersStay
<1>5. ~WaitOf(x) /\ ~GroupOf(x) /\ ~UserOf(x)
  BY <1>1, <1>2, PlaceCharges DEF CounterInv, ByPlace
<1>6. ~WaitOf(x)' /\ ~GroupOf(x)' /\ ~UserOf(x)'
  <2>1. pc'[Rpc(x)] \notin {"uncount", "enqueue"}
    BY <1>3 DEF PlaceInv, Roles
  <2>. QED BY <1>3, <2>1, PlaceChargesNext DEF ByPlace
<1>. QED BY <1>2, <1>4, <1>5, <1>6, QuietCount

LEMMA CountCountUncount ==
  ASSUME CounterInv, PlaceInv', NEW x \in Reqs, Count(x) \/ Uncount(x)
  PROVE  CountersExact'
<1>1. PICK s \in {"uncount", "enqueue", "scan"} :
        /\ pc' = [pc EXCEPT ![Rpc(x)] = s]
        /\ reqCount' = IF s = "scan" THEN [reqCount EXCEPT ![pri[x]] = @ - 1]
                       ELSE [reqCount EXCEPT ![pri[x]] = @ + 1]
        /\ pc[Rpc(x)] = IF s = "scan" THEN "uncount" ELSE "count"
  <2>1. CASE Count(x)
    BY <2>1 DEF Count
  <2>2. CASE Uncount(x)
    BY <2>2 DEF Uncount
  <2>. QED BY <2>1, <2>2
<1>2. /\ Rpc(x) \in Threads /\ state[x] = "Arrived" /\ held[Rpc(x)] = NoReq
      /\ UNCHANGED <<state, pri, sid, held>> /\ UNCHANGED <<activeCount, userCount>>
  <2>1. Rpc(x) \in Threads /\ pc[Rpc(x)] \in {"count", "uncount"}
    BY <1>1, ThreadFacts
  <2>. QED BY <2>1 DEF Count, Uncount, request, CounterInv, PlaceInv, Roles, Examining
<1>3. pc'[Rpc(x)] = s /\ \A t \in Threads \ {Rpc(x)} : pc'[t] = pc[t]
  BY <1>1, <1>2 DEF CounterInv, PlaceInv, TypeOK
<1>4. Stays(x)
  <2>1. Worker(x) \in Threads /\ Worker(x) # Rpc(x)
    BY ThreadFacts
  <2>2. pc'[Worker(x)] = pc[Worker(x)]
    BY <1>3, <2>1
  <2>. QED BY <1>2, <1>3, <2>2, OthersStay
<1>5. /\ WaitOf(x) <=> s = "scan"
      /\ ~GroupOf(x) /\ ~UserOf(x)
  BY <1>1, <1>2, PlaceCharges DEF CounterInv, ByPlace
<1>6. /\ WaitOf(x)' <=> s # "scan"
      /\ ~GroupOf(x)' /\ ~UserOf(x)'
  BY <1>2, <1>3, PlaceChargesNext DEF ByPlace
<1>7. TypeOK /\ WaitExact /\ GroupExact /\ UserExact
  BY ExactParts DEF CounterInv, PlaceInv
<1>8. WaitExact'
  BY <1>1, <1>2, <1>4, <1>5, <1>6, <1>7, WaitStep
<1>9. GroupExact'
  BY <1>2, <1>4, <1>5, <1>6, <1>7, GroupStep
<1>10. UserExact'
  BY <1>2, <1>4, <1>5, <1>6, <1>7, UserStep
<1>. QED BY <1>8, <1>9, <1>10 DEF CountersExact, WaitExact, GroupExact, UserExact

LEMMA CountRelease ==
  ASSUME CounterInv, PlaceInv', NEW t \in Threads, Release(t) \/ DecUser(t)
  PROVE  CountersExact'
<1>1. PICK x \in Reqs : x = Own(t) /\ (t = Rpc(x) \/ t = Worker(x))
  BY OwnType
<1>2. /\ pc[t] \in {"release", "decUser"} /\ held[t] = NoReq
      /\ UNCHANGED <<state, pri, sid, held>> /\ reqCount' = reqCount
      /\ t = Rpc(x) => pc[t] = "release" /\ state[x] = "Arrived"
      /\ t = Worker(x) => state[x] = "Active"
  <2>1. pc[t] \in {"release", "decUser"}
    BY DEF Release, DecUser
  <2>2. /\ held[t] = NoReq
        /\ t = Rpc(x) => pc[t] = "release" /\ state[x] = "Arrived"
        /\ t = Worker(x) => state[x] = "Active"
    BY <1>1, <2>1 DEF CounterInv, PlaceInv, Roles, Examining, OnePlace, ServedIffActive
  <2>. QED BY <1>1, <2>1, <2>2 DEF Release, DecUser, request
<1>3. PICK s \in {"decUser", "free"} :
        /\ pc' = [pc EXCEPT ![t] = s]
        /\ s = "decUser" <=> pc[t] = "release" /\ t = Worker(x)
        /\ activeCount' = IF s = "decUser" THEN [activeCount EXCEPT ![pri[x]] = @ - 1]
                          ELSE activeCount
        /\ userCount' = IF pc[t] = "decUser"
                        THEN [userCount EXCEPT ![pri[x]][sid[x]] = @ - 1]
                        ELSE userCount
  <2>1. CASE Release(t)
    BY <1>1, <1>2, <2>1, ThreadFacts DEF Release
  <2>2. CASE DecUser(t)
    BY <1>1, <1>2, <2>2, ThreadFacts DEF DecUser
  <2>. QED BY <2>1, <2>2
<1>4. pc'[t] = s /\ \A u \in Threads \ {t} : pc'[u] = pc[u]
  BY <1>3 DEF CounterInv, PlaceInv, TypeOK
<1>5. Stays(x)
  <2>1. Rpc(x) \in Threads /\ Worker(x) \in Threads /\ Worker(x) # Rpc(x)
    BY ThreadFacts
  <2>2. /\ held[Rpc(x)] = NoReq \/ pc'[Rpc(x)] = pc[Rpc(x)]
        /\ held[Worker(x)] = NoReq \/ pc'[Worker(x)] = pc[Worker(x)]
    BY <1>2, <1>4, <2>1
  <2>. QED BY <1>1, <1>2, <1>4, <2>2, OthersStay
<1>6. /\ ~WaitOf(x)
      /\ GroupOf(x) <=> t = Worker(x) /\ pc[t] = "release"
      /\ UserOf(x) <=> t = Worker(x)
  <2>1. CASE t = Rpc(x)
    BY <1>1, <1>2, <2>1, PlaceCharges, ThreadFacts DEF CounterInv, ByPlace
  <2>2. CASE t = Worker(x)
    BY <1>1, <1>2, <2>2, PlaceCharges DEF CounterInv, ByPlace
  <2>. QED BY <1>1, <2>1, <2>2
<1>7. /\ ~WaitOf(x)' /\ ~GroupOf(x)'
      /\ UserOf(x)' <=> s = "decUser"
  <2>1. CASE t = Rpc(x)
    BY <1>1, <1>2, <1>3, <1>4, <2>1, PlaceChargesNext, ThreadFacts DEF ByPlace
  <2>2. CASE t = Worker(x)
    BY <1>1, <1>2, <1>3, <1>4, <2>2, PlaceChargesNext DEF ByPlace
  <2>. QED BY <1>1, <2>1, <2>2
<1>8. /\ TypeOK /\ WaitExact /\ GroupExact /\ UserExact
      /\ sid[x] \in Users \/ ~UserOf(x)
  BY ExactParts, ChargedUser DEF CounterInv, PlaceInv
<1>9. WaitExact'
  BY <1>2, <1>5, <1>6, <1>7, <1>8, WaitStep
<1>10. GroupExact'
  BY <1>2, <1>3, <1>5, <1>6, <1>7, <1>8, GroupStep
<1>11. UserExact'
  BY <1>1, <1>2, <1>3, <1>5, <1>6, <1>7, <1>8, UserStep
<1>. QED BY <1>9, <1>10, <1>11 DEF CountersExact, WaitExact, GroupExact, UserExact

LEMMA CounterInit == Init => CountersExact
<1>. SUFFICES ASSUME Init PROVE CountersExact
  OBVIOUS
<1>1. \A p \in Pri : /\ WaitCharged(p) = {} /\ GroupCharged(p) = {}
                     /\ \A u \in Users : UserCharged(p, u) = {}
  BY ThreadFacts DEF Init, WaitCharged, GroupCharged, UserCharged, ExaminedAt, Examining
<1>. QED BY <1>1, FS_EmptySet DEF Init, CountersExact

LEMMA CounterNext == CounterInv /\ [Next]_vars => CounterInv'
<1>. SUFFICES ASSUME CounterInv, [Next]_vars PROVE CounterInv'
  OBVIOUS
<1>1. PlaceInv'
  BY PlaceNext DEF CounterInv
<1>2. CountersExact'
  <2>1. CASE UNCHANGED vars
    <3>1. UNCHANGED <<reqCount, activeCount, userCount, state, pri, sid, pc, held>>
      BY <2>1 DEF vars
    <3>2. /\ \A p : WaitCharged(p)' = WaitCharged(p) /\ GroupCharged(p)' = GroupCharged(p)
          /\ \A p, u : UserCharged(p, u)' = UserCharged(p, u)
      BY <3>1 DEF WaitCharged, GroupCharged, UserCharged, ExaminedAt
    <3>. QED BY <3>1, <3>2 DEF CounterInv, CountersExact
  <2>2. CASE Next
    BY <1>1, <2>2, CountArrive, CountCountUncount, CountEnqueue, CountHandleFinish,
       CountSkipEmpty, CountTake, CountExamine, CountPutBack, CountActivate,
       CountRelease, CountFree
       DEF Next, Find, Shutdown
  <2>. QED BY <2>1, <2>2
<1>. QED BY <1>1, <1>2 DEF CounterInv

\* No counter drifts: whatever arrives, is refused, put back, started, shut down or
\* lost in any order, ServerReqCounters, ServerActiveReqCounters and the counters of
\* the SIDs each count exactly the requests that are charged to them.
THEOREM CountersAlwaysExact == Spec => []CountersExact
<1>1. Init => CounterInv
  BY TypeInit, PlaceInit, CounterInit DEF CounterInv, PlaceInv
<1>2. CounterInv => CountersExact
  BY DEF CounterInv
<1>. QED BY <1>1, <1>2, CounterNext, PTL DEF Spec

(***************************************************************************)
(* Nothing is left behind, unless a search puts a request back.  Each      *)
(* request that is queued in group q or a higher one has a search that has *)
(* not passed group q yet, and no two have the same: so when no thread     *)
(* searches, nothing is queued.                                            *)
(***************************************************************************)
Items(q)     == {r \in Reqs : IsQueued(r) /\ pri[r] >= q}
Searchers(q) == {t \in Threads : pc[t] = "scan" /\ scan[t] > q}

Covered == \A q \in Pri : Cardinality(Items(q)) <= Cardinality(Searchers(q))

\* No search has found a bound exceeded.
NonePutBack == \A t \in Threads : pc[t] # "putBack"

LEMMA SearchSets ==
  /\ IsFiniteSet(Threads)
  /\ \A q : /\ Items(q) \in SUBSET Reqs /\ Searchers(q) \in SUBSET Threads
            /\ IsFiniteSet(Items(q)) /\ IsFiniteSet(Searchers(q))
            /\ Cardinality(Items(q)) \in Nat /\ Cardinality(Searchers(q)) \in Nat
  /\ \A q \in Pri : q \in Nat
<1>1. IsFiniteSet({"rpc", "worker"})
  <2>1. {"rpc", "worker"} = {"rpc"} \cup {"worker"}
    OBVIOUS
  <2>2. {"rpc"} = {} \cup {"rpc"}
    OBVIOUS
  <2>3. IsFiniteSet({"rpc"})
    BY ONLY <2>2, FS_EmptySet, FS_AddElement
  <2>. QED BY <2>1, <2>3, FS_AddElement
<1>2. IsFiniteSet(Threads)
  BY <1>1, SchedulingAssumption, FS_Product DEF Threads
<1>3. ASSUME NEW q
      PROVE  /\ Items(q) \in SUBSET Reqs /\ Searchers(q) \in SUBSET Threads
             /\ IsFiniteSet(Items(q)) /\ IsFiniteSet(Searchers(q))
             /\ Cardinality(Items(q)) \in Nat /\ Cardinality(Searchers(q)) \in Nat
  <2>1. Items(q) \in SUBSET Reqs /\ Searchers(q) \in SUBSET Threads
    BY DEF Items, Searchers
  <2>2. IsFiniteSet(Items(q)) /\ IsFiniteSet(Searchers(q))
    BY <1>2, <2>1, SchedulingAssumption, FS_Subset
  <2>. QED BY <2>1, <2>2, FS_CardinalityType
<1>4. \A q \in Pri : q \in Nat
  BY SchedulingAssumption DEF Pri
<1>. QED BY <1>2, <1>3, <1>4

\* What is queued is queued in its group.
LEMMA QueuedAt ==
  ASSUME PlaceInv, NEW r \in Reqs, IsQueued(r)
  PROVE  /\ pri[r] \in Pri /\ state[r] = "Queued" /\ queue[pri[r]] # <<>>
         /\ \A t \in Threads : held[t] # r
<1>1. PICK p \in Pri : \E i \in 1 .. Len(queue[p]) : queue[p][i] = r
  BY DEF IsQueued
<1>2. queue[p] # <<>>
  <2>1. Len(<<>>) = 0
    OBVIOUS
  <2>. QED BY <1>1, <2>1
<1>. QED BY <1>1, <1>2 DEF PlaceInv, OnePlace, QueuedSound

LEMMA CoveredInit == Init => Covered
<1>. SUFFICES ASSUME Init, NEW q \in Pri PROVE Cardinality(Items(q)) <= Cardinality(Searchers(q))
  BY DEF Covered
<1>1. Items(q) = {}
  BY DEF Init, Items, IsQueued
<1>2. Cardinality(Items(q)) = 0
  BY <1>1, FS_EmptySet
<1>. QED BY <1>2, SearchSets

\* Steps that queue nothing and end no search.
LEMMA CoveredKept ==
  ASSUME Covered, IsFiniteSet(Threads), queue' = queue,
         \A r \in Reqs : IsQueued(r) => pri'[r] = pri[r],
         \A t \in Threads : pc[t] = "scan" => pc'[t] = "scan" /\ scan'[t] = scan[t]
  PROVE  Covered'
<1>1. \A r \in Reqs : IsQueued(r)' => IsQueued(r)
  BY DEF IsQueued
<1>2. ASSUME NEW q \in Pri PROVE Cardinality(Items(q)') <= Cardinality(Searchers(q)')
  <2>1. Items(q)' \subseteq Items(q) /\ Searchers(q) \subseteq Searchers(q)'
    BY <1>1 DEF Items, Searchers
  <2>2. Cardinality(Items(q)') <= Cardinality(Items(q)) /\ Cardinality(Items(q)') \in Nat
    BY <2>1, SearchSets, FS_Subset, FS_CardinalityType
  <2>3. Searchers(q)' \subseteq Threads
    BY DEF Searchers
  <2>4. IsFiniteSet(Searchers(q)') /\ Cardinality(Searchers(q)') \in Nat
    BY <2>3, FS_Subset, FS_CardinalityType
  <2>5. Cardinality(Searchers(q)) <= Cardinality(Searchers(q)')
    BY <2>1, <2>4, FS_Subset
  <2>. QED BY <2>2, <2>4, <2>5, SearchSets DEF Covered
<1>. QED BY <1>2 DEF Covered

LEMMA CoveredEnqueue ==
  ASSUME PlaceInv, Covered, NEW r \in Reqs, Enqueue(r)
  PROVE  Covered'
<1>. DEFINE t == Rpc(r)
<1>1. /\ t \in Threads /\ pc[t] = "enqueue" /\ pri' = pri /\ queue' \in Added(r)
      /\ state[r] = "Arrived"
  BY ThreadFacts DEF Enqueue, PlaceInv, Roles
<1>2. /\ pc'[t] = "scan" /\ scan'[t] = NumPriGroups
      /\ \A x \in Threads \ {t} : pc'[x] = pc[x] /\ scan'[x] = scan[x]
  BY <1>1 DEF Enqueue, PlaceInv, TypeOK, FirstGroup
<1>3. ~IsQueued(r)
  BY <1>1, QueuedAt
<1>4. \A x \in Reqs \ {r} : IsQueued(x)' => IsQueued(x)
  <2>1. \A p \in Pri : \A i \in 1 .. Len(queue'[p]) :
           \/ queue'[p][i] = r /\ p = pri[r]
           \/ \E j \in 1 .. Len(queue[p]) : queue'[p][i] = queue[p][j]
    BY <1>1, <1>3, AddedOnce
  <2>. QED BY <2>1 DEF IsQueued
<1>. HIDE DEF t
<1>5. ASSUME NEW q \in Pri PROVE Cardinality(Items(q)') <= Cardinality(Searchers(q)')
  <2>. DEFINE I == Items(q) J == Items(q)' K == J \ {r}
              S == Searchers(q) T == Searchers(q)'
  <2>1. K \subseteq I /\ J \subseteq Reqs
    BY <1>1, <1>4 DEF Items
  <2>2. t \notin S /\ T = S \cup {t}
    <3>1. NumPriGroups > q
      BY SchedulingAssumption DEF Pri
    <3>. QED BY <1>1, <1>2, <3>1 DEF Searchers
  <2>3. IsFiniteSet(I) /\ IsFiniteSet(S) /\ Cardinality(I) \in Nat /\ Cardinality(S) \in Nat
    BY SearchSets
  <2>. HIDE DEF I, J, S, T
  <2>4. Cardinality(T) = Cardinality(S) + 1
    BY <2>2, <2>3, FS_AddElement
  <2>5. IsFiniteSet(J) /\ IsFiniteSet(K)
    BY <2>1, SchedulingAssumption, FS_Subset
  <2>6. Cardinality(K) <= Cardinality(I) /\ Cardinality(K) \in Nat
    BY <2>1, <2>3, <2>5, FS_Subset, FS_CardinalityType
  <2>7. Cardinality(J) \in {Cardinality(K), Cardinality(K) + 1}
    <3>1. r \notin J => J = K
      OBVIOUS
    <3>2. r \in J => Cardinality(K) = Cardinality(J) - 1
      BY <2>5, FS_RemoveElement
    <3>3. Cardinality(J) \in Nat
      BY <2>5, FS_CardinalityType
    <3>. QED BY <3>1, <3>2, <3>3
  <2>8. Cardinality(I) <= Cardinality(S)
    BY DEF Covered, I, S
  <2>. QED BY <2>3, <2>4, <2>6, <2>7, <2>8 DEF J, T
<1>. QED BY <1>5 DEF Covered

LEMMA CoveredTake ==
  ASSUME PlaceInv, PlaceInv', Covered, NEW t \in Threads, Take(t)
  PROVE  Covered'
<1>. DEFINE g == scan[t] - 1
<1>1. g \in Pri /\ queue[g] \in Seq(Reqs) /\ queue[g] # <<>> /\ scan[t] \in Nat
  <2>1. scan[t] \in 0 .. NumPriGroups /\ scan[t] # 0
    BY DEF Take, PlaceInv, TypeOK, Locals
  <2>2. g \in Pri
    BY <2>1, Groups DEF Pri
  <2>. QED BY <2>1, <2>2 DEF Take, PlaceInv, TypeOK
<1>2. PICK r \in Reqs : /\ r = Head(queue[g]) /\ r = queue[g][1]
                        /\ Len(queue[g]) \in Nat /\ 1 \in 1 .. Len(queue[g])
  BY <1>1
<1>3. /\ pc[t] = "scan" /\ pri' = pri
      /\ pc'[t] # "scan" /\ \A x \in Threads \ {t} : pc'[x] = pc[x] /\ scan'[x] = scan[x]
      /\ held'[t] = r
  BY <1>2 DEF Take, PlaceInv, TypeOK, request
<1>4. queue'[g] = Tail(queue[g]) /\ \A p \in Pri \ {g} : queue'[p] = queue[p]
  BY <1>1 DEF Take, PlaceInv, TypeOK
<1>5. \A i \in 1 .. Len(queue'[g]) : i + 1 \in 1 .. Len(queue[g])
                                     /\ queue'[g][i] = queue[g][i + 1]
  BY <1>1, <1>4
<1>. HIDE DEF g
<1>6. \A x \in Reqs : IsQueued(x)' => IsQueued(x)
  <2>. SUFFICES ASSUME NEW x \in Reqs, IsQueued(x)' PROVE IsQueued(x)
    OBVIOUS
  <2>1. PICK p \in Pri : \E i \in 1 .. Len(queue'[p]) : queue'[p][i] = x
    BY DEF IsQueued
  <2>2. CASE p = g
    BY <1>5, <2>1, <2>2 DEF IsQueued
  <2>3. CASE p # g
    BY <1>4, <2>1, <2>3 DEF IsQueued
  <2>. QED BY <2>2, <2>3
<1>7. IsQueued(r) /\ pri[r] = g
  BY <1>1, <1>2 DEF IsQueued, PlaceInv, OnePlace, QueuedSound
<1>8. ~IsQueued(r)'
  <2>1. \A p \in Pri : \A i \in 1 .. Len(queue'[p]) : held'[t] # queue'[p][i]
    BY DEF PlaceInv, OnePlace, QueuedSound
  <2>. QED BY <1>3, <2>1 DEF IsQueued
<1>9. ASSUME NEW q \in Pri PROVE Cardinality(Items(q)') <= Cardinality(Searchers(q)')
  <2>. DEFINE I == Items(q) J == Items(q)' S == Searchers(q) T == Searchers(q)'
  <2>0. q \in Nat /\ g \in Nat /\ (scan[t] > q <=> g >= q)
    BY <1>1, SearchSets DEF g
  <2>1. J \subseteq I \ {r}
    <3>1. ASSUME NEW x \in Reqs, IsQueued(x)', pri[x] >= q
          PROVE  x \in I /\ x # r
      BY <1>6, <1>8, <3>1 DEF Items
    <3>. QED BY <1>3, <3>1 DEF Items
  <2>2. T = S \ {t}
    BY <1>3 DEF Searchers
  <2>3. IsFiniteSet(I) /\ IsFiniteSet(S) /\ Cardinality(I) \in Nat /\ Cardinality(S) \in Nat
    BY SearchSets
  <2>4. r \in I <=> t \in S
    BY <1>2, <1>3, <1>7, <2>0 DEF Items, Searchers
  <2>5. Cardinality(I) <= Cardinality(S)
    BY DEF Covered
  <2>. HIDE DEF I, J, S, T
  <2>6. CASE r \in I
    <3>1. Cardinality(I \ {r}) = Cardinality(I) - 1 /\ IsFiniteSet(I \ {r})
      BY <2>3, <2>6, FS_RemoveElement
    <3>2. Cardinality(T) = Cardinality(S) - 1
      BY <2>2, <2>3, <2>4, <2>6, FS_RemoveElement
    <3>3. Cardinality(J) <= Cardinality(I \ {r}) /\ Cardinality(J) \in Nat
      BY <2>1, <3>1, FS_Subset, FS_CardinalityType
    <3>. QED BY <2>3, <2>5, <3>1, <3>2, <3>3 DEF J, T
  <2>7. CASE r \notin I
    <3>1. T = S
      BY <2>2, <2>4, <2>7
    <3>2. Cardinality(J) <= Cardinality(I) /\ Cardinality(J) \in Nat
      BY <2>1, <2>3, FS_Subset, FS_CardinalityType
    <3>. QED BY <2>3, <2>5, <3>1, <3>2 DEF J, T
  <2>. QED BY <2>6, <2>7
<1>. QED BY <1>9 DEF Covered

LEMMA CoveredSkipEmpty ==
  ASSUME PlaceInv, Covered, NEW t \in Threads, SkipEmpty(t)
  PROVE  Covered'
<1>. DEFINE g == scan[t] - 1
<1>1. g \in Pri /\ g \in Nat /\ scan[t] = g + 1 /\ queue[g] = <<>> /\ pc[t] = "scan"
  <2>1. scan[t] \in 0 .. NumPriGroups /\ scan[t] # 0
    BY DEF SkipEmpty, PlaceInv, TypeOK, Locals
  <2>2. g \in Pri
    BY <2>1, Groups DEF Pri
  <2>. QED BY <2>1, <2>2, SearchSets DEF SkipEmpty
<1>2. /\ queue' = queue /\ pri' = pri
      /\ scan'[t] = g /\ (g # 0 => pc'[t] = "scan") /\ (g = 0 => pc'[t] # "scan")
      /\ \A x \in Threads \ {t} : pc'[x] = pc[x] /\ scan'[x] = scan[x]
  BY <1>1 DEF SkipEmpty, Return, PlaceInv, TypeOK, request
<1>. HIDE DEF g
<1>3. ASSUME NEW q \in Pri PROVE Cardinality(Items(q)') <= Cardinality(Searchers(q)')
  <2>0. q \in Nat /\ \A r \in Reqs : pri[r] \in Nat
    BY SearchSets DEF PlaceInv, TypeOK
  <2>1. Items(q)' = Items(q)
    BY <1>2 DEF Items, IsQueued
  <2>2. CASE q # g
    <3>1. t \in Searchers(q) <=> t \in Searchers(q)'
      BY <1>1, <1>2, <2>0, <2>2 DEF Searchers
    <3>2. Searchers(q)' = Searchers(q)
      BY <1>2, <3>1 DEF Searchers
    <3>. QED BY <2>1, <3>2 DEF Covered
  <2>3. CASE q = g
    <3>1. ASSUME NEW r \in Items(q) PROVE pri[r] \in Pri /\ pri[r] >= q + 1
      <4>1. r \in Reqs /\ IsQueued(r) /\ pri[r] >= q
        BY DEF Items
      <4>2. pri[r] \in Pri /\ queue[pri[r]] # <<>>
        BY <4>1, QueuedAt
      <4>3. pri[r] # g
        BY <1>1, <4>2
      <4>4. pri[r] \in Nat
        BY <2>0, <4>1
      <4>. QED BY <2>0, <2>3, <4>1, <4>2, <4>3, <4>4
    <3>2. CASE q + 1 \in Pri
      <4>1. Items(q) = Items(q + 1)
        <5>1. Items(q + 1) \subseteq Items(q)
          BY <2>0 DEF Items
        <5>2. Items(q) \subseteq Items(q + 1)
          BY <3>1 DEF Items
        <5>. QED BY <5>1, <5>2
      <4>2. Searchers(q + 1) \subseteq Searchers(q)'
        <5>1. t \notin Searchers(q + 1)
          BY <1>1, <2>0, <2>3 DEF Searchers
        <5>2. ASSUME NEW x \in Threads \ {t}, pc[x] = "scan", scan[x] > q + 1
              PROVE  x \in Searchers(q)'
          <6>1. scan[x] \in Nat
            BY DEF PlaceInv, TypeOK
          <6>2. scan[x] > q
            BY <2>0, <5>2, <6>1
          <6>. QED BY <1>2, <5>2, <6>2 DEF Searchers
        <5>. QED BY <5>1, <5>2 DEF Searchers
      <4>3. Searchers(q)' \subseteq Threads
        BY DEF Searchers
      <4>4. IsFiniteSet(Searchers(q)') /\ Cardinality(Searchers(q)') \in Nat
        BY <4>3, SearchSets, FS_Subset, FS_CardinalityType
      <4>5. Cardinality(Searchers(q + 1)) <= Cardinality(Searchers(q)')
        BY <4>2, <4>4, FS_Subset
      <4>6. Cardinality(Items(q + 1)) <= Cardinality(Searchers(q + 1))
        BY <3>2 DEF Covered
      <4>. QED BY <2>1, <4>1, <4>4, <4>5, <4>6, SearchSets
    <3>3. CASE q + 1 \notin Pri
      <4>1. Items(q) = {}
        <5>1. \A p \in Pri : p \in Nat /\ ~(p >= q + 1)
          BY <2>0, <3>3, SchedulingAssumption DEF Pri
        <5>. QED BY <3>1, <5>1
      <4>2. Cardinality(Items(q)) = 0
        BY <4>1, FS_EmptySet
      <4>3. Searchers(q)' \subseteq Threads
        BY DEF Searchers
      <4>4. Cardinality(Searchers(q)') \in Nat
        BY <4>3, SearchSets, FS_Subset, FS_CardinalityType
      <4>. QED BY <2>1, <4>2, <4>4
    <3>. QED BY <3>2, <3>3
  <2>. QED BY <2>2, <2>3
<1>. QED BY <1>3 DEF Covered

LEMMA CoveredNext == PlaceInv /\ Covered /\ NonePutBack /\ [Next]_vars => Covered'
<1>. SUFFICES ASSUME PlaceInv, Covered, NonePutBack, [Next]_vars PROVE Covered'
  OBVIOUS
<1>. DEFINE Kept == /\ queue' = queue
                    /\ \A r \in Reqs : IsQueued(r) => pri'[r] = pri[r]
                    /\ \A t \in Threads : pc[t] = "scan" => pc'[t] = "scan" /\ scan'[t] = scan[t]
<1>1. PlaceInv'
  BY PlaceNext
<1>2. CASE UNCHANGED vars
  BY <1>2, CoveredKept, SearchSets DEF vars
<1>3. ASSUME NEW r \in Reqs, Arrive(r) PROVE Kept
  <2>1. ~IsQueued(r)
    BY <1>3, QueuedAt DEF Arrive
  <2>2. queue' = queue /\ \A x \in Reqs \ {r} : pri'[x] = pri[x]
    BY <1>3 DEF Arrive, PlaceInv, TypeOK
  <2>3. \A t \in Threads : pc[t] = "scan" => pc'[t] = "scan" /\ scan'[t] = scan[t]
    BY <1>3 DEF Arrive, PlaceInv, TypeOK
  <2>. QED BY <2>1, <2>2, <2>3
<1>4. ASSUME NEW r \in Reqs, Count(r) \/ Uncount(r) \/ Handle(r) \/ Finish(r) PROVE Kept
  <2>1. queue' = queue /\ pri' = pri
    BY <1>4 DEF Count, Uncount, Handle, Finish, request
  <2>2. \A t \in Threads : pc[t] = "scan" => pc'[t] = "scan" /\ scan'[t] = scan[t]
    BY <1>4 DEF Count, Uncount, Handle, Finish, PlaceInv, TypeOK
  <2>. QED BY <2>1, <2>2
<1>5. ASSUME NEW t \in Threads,
             IncActive(t) \/ DecOver(t) \/ IncUser(t) \/ DecActive(t) \/ DecReq(t)
      PROVE  Kept
  <2>1. queue' = queue /\ pri' = pri
    BY <1>5 DEF IncActive, DecOver, IncUser, DecActive, DecReq, request
  <2>2. \A x \in Threads : pc[x] = "scan" => pc'[x] = "scan" /\ scan'[x] = scan[x]
    BY <1>5 DEF IncActive, DecOver, IncUser, DecActive, DecReq, PlaceInv, TypeOK
  <2>. QED BY <2>1, <2>2
<1>6. ASSUME NEW t \in Threads, Activate(t) PROVE Kept
  <2>1. queue' = queue /\ pri' = pri /\ scan' = scan
    BY <1>6 DEF Activate
  <2>2. held[t] \in Reqs /\ state[held[t]] = "Queued"
    BY <1>6 DEF Activate, PlaceInv, TypeOK, Locals, Examining, OnePlace, HeldOnce
  <2>3. pc[Worker(held[t])] = "idle"
    BY <2>2 DEF PlaceInv, OnePlace, ServedIffActive
  <2>4. \A x \in Threads : pc[x] = "scan" => pc'[x] = "scan"
    BY <1>6, <2>3 DEF Activate, PlaceInv, TypeOK
  <2>. QED BY <2>1, <2>4
<1>7. ASSUME NEW t \in Threads, Release(t) \/ DecUser(t) PROVE Kept
  <2>1. queue' = queue /\ pri' = pri
    BY <1>7 DEF Release, DecUser, request
  <2>2. \A x \in Threads : pc[x] = "scan" => pc'[x] = "scan" /\ scan'[x] = scan[x]
    BY <1>7 DEF Release, DecUser, PlaceInv, TypeOK
  <2>. QED BY <2>1, <2>2
<1>8. ASSUME NEW t \in Threads, FreeReq(t) PROVE Kept
  <2>1. state[Own(t)] # "Queued" /\ Own(t) \in Reqs
    <3>1. pc[t] = "free" /\ Own(t) \in Reqs /\ (t = Rpc(Own(t)) \/ t = Worker(Own(t)))
      BY <1>8, OwnType DEF FreeReq
    <3>. QED BY <3>1 DEF PlaceInv, Roles, OnePlace, ServedIffActive
  <2>2. ~IsQueued(Own(t))
    BY <2>1, QueuedAt
  <2>3. queue' = queue /\ \A x \in Reqs \ {Own(t)} : pri'[x] = pri[x]
    BY <1>8 DEF FreeReq, PlaceInv, TypeOK
  <2>4. \A x \in Threads : pc[x] = "scan" => pc'[x] = "scan" /\ scan'[x] = scan[x]
    BY <1>8 DEF FreeReq, PlaceInv, TypeOK
  <2>. QED BY <2>2, <2>3, <2>4
<1>9. Kept => Covered'
  BY CoveredKept, SearchSets
<1>10. ASSUME NEW t \in Threads, PutBack(t) PROVE FALSE
  BY <1>10 DEF PutBack, NonePutBack
<1>. HIDE DEF Kept
<1>. QED BY <1>1, <1>2, <1>3, <1>4, <1>5, <1>6, <1>7, <1>8, <1>9, <1>10, CoveredEnqueue,
            CoveredTake, CoveredSkipEmpty DEF Next, Find, Shutdown

LEMMA CoveredIsServed ==
  ASSUME PlaceInv, Covered
  PROVE  NoStranded
<1>. SUFFICES ASSUME \A t \in Threads : pc[t] = "idle", NEW p \in Pri PROVE queue[p] = <<>>
  BY DEF NoStranded
<1>1. Searchers(0) = {}
  BY DEF Searchers
<1>2. Cardinality(Items(0)) = 0
  BY <1>1, FS_EmptySet, SearchSets, Groups DEF Covered
<1>3. Items(0) = {}
  BY <1>2, SearchSets, FS_EmptySet
<1>4. ASSUME queue[p] # <<>> PROVE FALSE
  <2>1. queue[p] \in Seq(Reqs)
    BY DEF PlaceInv, TypeOK
  <2>2. 1 \in 1 .. Len(queue[p]) /\ queue[p][1] \in Reqs
    BY <1>4, <2>1
  <2>3. IsQueued(queue[p][1])
    BY <2>2 DEF IsQueued
  <2>4. pri[queue[p][1]] \in Pri /\ queue[p][1] \notin Items(0)
    BY <1>3, <2>2, <2>3, QueuedAt
  <2>. QED BY <2>2, <2>3, <2>4, SearchSets DEF Items
<1>. QED BY <1>4

\* As long as no search has put a request back, no queued request is left behind when
\* nothing runs and nothing is served: each has a search to find it, even when other
\* searches pass its queue before it comes.
THEOREM NoneStranded == Spec /\ []NonePutBack => []NoStranded
<1>1. Init => PlaceInv /\ Covered
  BY TypeInit, PlaceInit, CoveredInit DEF PlaceInv
<1>2. NonePutBack /\ PlaceInv /\ Covered /\ [Next]_vars => (PlaceInv /\ Covered)'
  BY PlaceNext, CoveredNext
<1>3. PlaceInv /\ Covered => NoStranded
  BY CoveredIsServed
<1>. QED BY <1>1, <1>2, <1>3, PTL DEF Spec

\* When every request has room under every bound, no search finds one exceeded.
NoneRefused == \A t \in Threads : pc[t] \notin {"decOver", "decActive", "putBack"}

LEMMA OneLess ==
  ASSUME NEW A \in SUBSET Reqs, NEW x \in Reqs, x \notin A
  PROVE  /\ Cardinality(A) \in Nat /\ Cardinality(Reqs) \in Nat
         /\ Cardinality(A) + 1 <= Cardinality(Reqs)
<1>. DEFINE B == Reqs \ {x}
<1>1. IsFiniteSet(Reqs) /\ IsFiniteSet(B) /\ IsFiniteSet(A) /\ A \subseteq B
  BY SchedulingAssumption, FS_Subset
<1>2. Cardinality(B) = Cardinality(Reqs) - 1
  BY <1>1, FS_RemoveElement
<1>. HIDE DEF B
<1>3. Cardinality(A) <= Cardinality(B)
  BY <1>1, FS_Subset
<1>4. /\ Cardinality(A) \in Nat /\ Cardinality(B) \in Nat /\ Cardinality(Reqs) \in Nat
  BY <1>1, FS_CardinalityType
<1>. QED BY <1>2, <1>3, <1>4

LEMMA Fits ==
  ASSUME CounterInv, NEW t \in Threads,
         \A p \in Pri : Cardinality(Reqs) <= ServerActiveReqBounds[p],
         Cardinality(Reqs) <= MaxUserReqs
  PROVE  /\ IncActive(t) => ~Exceeds(activeCount[pri[held[t]]] + 1,
                                     ServerActiveReqBounds[pri[held[t]]])
         /\ IncUser(t) => ~Exceeds(userCount[pri[held[t]]][sid[held[t]]] + 1, MaxUserReqs)
<1>. SUFFICES ASSUME pc[t] \in {"incActive", "incUser"}
              PROVE  /\ pc[t] = "incActive"
                          => ~Exceeds(activeCount[pri[held[t]]] + 1,
                                      ServerActiveReqBounds[pri[held[t]]])
                     /\ pc[t] = "incUser"
                          => ~Exceeds(userCount[pri[held[t]]][sid[held[t]]] + 1, MaxUserReqs)
  BY DEF IncActive, IncUser
<1>1. PICK r \in Reqs : r = held[t] /\ pri[r] \in Pri /\ sid[r] \in Users
  <2>1. held[t] \in Reqs /\ held[t] # NoReq
    BY DEF CounterInv, PlaceInv, TypeOK, Locals, Examining
  <2>2. state[held[t]] = "Queued"
    BY <2>1 DEF CounterInv, PlaceInv, OnePlace, HeldOnce
  <2>. QED BY <2>1, <2>2 DEF CounterInv, PlaceInv, TypeOK, Roles
<1>2. PICK p \in Pri, u \in Users : p = pri[r] /\ u = sid[r]
  BY <1>1
<1>3. /\ pc[t] = "incActive" => r \notin GroupCharged(p)
      /\ pc[t] = "incUser" => r \notin UserCharged(p, u)
  <2>1. held[t] # NoReq
    BY <1>1, SchedulingAssumption
  <2>. QED BY <1>1, <2>1, PlaceCharges, ChargedSets DEF CounterInv, ByPlace
<1>4. GroupCharged(p) \in SUBSET Reqs /\ UserCharged(p, u) \in SUBSET Reqs
  BY DEF GroupCharged, UserCharged
<1>5. /\ activeCount[p] = Cardinality(GroupCharged(p))
      /\ userCount[p][u] = Cardinality(UserCharged(p, u))
  BY DEF CounterInv, CountersExact
<1>6. ServerActiveReqBounds[p] \in Nat /\ MaxUserReqs \in Nat
  BY SchedulingAssumption
<1>7. ASSUME pc[t] = "incActive"
      PROVE  ~Exceeds(activeCount[p] + 1, ServerActiveReqBounds[p])
  <2>1. /\ Cardinality(GroupCharged(p)) \in Nat /\ Cardinality(Reqs) \in Nat
        /\ Cardinality(GroupCharged(p)) + 1 <= Cardinality(Reqs)
    BY <1>3, <1>4, <1>7, OneLess
  <2>. QED BY <1>5, <1>6, <2>1 DEF Exceeds
<1>8. ASSUME pc[t] = "incUser"
      PROVE  ~Exceeds(userCount[p][u] + 1, MaxUserReqs)
  <2>1. /\ Cardinality(UserCharged(p, u)) \in Nat /\ Cardinality(Reqs) \in Nat
        /\ Cardinality(UserCharged(p, u)) + 1 <= Cardinality(Reqs)
    BY <1>3, <1>4, <1>8, OneLess
  <2>. QED BY <1>5, <1>6, <2>1 DEF Exceeds
<1>. QED BY <1>1, <1>2, <1>7, <1>8

LEMMA NoneRefusedNext ==
  ASSUME \A p \in Pri : Cardinality(Reqs) <= ServerActiveReqBounds[p],
         Cardinality(Reqs) <= MaxUserReqs
  PROVE  CounterInv /\ NoneRefused /\ [Next]_vars => NoneRefused'
<1>. SUFFICES ASSUME CounterInv, NoneRefused, [Next]_vars PROVE NoneRefused'
  OBVIOUS
<1>. DEFINE Refused == {"decOver", "decActive", "putBack"}
            Never == \A t \in Threads : pc'[t] \in Refused => pc[t] \in Refused
<1>0. TypeOK
  BY DEF CounterInv, PlaceInv
<1>1. CASE UNCHANGED vars
  BY <1>1 DEF vars, NoneRefused
<1>2. ASSUME NEW r \in Reqs, Arrive(r) \/ Count(r) \/ Uncount(r) \/ Enqueue(r)
                               \/ Handle(r) \/ Finish(r)
      PROVE  Never
  BY <1>0, <1>2 DEF Arrive, Count, Uncount, Enqueue, Handle, Finish, TypeOK
<1>3. ASSUME NEW t \in Threads, SkipEmpty(t) \/ Take(t) \/ PutBack(t) \/ DecReq(t)
                                  \/ Activate(t) \/ Shutdown(t)
      PROVE  Never
  <2>1. Return(t) \notin Refused
    BY ReturnQuiet
  <2>. QED BY <1>0, <1>3, <2>1 DEF SkipEmpty, Take, PutBack, DecReq, Activate, Shutdown,
                                   Release, DecUser, FreeReq, TypeOK
<1>4. ASSUME NEW t \in Threads, IncActive(t) PROVE Never
  BY <1>0, <1>4, Fits DEF IncActive, TypeOK
<1>5. ASSUME NEW t \in Threads, IncUser(t) PROVE Never
  BY <1>0, <1>5, Fits DEF IncUser, TypeOK
<1>6. ASSUME NEW t \in Threads, DecOver(t) \/ DecActive(t) PROVE FALSE
  BY <1>6 DEF DecOver, DecActive, NoneRefused
<1>7. Never => NoneRefused'
  BY DEF NoneRefused
<1>. HIDE DEF Never
<1>. QED BY <1>1, <1>2, <1>3, <1>4, <1>5, <1>6, <1>7 DEF Next, Find

\* With bounds that leave room for every request, no queued request is left behind when
\* nothing runs and nothing is served, whatever else fails: the bounds are what a
\* request can be left behind for.
THEOREM NoneStrandedWithRoom ==
  ASSUME \A p \in Pri : Cardinality(Reqs) <= ServerActiveReqBounds[p],
         Cardinality(Reqs) <= MaxUserReqs
  PROVE  Spec => []NoStranded
<1>1. Init => CounterInv /\ NoneRefused
  BY TypeInit, PlaceInit, CounterInit DEF CounterInv, PlaceInv, Init, NoneRefused
<1>2. CounterInv /\ NoneRefused /\ [Next]_vars => (CounterInv /\ NoneRefused)'
  BY CounterNext, NoneRefusedNext
<1>3. NoneRefused => NonePutBack
  BY DEF NoneRefused, NonePutBack
<1>. QED BY <1>1, <1>2, <1>3, NoneStranded, PTL DEF Spec

(***************************************************************************)
(* The bounds.  CounterIncrement counts before it tests, so that the count *)
(* may be beyond the bound for a while; what is never beyond it is the     *)
(* number of the requests that were accepted.                              *)
(***************************************************************************)
Accepting == {"incUser", "decActive", "decReq", "activate"}
AcceptedOf(r) == \/ ExaminedAt(r, Accepting)
                 \/ state[r] = "Active" /\ pc[Worker(r)] \notin {"decUser", "free"}
Accepted(p) == {r \in Reqs : pri[r] = p /\ AcceptedOf(r)}

Bounded == \A p \in Pri : /\ Cardinality(Accepted(p)) <= ServerActiveReqBounds[p]
                          /\ \A u \in Users : userCount[p][u] <= MaxUserReqs

BoundInv == CounterInv /\ Bounded

LEMMA BoundsSuffice == BoundInv => ActiveWithinBounds
<1>. SUFFICES ASSUME BoundInv, NEW p \in Pri
              PROVE  /\ Cardinality(Served(p)) <= ServerActiveReqBounds[p]
                     /\ \A u \in Users : Cardinality(ServedFor(p, u)) <= MaxUserReqs
  BY DEF ActiveWithinBounds
<1>1. /\ IsFiniteSet(Accepted(p)) /\ Cardinality(Accepted(p)) \in Nat
      /\ ServerActiveReqBounds[p] \in Nat /\ MaxUserReqs \in Nat
  <2>1. Accepted(p) \in SUBSET Reqs
    BY DEF Accepted
  <2>. QED BY <2>1, SchedulingAssumption, FS_Subset, FS_CardinalityType
<1>2. Served(p) \in SUBSET Accepted(p)
  BY DEF Served, Accepted, AcceptedOf
<1>3. Cardinality(Served(p)) <= Cardinality(Accepted(p)) /\ Cardinality(Served(p)) \in Nat
  BY <1>1, <1>2, FS_Subset, FS_CardinalityType
<1>4. ASSUME NEW u \in Users PROVE Cardinality(ServedFor(p, u)) <= MaxUserReqs
  <2>1. ServedFor(p, u) \in SUBSET UserCharged(p, u) /\ UserCharged(p, u) \in SUBSET Reqs
    BY DEF ServedFor, Served, UserCharged
  <2>2. IsFiniteSet(UserCharged(p, u)) /\ Cardinality(UserCharged(p, u)) \in Nat
    BY <2>1, SchedulingAssumption, FS_Subset, FS_CardinalityType
  <2>3. /\ Cardinality(ServedFor(p, u)) <= Cardinality(UserCharged(p, u))
        /\ Cardinality(ServedFor(p, u)) \in Nat
    BY <2>1, <2>2, FS_Subset, FS_CardinalityType
  <2>4. userCount[p][u] = Cardinality(UserCharged(p, u)) /\ userCount[p][u] <= MaxUserReqs
    BY DEF BoundInv, CounterInv, CountersExact, Bounded
  <2>. QED BY <1>1, <2>2, <2>3, <2>4
<1>5. Cardinality(Accepted(p)) <= ServerActiveReqBounds[p]
  BY DEF BoundInv, Bounded
<1>. QED BY <1>1, <1>3, <1>4, <1>5

\* Only an increment within the bound makes a request accepted.
IncWithin(t) ==
  /\ IncActive(t)
  /\ ~Exceeds(activeCount[pri[held[t]]] + 1, ServerActiveReqBounds[pri[held[t]]])

LEMMA AcceptedKept ==
  ASSUME PlaceInv, PlaceInv', NEW r \in Reqs, AcceptedOf(r)',
         state'[r] \notin {"Free", "Arrived"} => pri'[r] = pri[r],
         \A u \in Threads : held'[u] = r /\ pc'[u] \in Accepting
                           => held[u] = r /\ pc[u] \in Accepting,
         state'[r] = "Active" /\ pc'[Worker(r)] \notin {"decUser", "free"} => AcceptedOf(r)
  PROVE  AcceptedOf(r) /\ pri'[r] = pri[r]
<1>1. state'[r] \notin {"Free", "Arrived"}
  <2>1. GroupOf(r)'
    BY DEF AcceptedOf, GroupOf, ExaminedAt, Accepting, Examining
  <2>. QED BY <2>1, PlaceChargesNext DEF ByPlace
<1>2. AcceptedOf(r)
  BY DEF AcceptedOf, ExaminedAt
<1>. QED BY <1>1, <1>2

LEMMA AcceptedShrinks ==
  ASSUME PlaceInv, PlaceInv', [Next]_vars, \A t \in Threads : ~IncWithin(t),
         NEW r \in Reqs, AcceptedOf(r)'
  PROVE  AcceptedOf(r) /\ pri'[r] = pri[r]
<1>. DEFINE Shown == /\ state'[r] \notin {"Free", "Arrived"} => pri'[r] = pri[r]
                     /\ \A u \in Threads : held'[u] = r /\ pc'[u] \in Accepting
                                          => held[u] = r /\ pc[u] \in Accepting
                     /\ state'[r] = "Active" /\ pc'[Worker(r)] \notin {"decUser", "free"}
                           => AcceptedOf(r)
<1>0. r # NoReq /\ Worker(r) \in Threads /\ TypeOK
      /\ \A u \in Threads : held[u] # NoReq => pc[u] \in Examining
  BY Groups, ThreadFacts DEF PlaceInv, Roles
<1>1. CASE UNCHANGED vars
  <2>1. UNCHANGED <<state, pri, pc, held>>
    BY <1>1 DEF vars
  <2>2. AcceptedOf(r)' <=> AcceptedOf(r)
    BY <2>1 DEF AcceptedOf, ExaminedAt
  <2>. QED BY <2>1, <2>2
<1>2. CASE \E x \in Reqs : Arrive(x) \/ Count(x) \/ Uncount(x) \/ Enqueue(x)
  <2>1. PICK x \in Reqs : Arrive(x) \/ Count(x) \/ Uncount(x) \/ Enqueue(x)
    BY <1>2
  <2>2. /\ Rpc(x) \in Threads /\ Rpc(x) # Worker(r) /\ held' = held
        /\ \A u \in Threads \ {Rpc(x)} : pc'[u] = pc[u]
        /\ pc'[Rpc(x)] \notin Accepting
        /\ state'[r] = "Active" => state[r] = "Active"
        /\ state'[r] \notin {"Free", "Arrived"} => pri'[r] = pri[r]
    <3>1. Rpc(x) \in Threads /\ Rpc(x) # Worker(r)
      BY ThreadFacts, ThreadOf
    <3>2. CASE Arrive(x)
      BY <1>0, <3>1, <3>2 DEF Arrive, TypeOK, Accepting
    <3>3. CASE Count(x)
      BY <1>0, <3>1, <3>3 DEF Count, TypeOK, request, Accepting
    <3>4. CASE Uncount(x)
      BY <1>0, <3>1, <3>4 DEF Uncount, TypeOK, request, Accepting
    <3>5. CASE Enqueue(x)
      BY <1>0, <3>1, <3>5 DEF Enqueue, TypeOK, Accepting
    <3>. QED BY <2>1, <3>1, <3>2, <3>3, <3>4, <3>5
  <2>3. Shown
    BY <1>0, <2>2 DEF AcceptedOf
  <2>. QED BY <2>3, AcceptedKept
<1>3. CASE \E x \in Reqs : Handle(x) \/ Finish(x)
  <2>1. PICK x \in Reqs : Handle(x) \/ Finish(x)
    BY <1>3
  <2>2. /\ Worker(x) \in Threads /\ UNCHANGED <<held, state, pri>>
        /\ \A u \in Threads \ {Worker(x)} : pc'[u] = pc[u]
        /\ pc[Worker(x)] \in {"posted", "serve"} /\ pc'[Worker(x)] \notin Accepting
    BY <1>0, <2>1, ThreadFacts DEF Handle, Finish, TypeOK, request, Accepting
  <2>3. Shown
    BY <1>0, <2>2 DEF AcceptedOf
  <2>. QED BY <2>3, AcceptedKept
<1>4. CASE \E t \in Threads : Find(t) \/ Shutdown(t)
  <2>1. PICK t \in Threads : Find(t) \/ Shutdown(t)
    BY <1>4
  <2>2. CASE Activate(t)
    <3>1. PICK x \in Reqs : x = held[t]
      BY <2>2 DEF Activate, PlaceInv, TypeOK, Locals, Examining
    <3>2. /\ pc[t] = "activate" /\ Worker(x) \in Threads /\ UNCHANGED pri
          /\ \A u \in Threads \ {t, Worker(x)} : pc'[u] = pc[u]
          /\ pc'[Worker(x)] \notin Accepting /\ pc'[t] \notin Accepting
          /\ \A u \in Threads \ {t} : held'[u] = held[u]
          /\ \A y \in Reqs \ {x} : state'[y] = state[y]
      BY <1>0, <2>2, <3>1, ThreadFacts, ReturnQuiet DEF Activate, TypeOK, Accepting
    <3>3. r = x => AcceptedOf(r)
      BY <3>1, <3>2 DEF AcceptedOf, ExaminedAt, Accepting
    <3>4. r # x => (pc'[Worker(r)] = pc[Worker(r)]
                    \/ pc[Worker(r)] \notin {"decUser", "free"})
      BY <1>0, <3>2, ThreadOf
    <3>5. Shown
      BY <1>0, <3>2, <3>3, <3>4 DEF AcceptedOf
    <3>. QED BY <3>5, AcceptedKept
  <2>3. CASE ~Activate(t)
    <3>1. /\ \A u \in Threads \ {t} : pc'[u] = pc[u] /\ held'[u] = held[u]
          /\ pc'[t] \in Accepting => pc[t] \in Accepting /\ held'[t] = held[t]
          /\ pc[t] \in {"decUser", "free"} /\ t = Worker(r)
                => pc'[t] \in {"decUser", "free"} \/ state'[r] = "Free"
          /\ state'[r] # "Free" => state'[r] = state[r] /\ pri'[r] = pri[r]
      <4>1. CASE SkipEmpty(t)
        BY <1>0, <4>1, ReturnQuiet DEF SkipEmpty, TypeOK, request, Accepting, Charging
      <4>2. CASE Take(t)
        BY <1>0, <4>2 DEF Take, TypeOK, request, Accepting
      <4>3. CASE IncActive(t)
        BY <1>0, <4>3 DEF IncActive, IncWithin, TypeOK, request, Accepting
      <4>4. CASE DecOver(t)
        BY <1>0, <4>4 DEF DecOver, TypeOK, request, Accepting
      <4>5. CASE IncUser(t)
        BY <1>0, <4>5 DEF IncUser, TypeOK, request, Accepting
      <4>6. CASE DecActive(t)
        BY <1>0, <4>6 DEF DecActive, TypeOK, request, Accepting
      <4>7. CASE PutBack(t)
        BY <1>0, <4>7, ReturnQuiet DEF PutBack, TypeOK, request, Accepting, Charging
      <4>8. CASE DecReq(t)
        BY <1>0, <4>8 DEF DecReq, TypeOK, request, Accepting
      <4>9. CASE Release(t)
        BY <1>0, <4>9 DEF Release, TypeOK, request, Accepting
      <4>10. CASE DecUser(t)
        BY <1>0, <4>10 DEF DecUser, TypeOK, request, Accepting
      <4>11. CASE FreeReq(t)
        BY <1>0, <4>11, ThreadFacts, OwnType DEF FreeReq, TypeOK, request, Accepting
      <4>. QED BY <2>1, <2>3, <4>1, <4>2, <4>3, <4>4, <4>5, <4>6, <4>7, <4>8,
               <4>9, <4>10, <4>11 DEF Find, Shutdown
    <3>2. Shown
      BY <1>0, <3>1 DEF AcceptedOf
    <3>. QED BY <3>2, AcceptedKept
  <2>. QED BY <2>2, <2>3
<1>. QED BY <1>1, <1>2, <1>3, <1>4 DEF Next

LEMMA AcceptedFinite ==
  /\ \A p : IsFiniteSet(Accepted(p)) /\ Cardinality(Accepted(p)) \in Nat
  /\ \A p \in Pri : ServerActiveReqBounds[p] \in Nat
  /\ MaxUserReqs \in Nat
<1>1. ASSUME NEW p PROVE IsFiniteSet(Accepted(p)) /\ Cardinality(Accepted(p)) \in Nat
  <2>1. Accepted(p) \in SUBSET Reqs
    BY DEF Accepted
  <2>. QED BY <2>1, SchedulingAssumption, FS_Subset, FS_CardinalityType
<1>. QED BY <1>1, SchedulingAssumption

LEMMA AcceptedBounded ==
  ASSUME BoundInv, CounterInv', [Next]_vars, NEW p \in Pri
  PROVE  Cardinality(Accepted(p)') <= ServerActiveReqBounds[p]
<1>1. Accepted(p)' = {r \in Reqs : pri'[r] = p /\ AcceptedOf(r)'}
  BY DEF Accepted, AcceptedOf
<1>2. Cardinality(Accepted(p)) <= ServerActiveReqBounds[p]
  BY DEF BoundInv, Bounded
\* An increment within the bound: all that is counted is within it.
<1>3. CASE \E t \in Threads : IncWithin(t) /\ pri[held[t]] = p
  <2>1. PICK t \in Threads : IncWithin(t) /\ pri[held[t]] = p
    BY <1>3
  <2>2. activeCount'[p] <= ServerActiveReqBounds[p]
    BY <2>1, AcceptedFinite
       DEF IncWithin, IncActive, Exceeds, BoundInv, CounterInv, PlaceInv, TypeOK
  <2>3. activeCount'[p] = Cardinality(GroupCharged(p)')
    BY DEF CounterInv, CountersExact
  <2>4. Accepted(p)' \in SUBSET (GroupCharged(p)') /\ GroupCharged(p)' \in SUBSET Reqs
    BY DEF Accepted, AcceptedOf, GroupCharged, ExaminedAt, Accepting, Examining
  <2>5. IsFiniteSet(GroupCharged(p)')
    BY <2>4, SchedulingAssumption, FS_Subset
  <2>6. /\ Cardinality(Accepted(p)') <= Cardinality(GroupCharged(p)')
        /\ Cardinality(Accepted(p)') \in Nat /\ Cardinality(GroupCharged(p)') \in Nat
    BY <2>4, <2>5, FS_Subset, FS_CardinalityType
  <2>. QED BY <2>2, <2>3, <2>6, AcceptedFinite
\* Any other step: nothing is accepted that was not.
<1>4. CASE \A t \in Threads : ~(IncWithin(t) /\ pri[held[t]] = p)
  <2>1. ASSUME NEW r \in Reqs, r \in Accepted(p)' PROVE r \in Accepted(p)
    <3>1. AcceptedOf(r)' /\ pri'[r] = p
      BY <1>1, <2>1
    <3>2. CASE \A t \in Threads : ~IncWithin(t)
      <4>1. AcceptedOf(r) /\ pri'[r] = pri[r]
        BY <3>1, <3>2, AcceptedShrinks DEF BoundInv, CounterInv
      <4>. QED BY <3>1, <4>1 DEF Accepted
    <3>3. CASE \E t \in Threads : IncWithin(t)
      <4>1. PICK t \in Threads : IncWithin(t)
        BY <3>3
      <4>2. pri[held[t]] # p /\ UNCHANGED <<state, pri, held>>
        BY <1>4, <4>1 DEF IncWithin, IncActive, request
      <4>3. \A u \in Threads \ {t} : pc'[u] = pc[u]
        BY <4>1 DEF IncWithin, IncActive, BoundInv, CounterInv, PlaceInv, TypeOK
      <4>4. held[t] # r
        BY <3>1, <4>2
      <4>5. pc[t] \notin {"decUser", "free"} /\ Worker(r) \in Threads
        BY <4>1, ThreadFacts DEF IncWithin, IncActive
      <4>6. AcceptedOf(r)
        BY <3>1, <4>2, <4>3, <4>4, <4>5 DEF AcceptedOf, ExaminedAt
      <4>. QED BY <3>1, <4>2, <4>6 DEF Accepted
    <3>. QED BY <3>2, <3>3
  <2>2. Accepted(p)' \in SUBSET Accepted(p)
    BY <1>1, <2>1
  <2>3. /\ Cardinality(Accepted(p)') <= Cardinality(Accepted(p))
        /\ Cardinality(Accepted(p)') \in Nat
    BY <2>2, AcceptedFinite, FS_Subset, FS_CardinalityType
  <2>. QED BY <1>2, <2>3, AcceptedFinite
<1>. QED BY <1>3, <1>4

LEMMA UsersBounded ==
  ASSUME BoundInv, [Next]_vars, NEW p \in Pri, NEW u \in Users
  PROVE  userCount'[p][u] <= MaxUserReqs
<1>1. /\ userCount \in [Pri -> [Users -> Int]] /\ userCount[p][u] <= MaxUserReqs
      /\ userCount[p][u] \in Int /\ MaxUserReqs \in Nat
  BY AcceptedFinite DEF BoundInv, CounterInv, PlaceInv, TypeOK, Bounded
<1>2. CASE userCount' = userCount
  BY <1>1, <1>2
<1>3. CASE \E t \in Threads : IncUser(t)
  BY <1>1, <1>3 DEF IncUser, Exceeds
<1>4. CASE \E t \in Threads : DecUser(t)
  BY <1>1, <1>4 DEF DecUser
<1>. QED BY <1>2, <1>3, <1>4
         DEF Next, vars, Find, Shutdown, counters, Arrive, Count, Uncount, Enqueue, Handle,
             Finish, SkipEmpty, Take, IncActive, DecOver, DecActive, PutBack, DecReq,
             Activate, Release, FreeReq

LEMMA BoundInit == Init => Bounded
<1>. SUFFICES ASSUME Init, NEW p \in Pri
              PROVE  /\ Cardinality(Accepted(p)) <= ServerActiveReqBounds[p]
                     /\ \A u \in Users : userCount[p][u] <= MaxUserReqs
  BY DEF Bounded
<1>1. Accepted(p) = {}
  BY ThreadFacts DEF Init, Accepted, AcceptedOf, ExaminedAt, Accepting
<1>. QED BY <1>1, FS_EmptySet, AcceptedFinite DEF Init

LEMMA BoundNext == BoundInv /\ [Next]_vars => BoundInv'
<1>. SUFFICES ASSUME BoundInv, [Next]_vars PROVE BoundInv'
  OBVIOUS
<1>1. CounterInv'
  BY CounterNext DEF BoundInv
<1>2. \A p \in Pri : Cardinality(Accepted(p)') <= ServerActiveReqBounds[p]
  BY <1>1, AcceptedBounded
<1>3. \A p \in Pri, u \in Users : userCount'[p][u] <= MaxUserReqs
  BY UsersBounded
<1>. QED BY <1>1, <1>2, <1>3 DEF BoundInv, Bounded

\* ServerActiveReqBounds and MaxUserReqs hold: no interleaving of increments, tests and
\* decrements lets more requests of a group or of a user be served at a time.
THEOREM AlwaysWithinBounds == Spec => []ActiveWithinBounds
<1>1. Init => BoundInv
  BY TypeInit, PlaceInit, CounterInit, BoundInit DEF BoundInv, CounterInv, PlaceInv
<1>. QED BY <1>1, BoundNext, BoundsSuffice, PTL DEF Spec

(***************************************************************************)
(* ServerScheduling implements Admission, for every number of requests,    *)
(* users and groups, every bound and every set of Faults.                  *)
(*                                                                         *)
(* Of all the steps only four move the phase of a request: the increment   *)
(* of a group's waiting counter within its bound (Submit), the increment   *)
(* of a user's counter within its bound (Start), the decrement of a        *)
(* group's active counter (Finish), and the first and last step of an RPC, *)
(* which set and clear its SID and priority (Identify).  The three bounds  *)
(* of Admission follow from CountersExact, since what a counter charges    *)
(* contains what Admission counts, and from Bounded: the request being     *)
(* started is one of Accepted already, so the served ones are fewer.       *)
(***************************************************************************)

\* The steps of FindSReq after the increment of the user's counter.
Starting == {"decReq", "activate"}
\* The steps of ServerShutdownRequest after the decrement of the group's active counter.
Ending == {"decUser", "free"}

\* The phase of r, by its state: what Phase says, with the steps named.
LEMMA PhaseValue ==
  ASSUME NEW r \in Reqs
  PROVE  /\ state[r] = "Queued" =>
              Phase(r) = IF ExaminedAt(r, Starting) THEN "served" ELSE "waiting"
         /\ state[r] = "Active" =>
              Phase(r) = IF pc[Worker(r)] \in Ending THEN "none" ELSE "served"
         /\ state[r] \in {"Free", "Arrived"} =>
              Phase(r) = IF pc[Rpc(r)] = "enqueue" THEN "waiting" ELSE "none"
BY DEF Phase, Starting, Ending

\* The same after a step.
LEMMA PhaseValueNext ==
  ASSUME NEW r \in Reqs
  PROVE  /\ state'[r] = "Queued" =>
              Phase(r)' = IF ExaminedAt(r, Starting)' THEN "served" ELSE "waiting"
         /\ state'[r] = "Active" =>
              Phase(r)' = IF pc'[Worker(r)] \in Ending THEN "none" ELSE "served"
         /\ state'[r] \in {"Free", "Arrived"} =>
              Phase(r)' = IF pc'[Rpc(r)] = "enqueue" THEN "waiting" ELSE "none"
BY DEF Phase, Starting, Ending, ExaminedAt

\* A step of t keeps the phase of r unless r is what t works on and the step enters or
\* leaves Starting, Ending or the place between a counter and its queue.
LEMMA PhaseKept ==
  ASSUME TypeOK, NEW t \in Threads, NEW r \in Reqs,
         \A u \in Threads \ {t} : pc'[u] = pc[u] /\ held'[u] = held[u],
         state'[r] = state[r],
         held'[t] = r /\ pc'[t] \in Starting <=> held[t] = r /\ pc[t] \in Starting,
         t = Rpc(r) => (pc'[t] = "enqueue" <=> pc[t] = "enqueue"),
         t = Worker(r) => (pc'[t] \in Ending <=> pc[t] \in Ending)
  PROVE  Phase(r)' = Phase(r)
<1>1. ExaminedAt(r, Starting)' <=> ExaminedAt(r, Starting)
  BY DEF ExaminedAt
<1>2. pc'[Rpc(r)] = "enqueue" <=> pc[Rpc(r)] = "enqueue"
  BY ThreadFacts
<1>3. pc'[Worker(r)] \in Ending <=> pc[Worker(r)] \in Ending
  BY ThreadFacts
<1>4. state[r] \in {"Free", "Arrived", "Queued", "Active"}
  BY DEF TypeOK, States
<1>. QED BY <1>1, <1>2, <1>3, <1>4, PhaseValue, PhaseValueNext

\* A step that keeps every phase and the identity of the requests is a stutter.
LEMMA Stutters ==
  ASSUME \A r \in Reqs : Phase(r)' = Phase(r), UNCHANGED <<pri, sid>>
  PROVE  UNCHANGED Promise!vars
BY DEF Promise!vars

\* A step that moves the phase of one request is a Move of Admission.
LEMMA Moves ==
  ASSUME NEW x \in Reqs, NEW from, NEW to, Phase(x) = from, Phase(x)' = to,
         \A r \in Reqs \ {x} : Phase(r)' = Phase(r), UNCHANGED <<pri, sid>>
  PROVE  Promise!Move(x, from, to)
BY DEF Promise!Move

\* Admission counts with the same Cardinality.
LEMMA SameCardinality ==
  ASSUME NEW S
  PROVE  Promise!Cardinality(S) = Cardinality(S)
BY DEF Promise!Cardinality, Cardinality

-----------------------------------------------------------------------------
\* The pull of the first chunk gives a request its SID and priority before it waits.
LEMMA AdmitArrive ==
  ASSUME PlaceInv, NEW x \in Reqs, Arrive(x)
  PROVE  Promise!Identify(x)
<1>. DEFINE t == Rpc(x)
<1>1. /\ t \in Threads /\ pc[t] = "idle" /\ state[x] = "Free" /\ held' = held
      /\ pc'[t] \in {"count", "scan"} /\ state'[x] = "Arrived"
      /\ \A u \in Threads \ {t} : pc'[u] = pc[u] /\ held'[u] = held[u]
      /\ \A r \in Reqs \ {x} : state'[r] = state[r]
  BY ThreadFacts DEF Arrive, PlaceInv, TypeOK
<1>2. \A r \in Reqs : t # Worker(r) /\ (r # x => t # Rpc(r))
  BY ThreadOf
<1>. HIDE DEF t
<1>3. \A r \in Reqs \ {x} : Phase(r)' = Phase(r)
  BY <1>1, <1>2, PhaseKept DEF PlaceInv, Starting
<1>4. Phase(x) = "none" /\ Phase(x)' = "none"
  BY <1>1, PhaseValue, PhaseValueNext DEF t
<1>5. /\ pri' \in {[pri EXCEPT ![x] = p] : p \in Pri}
      /\ sid' \in {[sid EXCEPT ![x] = u] : u \in Users \cup {NoUser}}
  BY DEF Arrive, CallerPri
<1>6. [r \in Reqs |-> Phase(r)]' = [r \in Reqs |-> Phase(r)]
  BY <1>3, <1>4
<1>. QED BY <1>4, <1>5, <1>6 DEF Promise!Identify

\* A freed request loses both, after it was served or refused.
LEMMA AdmitFree ==
  ASSUME PlaceInv, NEW t \in Threads, FreeReq(t)
  PROVE  Promise!Identify(Own(t))
<1>. DEFINE x == Own(t)
<1>1. x \in Reqs /\ (t = Rpc(x) \/ t = Worker(x))
  BY ThreadOf, OwnType DEF Own, Rpc, Worker
<1>2. /\ pc[t] = "free" /\ pc'[t] = "idle" /\ held' = held /\ state'[x] = "Free"
      /\ \A u \in Threads \ {t} : pc'[u] = pc[u] /\ held'[u] = held[u]
      /\ \A r \in Reqs \ {x} : state'[r] = state[r]
  BY <1>1 DEF FreeReq, PlaceInv, TypeOK
<1>3. \A r \in Reqs \ {x} : t # Worker(r) /\ t # Rpc(r)
  BY <1>1, ThreadOf
<1>4. /\ pri' = [pri EXCEPT ![x] = 0] /\ 0 \in Pri
      /\ sid' = [sid EXCEPT ![x] = NoUser]
  BY SchedulingAssumption DEF FreeReq, Pri
<1>. HIDE DEF x
<1>5. \A r \in Reqs \ {x} : Phase(r)' = Phase(r)
  BY <1>2, <1>3, PhaseKept DEF PlaceInv, Starting
<1>6. Phase(x) = "none"
  <2>1. CASE t = Worker(x)
    <3>1. state[x] = "Active"
      BY <1>1, <1>2, <2>1 DEF PlaceInv, OnePlace, ServedIffActive
    <3>. QED BY <1>1, <1>2, <2>1, <3>1, PhaseValue DEF Ending
  <2>2. CASE t = Rpc(x)
    <3>1. state[x] = "Arrived"
      BY <1>1, <1>2, <2>2 DEF PlaceInv, Roles
    <3>. QED BY <1>1, <1>2, <2>2, <3>1, PhaseValue
  <2>. QED BY <1>1, <2>1, <2>2
<1>7. Phase(x)' = "none"
  <2>1. pc'[Rpc(x)] # "enqueue"
    <3>1. Rpc(x) \in Threads
      BY <1>1, ThreadFacts
    <3>2. CASE t = Rpc(x)
      BY <1>2, <3>2
    <3>3. CASE t = Worker(x)
      <4>1. state[x] = "Active" /\ t # Rpc(x)
        BY <1>1, <1>2, <3>3, ThreadOf DEF PlaceInv, OnePlace, ServedIffActive
      <4>2. pc[Rpc(x)] # "enqueue"
        BY <1>1, <4>1 DEF PlaceInv, Roles
      <4>. QED BY <1>2, <3>1, <4>1, <4>2
    <3>. QED BY <1>1, <3>2, <3>3
  <2>. QED BY <1>1, <1>2, <2>1, PhaseValueNext
<1>8. [r \in Reqs |-> Phase(r)]' = [r \in Reqs |-> Phase(r)]
  BY <1>5, <1>6, <1>7
<1>9. Promise!Identify(x)
  BY <1>1, <1>4, <1>6, <1>8 DEF Promise!Identify
<1>. QED BY <1>9 DEF x

\* CounterIncrement(ServerReqCounters) within the bound: the request waits from here.
LEMMA AdmitCount ==
  ASSUME CounterInv, NEW x \in Reqs, Count(x)
  PROVE  Promise!Submit(x) \/ UNCHANGED Promise!vars
<1>. DEFINE t == Rpc(x)
<1>0. PlaceInv
  BY DEF CounterInv
<1>p. PICK p \in Pri : p = pri[x]
  BY <1>0 DEF PlaceInv, TypeOK, request
<1>1. /\ t \in Threads /\ pc[t] = "count" /\ state[x] = "Arrived"
      /\ UNCHANGED <<held, state, pri, sid>>
      /\ pc'[t] = IF Exceeds(reqCount[p] + 1, ServerReqBounds[p]) THEN "uncount" ELSE "enqueue"
      /\ \A u \in Threads \ {t} : pc'[u] = pc[u] /\ held'[u] = held[u]
  BY <1>0, <1>p, ThreadFacts DEF Count, PlaceInv, TypeOK, Roles, request
<1>2. \A r \in Reqs : t # Worker(r) /\ (r # x => t # Rpc(r))
  BY ThreadOf
<1>. HIDE DEF t
<1>3. \A r \in Reqs \ {x} : Phase(r)' = Phase(r)
  BY <1>0, <1>1, <1>2, PhaseKept DEF PlaceInv, Starting
<1>4. Phase(x) = "none"
  BY <1>1, PhaseValue DEF t
<1>5. CASE Exceeds(reqCount[p] + 1, ServerReqBounds[p])
  <2>1. Phase(x)' = "none"
    BY <1>1, <1>5, PhaseValueNext DEF t
  <2>. QED BY <1>1, <1>3, <1>4, <2>1, Stutters
<1>6. CASE ~Exceeds(reqCount[p] + 1, ServerReqBounds[p])
  <2>1. Phase(x)' = "waiting"
    BY <1>1, <1>6, PhaseValueNext DEF t
  <2>2. Promise!Move(x, "none", "waiting")
    BY <1>1, <1>3, <1>4, <2>1, Moves
  <2>3. Cardinality(Promise!Waiting(p)) < ServerReqBounds[p]
    <3>1. Promise!Waiting(p) \in SUBSET WaitCharged(p) /\ WaitCharged(p) \in SUBSET Reqs
      <4>1. ASSUME NEW r \in Reqs, Phase(r) = "waiting" PROVE WaitOf(r)
        BY <4>1 DEF Phase, WaitOf, ExaminedAt, Starting
      <4>. QED BY <4>1 DEF Promise!Waiting, WaitCharged, WaitOf
    <3>2. IsFiniteSet(WaitCharged(p)) /\ Cardinality(WaitCharged(p)) \in Nat
      BY <3>1, SchedulingAssumption, FS_Subset, FS_CardinalityType
    <3>3. /\ Cardinality(Promise!Waiting(p)) <= Cardinality(WaitCharged(p))
          /\ Cardinality(Promise!Waiting(p)) \in Nat
      BY <3>1, <3>2, FS_Subset, FS_CardinalityType
    <3>4. reqCount[p] = Cardinality(WaitCharged(p))
      BY <1>1 DEF CounterInv, CountersExact
    <3>5. reqCount[p] + 1 <= ServerReqBounds[p] /\ ServerReqBounds[p] \in Nat
      BY <1>1, <1>6, <3>2, <3>4, SchedulingAssumption DEF Exceeds
    <3>. QED BY <3>2, <3>3, <3>4, <3>5
  <2>. QED BY <1>p, <2>2, <2>3, SameCardinality DEF Promise!Submit
<1>. QED BY <1>5, <1>6

\* The waiting counter is given back by a call that never was waiting.
LEMMA AdmitUncount ==
  ASSUME PlaceInv, NEW x \in Reqs, Uncount(x)
  PROVE  UNCHANGED Promise!vars
<1>. DEFINE t == Rpc(x)
<1>1. /\ t \in Threads /\ pc[t] = "uncount" /\ pc'[t] = "scan"
      /\ UNCHANGED <<held, state, pri, sid>>
      /\ \A u \in Threads \ {t} : pc'[u] = pc[u] /\ held'[u] = held[u]
  BY ThreadFacts DEF Uncount, PlaceInv, TypeOK, request
<1>2. \A r \in Reqs : t # Worker(r) /\ (r # x => t # Rpc(r))
  BY ThreadOf
<1>. HIDE DEF t
<1>3. \A r \in Reqs : Phase(r)' = Phase(r)
  BY <1>1, <1>2, PhaseKept DEF PlaceInv, Starting
<1>. QED BY <1>1, <1>3, Stutters

\* QueueAdd: the request goes on waiting, in the queue.
LEMMA AdmitEnqueue ==
  ASSUME PlaceInv, PlaceInv', NEW x \in Reqs, Enqueue(x)
  PROVE  UNCHANGED Promise!vars
<1>. DEFINE t == Rpc(x)
<1>1. /\ t \in Threads /\ pc[t] = "enqueue" /\ pc'[t] = "scan"
      /\ state[x] = "Arrived" /\ state'[x] = "Queued"
      /\ UNCHANGED <<held, pri, sid>>
      /\ \A u \in Threads \ {t} : pc'[u] = pc[u] /\ held'[u] = held[u]
      /\ \A r \in Reqs \ {x} : state'[r] = state[r]
  BY ThreadFacts DEF Enqueue, PlaceInv, TypeOK, Roles
<1>2. \A r \in Reqs : t # Worker(r) /\ (r # x => t # Rpc(r))
  BY ThreadOf
<1>. HIDE DEF t
<1>3. \A r \in Reqs \ {x} : Phase(r)' = Phase(r)
  BY <1>1, <1>2, PhaseKept DEF PlaceInv, Starting
<1>4. Phase(x) = "waiting"
  BY <1>1, PhaseValue DEF t
<1>5. Phase(x)' = "waiting"
  <2>1. \A u \in Threads : held[u] # x
    BY <1>1, Groups DEF PlaceInv, OnePlace, HeldOnce
  <2>2. ~ExaminedAt(x, Starting)'
    BY <1>1, <2>1 DEF ExaminedAt
  <2>. QED BY <1>1, <2>2, PhaseValueNext
<1>6. \A r \in Reqs : Phase(r)' = Phase(r)
  BY <1>3, <1>4, <1>5
<1>. QED BY <1>1, <1>6, Stutters

\* HandleSReq and the end of the service leave the counters held.
LEMMA AdmitHandleFinish ==
  ASSUME PlaceInv, NEW x \in Reqs, Handle(x) \/ Finish(x)
  PROVE  UNCHANGED Promise!vars
<1>. DEFINE t == Worker(x)
<1>1. /\ t \in Threads /\ pc[t] \in {"posted", "serve"}
      /\ pc'[t] \in {"serve", "scan", "lost"}
      /\ UNCHANGED <<held, state, pri, sid>>
      /\ \A u \in Threads \ {t} : pc'[u] = pc[u] /\ held'[u] = held[u]
  BY ThreadFacts DEF Handle, Finish, PlaceInv, TypeOK, request
<1>2. \A r \in Reqs : t # Rpc(r) /\ (r # x => t # Worker(r))
  BY ThreadOf
<1>. HIDE DEF t
<1>3. \A r \in Reqs : Phase(r)' = Phase(r)
  BY <1>1, <1>2, PhaseKept DEF PlaceInv, Starting, Ending
<1>. QED BY <1>1, <1>3, Stutters

-----------------------------------------------------------------------------
\* CounterIncrement on the user, the last of the two an activation needs: within the bound
\* the request is served from here, and its group and its user have room for it.
LEMMA AdmitIncUser ==
  ASSUME BoundInv, NEW t \in Threads, IncUser(t)
  PROVE  Promise!Start(held[t]) \/ UNCHANGED Promise!vars
<1>0. PlaceInv /\ CountersExact /\ Bounded
  BY DEF BoundInv, CounterInv
<1>x. PICK x \in Reqs : x = held[t]
  BY <1>0, Groups DEF IncUser, PlaceInv, TypeOK, Locals, Examining
<1>p. PICK p \in Pri : p = pri[x]
  BY <1>0, <1>x DEF PlaceInv, TypeOK, request
<1>u. PICK u \in Users : u = sid[x]
  <2>1. state[x] # "Free"
    BY <1>0, <1>x, Groups DEF IncUser, PlaceInv, Locals, Examining, OnePlace, HeldOnce
  <2>. QED BY <1>0, <1>x, <2>1 DEF PlaceInv, Roles
<1>1. /\ pc[t] = "incUser" /\ state[x] = "Queued"
      /\ UNCHANGED <<held, state, pri, sid>>
      /\ pc'[t] = IF ~Exceeds(userCount[p][u] + 1, MaxUserReqs) THEN "decReq" ELSE "decActive"
      /\ \A v \in Threads \ {t} : pc'[v] = pc[v] /\ held'[v] = held[v]
      /\ \A v \in Threads : held[v] = x => v = t
  BY <1>0, <1>x, <1>p, <1>u, Groups
     DEF IncUser, PlaceInv, TypeOK, Locals, Roles, OnePlace, HeldOnce, Examining, request
<1>2. \A r \in Reqs \ {x} : Phase(r)' = Phase(r)
  <2>1. pc[t] \notin {"enqueue", "decUser", "free"} /\ pc'[t] \notin {"enqueue", "decUser", "free"}
    BY <1>1
  <2>. QED BY <1>0, <1>x, <1>1, <2>1, PhaseKept DEF PlaceInv, Ending
<1>3. Phase(x) = "waiting"
  <2>1. ~ExaminedAt(x, Starting)
    BY <1>x, <1>1 DEF ExaminedAt, Starting
  <2>. QED BY <1>1, <2>1, PhaseValue
<1>4. CASE Exceeds(userCount[p][u] + 1, MaxUserReqs)
  <2>1. ~ExaminedAt(x, Starting)'
    BY <1>x, <1>1, <1>4 DEF ExaminedAt, Starting
  <2>2. Phase(x)' = "waiting"
    BY <1>1, <2>1, PhaseValueNext
  <2>3. \A r \in Reqs : Phase(r)' = Phase(r)
    BY <1>2, <1>3, <2>2
  <2>. QED BY <1>1, <2>3, Stutters
<1>5. CASE ~Exceeds(userCount[p][u] + 1, MaxUserReqs)
  <2>1. ExaminedAt(x, Starting)'
    BY <1>x, <1>1, <1>5 DEF ExaminedAt, Starting
  <2>2. Phase(x)' = "served"
    BY <1>1, <2>1, PhaseValueNext
  <2>3. Promise!Move(x, "waiting", "served")
    BY <1>1, <1>2, <1>3, <2>2, Moves
  <2>4. Cardinality(Promise!Served(p)) < ServerActiveReqBounds[p]
    <3>1. ASSUME NEW r \in Reqs, Phase(r) = "served" PROVE AcceptedOf(r)
      BY <3>1 DEF Phase, AcceptedOf, ExaminedAt, Accepting
    <3>2. Promise!Served(p) \in SUBSET (Accepted(p) \ {x})
      BY <1>3, <3>1 DEF Promise!Served, Accepted
    <3>3. x \in Accepted(p)
      BY <1>x, <1>p, <1>1 DEF Accepted, AcceptedOf, ExaminedAt, Accepting
    <3>4. /\ IsFiniteSet(Accepted(p) \ {x})
          /\ Cardinality(Accepted(p) \ {x}) = Cardinality(Accepted(p)) - 1
      BY <3>3, AcceptedFinite, FS_RemoveElement
    <3>5. /\ Cardinality(Promise!Served(p)) <= Cardinality(Accepted(p) \ {x})
          /\ Cardinality(Promise!Served(p)) \in Nat
      BY <3>2, <3>4, FS_Subset, FS_CardinalityType
    <3>6. Cardinality(Accepted(p)) <= ServerActiveReqBounds[p]
      BY <1>0, <1>1 DEF Bounded
    <3>. QED BY <1>1, <3>4, <3>5, <3>6, AcceptedFinite
  <2>5. Cardinality(Promise!ServedFor(p, u)) < MaxUserReqs
    <3>1. ASSUME NEW r \in Reqs, Phase(r) = "served" PROVE UserOf(r)
      BY <3>1 DEF Phase, UserOf, ExaminedAt
    <3>2. /\ Promise!ServedFor(p, u) \in SUBSET UserCharged(p, u)
          /\ UserCharged(p, u) \in SUBSET Reqs
      BY <3>1 DEF Promise!ServedFor, Promise!Served, UserCharged, UserOf
    <3>3. IsFiniteSet(UserCharged(p, u)) /\ Cardinality(UserCharged(p, u)) \in Nat
      BY <3>2, SchedulingAssumption, FS_Subset, FS_CardinalityType
    <3>4. /\ Cardinality(Promise!ServedFor(p, u)) <= Cardinality(UserCharged(p, u))
          /\ Cardinality(Promise!ServedFor(p, u)) \in Nat
      BY <3>2, <3>3, FS_Subset, FS_CardinalityType
    <3>5. userCount[p][u] = Cardinality(UserCharged(p, u))
      BY <1>0, <1>1 DEF CountersExact
    <3>6. userCount[p][u] + 1 <= MaxUserReqs
      BY <1>5, <3>3, <3>5, AcceptedFinite DEF Exceeds
    <3>. QED BY <3>3, <3>4, <3>5, <3>6, AcceptedFinite
  <2>6. Promise!Start(x)
    BY <1>p, <1>u, <2>3, <2>4, <2>5, SameCardinality DEF Promise!Start
  <2>. QED BY <1>x, <2>6
<1>. QED BY <1>4, <1>5

\* The activation itself hands the request to its worker; it was served already.
LEMMA AdmitActivate ==
  ASSUME PlaceInv, NEW t \in Threads, Activate(t)
  PROVE  UNCHANGED Promise!vars
<1>x. PICK x \in Reqs : x = held[t]
  BY Groups DEF Activate, PlaceInv, TypeOK, Locals, Examining
<1>1. /\ pc[t] = "activate" /\ x # NoReq /\ state[x] = "Queued"
      /\ \A v \in Threads : held[v] = x => v = t
      /\ UNCHANGED <<pri, sid>> /\ state'[x] = "Active"
      /\ \A r \in Reqs \ {x} : state'[r] = state[r]
  BY <1>x, Groups DEF Activate, PlaceInv, TypeOK, Locals, OnePlace, HeldOnce, Examining
<1>2. /\ Worker(x) \in Threads /\ pc[Worker(x)] = "idle" /\ Worker(x) # t
      /\ pc'[Worker(x)] = "posted" /\ pc'[t] \in {"release", "idle"} /\ held'[t] = NoReq
      /\ \A v \in Threads \ {t, Worker(x)} : pc'[v] = pc[v]
      /\ \A v \in Threads \ {t} : held'[v] = held[v]
  <2>1. Worker(x) \in Threads /\ pc[Worker(x)] = "idle"
    BY <1>1, ThreadFacts DEF PlaceInv, OnePlace, ServedIffActive
  <2>. QED BY <1>x, <1>1, <2>1, ReturnQuiet DEF Activate, PlaceInv, TypeOK
<1>3. Phase(x) = "served"
  <2>1. ExaminedAt(x, Starting)
    BY <1>x, <1>1 DEF ExaminedAt, Starting
  <2>. QED BY <1>1, <2>1, PhaseValue
<1>4. Phase(x)' = "served"
  BY <1>1, <1>2, PhaseValueNext DEF Ending
<1>5. ASSUME NEW r \in Reqs \ {x} PROVE Phase(r)' = Phase(r)
  <2>1. ExaminedAt(r, Starting)' <=> ExaminedAt(r, Starting)
    <3>1. \A v \in Threads : held'[v] = r /\ pc'[v] \in Starting
                             <=> held[v] = r /\ pc[v] \in Starting
      <4>1. r # x /\ r # NoReq
        BY Groups
      <4>2. /\ held[t] = x /\ held'[t] = NoReq
            /\ pc[Worker(x)] \notin Starting /\ pc'[Worker(x)] \notin Starting
        BY <1>x, <1>2 DEF Starting
      <4>. QED BY <1>2, <4>1, <4>2
    <3>. QED BY <3>1 DEF ExaminedAt
  <2>2. /\ Rpc(r) \in Threads /\ Worker(r) \in Threads
        /\ Rpc(r) # Worker(x) /\ Worker(r) # Worker(x)
    BY <1>1, ThreadFacts, ThreadOf
  <2>3. /\ pc'[Rpc(r)] = "enqueue" <=> pc[Rpc(r)] = "enqueue"
        /\ pc'[Worker(r)] \in Ending <=> pc[Worker(r)] \in Ending
    BY <1>1, <1>2, <2>2 DEF Ending
  <2>4. state[r] \in {"Free", "Arrived", "Queued", "Active"} /\ state'[r] = state[r]
    BY <1>1 DEF PlaceInv, TypeOK, States
  <2>. QED BY <2>1, <2>3, <2>4, PhaseValue, PhaseValueNext
<1>6. \A r \in Reqs : Phase(r)' = Phase(r)
  BY <1>3, <1>4, <1>5
<1>. QED BY <1>1, <1>6, Stutters

\* The rest of the search in FindSReq moves no phase: what is taken off a queue and put
\* back has waited all the time.
LEMMA AdmitSearch ==
  ASSUME PlaceInv, PlaceInv', NEW t \in Threads,
         SkipEmpty(t) \/ Take(t) \/ IncActive(t) \/ DecOver(t) \/ DecActive(t)
           \/ PutBack(t) \/ DecReq(t)
  PROVE  UNCHANGED Promise!vars
<1>1. /\ UNCHANGED <<state, pri, sid>>
      /\ \A u \in Threads \ {t} : pc'[u] = pc[u] /\ held'[u] = held[u]
      /\ pc[t] \notin {"enqueue", "decUser", "free"} /\ pc'[t] \notin {"enqueue", "decUser", "free"}
      /\ \A r \in Reqs : held'[t] = r /\ pc'[t] \in Starting <=> held[t] = r /\ pc[t] \in Starting
  <2>1. CASE SkipEmpty(t)
    BY <2>1, ReturnQuiet DEF SkipEmpty, PlaceInv, TypeOK, request, Starting
  <2>2. CASE Take(t)
    BY <2>2 DEF Take, PlaceInv, TypeOK, request, Starting
  <2>3. CASE IncActive(t)
    BY <2>3 DEF IncActive, PlaceInv, TypeOK, request, Starting
  <2>4. CASE DecOver(t)
    BY <2>4 DEF DecOver, PlaceInv, TypeOK, request, Starting
  <2>5. CASE DecActive(t)
    BY <2>5 DEF DecActive, PlaceInv, TypeOK, request, Starting
  <2>6. CASE PutBack(t)
    BY <2>6, ReturnQuiet DEF PutBack, PlaceInv, TypeOK, request, Starting
  <2>7. CASE DecReq(t)
    BY <2>7 DEF DecReq, PlaceInv, TypeOK, request, Starting
  <2>. QED BY <2>1, <2>2, <2>3, <2>4, <2>5, <2>6, <2>7
<1>2. \A r \in Reqs : Phase(r)' = Phase(r)
  BY <1>1, PhaseKept DEF PlaceInv, Ending
<1>. QED BY <1>1, <1>2, Stutters

\* CounterDecrement of the group's active counter ends the service of the request.
LEMMA AdmitRelease ==
  ASSUME PlaceInv, NEW t \in Threads, Release(t)
  PROVE  Promise!Finish(Own(t)) \/ UNCHANGED Promise!vars
<1>. DEFINE x == Own(t)
<1>1. x \in Reqs /\ (t = Rpc(x) \/ t = Worker(x))
  BY ThreadOf, OwnType DEF Own, Rpc, Worker
<1>2. /\ pc[t] = "release" /\ UNCHANGED <<held, state, pri, sid>>
      /\ pc'[t] = IF state[x] = "Active" THEN "decUser" ELSE "free"
      /\ \A u \in Threads \ {t} : pc'[u] = pc[u] /\ held'[u] = held[u]
  BY DEF Release, PlaceInv, TypeOK, request
<1>3. \A r \in Reqs \ {x} : t # Worker(r) /\ t # Rpc(r)
  BY <1>1, ThreadOf
<1>4. pc[t] \notin Starting /\ pc'[t] \notin Starting
  BY <1>2 DEF Starting
<1>. HIDE DEF x
<1>5. \A r \in Reqs \ {x} : Phase(r)' = Phase(r)
  BY <1>2, <1>3, <1>4, PhaseKept DEF PlaceInv
<1>6. CASE t = Worker(x)
  <2>1. state[x] = "Active"
    BY <1>1, <1>2, <1>6 DEF PlaceInv, OnePlace, ServedIffActive
  <2>2. Phase(x) = "served"
    BY <1>1, <1>2, <1>6, <2>1, PhaseValue DEF Ending
  <2>3. Phase(x)' = "none"
    BY <1>1, <1>2, <1>6, <2>1, PhaseValueNext DEF Ending
  <2>4. Promise!Finish(x)
    BY <1>1, <1>2, <1>5, <2>2, <2>3, Moves DEF Promise!Finish
  <2>. QED BY <2>4 DEF x
<1>7. CASE t = Rpc(x)
  <2>1. state[x] = "Arrived" /\ pc'[t] # "enqueue"
    BY <1>1, <1>2, <1>7 DEF PlaceInv, Roles
  <2>2. Phase(x) = "none" /\ Phase(x)' = "none"
    BY <1>1, <1>2, <1>7, <2>1, PhaseValue, PhaseValueNext
  <2>3. \A r \in Reqs : Phase(r)' = Phase(r)
    BY <1>5, <2>2
  <2>. QED BY <1>2, <2>3, Stutters
<1>. QED BY <1>1, <1>6, <1>7

\* CounterDecrement of the user's counter comes after that and moves nothing.
LEMMA AdmitDecUser ==
  ASSUME PlaceInv, NEW t \in Threads, DecUser(t)
  PROVE  UNCHANGED Promise!vars
<1>1. /\ pc[t] = "decUser" /\ pc'[t] = "free" /\ UNCHANGED <<held, state, pri, sid>>
      /\ \A u \in Threads \ {t} : pc'[u] = pc[u] /\ held'[u] = held[u]
  BY DEF DecUser, PlaceInv, TypeOK, request
<1>2. \A r \in Reqs : Phase(r)' = Phase(r)
  BY <1>1, PhaseKept DEF PlaceInv, Starting, Ending
<1>. QED BY <1>1, <1>2, Stutters

-----------------------------------------------------------------------------
\* At the start no request waits or is served.
LEMMA AdmitInit == Init => Promise!Init
<1>. SUFFICES ASSUME Init PROVE Promise!Init
  OBVIOUS
<1>1. \A r \in Reqs : Phase(r) = "none"
  BY ThreadFacts DEF Init, Phase
<1>2. 0 \in Pri
  BY SchedulingAssumption DEF Pri
<1>. QED BY <1>1, <1>2 DEF Init, Promise!Init

\* Every step of the scheduling is one step of Admission, or none.
LEMMA AdmitStep ==
  ASSUME BoundInv, BoundInv', [Next]_vars
  PROVE  [Promise!Next]_(Promise!vars)
<1>0. CounterInv /\ PlaceInv /\ PlaceInv'
  BY DEF BoundInv, CounterInv
<1>1. CASE UNCHANGED vars
  <2>1. UNCHANGED <<state, pri, sid, pc, held>>
    BY <1>1 DEF vars
  <2>2. \A r \in Reqs : Phase(r)' = Phase(r)
    BY <2>1 DEF Phase, ExaminedAt
  <2>. QED BY <2>1, <2>2, Stutters
<1>2. ASSUME NEW x \in Reqs, Arrive(x) \/ Count(x) PROVE [Promise!Next]_(Promise!vars)
  BY <1>0, <1>2, AdmitArrive, AdmitCount DEF Promise!Next
<1>3. ASSUME NEW x \in Reqs, Uncount(x) \/ Enqueue(x) \/ Handle(x) \/ Finish(x)
      PROVE  [Promise!Next]_(Promise!vars)
  BY <1>0, <1>3, AdmitUncount, AdmitEnqueue, AdmitHandleFinish
<1>4. ASSUME NEW t \in Threads, IncUser(t) PROVE [Promise!Next]_(Promise!vars)
  <2>1. held[t] \in Reqs
    BY <1>0, <1>4, Groups DEF IncUser, PlaceInv, TypeOK, Locals, Examining
  <2>. QED BY <1>4, <2>1, AdmitIncUser DEF Promise!Next
<1>5. ASSUME NEW t \in Threads, Find(t), ~IncUser(t) PROVE [Promise!Next]_(Promise!vars)
  BY <1>0, <1>5, AdmitSearch, AdmitActivate DEF Find
<1>6. ASSUME NEW t \in Threads, Shutdown(t) PROVE [Promise!Next]_(Promise!vars)
  BY <1>0, <1>6, OwnType, AdmitRelease, AdmitDecUser, AdmitFree DEF Shutdown, Promise!Next
<1>. QED BY <1>1, <1>2, <1>3, <1>4, <1>5, <1>6 DEF Next

\* The scheduling of FileRepServerProc.cpp keeps the promise of Admission: requests are
\* admitted within the waiting bound of their group and served within the bounds of their
\* group and user, and each that ends service was waiting before, whatever fails.
THEOREM AdmissionImplemented == Spec => ImplementsAdmission
<1>1. Init => BoundInv
  BY TypeInit, PlaceInit, CounterInit, BoundInit DEF BoundInv, CounterInv, PlaceInv
<1>2. BoundInv /\ BoundInv' /\ [Next]_vars => [Promise!Next]_(Promise!vars)
  BY AdmitStep
<1>. QED BY <1>1, <1>2, AdmitInit, BoundNext, PTL DEF Spec, ImplementsAdmission, Promise!Spec
=============================================================================
