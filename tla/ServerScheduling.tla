-------------------------- MODULE ServerScheduling --------------------------
(***************************************************************************)
(* How the server side of the asynchronous File Replication Service        *)
(* (FileRepAsyncPipe) admits, queues, activates and releases replication   *)
(* requests: s_RemoteReadAsyncPipe, FindSReq, FindAndActivateSReq,         *)
(* HandleSReq and ServerShutdownRequest of FileRepServerProc.cpp, over the *)
(* counters and queues of Resources.cpp.                                   *)
(*                                                                         *)
(* A step is what the code does atomically: one interlocked operation, or  *)
(* one critical section of a queue.  Between two steps of a thread every   *)
(* other thread may run.  Two threads work for a request r: the RPC thread *)
(* that delivers the call, Rpc(r), and the workers of the completion port  *)
(* that serve it one completion at a time, Worker(r).  Both run FindSReq:  *)
(* the first to start some queued request, the second to start a successor *)
(* while r itself is being shut down.                                      *)
(* The node and the counter that the hash keeps for a user are taken to be *)
(* allocated: QueueHashAdd reports no failure, and a user whose counter it *)
(* dropped would later be counted from -1.                                 *)
(***************************************************************************)
EXTENDS Integers, Sequences, FiniteSets

CONSTANTS
  Reqs,                   \* the request blocks (SReq) that can be allocated
  Users,                  \* the SIDs of the callers
  NumPriGroups,           \* number of priority groups
  ServerReqBounds,        \* per group: requests that may wait
  ServerActiveReqBounds,  \* per group: requests that may be served at a time
  MaxUserReqs,            \* per user: requests that may be served at a time
  NoReq,                  \* a null SReq*
  NoUser,                 \* a null PSID
  Faults                  \* which of the failures the code only logs may happen

Pri      == 0 .. NumPriGroups - 1
\* A QueueNode cannot be allocated / the handling of an activated request gives
\* up without shutting it down.
FaultKinds == {"queueAdd", "handle"}

ASSUME SchedulingAssumption ==
  /\ IsFiniteSet(Reqs)
  /\ NumPriGroups \in Nat \ {0}
  /\ ServerReqBounds \in [Pri -> Nat]
  /\ ServerActiveReqBounds \in [Pri -> Nat]
  /\ MaxUserReqs \in Nat
  /\ NoReq \notin Reqs
  /\ NoUser \notin Users
  /\ Faults \subseteq FaultKinds

Threads   == {"rpc", "worker"} \X Reqs
Rpc(r)    == <<"rpc", r>>
Worker(r) == <<"worker", r>>
Own(t)    == t[2]

VARIABLES
  queue,        \* ServerReqQueues[p]: the requests waiting in group p
  reqCount,     \* pServerReqCounters[p]->Value
  activeCount,  \* pServerActiveReqCounters[p]->Value
  userCount,    \* the counter of a SID in ServerActiveReqHashCounters[p]
  state,        \* pReq->State, "Free" while the block is not allocated
  pri,          \* pReq->Pri
  sid,          \* pReq->pSID
  pc,           \* the next atomic step of a thread
  held,         \* the local pReq of a thread inside FindSReq
  scan          \* the loop variable pri of FindSReq

counters == <<reqCount, activeCount, userCount>>
request  == <<state, pri, sid>>
vars     == <<queue, reqCount, activeCount, userCount, state, pri, sid,
              pc, held, scan>>

\* The steps of FindSReq that work on a request taken off a queue.
Examining == {"incActive", "decOver", "incUser", "decActive", "putBack",
              "decReq", "activate"}
Steps     == {"idle", "count", "uncount", "enqueue", "scan", "posted", "serve",
              "lost", "release", "decUser", "free"} \cup Examining
States    == {"Free", "Arrived", "Queued", "Active"}

Init ==
  /\ queue       = [p \in Pri |-> <<>>]
  /\ reqCount    = [p \in Pri |-> 0]
  /\ activeCount = [p \in Pri |-> 0]
  /\ userCount   = [p \in Pri |-> [u \in Users |-> 0]]
  /\ state = [r \in Reqs |-> "Free"]
  /\ pri   = [r \in Reqs |-> 0]
  /\ sid   = [r \in Reqs |-> NoUser]
  /\ pc    = [t \in Threads |-> "idle"]
  /\ held  = [t \in Threads |-> NoReq]
  /\ scan  = [t \in Threads |-> 0]

-----------------------------------------------------------------------------
(***************************************************************************)
(* FindSReq and FindAndActivateSReq.                                       *)
(***************************************************************************)

\* CounterIncrement refuses an increment whose result is beyond the bound.
ExceedsByTwo(value, bound) == value > bound + 1
Exceeds(value, bound) == value > bound

\* The loop over the groups starts at the highest one.
SecondGroup == NumPriGroups - 1
FirstGroup  == NumPriGroups

\* The thread came to FindAndActivateSReq from ServerShutdownRequest of its own
\* request, and not from the end of s_RemoteReadAsyncPipe.
ShuttingDown(t) == t[1] = "worker" \/ state[Own(t)] = "Arrived"

\* Where a thread continues when FindAndActivateSReq returns.
Return(t) == IF ShuttingDown(t) THEN "release" ELSE "idle"

\* QueueRemove of the queue the loop is at: an empty one moves the loop to the
\* next lower group, and the last empty one ends the search.
SkipEmpty(t) ==
  /\ pc[t] = "scan"
  /\ queue[scan[t] - 1] = <<>>
  /\ scan' = [scan EXCEPT ![t] = @ - 1]
  /\ pc' = IF scan[t] = 1 THEN [pc EXCEPT ![t] = Return(t)] ELSE pc
  /\ UNCHANGED <<queue, counters, request, held>>

Take(t) ==
  LET p == scan[t] - 1 IN
  /\ pc[t] = "scan"
  /\ queue[p] # <<>>
  /\ held' = [held EXCEPT ![t] = Head(queue[p])]
  /\ queue' = [queue EXCEPT ![p] = Tail(@)]
  /\ scan' = [scan EXCEPT ![t] = 0]
  /\ pc' = [pc EXCEPT ![t] = "incActive"]
  /\ UNCHANGED <<counters, request>>

\* CounterIncrement of the group's active counter: the interlocked increment,
\* and the verdict on its result.
IncActive(t) ==
  LET p == pri[held[t]] IN
  /\ pc[t] = "incActive"
  /\ activeCount' = [activeCount EXCEPT ![p] = @ + 1]
  /\ pc' = [pc EXCEPT ![t] = IF Exceeds(activeCount[p] + 1, ServerActiveReqBounds[p])
                             THEN "decOver" ELSE "incUser"]
  /\ UNCHANGED <<queue, reqCount, userCount, request, held, scan>>

\* The decrement with which CounterIncrement takes a refused increment back.
DecOver(t) ==
  LET p == pri[held[t]] IN
  /\ pc[t] = "decOver"
  /\ activeCount' = [activeCount EXCEPT ![p] = @ - 1]
  /\ pc' = [pc EXCEPT ![t] = "putBack"]
  /\ UNCHANGED <<queue, reqCount, userCount, request, held, scan>>

\* Mutated: the result of QueueHashIncrementCounter is not looked at.
IncUserUnchecked(t) ==
  /\ pc[t] = "incUser"
  /\ userCount' = [userCount EXCEPT ![pri[held[t]]][sid[held[t]]] = @ + 1]
  /\ pc' = [pc EXCEPT ![t] = "decReq"]
  /\ UNCHANGED <<queue, reqCount, activeCount, request, held, scan>>

\* QueueHashIncrementCounter: test and increment under the lock of the hash.
IncUser(t) ==
  LET r == held[t]
      within == ~Exceeds(userCount[pri[r]][sid[r]] + 1, MaxUserReqs)
  IN
  /\ pc[t] = "incUser"
  /\ userCount' = IF within THEN [userCount EXCEPT ![pri[r]][sid[r]] = @ + 1]
                            ELSE userCount
  /\ pc' = [pc EXCEPT ![t] = IF within THEN "decReq" ELSE "decActive"]
  /\ UNCHANGED <<queue, reqCount, activeCount, request, held, scan>>

\* Mutated: "Don't forget to decrement the counter for the group!"
DecActiveForgotten(t) ==
  /\ pc[t] = "decActive"
  /\ pc' = [pc EXCEPT ![t] = "putBack"]
  /\ UNCHANGED <<queue, counters, request, held, scan>>

\* The user is at the bound: the group's counter is given back first.
DecActive(t) ==
  LET p == pri[held[t]] IN
  /\ pc[t] = "decActive"
  /\ activeCount' = [activeCount EXCEPT ![p] = @ - 1]
  /\ pc' = [pc EXCEPT ![t] = "putBack"]
  /\ UNCHANGED <<queue, reqCount, userCount, request, held, scan>>

\* The result of QueueAdd(ServerReqQueues[pri[r]], r): r is at the tail, or
\* nowhere when its node could not be allocated.
Added(r) == {[queue EXCEPT ![pri[r]] = Append(@, r)]}
              \cup (IF "queueAdd" \in Faults THEN {queue} ELSE {})

\* A request beyond a bound goes back to the tail, and the search ends.
PutBack(t) ==
  /\ pc[t] = "putBack"
  /\ queue' \in Added(held[t])
  /\ held' = [held EXCEPT ![t] = NoReq]
  /\ pc' = [pc EXCEPT ![t] = Return(t)]
  /\ UNCHANGED <<counters, request, scan>>

DecReq(t) ==
  LET p == pri[held[t]] IN
  /\ pc[t] = "decReq"
  /\ reqCount' = [reqCount EXCEPT ![p] = @ - 1]
  /\ pc' = [pc EXCEPT ![t] = "activate"]
  /\ UNCHANGED <<queue, activeCount, userCount, request, held, scan>>

\* The state is set and the IoFileRep packet is posted to the completion port.
Activate(t) ==
  LET r == held[t] IN
  /\ pc[t] = "activate"
  /\ state' = [state EXCEPT ![r] = "Active"]
  /\ pc' = [pc EXCEPT ![t] = Return(t), ![Worker(r)] = "posted"]
  /\ held' = [held EXCEPT ![t] = NoReq]
  /\ UNCHANGED <<queue, counters, pri, sid, scan>>

Find(t) ==
  \/ SkipEmpty(t) \/ Take(t)
  \/ IncActive(t) \/ DecOver(t) \/ IncUser(t) \/ DecActive(t)
  \/ PutBack(t) \/ DecReq(t) \/ Activate(t)

-----------------------------------------------------------------------------
(***************************************************************************)
(* s_RemoteReadAsyncPipe, run by the RPC thread of the request.            *)
(***************************************************************************)

\* What GetCurrentUserPriority may return.
CallerPri == Pri

\* A call arrives; the caller's group and SID are read off its token.  Any of
\* the steps before the counter (allocation, impersonation, token, worker
\* creation) may fail, and the request is then shut down at once.
Arrive(r) ==
  /\ state[r] = "Free" /\ pc[Rpc(r)] = "idle"
  /\ state' = [state EXCEPT ![r] = "Arrived"]
  /\ \E p \in CallerPri, u \in Users :
       pri' = [pri EXCEPT ![r] = p] /\ sid' = [sid EXCEPT ![r] = u]
  /\ \/ /\ pc' = [pc EXCEPT ![Rpc(r)] = "count"]
        /\ scan' = scan
     \/ /\ pc' = [pc EXCEPT ![Rpc(r)] = "scan"]
        /\ scan' = [scan EXCEPT ![Rpc(r)] = FirstGroup]
  /\ UNCHANGED <<queue, counters, held>>

\* CounterIncrement of the group's request counter.
Count(r) ==
  LET p == pri[r] IN
  /\ pc[Rpc(r)] = "count"
  /\ reqCount' = [reqCount EXCEPT ![p] = @ + 1]
  /\ pc' = [pc EXCEPT ![Rpc(r)] = IF Exceeds(reqCount[p] + 1, ServerReqBounds[p])
                                  THEN "uncount" ELSE "enqueue"]
  /\ UNCHANGED <<queue, activeCount, userCount, request, held, scan>>

\* The refused increment is taken back and the call is shut down as too busy.
Uncount(r) ==
  /\ pc[Rpc(r)] = "uncount"
  /\ reqCount' = [reqCount EXCEPT ![pri[r]] = @ - 1]
  /\ pc' = [pc EXCEPT ![Rpc(r)] = "scan"]
  /\ scan' = [scan EXCEPT ![Rpc(r)] = FirstGroup]
  /\ UNCHANGED <<queue, activeCount, userCount, request, held>>

\* Mutated: the thread goes on with the request it has just queued.
EnqueueAndKeep(r) ==
  /\ pc[Rpc(r)] = "enqueue"
  /\ state' = [state EXCEPT ![r] = "Queued"]
  /\ queue' \in Added(r)
  /\ held' = [held EXCEPT ![Rpc(r)] = r]
  /\ pc' = [pc EXCEPT ![Rpc(r)] = "incActive"]
  /\ UNCHANGED <<counters, pri, sid, scan>>

\* Mutated: nobody is looked for after QueueAdd.
EnqueueOnly(r) ==
  /\ pc[Rpc(r)] = "enqueue"
  /\ state' = [state EXCEPT ![r] = "Queued"]
  /\ queue' \in Added(r)
  /\ pc' = [pc EXCEPT ![Rpc(r)] = "idle"]
  /\ UNCHANGED <<counters, pri, sid, held, scan>>

\* After QueueAdd the request may be activated, served and freed by others while
\* this thread is still in FindAndActivateSReq.
Enqueue(r) ==
  /\ pc[Rpc(r)] = "enqueue"
  /\ state' = [state EXCEPT ![r] = "Queued"]
  /\ queue' \in Added(r)
  /\ pc' = [pc EXCEPT ![Rpc(r)] = "scan"]
  /\ scan' = [scan EXCEPT ![Rpc(r)] = FirstGroup]
  /\ UNCHANGED <<counters, pri, sid, held>>

-----------------------------------------------------------------------------
(***************************************************************************)
(* The workers: HandleSReq on the posted packet, the transfer (module      *)
(* ServerPipe), and ServerShutdownRequest.                                 *)
(***************************************************************************)

\* HandleSReq opens the file, or shuts the request down when it cannot, or -
\* when the completion port or the critical section fails - only logs.
Handle(r) ==
  /\ pc[Worker(r)] = "posted"
  /\ \/ pc' = [pc EXCEPT ![Worker(r)] = "serve"] /\ scan' = scan
     \/ /\ pc' = [pc EXCEPT ![Worker(r)] = "scan"]
        /\ scan' = [scan EXCEPT ![Worker(r)] = FirstGroup]
     \/ /\ "handle" \in Faults
        /\ pc' = [pc EXCEPT ![Worker(r)] = "lost"] /\ scan' = scan
  /\ UNCHANGED <<queue, counters, request, held>>

\* The transfer ends, well or badly, in ServerShutdownRequest, which begins by
\* looking for a successor.
Finish(r) ==
  /\ pc[Worker(r)] = "serve"
  /\ pc' = [pc EXCEPT ![Worker(r)] = "scan"]
  /\ scan' = [scan EXCEPT ![Worker(r)] = FirstGroup]
  /\ UNCHANGED <<queue, counters, request, held>>

\* The counters the request holds are released according to its state.
Release(t) ==
  LET r == Own(t) IN
  /\ pc[t] = "release"
  /\ reqCount' = IF state[r] = "Queued"
                 THEN [reqCount EXCEPT ![pri[r]] = @ - 1] ELSE reqCount
  /\ activeCount' = IF state[r] = "Active"
                    THEN [activeCount EXCEPT ![pri[r]] = @ - 1] ELSE activeCount
  /\ pc' = [pc EXCEPT ![t] = IF state[r] = "Active" THEN "decUser" ELSE "free"]
  /\ UNCHANGED <<queue, userCount, request, held, scan>>

DecUser(t) ==
  LET r == Own(t) IN
  /\ pc[t] = "decUser"
  /\ userCount' = [userCount EXCEPT ![pri[r]][sid[r]] = @ - 1]
  /\ pc' = [pc EXCEPT ![t] = "free"]
  /\ UNCHANGED <<queue, reqCount, activeCount, request, held, scan>>

\* AutoHeapFree; a block allocated later starts with Pri 0 and a null SID.
FreeReq(t) ==
  LET r == Own(t) IN
  /\ pc[t] = "free"
  /\ state' = [state EXCEPT ![r] = "Free"]
  /\ pri' = [pri EXCEPT ![r] = 0]
  /\ sid' = [sid EXCEPT ![r] = NoUser]
  /\ pc' = [pc EXCEPT ![t] = "idle"]
  /\ UNCHANGED <<queue, counters, held, scan>>

Shutdown(t) == Release(t) \/ DecUser(t) \/ FreeReq(t)

-----------------------------------------------------------------------------
Next ==
  \/ \E r \in Reqs : Arrive(r) \/ Count(r) \/ Uncount(r) \/ Enqueue(r)
                       \/ Handle(r) \/ Finish(r)
  \/ \E t \in Threads : Find(t) \/ Shutdown(t)

Spec == Init /\ [][Next]_vars

\* Threads that can run do run, and transfers end; calls need not arrive.
Fairness ==
  /\ \A r \in Reqs : WF_vars(Count(r) \/ Uncount(r) \/ Enqueue(r))
  /\ \A r \in Reqs : WF_vars(Handle(r) \/ Finish(r))
  /\ \A t \in Threads : WF_vars(Find(t) \/ Shutdown(t))

FairSpec == Spec /\ Fairness

-----------------------------------------------------------------------------
(***************************************************************************)
(* Properties.                                                             *)
(***************************************************************************)
TypeOK ==
  /\ queue \in [Pri -> Seq(Reqs)]
  /\ reqCount \in [Pri -> Int]
  /\ activeCount \in [Pri -> Int]
  /\ userCount \in [Pri -> [Users -> Int]]
  /\ state \in [Reqs -> States]
  /\ pri \in [Reqs -> Pri]
  /\ sid \in [Reqs -> Users \cup {NoUser}]
  /\ pc \in [Threads -> Steps]
  /\ held \in [Threads -> Reqs \cup {NoReq}]
  /\ scan \in [Threads -> 0 .. NumPriGroups]

\* The local variables of FindSReq: pReq is set while a taken request is
\* examined, and the loop variable has not run out while the loop runs.
Locals ==
  \A t \in Threads : /\ pc[t] \in Examining => held[t] # NoReq
                     /\ pc[t] = "scan" => scan[t] # 0

\* Which thread can be where: only an RPC thread counts and queues its request,
\* only a worker serves it, and an RPC thread shuts down only what never was
\* queued.
Roles ==
  /\ \A r \in Reqs :
       /\ pc[Worker(r)] \notin {"count", "uncount", "enqueue"}
       /\ pc[Rpc(r)] \notin {"posted", "serve", "lost", "decUser"}
       /\ pc[Rpc(r)] \in {"count", "uncount", "enqueue", "release", "free"}
            => state[r] = "Arrived"
       /\ state[r] # "Free" => sid[r] \in Users
  /\ \A t \in Threads : held[t] # NoReq => pc[t] \in Examining

\* Some thread works, in FindSReq, on r and is at one of the given steps.
ExaminedAt(r, steps) == \E t \in Threads : held[t] = r /\ pc[t] \in steps

\* The requests each counter stands for.
WaitCharged(p) ==
  {r \in Reqs : /\ pri[r] = p
                /\ \/ pc[Rpc(r)] \in {"uncount", "enqueue"}
                   \/ state[r] = "Queued" /\ ~ExaminedAt(r, {"activate"})}
GroupCharged(p) ==
  {r \in Reqs : /\ pri[r] = p
                /\ \/ ExaminedAt(r, Examining \ {"incActive", "putBack"})
                   \/ state[r] = "Active" /\ pc[Worker(r)] \notin {"decUser", "free"}}
UserCharged(p, u) ==
  {r \in Reqs : /\ pri[r] = p /\ sid[r] = u
                /\ \/ ExaminedAt(r, {"decReq", "activate"})
                   \/ state[r] = "Active" /\ pc[Worker(r)] # "free"}

\* No interleaving of arrivals, searches, put-backs and shutdowns makes a counter
\* drift: each equals the number of requests that are charged to it right now, a
\* refused increment that is not yet taken back included.
CountersExact ==
  \A p \in Pri :
    /\ reqCount[p] = Cardinality(WaitCharged(p))
    /\ activeCount[p] = Cardinality(GroupCharged(p))
    /\ \A u \in Users : userCount[p][u] = Cardinality(UserCharged(p, u))

\* The requests being served (until their counters are released).
Served(p)        == {r \in Reqs : /\ state[r] = "Active" /\ pri[r] = p
                                  /\ pc[Worker(r)] \notin {"decUser", "free"}}
ServedFor(p, u)  == {r \in Served(p) : sid[r] = u}

\* Service.h: at most ServerActiveReqBounds[p] requests of a group and at most
\* MaxUserReqs of a user are handled simultaneously, although CounterIncrement
\* tests the bound only after it has incremented.
ActiveWithinBounds ==
  \A p \in Pri :
    /\ Cardinality(Served(p)) <= ServerActiveReqBounds[p]
    /\ \A u \in Users : Cardinality(ServedFor(p, u)) <= MaxUserReqs

\* The parts of OnePlace: no request is queued twice; what is queued waits, in the
\* queue of its group, and nobody examines it; what is examined waits, and one
\* thread examines it; a worker owns exactly the active requests.
QueuedOnce ==
  \A p, q \in Pri : \A i \in 1 .. Len(queue[p]), j \in 1 .. Len(queue[q]) :
    queue[p][i] = queue[q][j] => p = q /\ i = j
QueuedSound ==
  \A p \in Pri : \A i \in 1 .. Len(queue[p]) :
    /\ state[queue[p][i]] = "Queued" /\ pri[queue[p][i]] = p
    /\ \A t \in Threads : held[t] # queue[p][i]
HeldOnce ==
  \A t \in Threads : held[t] # NoReq =>
    /\ state[held[t]] = "Queued"
    /\ \A u \in Threads : held[u] = held[t] => u = t
ServedIffActive ==
  \A r \in Reqs : state[r] = "Active" <=> pc[Worker(r)] # "idle"

\* A request is in one place at a time: once in the queue of its group, or in the
\* hands of one searching thread, or served; so no two threads serve it, and
\* what a queue or a search refers to has not been freed.
OnePlace == QueuedOnce /\ QueuedSound /\ HeldOnce /\ ServedIffActive

\* When nothing is running and nothing is being served, nothing is waiting: a
\* queued request is not left behind (ServerShutdownRequest: "We are actually
\* deleting a request, pick a new one from the queue").
NoStranded ==
  (\A t \in Threads : pc[t] = "idle") => \A p \in Pri : queue[p] = <<>>

\* A queued request of the highest group is eventually served, whatever else
\* arrives meanwhile.
TopGroupServed ==
  \A r \in Reqs :
    (state[r] = "Queued" /\ pri[r] = NumPriGroups - 1) ~> (state[r] = "Active")

\* The promise of module Admission.  A request waits from its CounterIncrement
\* to the one on its user's counter, and is served until its group's counter is
\* released.
Phase(r) ==
  CASE state[r] = "Queued" ->
         IF ExaminedAt(r, {"decReq", "activate"}) THEN "served" ELSE "waiting"
    [] state[r] = "Active" ->
         IF pc[Worker(r)] \in {"decUser", "free"} THEN "none" ELSE "served"
    [] OTHER -> IF pc[Rpc(r)] = "enqueue" THEN "waiting" ELSE "none"

Promise == INSTANCE Admission
             WITH Users <- Users \cup {NoUser}, WaitBound <- ServerReqBounds,
                  ServeBound <- ServerActiveReqBounds, UserBound <- MaxUserReqs,
                  phase <- [r \in Reqs |-> Phase(r)]

ImplementsAdmission == Promise!Spec
=============================================================================
