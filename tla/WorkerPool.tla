------------------------------ MODULE WorkerPool ------------------------------
(***************************************************************************)
(* The pool of worker threads at ServerCompletionPort: how SServiceRequests *)
(* and s_RemoteReadAsyncPipe of FileRepServerProc.cpp create and end its    *)
(* threads by the counter nThreadsAtServerCompletionPort.                   *)
(*                                                                         *)
(* The counter is changed by interlocked operations only, but the pool is   *)
(* never locked: between the return of GetQueuedCompletionStatus and the    *)
(* decrement, and between the decrement and what follows from it, all other *)
(* threads run.  What a worker does for a packet is module ServerPipe; here *)
(* it only starts more I/O.                                                *)
(***************************************************************************)
EXTENDS Integers, FiniteSets

CONSTANTS
  Threads,      \* the worker threads that can be created
  Calls,        \* the RPC threads that can be in s_RemoteReadAsyncPipe
  MaxWork       \* bound on requests queued, I/O under way and packets

ASSUME PoolAssumption ==
  /\ IsFiniteSet(Threads)
  /\ MaxWork \in Nat

VARIABLES
  pc,        \* where a worker thread is, "none" while it does not exist
  nThreads,  \* nThreadsAtServerCompletionPort
  rpc,       \* where an RPC thread is
  queued,    \* requests that wait to be activated
  pending,   \* reads and pushes under way
  packets    \* packets queued at the port

work == <<queued, pending, packets>>
vars == <<pc, nThreads, rpc, queued, pending, packets>>

\* "top": about to increment the counter and wait; "timedOut", "failed", "took":
\* returned from GetQueuedCompletionStatus and about to decrement it; "alone": busy,
\* after CreateThread failed to put another one at the port.
Steps    == {"none", "top", "wait", "timedOut", "failed", "took", "spawn", "busy", "alone"}
RpcSteps == {"idle", "check", "create", "enqueue", "search"}

Init == /\ pc = [t \in Threads |-> "none"]
        /\ nThreads = 0
        /\ rpc = [c \in Calls |-> "idle"]
        /\ queued = 0 /\ pending = 0 /\ packets = 0

Goto(t, step) == pc' = [pc EXCEPT ![t] = step]

\* CreateThread succeeds; pcs says where the other threads go.
Create(pcs) ==
  \E t \in Threads : pcs[t] = "none" /\ pc' = [pcs EXCEPT ![t] = "top"]

-----------------------------------------------------------------------------
(* FindAndActivateSReq, and s_RemoteReadAsyncPipe *)

\* A queued request is activated, or none is: the bounds forbid it, or none waits.
Activate ==
  \/ UNCHANGED <<queued, packets>>
  \/ /\ queued > 0 /\ packets < MaxWork
     /\ queued' = queued - 1
     /\ packets' = packets + 1

\* What fails before the test of the pool ends in ServerShutdownRequest.
Call(c) ==
  /\ rpc[c] = "idle"
  /\ \E step \in {"check", "search"} : rpc' = [rpc EXCEPT ![c] = step]
  /\ UNCHANGED <<pc, nThreads, work>>

\* Mutated: the test of the counter is missing.
CheckNever(c) ==
  /\ rpc[c] = "check"
  /\ rpc' = [rpc EXCEPT ![c] = "enqueue"]
  /\ UNCHANGED <<pc, nThreads, work>>

\* The counter is read, without a lock.
Check(c) ==
  /\ rpc[c] = "check"
  /\ rpc' = [rpc EXCEPT ![c] = IF nThreads < 1 THEN "create" ELSE "enqueue"]
  /\ UNCHANGED <<pc, nThreads, work>>

\* When CreateThread fails the request is shut down, and not queued.
CreateFirst(c) ==
  /\ rpc[c] = "create"
  /\ \/ Create(pc) /\ rpc' = [rpc EXCEPT ![c] = "enqueue"]
     \/ UNCHANGED pc /\ rpc' = [rpc EXCEPT ![c] = "search"]
  /\ UNCHANGED <<nThreads, work>>

\* QueueAdd, unless CounterIncrement refused the request.
Enqueue(c) ==
  /\ rpc[c] = "enqueue"
  /\ rpc' = [rpc EXCEPT ![c] = "search"]
  /\ queued' \in {queued} \cup (IF queued < MaxWork THEN {queued + 1} ELSE {})
  /\ UNCHANGED <<pc, nThreads, pending, packets>>

\* FindAndActivateSReq: after QueueAdd, or from ServerShutdownRequest.
Search(c) ==
  /\ rpc[c] = "search"
  /\ Activate
  /\ rpc' = [rpc EXCEPT ![c] = "idle"]
  /\ UNCHANGED <<pc, nThreads, pending>>

-----------------------------------------------------------------------------
(* SServiceRequests *)

Enter(t) ==
  /\ pc[t] = "top"
  /\ Goto(t, "wait")
  /\ nThreads' = nThreads + 1
  /\ UNCHANGED <<rpc, work>>

\* A packet is taken; GetQueuedCompletionStatus fails when it is of a failed I/O.
Take(t) ==
  /\ pc[t] = "wait" /\ packets > 0
  /\ \E step \in {"took", "failed"} : Goto(t, step)
  /\ packets' = packets - 1
  /\ UNCHANGED <<nThreads, rpc, queued, pending>>

TimeOut(t) ==
  /\ pc[t] = "wait" /\ packets = 0
  /\ Goto(t, "timedOut")
  /\ UNCHANGED <<nThreads, rpc, work>>

\* Mutated: no thread that times out ends.
StayAlways(t) ==
  /\ pc[t] = "timedOut"
  /\ nThreads' = nThreads - 1
  /\ Goto(t, "top")
  /\ UNCHANGED <<rpc, work>>

\* Mutated: a thread ends only when it was the last one.
LeaveLast(t) ==
  /\ pc[t] = "timedOut"
  /\ nThreads' = nThreads - 1
  /\ Goto(t, IF nThreads' = 0 THEN "none" ELSE "top")
  /\ UNCHANGED <<rpc, work>>

\* A thread that timed out ends, unless it was the last one at the port.
LeaveOrStay(t) ==
  /\ pc[t] = "timedOut"
  /\ nThreads' = nThreads - 1
  /\ Goto(t, IF nThreads' # 0 THEN "none" ELSE "top")
  /\ UNCHANGED <<rpc, work>>

\* A failed I/O is logged, and the thread waits again.
Failed(t) ==
  /\ pc[t] = "failed"
  /\ nThreads' = nThreads - 1
  /\ Goto(t, "top")
  /\ UNCHANGED <<rpc, work>>

\* Mutated: the thread that comes off with a packet stays counted.
TookCounted(t) ==
  /\ pc[t] = "took"
  /\ Goto(t, IF nThreads = 1 THEN "spawn" ELSE "busy")
  /\ UNCHANGED <<nThreads, rpc, work>>

\* Mutated: the last thread to come off does not spin up another one.
TookAlone(t) ==
  /\ pc[t] = "took"
  /\ nThreads' = nThreads - 1
  /\ Goto(t, "busy")
  /\ UNCHANGED <<rpc, work>>

\* The last thread to come off the port with a packet spins up another one.
Took(t) ==
  /\ pc[t] = "took"
  /\ nThreads' = nThreads - 1
  /\ Goto(t, IF nThreads' = 0 THEN "spawn" ELSE "busy")
  /\ UNCHANGED <<rpc, work>>

\* "If creating a thread fails there is really nothing that we can do."
Spawn(t) ==
  /\ pc[t] = "spawn"
  /\ Create([pc EXCEPT ![t] = "busy"]) \/ Goto(t, "alone")
  /\ UNCHANGED <<nThreads, rpc, work>>

\* The packet is served: a read, a push, or both are started, or the request is
\* shut down and another one activated.
Serve(t) ==
  /\ pc[t] \in {"busy", "alone"}
  /\ Goto(t, "top")
  /\ \/ /\ \E n \in 0 .. 2 : pending + n <= MaxWork /\ pending' = pending + n
        /\ UNCHANGED <<queued, packets>>
     \/ Activate /\ UNCHANGED pending
  /\ UNCHANGED <<nThreads, rpc>>

\* I/O that is under way ends and is reported.
IoEnds ==
  /\ pending > 0 /\ packets < MaxWork
  /\ pending' = pending - 1
  /\ packets' = packets + 1
  /\ UNCHANGED <<pc, nThreads, rpc, queued>>

-----------------------------------------------------------------------------
Rpc(c)    == Check(c) \/ CreateFirst(c) \/ Enqueue(c) \/ Search(c)
Worker(t) == Enter(t) \/ LeaveOrStay(t) \/ Failed(t) \/ Took(t) \/ Spawn(t) \/ Serve(t)

Next == \/ \E c \in Calls : Call(c) \/ Rpc(c)
        \/ \E t \in Threads : Worker(t) \/ Take(t) \/ TimeOut(t)
        \/ IoEnds

Spec == Init /\ [][Next]_vars

\* Threads run, waits end, and the port gives a packet to some waiter.
Fairness == /\ \A c \in Calls : WF_vars(Rpc(c))
            /\ \A t \in Threads : WF_vars(Worker(t)) /\ WF_vars(TimeOut(t))
            /\ WF_vars(\E t \in Threads : Take(t))
            /\ WF_vars(IoEnds)

FairSpec == Spec /\ Fairness

-----------------------------------------------------------------------------
(***************************************************************************)
(* Properties.                                                             *)
(***************************************************************************)
TypeOK == /\ pc \in [Threads -> Steps]
          /\ nThreads \in Nat
          /\ rpc \in [Calls -> RpcSteps]
          /\ queued \in 0 .. MaxWork /\ pending \in 0 .. MaxWork /\ packets \in 0 .. MaxWork

Counted == {t \in Threads : pc[t] \in {"wait", "timedOut", "failed", "took"}}
Alive   == {t \in Threads : pc[t] # "none"}

\* The counter is the number of threads that increment and decrement it, whatever
\* the order of waits, timeouts and packets.
CounterExact == nThreads = Cardinality(Counted)

\* Work never finds the pool empty: of several threads that time out together one
\* stays, and the thread an RPC thread saw in the unlocked counter is not gone when
\* its request is queued and activated.
HasWork == \/ queued > 0 \/ pending > 0 \/ packets > 0
           \/ \E c \in Calls : rpc[c] = "enqueue"
NeverAbandoned == HasWork => Alive # {}

\* ReadMe.txt: "P continues to have at least one waiter": once there is a worker,
\* one is at the port, on its way there, or about to be created, unless the last one
\* that came off the port could not create another and is still busy.
SomeWaiter ==
  \/ Alive = {}
  \/ \E t \in Threads :
       pc[t] \in {"top", "wait", "timedOut", "failed", "took", "spawn", "alone"}

\* A queued packet is taken, even if no further thread can be created.
PacketTaken == \A n \in 1 .. MaxWork : packets = n ~> packets # n

\* A wait times out only when no thread is between two waits: 20 s are longer than
\* that takes.
LongTimeout ==
  [][\A t \in Threads : pc[t] = "wait" /\ pc'[t] = "timedOut"
                          => \A u \in Threads : pc[u] # "top"]_vars

\* ReadMe.txt: "when no work is available all but one worker threads will
\* terminate".
NoWork == packets = 0 /\ pending = 0 /\ \A c \in Calls : rpc[c] = "idle"
OneLeft == (<>[]NoWork /\ <>LongTimeout) => <>[](Cardinality(Alive) <= 1)
=============================================================================
