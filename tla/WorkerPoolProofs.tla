--------------------------- MODULE WorkerPoolProofs ---------------------------
(***************************************************************************)
(* Proofs about WorkerPool for every number of workers and callers, any     *)
(* failures of CreateThread, and timeouts at any time.                      *)
(*                                                                         *)
(* CounterExact is the key: a thread decides to end, or not to spin up      *)
(* another one, by the counter, and from CounterExact a counter that is not *)
(* zero names a thread that is still at the port.                           *)
(***************************************************************************)
EXTENDS WorkerPool, FiniteSetTheorems, TLAPS

PoolInv == TypeOK /\ CounterExact

LEMMA CountedFinite == IsFiniteSet(Counted)
<1>1. Counted \subseteq Threads
  BY DEF Counted
<1>. QED BY <1>1, PoolAssumption, FS_Subset

\* What the counter says about the threads that are at the port.
LEMMA CountedFacts ==
  ASSUME PoolInv
  PROVE  /\ nThreads \in Nat
         /\ nThreads = 0 => Counted = {}
         /\ nThreads # 0 => Counted # {}
BY CountedFinite, FS_EmptySet DEF PoolInv, TypeOK, CounterExact

\* One thread comes to the port, one leaves it, or none does either.
LEMMA CountChange ==
  ASSUME PoolInv, NEW t \in Threads
  PROVE  /\ t \notin Counted /\ Counted' = Counted \cup {t} /\ nThreads' = nThreads + 1
              => CounterExact'
         /\ t \in Counted /\ Counted' = Counted \ {t} /\ nThreads' = nThreads - 1
              => CounterExact' /\ nThreads' \in Nat
         /\ Counted' = Counted /\ nThreads' = nThreads => CounterExact'
<1>1. nThreads = Cardinality(Counted) /\ nThreads \in Nat
  BY DEF PoolInv, CounterExact, TypeOK
<1>2. CASE t \notin Counted /\ Counted' = Counted \cup {t} /\ nThreads' = nThreads + 1
  <2>1. Cardinality(Counted \cup {t}) = Cardinality(Counted) + 1
    BY <1>2, CountedFinite, FS_AddElement
  <2>. QED BY <1>1, <1>2, <2>1 DEF CounterExact
<1>3. CASE t \in Counted /\ Counted' = Counted \ {t} /\ nThreads' = nThreads - 1
  <2>1. /\ Cardinality(Counted \ {t}) = Cardinality(Counted) - 1
        /\ Cardinality(Counted \ {t}) \in Nat
    <3>1. IsFiniteSet(Counted \ {t})
      BY CountedFinite, FS_RemoveElement
    <3>. QED BY <1>3, <3>1, CountedFinite, FS_RemoveElement, FS_CardinalityType
  <2>. QED BY <1>1, <1>3, <2>1 DEF CounterExact
<1>. QED BY <1>1, <1>2, <1>3 DEF CounterExact

LEMMA PoolInit == Init => PoolInv /\ NeverAbandoned /\ SomeWaiter
<1>. SUFFICES ASSUME Init PROVE PoolInv /\ NeverAbandoned /\ SomeWaiter
  OBVIOUS
<1>1. TypeOK
  BY PoolAssumption DEF Init, TypeOK, Steps, RpcSteps
<1>2. Counted = {} /\ Alive = {}
  BY DEF Init, Counted, Alive
<1>3. CounterExact
  BY <1>2, FS_EmptySet DEF Init, CounterExact
<1>4. NeverAbandoned /\ SomeWaiter
  BY <1>2 DEF Init, NeverAbandoned, HasWork, SomeWaiter
<1>. QED BY <1>1, <1>3, <1>4 DEF PoolInv

(***************************************************************************)
(* CreateThread changes no thread that exists, and the new one is not yet  *)
(* counted.                                                                *)
(***************************************************************************)
LEMMA CreateFacts ==
  ASSUME NEW pcs \in [Threads -> Steps], Create(pcs)
  PROVE  /\ pc' \in [Threads -> Steps]
         /\ \A t \in Threads : pcs[t] # "none" => pc'[t] = pcs[t]
         /\ \A t \in Threads : pc'[t] # pcs[t] => pc'[t] = "top"
         /\ \E t \in Threads : pc'[t] = "top"
BY DEF Create, Steps

LEMMA InvRpc ==
  ASSUME PoolInv, NEW c \in Calls, Call(c) \/ Rpc(c)
  PROVE  PoolInv'
<1>1. CASE Call(c) \/ Check(c)
  BY <1>1 DEF PoolInv, TypeOK, CounterExact, Counted, Call, Check, RpcSteps, work
<1>2. CASE CreateFirst(c)
  <2>1. /\ pc' \in [Threads -> Steps]
        /\ \A t \in Threads : pc[t] # "none" => pc'[t] = pc[t]
        /\ \A t \in Threads : pc'[t] # pc[t] => pc'[t] = "top"
    <3>1. CASE Create(pc)
      BY <3>1, CreateFacts DEF PoolInv, TypeOK
    <3>2. CASE UNCHANGED pc
      BY <3>2 DEF PoolInv, TypeOK
    <3>. QED BY <1>2, <3>1, <3>2 DEF CreateFirst
  <2>2. Counted' = Counted
    BY <2>1 DEF Counted
  <2>3. TypeOK'
    BY <1>2, <2>1 DEF CreateFirst, PoolInv, TypeOK, RpcSteps, work
  <2>. QED BY <1>2, <2>2, <2>3 DEF CreateFirst, PoolInv, CounterExact
<1>3. CASE Enqueue(c) \/ Search(c)
  <2>1. TypeOK'
    BY <1>3, PoolAssumption DEF PoolInv, TypeOK, Enqueue, Search, Activate, RpcSteps
  <2>. QED BY <1>3, <2>1 DEF PoolInv, CounterExact, Counted, Enqueue, Search
<1>. QED BY <1>1, <1>2, <1>3 DEF Rpc

LEMMA InvWorker ==
  ASSUME PoolInv, NEW t \in Threads, Worker(t) \/ Take(t) \/ TimeOut(t)
  PROVE  PoolInv'
<1>. USE PoolAssumption
<1>1. CASE Enter(t)
  <2>1. TypeOK'
    BY <1>1 DEF PoolInv, TypeOK, Enter, Goto, Steps, work
  <2>2. t \notin Counted /\ Counted' = Counted \cup {t}
    BY <1>1 DEF PoolInv, TypeOK, Enter, Goto, Counted
  <2>. QED BY <1>1, <2>1, <2>2, CountChange DEF Enter, PoolInv
<1>2. CASE LeaveOrStay(t) \/ Failed(t) \/ Took(t)
  <2>1. /\ pc' \in [Threads -> Steps] /\ UNCHANGED <<rpc, queued, pending, packets>>
        /\ nThreads' = nThreads - 1
    BY <1>2 DEF PoolInv, TypeOK, LeaveOrStay, Failed, Took, Goto, Steps, work
  <2>2. t \in Counted /\ Counted' = Counted \ {t}
    <3>1. pc[t] \in {"timedOut", "failed", "took"}
      BY <1>2 DEF LeaveOrStay, Failed, Took
    <3>2. PICK s \in {"none", "top", "spawn", "busy"} : pc' = [pc EXCEPT ![t] = s]
      BY <1>2 DEF LeaveOrStay, Failed, Took, Goto
    <3>. QED BY <3>1, <3>2 DEF PoolInv, TypeOK, Counted
  <2>3. CounterExact' /\ nThreads' \in Nat
    BY <2>1, <2>2, CountChange
  <2>. QED BY <2>1, <2>3 DEF PoolInv, TypeOK
<1>3. CASE Take(t) \/ TimeOut(t)
  <2>1. PICK s \in {"timedOut", "failed", "took"} : pc' = [pc EXCEPT ![t] = s]
    BY <1>3 DEF Take, TimeOut, Goto
  <2>2. Counted' = Counted
    <3>1. pc[t] = "wait"
      BY <1>3 DEF Take, TimeOut
    <3>. QED BY <2>1, <3>1 DEF PoolInv, TypeOK, Counted
  <2>3. TypeOK'
    BY <1>3, <2>1 DEF PoolInv, TypeOK, Take, TimeOut, Steps, work
  <2>4. nThreads' = nThreads
    BY <1>3 DEF Take, TimeOut
  <2>. QED BY <2>2, <2>3, <2>4, CountChange DEF PoolInv
<1>4. CASE Spawn(t)
  <2>. DEFINE pcs == [pc EXCEPT ![t] = "busy"]
  <2>1. pcs \in [Threads -> Steps] /\ pc[t] = "spawn"
    BY <1>4 DEF Spawn, PoolInv, TypeOK, Steps
  <2>2. pc' \in [Threads -> Steps] /\ Counted' = Counted
    <3>1. CASE Create(pcs)
      <4>1. /\ pc' \in [Threads -> Steps]
            /\ \A u \in Threads : pcs[u] # "none" => pc'[u] = pcs[u]
            /\ \A u \in Threads : pc'[u] # pcs[u] => pc'[u] = "top"
        BY <2>1, <3>1, CreateFacts
      <4>. QED BY <2>1, <4>1 DEF Counted, PoolInv, TypeOK
    <3>2. CASE Goto(t, "alone")
      BY <2>1, <3>2 DEF Counted, Goto, PoolInv, TypeOK, Steps
    <3>. QED BY <1>4, <3>1, <3>2 DEF Spawn
  <2>4. TypeOK' /\ nThreads' = nThreads
    BY <1>4, <2>2 DEF Spawn, PoolInv, TypeOK, work
  <2>. QED BY <2>2, <2>4, CountChange DEF PoolInv
<1>5. CASE Serve(t)
  <2>1. TypeOK'
    BY <1>5 DEF PoolInv, TypeOK, Serve, Activate, Goto, Steps
  <2>2. Counted' = Counted
    BY <1>5 DEF PoolInv, TypeOK, Serve, Goto, Counted
  <2>. QED BY <1>5, <2>1, <2>2, CountChange DEF Serve, PoolInv
<1>. QED BY <1>1, <1>2, <1>3, <1>4, <1>5 DEF Worker

LEMMA InvNext == PoolInv /\ [Next]_vars => PoolInv'
<1>. SUFFICES ASSUME PoolInv, [Next]_vars PROVE PoolInv'
  OBVIOUS
<1>1. CASE IoEnds
  BY <1>1, PoolAssumption DEF PoolInv, TypeOK, CounterExact, Counted, IoEnds
<1>2. CASE UNCHANGED vars
  BY <1>2 DEF PoolInv, TypeOK, CounterExact, Counted, vars
<1>. QED BY <1>1, <1>2, InvRpc, InvWorker DEF Next

\* The counter is never negative and is exactly the number of threads that are at
\* the port or have come off it without having decremented it.
THEOREM PoolCounted == Spec => [](TypeOK /\ CounterExact)
<1>. QED BY PoolInit, InvNext, PTL DEF Spec, PoolInv

(***************************************************************************)
(* Posted work never finds the pool empty.                                 *)
(***************************************************************************)

\* A thread that ends leaves another one behind.
LEMMA LeaveFacts ==
  ASSUME PoolInv, NEW t \in Threads, LeaveOrStay(t)
  PROVE  \/ /\ pc' = [pc EXCEPT ![t] = "top"] /\ nThreads' = 0
         \/ /\ pc' = [pc EXCEPT ![t] = "none"]
            /\ \E u \in Threads \ {t} : u \in Counted
<1>1. CASE nThreads' = 0
  BY <1>1 DEF LeaveOrStay, Goto
<1>2. CASE nThreads' # 0
  <2>1. pc' = [pc EXCEPT ![t] = "none"]
    BY <1>2 DEF LeaveOrStay, Goto
  <2>2. Counted' # {}
    <3>1. PoolInv'
      BY InvWorker DEF Worker
    <3>2. nThreads' = Cardinality(Counted')
      BY <3>1 DEF PoolInv, CounterExact
    <3>. QED BY <1>2, <3>2, FS_EmptySet
  <2>3. Counted' \subseteq Counted \ {t}
    BY <2>1 DEF PoolInv, TypeOK, Counted
  <2>. QED BY <2>1, <2>2, <2>3 DEF Counted
<1>. QED BY <1>1, <1>2

\* No step empties the pool.
LEMMA AliveStays ==
  ASSUME PoolInv, [Next]_vars, Alive # {}
  PROVE  Alive' # {}
<1>0. PICK a \in Threads : pc[a] # "none"
  BY DEF Alive
<1>1. ASSUME NEW t \in Threads, Worker(t) \/ Take(t) \/ TimeOut(t)
      PROVE  Alive' # {}
  <2>1. CASE LeaveOrStay(t)
    <3>1. CASE pc' = [pc EXCEPT ![t] = "top"]
      BY <3>1 DEF PoolInv, TypeOK, Alive
    <3>2. CASE /\ pc' = [pc EXCEPT ![t] = "none"]
               /\ \E u \in Threads \ {t} : u \in Counted
      BY <3>2 DEF PoolInv, TypeOK, Alive, Counted
    <3>. QED BY <2>1, <3>1, <3>2, LeaveFacts
  <2>2. CASE Spawn(t)
    <3>. DEFINE pcs == [pc EXCEPT ![t] = "busy"]
    <3>1. pcs \in [Threads -> Steps] /\ pcs[t] = "busy"
      BY DEF PoolInv, TypeOK, Steps
    <3>2. CASE Create(pcs)
      BY <3>1, <3>2, CreateFacts DEF Alive
    <3>3. CASE Goto(t, "alone")
      BY <3>3 DEF Goto, PoolInv, TypeOK, Alive
    <3>. QED BY <2>2, <3>2, <3>3 DEF Spawn
  <2>3. CASE Enter(t) \/ Failed(t) \/ Took(t) \/ Serve(t) \/ Take(t) \/ TimeOut(t)
    <3>1. PICK s \in Steps \ {"none"} : pc' = [pc EXCEPT ![t] = s]
      BY <2>3 DEF Enter, Failed, Took, Serve, Take, TimeOut, Goto, Steps
    <3>. QED BY <3>1 DEF PoolInv, TypeOK, Alive
  <2>. QED BY <1>1, <2>1, <2>2, <2>3 DEF Worker
<1>2. ASSUME NEW c \in Calls, CreateFirst(c)
      PROVE  Alive' # {}
  <2>1. pc'[a] = pc[a]
    <3>1. CASE Create(pc)
      BY <1>0, <3>1, CreateFacts DEF PoolInv, TypeOK
    <3>. QED BY <1>2, <3>1 DEF CreateFirst
  <2>. QED BY <1>0, <2>1 DEF Alive
<1>3. ASSUME UNCHANGED pc
      PROVE  Alive' # {}
  BY <1>0, <1>3 DEF Alive
<1>4. ASSUME NEW c \in Calls, Call(c) \/ Check(c) \/ Enqueue(c) \/ Search(c)
      PROVE  UNCHANGED pc
  BY <1>4 DEF Call, Check, Enqueue, Search
<1>5. IoEnds \/ UNCHANGED vars => UNCHANGED pc
  BY DEF IoEnds, vars
<1>. QED BY <1>1, <1>2, <1>3, <1>4, <1>5 DEF Next, Rpc

LEMMA AbandonNext ==
  ASSUME PoolInv, NeverAbandoned, [Next]_vars
  PROVE  NeverAbandoned'
<1>. SUFFICES ASSUME Alive' = {} PROVE ~HasWork'
  BY DEF NeverAbandoned
<1>1. Alive = {} /\ nThreads = 0
  <2>1. Alive = {}
    BY AliveStays
  <2>2. Counted = {}
    BY <2>1 DEF Alive, Counted
  <2>. QED BY <2>1, <2>2, CountedFacts
<1>2. ~HasWork
  BY <1>1 DEF NeverAbandoned
<1>3. queued = 0 /\ packets = 0 /\ pending = 0 /\ \A c \in Calls : rpc[c] # "enqueue"
  <2>1. queued \in Nat /\ packets \in Nat /\ pending \in Nat
    BY PoolAssumption DEF PoolInv, TypeOK
  <2>. QED BY <1>2, <2>1 DEF HasWork
<1>4. ASSUME NEW t \in Threads, Worker(t) \/ Take(t) \/ TimeOut(t) PROVE FALSE
  <2>1. pc[t] = "none"
    BY <1>1 DEF Alive
  <2>. QED BY <1>4, <2>1
           DEF Worker, Enter, LeaveOrStay, Failed, Took, Spawn, Serve, Take, TimeOut
<1>5. ASSUME NEW c \in Calls, Call(c) \/ Rpc(c)
      PROVE  UNCHANGED work /\ \A d \in Calls : rpc'[d] # "enqueue"
  <2>1. CASE Call(c) \/ Check(c)
    BY <1>1, <1>3, <2>1 DEF Call, Check, PoolInv, TypeOK
  <2>2. CASE CreateFirst(c)
    <3>1. ~Create(pc)
      <4>1. \A t \in Threads : pc'[t] # "top"
        BY DEF Alive
      <4>. QED BY <4>1, CreateFacts DEF PoolInv, TypeOK
    <3>. QED BY <1>3, <2>2, <3>1 DEF CreateFirst, PoolInv, TypeOK
  <2>3. CASE Enqueue(c)
    BY <1>3, <2>3 DEF Enqueue
  <2>4. CASE Search(c)
    BY <1>3, <2>4 DEF Search, Activate, PoolInv, TypeOK, work
  <2>. QED BY <1>5, <2>1, <2>2, <2>3, <2>4 DEF Rpc
<1>6. ~IoEnds
  BY <1>3 DEF IoEnds
<1>7. UNCHANGED work /\ \A d \in Calls : rpc'[d] # "enqueue"
  <2>1. CASE UNCHANGED vars
    BY <1>3, <2>1 DEF vars, work
  <2>. QED BY <1>4, <1>5, <1>6, <2>1 DEF Next
<1>. QED BY <1>2, <1>3, <1>7 DEF HasWork, work

\* Of threads that time out together one stays, and a thread that an RPC thread saw
\* in the unlocked counter is not gone when its request is queued and activated.
THEOREM PoolNeverAbandoned == Spec => []NeverAbandoned
<1>1. PoolInv /\ NeverAbandoned /\ [Next]_vars => PoolInv' /\ NeverAbandoned'
  BY InvNext, AbandonNext
<1>. QED BY <1>1, PoolInit, PTL DEF Spec

(***************************************************************************)
(* The port keeps a waiter, or waits for the thread that could not create  *)
(* one.                                                                    *)
(***************************************************************************)
Coming == {"top", "wait", "timedOut", "failed", "took", "spawn", "alone"}

LEMMA WaiterWorker ==
  ASSUME PoolInv, NEW t \in Threads, Worker(t) \/ Take(t) \/ TimeOut(t)
  PROVE  SomeWaiter'
<1>0. SUFFICES \E u \in Threads : pc'[u] \in Coming
  BY DEF SomeWaiter, Coming
<1>1. CASE Enter(t) \/ Take(t) \/ TimeOut(t) \/ Failed(t) \/ Serve(t)
  <2>1. PICK s \in Coming : pc' = [pc EXCEPT ![t] = s]
    BY <1>1 DEF Enter, Take, TimeOut, Failed, Serve, Goto, Coming
  <2>. QED BY <2>1 DEF PoolInv, TypeOK
<1>2. CASE LeaveOrStay(t)
  <2>1. CASE pc' = [pc EXCEPT ![t] = "top"]
    BY <2>1 DEF PoolInv, TypeOK, Coming
  <2>2. CASE /\ pc' = [pc EXCEPT ![t] = "none"]
             /\ \E u \in Threads \ {t} : u \in Counted
    BY <2>2 DEF PoolInv, TypeOK, Counted, Coming
  <2>. QED BY <1>2, <2>1, <2>2, LeaveFacts
<1>3. CASE Took(t)
  <2>1. CASE nThreads' = 0
    BY <1>3, <2>1 DEF Took, Goto, PoolInv, TypeOK, Coming
  <2>2. CASE nThreads' # 0
    <3>1. PoolInv'
      BY <1>3, InvWorker DEF Worker
    <3>2. Counted' # {}
      BY <2>2, <3>1, FS_EmptySet DEF PoolInv, CounterExact
    <3>. QED BY <3>2 DEF Counted, Coming
  <2>. QED BY <2>1, <2>2
<1>4. CASE Spawn(t)
  <2>. DEFINE pcs == [pc EXCEPT ![t] = "busy"]
  <2>1. CASE Create(pcs)
    <3>1. pcs \in [Threads -> Steps]
      BY DEF PoolInv, TypeOK, Steps
    <3>. QED BY <2>1, <3>1, CreateFacts DEF Coming
  <2>2. CASE Goto(t, "alone")
    BY <2>2 DEF Goto, PoolInv, TypeOK, Coming
  <2>. QED BY <1>4, <2>1, <2>2 DEF Spawn
<1>. QED BY <1>1, <1>2, <1>3, <1>4 DEF Worker

LEMMA WaiterNext ==
  ASSUME PoolInv, SomeWaiter, [Next]_vars
  PROVE  SomeWaiter'
<1>1. CASE UNCHANGED pc
  BY <1>1 DEF SomeWaiter, Alive
<1>2. ASSUME NEW c \in Calls, CreateFirst(c), ~UNCHANGED pc
      PROVE  SomeWaiter'
  <2>1. \E t \in Threads : pc'[t] = "top"
    BY <1>2, CreateFacts DEF CreateFirst, PoolInv, TypeOK
  <2>. QED BY <2>1 DEF SomeWaiter
<1>3. ASSUME NEW c \in Calls, Call(c) \/ Check(c) \/ Enqueue(c) \/ Search(c)
      PROVE  UNCHANGED pc
  BY <1>3 DEF Call, Check, Enqueue, Search
<1>4. IoEnds \/ UNCHANGED vars => UNCHANGED pc
  BY DEF IoEnds, vars
<1>. QED BY <1>1, <1>2, <1>3, <1>4, WaiterWorker DEF Next, Rpc

\* ReadMe.txt: "P continues to have at least one waiter": once there is a worker,
\* one is at the port, on its way there or about to be created, or the last one
\* that left it found no thread to replace it and is still busy.
THEOREM PoolSomeWaiter == Spec => []SomeWaiter
<1>1. PoolInv /\ SomeWaiter /\ [Next]_vars => PoolInv' /\ SomeWaiter'
  BY InvNext, WaiterNext
<1>. QED BY <1>1, PoolInit, PTL DEF Spec
=============================================================================
