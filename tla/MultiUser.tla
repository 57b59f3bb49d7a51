------------------------------ MODULE MultiUser ------------------------------
(***************************************************************************)
(* The client service of filerepmultiuser, the synchronous predecessor of  *)
(* FileRepAsyncPipe: RequestFile, ServiceRequests, HandleReq,              *)
(* HandleActiveReq and ShutdownThread of filerepclientproc.cpp, and the    *)
(* hash of subqueues of resources.cpp.                                     *)
(*                                                                         *)
(* The thread of each call serves whatever requests it finds, one chunk of *)
(* a file at a time, until it finds none or has worked for too long, when  *)
(* a new thread takes over.  A request that is not done waits in the       *)
(* subqueue of its user; the users of a group take turns.  The list of     *)
(* subqueues is kept as the code has it, nodes and pointers; QueueAdd and  *)
(* QueueRemove work on a plain queue, here a sequence.  One interlocked    *)
(* operation, or what is done under the lock of a queue, is one step.      *)
(* Memory and threads can be created, and RevertToSelf succeeds.           *)
(***************************************************************************)
EXTENDS Integers, Sequences, FiniteSets

CONSTANTS
  Reqs,         \* calls of RequestFile, each with its thread
  Users,        \* SIDs
  NumPriGroups,
  UserOf, PriOf,                  \* whose request it is, and its group
  ReqBound, ActiveBound,          \* of a group's waiting and active requests
  MaxUserReqs,                    \* of a user's active requests
  Chunks,       \* how many chunks of a file follow the first one
  Slow,         \* calls whose thread has served for tServerThread at some time
  NoReq         \* no request: NULL

Groups == 1 .. NumPriGroups
Nodes  == 1 .. Cardinality(Reqs) * Chunks   \* as many as can be created
Null   == 0

ASSUME MultiUserAssumption ==
  /\ IsFiniteSet(Reqs) /\ NoReq \notin Reqs /\ IsFiniteSet(Users)
  /\ NumPriGroups \in Nat \ {0} /\ Chunks \in Nat \ {0}
  /\ UserOf \in [Reqs -> Users] /\ PriOf \in [Reqs -> Groups]
  /\ ReqBound \in Nat /\ ActiveBound \in Nat /\ MaxUserReqs \in Nat /\ Slow \subseteq Reqs

VARIABLES
  pc,           \* where a thread is
  isRPC,        \* bIsRPCThread
  cur,          \* its pReq, while it has that in hand
  pri,          \* its loop variable
  found,        \* its FoundReq
  state,        \* pReq->State, or "freed"
  left,         \* how many more chunks its file can have
  reqQ,         \* ClientReqQueues
  hash,         \* ClientActiveReqHashQueues: the first and the last node
  node,         \* a QueueHashNode: its key, its subqueue, and what follows it
  used,         \* how many nodes were created
  reqs,         \* pClientReqCounters
  active,       \* pClientActiveReqCounters
  user,         \* ClientActiveReqHashCounters
  passed        \* how often others were served since a linked user waits

thread   == <<isRPC, cur, pri, found>>
lists    == <<hash, node, used, passed>>
counters == <<reqs, active, user>>
vars == <<pc, thread, state, left, reqQ, lists, counters>>

Init ==
  /\ pc = [t \in Reqs |-> "arrive"]
  /\ isRPC = [t \in Reqs |-> TRUE]
  /\ cur = [t \in Reqs |-> NoReq]
  /\ pri = [t \in Reqs |-> NumPriGroups]
  /\ found = [t \in Reqs |-> TRUE]
  /\ state = [r \in Reqs |-> "arrived"]
  /\ left = [r \in Reqs |-> Chunks]
  /\ reqQ = [g \in Groups |-> <<>>]
  /\ hash = [g \in Groups |-> [first |-> Null, last |-> Null]]
  /\ node = [n \in {} |-> Null] /\ used = 0
  /\ reqs = [g \in Groups |-> 0] /\ active = [g \in Groups |-> 0]
  /\ user = [g \in Groups |-> [u \in Users |-> 0]]
  /\ passed = [g \in Groups |-> [u \in Users |-> 0]]

Goto(t, step) == pc' = [pc EXCEPT ![t] = step]
G(t) == PriOf[cur[t]]
U(t) == UserOf[cur[t]]

-----------------------------------------------------------------------------
(***************************************************************************)
(* The list of subqueues of a group.                                       *)
(***************************************************************************)

\* A walk from pFirst along pNext to NULL meets the nodes of s.
IsWalk(g, s) ==
  /\ hash[g].first = IF s = <<>> THEN Null ELSE s[1]
  /\ \A i \in 1 .. Len(s) : node[s[i]].next = IF i = Len(s) THEN Null ELSE s[i + 1]

Chain(g) == CHOOSE s \in UNION {[1 .. n -> 1 .. used] : n \in 0 .. used} : IsWalk(g, s)

Linked(g) == LET chain == Chain(g) IN {chain[i] : i \in 1 .. Len(chain)}

\* The users whose requests wait where they will be found.
Waiting(g) == {node[n].key : n \in {m \in Linked(g) : node[m].sub # <<>>}}

\* The node that QueueHashLookup finds for a user.
Lookup(g, u) ==
  LET chain == Chain(g)
      mine  == {i \in 1 .. Len(chain) : node[chain[i]].key = u}
  IN
  IF mine = {} THEN Null ELSE chain[CHOOSE i \in mine : \A j \in mine : i <= j]

\* QueueAdd to the subqueue of a node; without one the user gets one, behind pLast.
AddTo(r, n) ==
  LET g == PriOf[r]
      new == used + 1
      fresh == [key |-> UserOf[r], sub |-> <<r>>, next |-> Null]
      known == [m \in 1 .. new |-> IF m = new THEN fresh ELSE node[m]]
  IN
  /\ passed' = passed
  /\ IF n # Null
     THEN node' = [node EXCEPT ![n].sub = Append(@, r)] /\ UNCHANGED <<hash, used>>
     ELSE /\ used' = new
          /\ hash' = [hash EXCEPT ![g] = [first |-> IF @.first = Null THEN new ELSE @.first,
                                          last |-> new]]
          /\ node' = IF hash[g].first = Null THEN known
                     ELSE [known EXCEPT ![hash[g].last].next = new]

\* Mutated: the request is added to the first user's subqueue.
AddToFirstSubqueue(r) ==
  AddTo(r, IF Lookup(PriOf[r], UserOf[r]) = Null THEN Null ELSE hash[PriOf[r]].first)

\* QueueHashAddToSubqueue.
AddToSubqueue(r) == AddTo(r, Lookup(PriOf[r], UserOf[r]))

\* Mutated: the users do not take turns.
StayInPlace(g, n, prev) == UNCHANGED hash /\ node' = [node EXCEPT ![n].sub = Tail(@)]

\* QueueMoveToBack, and QueueRemove of the subqueue's first request.  A node without
\* a successor is unlinked from its predecessor and linked nowhere.
MoveToBack(g, n, prev) ==
  LET last == hash[g].last
      next == node[n].next
      unlinked == [node EXCEPT ![n].sub = Tail(@), ![n].next = Null]
      around   == IF prev = Null THEN unlinked ELSE [unlinked EXCEPT ![prev].next = next]
  IN
  /\ node' = IF next = Null THEN around ELSE [around EXCEPT ![last].next = n]
  /\ hash' = [hash EXCEPT ![g] = [first |-> IF prev = Null THEN next ELSE @.first,
                                  last  |-> IF next = Null THEN @.last ELSE n]]

-----------------------------------------------------------------------------
(***************************************************************************)
(* RequestFile.                                                            *)
(***************************************************************************)

\* CounterIncrement of the group's counter; over the bound it is taken back and the
\* call refused.
Arrive(t) ==
  LET g == PriOf[t] IN
  /\ pc[t] = "arrive"
  /\ reqs' = [reqs EXCEPT ![g] = @ + 1]
  /\ IF reqs[g] + 1 > ReqBound
     THEN Goto(t, "refuse") /\ state' = state
     ELSE Goto(t, "queue") /\ state' = [state EXCEPT ![t] = "queued"]
  /\ UNCHANGED <<thread, left, reqQ, lists, active, user>>

Refuse(t) ==
  /\ pc[t] = "refuse"
  /\ reqs' = [reqs EXCEPT ![PriOf[t]] = @ - 1]
  /\ state' = [state EXCEPT ![t] = "freed"]
  /\ Goto(t, "done")
  /\ UNCHANGED <<thread, left, reqQ, lists, active, user>>

Enqueue(t) ==
  /\ pc[t] = "queue"
  /\ reqQ' = [reqQ EXCEPT ![PriOf[t]] = Append(@, t)]
  /\ Goto(t, "take")
  /\ UNCHANGED <<thread, state, left, lists, counters>>

-----------------------------------------------------------------------------
(***************************************************************************)
(* ServiceRequests.                                                        *)
(***************************************************************************)

\* At the head of the loop.  The RPC thread has served for tServerThread seconds: it
\* returns, and a new thread starts over in its place.
HandOver(t) ==
  /\ pc[t] = "take" /\ pri[t] = NumPriGroups
  /\ isRPC[t] /\ t \in Slow
  /\ isRPC' = [isRPC EXCEPT ![t] = FALSE]
  /\ found' = [found EXCEPT ![t] = TRUE]
  /\ UNCHANGED <<pc, cur, pri, state, left, reqQ, lists, counters>>

\* The loops over the groups, the highest first: what follows when all were empty, and
\* when one was not.
NextGroup(t, step) ==
  IF pri[t] > 1
  THEN pri' = [pri EXCEPT ![t] = @ - 1] /\ pc' = pc
  ELSE pri' = [pri EXCEPT ![t] = NumPriGroups] /\ Goto(t, step)

Rescan(t, step) == pri' = [pri EXCEPT ![t] = NumPriGroups] /\ Goto(t, step)

\* Mutated: FoundReq stays TRUE when there is none.
TakeStays(t) ==
  LET g == pri[t] IN
  /\ pc[t] = "take"
  /\ \/ /\ reqQ[g] # <<>>
        /\ cur' = [cur EXCEPT ![t] = Head(reqQ[g])]
        /\ reqQ' = [reqQ EXCEPT ![g] = Tail(@)]
        /\ Rescan(t, "incActive")
     \/ /\ reqQ[g] = <<>>
        /\ NextGroup(t, "active")
        /\ UNCHANGED <<cur, reqQ>>
  /\ UNCHANGED <<isRPC, found, state, left, lists, counters>>

\* The first request of the highest group that has one.
Take(t) ==
  LET g == pri[t] IN
  /\ pc[t] = "take"
  /\ \/ /\ reqQ[g] # <<>>
        /\ cur' = [cur EXCEPT ![t] = Head(reqQ[g])]
        /\ reqQ' = [reqQ EXCEPT ![g] = Tail(@)]
        /\ Rescan(t, "incActive") /\ found' = found
     \/ /\ reqQ[g] = <<>>
        /\ NextGroup(t, "active")
        /\ found' = [found EXCEPT ![t] = (g > 1) /\ @]
        /\ UNCHANGED <<cur, reqQ>>
  /\ UNCHANGED <<isRPC, state, left, lists, counters>>

IncActive(t) ==
  /\ pc[t] = "incActive"
  /\ active' = [active EXCEPT ![G(t)] = @ + 1]
  /\ Goto(t, IF active[G(t)] + 1 > ActiveBound THEN "decActive" ELSE "incUser")
  /\ UNCHANGED <<thread, state, left, reqQ, lists, reqs, user>>

\* Mutated: the bound of the user is not looked at.
IncUserUnchecked(t) ==
  /\ pc[t] = "incUser"
  /\ user' = [user EXCEPT ![G(t)][U(t)] = @ + 1]
  /\ Goto(t, "decReq")
  /\ UNCHANGED <<thread, state, left, reqQ, lists, reqs, active>>

\* QueueHashIncrementCounter, under the lock of the hash of counters.
IncUser(t) ==
  /\ pc[t] = "incUser"
  /\ IF user[G(t)][U(t)] + 1 > MaxUserReqs
     THEN user' = user /\ Goto(t, "decActive")
     ELSE user' = [user EXCEPT ![G(t)][U(t)] = @ + 1] /\ Goto(t, "decReq")
  /\ UNCHANGED <<thread, state, left, reqQ, lists, reqs, active>>

\* One of the bounds is exceeded: what was counted is taken back.
DecActive(t) ==
  /\ pc[t] = "decActive"
  /\ active' = [active EXCEPT ![G(t)] = @ - 1]
  /\ Goto(t, "putBack")
  /\ UNCHANGED <<thread, state, left, reqQ, lists, reqs, user>>

PutBack(t) ==
  /\ pc[t] = "putBack"
  /\ reqQ' = [reqQ EXCEPT ![G(t)] = Append(@, cur[t])]
  /\ cur' = [cur EXCEPT ![t] = NoReq]
  /\ found' = [found EXCEPT ![t] = FALSE]
  /\ Goto(t, "active")
  /\ UNCHANGED <<isRPC, pri, state, left, lists, counters>>

DecReq(t) ==
  /\ pc[t] = "decReq"
  /\ reqs' = [reqs EXCEPT ![G(t)] = @ - 1]
  /\ state' = [state EXCEPT ![cur[t]] = "active"]
  /\ found' = [found EXCEPT ![t] = TRUE]
  /\ Goto(t, "handle")
  /\ UNCHANGED <<isRPC, cur, pri, left, reqQ, lists, active, user>>

\* HandleReq (at "handle") and HandleActiveReq: a chunk is read and written; the
\* request is done, or something has failed, or it waits for its user's next turn.
Handle(t) ==
  /\ pc[t] \in {"handle", "handleActive"}
  /\ LET r == cur[t]
         first == pc[t] = "handle"
     IN
     \/ /\ Goto(t, IF first THEN "releaseFirst" ELSE "release")
        /\ UNCHANGED <<cur, left, lists>>
     \/ /\ left[r] > 0
        /\ left' = [left EXCEPT ![r] = @ - 1]
        /\ AddToSubqueue(r)
        /\ cur' = [cur EXCEPT ![t] = NoReq]
        /\ Goto(t, IF first THEN "active" ELSE "take")
  /\ UNCHANGED <<isRPC, pri, found, state, reqQ, counters>>

\* ShutdownThread of an active request: the counter of the group, then of the user.
Release(t) ==
  /\ pc[t] \in {"releaseFirst", "release"}
  /\ active' = [active EXCEPT ![G(t)] = @ - 1]
  /\ Goto(t, IF pc[t] = "release" THEN "free" ELSE "freeFirst")
  /\ UNCHANGED <<thread, state, left, reqQ, lists, reqs, user>>

Free(t) ==
  /\ pc[t] \in {"freeFirst", "free"}
  /\ user' = [user EXCEPT ![G(t)][U(t)] = @ - 1]
  /\ state' = [state EXCEPT ![cur[t]] = "freed"]
  /\ cur' = [cur EXCEPT ![t] = NoReq]
  /\ Goto(t, IF pc[t] = "free" THEN "take" ELSE "active")
  /\ UNCHANGED <<isRPC, pri, found, left, reqQ, lists, reqs, active>>

\* QueueHashRemoveFromSubqueue: the first linked subqueue that is not empty.
RemoveFromSubqueue(t, g) ==
  LET chain == Chain(g)
      full  == {i \in 1 .. Len(chain) : node[chain[i]].sub # <<>>}
      i     == CHOOSE j \in full : \A k \in full : j <= k
      n     == chain[i]
  IN
  /\ full # {}
  /\ cur' = [cur EXCEPT ![t] = Head(node[n].sub)]
  /\ MoveToBack(g, n, IF i = 1 THEN Null ELSE chain[i - 1])
  /\ used' = used
  /\ passed' = [passed EXCEPT ![g] = [u \in Users |->
                  IF u # node[n].key /\ u \in Waiting(g) THEN @[u] + 1 ELSE 0]]

\* The next request of the highest group that has an active one waiting.  If there is
\* none, and no waiting request was found either, the thread returns.
TakeActive(t) ==
  /\ pc[t] = "active"
  /\ \/ /\ RemoveFromSubqueue(t, pri[t])
        /\ Rescan(t, "handleActive")
     \/ /\ Waiting(pri[t]) = {}
        /\ NextGroup(t, IF found[t] THEN "take" ELSE "done")
        /\ UNCHANGED <<cur, lists>>
  /\ UNCHANGED <<isRPC, found, state, left, reqQ, counters>>

-----------------------------------------------------------------------------
Thread(t) ==
  \/ Enqueue(t) \/ Refuse(t) \/ HandOver(t) \/ Take(t) \/ IncActive(t)
  \/ IncUser(t) \/ DecActive(t) \/ PutBack(t) \/ DecReq(t) \/ Handle(t)
  \/ Release(t) \/ Free(t) \/ TakeActive(t)

Next == \E t \in Reqs : Arrive(t) \/ Thread(t)

Spec == Init /\ [][Next]_vars

\* A thread that has a call goes on.  Calls need not come.
FairSpec == Spec /\ \A t \in Reqs : WF_vars(Thread(t))

-----------------------------------------------------------------------------
(***************************************************************************)
(* Properties.                                                             *)
(***************************************************************************)
TypeOK ==
  /\ isRPC \in [Reqs -> BOOLEAN] /\ cur \in [Reqs -> Reqs \cup {NoReq}]
  /\ pri \in [Reqs -> Groups]
  /\ found \in [Reqs -> BOOLEAN]
  /\ state \in [Reqs -> {"arrived", "queued", "active", "freed"}]
  /\ left \in [Reqs -> 0 .. Chunks]
  /\ reqQ \in [Groups -> Seq(Reqs)]
  /\ hash \in [Groups -> [first : Nodes \cup {Null}, last : Nodes \cup {Null}]]
  /\ node \in [1 .. used -> [key : Users, sub : Seq(Reqs), next : Nodes \cup {Null}]]
  /\ reqs \in [Groups -> Nat] /\ active \in [Groups -> Nat]
  /\ user \in [Groups -> [Users -> Nat]]

\* The steps in which a thread has its pReq in hand.
InHand == {"incActive", "incUser", "decActive", "putBack", "decReq", "handle",
           "handleActive", "releaseFirst", "release", "freeFirst", "free"}

Holders(r) == {t \in Reqs : cur[t] = r /\ pc[t] \in InHand}
Queued(r)  == {p \in Groups \X (1 .. Cardinality(Reqs)) :
                 p[2] <= Len(reqQ[p[1]]) /\ reqQ[p[1]][p[2]] = r}
InSubqueue(r)  == {p \in (1 .. used) \X (1 .. Cardinality(Reqs)) :
                 p[2] <= Len(node[p[1]].sub) /\ node[p[1]].sub[p[2]] = r}

\* The hand-overs of a request between threads, queue and subqueues never leave it in
\* two places, or in the subqueue of another user, nor where a freed one is found.
NeverTwice ==
  \A r \in Reqs :
    /\ Cardinality(Holders(r)) + Cardinality(Queued(r)) + Cardinality(InSubqueue(r))
         = IF state[r] \in {"arrived", "freed"} \/ pc[r] = "queue" THEN 0 ELSE 1
    /\ \A p \in InSubqueue(r) : node[p[1]].key = UserOf[r]

\* Each counter is what the states of the requests and the steps of the threads say,
\* and the requests that are active never exceed a bound.
CountersExact ==
  \A g \in Groups :
    LET In(S) == {r \in Reqs : PriOf[r] = g /\ state[r] \in S}
        At(S) == {t \in Reqs : pc[t] \in S /\ cur[t] # NoReq /\ G(t) = g}
        Charged(u) == {r \in In({"active"}) : UserOf[r] = u}
    IN
    /\ reqs[g] = Cardinality(In({"queued"}))
                 + Cardinality({t \in Reqs : pc[t] = "refuse" /\ PriOf[t] = g})
    /\ active[g] = Cardinality(In({"active"})) + Cardinality(At({"incUser", "decActive", "decReq"}))
                   - Cardinality(At({"freeFirst", "free"}))
    /\ \A u \in Users :
         user[g][u] = Cardinality(Charged(u)) + Cardinality({t \in At({"decReq"}) : U(t) = u})
    /\ Cardinality(In({"active"})) <= ActiveBound + Cardinality(At({"freeFirst", "free"}))
    /\ \A u \in Users : Cardinality(Charged(u)) <= MaxUserReqs

\* "Put the subqueue onto the back of the queue": a user whose requests wait in a
\* linked subqueue is passed at most once by each other user.
TakeTurns ==
  \A g \in Groups : \A u \in Waiting(g) : passed[g][u] < Cardinality(Users)

\* Each active request is in the hands of a thread or in a subqueue that will be
\* found: "Take it off the hash queue and put it on the back."
NoneLost ==
  \A r \in Reqs : state[r] = "active" =>
    \/ Holders(r) # {}
    \/ \E p \in InSubqueue(r) : p[1] \in Linked(PriOf[r])

\* "To ensure that a thread will not spin waiting for space": each call that came is
\* answered, and the threads that follow end, too.
ThreadsReturn == \A t \in Reqs : []<>(pc[t] \in {"arrive", "done"})
=============================================================================
