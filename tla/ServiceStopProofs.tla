-------------------------- MODULE ServiceStopProofs --------------------------
(***************************************************************************)
(* ServiceStop is proved to be type-correct, and never to delete what a    *)
(* call is counted in, for any number of calls: unless a sleep was too     *)
(* short, or the call was counted after ServerStop had looked.             *)
(***************************************************************************)
EXTENDS ServiceStop, TLAPS

All == Counters \cup Queues

\* Nothing is created twice or without its flag, but for the ClientReqQueues.
FlagsTrue == flags = exists \ {"clientQueues"}

\* Until the deletions begin, everything is there for the calls that are under way.
AllThere ==
  \/ step \in {"delete", "stopped"}
  \/ exists = All /\ step # "start"
  \/ exists = {} /\ step # "listening" /\ \A c \in Calls : phase[c] = "away"

\* What is not deleted yet.
YetToDelete ==
  /\ step = "delete" => exists \subseteq {"clientQueues"} \cup {Deletes[i] : i \in at .. Len(Deletes)}
  /\ step = "stopped" => exists \subseteq {"clientQueues"}

\* A counter that was passed is zero, but for the excused calls.
PassedIsZero ==
  \A c \in Calls : hasty \/ c \in late \/ \A k \in CountedIn(c) : ~Passed(k)

\* The checks begin with the first one.
AtFirst == step \in {"start", "listening"} => at = 1

SInv == TypeOK /\ AtFirst /\ FlagsTrue /\ AllThere /\ YetToDelete /\ PassedIsZero

-----------------------------------------------------------------------------
LEMMA Sequences ==
  /\ Len(Checks) = 4 /\ Len(Deletes) = 8
  /\ Checks[1] = "serverReq" /\ Checks[2] = "clientReq"
  /\ Checks[3] = "serverActive" /\ Checks[4] = "clientActive"
  /\ \A i \in 1 .. 4 : Checks[i] \in Counters
  /\ \A i \in 1 .. 8 : Deletes[i] \in All
  /\ All = {Deletes[i] : i \in 1 .. 8}
<1>1. Len(Checks) = 4 /\ Len(Deletes) = 8
  BY DEF Checks, Deletes
<1>2. /\ Checks[1] = "serverReq" /\ Checks[2] = "clientReq"
      /\ Checks[3] = "serverActive" /\ Checks[4] = "clientActive"
  BY DEF Checks
<1>3. \A i \in 1 .. 4 : Checks[i] \in Counters
  <2>1. \A i \in 1 .. 4 : i = 1 \/ i = 2 \/ i = 3 \/ i = 4
    OBVIOUS
  <2> QED BY <1>2, <2>1 DEF Counters
<1>4. /\ Deletes[1] = "serverReq" /\ Deletes[2] = "clientReq" /\ Deletes[3] = "serverActive"
      /\ Deletes[4] = "serverQueues" /\ Deletes[5] = "serverUsers"
      /\ Deletes[6] = "clientActive" /\ Deletes[7] = "clientQueues"
      /\ Deletes[8] = "clientUsers"
  BY DEF Deletes
<1>5. \A i \in 1 .. 8 : i = 1 \/ i = 2 \/ i = 3 \/ i = 4 \/ i = 5 \/ i = 6 \/ i = 7 \/ i = 8
  OBVIOUS
<1>6. \A i \in 1 .. 8 : Deletes[i] \in All
  BY <1>4, <1>5 DEF All, Counters, Queues
<1>7. All \subseteq {Deletes[i] : i \in 1 .. 8}
  BY <1>4 DEF All, Counters, Queues
<1> QED BY <1>1, <1>2, <1>3, <1>6, <1>7

\* A counter of active calls is passed after that of the requests.
LEMMA ActiveLater ==
  ASSUME TypeOK, NEW c \in Calls, Passed(ActiveCounter(c))
  PROVE  Passed(ReqCounter(c))
<1>1. CASE step \in {"delete", "stopped"}
  BY <1>1 DEF Passed
<1>2. CASE step \in {"check", "sleep"}
  <2>1. PICK i \in 1 .. at - 1 : Checks[i] = ActiveCounter(c)
    BY <1>2 DEF Passed
  <2>2. at \in 1 .. 4
    BY <1>2, Sequences DEF TypeOK
  <2>3. i \in {1, 2, 3}
    BY <2>1, <2>2
  <2>4. i = 3 /\ c \in AtServer
    BY <2>1, <2>3, Sequences DEF ActiveCounter
  <2>5. 1 \in 1 .. at - 1
    BY <2>1, <2>2
  <2> QED BY <1>2, <2>4, <2>5, Sequences DEF Passed, ReqCounter
<1> QED BY <1>1, <1>2 DEF Passed

\* What is passed stays passed, and one more with the check that is left.
LEMMA PassedAfterCheck ==
  ASSUME TypeOK, step \in {"check", "sleep"}, AfterCheck, NEW k \in Counters, Passed(k)'
  PROVE  Passed(k) \/ k = Checks[at]
<1>1. at \in 1 .. 4
  BY Sequences DEF TypeOK
<1>2. CASE at < 4
  <2>1. at' = at + 1 /\ step' = "check"
    BY <1>2, Sequences DEF AfterCheck
  <2>2. PICK i \in 1 .. at : Checks[i] = k
    BY <1>1, <2>1 DEF Passed, Checks
  <2> QED BY <1>1, <2>2 DEF Passed
<1>3. CASE at = 4
  <2>1. PICK i \in 1 .. 4 : Checks[i] = k
    BY Sequences DEF Counters
  <2> QED BY <1>3, <2>1 DEF Passed
<1> QED BY <1>1, <1>2, <1>3

LEMMA CountedCounters == \A c \in Calls : CountedIn(c) \subseteq Counters
BY DEF CountedIn, ReqCounter, ActiveCounter, Counters

-----------------------------------------------------------------------------
\* The next check or the first deletion, when the counter is zero or that is excused.
LEMMA AfterCheckStep ==
  ASSUME SInv, step \in {"check", "sleep"}, AfterCheck,
         UNCHANGED <<exists, flags, phase, late>>,
         hasty' \in BOOLEAN, hasty => hasty',
         hasty' \/ \A c \in Calls : Checks[at] \notin CountedIn(c)
  PROVE  SInv'
<1> USE DEF SInv
<1>1. at \in 1 .. 4
  BY Sequences DEF TypeOK
<1>2. at' \in 1 .. 4 /\ step' \in {"check", "delete"} /\ (step' = "delete" => at' = 1)
  BY <1>1, Sequences DEF AfterCheck
<1>3. TypeOK' /\ AtFirst' /\ FlagsTrue' /\ AllThere'
  BY <1>2, Sequences DEF TypeOK, AtFirst, FlagsTrue, AllThere
<1>4. YetToDelete'
  <2>1. exists \subseteq {Deletes[i] : i \in 1 .. 8}
    BY Sequences DEF TypeOK, All
  <2> QED BY <1>2, <2>1, Sequences DEF YetToDelete
<1>5. PassedIsZero'
  <2> SUFFICES ASSUME NEW c \in Calls, ~hasty', c \notin late,
                      NEW k \in CountedIn(c), Passed(k)'
               PROVE  FALSE
    BY DEF PassedIsZero, CountedIn
  <2>1. k \in Counters
    BY CountedCounters
  <2>2. Passed(k) \/ k = Checks[at]
    BY <2>1, PassedAfterCheck
  <2> QED BY <2>2 DEF PassedIsZero
<1> QED BY <1>3, <1>4, <1>5

\* A step of the service: what is passed without being zero is excused.
LEMMA ServiceStep ==
  ASSUME SInv, Service
  PROVE  SInv'
<1> USE DEF SInv
<1>1. CASE RegisterFails
  <2> USE <1>1 DEF RegisterFails, Unchanged
  <2>1. TypeOK' /\ AtFirst' /\ FlagsTrue' /\ AllThere'
    BY Sequences DEF TypeOK, AtFirst, FlagsTrue, AllThere
  <2>2. \A c \in Calls : CountedIn(c)' = {}
    BY DEF AllThere, CountedIn
  <2> QED BY <2>1, <2>2 DEF YetToDelete, PassedIsZero
<1>2. CASE Create
  <2> USE <1>2 DEF Create, Unchanged
  <2>1. TypeOK' /\ AtFirst' /\ FlagsTrue' /\ AllThere'
    BY Sequences DEF TypeOK, AtFirst, FlagsTrue, AllThere, All, Counters, Queues
  <2>2. \A c \in Calls : CountedIn(c)' = {}
    BY DEF AllThere, CountedIn, All
  <2> QED BY <2>1, <2>2 DEF YetToDelete, PassedIsZero
<1>3. CASE StopListening
  <2> USE <1>3 DEF StopListening, Unchanged
  <2>1. TypeOK' /\ AtFirst' /\ FlagsTrue' /\ AllThere'
    BY Sequences DEF TypeOK, AtFirst, FlagsTrue, AllThere
  <2>2. at' = 1 /\ step' = "check"
    BY DEF AtFirst
  <2>3. \A k : ~Passed(k)'
    BY <2>2 DEF Passed
  <2> QED BY <2>1, <2>3 DEF YetToDelete, PassedIsZero
<1>4. CASE Check
  <2> USE <1>4 DEF Check, Unchanged
  <2>1. CASE Checks[at] \in flags /\ Nonzero(Checks[at])
    <3>1. TypeOK' /\ AtFirst' /\ FlagsTrue' /\ AllThere'
      BY <2>1, Sequences DEF TypeOK, AtFirst, FlagsTrue, AllThere
    <3>2. \A k : Passed(k)' => Passed(k)
      BY <2>1 DEF Passed
    <3>3. PassedIsZero'
      BY <3>2 DEF PassedIsZero, CountedIn
    <3> QED BY <2>1, <3>1, <3>3 DEF YetToDelete
  <2>2. CASE ~(Checks[at] \in flags /\ Nonzero(Checks[at]))
    <3>1. AfterCheck /\ step = "check" /\ UNCHANGED <<exists, flags, phase, late, hasty>>
      BY <2>2
    <3>2. \A c \in Calls : Checks[at] \notin CountedIn(c)
      <4>1. CASE Checks[at] \in flags
        BY <2>2, <4>1 DEF Nonzero
      <4>2. CASE Checks[at] \notin flags
        <5>1. Checks[at] \in Counters
          BY <3>1, Sequences DEF TypeOK
        <5>2. exists # All
          BY <4>2, <5>1 DEF FlagsTrue, All, Counters
        <5> QED BY <3>1, <5>2 DEF AllThere, CountedIn
      <4> QED BY <4>1, <4>2
    <3>3. hasty' \in BOOLEAN /\ (hasty => hasty')
      BY <3>1 DEF TypeOK
    <3>4. step \in {"check", "sleep"}
      BY <3>1
    <3> QED BY <3>1, <3>2, <3>3, <3>4, AfterCheckStep
  <2> QED BY <2>1, <2>2
<1>5. CASE Wake
  <2>1. AfterCheck /\ step = "sleep" /\ UNCHANGED <<exists, flags, phase, late>>
        /\ hasty' = (hasty \/ Nonzero(Checks[at]))
    BY <1>5 DEF Wake
  <2>2. hasty' \in BOOLEAN
    BY <2>1 DEF TypeOK
  <2>3. hasty => hasty'
    BY <2>1
  <2>4. hasty' \/ \A c \in Calls : Checks[at] \notin CountedIn(c)
    BY <2>1 DEF Nonzero
  <2> QED BY <2>1, <2>2, <2>3, <2>4, AfterCheckStep
<1>6. CASE Delete
  <2> USE <1>6 DEF Delete, DeleteUpTo, Unchanged
  <2>0. at \in 1 .. 8
    BY Sequences DEF TypeOK
  <2>1. Deletes[at] \in All
    BY <2>0, Sequences
  <2>2. TypeOK'
    BY <2>0, Sequences DEF TypeOK, All
  <2>3. AtFirst' /\ FlagsTrue' /\ AllThere'
    BY DEF AtFirst, FlagsTrue, AllThere
  <2>4. PassedIsZero'
    BY DEF PassedIsZero, Passed, CountedIn
  <2>5. exists' \subseteq {"clientQueues"} \cup {Deletes[i] : i \in at + 1 .. 8}
    <3>1. exists \subseteq {"clientQueues"} \cup {Deletes[i] : i \in at .. 8}
      BY Sequences DEF YetToDelete
    <3>2. Deletes[at] \notin exists' \/ Deletes[at] = "clientQueues"
      BY DEF FlagsTrue
    <3>3. exists' \subseteq exists
      OBVIOUS
    <3>4. \A i \in at .. 8 : i = at \/ i \in at + 1 .. 8
      BY <2>0
    <3> QED BY <3>1, <3>2, <3>3, <3>4
  <2>6. YetToDelete'
    <3>1. CASE at < 8
      <4>1. at' = at + 1 /\ step' = "delete"
        BY <3>1, Sequences
      <4> QED BY <2>5, <4>1, Sequences DEF YetToDelete
    <3>2. CASE at = 8
      <4>1. step' = "stopped"
        BY <3>2, Sequences
      <4>2. {Deletes[i] : i \in at + 1 .. 8} = {}
        BY <3>2
      <4> QED BY <2>5, <4>1, <4>2 DEF YetToDelete
    <3> QED BY <2>0, <3>1, <3>2
  <2> QED BY <2>2, <2>3, <2>4, <2>6
<1> QED BY <1>1, <1>2, <1>3, <1>4, <1>5, <1>6 DEF Service

\* A step of a call: it is counted as active before it is no longer counted as waiting.
LEMMA CallStep ==
  ASSUME SInv, NEW c \in Calls, Call(c)
  PROVE  SInv'
<1> USE DEF SInv
<1>1. /\ UNCHANGED <<step, at, exists, flags, hasty>>
      /\ \E from, to \in Phases : phase[c] = from /\ phase' = [phase EXCEPT ![c] = to]
      /\ late' \subseteq late \cup {c}
  BY DEF Call, Arrive, Count, IncActive, DecActive, DecReq, Leave, Gone, Move, Phases
<1>2. TypeOK' /\ AtFirst' /\ FlagsTrue' /\ YetToDelete'
  BY <1>1 DEF TypeOK, AtFirst, FlagsTrue, YetToDelete
<1>3. \A k : Passed(k)' <=> Passed(k)
  BY <1>1 DEF Passed
<1>4. AllThere'
  <2>1. step \in {"delete", "stopped"} \/ (exists = All /\ step # "start")
    BY DEF AllThere, Call, Arrive, Count, IncActive, DecActive, DecReq, Leave, Gone, Move
  <2> QED BY <1>1, <2>1 DEF AllThere
<1>5. ASSUME NEW d \in Calls, d # c
      PROVE  (hasty \/ d \in late \/ \A k \in CountedIn(d) : ~Passed(k))'
  <2>1. phase'[d] = phase[d]
    BY <1>1, <1>5 DEF TypeOK
  <2>2. CountedIn(d)' = CountedIn(d)
    BY <2>1 DEF CountedIn
  <2>3. d \in late => d \in late'
    BY <1>5 DEF Call, Arrive, Count, IncActive, DecActive, DecReq, Leave, Gone
  <2> QED BY <1>1, <1>3, <2>2, <2>3 DEF PassedIsZero
<1>6. (hasty \/ c \in late \/ \A k \in CountedIn(c) : ~Passed(k))'
  <2>1. CASE Arrive(c) \/ Leave(c) \/ Gone(c)
    <3>1. CountedIn(c)' = {}
      BY <2>1 DEF Arrive, Leave, Gone, Move, CountedIn, TypeOK
    <3> QED BY <3>1
  <2>2. CASE Count(c)
    <3>1. CountedIn(c)' = {ReqCounter(c)}
      BY <2>2 DEF Count, Move, CountedIn, TypeOK
    <3>2. c \in late' \/ ~Passed(ReqCounter(c))
      BY <2>2 DEF Count
    <3> QED BY <1>3, <3>1, <3>2
  <2>3. CASE IncActive(c) \/ DecActive(c) \/ DecReq(c)
    <3>1. ReqCounter(c) \in CountedIn(c)
      BY <2>3 DEF IncActive, DecActive, DecReq, Move, CountedIn
    <3>2. CountedIn(c)' \subseteq {ReqCounter(c), ActiveCounter(c)}
      BY DEF CountedIn
    <3>3. Passed(ActiveCounter(c)) => Passed(ReqCounter(c))
      BY ActiveLater
    <3>4. late' = late
      BY <2>3 DEF IncActive, DecActive, DecReq
    <3> QED BY <1>1, <1>3, <3>1, <3>2, <3>3, <3>4 DEF PassedIsZero
  <2> QED BY <2>1, <2>2, <2>3 DEF Call
<1>7. PassedIsZero'
  BY <1>5, <1>6 DEF PassedIsZero
<1> QED BY <1>2, <1>4, <1>7

LEMMA SInvInductive == Spec => []SInv
<1>1. Init => SInv
  <2> SUFFICES ASSUME Init PROVE SInv
    OBVIOUS
  <2> USE DEF Init
  <2>1. TypeOK
    <3>1. phase \in [Calls -> Phases] /\ at \in 1 .. 4
      BY DEF Phases
    <3> QED BY <3>1, Sequences DEF TypeOK
  <2>2. \A c \in Calls : CountedIn(c) = {}
    BY DEF CountedIn
  <2>3. AtFirst /\ FlagsTrue /\ AllThere /\ YetToDelete /\ PassedIsZero
    BY <2>2 DEF AtFirst, FlagsTrue, AllThere, YetToDelete, PassedIsZero
  <2> QED BY <2>1, <2>3 DEF SInv
<1>2. SInv /\ [Next]_vars => SInv'
  <2> SUFFICES ASSUME SInv, [Next]_vars PROVE SInv'
    OBVIOUS
  <2>1. CASE Service
    BY <2>1, ServiceStep
  <2>2. CASE \E c \in Calls : Call(c)
    BY <2>2, CallStep
  <2>3. CASE UNCHANGED vars
    BY <2>3 DEF vars, SInv, TypeOK, AtFirst, FlagsTrue, AllThere, YetToDelete, PassedIsZero,
       CountedIn, Passed
  <2> QED BY <2>1, <2>2, <2>3 DEF Next
<1> QED BY <1>1, <1>2, PTL DEF Spec

-----------------------------------------------------------------------------
\* Every variable of the service keeps its type, and the loops of ServerStop their bounds.
THEOREM ServiceTypeCorrect == Spec => []TypeOK
<1>1. SInv => TypeOK
  BY DEF SInv
<1> QED BY <1>1, SInvInductive, PTL

\* The order of the checks is right: a call is counted in what still exists, unless a
\* Sleep(1000) was too short or the call was counted after ServerStop had looked.
THEOREM ServiceCountedIsThere == Spec => []CountedIsThere
<1>1. SInv => CountedIsThere
  <2> SUFFICES ASSUME SInv, NEW c \in Calls, ~hasty, c \notin late
               PROVE  CountedIn(c) \subseteq exists
    BY DEF CountedIsThere
  <2>1. CASE step \in {"delete", "stopped"}
    BY <2>1 DEF SInv, PassedIsZero, Passed
  <2>2. CASE exists = All
    BY <2>2, CountedCounters DEF All
  <2>3. CASE phase[c] = "away"
    BY <2>3 DEF CountedIn
  <2> QED BY <2>1, <2>2, <2>3 DEF SInv, AllThere
<1> QED BY <1>1, SInvInductive, PTL

\* When the service is stopped, only the ClientReqQueues can be left.
THEOREM ServiceNothingLeft == Spec => []NothingLeft
<1>1. SInv => NothingLeft
  BY DEF SInv, YetToDelete, NothingLeft
<1> QED BY <1>1, SInvInductive, PTL
=============================================================================
