----------------------------- MODULE ServiceStop -----------------------------
(***************************************************************************)
(* The life of the FileRepAsyncPipe service: StartFileRepServer and        *)
(* ServerStop of Service.cpp, called from ServiceStart and ServiceCtrl of  *)
(* FileRepService.cpp, with the calls of both interfaces that are under    *)
(* way when the service is stopped.                                        *)
(*                                                                         *)
(* A call is reduced to what the counters know of it, in the order in      *)
(* which the code counts: module ServerScheduling has the whole of it, and *)
(* its CountersExact is why a counter is here the number of the calls in a *)
(* phase.  The groups are one: a check reads the counters of one group     *)
(* after the other, and a call stays in its group.  Memory can be          *)
(* allocated.  Logs, the SIDs, the completion ports and the heap are not   *)
(* modelled, nor the end of the process.                                   *)
(***************************************************************************)
EXTENDS Integers, Sequences

CONSTANTS
  Calls,     \* calls of the two interfaces, each may come again
  AtServer   \* those of s_RemoteReadAsyncPipe; the others are of RequestFile

ASSUME AtServerAssumption == AtServer \subseteq Calls

Counters == {"serverReq", "clientReq", "serverActive", "clientActive"}
Queues   == {"serverQueues", "clientQueues", "serverUsers", "clientUsers"}
Phases   == {"away", "arrived", "refused", "queued", "both", "active", "leaving"}

VARIABLES
  step,      \* what ServiceStart and ServerStop are at
  at,        \* the place in Checks or in Deletes, from 1
  exists,    \* the counters and queues that were created and not deleted
  flags,     \* the f...Created flags that are TRUE
  phase,     \* of each call
  late,      \* calls counted when ServerStop had already looked
  hasty      \* a Sleep(1000) has ended before the counter was zero

vars == <<step, at, exists, flags, phase, late, hasty>>

Init ==
  /\ step = "start" /\ at = 1
  /\ exists = {} /\ flags = {}
  /\ phase = [c \in Calls |-> "away"]
  /\ late = {} /\ hasty = FALSE

ReqCounter(c)    == IF c \in AtServer THEN "serverReq" ELSE "clientReq"
ActiveCounter(c) == IF c \in AtServer THEN "serverActive" ELSE "clientActive"

\* The counters in which a call is counted.
CountedIn(c) ==
  (IF phase[c] \in {"refused", "queued", "both"} THEN {ReqCounter(c)} ELSE {})
  \cup (IF phase[c] \in {"both", "active"} THEN {ActiveCounter(c)} ELSE {})

\* CountersCheckForNonzero.
Nonzero(k) == \E c \in Calls : k \in CountedIn(c)

-----------------------------------------------------------------------------
(***************************************************************************)
(* StartFileRepServer, and what ServiceStart does with its result.         *)
(***************************************************************************)
Unchanged == UNCHANGED <<phase, late, hasty>>

\* An interface, an endpoint or the authentication cannot be registered.
RegisterFails ==
  /\ step = "start"
  /\ step' = "check"
  /\ UNCHANGED <<at, exists, flags>> /\ Unchanged

\* Everything is created.  The flag of ClientReqQueues is not set: that of
\* ServerReqQueues is set in its place.  RpcServerListen may fail.
Create ==
  /\ step = "start"
  /\ exists' = Counters \cup Queues
  /\ flags' = (Counters \cup Queues) \ {"clientQueues"}
  /\ step' \in {"listening", "check"}
  /\ UNCHANGED at /\ Unchanged

-----------------------------------------------------------------------------
(***************************************************************************)
(* ServerStop.                                                             *)
(***************************************************************************)

\* Mutated: the active requests are looked at first.
ActiveFirst == <<"serverActive", "clientActive", "serverReq", "clientReq">>

\* The order of the checks, and of the deletions.
Checks == <<"serverReq", "clientReq", "serverActive", "clientActive">>
Deletes == <<"serverReq", "clientReq", "serverActive", "serverQueues", "serverUsers",
             "clientActive", "clientQueues", "clientUsers">>

\* The control handler is called, or SERVICE_RUNNING cannot be reported: no call is
\* dispatched any more, the interfaces are unregistered without waiting for the calls
\* under way, and SERVICE_STOPPED is reported.
StopListening ==
  /\ step = "listening"
  /\ step' = "check"
  /\ UNCHANGED <<at, exists, flags>> /\ Unchanged

\* The next check, or the first deletion.
AfterCheck ==
  IF at < Len(Checks) THEN at' = at + 1 /\ step' = "check"
                      ELSE at' = 1 /\ step' = "delete"

Check ==
  /\ step = "check"
  /\ IF Checks[at] \in flags /\ Nonzero(Checks[at])
     THEN step' = "sleep" /\ at' = at
     ELSE AfterCheck
  /\ UNCHANGED <<exists, flags>> /\ Unchanged

\* Mutated: it is slept until the counter is zero.
SleepOn ==
  /\ step = "sleep" /\ ~Nonzero(Checks[at])
  /\ hasty' = hasty
  /\ AfterCheck
  /\ UNCHANGED <<exists, flags, phase, late>>

\* Sleep(1000) is over; the counter is not looked at again.
Wake ==
  /\ step = "sleep"
  /\ hasty' = (hasty \/ Nonzero(Checks[at]))
  /\ AfterCheck
  /\ UNCHANGED <<exists, flags, phase, late>>

\* What its flag says was created is deleted, one after the other.
DeleteUpTo(n) ==
  /\ step = "delete"
  /\ IF Deletes[at] \in flags
     THEN exists' = exists \ {Deletes[at]} /\ flags' = flags \ {Deletes[at]}
     ELSE UNCHANGED <<exists, flags>>
  /\ IF at < n THEN at' = at + 1 /\ step' = step ELSE at' = 1 /\ step' = "stopped"
  /\ Unchanged

\* Mutated: the last one is forgotten.
DeleteFew == DeleteUpTo(Len(Deletes) - 1)

Delete == DeleteUpTo(Len(Deletes))

Service == RegisterFails \/ Create \/ StopListening \/ Check \/ Wake \/ Delete

-----------------------------------------------------------------------------
(***************************************************************************)
(* The calls.                                                              *)
(***************************************************************************)

\* ServerStop has looked at a counter, and slept if it had to.
Passed(k) ==
  \/ step \in {"delete", "stopped"}
  \/ step \in {"check", "sleep"} /\ \E i \in 1 .. at - 1 : Checks[i] = k

Move(c, from, to) ==
  /\ phase[c] = from
  /\ phase' = [phase EXCEPT ![c] = to]
  /\ UNCHANGED <<step, at, exists, flags, hasty>>

\* The RPC run time dispatches calls while it listens.
Arrive(c) == step = "listening" /\ Move(c, "away", "arrived") /\ late' = late \ {c}

\* CounterIncrement of the requests of the group; the refused one is counted, too, until
\* the increment is taken back.
Count(c) ==
  /\ Move(c, "arrived", "queued") \/ Move(c, "arrived", "refused")
  /\ late' = IF Passed(ReqCounter(c)) THEN late \cup {c} ELSE late

\* CounterIncrement of the active requests ...
IncActive(c) == Move(c, "queued", "both") /\ UNCHANGED late

\* ... and what is taken back when that, or the user's counter, is over its bound.
DecActive(c) == Move(c, "both", "queued") /\ UNCHANGED late

\* CounterDecrement of the requests: the call is active.
DecReq(c) == Move(c, "both", "active") /\ UNCHANGED late

\* The call ends: before it is counted, refused, or when its file is done.
Leave(c) ==
  /\ Move(c, "arrived", "leaving") \/ Move(c, "refused", "leaving")
     \/ Move(c, "active", "leaving")
  /\ UNCHANGED late

\* The hash of its user and the request itself are given back.
Gone(c) == Move(c, "leaving", "away") /\ UNCHANGED late

Call(c) ==
  Arrive(c) \/ Count(c) \/ IncActive(c) \/ DecActive(c) \/ DecReq(c) \/ Leave(c) \/ Gone(c)

Next == Service \/ \E c \in Calls : Call(c)

Spec == Init /\ [][Next]_vars

\* The thread of ServerStop goes on.  Nothing is assumed of the calls: a client that
\* does not pull keeps its call for ever.
FairSpec == Spec /\ WF_vars(Check \/ Wake \/ Delete)

-----------------------------------------------------------------------------
(***************************************************************************)
(* Properties.                                                             *)
(***************************************************************************)
TypeOK ==
  /\ step \in {"start", "listening", "check", "sleep", "delete", "stopped"}
  /\ at \in 1 .. (IF step = "delete" THEN Len(Deletes) ELSE Len(Checks))
  /\ exists \subseteq Counters \cup Queues
  /\ flags \subseteq Counters \cup Queues
  /\ phase \in [Calls -> Phases]
  /\ late \subseteq Calls
  /\ hasty \in BOOLEAN

\* "Performing a check in this order should prevent race conditions, since
\* pClientActiveReqCounters are incremented before pClientReqCounters are decremented":
\* what a call is counted in is not deleted, unless a sleep was too short, or the call
\* was counted after ServerStop had looked.
CountedIsThere ==
  \A c \in Calls : CountedIn(c) \subseteq exists \/ hasty \/ c \in late

\* When ServerStop returns, what was created is deleted, except the ClientReqQueues.
NothingLeft == step = "stopped" => exists \subseteq {"clientQueues"}

\* However long the calls under way take, ServerStop returns.
StopEnds == step = "check" ~> step = "stopped"
=============================================================================
