------------------------------ MODULE Admission ------------------------------
(***************************************************************************)
(* What the request scheduling of the File Replication Service promises:   *)
(* a bounded waiting room per priority group, and a bounded number of      *)
(* requests served at a time per group and per user (the bounds of         *)
(* Service.h).  How requests are counted, queued and picked is left to the *)
(* implementation.                                                         *)
(***************************************************************************)
EXTENDS Integers, FiniteSets

CONSTANTS Reqs, Users, Pri, WaitBound, ServeBound, UserBound

VARIABLES
  phase,  \* "none", "waiting" or "served"
  pri,    \* the group of a request
  sid     \* its user

vars == <<phase, pri, sid>>

Waiting(p)      == {r \in Reqs : phase[r] = "waiting" /\ pri[r] = p}
Served(p)       == {r \in Reqs : phase[r] = "served" /\ pri[r] = p}
ServedFor(p, u) == {r \in Served(p) : sid[r] = u}

Init == /\ phase = [r \in Reqs |-> "none"]
        /\ pri \in [Reqs -> Pri]
        /\ sid \in [Reqs -> Users]

\* Before it waits and after it was served, a request may change hands.
Identify(r) ==
  /\ phase[r] = "none"
  /\ pri' \in {[pri EXCEPT ![r] = p] : p \in Pri}
  /\ sid' \in {[sid EXCEPT ![r] = u] : u \in Users}
  /\ phase' = phase

\* Request r moves from one phase to another.
Move(r, from, to) ==
  /\ phase[r] = from /\ phase'[r] = to
  /\ phase' = [phase EXCEPT ![r] = to]
  /\ UNCHANGED <<pri, sid>>

Submit(r) == /\ Move(r, "none", "waiting")
             /\ Cardinality(Waiting(pri[r])) < WaitBound[pri[r]]

Start(r) == /\ Move(r, "waiting", "served")
            /\ Cardinality(Served(pri[r])) < ServeBound[pri[r]]
            /\ Cardinality(ServedFor(pri[r], sid[r])) < UserBound

Finish(r) == Move(r, "served", "none")

Next == \E r \in Reqs : Identify(r) \/ Submit(r) \/ Start(r) \/ Finish(r)

Spec == Init /\ [][Next]_vars
=============================================================================
