---------------------------- MODULE MCMultiUser ----------------------------
(* Instances of MultiUser for TLC. *)
EXTENDS MultiUser, TLC

CONSTANTS r1, r2, r3, u1, u2

\* Two requests of one user and one of another.
TwoAndOne == (r1 :> u1) @@ (r2 :> u1) @@ (r3 :> u2)

\* All in the one group.
OneGroup == [r \in Reqs |-> 1]
=============================================================================
