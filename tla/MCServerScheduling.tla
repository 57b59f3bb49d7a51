------------------------ MODULE MCServerScheduling ------------------------
(* Instances of ServerScheduling for TLC. *)
EXTENDS ServerScheduling, TLC

\* Bounds that three requests reach, and bounds that they cannot.
SomeWait   == [p \in Pri |-> 2]
Mixed      == [p \in Pri |-> p + 1]
Roomy      == [p \in Pri |-> Cardinality(Reqs)]

Symmetry == {f @@ g : f \in Permutations(Reqs), g \in Permutations(Users)}
===========================================================================
