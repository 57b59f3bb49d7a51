------------------------------- MODULE Transfer -------------------------------
(***************************************************************************)
(* What the server promises for one replication call: the bytes of the     *)
(* file are sent in order, none of them twice, and the call is completed   *)
(* only after all of them were sent and the end was signalled; otherwise   *)
(* it is aborted.  How reads and pushes overlap is left to the             *)
(* implementation.                                                         *)
(***************************************************************************)
EXTENDS Integers, Sequences

CONSTANT FileSizes

VARIABLES
  size,    \* the file is the bytes 1, ..., size
  stream,  \* what was sent
  ends,    \* how often the end of the stream was signalled
  call     \* "open", "completed" or "aborted"

vars == <<size, stream, ends, call>>

File == [i \in 1 .. size |-> i]

Init == size \in FileSizes /\ stream = <<>> /\ ends = 0 /\ call = "open"

\* The next bytes of the file.
Send == /\ call = "open" /\ ends = 0
        /\ \E n \in Len(stream) + 1 .. size : stream' = SubSeq(File, 1, n)
        /\ UNCHANGED <<size, ends, call>>

End == /\ call = "open" /\ ends = 0 /\ stream = File
       /\ ends' = 1
       /\ UNCHANGED <<size, stream, call>>

Complete == /\ call = "open" /\ ends = 1
            /\ call' = "completed"
            /\ UNCHANGED <<size, stream, ends>>

Abort == /\ call = "open"
         /\ call' = "aborted"
         /\ UNCHANGED <<size, stream, ends>>

Next == Send \/ End \/ Complete \/ Abort

Spec == Init /\ [][Next]_vars
=============================================================================
