---------------------------- MODULE MCClientPipe ----------------------------
(* Instances of ClientPipe for TLC. *)
EXTENDS ClientPipe

\* No byte, less than a buffer, a buffer, and a second chunk that extends the file again.
AllSizes == 0 .. BufSize + 1

\* What fails before the call-complete notification, and each other fault alone; and
\* what may fail with a Status of 0.
Failures == {{"open", "make", "pull"}, {"call"}, {"writeNow"}, {"writeLater"},
             {"open", "writeNow", "zero"}}
=============================================================================
