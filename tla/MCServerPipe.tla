---------------------------- MODULE MCServerPipe ----------------------------
(* Instances of ServerPipe for TLC. *)
EXTENDS ServerPipe

\* No byte, less than a buffer, a buffer, ..., two and a half buffers of two bytes.
AllSizes == 0 .. 2 * BufSize + 1

\* A push may fail, or a read, or HandleSReq, after the file could be opened or not.
Failures == {{"open", "push"}, {"open", "readNow", "readLater"}, {"handle"}}
=============================================================================
