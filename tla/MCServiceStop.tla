--------------------------- MODULE MCServiceStop ---------------------------
(* Instances of ServiceStop for TLC. *)
EXTENDS ServiceStop
=============================================================================
