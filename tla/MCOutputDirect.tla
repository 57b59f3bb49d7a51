---------------------------- MODULE MCOutputDirect ----------------------------
(***************************************************************************)
(* TLC instance of OutputDirect: batches of two, exact or not.              *)
(***************************************************************************)
EXTENDS OutputDirect

Both == {TRUE, FALSE}
=============================================================================
