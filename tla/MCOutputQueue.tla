---------------------------- MODULE MCOutputQueue ----------------------------
(***************************************************************************)
(* TLC instance of OutputQueue: batches of two, exact or not, with and      *)
(* without the flushing optimization, by an application that resets or not. *)
(***************************************************************************)
EXTENDS OutputQueue

Both == {TRUE, FALSE}
=============================================================================
