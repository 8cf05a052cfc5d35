----------------------------- MODULE MCBookSync -----------------------------
(***************************************************************************)
(* A small instance of BookSync, with the loops of load_snapshot.          *)
(***************************************************************************)
EXTENDS BookReplay

CONSTANT l1
=============================================================================
