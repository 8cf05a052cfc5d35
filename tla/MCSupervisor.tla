---------------------------- MODULE MCSupervisor ----------------------------
(***************************************************************************)
(* A small instance of Supervisor: the feeds and the sink are strings, so  *)
(* that the names of the tasks can be compared.                            *)
(***************************************************************************)
EXTENDS Supervisor
=============================================================================
