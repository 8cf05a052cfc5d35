----------------------------- MODULE MCSimulation -----------------------------
(***************************************************************************)
(* A small instance of Simulation: three prices, so that the two sides of  *)
(* the market have exactly one price to meet at.                           *)
(***************************************************************************)
EXTENDS Simulation

MCLevel == ({"bid"} \X (1..MaxPrice - 1)) \cup ({"ask"} \X (2..MaxPrice))
=============================================================================
