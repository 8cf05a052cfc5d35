----------------------------- MODULE Connection -----------------------------
(***************************************************************************)
(* ConnectionManager (feeds/connection.py): the lifecycle of a feed        *)
(* client's websocket and its count of failed attempts.  The manager does  *)
(* no I/O: the client's run loop calls one of these operations at each     *)
(* turn and sleeps for the delay disconnected() returns.                   *)
(*                                                                         *)
(* Abstraction.  The jittered delay is any time at all (the run loop's     *)
(* backoff ends whenever it ends), and the outage clock, which only feeds  *)
(* a log line, is left out.                                                *)
(***************************************************************************)
EXTENDS Integers

CONSTANT MaxReconnectFailures   \* max_consecutive_reconnect_failures

ASSUME ConnectionAssumption == MaxReconnectFailures \in Nat \ {0}

VARIABLES
  connState,     \* "DISCONNECTED", "CONNECTING", "CONNECTED" or "BACKOFF"
  attempt,       \* disconnects since a message last got through
  messageSeen    \* whether one has on this connection

connVars == <<connState, attempt, messageSeen>>

ConnStates == {"DISCONNECTED", "CONNECTING", "CONNECTED", "BACKOFF"}

ConnTypeOK ==
  /\ connState \in ConnStates
  /\ attempt \in 0..MaxReconnectFailures
  /\ messageSeen \in BOOLEAN

-----------------------------------------------------------------------------
ConnInit == connState = "DISCONNECTED" /\ attempt = 0 /\ messageSeen = FALSE

(* A new client has a new ConnectionManager.                               *)
ConnReset == connState' = "DISCONNECTED" /\ attempt' = 0 /\ messageSeen' = FALSE

Connecting ==
  /\ connState' = "CONNECTING"
  /\ messageSeen' = FALSE
  /\ UNCHANGED attempt

(* Mutant: a completed handshake counts as a success.                      *)
ConnectedForgives == connState' = "CONNECTED" /\ attempt' = 0 /\ UNCHANGED messageSeen

Connected == connState' = "CONNECTED" /\ UNCHANGED <<attempt, messageSeen>>

(* Only the first message of a connection shows that it works.             *)
MessageReceived ==
  /\ IF connState = "CONNECTED" /\ ~ messageSeen
     THEN messageSeen' = TRUE /\ attempt' = 0
     ELSE UNCHANGED <<messageSeen, attempt>>
  /\ UNCHANGED connState

Disconnected ==
  /\ connState' = "BACKOFF"
  /\ attempt' = attempt + 1
  /\ UNCHANGED messageSeen

(* _raise_if_reconnect_budget_exhausted, just after a disconnected().      *)
BudgetExhausted == attempt + 1 >= MaxReconnectFailures
=============================================================================
