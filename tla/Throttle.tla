------------------------------ MODULE Throttle -------------------------------
(***************************************************************************)
(* A caller of a TokenBucket, as the three there are write it: the OKX     *)
(* client before a connection attempt (okx.py:271-274) and before a        *)
(* resubscribe (okx.py:587-594), the Binance client before a snapshot      *)
(* request (binance.py:472-475).  It asks how long to wait, sleeps if it   *)
(* has to, calls try_acquire and goes ahead whatever that returns.         *)
(*                                                                         *)
(* Time.  A tick is what one token takes to come back.  The caller may ask *)
(* at any moment; the event loop may wake it late but not early, the timer *)
(* being set after the bucket's clock was read.  To let it ask between two *)
(* tokens, count tokens in fractions: a capacity of 6 and a cost of 2 are  *)
(* three whole tokens seen twice as closely.                               *)
(***************************************************************************)
EXTENDS TokenBucket

CONSTANTS
  OpCost,      \* cost
  MaxTime      \* bound: ticks that are looked at

(* No operation costs more than a bucket can hold: it would never be paid. *)
Affordable == /\ OpCost \in Nat \ {0}
              /\ OpCost <= BucketCapacity
              /\ MaxTime \in Nat

VARIABLES
  caller,      \* "away" or "asleep"
  sleepLeft,   \* ticks its sleep still takes
  now,         \* ticks since the bucket was made
  spent,       \* observer: the cost of the operations so far
  spentBy      \* observer: what that was when tick t began

throttleVars == <<tokens, caller, sleepLeft, now, spent, spentBy>>

ThrottleInit ==
  /\ BucketInit
  /\ caller = "away" /\ sleepLeft = 0
  /\ now = 0 /\ spent = 0 /\ spentBy = [t \in 0..MaxTime |-> 0]

(* What try_acquire returns is not looked at.                              *)
Operate ==
  /\ TryAcquire(OpCost)
  /\ spent' = spent + OpCost
  /\ caller' = "away" /\ sleepLeft' = 0
  /\ UNCHANGED <<now, spentBy>>

FallAsleep ==
  /\ TimeUntilAvailable(OpCost) > 0
  /\ caller' = "asleep" /\ sleepLeft' = TimeUntilAvailable(OpCost)
  /\ UNCHANGED <<tokens, now, spent, spentBy>>

Ask ==
  /\ caller = "away"
  /\ \/ FallAsleep
     \/ TimeUntilAvailable(OpCost) = 0 /\ Operate

WakeUp == caller = "asleep" /\ sleepLeft = 0 /\ Operate

Tick ==
  /\ now < MaxTime
  /\ Refill
  /\ now' = now + 1
  /\ spentBy' = [spentBy EXCEPT ![now + 1] = spent]
  /\ sleepLeft' = IF sleepLeft > 0 THEN sleepLeft - 1 ELSE 0
  /\ UNCHANGED <<caller, spent>>

ThrottleNext == Ask \/ WakeUp \/ Tick

ThrottleSpec == ThrottleInit /\ [][ThrottleNext]_throttleVars

-----------------------------------------------------------------------------
(* The bucket never holds more than its capacity nor less than nothing.    *)
ThrottleTypeOK ==
  /\ tokens \in 0..BucketCapacity
  /\ caller \in {"away", "asleep"} /\ sleepLeft \in 0..OpCost
  /\ now \in 0..MaxTime /\ spent \in Nat
  /\ spentBy \in [0..MaxTime -> Nat]

(* What a bucket is for: over any stretch of time the operations that went *)
(* ahead cost no more than a full bucket and what came back meanwhile,     *)
(* although nobody looks at try_acquire's answer (ratelimit.py:44-56).     *)
WindowKept == \A t \in 0..now : spent - spentBy[t] <= BucketCapacity + (now - t)

(* No operation goes ahead unpaid: after the sleep the tokens it was for   *)
(* are there and are taken.                                                *)
OperationsArePaid == [][spent' # spent => tokens' = tokens - OpCost]_throttleVars
=============================================================================
