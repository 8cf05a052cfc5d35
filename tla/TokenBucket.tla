----------------------------- MODULE TokenBucket -----------------------------
(***************************************************************************)
(* TokenBucket (feeds/ratelimit.py).  The unit of time is what one token   *)
(* takes to come back, so the bucket refills with the clock instead of     *)
(* catching up whenever it is asked; it holds what the code's would after  *)
(* _refill.                                                                *)
(***************************************************************************)
EXTENDS Integers

CONSTANTS BucketCapacity   \* capacity

ASSUME BucketAssumption == BucketCapacity \in Nat \ {0}

VARIABLES tokens           \* _tokens

BucketInit == tokens = BucketCapacity

Refill == tokens' = IF tokens < BucketCapacity THEN tokens + 1 ELSE tokens

(* The wait for a cost above the capacity is too short, as in the code.    *)
TimeUntilAvailable(cost) == IF tokens >= cost THEN 0 ELSE cost - tokens

(* Where there are too few tokens none is taken.                           *)
TryAcquire(cost) ==
  \/ tokens >= cost /\ tokens' = tokens - cost
  \/ tokens < cost /\ UNCHANGED tokens
=============================================================================
