---------------------------- MODULE ThrottleProofs ----------------------------
(***************************************************************************)
(* Proofs about Throttle, for every capacity, cost and length of time: a   *)
(* sleep is as long as what it waits for takes to come back, so no         *)
(* operation goes ahead unpaid; and what was spent since any moment plus   *)
(* what is left never exceeds a full bucket and what came back.            *)
(***************************************************************************)
EXTENDS Throttle, TLAPS

(* What a sleeping caller waits for comes back while it sleeps.            *)
SleepPays == caller = "asleep" => tokens + sleepLeft >= OpCost

(* What is left counts as well: WindowKept alone says nothing of how much  *)
(* may be spent at once, and is not inductive.                             *)
Balance == \A t \in 0..now : spent + tokens <= spentBy[t] + BucketCapacity + (now - t)

ThrottleIInv == ThrottleTypeOK /\ SleepPays /\ Balance

LEMMA InitThrottle == Affordable /\ ThrottleInit => ThrottleIInv
BY BucketAssumption
DEF Affordable, ThrottleInit, BucketInit, ThrottleIInv, ThrottleTypeOK, SleepPays, Balance

(* The constants and the typed state, as numbers.                          *)
LEMMA Numbers ==
  ASSUME Affordable, ThrottleTypeOK
  PROVE  /\ BucketCapacity \in Nat \ {0} /\ OpCost \in Nat \ {0} /\ OpCost <= BucketCapacity
         /\ MaxTime \in Nat /\ now \in Nat /\ now <= MaxTime
         /\ tokens \in Nat /\ tokens <= BucketCapacity /\ sleepLeft \in Nat /\ spent \in Nat
         /\ \A t \in 0..now : t \in 0..MaxTime /\ spentBy[t] \in Nat
BY BucketAssumption DEF Affordable, ThrottleTypeOK

(* An operation is paid for when its tokens are there.                     *)
LEMMA OperateIInv ==
  ASSUME Affordable, ThrottleIInv, tokens >= OpCost, Operate
  PROVE  ThrottleIInv' /\ tokens' = tokens - OpCost /\ spent' = spent + OpCost
<1>1. ThrottleTypeOK /\ Balance
  BY DEF ThrottleIInv
<1>2. /\ tokens' = tokens - OpCost /\ spent' = spent + OpCost
      /\ caller' = "away" /\ sleepLeft' = 0 /\ now' = now /\ spentBy' = spentBy
  BY <1>1, Numbers DEF Operate, TryAcquire
<1>3. tokens' \in 0..BucketCapacity /\ spent' \in Nat /\ 0 \in 0..OpCost
  BY <1>1, <1>2, Numbers
<1>4. ThrottleTypeOK'
  BY <1>1, <1>2, <1>3 DEF ThrottleTypeOK
<1>5. SleepPays'
  BY <1>2 DEF SleepPays
<1>6. Balance'
  <2> SUFFICES ASSUME NEW t \in 0..now
               PROVE  spent' + tokens' <= spentBy[t] + BucketCapacity + (now - t)
    BY <1>2 DEF Balance
  <2>1. spent' + tokens' = spent + tokens
    BY <1>1, <1>2, Numbers
  <2> QED
    BY <1>1, <2>1 DEF Balance
<1> QED
  BY <1>2, <1>4, <1>5, <1>6 DEF ThrottleIInv

(* A stretch that begins now allows a full bucket.                         *)
LEMMA FullBucket ==
  ASSUME NEW cap \in Nat, NEW n \in Nat, NEW s \in Nat, NEW k \in Nat, k <= cap
  PROVE  s + k <= s + cap + (n - n)
OBVIOUS

(* One that began earlier has grown by the token the tick brought.         *)
LEMMA OneTickLonger ==
  ASSUME NEW cap \in Nat, NEW n \in Nat, NEW s \in Nat, NEW k \in Nat, NEW k1 \in Nat,
         NEW x \in Nat, NEW t \in Nat, k1 <= k + 1, s + k <= x + cap + (n - t)
  PROVE  s + k1 <= x + cap + ((n + 1) - t)
OBVIOUS

(* With a tick at most one token comes back, and a new stretch begins in   *)
(* which nothing has been spent.                                           *)
LEMMA TickIInv ==
  ASSUME Affordable, ThrottleIInv, Tick
  PROVE  ThrottleIInv'
<1>1. ThrottleTypeOK /\ Balance /\ SleepPays
  BY DEF ThrottleIInv
<1>2. /\ now' = now + 1 /\ now < MaxTime /\ spent' = spent /\ caller' = caller
      /\ spentBy' = [spentBy EXCEPT ![now + 1] = spent]
      /\ tokens' = IF tokens < BucketCapacity THEN tokens + 1 ELSE tokens
      /\ sleepLeft' = IF sleepLeft > 0 THEN sleepLeft - 1 ELSE 0
  BY DEF Tick, Refill
<1>3. /\ tokens' \in 0..BucketCapacity /\ tokens' <= tokens + 1 /\ tokens' >= tokens
      /\ tokens < OpCost => tokens' = tokens + 1
  BY <1>1, <1>2, Numbers
<1>4. sleepLeft' \in 0..OpCost /\ now' \in 0..MaxTime /\ now + 1 \in 0..MaxTime
  BY <1>1, <1>2, Numbers DEF ThrottleTypeOK
<1>5. /\ spentBy' \in [0..MaxTime -> Nat] /\ spentBy'[now + 1] = spent
      /\ \A t \in 0..now : spentBy'[t] = spentBy[t]
  BY <1>1, <1>2, <1>4, Numbers DEF ThrottleTypeOK
<1>6. ThrottleTypeOK'
  BY <1>1, <1>2, <1>3, <1>4, <1>5 DEF ThrottleTypeOK
<1>7. SleepPays'
  <2> SUFFICES ASSUME caller = "asleep" PROVE tokens' + sleepLeft' >= OpCost
    BY <1>2 DEF SleepPays
  <2>1. tokens + sleepLeft >= OpCost
    BY <1>1 DEF SleepPays
  <2>2. CASE tokens < OpCost
    BY <1>1, <1>2, <1>3, <2>1, <2>2, Numbers
  <2>3. CASE tokens >= OpCost
    BY <1>1, <1>3, <1>4, <2>3, Numbers
  <2> QED
    BY <1>1, <2>2, <2>3, Numbers
<1>8. Balance'
  <2>1. PICK n, s, k : n = now /\ s = spent /\ k = tokens'
    OBVIOUS
  <2>2. /\ n \in Nat /\ s \in Nat /\ k \in Nat /\ tokens \in Nat /\ BucketCapacity \in Nat
        /\ k <= BucketCapacity /\ k <= tokens + 1
    BY <1>1, <1>3, <2>1, Numbers
  <2>3. now' = n + 1 /\ spent' = s
    BY <1>2, <2>1
  <2>4. ASSUME NEW t \in 0..(n + 1)
        PROVE  s + k <= spentBy'[t] + BucketCapacity + ((n + 1) - t)
    <3>1. CASE t = n + 1
      <4>1. spentBy'[t] = s
        BY <1>5, <2>1, <3>1
      <4>2. n + 1 \in Nat
        BY <2>2
      <4>3. s + k <= s + BucketCapacity + ((n + 1) - (n + 1))
        BY ONLY <2>2, <4>2, FullBucket
      <4> QED
        BY ONLY <3>1, <4>1, <4>3
    <3>2. CASE t # n + 1
      <4>1. t \in 0..n /\ t \in Nat
        BY <2>2, <3>2
      <4>2. spentBy'[t] = spentBy[t] /\ spentBy[t] \in Nat
        BY <1>1, <1>5, <2>1, <4>1, Numbers
      <4>3. s + tokens <= spentBy[t] + BucketCapacity + (n - t)
        BY <1>1, <2>1, <4>1 DEF Balance
      <4>4. s + k <= spentBy[t] + BucketCapacity + ((n + 1) - t)
        BY ONLY <2>2, <4>1, <4>2, <4>3, OneTickLonger
      <4> QED
        BY ONLY <4>2, <4>4
    <3> QED
      BY ONLY <3>1, <3>2
  <2> QED
    BY ONLY <2>1, <2>3, <2>4 DEF Balance
<1> QED
  BY <1>6, <1>7, <1>8 DEF ThrottleIInv

LEMMA NextThrottle ==
  ASSUME Affordable, ThrottleIInv, [ThrottleNext]_throttleVars
  PROVE  ThrottleIInv' /\ (spent' # spent => tokens' = tokens - OpCost)
<1>1. ThrottleTypeOK /\ SleepPays /\ Balance
  BY DEF ThrottleIInv
<1>2. CASE Ask
  <2>1. CASE FallAsleep
    <3>1. /\ caller' = "asleep" /\ sleepLeft' = OpCost - tokens /\ tokens < OpCost
          /\ UNCHANGED <<tokens, now, spent, spentBy>>
      BY <1>1, <2>1, Numbers DEF FallAsleep, TimeUntilAvailable
    <3>2. OpCost - tokens \in 0..OpCost /\ tokens + (OpCost - tokens) >= OpCost
      BY <1>1, <3>1, Numbers
    <3> QED
      BY <1>1, <3>1, <3>2 DEF ThrottleIInv, ThrottleTypeOK, SleepPays, Balance
  <2>2. CASE TimeUntilAvailable(OpCost) = 0 /\ Operate
    <3>1. tokens >= OpCost
      BY <1>1, <2>2, Numbers DEF TimeUntilAvailable
    <3> QED
      BY <2>2, <3>1, OperateIInv
  <2> QED
    BY <1>2, <2>1, <2>2 DEF Ask
<1>3. CASE WakeUp
  <2>1. tokens >= OpCost
    BY <1>1, <1>3, Numbers DEF WakeUp, SleepPays
  <2> QED
    BY <1>3, <2>1, OperateIInv DEF WakeUp
<1>4. CASE Tick
  BY <1>4, TickIInv DEF Tick
<1>5. CASE UNCHANGED throttleVars
  BY <1>1, <1>5 DEF throttleVars, ThrottleIInv, ThrottleTypeOK, SleepPays, Balance
<1> QED
  BY <1>2, <1>3, <1>4, <1>5 DEF ThrottleNext

LEMMA ThrottleInvariant ==
  ASSUME Affordable
  PROVE  ThrottleSpec => []ThrottleIInv
<1>1. ThrottleIInv /\ [ThrottleNext]_throttleVars => ThrottleIInv'
  BY NextThrottle
<1> QED
  BY <1>1, InitThrottle, PTL DEF ThrottleSpec

(* A bucket holds between nothing and its capacity (ThrottleTypeOK).       *)
THEOREM ThrottleTypeCorrect ==
  ASSUME Affordable
  PROVE  ThrottleSpec => []ThrottleTypeOK
<1>1. ThrottleIInv => ThrottleTypeOK
  BY DEF ThrottleIInv
<1> QED
  BY <1>1, ThrottleInvariant, PTL

(* Over any stretch of time, however long, a caller that ignores           *)
(* try_acquire's answer goes ahead with no more than a full bucket and     *)
(* what came back meanwhile pay for (WindowKept).                          *)
THEOREM WindowIsKept ==
  ASSUME Affordable
  PROVE  ThrottleSpec => []WindowKept
<1>1. ThrottleIInv => WindowKept
  <2> SUFFICES ASSUME ThrottleIInv, NEW t \in 0..now
               PROVE  spent - spentBy[t] <= BucketCapacity + (now - t)
    BY DEF WindowKept
  <2>1. spent + tokens <= spentBy[t] + BucketCapacity + (now - t)
    BY DEF ThrottleIInv, Balance
  <2>2. ThrottleTypeOK
    BY DEF ThrottleIInv
  <2> QED
    BY <2>1, <2>2, Numbers
<1> QED
  BY <1>1, ThrottleInvariant, PTL

(* After the sleep the tokens of the operation are there, and are taken    *)
(* (OperationsArePaid).                                                    *)
THEOREM EveryOperationPaid ==
  ASSUME Affordable
  PROVE  ThrottleSpec => OperationsArePaid
<1>1. ThrottleIInv /\ [ThrottleNext]_throttleVars =>
        [spent' # spent => tokens' = tokens - OpCost]_throttleVars
  BY NextThrottle
<1> QED
  BY <1>1, ThrottleInvariant, PTL DEF ThrottleSpec, OperationsArePaid
=============================================================================
