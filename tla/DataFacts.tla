------------------------------ MODULE DataFacts -------------------------------
(***************************************************************************)
(* Facts about numbers, finite sets and sequences that the proofs of       *)
(* several modules rest on.                                                *)
(***************************************************************************)
EXTENDS Integers, Sequences, FiniteSets, FiniteSetsExt, FiniteSetTheorems,
        WellFoundedInduction, TLAPS

(* Every non-empty set of naturals has a least element.                    *)
LEMMA NatLeast ==
  ASSUME NEW S, S \subseteq Nat, S # {}
  PROVE  \E m \in S : \A y \in S : m <= y
<1>1. IsWellFoundedOn(OpToRel(<, Nat), Nat)
  BY NatLessThanWellFounded
<1>2. PICK m \in S : \A y \in S : ~ (<<y, m>> \in OpToRel(<, Nat))
  BY <1>1, WFMin
<1>3. \A y \in S : ~ (y < m)
  BY <1>2 DEF OpToRel
<1> QED
  BY <1>3

LEMMA MinIsLeast ==
  ASSUME NEW S, S \subseteq Nat, S # {}
  PROVE  Min(S) \in S /\ \A y \in S : Min(S) <= y
BY NatLeast DEF Min

LEMMA MaxIsGreatest ==
  ASSUME NEW S, NEW n \in Nat, S \subseteq 0..n, S # {}
  PROVE  Max(S) \in S /\ \A y \in S : y <= Max(S)
<1> DEFINE T == {n - x : x \in S}
<1>0. PICK z \in S : TRUE
  OBVIOUS
<1>a. n - z \in T
  OBVIOUS
<1>1. T \subseteq Nat /\ T # {}
  BY <1>a
<1>2. PICK m \in T : \A y \in T : m <= y
  BY <1>1, NatLeast
<1>3. PICK x \in S : m = n - x
  BY <1>2
<1>4. \A y \in S : n - y \in T
  OBVIOUS
<1>5. \A y \in S : x >= y
  BY <1>2, <1>3, <1>4
<1> QED
  BY <1>3, <1>5 DEF Max

(* A set of naturals with 0 and every successor holds all of them.         *)
LEMMA AllNaturals ==
  ASSUME NEW S, 0 \in S, \A n \in Nat : n \in S => n + 1 \in S
  PROVE  Nat \subseteq S
<1> SUFFICES ASSUME Nat \ S # {} PROVE FALSE
  OBVIOUS
<1>1. PICK m \in Nat \ S : \A y \in Nat \ S : m <= y
  BY NatLeast
<1>2. m # 0 /\ m - 1 \in Nat
  BY <1>1
<1>3. m - 1 \in S
  BY <1>1, <1>2
<1> QED
  BY <1>1, <1>2, <1>3

(* A set that holds with an index all the smaller ones is an interval, and *)
(* counting it tells where it ends.                                        *)
LEMMA FirstOnes ==
  ASSUME NEW m \in Nat, NEW G, G \subseteq 1..m,
         \A i \in G, j \in 1..m : j <= i => j \in G
  PROVE  Cardinality(G) \in 0..m /\ G = 1..Cardinality(G)
<1>1. PICK x \in (1..m + 1) \ G : \A y \in (1..m + 1) \ G : x <= y
  <2>1. m + 1 \in (1..m + 1) \ G
    OBVIOUS
  <2>2. (1..m + 1) \ G \subseteq Nat /\ (1..m + 1) \ G # {}
    BY <2>1
  <2> QED
    BY <2>2, NatLeast
<1>2. G = 1..x - 1
  <2>1. ASSUME NEW i \in G PROVE i \in 1..x - 1
    <3>1. i \in 1..m /\ x \in 1..m + 1
      BY <1>1
    <3>2. ~ x <= i
      BY <1>1, <3>1
    <3> QED
      BY <3>1, <3>2
  <2>2. ASSUME NEW i \in 1..x - 1 PROVE i \in G
    BY <1>1
  <2> QED
    BY <2>1, <2>2
<1>3. Cardinality(1..x - 1) = x - 1
  <2>1. x - 1 \in Int /\ 1 <= x
    BY <1>1
  <2>2. Cardinality(1..x - 1) = IF 1 > x - 1 THEN 0 ELSE x - 1 - 1 + 1
    BY <2>1, FS_Interval
  <2> QED
    BY <2>1, <2>2
<1> QED
  BY <1>1, <1>2, <1>3

-----------------------------------------------------------------------------
(* Sequences                                                               *)

(* A sequence has the type of its elements.                                *)
LEMMA Retyped ==
  ASSUME NEW S, NEW T, NEW s \in Seq(S), \A i \in 1..Len(s) : s[i] \in T
  PROVE  s \in Seq(T)
OBVIOUS

(* What is left of a sequence without its first n elements.                *)
LEMMA AllButFirst ==
  ASSUME NEW S, NEW s \in Seq(S), NEW n \in 0..Len(s)
  PROVE  /\ SubSeq(s, n + 1, Len(s)) \in Seq(S)
         /\ Len(SubSeq(s, n + 1, Len(s))) = Len(s) - n
         /\ \A i \in 1..Len(s) - n : SubSeq(s, n + 1, Len(s))[i] = s[n + i]
<1>1. \A i \in n + 1..Len(s) : s[i] \in S
  OBVIOUS
<1>2. SubSeq(s, n + 1, Len(s)) = [i \in 1..Len(s) - n |-> s[n + i]]
  OBVIOUS
<1> QED
  BY <1>1, <1>2

(* What is left without the first one.                                     *)
LEMMA WithoutFirst ==
  ASSUME NEW S, NEW s \in Seq(S), s # <<>>
  PROVE  /\ Tail(s) \in Seq(S)
         /\ Len(s) \in Nat \ {0} /\ Len(Tail(s)) = Len(s) - 1
         /\ Head(s) = s[1] /\ s[1] \in S
         /\ \A i \in 1..Len(s) - 1 : Tail(s)[i] = s[i + 1]
OBVIOUS

(* A sequence with one element more.                                       *)
LEMMA Appended ==
  ASSUME NEW S, NEW s \in Seq(S), NEW x \in S
  PROVE  /\ Append(s, x) \in Seq(S)
         /\ Len(Append(s, x)) = Len(s) + 1
         /\ \A i \in 1..Len(s) : Append(s, x)[i] = s[i]
         /\ Append(s, x)[Len(s) + 1] = x
OBVIOUS

(* Two sequences, one after the other.                                     *)
LEMMA Joined ==
  ASSUME NEW S, NEW s \in Seq(S), NEW t \in Seq(S)
  PROVE  /\ s \o t \in Seq(S) /\ Len(s \o t) = Len(s) + Len(t)
         /\ DOMAIN (s \o t) = 1..Len(s) + Len(t)
         /\ DOMAIN s = 1..Len(s) /\ DOMAIN t = 1..Len(t) /\ Len(s) \in Nat /\ Len(t) \in Nat
         /\ \A i \in 1..Len(s) : (s \o t)[i] = s[i]
         /\ \A i \in 1..Len(t) : (s \o t)[Len(s) + i] = t[i]
OBVIOUS

(* Sequences of one and two elements.                                      *)
LEMMA OnesAndPairs ==
  /\ \A x : Tail(<<x>>) = <<>>
  /\ \A x, y : Tail(<<x, y>>) = <<y>>
  /\ \A x, y : Append(<<x>>, y) = <<x, y>>
<1>1. ASSUME NEW x PROVE Tail(<<x>>) = <<>>
  OBVIOUS
<1>2. ASSUME NEW x, NEW y PROVE Tail(<<x, y>>) = <<y>>
  <2> DEFINE s == <<x, y>>
             t == Tail(s)
  <2>1. s \in Seq({x, y})
    OBVIOUS
  <2>a. Len(s) = 2
    OBVIOUS
  <2>b. s[2] = y
    BY DEF s
  <2>c. s # <<>>
    BY <2>a
  <2> HIDE DEF s
  <2>2. t \in Seq({x, y}) /\ Len(t) = 1 /\ t[1] = y
    BY <2>1, <2>a, <2>b, <2>c, WithoutFirst
  <2> HIDE DEF t
  <2>3. t = <<y>>
    BY <2>2
  <2> QED
    BY <2>3 DEF t, s
<1>3. ASSUME NEW x, NEW y PROVE Append(<<x>>, y) = <<x, y>>
  <2> DEFINE s == <<x>>
             t == Append(s, y)
  <2>1. s \in Seq({x, y})
    OBVIOUS
  <2>2. Len(s) = 1 /\ s[1] = x
    OBVIOUS
  <2> HIDE DEF s
  <2>3. /\ t \in Seq({x, y}) /\ Len(t) = Len(s) + 1 /\ t[Len(s) + 1] = y
        /\ \A i \in 1..Len(s) : t[i] = s[i]
    BY <2>1, Appended
  <2> HIDE DEF t
  <2>4. t = <<x, y>>
    BY <2>2, <2>3
  <2> QED
    BY <2>4 DEF t, s
<1> QED
  BY <1>1, <1>2, <1>3
=============================================================================
