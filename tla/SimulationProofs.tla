--------------------------- MODULE SimulationProofs ---------------------------
(***************************************************************************)
(* Proofs about Simulation, for every set of faults, length of window and  *)
(* delay and every market: the driver does to its engine only what         *)
(* BookSync allows; a run_step that returns has converged on whatever it   *)
(* was given; recent snapshots always load; and no update is sampled       *)
(* twice.  All of it follows from one invariant, which says what a run_step*)
(* can have in hand and in the buffer: the update of the step, perhaps     *)
(* twice, or followed by the one before it.                                *)
(***************************************************************************)
EXTENDS Simulation, BookSyncProofs

-----------------------------------------------------------------------------
(* A step of the simulated market, whatever it inserts and deletes on its  *)
(* two sides, leaves both sides quoted and uncrossed.                      *)

Sides == {"bid", "ask"}

(* A book of which both sides are quoted, every bid below every ask.       *)
Sound(b) ==
  /\ b \in Books
  /\ Prices(b, "bid") # {} /\ Prices(b, "ask") # {}
  /\ \A p \in Prices(b, "bid"), q \in Prices(b, "ask") : p < q

-----------------------------------------------------------------------------
(* The prices                                                              *)

LEMMA Bounds ==
  /\ MaxPrice \in Nat /\ Mid \in Nat /\ 2 <= Mid /\ Mid < MaxPrice
  /\ Reach \in Nat /\ SpreadMin \in Nat \ {0}
  /\ MinLevels \in Nat \ {0} /\ InitialLevels \in Nat \ {0}
  /\ InitialLevels < Mid /\ Mid + InitialLevels <= MaxPrice
<1>1. /\ MaxPrice \in Nat \ {0} /\ Mid \in Nat \ {0} /\ InitialLevels \in Nat \ {0}
      /\ MinLevels \in Nat \ {0} /\ Reach \in Nat \ {0} /\ SpreadMin \in Nat \ {0}
      /\ InitialLevels < Mid /\ Mid + InitialLevels <= MaxPrice
  BY MarketAssumption
<1> QED
  BY <1>1

LEMMA Levels ==
  /\ \A p : <<"bid", p>> \in Level <=> p \in 1..MaxPrice - 1
  /\ \A p : <<"ask", p>> \in Level <=> p \in 2..MaxPrice
  /\ \A l \in Level : l = <<l[1], l[2]>> /\ l[1] \in Sides
BY MarketAssumption DEF Sides

LEMMA PricesTyped ==
  ASSUME NEW b
  PROVE  /\ Prices(b, "bid") \subseteq 1..MaxPrice - 1
         /\ Prices(b, "ask") \subseteq 2..MaxPrice
         /\ \A side : Prices(b, side) \subseteq 0..MaxPrice /\ Prices(b, side) \subseteq Nat
BY Bounds, Levels DEF Prices

(* The greater and the smaller of two numbers.                             *)
LEMMA MaxOfTwo ==
  ASSUME NEW x \in Int, NEW y \in Int
  PROVE  /\ Max({x, y}) \in Int /\ x <= Max({x, y}) /\ y <= Max({x, y})
         /\ Max({x, y}) = x \/ Max({x, y}) = y
<1>1. \E m \in {x, y} : \A z \in {x, y} : m >= z
  BY DEF Max
<1> QED
  BY <1>1 DEF Max

LEMMA MinOfTwo ==
  ASSUME NEW x \in Int, NEW y \in Int
  PROVE  /\ Min({x, y}) \in Int /\ Min({x, y}) <= x /\ Min({x, y}) <= y
<1>1. \E m \in {x, y} : \A z \in {x, y} : m <= z
  BY DEF Min
<1> QED
  BY <1>1 DEF Min

(* The best prices of a book are the outermost ones it quotes.             *)
LEMMA BestPrices ==
  ASSUME NEW b, Sound(b)
  PROVE  /\ BestBid(b) \in Prices(b, "bid") /\ \A p \in Prices(b, "bid") : p <= BestBid(b)
         /\ BestAsk(b) \in Prices(b, "ask") /\ \A p \in Prices(b, "ask") : BestAsk(b) <= p
         /\ BestBid(b) \in 1..MaxPrice - 1 /\ BestAsk(b) \in 2..MaxPrice
         /\ BestBid(b) < BestAsk(b)
<1>1. /\ BestBid(b) = Max(Prices(b, "bid"))
      /\ BestAsk(b) = Min(Prices(b, "ask"))
  BY DEF Sound, BestBid, BestAsk
<1>2. BestBid(b) \in Prices(b, "bid") /\ \A p \in Prices(b, "bid") : p <= BestBid(b)
  BY <1>1, Bounds, PricesTyped, MaxIsGreatest DEF Sound
<1>3. BestAsk(b) \in Prices(b, "ask") /\ \A p \in Prices(b, "ask") : BestAsk(b) <= p
  BY <1>1, PricesTyped, MinIsLeast DEF Sound
<1> QED
  BY <1>2, <1>3, PricesTyped DEF Sound

(* An insert never reaches the other side's best price.                    *)
LEMMA InsertsStayApart ==
  ASSUME NEW b, Sound(b)
  PROVE  /\ \A p \in InsertPrices(b, "bid") : p \in 1..MaxPrice - 1 /\ p < BestAsk(b)
         /\ \A p \in InsertPrices(b, "ask") : p \in 2..MaxPrice /\ BestBid(b) < p
<1>1. /\ BestBid(b) \in 1..MaxPrice - 1 /\ BestAsk(b) \in 2..MaxPrice
      /\ MaxPrice \in Nat /\ SpreadMin \in Nat \ {0} /\ Reach \in Nat
  BY Bounds, BestPrices
<1>2. ASSUME NEW p \in InsertPrices(b, "bid")
      PROVE  p \in 1..MaxPrice - 1 /\ p < BestAsk(b)
  <2>1. PICK o \in (- Reach)..1 :
          p = Max({Min({BestBid(b) + o, BestAsk(b) - SpreadMin}), 1})
    BY <1>2 DEF InsertPrices
  <2> DEFINE x == BestBid(b) + o
             y == BestAsk(b) - SpreadMin
             m == Min({x, y})
  <2>2. x \in Int /\ y \in Int /\ p = Max({m, 1})
    BY <1>1, <2>1
  <2> HIDE DEF x
  <2>3. m \in Int /\ m <= y
    BY <2>2, MinOfTwo
  <2> HIDE DEF m
  <2>4. p \in Int /\ 1 <= p /\ (p = m \/ p = 1)
    <3>1. 1 \in Int /\ m \in Int
      BY <2>3
    <3>2. /\ Max({m, 1}) \in Int /\ 1 <= Max({m, 1})
          /\ Max({m, 1}) = m \/ Max({m, 1}) = 1
      BY ONLY <3>1, MaxOfTwo
    <3> QED
      BY <2>2, <3>2
  <2> QED
    BY <1>1, <2>3, <2>4
<1>3. ASSUME NEW p \in InsertPrices(b, "ask")
      PROVE  p \in 2..MaxPrice /\ BestBid(b) < p
  <2>1. PICK o \in (- 1)..Reach : p = Max({BestAsk(b) + o, BestBid(b) + SpreadMin})
    BY <1>3 DEF InsertPrices
  <2>2. p \in 1..MaxPrice
    BY <1>3 DEF InsertPrices
  <2> DEFINE x == BestAsk(b) + o
             y == BestBid(b) + SpreadMin
  <2>3. x \in Int /\ y \in Int /\ p = Max({x, y})
    BY <1>1, <2>1
  <2>4. y <= p
    <3> HIDE DEF x, y
    <3> QED
      BY <2>3, MaxOfTwo
  <2> QED
    BY <1>1, <2>2, <2>4
<1> QED
  BY <1>2, <1>3

-----------------------------------------------------------------------------
(* One change                                                              *)

(* What a change to one level does to the prices of the two sides.         *)
LEMMA PricesAfter ==
  ASSUME NEW b \in Books, NEW side \in Sides, NEW p, <<side, p>> \in Level, NEW q \in Qty
  PROVE  /\ ApplyLevels(b, SetLevel(side, p, q)) \in Books
         /\ \A other \in Sides \ {side} :
              Prices(ApplyLevels(b, SetLevel(side, p, q)), other) = Prices(b, other)
         /\ q = 0 => Prices(ApplyLevels(b, SetLevel(side, p, q)), side) = Prices(b, side) \ {p}
         /\ q # 0 => Prices(ApplyLevels(b, SetLevel(side, p, q)), side)
                       = Prices(b, side) \cup {p}
<1> DEFINE c == SetLevel(side, p, q)
           a == ApplyLevels(b, c)
<1>1. c = [l \in {<<side, p>>} |-> q]
  BY DEF SetLevel
<1>2. a = [l \in Level |-> IF l = <<side, p>> THEN q ELSE b[l]]
  BY <1>1 DEF ApplyLevels
<1>3. a \in Books
  BY <1>2 DEF Books
<1> HIDE DEF a
<1>4. p \in 1..MaxPrice
  BY Bounds, Levels DEF Sides
<1>5. ASSUME NEW s, NEW r \in 1..MaxPrice, <<s, r>> \in Level
      PROVE  a[<<s, r>>] = IF s = side /\ r = p THEN q ELSE b[<<s, r>>]
  BY <1>2, <1>5
<1>6. \A other \in Sides \ {side} : Prices(a, other) = Prices(b, other)
  BY <1>5 DEF Prices
<1>7. q = 0 => Prices(a, side) = Prices(b, side) \ {p}
  BY <1>5 DEF Prices
<1>8. q # 0 => Prices(a, side) = Prices(b, side) \cup {p}
  BY <1>4, <1>5 DEF Prices
<1> QED
  BY <1>3, <1>6, <1>7, <1>8 DEF a

(* A side that may lose a level keeps another one.                         *)
LEMMA NotTheLast ==
  ASSUME NEW b, NEW side, Cardinality(Prices(b, side)) > MinLevels, NEW p
  PROVE  Prices(b, side) \ {p} # {}
<1>1. Cardinality({p}) = 1 /\ Cardinality({}) = 0 /\ IsFiniteSet({p}) /\ MinLevels \in Nat \ {0}
  BY Bounds, FS_Singleton, FS_EmptySet
<1>2. SUFFICES ASSUME Prices(b, side) \subseteq {p} PROVE FALSE
  OBVIOUS
<1>3. Cardinality(Prices(b, side)) <= 1
  BY <1>1, <1>2, FS_Subset
<1>4. Cardinality(Prices(b, side)) \in Nat
  BY <1>1, <1>2, FS_Subset, FS_CardinalityType
<1> QED
  BY <1>1, <1>3, <1>4

(* A change to one side leaves the book sound.                             *)
LEMMA SideKeepsSound ==
  ASSUME NEW b, Sound(b), NEW side \in Sides, NEW c \in SideChanges(b, side)
  PROVE  /\ Sound(ApplyLevels(b, c))
         /\ \E p : \E q \in Qty : c = SetLevel(side, p, q) /\ <<side, p>> \in Level
<1>1. PICK p, q : /\ c = SetLevel(side, p, q) /\ q \in Qty
                  /\ \/ q # 0 /\ p \in Prices(b, side) \cup InsertPrices(b, side)
                     \/ /\ q = 0 /\ p \in Prices(b, side)
                        /\ Cardinality(Prices(b, side)) > MinLevels
  <2>1. CASE c \in {SetLevel(side, p, q) : p \in Prices(b, side) \cup InsertPrices(b, side),
                                       q \in Qty \ {0}}
    BY <2>1
  <2>2. CASE c \in {SetLevel(side, p, 0) : p \in IF Cardinality(Prices(b, side)) > MinLevels
                                              THEN Prices(b, side) ELSE {}}
    BY <2>2, EngineAssumption
  <2> QED
    BY <2>1, <2>2 DEF SideChanges
<1>2. /\ b \in Books /\ Prices(b, "bid") # {} /\ Prices(b, "ask") # {}
      /\ \A x \in Prices(b, "bid"), y \in Prices(b, "ask") : x < y
  BY DEF Sound
<1>3. /\ BestBid(b) \in Nat /\ BestAsk(b) \in Nat /\ MaxPrice \in Nat
      /\ Prices(b, "bid") \subseteq 1..MaxPrice - 1 /\ Prices(b, "ask") \subseteq 2..MaxPrice
  BY Bounds, BestPrices, PricesTyped
<1>4. <<side, p>> \in Level
  <2>1. CASE p \in Prices(b, side)
    BY <2>1 DEF Prices
  <2>2. CASE p \in InsertPrices(b, side)
    BY <2>2, InsertsStayApart, Levels DEF Sides
  <2> QED
    BY <1>1, <2>1, <2>2
<1>5. q = 0 => Prices(b, side) \ {p} # {}
  BY <1>1, NotTheLast
<1> DEFINE a == ApplyLevels(b, c)
           quoted == IF q = 0 THEN Prices(b, side) \ {p} ELSE Prices(b, side) \cup {p}
<1>6. a \in Books
  BY <1>1, <1>2, <1>4, PricesAfter
<1>7. Prices(a, side) = quoted /\ quoted # {}
  BY <1>1, <1>2, <1>4, <1>5, PricesAfter
<1>8. ASSUME side = "bid" PROVE Sound(a)
  <2>1. Prices(a, "ask") = Prices(b, "ask")
    BY <1>1, <1>2, <1>4, <1>8, PricesAfter DEF Sides
  <2>2. \A x \in quoted, y \in Prices(b, "ask") : x < y
    BY <1>1, <1>2, <1>3, <1>8, BestPrices, InsertsStayApart
  <2>3. Prices(a, "bid") = quoted /\ quoted # {} /\ Prices(a, "ask") # {}
    BY <1>2, <1>7, <1>8, <2>1
  <2> HIDE DEF a, quoted
  <2> QED
    BY <1>6, <2>1, <2>2, <2>3 DEF Sound
<1>9. ASSUME side = "ask" PROVE Sound(a)
  <2>1. Prices(a, "bid") = Prices(b, "bid")
    BY <1>1, <1>2, <1>4, <1>9, PricesAfter DEF Sides
  <2>2. \A x \in Prices(b, "bid"), y \in quoted : x < y
    BY <1>1, <1>2, <1>3, <1>9, BestPrices, InsertsStayApart
  <2>3. Prices(a, "ask") = quoted /\ quoted # {} /\ Prices(a, "bid") # {}
    BY <1>2, <1>7, <1>9, <2>1
  <2> HIDE DEF a, quoted
  <2> QED
    BY <1>6, <2>1, <2>2, <2>3 DEF Sound
<1> QED
  <2>1. Sound(a)
    BY <1>8, <1>9 DEF Sides
  <2> QED
    BY <1>1, <1>4, <2>1

-----------------------------------------------------------------------------
(* One step                                                                *)

(* A change to one side lists one level of that side.                      *)
LEMMA SideChangeTyped ==
  ASSUME NEW b, Sound(b), NEW side \in Sides, NEW c \in SideChanges(b, side)
  PROVE  /\ c \in LevelMaps
         /\ \A l \in DOMAIN c : l[1] = side
<1>1. PICK p, q : q \in Qty /\ c = SetLevel(side, p, q) /\ <<side, p>> \in Level
  BY SideKeepsSound
<1>2. c \in [{<<side, p>>} -> Qty] /\ {<<side, p>>} \in SUBSET Level
  BY <1>1 DEF SetLevel
<1> QED
  BY <1>2 DEF LevelMaps

(* The changes to the two sides, applied together or one after the other.  *)
LEMMA BothSides ==
  ASSUME NEW b \in Books, NEW c \in LevelMaps, NEW d \in LevelMaps,
         \A l \in DOMAIN c : l[1] = "bid", \A l \in DOMAIN d : l[1] = "ask"
  PROVE  /\ Together(c, d) \in LevelMaps
         /\ ApplyLevels(b, Together(c, d)) = ApplyLevels(ApplyLevels(b, c), d)
<1>1. PICK C \in SUBSET Level : c \in [C -> Qty]
  BY DEF LevelMaps
<1>2. PICK D \in SUBSET Level : d \in [D -> Qty]
  BY DEF LevelMaps
<1>3. Together(c, d) \in [C \cup D -> Qty] /\ C \cup D \in SUBSET Level
  BY <1>1, <1>2 DEF Together
<1>4. \A l \in C \cup D : Together(c, d)[l] = IF l \in C THEN c[l] ELSE d[l]
  BY <1>1, <1>2 DEF Together
<1>5. C \cap D = {}
  BY <1>1, <1>2
<1>6. ASSUME NEW l \in Level
      PROVE  ApplyLevels(b, Together(c, d))[l] = ApplyLevels(ApplyLevels(b, c), d)[l]
  BY <1>1, <1>2, <1>3, <1>4, <1>5 DEF ApplyLevels
<1> QED
  BY <1>3, <1>6 DEF LevelMaps, ApplyLevels

(* A step of the market leaves its book sound, and is an event that lists  *)
(* levels of the book with quantities.                                     *)
LEMMA StepKeepsSound ==
  ASSUME NEW b, Sound(b), NEW c \in StepChanges(b)
  PROVE  Sound(ApplyLevels(b, c)) /\ c \in LevelMaps
<1>1. b \in Books /\ {"bid", "ask"} = Sides
  BY DEF Sound, Sides
<1>2. CASE c \in SideChanges(b, "bid") \cup SideChanges(b, "ask")
  BY <1>1, <1>2, SideKeepsSound, SideChangeTyped
<1>3. ASSUME NEW e \in SideChanges(b, "bid"),
             NEW d \in SideChanges(ApplyLevels(b, e), "ask"), c = Together(e, d)
      PROVE  Sound(ApplyLevels(b, c)) /\ c \in LevelMaps
  <2>1. Sound(ApplyLevels(b, e)) /\ e \in LevelMaps /\ \A l \in DOMAIN e : l[1] = "bid"
    BY <1>1, SideKeepsSound, SideChangeTyped
  <2>2. Sound(ApplyLevels(ApplyLevels(b, e), d)) /\ d \in LevelMaps
          /\ \A l \in DOMAIN d : l[1] = "ask"
    BY <1>1, <2>1, SideKeepsSound, SideChangeTyped
  <2> QED
    BY <1>1, <1>3, <2>1, <2>2, BothSides
<1>4. \/ c \in SideChanges(b, "bid") \cup SideChanges(b, "ask")
      \/ \E e \in SideChanges(b, "bid") : \E d \in SideChanges(ApplyLevels(b, e), "ask") :
           c = Together(e, d)
  BY DEF StepChanges
<1> QED
  BY <1>2, <1>3, <1>4

(* The market starts with a sound book.                                    *)
LEMMA SeedIsSound == SeedBook => head = 0 /\ history \in [{0} -> Books] /\ Sound(history[0])
<1> SUFFICES ASSUME SeedBook
             PROVE  head = 0 /\ history \in [{0} -> Books] /\ Sound(history[0])
  OBVIOUS
<1>1. PICK q \in [Level -> Qty \ {0}] :
        history = [n \in {0} |->
          [l \in Level |->
             IF \/ l[1] = "bid" /\ l[2] \in (Mid - InitialLevels)..(Mid - 1)
                \/ l[1] = "ask" /\ l[2] \in (Mid + 1)..(Mid + InitialLevels)
             THEN q[l] ELSE 0]]
  BY DEF SeedBook
<1> DEFINE b == history[0]
<1>2. b = [l \in Level |->
             IF \/ l[1] = "bid" /\ l[2] \in (Mid - InitialLevels)..(Mid - 1)
                \/ l[1] = "ask" /\ l[2] \in (Mid + 1)..(Mid + InitialLevels)
             THEN q[l] ELSE 0]
  BY <1>1
<1>3. b \in Books /\ history \in [{0} -> Books]
  BY <1>1, EngineAssumption DEF Books
<1> HIDE DEF b
<1>4. ASSUME NEW p, <<"bid", p>> \in Level
      PROVE  b[<<"bid", p>>] # 0 <=> p \in (Mid - InitialLevels)..(Mid - 1)
  BY <1>2, <1>4
<1>5. ASSUME NEW p, <<"ask", p>> \in Level
      PROVE  b[<<"ask", p>>] # 0 <=> p \in (Mid + 1)..(Mid + InitialLevels)
  BY <1>2, <1>5
<1>6. Mid - 1 \in Prices(b, "bid") /\ \A p \in Prices(b, "bid") : p \in Int /\ p <= Mid - 1
  BY <1>4, Bounds, Levels DEF Prices
<1>7. Mid + 1 \in Prices(b, "ask") /\ \A p \in Prices(b, "ask") : p \in Int /\ Mid + 1 <= p
  BY <1>5, Bounds, Levels DEF Prices
<1>8. Sound(b)
  BY <1>3, <1>6, <1>7, Bounds DEF Sound
<1> QED
  BY <1>3, <1>8 DEF SeedBook, b

-----------------------------------------------------------------------------
(* The invariant                                                           *)

Genuine(e)  == e \in Event /\ Truthful(e)
Newest(e)   == Genuine(e) /\ e.prev = head - 1 /\ e.final = head
Previous(e) == Genuine(e) /\ e.prev = head - 2 /\ e.final = head - 1

(* The events of one step, as a sequence of one or two.                    *)
OfThisStep(events) ==
  \E e : /\ Newest(e)
         /\ \/ events = <<e>>
            \/ events = <<e, e>>
            \/ \E h : Previous(h) /\ events = <<e, h>>

SoundHistory == \A n \in 0..head : Sound(history[n])

(* An event is held back only while the engine has not been past it.       *)
HeldIInv ==
  held # <<>> =>
    /\ \E e : held = <<e>> /\ Newest(e)
    /\ pc \in {"idle", "applying"} /\ pending = <<>>
    /\ state = "LIVE" /\ lastAppliedId < head

(* Nothing of this step has reached the engine.                            *)
Fresh ==
  /\ state = "LIVE" /\ ~ gap
  /\ lastAppliedId < head /\ sampled < head
  /\ delivered = (pending # <<>>)
  /\ pending # <<>> => OfThisStep(pending)
  /\ \A e, h : pending = <<e, h>> /\ Previous(h) => lastAppliedId < head - 1

(* The update of this step has been applied.                               *)
Applied ==
  /\ state = "LIVE" /\ ~ gap /\ lastAppliedId = head
  /\ pending # <<>> => \E e : Newest(e) /\ pending = <<e>>

(* It did not chain.                                                       *)
Behind ==
  /\ state # "LIVE" /\ gap
  /\ \/ pending = <<>> /\ OfThisStep(buffer)
     \/ \E e, h : /\ Newest(e) /\ (h = e \/ Previous(h))
                  /\ buffer = <<e>> /\ pending = <<h>>

StepIInv ==
  /\ sampled \in 0..head
  /\ oldest \in 0..head
  /\ pc = "idle" => /\ state = "LIVE" /\ pending = <<>>
                    /\ delivered => lastAppliedId = head
  /\ pc = "applying" => Fresh \/ Applied \/ Behind
  /\ pc = "syncing" => /\ state # "LIVE" /\ pending = <<>>
                       /\ (buffer = <<>> /\ head = 0) \/ OfThisStep(buffer)
  /\ pc = "raised" => pending = <<>>

SimIInv == IInv /\ SoundHistory /\ HeldIInv /\ StepIInv

LEMMA HeadTyped == IInv => head \in Nat /\ head \in 0..MaxId /\ history \in [0..head -> Books]
BY SyncAssumption DEF IInv, TypeOK

(* Where the exchange stands still, what was true of an event stays true.  *)
LEMMA EventsStay ==
  ASSUME UNCHANGED exchangeVars
  PROVE  /\ \A e : Genuine(e)' <=> Genuine(e)
         /\ \A e : Newest(e)' <=> Newest(e)
         /\ \A e : Previous(e)' <=> Previous(e)
         /\ SoundHistory' <=> SoundHistory
<1>1. head' = head /\ history' = history
  BY DEF exchangeVars
<1>2. \A e : Truthful(e)' <=> Truthful(e)
  BY <1>1 DEF Truthful, Touched
<1>3. \A e : Genuine(e)' <=> Genuine(e)
  BY <1>2 DEF Genuine
<1> QED
  BY <1>1, <1>3 DEF Newest, Previous, SoundHistory

-----------------------------------------------------------------------------
(* The market's step                                                       *)

(* The update of a step is what the market sends, and what was the newest  *)
(* update before is the previous one now.                                  *)
LEMMA MarketSends ==
  ASSUME IInv, SoundHistory, head < MaxId, NEW changes \in ChangesOf[OracleBook],
         StepBy(changes)
  PROVE  /\ MarketStep /\ head' = head + 1
         /\ SoundHistory'
         /\ \A e : e = DiffEvent(head, head + 1, changes) => Newest(e)'
         /\ \A e : Newest(e) => Previous(e)'
<1> DEFINE b == ApplyLevels(history[head], changes)
<1>1. head \in Nat /\ history \in [0..head -> Books] /\ Sound(history[head])
  BY HeadTyped DEF SoundHistory
<1>2. changes \in StepChanges(history[head]) /\ history[head] \in Books
  BY <1>1 DEF ChangesOf, OracleBook, Books
<1>3. Sound(b) /\ b \in Books /\ changes \in LevelMaps
  BY <1>1, <1>2, StepKeepsSound DEF Sound
<1>4. /\ head' = head + 1
      /\ history' = [n \in 0..head + 1 |-> IF n = head + 1 THEN b ELSE history[n]]
  BY DEF StepBy, OracleBook
<1>5. MarketStep
  BY <1>3, <1>4 DEF MarketStep
<1>6. /\ history'[head + 1] = b
      /\ \A n \in 0..head : history'[n] = history[n]
      /\ \A e : Truthful(e) => Truthful(e)'
  <2> HIDE DEF b
  <2>1. history'[head + 1] = b
    BY <1>1, <1>4
  <2> QED
    BY <1>5, <2>1, MarketKeepsPast DEF IInv
<1>7. SoundHistory'
  <2> SUFFICES ASSUME NEW n \in 0..head' PROVE Sound(history'[n])
    BY DEF SoundHistory
  <2>1. CASE n = head + 1
    BY <1>3, <1>6, <2>1
  <2>2. CASE n # head + 1
    <3>1. n \in 0..head
      BY <1>1, <1>4, <2>2
    <3> QED
      BY <1>6, <3>1 DEF SoundHistory
  <2> QED
    BY <2>1, <2>2
<1>8. ASSUME NEW e, e = DiffEvent(head, head + 1, changes) PROVE Newest(e)'
  <2>1. /\ e \in Event /\ e.prev = head /\ e.final = head + 1 /\ e.levels = changes
        /\ e.prev \in Nat /\ e.final \in Nat
    BY <1>1, <1>3, <1>8 DEF DiffEvent, Event
  <2>2. DOMAIN changes \subseteq Level
    BY <1>3 DEF LevelMaps
  <2>3. \A l \in Level : b[l] = IF l \in DOMAIN changes THEN changes[l] ELSE history[head][l]
    BY DEF ApplyLevels
  <2>4. \A l \in DOMAIN changes : changes[l] = history'[e.final][l]
    BY <1>6, <2>1, <2>2, <2>3
  <2>5. \A l \in Level, n \in e.prev..e.final :
          history'[n][l] # history'[e.final][l] => l \in DOMAIN changes
    <3>1. \A n \in e.prev..e.final : n = head \/ n = head + 1
      BY <1>1, <2>1
    <3> QED
      BY <1>1, <1>6, <2>1, <2>3, <3>1
  <2>6. Touched(e.prev, e.final)' \subseteq DOMAIN e.levels
    BY <2>1, <2>5 DEF Touched
  <2>7. Truthful(e)'
    BY <1>1, <1>4, <2>1, <2>4, <2>6 DEF Truthful
  <2> QED
    BY <1>1, <1>4, <2>1, <2>7 DEF Newest, Genuine
<1>9. ASSUME NEW e, Newest(e) PROVE Previous(e)'
  BY <1>1, <1>4, <1>6, <1>9 DEF Newest, Previous, Genuine
<1> QED
  BY <1>4, <1>5, <1>7, <1>8, <1>9

-----------------------------------------------------------------------------
(* The resync                                                              *)

LEMMA StepEvents ==
  ASSUME NEW events, OfThisStep(events)
  PROVE  /\ Len(events) \in {1, 2} /\ DOMAIN events = 1..Len(events)
         /\ Newest(events[1])
         /\ Len(events) = 2 => events[2] = events[1] \/ Previous(events[2])
<1>1. PICK e : /\ Newest(e)
               /\ \/ events = <<e>>
                  \/ events = <<e, e>>
                  \/ \E h : Previous(h) /\ events = <<e, h>>
  BY DEF OfThisStep
<1>2. CASE events = <<e>> \/ events = <<e, e>>
  BY <1>1, <1>2
<1>3. CASE \E h : Previous(h) /\ events = <<e, h>>
  <2>1. PICK h : Previous(h) /\ events = <<e, h>>
    BY <1>3
  <2> QED
    BY <1>1, <2>1
<1> QED
  BY <1>1, <1>2, <1>3

(* What a snapshot does to the events of one step: only the latest two are *)
(* not stale, whichever of them loads brings the engine to the head, and   *)
(* the replay breaks only on an event that comes twice.                    *)
LEMMA SnapshotLoads ==
  ASSUME IInv, OfThisStep(buffer), NEW n \in 0..head
  PROVE  LET s == SnapshotAt(n)
         IN  /\ FirstStraddles(s) <=> head - 1 <= n
             /\ FirstStraddles(s) => ReplayedId(s) = head
             /\ FirstStraddles(s) /\ Breaks(s) # {} =>
                  /\ n = head - 1 /\ Len(buffer) = 2 /\ buffer[1] = buffer[2]
                  /\ Newest(buffer[Min(Breaks(s))])
<1> DEFINE s == SnapshotAt(n)
           S == Survivors(s)
           B == Breaks(s)
<1>1. head \in Nat /\ n \in Nat /\ n <= head /\ s.id = n
  BY HeadTyped DEF SnapshotAt, SnapshotEvent
<1>2. /\ Len(buffer) \in {1, 2} /\ DOMAIN buffer = 1..Len(buffer)
      /\ Newest(buffer[1])
      /\ Len(buffer) = 2 => buffer[2] = buffer[1] \/ Previous(buffer[2])
  BY StepEvents
<1>3. /\ buffer[1].final = head /\ buffer[1].prev = head - 1
      /\ Len(buffer) = 2 => buffer[2] = buffer[1] \/ buffer[2].final = head - 1
  BY <1>2 DEF Newest, Previous
<1>4. \A i : i \in S <=> i \in 1..Len(buffer) /\ buffer[i].final > n
  BY <1>1, <1>2 DEF Survivors
<1>5. S \subseteq 0..2 /\ S \subseteq Nat
  BY <1>2, <1>4
<1>6. B \subseteq S /\ \A i \in B : \E j \in S : j < i
  BY DEF Breaks
<1> HIDE DEF S, B
<1>7. CASE n = head
  <2>1. S = {}
    BY <1>1, <1>2, <1>3, <1>4, <1>7
  <2> QED
    BY <1>1, <1>6, <1>7, <2>1 DEF FirstStraddles, ReplayedId, S, B
<1>8. CASE n = head - 1
  <2>1. 1 \in S /\ \A i \in S : i = 1 \/ (i = 2 /\ Len(buffer) = 2 /\ buffer[2] = buffer[1])
    <3>1. 1 \in S
      BY <1>1, <1>2, <1>3, <1>4, <1>8
    <3>2. ASSUME NEW i \in S, i # 1 PROVE i = 2 /\ Len(buffer) = 2 /\ buffer[2] = buffer[1]
      <4>1. i = 2 /\ Len(buffer) = 2 /\ buffer[2].final > n
        BY <1>2, <1>4, <3>2
      <4> QED
        BY <1>1, <1>3, <1>8, <4>1
    <3> QED
      BY <3>1, <3>2
  <2>2. Min(S) = 1
    <3>1. Min(S) \in S /\ Min(S) <= 1
      BY <1>5, <2>1, MinIsLeast
    <3> QED
      BY <2>1, <3>1
  <2>3. Max(S) \in S
    <3>1. 2 \in Nat /\ S # {}
      BY <2>1
    <3> QED
      BY <1>5, <3>1, MaxIsGreatest
  <2>4. FirstStraddles(s)
    BY <1>1, <1>3, <1>8, <2>2 DEF FirstStraddles, Straddles, S
  <2>5. ReplayedId(s) = head
    BY <1>3, <2>1, <2>3 DEF ReplayedId, S
  <2>6. ASSUME B # {}
        PROVE  Len(buffer) = 2 /\ buffer[1] = buffer[2] /\ Newest(buffer[Min(B)])
    <3>1. \A i \in B : i = 2 /\ Len(buffer) = 2 /\ buffer[2] = buffer[1]
      BY <1>6, <2>1
    <3>2. Min(B) \in B
      BY <1>5, <1>6, <2>6, MinIsLeast
    <3> QED
      BY <1>2, <3>1, <3>2
  <2> QED
    BY <1>1, <1>8, <2>4, <2>5, <2>6 DEF B
<1>9. CASE n < head - 1
  <2>1. 1 \in S
    BY <1>1, <1>2, <1>3, <1>4, <1>9
  <2>2. Min(S) = 1
    <3>1. Min(S) \in S /\ Min(S) <= 1
      BY <1>5, <2>1, MinIsLeast
    <3> QED
      BY <1>4, <1>2, <3>1
  <2>3. ~ FirstStraddles(s)
    <3>1. ~ Straddles(buffer[1], s)
      BY <1>1, <1>3, <1>9 DEF Straddles
    <3> QED
      BY <2>1, <2>2, <3>1 DEF FirstStraddles, S
  <2> QED
    BY <1>1, <1>9, <2>3
<1> QED
  BY <1>1, <1>7, <1>8, <1>9

(* An engine with nothing in its buffer takes any snapshot as it is.       *)
LEMMA EmptyLoads ==
  ASSUME IInv, buffer = <<>>, NEW n \in 0..head
  PROVE  /\ FirstStraddles(SnapshotAt(n)) /\ Breaks(SnapshotAt(n)) = {}
         /\ ReplayedId(SnapshotAt(n)) = n
<1>1. Survivors(SnapshotAt(n)) = {}
  BY DEF Survivors
<1> QED
  BY <1>1 DEF FirstStraddles, Breaks, ReplayedId, SnapshotAt, SnapshotEvent

-----------------------------------------------------------------------------
(* Every step keeps the invariant, and is one of BookSync's or none        *)

Kept == [Next]_vars /\ SoundHistory' /\ HeldIInv' /\ StepIInv'

(* What the engine's checkpoint and buffer are while it is LIVE.           *)
LEMMA LiveEngine ==
  ASSUME IInv, state = "LIVE"
  PROVE  lastAppliedId \in 0..head /\ buffer = <<>>
BY DEF IInv, TypeOK, LiveBookIsExact, UnsyncedShowsNothing

(* What comes out of the injector when e goes into it.                     *)
LEMMA Injected ==
  ASSUME NEW e, Inject(e)
  PROVE  /\ held' = <<>> \/ (held' = <<e>> /\ pending' = <<>>)
         /\ \/ pending' \in {<<>>, <<e>>, <<e, e>>}
            \/ held # <<>> /\ pending' = <<e, held[1]>>
BY DEF Inject, CompleteSwap, DropInWindow, OpenWindow, DropOne, Duplicate, Reorder, Pass,
       Rolling, Deliveries

LEMMA PollKeeps == SimIInv /\ Poll => Kept
<1> SUFFICES ASSUME SimIInv, Poll PROVE Kept
  OBVIOUS
<1> USE DEF SimIInv
<1>1. /\ pc = "idle" /\ head < MaxId /\ pc' = "applying" /\ gap' = FALSE
      /\ delivered' = (pending' # <<>>) /\ UNCHANGED <<engineVars, oldest, sampled>>
  BY DEF Poll
<1>2. PICK changes \in ChangesOf[OracleBook] :
        StepBy(changes) /\ Inject(DiffEvent(head, head + 1, changes))
  BY DEF Poll
<1>3. PICK u : u = DiffEvent(head, head + 1, changes)
  OBVIOUS
<1>4. /\ MarketStep /\ head' = head + 1 /\ SoundHistory' /\ Newest(u)'
      /\ \A e : Newest(e) => Previous(e)'
  BY <1>1, <1>2, <1>3, MarketSends
<1>5. [Next]_vars
  BY <1>1, <1>4 DEF Market, Next
<1>6. state = "LIVE" /\ sampled \in 0..head /\ oldest \in 0..head
  BY <1>1 DEF StepIInv
<1>7. head \in Nat /\ lastAppliedId \in 0..head
  BY <1>6, HeadTyped, LiveEngine
<1>8. /\ state' = "LIVE" /\ lastAppliedId' = lastAppliedId
      /\ lastAppliedId' < head' /\ sampled' < head'
      /\ sampled' \in 0..head' /\ oldest' \in 0..head'
  BY <1>1, <1>4, <1>6, <1>7 DEF engineVars
<1>9. /\ held' = <<>> \/ (held' = <<u>> /\ pending' = <<>>)
      /\ \/ pending' \in {<<>>, <<u>>, <<u, u>>}
         \/ held # <<>> /\ pending' = <<u, held[1]>>
  BY <1>2, <1>3, Injected
<1>10. held # <<>> => \E h : held = <<h>> /\ Previous(h)' /\ lastAppliedId < head
  BY <1>4 DEF HeldIInv
<1>11. \/ pending' \in {<<>>, <<u>>, <<u, u>>}
       \/ \E h : pending' = <<u, h>> /\ Previous(h)' /\ lastAppliedId < head
  BY <1>9, <1>10
<1>12. pending' # <<>> => OfThisStep(pending)'
  BY <1>4, <1>11 DEF OfThisStep
<1>13. ASSUME NEW e, NEW h, pending' = <<e, h>>, Previous(h)'
       PROVE  lastAppliedId' < head' - 1
  <2>1. CASE pending' = <<u, u>>
    <3>1. h = u
      BY <1>13, <2>1
    <3> QED
      BY <1>4, <1>7, <1>13, <3>1 DEF Newest, Previous
  <2>2. CASE lastAppliedId < head
    BY <1>4, <1>7, <1>8, <2>2
  <2> QED
    BY <1>11, <1>13, <2>1, <2>2
<1>14. Fresh'
  BY <1>1, <1>8, <1>12, <1>13 DEF Fresh
<1>15. HeldIInv'
  BY <1>1, <1>4, <1>8, <1>9 DEF HeldIInv
<1>16. StepIInv'
  BY <1>1, <1>8, <1>14 DEF StepIInv
<1> QED
  BY <1>4, <1>5, <1>15, <1>16 DEF Kept

(* The engine has room for what a step hands to it.                        *)
LEMMA HandedOver ==
  ASSUME IInv, NEW e, Genuine(e), ApplyEvent(e), UNCHANGED exchangeVars,
         Len(buffer) < MaxBuffer
  PROVE  [Next]_vars
<1>1. /\ e \in Event /\ e.prev \in 0..head /\ e.final \in 0..head /\ e.prev <= e.final
      /\ \A l \in DOMAIN e.levels : e.levels[l] = history[e.final][l]
      /\ Touched(e.prev, e.final) \subseteq DOMAIN e.levels
  BY DEF Genuine, Truthful
<1>2. PICK D \in SUBSET Level : e.levels \in [D -> Qty]
  BY <1>1 DEF Event, LevelMaps
<1>3. e = [prev |-> e.prev, final |-> e.final, levels |-> e.levels] /\ DOMAIN e.levels = D
  BY <1>1, <1>2 DEF Event
<1>4. e.levels = [l \in D |-> history[e.final][l]]
  BY <1>1, <1>2
<1>5. e = EventOf(e.prev, e.final, D)
  BY <1>3, <1>4 DEF EventOf, DiffEvent
<1> QED
  BY <1>1, <1>3, <1>5 DEF Deliver, Next

LEMMA ApplyKeeps == SimIInv /\ ApplyNext => Kept
<1> SUFFICES ASSUME SimIInv, ApplyNext PROVE Kept
  OBVIOUS
<1> USE DEF SimIInv
<1>1. /\ pc = "applying" /\ pending # <<>> /\ pending' = Tail(pending)
      /\ UNCHANGED <<exchangeVars, held, oldest, pc, delivered>> /\ UNCHANGED head
  BY DEF ApplyNext, injectorVars, exchangeVars
<1>2. PICK x : x = Head(pending)
  OBVIOUS
<1>3. \/ ApplyInOrder(x) /\ sampled' = x.final /\ UNCHANGED gap
      \/ BufferEvent(x) /\ UNCHANGED <<gap, sampled>>
      \/ DetectGap(x) /\ gap' = TRUE /\ UNCHANGED sampled
  BY <1>2 DEF ApplyNext, Sample
<1>4. /\ \A e : Genuine(e)' <=> Genuine(e)
      /\ \A e : Newest(e)' <=> Newest(e)
      /\ \A e : Previous(e)' <=> Previous(e)
      /\ SoundHistory'
  BY <1>1, EventsStay
<1>5. head \in Nat /\ sampled \in 0..head /\ oldest \in 0..head /\ 2 <= MaxBuffer /\ MaxBuffer \in Nat
  BY HeadTyped, SimulationAssumption, SyncAssumption DEF StepIInv
<1>6. HeldIInv'
  BY <1>1 DEF HeldIInv
(* The first event of the step.                                            *)
<1>7. ASSUME Fresh PROVE Kept
  <2>1. PICK e : /\ Newest(e)
                 /\ \/ pending = <<e>>
                    \/ pending = <<e, e>>
                    \/ \E h : Previous(h) /\ pending = <<e, h>>
    BY <1>1, <1>7 DEF Fresh, OfThisStep
  <2>2. state = "LIVE" /\ ~ gap /\ buffer = <<>> /\ lastAppliedId < head /\ Len(buffer) = 0
    BY <1>7, LiveEngine DEF Fresh
  <2>3. x = e
    BY <1>2, <2>1
  <2>4. e.prev = head - 1 /\ e.final = head /\ Genuine(e)
    BY <2>1 DEF Newest
  <2>5. [Next]_vars
    BY <1>1, <1>3, <1>5, <2>2, <2>3, <2>4, HandedOver DEF ApplyEvent
  <2>6. CASE ApplyInOrder(x) /\ sampled' = x.final /\ UNCHANGED gap
    <3>1. lastAppliedId = head - 1 /\ lastAppliedId' = head /\ state' = "LIVE" /\ sampled' = head
      BY <2>3, <2>4, <2>6 DEF ApplyInOrder, ChainsTo
    <3>2. pending' # <<>> => pending' = <<e>>
      <4>1. CASE \E h : Previous(h) /\ pending = <<e, h>>
        BY <1>5, <1>7, <3>1, <4>1 DEF Fresh
      <4> QED
        BY <1>1, <2>1, <4>1, OnesAndPairs
    <3>3. Applied'
      BY <1>1, <1>4, <2>1, <2>2, <2>6, <3>1, <3>2 DEF Applied
    <3>4. StepIInv'
      BY <1>1, <1>5, <3>1, <3>3 DEF StepIInv
    <3> QED
      BY <1>4, <1>6, <2>5, <3>4 DEF Kept
  <2>7. CASE DetectGap(x) /\ gap' = TRUE /\ UNCHANGED sampled
    <3>1. state' # "LIVE" /\ buffer' = <<e>>
      BY <2>3, <2>7 DEF DetectGap, FallBehind
    <3>2. \/ pending' = <<>> \/ pending' = <<e>>
          \/ \E h : Previous(h) /\ pending' = <<h>>
      BY <1>1, <2>1, OnesAndPairs
    <3>3. Behind'
      BY <1>1, <1>4, <2>1, <2>7, <3>1, <3>2 DEF Behind, OfThisStep
    <3>4. StepIInv'
      BY <1>1, <1>5, <2>7, <3>3 DEF StepIInv
    <3> QED
      BY <1>4, <1>6, <2>5, <3>4 DEF Kept
  <2> QED
    BY <1>3, <2>2, <2>6, <2>7 DEF BufferEvent
(* Its copy, when it has been applied.                                     *)
<1>8. ASSUME Applied PROVE Kept
  <2>1. PICK e : Newest(e) /\ pending = <<e>>
    BY <1>1, <1>8 DEF Applied
  <2>2. state = "LIVE" /\ buffer = <<>> /\ lastAppliedId = head /\ Len(buffer) = 0
    BY <1>8, LiveEngine DEF Applied
  <2>3. x = e /\ pending' = <<>>
    BY <1>1, <1>2, <2>1
  <2>4. e.prev = head - 1 /\ Genuine(e)
    BY <2>1 DEF Newest
  <2>5. DetectGap(x) /\ gap' = TRUE /\ UNCHANGED sampled
    BY <1>3, <1>5, <2>2, <2>3, <2>4 DEF ApplyInOrder, ChainsTo, BufferEvent
  <2>6. [Next]_vars
    BY <1>1, <1>5, <2>2, <2>3, <2>4, <2>5, HandedOver DEF ApplyEvent
  <2>7. state' # "LIVE" /\ buffer' = <<e>>
    BY <2>3, <2>5 DEF DetectGap, FallBehind
  <2>8. Behind'
    BY <1>4, <2>1, <2>3, <2>5, <2>7 DEF Behind, OfThisStep
  <2>9. StepIInv'
    BY <1>1, <1>5, <2>5, <2>8 DEF StepIInv
  <2> QED
    BY <1>4, <1>6, <2>6, <2>9 DEF Kept
(* The second event, when the first did not chain.                         *)
<1>9. ASSUME Behind PROVE Kept
  <2>1. PICK e, h : Newest(e) /\ (h = e \/ Previous(h)) /\ buffer = <<e>> /\ pending = <<h>>
    BY <1>1, <1>9 DEF Behind
  <2>2. x = h /\ pending' = <<>> /\ state # "LIVE" /\ gap /\ Len(buffer) = 1
    BY <1>1, <1>2, <1>9, <2>1 DEF Behind
  <2>3. BufferEvent(x) /\ UNCHANGED <<gap, sampled>>
    BY <1>3, <2>2 DEF ApplyInOrder, DetectGap
  <2>4. Genuine(h)
    BY <2>1 DEF Newest, Previous
  <2>5. [Next]_vars
    BY <1>1, <1>5, <2>2, <2>3, <2>4, HandedOver DEF ApplyEvent
  <2>6. state' = state /\ buffer' = <<e, h>>
    BY <2>1, <2>2, <2>3, OnesAndPairs DEF BufferEvent
  <2>7. Behind'
    BY <1>4, <2>1, <2>2, <2>3, <2>6 DEF Behind, OfThisStep
  <2>8. StepIInv'
    BY <1>1, <1>5, <2>3, <2>7 DEF StepIInv
  <2> QED
    BY <1>4, <1>6, <2>5, <2>8 DEF Kept
<1> QED
  BY <1>1, <1>7, <1>8, <1>9 DEF StepIInv

LEMMA EndKeeps == SimIInv /\ EndStep => Kept
<1> SUFFICES ASSUME SimIInv, EndStep PROVE Kept
  OBVIOUS
<1> USE DEF SimIInv
<1>1. /\ pc = "applying" /\ pending = <<>> /\ pc' = IF gap THEN "syncing" ELSE "idle"
      /\ UNCHANGED <<state, book, lastAppliedId, buffer, head, history>>
      /\ UNCHANGED <<held, oldest, pending, delivered, sampled>>
  BY DEF EndStep, vars, injectorVars
<1>2. [Next]_vars
  BY <1>1 DEF vars
<1>3. /\ \A e : Newest(e)' <=> Newest(e)
      /\ \A e : Previous(e)' <=> Previous(e)
      /\ SoundHistory'
  BY <1>1, EventsStay DEF exchangeVars
<1>4. sampled' \in 0..head' /\ oldest' \in 0..head' /\ (Fresh \/ Applied \/ Behind)
  BY <1>1 DEF StepIInv
<1>5. CASE gap
  <2>1. pc' = "syncing" /\ state # "LIVE" /\ OfThisStep(buffer)
    BY <1>1, <1>4, <1>5 DEF Fresh, Applied, Behind
  <2>2. OfThisStep(buffer)'
    BY <1>1, <1>3, <2>1 DEF OfThisStep
  <2>3. HeldIInv'
    BY <1>1, <2>1 DEF HeldIInv
  <2>4. StepIInv'
    BY <1>1, <1>4, <2>1, <2>2 DEF StepIInv
  <2> QED
    BY <1>2, <1>3, <2>3, <2>4 DEF Kept
<1>6. CASE ~ gap
  <2>1. pc' = "idle" /\ state = "LIVE" /\ (delivered => lastAppliedId = head)
    BY <1>1, <1>4, <1>6 DEF Fresh, Applied, Behind
  <2>2. HeldIInv'
    BY <1>1, <1>3, <2>1 DEF HeldIInv
  <2>3. StepIInv'
    BY <1>1, <1>4, <2>1 DEF StepIInv
  <2> QED
    BY <1>2, <1>3, <2>2, <2>3 DEF Kept
<1> QED
  BY <1>5, <1>6

LEMMA Served == SimIInv => Servable \subseteq 0..head
<1> SUFFICES ASSUME SimIInv PROVE Servable \subseteq 0..head
  OBVIOUS
<1>1. head \in Nat /\ oldest \in 0..head
  BY HeadTyped DEF SimIInv, StepIInv
<1> QED
  BY <1>1 DEF Servable

LEMMA SyncKeeps == SimIInv /\ SyncTry => Kept
<1> SUFFICES ASSUME SimIInv, SyncTry PROVE Kept
  OBVIOUS
<1> USE DEF SimIInv
<1>1. /\ pc = "syncing" /\ UNCHANGED exchangeVars /\ UNCHANGED head
      /\ UNCHANGED <<held, oldest, pending, gap, delivered, sampled>>
  BY DEF SyncTry, exchangeVars, injectorVars
<1>2. PICK n \in Servable :
        \/ LoadAndReplay(SnapshotAt(n)) /\ pc' = "idle"
        \/ /\ RejectStale(SnapshotAt(n)) \/ LoadThenGap(SnapshotAt(n))
           /\ pc' \in {"raised", "syncing"}
  BY DEF SyncTry
<1>3. n \in 0..head
  BY Served
<1> DEFINE s == SnapshotAt(n)
<1>4. [Next]_vars
  BY <1>1, <1>2, <1>3 DEF Next, Resync, LoadSnapshot
<1>5. /\ \A e : Newest(e)' <=> Newest(e)
      /\ \A e : Previous(e)' <=> Previous(e)
      /\ SoundHistory'
  BY <1>1, EventsStay
<1>6. /\ state # "LIVE" /\ pending = <<>> /\ sampled' \in 0..head' /\ oldest' \in 0..head'
      /\ (buffer = <<>> /\ head = 0) \/ OfThisStep(buffer)
  BY <1>1 DEF StepIInv
<1>7. HeldIInv'
  BY <1>1, <1>6 DEF HeldIInv
<1>8. CASE LoadAndReplay(s) /\ pc' = "idle"
  <2>1. ReplayedId(s) = head
    <3>1. CASE buffer = <<>> /\ head = 0
      BY <1>3, <3>1, EmptyLoads
    <3>2. CASE OfThisStep(buffer)
      BY <1>3, <1>8, <3>2, SnapshotLoads DEF LoadAndReplay
    <3> QED
      BY <1>6, <3>1, <3>2
  <2>2. state' = "LIVE" /\ lastAppliedId' = head
    BY <1>8, <2>1 DEF LoadAndReplay
  <2>3. StepIInv'
    BY <1>1, <1>6, <1>8, <2>2 DEF StepIInv
  <2> QED
    BY <1>4, <1>5, <1>7, <2>3 DEF Kept
<1>9. CASE RejectStale(s) /\ pc' \in {"raised", "syncing"}
  <2>1. UNCHANGED <<state, buffer>>
    BY <1>9 DEF RejectStale, engineVars
  <2>2. (buffer' = <<>> /\ head' = 0) \/ OfThisStep(buffer)'
    BY <1>1, <1>5, <1>6, <2>1 DEF OfThisStep
  <2>3. StepIInv'
    BY <1>1, <1>6, <1>9, <2>1, <2>2 DEF StepIInv
  <2> QED
    BY <1>4, <1>5, <1>7, <2>3 DEF Kept
<1>10. CASE LoadThenGap(s) /\ pc' \in {"raised", "syncing"}
  <2>1. Breaks(s) # {} /\ FirstStraddles(s) /\ state' = "RESYNCING" /\ buffer' = <<buffer[Min(Breaks(s))]>>
    BY <1>10 DEF LoadThenGap, FallBehind
  <2>2. OfThisStep(buffer)
    BY <1>3, <1>6, <2>1, EmptyLoads
  <2>3. Newest(buffer[Min(Breaks(s))])
    BY <1>3, <2>1, <2>2, SnapshotLoads
  <2>4. OfThisStep(buffer)'
    BY <1>5, <2>1, <2>3 DEF OfThisStep
  <2>5. StepIInv'
    BY <1>1, <1>6, <1>10, <2>1, <2>4 DEF StepIInv
  <2> QED
    BY <1>4, <1>5, <1>7, <2>5 DEF Kept
<1> QED
  BY <1>2, <1>8, <1>9, <1>10

LEMMA TailKeeps == SimIInv /\ StartTail => Kept
<1> SUFFICES ASSUME SimIInv, StartTail PROVE Kept
  OBVIOUS
<1> USE DEF SimIInv
<1>1. /\ pc = "idle" /\ held' = <<>> /\ oldest' = head
      /\ UNCHANGED <<state, book, lastAppliedId, buffer, head, history>>
      /\ UNCHANGED <<pending, gap, delivered, sampled>>
      /\ pc' = IF state = "LIVE" THEN "idle" ELSE "syncing"
  BY DEF StartTail, vars
<1>2. [Next]_vars /\ SoundHistory'
  BY <1>1, EventsStay DEF vars, exchangeVars
<1>3. head \in Nat
  BY HeadTyped
<1> QED
  BY <1>1, <1>2, <1>3 DEF Kept, HeldIInv, StepIInv

LEMMA StutterKeeps == SimIInv /\ UNCHANGED simVars => Kept
<1> SUFFICES ASSUME SimIInv, UNCHANGED simVars PROVE Kept
  OBVIOUS
<1> USE DEF SimIInv
<1>1. /\ UNCHANGED vars /\ UNCHANGED exchangeVars
      /\ UNCHANGED <<state, lastAppliedId, buffer, head, held, oldest>>
      /\ UNCHANGED <<pc, pending, gap, delivered, sampled>>
  BY DEF simVars, vars, exchangeVars, injectorVars, driverVars
<1>2. /\ \A e : Newest(e)' <=> Newest(e)
      /\ \A e : Previous(e)' <=> Previous(e)
      /\ SoundHistory'
  BY <1>1, EventsStay
<1>3. \A events : OfThisStep(events)' <=> OfThisStep(events)
  BY <1>2 DEF OfThisStep
<1>4. HeldIInv'
  BY <1>1, <1>2 DEF HeldIInv
<1>5. (Fresh' <=> Fresh) /\ (Applied' <=> Applied) /\ (Behind' <=> Behind)
  BY <1>1, <1>2, <1>3 DEF Fresh, Applied, Behind
<1>6. StepIInv'
  BY <1>1, <1>3, <1>5 DEF StepIInv
<1> QED
  BY <1>1, <1>2, <1>4, <1>6 DEF Kept

LEMMA NextKeeps == SimIInv /\ [SimNext]_simVars => Kept
BY PollKeeps, ApplyKeeps, EndKeeps, SyncKeeps, TailKeeps, StutterKeeps DEF SimNext

LEMMA NextSim == SimIInv /\ [SimNext]_simVars => SimIInv'
BY NextKeeps, NextIInv DEF Kept, SimIInv

LEMMA InitSim == SimInit => Init /\ SimIInv
<1> SUFFICES ASSUME SimInit PROVE Init /\ SimIInv
  OBVIOUS
<1>1. head = 0 /\ history \in [{0} -> Books] /\ Sound(history[0])
  BY SeedIsSound DEF SimInit
<1>2. Init /\ IInv
  BY <1>1, InitIInv DEF SimInit, Init, ExchangeInit
<1>3. SoundHistory
  BY <1>1 DEF SoundHistory
<1>4. HeldIInv /\ StepIInv
  BY <1>1 DEF SimInit, EngineInit, HeldIInv, StepIInv
<1> QED
  BY <1>2, <1>3, <1>4 DEF SimIInv

-----------------------------------------------------------------------------
(* Theorems                                                                *)

(* Market, injector and driver do to the engine what BookSync allows, and  *)
(* nothing else (driver.py:70-97, faults.py:87-184, market.py:66-93).      *)
THEOREM SimulationImplementsBookSync == SimSpec => ImplementsBookSync
<1>1. SimInit => Init
  BY InitSim
<1>2. SimIInv /\ [SimNext]_simVars => [Next]_vars
  BY NextKeeps DEF Kept
<1> QED
  BY <1>1, <1>2, InitSim, NextSim, PTL DEF SimSpec, ImplementsBookSync, Spec

(* So the book the simulation tests is exact whenever it is LIVE, under    *)
(* every mixture of faults.                                                *)
THEOREM SimulatedBookExact == SimSpec => []LiveBookIsExact
BY SimulationImplementsBookSync, LiveBookExact, PTL DEF ImplementsBookSync

(* However inserts and deletes follow each other, with every price, depth  *)
(* and spread, the market never crosses (market.py:57-63, 79).             *)
THEOREM MarketNeverCrosses == SimSpec => []NeverCrosses
<1>1. SimIInv => NeverCrosses
  BY BestPrices DEF SimIInv, SoundHistory, NeverCrosses
<1> QED
  BY <1>1, InitSim, NextSim, PTL DEF SimSpec

(* A run_step that returns has converged on what it was given, under every *)
(* mixture of faults (driver.py:70-97).                                    *)
THEOREM RunStepConverges == SimSpec => []DeliveryConverges
<1>1. SimIInv => DeliveryConverges
  BY DEF SimIInv, IInv, StepIInv, LiveBookIsExact, DeliveryConverges, Converged, OracleBook
<1> QED
  BY <1>1, InitSim, NextSim, PTL DEF SimSpec

(* Only a run of delayed snapshots can use up the driver's tries: the      *)
(* latest one always loads (driver.py:83-97, faults.py:165-184).           *)
THEOREM LatestSnapshotLoads == SimSpec => []RecentSnapshotsLoad
<1>1. SimIInv => RecentSnapshotsLoad
  <2> SUFFICES ASSUME SimIInv, pc = "syncing", NEW n \in Servable
               PROVE  /\ head - n <= 1 => FirstStraddles(SnapshotAt(n))
                      /\ \/ n = head
                         \/ n = head - 1 /\ ~ (Len(buffer) = 2 /\ buffer[1] = buffer[2])
                         => Breaks(SnapshotAt(n)) = {} /\ ReplayedId(SnapshotAt(n)) = head
    BY DEF RecentSnapshotsLoad
  <2>1. n \in 0..head /\ head \in Nat /\ IInv
    BY Served, HeadTyped DEF SimIInv
  <2>2. CASE buffer = <<>> /\ head = 0
    BY <2>1, <2>2, EmptyLoads
  <2>3. CASE OfThisStep(buffer)
    BY <2>1, <2>3, SnapshotLoads
  <2> QED
    BY <2>2, <2>3 DEF SimIInv, StepIInv
<1> QED
  BY <1>1, InitSim, NextSim, PTL DEF SimSpec

(* No update is measured or becomes a row twice, or behind a later one     *)
(* (driver.py:74-79, stress_replay.py:107-118).                            *)
THEOREM UpdatesSampledOnce == SimSpec => SampledOnce
<1>1. SimIInv /\ [SimNext]_simVars =>
        [pc = "applying" /\ pending # <<>> /\ state = "LIVE" /\ state' = "LIVE"
           => sampled' > sampled]_simVars
  <2> SUFFICES ASSUME SimIInv, SimNext, pc = "applying", pending # <<>>,
                      state = "LIVE", state' = "LIVE"
               PROVE  sampled' > sampled
    OBVIOUS
  <2>1. ApplyNext
    BY DEF SimNext, Poll, EndStep, SyncTry, StartTail
  <2>2. PICK x : x = Head(pending)
    OBVIOUS
  <2>3. ApplyInOrder(x) /\ sampled' = x.final
    BY <2>1, <2>2 DEF ApplyNext, BufferEvent, DetectGap, FallBehind, Sample
  <2>4. head \in Nat /\ sampled \in 0..head /\ (Fresh \/ Applied)
    BY HeadTyped DEF SimIInv, StepIInv, Behind
  <2>5. CASE Fresh
    <3>1. x.final = head
      <4>1. PICK e : Newest(e) /\ (pending = <<e>> \/ pending = <<e, e>>
                                     \/ \E h : pending = <<e, h>>)
        BY <2>5 DEF Fresh, OfThisStep
      <4>2. x = e
        BY <2>2, <4>1
      <4> QED
        BY <4>1, <4>2 DEF Newest
    <3> QED
      BY <2>3, <2>4, <2>5, <3>1 DEF Fresh
  <2>6. CASE Applied
    <3>1. x.prev = head - 1 /\ lastAppliedId = head
      <4>1. PICK e : Newest(e) /\ pending = <<e>>
        BY <2>6 DEF Applied
      <4>2. x = e
        BY <2>2, <4>1
      <4> QED
        BY <2>6, <4>1, <4>2 DEF Newest, Applied
    <3>2. x.prev = lastAppliedId
      BY <2>3 DEF ApplyInOrder, ChainsTo
    <3> QED
      BY <2>4, <3>1, <3>2
  <2> QED
    BY <2>4, <2>5, <2>6
<1> QED
  BY <1>1, InitSim, NextSim, PTL DEF SimSpec, SampledOnce

-----------------------------------------------------------------------------
(* Types                                                                   *)

LongestWindow == Max({DisconnectMaxLen, DropBurstMaxLen})

(* A resync that goes on has a try left.                                   *)
CountIInv ==
  /\ config \in {Faults, {}}
  /\ window \in 0..LongestWindow
  /\ pc \in DriverStates
  /\ tries \in 0..RetryLimit
  /\ pc = "syncing" => tries < RetryLimit

FlagIInv == gap \in BOOLEAN /\ delivered \in BOOLEAN

LEMMA WindowBounds ==
  /\ LongestWindow \in Nat \ {0} /\ RetryLimit \in Nat \ {0}
  /\ \A maxLen \in {DisconnectMaxLen, DropBurstMaxLen} :
       \A length \in 1..maxLen : length - 1 \in 0..LongestWindow
<1>1. DisconnectMaxLen \in Nat \ {0} /\ DropBurstMaxLen \in Nat \ {0} /\ RetryLimit \in Nat \ {0}
  BY SimulationAssumption
<1>2. /\ LongestWindow \in {DisconnectMaxLen, DropBurstMaxLen}
      /\ DisconnectMaxLen <= LongestWindow /\ DropBurstMaxLen <= LongestWindow
  BY <1>1, MaxOfTwo DEF LongestWindow
<1> HIDE DEF LongestWindow
<1> QED
  BY <1>1, <1>2

LEMMA InitCount == SimInit => CountIInv /\ FlagIInv
<1>1. 0 \in 0..LongestWindow /\ 0 \in 0..RetryLimit /\ 0 < RetryLimit
  BY WindowBounds
<1>2. SimInit => CountIInv
  BY <1>1 DEF SimInit, CountIInv, DriverStates
<1>3. SimInit => FlagIInv
  BY DEF SimInit, FlagIInv
<1> QED
  BY <1>2, <1>3

LEMMA NextCount == CountIInv /\ [SimNext]_simVars => CountIInv'
<1> SUFFICES ASSUME CountIInv, [SimNext]_simVars PROVE CountIInv'
  OBVIOUS
<1> USE DEF CountIInv, DriverStates
<1> HIDE DEF LongestWindow
<1>1. LongestWindow \in Nat /\ RetryLimit \in Nat \ {0}
  BY WindowBounds
<1>2. CASE Poll
  <2>1. PICK e : Inject(e)
    BY <1>2 DEF Poll
  <2>2. window' \in 0..LongestWindow
    <3>1. CASE OpenWindow("disconnect", DisconnectMaxLen) \/ OpenWindow("drop_burst", DropBurstMaxLen)
      BY <3>1, WindowBounds DEF OpenWindow
    <3>2. CASE DropInWindow
      BY <1>1, <3>2 DEF DropInWindow
    <3>3. CASE CompleteSwap(e) \/ DropOne \/ Duplicate(e) \/ Reorder(e) \/ Pass(e)
      BY <3>3 DEF CompleteSwap, DropOne, Duplicate, Reorder, Pass
    <3> QED
      BY <2>1, <3>1, <3>2, <3>3 DEF Inject
  <2> QED
    BY <1>2, <2>2 DEF Poll
<1>3. CASE ApplyNext
  BY <1>3 DEF ApplyNext, injectorVars
<1>4. CASE EndStep
  BY <1>1, <1>4 DEF EndStep, injectorVars
<1>5. CASE SyncTry
  <2>1. /\ pc = "syncing" /\ UNCHANGED <<config, window>>
        /\ \/ pc' = "idle" /\ tries' = tries
           \/ tries' = tries + 1 /\ pc' = IF tries' = RetryLimit THEN "raised" ELSE "syncing"
    BY <1>5 DEF SyncTry, injectorVars, OutOfTries
  <2> QED
    BY <1>1, <2>1
<1>6. CASE StartTail
  BY <1>1, <1>6 DEF StartTail
<1>7. CASE UNCHANGED simVars
  BY <1>7 DEF simVars, injectorVars, driverVars
<1> QED
  BY <1>2, <1>3, <1>4, <1>5, <1>6, <1>7 DEF SimNext

LEMMA NextFlags == FlagIInv /\ [SimNext]_simVars => FlagIInv'
<1> SUFFICES ASSUME FlagIInv, [SimNext]_simVars PROVE FlagIInv'
  OBVIOUS
<1> USE DEF FlagIInv
<1>1. CASE Poll
  BY <1>1 DEF Poll
<1>2. CASE ApplyNext
  BY <1>2 DEF ApplyNext
<1>3. CASE EndStep
  BY <1>3 DEF EndStep
<1>4. CASE SyncTry
  BY <1>4 DEF SyncTry
<1>5. CASE StartTail
  BY <1>5 DEF StartTail
<1>6. CASE UNCHANGED simVars
  BY <1>6 DEF simVars, driverVars
<1> QED
  BY <1>1, <1>2, <1>3, <1>4, <1>5, <1>6 DEF SimNext

(* What the injector holds back and what the driver has still to apply are *)
(* at most one and two events, all of them truthful.                       *)
LEMMA InHand ==
  ASSUME SimIInv, CountIInv
  PROVE  /\ \A i \in DOMAIN held : Truthful(held[i])
         /\ \A i \in DOMAIN pending : Truthful(pending[i])
         /\ Len(held) <= 1 /\ Len(pending) <= 2
<1>1. held # <<>> => \E e : held = <<e>> /\ Newest(e)
  BY DEF SimIInv, HeldIInv
<1>2. (\A i \in DOMAIN held : Truthful(held[i])) /\ Len(held) <= 1
  <2>1. CASE held = <<>>
    BY <2>1
  <2>2. ASSUME NEW e, held = <<e>>, Newest(e)
        PROVE  (\A i \in DOMAIN held : Truthful(held[i])) /\ Len(held) <= 1
    BY <2>2 DEF Newest, Genuine
  <2> QED
    BY <1>1, <2>1, <2>2
<1>3. \/ pending = <<>>
      \/ OfThisStep(pending)
      \/ \E e : (Newest(e) \/ Previous(e)) /\ pending = <<e>>
  BY DEF SimIInv, CountIInv, DriverStates, StepIInv, Fresh, Applied, Behind
<1>4. (\A i \in DOMAIN pending : Truthful(pending[i])) /\ Len(pending) <= 2
  <2>1. CASE OfThisStep(pending)
    <3>1. /\ Len(pending) \in {1, 2} /\ DOMAIN pending = 1..Len(pending)
          /\ Truthful(pending[1])
          /\ Len(pending) = 2 => Truthful(pending[2])
      BY <2>1, StepEvents DEF Newest, Previous, Genuine
    <3>2. \A i \in DOMAIN pending : i = 1 \/ (i = 2 /\ Len(pending) = 2)
      BY <3>1
    <3> QED
      BY <3>1, <3>2
  <2>2. CASE \E e : (Newest(e) \/ Previous(e)) /\ pending = <<e>>
    BY <2>2 DEF Newest, Previous, Genuine
  <2> QED
    BY <1>3, <2>1, <2>2
<1> QED
  BY <1>2, <1>4

(* The simulation's variables have their types, and every event in flight  *)
(* is one the market sent.                                                 *)
THEOREM SimTypeCorrect == SimSpec => []SimTypeOK
<1>1. SimIInv /\ CountIInv /\ FlagIInv => SimTypeOK
  <2> SUFFICES ASSUME SimIInv, CountIInv, FlagIInv PROVE SimTypeOK
    OBVIOUS
  <2>1. TypeOK /\ oldest \in 0..head /\ sampled \in 0..head
    BY DEF SimIInv, IInv, StepIInv
  <2>2. {gap, delivered} \subseteq BOOLEAN
    BY DEF FlagIInv
  <2>3. /\ config \in {Faults, {}} /\ window \in 0..Max({DisconnectMaxLen, DropBurstMaxLen})
        /\ pc \in DriverStates /\ tries \in 0..RetryLimit
    BY DEF CountIInv, LongestWindow
  <2> QED
    BY <2>1, <2>2, <2>3, InHand DEF SimTypeOK
<1> QED
  BY <1>1, InitSim, NextSim, InitCount, NextCount, NextFlags, PTL DEF SimSpec
=============================================================================
