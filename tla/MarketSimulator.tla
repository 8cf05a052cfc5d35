---------------------------- MODULE MarketSimulator ----------------------------
(***************************************************************************)
(* The ground truth of the simulation (simulation/market.py): a book that  *)
(* changes by one or two levels with every update id and never crosses.    *)
(* It is the exchange of BookSync with the choice of its next book spelled *)
(* out.                                                                    *)
(*                                                                         *)
(* Abstraction.  A price is a number of ticks, a level is a side and a     *)
(* price, and what random.Random draws is any value it could have drawn.   *)
(* As no ask is quoted above MaxPrice and no bid below one tick, no bid    *)
(* gets to MaxPrice and no ask to the first tick.                          *)
(***************************************************************************)
EXTENDS BookSync

CONSTANTS
  MaxPrice,       \* bound: the highest price an ask is quoted at
  Mid,            \* _INITIAL_MID
  InitialLevels,  \* _INITIAL_LEVELS_PER_SIDE
  MinLevels,      \* _MIN_LEVELS_PER_SIDE
  Reach,          \* how far behind the best price an insert may fall
  SpreadMin       \* spread_min

ASSUME MarketAssumption ==
  /\ {MaxPrice, Mid, InitialLevels, MinLevels, Reach, SpreadMin} \subseteq Nat \ {0}
  /\ InitialLevels < Mid /\ Mid + InitialLevels <= MaxPrice
  /\ Level = ({"bid"} \X (1..MaxPrice - 1)) \cup ({"ask"} \X (2..MaxPrice))

Prices(b, side) == {p \in 1..MaxPrice : <<side, p>> \in Level /\ b[<<side, p>>] # 0}

BestBid(b) == IF Prices(b, "bid") = {} THEN Mid - 1 ELSE Max(Prices(b, "bid"))
BestAsk(b) == IF Prices(b, "ask") = {} THEN Mid + 1 ELSE Min(Prices(b, "ask"))

(* What assert_converged compares a book with.                             *)
OracleBook == history[head]

SeedBook ==
  /\ head = 0
  /\ \E q \in [Level -> Qty \ {0}] :
       history = [n \in {0} |->
         [l \in Level |->
            IF \/ l[1] = "bid" /\ l[2] \in (Mid - InitialLevels)..(Mid - 1)
               \/ l[1] = "ask" /\ l[2] \in (Mid + 1)..(Mid + InitialLevels)
            THEN q[l] ELSE 0]]

-----------------------------------------------------------------------------
(* An insert lands up to Reach behind its side's best price or one tick    *)
(* ahead of it, and is held SpreadMin away from the other side's best.     *)
InsertPrices(b, side) ==
  IF side = "bid"
  THEN {Max({Min({BestBid(b) + o, BestAsk(b) - SpreadMin}), 1}) : o \in (- Reach)..1}
  ELSE {Max({BestAsk(b) + o, BestBid(b) + SpreadMin}) : o \in (- 1)..Reach} \cap (1..MaxPrice)

SetLevel(side, p, q) == [l \in {<<side, p>>} |-> q]

(* The changes to the bids and those to the asks, in one event.            *)
Together(c, d) ==
  [l \in DOMAIN c \cup DOMAIN d |-> IF l \in DOMAIN c THEN c[l] ELSE d[l]]

(* One change to a side: a level is inserted, overwritten or, where the    *)
(* side has more than the least number of levels, deleted.                 *)
SideChanges(b, side) ==
  LET quoted == Prices(b, side)
      deletable == IF Cardinality(quoted) > MinLevels THEN quoted ELSE {}
  IN  {SetLevel(side, p, q) : p \in quoted \cup InsertPrices(b, side), q \in Qty \ {0}}
        \cup {SetLevel(side, p, 0) : p \in deletable}

(* Mutant: both sides look at the book as it was before the step (H1).     *)
StepChangesBatched(b) ==
  LET bids == SideChanges(b, "bid")
      asks == SideChanges(b, "ask")
  IN  bids \cup asks \cup {Together(c, d) : c \in bids, d \in asks}

(* A step changes one side, or the bids and then, with the new bids in     *)
(* place, the asks.                                                        *)
StepChanges(b) ==
  LET bids == SideChanges(b, "bid")
  IN  bids \cup SideChanges(b, "ask")
        \cup UNION {{Together(c, d) : d \in SideChanges(ApplyLevels(b, c), "ask")} : c \in bids}

(* The same as a function, which TLC works out once for every book.        *)
ChangesOf == [b \in [Level -> Qty] |-> StepChanges(b)]

(* Mutant: the changes are sent, and never applied to the market's book.   *)
StepByForgetting(changes) ==
  /\ head' = head + 1
  /\ history' = [n \in 0..head + 1 |-> IF n = head + 1 THEN OracleBook ELSE history[n]]

StepBy(changes) ==
  /\ head' = head + 1
  /\ history' = [n \in 0..head + 1 |->
                   IF n = head + 1 THEN ApplyLevels(OracleBook, changes) ELSE history[n]]

-----------------------------------------------------------------------------
(* market.py:57-63, 79: however inserts and deletes on the two sides       *)
(* follow each other, the market's best bid stays below its best ask.      *)
NeverCrosses == \A n \in 0..head : BestBid(history[n]) < BestAsk(history[n])
=============================================================================
