----------------------------- MODULE BookEngine -----------------------------
(***************************************************************************)
(* The pure order book engine (book/engine.py, book/types.py).             *)
(*                                                                         *)
(* A BookEngine object keeps a price ladder, a checkpoint and a buffer of  *)
(* events, and has three operations that change them: apply_event,         *)
(* load_snapshot and invalidate.  None of them awaits, so under asyncio    *)
(* each is one atomic step whichever coroutine calls it; each is an action *)
(* here, split into one disjunct per result the method returns.            *)
(*                                                                         *)
(* Abstraction.  The code keeps two dicts, price -> quantity, and treats   *)
(* them alike; here a Level is a (side, price) pair and the ladder is one  *)
(* function on levels in which quantity 0 stands for "no entry", which is  *)
(* what apply_levels makes of a zero quantity.  Exchange messages list a   *)
(* level at most once, so the levels of an event are a function too.       *)
(***************************************************************************)
EXTENDS Integers, Sequences, FiniteSets, FiniteSetsExt

CONSTANTS
  Level,    \* the price levels, bids and asks together
  Qty,      \* the quantities, with 0 among them
  NoId      \* the checkpoint of an engine that has none (None in the code)

ASSUME EngineAssumption == /\ 0 \in Qty
                           /\ NoId \notin Int

VARIABLES
  state,           \* "BUFFERING", "RESYNCING" or "LIVE"
  book,            \* quantity at every level, 0 where the ladder has none
  lastAppliedId,   \* exchange update id the book stands at, or NoId
  buffer           \* the events held back while not LIVE, oldest first

engineVars == <<state, book, lastAppliedId, buffer>>

-----------------------------------------------------------------------------
BookStates == {"BUFFERING", "RESYNCING", "LIVE"}
Books      == [Level -> Qty]
EmptyBook  == [l \in Level |-> 0]

(* The levels a message lists, each with its quantity.                     *)
LevelMaps == UNION {[D -> Qty] : D \in SUBSET Level}

(* A diff event moves the book from checkpoint prev to checkpoint final.   *)
DiffEvent(prev, final, levels) == [prev |-> prev, final |-> final, levels |-> levels]
Event == [prev : Nat, final : Nat, levels : LevelMaps]

(* A snapshot is the whole ladder at one checkpoint.                       *)
SnapshotEvent(id, levels) == [id |-> id, levels |-> levels]

(* Mutant: a zero quantity is skipped where it should remove the level.    *)
ApplyLevelsKeepZero(side, levels) ==
  [l \in Level |-> IF l \in DOMAIN levels /\ levels[l] # 0 THEN levels[l] ELSE side[l]]

(* Quantities are absolute, never deltas: the ones listed overwrite.       *)
ApplyLevels(side, levels) ==
  [l \in Level |-> IF l \in DOMAIN levels THEN levels[l] ELSE side[l]]

(* Mutant: an event that overlaps the checkpoint is let through.           *)
ChainsLoosely(id, e) == e.prev <= id

(* The steady-state sequencing check: the event starts at the checkpoint.  *)
ChainsTo(id, e) == e.prev = id

(* The boundary check on the first event after a snapshot.                 *)
Straddles(e, s) == e.prev <= s.id /\ s.id < e.final

-----------------------------------------------------------------------------
EngineInit ==
  /\ state = "BUFFERING"
  /\ book = EmptyBook
  /\ lastAppliedId = NoId
  /\ buffer = <<>>

(* apply_event                                                             *)

BufferEvent(e) ==
  /\ state # "LIVE"
  /\ buffer' = Append(buffer, e)
  /\ UNCHANGED <<state, book, lastAppliedId>>

ApplyInOrder(e) ==
  /\ state = "LIVE"
  /\ ChainsTo(lastAppliedId, e)
  /\ book' = ApplyLevels(book, e.levels)
  /\ lastAppliedId' = e.final
  /\ UNCHANGED <<state, buffer>>

(* Mutant: the ladder is left standing when the book falls behind.         *)
FallBehindStanding(e) ==
  /\ state' = "RESYNCING"
  /\ buffer' = <<e>>
  /\ lastAppliedId' = NoId
  /\ UNCHANGED book

(* The ladder and the checkpoint are dropped and e, the event that did not *)
(* chain, becomes the first event of a new buffer.                         *)
FallBehind(e) ==
  /\ state' = "RESYNCING"
  /\ book' = EmptyBook
  /\ lastAppliedId' = NoId
  /\ buffer' = <<e>>

DetectGap(e) ==
  /\ state = "LIVE"
  /\ ~ ChainsTo(lastAppliedId, e)
  /\ FallBehind(e)

ApplyEvent(e) == BufferEvent(e) \/ ApplyInOrder(e) \/ DetectGap(e)

-----------------------------------------------------------------------------
(* load_snapshot.  The code filters the buffer into a list of survivors    *)
(* and walks it; here the survivors are the set of their places in the     *)
(* buffer, and what the walk computes is said of that set.                 *)

(* Mutant: the event the snapshot stands at is kept as well.               *)
SurvivorsFrom(s) == {i \in DOMAIN buffer : buffer[i].final >= s.id}

Survivors(s) == {i \in DOMAIN buffer : buffer[i].final > s.id}

FirstStraddles(s) ==
  Survivors(s) # {} => Straddles(buffer[Min(Survivors(s))], s)

(* The survivor walked just before survivor i.                             *)
SurvivorBefore(s, i) == Max({j \in Survivors(s) : j < i})

(* The places where the walk would find that an event does not chain.  The *)
(* first survivor is exempt: the straddle check has already admitted it.   *)
Breaks(s) ==
  {i \in Survivors(s) : /\ \E j \in Survivors(s) : j < i
                         /\ ~ ChainsTo(buffer[SurvivorBefore(s, i)].final, buffer[i])}

(* The ladder after the walk: at each level the last survivor to list it   *)
(* wins, and the snapshot stands where none does.                          *)
Listing(s, l) == {i \in Survivors(s) : l \in DOMAIN buffer[i].levels}

(* Mutant: the first survivor to list a level wins.                        *)
ReplayedBackwards(s) ==
  [l \in Level |-> IF Listing(s, l) = {} THEN s.levels[l]
                   ELSE buffer[Min(Listing(s, l))].levels[l]]

Replayed(s) ==
  [l \in Level |-> IF Listing(s, l) = {} THEN s.levels[l]
                   ELSE buffer[Max(Listing(s, l))].levels[l]]

(* Mutant: the id expected next, where the id applied last belongs.        *)
ReplayedIdNext(s) ==
  IF Survivors(s) = {} THEN s.id + 1 ELSE buffer[Max(Survivors(s))].final

ReplayedId(s) ==
  IF Survivors(s) = {} THEN s.id ELSE buffer[Max(Survivors(s))].final

RejectStale(s) ==
  /\ state # "LIVE"
  /\ ~ FirstStraddles(s)
  /\ UNCHANGED engineVars

LoadAndReplay(s) ==
  /\ state # "LIVE"
  /\ FirstStraddles(s)
  /\ Breaks(s) = {}
  /\ state' = "LIVE"
  /\ book' = Replayed(s)
  /\ lastAppliedId' = ReplayedId(s)
  /\ buffer' = <<>>

(* The snapshot was accepted, but a later survivor does not chain: the     *)
(* walk stops there, and the survivors behind it are not kept.             *)
LoadThenGap(s) ==
  /\ state # "LIVE"
  /\ FirstStraddles(s)
  /\ Breaks(s) # {}
  /\ FallBehind(buffer[Min(Breaks(s))])

(* Called while LIVE, the method raises ValueError and changes nothing.    *)
RefuseWhileLive == state = "LIVE" /\ UNCHANGED engineVars

LoadSnapshot(s) == RejectStale(s) \/ LoadAndReplay(s) \/ LoadThenGap(s)

-----------------------------------------------------------------------------
(* Mutant: invalidate starts the engine over, as a new one.                *)
InvalidateAsNew == state' = "BUFFERING" /\ book' = EmptyBook
                   /\ lastAppliedId' = NoId /\ buffer' = <<>>

(* invalidate: a cold start stays a cold start.                            *)
Invalidate ==
  /\ state' = IF state = "BUFFERING" THEN "BUFFERING" ELSE "RESYNCING"
  /\ book' = EmptyBook
  /\ lastAppliedId' = NoId
  /\ buffer' = <<>>
=============================================================================
