--------------------------- MODULE BookSyncProofs ---------------------------
(***************************************************************************)
(* Proofs about BookSync, for every set of levels and quantities and every *)
(* bound: the book of a LIVE engine is exact, and the engine implements    *)
(* MirrorBook.  The steps that take thought are the two ways a book is     *)
(* built: one event applied on top of another book (ApplyIsExact), and a   *)
(* buffer replayed on top of a snapshot (ReplayIsExact), where the events  *)
(* are gone through by looking at the first one that would go wrong.       *)
(***************************************************************************)
EXTENDS BookReplay, DataFacts, TLAPS

-----------------------------------------------------------------------------
(* What a truthful event says                                              *)

(* An event overwrites the levels it lists with their quantity at its      *)
(* final id, and leaves alone only levels that did not change.             *)
LEMMA EventTells ==
  ASSUME NEW e, Truthful(e), NEW l \in Level
  PROVE  /\ l \in DOMAIN e.levels => e.levels[l] = history[e.final][l]
         /\ l \notin DOMAIN e.levels =>
              \A n \in e.prev..e.final : history[n][l] = history[e.final][l]
BY DEF Truthful, Touched

(* Applied to the book of any id it spans, not just of the one it starts   *)
(* from, an event gives the book of its final id.                          *)
LEMMA ApplyIsExact ==
  ASSUME TypeOK, NEW e, Truthful(e), NEW n \in e.prev..e.final
  PROVE  ApplyLevels(history[n], e.levels) = history[e.final]
<1>1. e.final \in 0..head /\ history[e.final] \in [Level -> Qty]
  BY DEF Truthful, TypeOK, Books
<1>2. ASSUME NEW l \in Level
      PROVE  ApplyLevels(history[n], e.levels)[l] = history[e.final][l]
  BY <1>2, EventTells DEF ApplyLevels
<1> QED
  BY <1>1, <1>2 DEF ApplyLevels

-----------------------------------------------------------------------------
(* Replaying the buffer on a snapshot                                      *)

(* A replay works on events of the buffer, all of them truthful.           *)
LEMMA SurvivorsTyped ==
  ASSUME TypeOK, NEW s
  PROVE  /\ Survivors(s) \subseteq 1..Len(buffer)
         /\ Survivors(s) \subseteq Nat
         /\ Len(buffer) \in Nat
         /\ \A i \in Survivors(s) : Truthful(buffer[i])
BY DEF Survivors, TypeOK

(* The ladder once the survivors up to the k-th event have been applied.   *)
ListedBy(s, l, k) == {i \in Listing(s, l) : i <= k}

ReplayedTo(s, k) ==
  [l \in Level |-> IF ListedBy(s, l, k) = {} THEN s.levels[l]
                   ELSE buffer[Max(ListedBy(s, l, k))].levels[l]]

(* Applying survivor k to the ladder as it was before it, at level l.      *)
LEMMA ReplayStep ==
  ASSUME TypeOK, NEW s, NEW k \in Survivors(s), NEW l \in Level
  PROVE  /\ l \in DOMAIN buffer[k].levels =>
              ReplayedTo(s, k)[l] = buffer[k].levels[l]
         /\ l \notin DOMAIN buffer[k].levels =>
              ReplayedTo(s, k)[l] =
                IF ListedBy(s, l, k - 1) = {} THEN s.levels[l]
                ELSE buffer[Max(ListedBy(s, l, k - 1))].levels[l]
<1> DEFINE L == ListedBy(s, l, k)
<1>1. /\ k \in 0..Len(buffer) /\ L \subseteq 0..Len(buffer) /\ Len(buffer) \in Nat
      /\ Truthful(buffer[k])
  BY SurvivorsTyped DEF ListedBy, Listing
<1>2. CASE l \in DOMAIN buffer[k].levels
  <2>1. k \in L
    BY <1>1, <1>2 DEF ListedBy, Listing
  <2>2. Max(L) \in L /\ \A y \in L : y <= Max(L)
    BY <1>1, <2>1, MaxIsGreatest
  <2>3. Max(L) = k
    <3>1. \A y \in L : y <= k
      BY DEF ListedBy
    <3>2. Max(L) <= k /\ k <= Max(L) /\ Max(L) \in Int /\ k \in Int
      BY <1>1, <2>1, <2>2, <3>1
    <3> QED
      BY <3>2
  <2> QED
    <3>1. ReplayedTo(s, k)[l] = IF L = {} THEN s.levels[l] ELSE buffer[Max(L)].levels[l]
      BY DEF ReplayedTo
    <3> HIDE DEF L
    <3> QED
      BY <1>2, <2>1, <2>3, <3>1
<1>3. CASE l \notin DOMAIN buffer[k].levels
  <2>1. k \notin L
    BY <1>3 DEF ListedBy, Listing
  <2>2. L = ListedBy(s, l, k - 1)
    <3>1. ASSUME NEW i \in Listing(s, l)
          PROVE  i <= k <=> i <= k - 1
      <4>1. i \in Nat /\ k \in Nat
        BY SurvivorsTyped DEF Listing
      <4>2. i # k
        BY <1>3 DEF Listing
      <4> QED
        BY <4>1, <4>2
    <3> QED
      BY <3>1 DEF ListedBy
  <2> QED
    BY <1>3, <2>2 DEF ReplayedTo
<1> QED
  BY <1>2, <1>3

(* The first survivor straddles the snapshot: the ladder after it is exact.*)
LEMMA FirstIsExact ==
  ASSUME TypeOK, NEW n \in 0..head, Survivors(SnapshotAt(n)) # {},
         FirstStraddles(SnapshotAt(n)), NEW l \in Level
  PROVE  LET s == SnapshotAt(n)
             k == Min(Survivors(s))
         IN  ReplayedTo(s, k)[l] = history[buffer[k].final][l]
<1> DEFINE s == SnapshotAt(n)
           k == Min(Survivors(s))
<1>1. k \in Survivors(s) /\ \A y \in Survivors(s) : k <= y
  BY SurvivorsTyped, MinIsLeast
<1>2. k \in Nat /\ Survivors(s) \subseteq Nat /\ Truthful(buffer[k])
  BY <1>1, SurvivorsTyped
<1>3. ListedBy(s, l, k - 1) = {}
  BY <1>1, <1>2 DEF ListedBy, Listing
<1>4. n \in buffer[k].prev..buffer[k].final
  <2>1. Straddles(buffer[k], s)
    BY DEF FirstStraddles
  <2>2. buffer[k].prev \in Int /\ buffer[k].final \in Int /\ n \in Int
    BY <1>2 DEF Truthful
  <2> QED
    BY <2>1, <2>2 DEF Straddles, SnapshotAt, SnapshotEvent
<1>5. s.levels[l] = history[n][l]
  BY DEF SnapshotAt, SnapshotEvent
<1> QED
  BY <1>1, <1>2, <1>3, <1>4, <1>5, ReplayStep, EventTells

(* A later survivor starts where the one before it ended: if the ladder    *)
(* was exact after that one, it is after this one.                         *)
LEMMA LaterIsExact ==
  ASSUME TypeOK, NEW n \in 0..head, Breaks(SnapshotAt(n)) = {},
         NEW k \in Survivors(SnapshotAt(n)),
         \E j \in Survivors(SnapshotAt(n)) : j < k,
         NEW l \in Level,
         LET s == SnapshotAt(n)
             j == SurvivorBefore(s, k)
         IN  ReplayedTo(s, j)[l] = history[buffer[j].final][l]
  PROVE  ReplayedTo(SnapshotAt(n), k)[l] = history[buffer[k].final][l]
<1> DEFINE s == SnapshotAt(n)
           B == {j \in Survivors(s) : j < k}
           j == SurvivorBefore(s, k)
<1>1. /\ Survivors(s) \subseteq 1..Len(buffer) /\ Survivors(s) \subseteq Nat
      /\ Len(buffer) \in Nat /\ Truthful(buffer[k])
  BY SurvivorsTyped
<1>2. j \in B /\ \A y \in B : y <= j
  <2>1. B \subseteq 0..Len(buffer) /\ B # {}
    BY <1>1
  <2> QED
    BY <1>1, <2>1, MaxIsGreatest DEF SurvivorBefore
<1>3. ListedBy(s, l, k - 1) = ListedBy(s, l, j)
  <2>1. ASSUME NEW i \in Listing(s, l)
        PROVE  i <= k - 1 <=> i <= j
    <3>1. i \in Survivors(s) /\ i \in Nat /\ k \in Nat /\ j \in Nat
      BY <1>1, <1>2 DEF Listing
    <3> QED
      BY <1>2, <3>1
  <2> QED
    BY <2>1 DEF ListedBy
<1>4. buffer[k].prev = buffer[j].final
  BY DEF Breaks, ChainsTo
<1>5. buffer[k].prev \in buffer[k].prev..buffer[k].final
  BY <1>1 DEF Truthful
<1>6. CASE l \in DOMAIN buffer[k].levels
  BY <1>1, <1>6, ReplayStep, EventTells
<1>7. CASE l \notin DOMAIN buffer[k].levels
  <2>1. ReplayedTo(s, k)[l] = ReplayedTo(s, j)[l]
    BY <1>3, <1>7, ReplayStep DEF ReplayedTo
  <2> QED
    BY <1>1, <1>4, <1>5, <1>7, <2>1, EventTells
<1> QED
  BY <1>6, <1>7

(* A replay that meets no break is exact after every survivor: there is no *)
(* first survivor after which it is not.                                   *)
LEMMA EverySurvivorIsExact ==
  ASSUME TypeOK, NEW n \in 0..head, FirstStraddles(SnapshotAt(n)),
         Breaks(SnapshotAt(n)) = {}, NEW l \in Level
  PROVE  \A k \in Survivors(SnapshotAt(n)) :
           ReplayedTo(SnapshotAt(n), k)[l] = history[buffer[k].final][l]
<1> DEFINE s == SnapshotAt(n)
           Wrong == {k \in Survivors(s) :
                       ReplayedTo(s, k)[l] # history[buffer[k].final][l]}
<1>1. SUFFICES ASSUME Wrong # {}
               PROVE  FALSE
  OBVIOUS
<1>2. /\ Survivors(s) \subseteq 1..Len(buffer) /\ Survivors(s) \subseteq Nat
      /\ Len(buffer) \in Nat
  BY SurvivorsTyped
<1>3. PICK k \in Wrong : \A y \in Wrong : k <= y
  BY <1>1, <1>2, NatLeast
<1>4. CASE \E j \in Survivors(s) : j < k
  <2> DEFINE B == {j \in Survivors(s) : j < k}
             j == SurvivorBefore(s, k)
  <2>1. j \in B
    <3>1. B \subseteq 0..Len(buffer) /\ B # {}
      BY <1>2, <1>4
    <3> QED
      BY <1>2, <3>1, MaxIsGreatest DEF SurvivorBefore
  <2>2. j \notin Wrong
    BY <1>2, <1>3, <2>1
  <2>3. ReplayedTo(s, j)[l] = history[buffer[j].final][l]
    BY <2>1, <2>2
  <2> QED
    BY <1>3, <1>4, <2>3, LaterIsExact
<1>5. CASE ~ \E j \in Survivors(s) : j < k
  <2>1. Min(Survivors(s)) \in Survivors(s) /\ Min(Survivors(s)) <= k
    BY <1>2, <1>3, MinIsLeast
  <2>2. Min(Survivors(s)) = k
    BY <1>2, <1>3, <1>5, <2>1
  <2> QED
    BY <1>3, <2>2, FirstIsExact
<1> QED
  BY <1>4, <1>5

(* The whole replay: the ladder load_snapshot ends up with is the book of  *)
(* the checkpoint it ends up with, which is no older than the snapshot.    *)
LEMMA ReplayIsExact ==
  ASSUME TypeOK, NEW n \in 0..head, FirstStraddles(SnapshotAt(n)),
         Breaks(SnapshotAt(n)) = {}
  PROVE  /\ ReplayedId(SnapshotAt(n)) \in n..head
         /\ Replayed(SnapshotAt(n)) = history[ReplayedId(SnapshotAt(n))]
<1> DEFINE s == SnapshotAt(n)
           k == Max(Survivors(s))
<1>0. head \in Nat /\ history \in [0..head -> [Level -> Qty]] /\ s.id = n
      /\ s.levels = history[n]
  BY DEF TypeOK, Books, SnapshotAt, SnapshotEvent
<1>1. CASE Survivors(s) = {}
  <2>1. \A l \in Level : Listing(s, l) = {}
    BY <1>1 DEF Listing
  <2> QED
    BY <1>0, <1>1, <2>1 DEF Replayed, ReplayedId
<1>2. CASE Survivors(s) # {}
  <2>1. Survivors(s) \subseteq 0..Len(buffer) /\ Len(buffer) \in Nat
    BY SurvivorsTyped
  <2>2. k \in Survivors(s) /\ \A y \in Survivors(s) : y <= k
    BY <1>2, <2>1, MaxIsGreatest
  <2>3. buffer[k].final \in 0..head /\ buffer[k].final > n
    BY <1>0, <2>2, SurvivorsTyped DEF Survivors, Truthful
  <2>4. ASSUME NEW l \in Level
        PROVE  Replayed(s)[l] = history[buffer[k].final][l]
    <3>1. Listing(s, l) = ListedBy(s, l, k)
      BY <2>2 DEF Listing, ListedBy
    <3>2. Replayed(s)[l] = ReplayedTo(s, k)[l]
      BY <3>1 DEF Replayed, ReplayedTo
    <3> QED
      BY <2>2, <3>2, EverySurvivorIsExact
  <2>5. Replayed(s) = history[buffer[k].final]
    BY <1>0, <2>3, <2>4 DEF Replayed
  <2> QED
    BY <1>0, <1>2, <2>3, <2>5 DEF ReplayedId
<1> QED
  BY <1>1, <1>2

-----------------------------------------------------------------------------
(* The inductive invariant                                                 *)

(* LiveBookIsExact needs to know that what is buffered is truthful         *)
(* (TypeOK), for a replay to be exact.                                     *)
IInv == TypeOK /\ LiveBookIsExact /\ UnsyncedShowsNothing

LEMMA InitIInv == Init => IInv
<1> SUFFICES ASSUME Init PROVE IInv
  OBVIOUS
<1>1. head = 0 /\ 0..head = {0} /\ head \in 0..MaxId
  BY SyncAssumption DEF Init, ExchangeInit
<1>2. book \in Books /\ lastAppliedId = NoId /\ buffer = <<>> /\ state = "BUFFERING"
      /\ book = EmptyBook
  BY EngineAssumption DEF Init, EngineInit, Books, EmptyBook
<1>3. TypeOK
  BY <1>1, <1>2 DEF TypeOK, Init, ExchangeInit, BookStates
<1> QED
  BY <1>2, <1>3 DEF IInv, LiveBookIsExact, UnsyncedShowsNothing

(* The past does not change: what was truthful stays so.                   *)
LEMMA MarketKeepsPast ==
  ASSUME TypeOK, MarketStep
  PROVE  /\ head' \in 0..MaxId /\ head' = head + 1 /\ head \in Nat
         /\ history' \in [0..head' -> Books]
         /\ \A n \in 0..head : history'[n] = history[n]
         /\ \A e : Truthful(e) => Truthful(e)'
<1>1. head' \in 0..MaxId /\ head' = head + 1 /\ head \in Nat
  BY SyncAssumption DEF TypeOK, MarketStep
<1>2. PICK b \in Books :
        history' = [n \in 0..head + 1 |-> IF n = head + 1 THEN b ELSE history[n]]
  BY DEF MarketStep
<1>3. history' \in [0..head' -> Books]
  <2>1. \A n \in 0..head + 1 : n = head + 1 \/ n \in 0..head
    BY <1>1
  <2>2. history \in [0..head -> Books]
    BY DEF TypeOK
  <2> QED
    BY <1>1, <1>2, <2>1, <2>2
<1>4. \A n \in 0..head : history'[n] = history[n]
  BY <1>1, <1>2
<1>5. ASSUME NEW e, Truthful(e)
      PROVE  Truthful(e)'
  <2>1. e.prev \in 0..head /\ e.final \in 0..head /\ e.prev <= e.final
    BY <1>5 DEF Truthful
  <2>2. \A n \in e.prev..e.final : n \in 0..head
    BY <1>1, <2>1
  <2>3. Touched(e.prev, e.final)' = Touched(e.prev, e.final)
    BY <1>4, <2>1, <2>2 DEF Touched
  <2> QED
    BY <1>1, <1>4, <1>5, <2>1, <2>3 DEF Truthful
<1> QED
  BY <1>1, <1>3, <1>4, <1>5

LEMMA MarketIInv == IInv /\ Market => IInv'
<1> SUFFICES ASSUME IInv, Market PROVE IInv'
  OBVIOUS
<1> USE DEF IInv
<1>1. MarketStep /\ UNCHANGED <<state, book, lastAppliedId, buffer>>
  BY DEF Market, engineVars
<1>2. TypeOK'
  <2>1. \A i \in DOMAIN buffer : Truthful(buffer[i])'
    BY <1>1, MarketKeepsPast DEF TypeOK
  <2>2. lastAppliedId' \in (0..head') \cup {NoId}
    BY <1>1, MarketKeepsPast DEF TypeOK
  <2> QED
    BY <1>1, <2>1, <2>2, MarketKeepsPast DEF TypeOK, Truthful
<1>3. LiveBookIsExact'
  BY <1>1, MarketKeepsPast DEF LiveBookIsExact, TypeOK
<1>4. UnsyncedShowsNothing'
  BY <1>1 DEF UnsyncedShowsNothing
<1> QED
  BY <1>2, <1>3, <1>4

(* The events Deliver hands to the engine are truthful ones.               *)
LEMMA EventOfTruthful ==
  ASSUME TypeOK, NEW p \in 0..head, NEW f \in 0..head, p <= f,
         NEW D \in SUBSET Level, Touched(p, f) \subseteq D
  PROVE  Truthful(EventOf(p, f, D)) /\ EventOf(p, f, D) \in Event
<1>1. history[f] \in [Level -> Qty] /\ p \in Nat /\ f \in Nat
  BY DEF TypeOK, Books
<1>2. [l \in D |-> history[f][l]] \in LevelMaps
  BY <1>1 DEF LevelMaps
<1> QED
  BY <1>1, <1>2 DEF EventOf, DiffEvent, Event, Truthful

(* Losing sync leaves nothing to be wrong.                                 *)
LEMMA FallBehindIInv ==
  ASSUME TypeOK, NEW e \in Event, Truthful(e), FallBehind(e), UNCHANGED exchangeVars
  PROVE  IInv'
<1>1. book' \in Books /\ buffer' \in Seq(Event) /\ \A i \in DOMAIN buffer' : buffer'[i] = e
  BY EngineAssumption DEF FallBehind, Books, EmptyBook
<1>2. Truthful(e)'
  BY DEF Truthful, Touched, exchangeVars
<1>3. TypeOK'
  BY <1>1, <1>2 DEF TypeOK, FallBehind, BookStates, exchangeVars, Truthful
<1> QED
  BY <1>3 DEF IInv, FallBehind, LiveBookIsExact, UnsyncedShowsNothing

LEMMA ApplyEventIInv ==
  ASSUME IInv, NEW e \in Event, Truthful(e), ApplyEvent(e), UNCHANGED exchangeVars
  PROVE  IInv'
<1> USE DEF IInv
<1>1. CASE BufferEvent(e)
  <2>1. \A x : Truthful(x)' <=> Truthful(x)
    BY DEF Truthful, Touched, exchangeVars
  <2>2. buffer' \in Seq(Event) /\ \A i \in DOMAIN buffer' : Truthful(buffer'[i])
    BY <1>1 DEF BufferEvent, TypeOK
  <2>3. TypeOK'
    BY <1>1, <2>1, <2>2 DEF BufferEvent, TypeOK, exchangeVars
  <2> QED
    BY <1>1, <2>3 DEF BufferEvent, LiveBookIsExact, UnsyncedShowsNothing, exchangeVars
<1>2. CASE ApplyInOrder(e)
  <2>1. e.prev = lastAppliedId /\ book = history[lastAppliedId]
    BY <1>2 DEF ApplyInOrder, ChainsTo, LiveBookIsExact
  <2>2. e.prev \in e.prev..e.final /\ e.final \in 0..head /\ e.final # NoId
    BY EngineAssumption DEF Truthful
  <2>3. book' = history[e.final]
    BY <1>2, <2>1, <2>2, ApplyIsExact DEF ApplyInOrder
  <2>4. book' \in Books
    BY <2>2, <2>3 DEF TypeOK
  <2>5. \A x : Truthful(x)' <=> Truthful(x)
    BY DEF Truthful, Touched, exchangeVars
  <2>6. TypeOK'
    BY <1>2, <2>2, <2>4, <2>5 DEF ApplyInOrder, TypeOK, exchangeVars
  <2> QED
    BY <1>2, <2>2, <2>3, <2>6
    DEF ApplyInOrder, LiveBookIsExact, UnsyncedShowsNothing, exchangeVars
<1>3. CASE DetectGap(e)
  BY <1>3, FallBehindIInv DEF DetectGap
<1> QED
  BY <1>1, <1>2, <1>3 DEF ApplyEvent

LEMMA LoadSnapshotIInv ==
  ASSUME IInv, NEW n \in 0..head, LoadSnapshot(SnapshotAt(n)), UNCHANGED exchangeVars
  PROVE  IInv'
<1> USE DEF IInv
<1> DEFINE s == SnapshotAt(n)
<1>1. CASE RejectStale(s)
  <2>1. \A x : Truthful(x)' <=> Truthful(x)
    BY DEF Truthful, Touched, exchangeVars
  <2> QED
    BY <1>1, <2>1 DEF RejectStale, engineVars, exchangeVars, TypeOK, LiveBookIsExact,
                      UnsyncedShowsNothing
<1>2. CASE LoadAndReplay(s)
  <2>1. ReplayedId(s) \in n..head /\ Replayed(s) = history[ReplayedId(s)]
    BY <1>2, ReplayIsExact DEF LoadAndReplay
  <2>2. ReplayedId(s) \in 0..head /\ ReplayedId(s) # NoId
    BY <2>1, EngineAssumption DEF TypeOK
  <2>3. TypeOK'
    BY <1>2, <2>1, <2>2 DEF LoadAndReplay, TypeOK, BookStates, exchangeVars
  <2> QED
    BY <1>2, <2>1, <2>2, <2>3
    DEF LoadAndReplay, LiveBookIsExact, UnsyncedShowsNothing, exchangeVars
<1>3. CASE LoadThenGap(s)
  <2>1. Breaks(s) \subseteq Nat /\ Breaks(s) # {} /\ Breaks(s) \subseteq DOMAIN buffer
    BY <1>3, SurvivorsTyped DEF LoadThenGap, Breaks, Survivors
  <2>2. Min(Breaks(s)) \in DOMAIN buffer
    BY <2>1, MinIsLeast
  <2>3. buffer[Min(Breaks(s))] \in Event /\ Truthful(buffer[Min(Breaks(s))])
    BY <2>2 DEF TypeOK
  <2> QED
    BY <1>3, <2>3, FallBehindIInv DEF LoadThenGap
<1> QED
  BY <1>1, <1>2, <1>3 DEF LoadSnapshot

LEMMA ReconnectIInv == IInv /\ Reconnect => IInv'
<1> SUFFICES ASSUME IInv, Reconnect PROVE IInv'
  OBVIOUS
<1>1. book' \in Books /\ state' \in {"BUFFERING", "RESYNCING"}
  BY EngineAssumption DEF Reconnect, Invalidate, Books, EmptyBook
<1>2. TypeOK'
  BY <1>1 DEF IInv, TypeOK, Reconnect, Invalidate, BookStates, exchangeVars
<1> QED
  BY <1>1, <1>2 DEF IInv, Reconnect, Invalidate, LiveBookIsExact, UnsyncedShowsNothing

LEMMA NextIInv == IInv /\ [Next]_vars => IInv'
<1> SUFFICES ASSUME IInv, [Next]_vars PROVE IInv'
  OBVIOUS
<1>1. CASE Market
  BY <1>1, MarketIInv
<1>2. CASE Deliver
  <2>1. PICK p \in 0..head, f \in 0..head, D \in SUBSET Level :
          p <= f /\ Touched(p, f) \subseteq D /\ ApplyEvent(EventOf(p, f, D))
    BY <1>2 DEF Deliver
  <2>2. Truthful(EventOf(p, f, D)) /\ EventOf(p, f, D) \in Event
    BY <2>1, EventOfTruthful DEF IInv
  <2> QED
    BY <1>2, <2>1, <2>2, ApplyEventIInv DEF Deliver
<1>3. CASE Resync
  BY <1>3, LoadSnapshotIInv DEF Resync
<1>4. CASE Reconnect
  BY <1>4, ReconnectIInv
<1>5. CASE UNCHANGED vars
  <2>1. \A x : Truthful(x)' <=> Truthful(x)
    BY <1>5 DEF Truthful, Touched, vars
  <2> QED
    BY <1>5, <2>1 DEF vars, IInv, TypeOK, LiveBookIsExact, UnsyncedShowsNothing
<1> QED
  BY <1>1, <1>2, <1>3, <1>4, <1>5 DEF Next

(* The variables have their types and the buffer is truthful, always.      *)
THEOREM TypeCorrect == Spec => []TypeOK
<1>1. IInv => TypeOK
  BY DEF IInv
<1> QED
  BY <1>1, InitIInv, NextIInv, PTL DEF Spec

(* The book of a LIVE engine is the exchange's at the checkpoint, whatever *)
(* sequence of truthful messages, snapshots and reconnects it went through.*)
THEOREM LiveBookExact == Spec => []LiveBookIsExact
<1>1. IInv => LiveBookIsExact
  BY DEF IInv
<1> QED
  BY <1>1, InitIInv, NextIInv, PTL DEF Spec

(* An engine out of sync shows an empty ladder; one in sync holds nothing. *)
THEOREM UnsyncedEmpty == Spec => []UnsyncedShowsNothing
<1>1. IInv => UnsyncedShowsNothing
  BY DEF IInv
<1> QED
  BY <1>1, InitIInv, NextIInv, PTL DEF Spec

(* BUFFERING is the state of a first connection only: no step leads back   *)
(* to it.                                                                  *)
THEOREM NoSecondColdStart == Spec => ColdStartOnlyOnce
<1>1. [Next]_vars => (state # "BUFFERING" => state' # "BUFFERING")
  <2> SUFFICES ASSUME [Next]_vars, state # "BUFFERING" PROVE state' # "BUFFERING"
    OBVIOUS
  <2>1. ASSUME NEW e, ApplyEvent(e) PROVE state' # "BUFFERING"
    BY <2>1 DEF ApplyEvent, BufferEvent, ApplyInOrder, DetectGap, FallBehind
  <2>2. ASSUME NEW s, LoadSnapshot(s) PROVE state' # "BUFFERING"
    BY <2>2 DEF LoadSnapshot, RejectStale, LoadAndReplay, LoadThenGap, FallBehind, engineVars
  <2> QED
    BY <2>1, <2>2 DEF Next, Market, Deliver, Resync, Reconnect, Invalidate, engineVars, vars
<1>2. [][Next]_vars => ColdStartOnlyOnce
  <2>1. [Next]_vars => [state # "BUFFERING" => state' # "BUFFERING"]_vars
    BY <1>1
  <2> QED
    BY <2>1, PTL DEF ColdStartOnlyOnce
<1> QED
  BY <1>2, PTL DEF Spec

-----------------------------------------------------------------------------
(* The sync procedure cannot fail on an unbroken buffer                    *)

(* Along an unbroken buffer the events' final ids never decrease.          *)
LEMMA InOrderMonotone ==
  ASSUME TypeOK, BufferInOrder, NEW i \in 1..Len(buffer)
  PROVE  \A j \in i..Len(buffer) : buffer[i].final <= buffer[j].final
<1> DEFINE Lower == {j \in i..Len(buffer) : buffer[j].final < buffer[i].final}
<1>0. /\ Len(buffer) \in Nat /\ DOMAIN buffer = 1..Len(buffer)
      /\ \A j \in 1..Len(buffer) : Truthful(buffer[j])
  BY DEF TypeOK
<1>1. \A j \in 1..Len(buffer) : /\ buffer[j].final \in Nat /\ buffer[j].prev \in Nat
                                /\ buffer[j].prev <= buffer[j].final
  BY <1>0 DEF Truthful
<1>2. SUFFICES ASSUME Lower # {} PROVE FALSE
  BY <1>0, <1>1
<1>3. PICK j \in Lower : \A y \in Lower : j <= y
  <2>1. Lower \subseteq Nat
    BY <1>0
  <2> HIDE DEF Lower
  <2> QED
    BY <1>2, <2>1, NatLeast
<1>4. j # i /\ j - 1 \in i..Len(buffer) /\ j - 1 \in 1..Len(buffer) - 1
  BY <1>0, <1>1, <1>3
<1>5. buffer[j].prev = buffer[j - 1].final
  BY <1>0, <1>3, <1>4 DEF BufferInOrder
<1>6. j - 1 \notin Lower
  BY <1>0, <1>3
<1> QED
  BY <1>0, <1>1, <1>3, <1>4, <1>5, <1>6

(* Hence the survivors of an unbroken buffer are its tail.                 *)
LEMMA SurvivorsAreTail ==
  ASSUME TypeOK, BufferInOrder, NEW n \in 0..head, NEW i \in Survivors(SnapshotAt(n))
  PROVE  i..Len(buffer) \subseteq Survivors(SnapshotAt(n))
<1>0. /\ Len(buffer) \in Nat /\ DOMAIN buffer = 1..Len(buffer)
      /\ \A j \in 1..Len(buffer) : buffer[j].final \in Nat
  BY DEF TypeOK, Truthful
<1>1. i \in 1..Len(buffer) /\ buffer[i].final > n /\ n \in Int
  BY <1>0 DEF Survivors, SnapshotAt, SnapshotEvent
<1>2. ASSUME NEW j \in i..Len(buffer)
      PROVE  j \in Survivors(SnapshotAt(n))
  <2>1. j \in 1..Len(buffer) /\ buffer[i].final <= buffer[j].final
    BY <1>0, <1>1, InOrderMonotone
  <2> QED
    BY <1>0, <1>1, <2>1 DEF Survivors, SnapshotAt, SnapshotEvent
<1> QED
  BY <1>2

(* On a connection that loses nothing the sync procedure cannot fail: the  *)
(* snapshot is accepted and every buffered event that follows it replayed. *)
LEMMA InOrderReplay == TypeOK => InOrderBufferReplays
<1> SUFFICES ASSUME TypeOK, buffer # <<>>, BufferInOrder, NEW n \in buffer[1].prev..head
             PROVE  LET s == SnapshotAt(n)
                    IN  /\ FirstStraddles(s)
                        /\ Breaks(s) = {}
                        /\ ReplayedId(s) = Max({n, buffer[Len(buffer)].final})
  BY DEF InOrderBufferReplays
<1> DEFINE s == SnapshotAt(n)
           last == Len(buffer)
           S == Survivors(s)
<1>0. /\ last \in 1..last /\ DOMAIN buffer = 1..last
      /\ \A j \in 1..last : /\ buffer[j].final \in 0..head /\ buffer[j].prev \in 0..head
                            /\ buffer[j].prev <= buffer[j].final
  <2>1. last \in Nat /\ last # 0 /\ DOMAIN buffer = 1..last
    BY DEF TypeOK
  <2> QED
    BY <2>1 DEF TypeOK, Truthful
<1>1. n \in 0..head /\ head \in Nat /\ s.id = n /\ buffer[1].prev <= n
  BY <1>0 DEF TypeOK, SnapshotAt, SnapshotEvent
<1>2. S \subseteq 1..last /\ S \subseteq 0..last /\ S \subseteq Nat /\ last \in Nat
  BY SurvivorsTyped
<1>3. \A i \in 1..last : i \notin S => buffer[i].final <= n
  BY <1>0, <1>1 DEF Survivors
<1>4. \A i \in S : buffer[i].final > n
  BY <1>1 DEF Survivors
<1>5. FirstStraddles(s)
  <2> SUFFICES ASSUME S # {} PROVE Straddles(buffer[Min(S)], s)
    BY DEF FirstStraddles
  <2>1. PICK k \in S : k = Min(S) /\ \A y \in S : k <= y
    BY <1>2, MinIsLeast
  <2>2. buffer[k].prev <= n
    <3>1. CASE k = 1
      BY <1>1, <3>1
    <3>2. CASE k # 1
      <4>1. k - 1 \in 1..last /\ k - 1 \notin S /\ k - 1 \in 1..last - 1
        BY <1>2, <2>1, <3>2
      <4>2. buffer[k].prev = buffer[k - 1].final
        BY <1>2, <4>1 DEF BufferInOrder
      <4> QED
        BY <1>3, <4>1, <4>2
    <3> QED
      BY <3>1, <3>2
  <2> QED
    BY <1>1, <1>4, <2>1, <2>2 DEF Straddles
<1>6. Breaks(s) = {}
  <2> SUFFICES ASSUME NEW i \in S, NEW j \in S, j < i
               PROVE  ChainsTo(buffer[SurvivorBefore(s, i)].final, buffer[i])
    BY DEF Breaks
  <2> DEFINE B == {h \in S : h < i}
  <2>1. i - 1 \in B /\ B \subseteq 0..last
    <3>1. i - 1 \in j..last /\ i - 1 < i
      BY <1>2
    <3> QED
      BY <1>1, <1>2, <3>1, SurvivorsAreTail
  <2>2. Max(B) \in B /\ i - 1 <= Max(B)
    BY <1>2, <2>1, MaxIsGreatest
  <2>3. Max(B) = i - 1
    BY <1>2, <2>2
  <2>4. i - 1 \in 1..last - 1
    BY <1>2, <2>1
  <2>5. buffer[i].prev = buffer[i - 1].final
    BY <1>2, <2>4 DEF BufferInOrder
  <2> QED
    BY <2>3, <2>5 DEF SurvivorBefore, ChainsTo
<1>7. ReplayedId(s) = Max({n, buffer[last].final})
  <2> DEFINE f == buffer[last].final
             P == {n, f}
  <2>1. Max(P) \in P /\ n <= Max(P) /\ f <= Max(P)
    <3>1. P \subseteq 0..head /\ P # {}
      BY <1>0, <1>1
    <3> QED
      BY <1>1, <3>1, MaxIsGreatest
  <2>2. CASE S = {}
    <3>1. f <= n
      BY <1>0, <1>3, <2>2
    <3>2. Max(P) = n
      BY <1>0, <1>1, <2>1, <3>1
    <3> QED
      BY <1>1, <2>2, <3>2 DEF ReplayedId
  <2>3. CASE S # {}
    <3>1. last \in S
      <4>1. PICK i \in S : TRUE
        BY <2>3
      <4>2. last \in i..last
        BY <1>2
      <4> QED
        BY <1>1, <4>2, SurvivorsAreTail
    <3>2. Max(S) \in S /\ last <= Max(S)
      BY <1>2, <3>1, MaxIsGreatest
    <3>3. Max(S) = last
      BY <1>2, <3>2
    <3>4. f > n
      BY <1>4, <3>1
    <3>5. Max(P) = f
      BY <1>0, <1>1, <2>1, <3>4
    <3> QED
      BY <2>3, <3>3, <3>5 DEF ReplayedId
  <2> QED
    BY <2>2, <2>3
<1> QED
  BY <1>5, <1>6, <1>7

(* On a connection that loses nothing the sync procedure cannot fail, for  *)
(* a buffer of any length and a snapshot taken anywhere along it.          *)
THEOREM InOrderAlwaysReplays == Spec => []InOrderBufferReplays
BY TypeCorrect, InOrderReplay, PTL

-----------------------------------------------------------------------------
(* Refinement                                                              *)

(* A step of the engine is a step of the reader's mirror, or none.         *)
LEMMA StepRefines ==
  IInv /\ [Next]_vars => [Mirror!MirrorNext]_(Mirror!mirrorVars)
<1> SUFFICES ASSUME IInv, [Next]_vars
             PROVE  [Mirror!MirrorNext]_(Mirror!mirrorVars)
  OBVIOUS
<1> USE DEF Mirror!mirrorVars, Mirror!MirrorNext
<1>0. UNCHANGED exchangeVars => UNCHANGED <<head, history>>
  BY DEF exchangeVars
<1>1. CASE Market
  BY <1>1 DEF Market, MarketStep, engineVars, Books, Mirror!ExchangeMoves
<1>2. ASSUME lastAppliedId' = NoId, book' = EmptyBook, UNCHANGED exchangeVars
      PROVE  Mirror!LoseSync
  BY <1>2 DEF EmptyBook, exchangeVars, Mirror!LoseSync, Mirror!Nothing
<1>3. CASE Deliver
  <2>1. PICK p \in 0..head, f \in 0..head, D \in SUBSET Level :
          p <= f /\ Touched(p, f) \subseteq D /\ ApplyEvent(EventOf(p, f, D))
    BY <1>3 DEF Deliver
  <2> DEFINE e == EventOf(p, f, D)
  <2>2. e.prev = p /\ e.final = f /\ Truthful(e)
    BY <2>1, EventOfTruthful DEF IInv, EventOf, DiffEvent
  <2>3. CASE BufferEvent(e)
    BY <1>0, <1>3, <2>3 DEF Deliver, BufferEvent
  <2>4. CASE ApplyInOrder(e)
    <3>1. lastAppliedId = p /\ p # NoId /\ book = history[p]
      BY <2>2, <2>4 DEF ApplyInOrder, ChainsTo, IInv, LiveBookIsExact
    <3>2. p \in p..f
      BY <2>1
    <3>3. book' = history[f] /\ lastAppliedId' = f
      BY <2>2, <2>4, <3>1, <3>2, ApplyIsExact DEF ApplyInOrder, IInv
    <3> QED
      BY <1>0, <1>3, <2>1, <3>1, <3>3 DEF Deliver, Mirror!Advance, Mirror!ShowAt
  <2>5. CASE DetectGap(e)
    BY <1>2, <1>3, <2>5 DEF Deliver, DetectGap, FallBehind
  <2> QED
    BY <2>1, <2>3, <2>4, <2>5 DEF ApplyEvent
<1>4. CASE Resync
  <2>1. PICK n \in 0..head : LoadSnapshot(SnapshotAt(n))
    BY <1>4 DEF Resync
  <2>2. CASE RejectStale(SnapshotAt(n))
    BY <1>0, <1>4, <2>2 DEF Resync, RejectStale, engineVars
  <2>3. CASE LoadAndReplay(SnapshotAt(n))
    <3>1. lastAppliedId = NoId
      BY <2>3 DEF LoadAndReplay, IInv, UnsyncedShowsNothing
    <3>2. ReplayedId(SnapshotAt(n)) \in 0..head
      BY <2>3, ReplayIsExact DEF LoadAndReplay, IInv, TypeOK
    <3>3. book' = history[ReplayedId(SnapshotAt(n))]
      BY <2>3, ReplayIsExact DEF LoadAndReplay, IInv
    <3> QED
      BY <1>0, <1>4, <2>3, <3>1, <3>2, <3>3
      DEF Resync, LoadAndReplay, Mirror!Synchronise, Mirror!ShowAt
  <2>4. CASE LoadThenGap(SnapshotAt(n))
    BY <1>2, <1>4, <2>4 DEF Resync, LoadThenGap, FallBehind
  <2> QED
    BY <2>1, <2>2, <2>3, <2>4 DEF LoadSnapshot
<1>5. CASE Reconnect
  BY <1>2, <1>5 DEF Reconnect, Invalidate
<1>6. CASE UNCHANGED vars
  BY <1>6 DEF vars
<1> QED
  BY <1>1, <1>3, <1>4, <1>5, <1>6 DEF Next

(* The engine keeps the promise of MirrorBook: what it shows is nothing or *)
(* an exact book of the exchange, and never moves back while it shows one. *)
THEOREM EngineImplementsMirror == Spec => ImplementsMirror
<1>1. Init => Mirror!MirrorInit
  BY DEF Init, EngineInit, ExchangeInit, EmptyBook, Books, Mirror!MirrorInit, Mirror!Nothing
<1> QED
  BY <1>1, InitIInv, NextIInv, StepRefines, PTL
  DEF Spec, ImplementsMirror, Mirror!MirrorSpec
-----------------------------------------------------------------------------
(* The replay is the loop                                                  *)

(* The recursion of KeptTo, unrolled.                                      *)
LEMMA KeptSteps ==
  ASSUME NEW s, Len(buffer) \in Nat
  PROVE  /\ KeptTo(s, 0) = <<>>
         /\ \A i \in 1..Len(buffer) : KeptTo(s, i) = 
              IF buffer[i].final > s.id THEN Append(KeptTo(s, i - 1), buffer[i])
              ELSE KeptTo(s, i - 1)
<1> DEFINE Step(x, i) == IF buffer[i].final > s.id THEN Append(x, buffer[i]) ELSE x
           M == Len(buffer)
           Is(f, m) == f = [i \in 0..m |-> IF i = 0 THEN <<>> ELSE Step(f[i - 1], i)]
           T == {m \in Nat : \E f : Is(f, m)}
<1> HIDE DEF Step
<1>1. 0 \in T
  <2>1. Is([i \in 0..0 |-> <<>>], 0)
    OBVIOUS
  <2> QED
    BY <2>1
<1>2. ASSUME NEW m \in Nat, m \in T PROVE m + 1 \in T
  <2>1. PICK f : Is(f, m)
    BY <1>2
  <2> DEFINE h == [i \in 0..m + 1 |-> IF i = m + 1 THEN Step(f[m], m + 1) ELSE f[i]]
  <2>2. \A i \in 0..m : h[i] = f[i]
    OBVIOUS
  <2>3. ASSUME NEW i \in 0..m + 1 PROVE h[i] = IF i = 0 THEN <<>> ELSE Step(h[i - 1], i)
    <3>1. CASE i = m + 1
      <4>1. i - 1 = m /\ i # 0 /\ m \in 0..m
        BY <3>1
      <4> QED
        BY <3>1, <4>1, <2>2
    <3>2. CASE i # m + 1
      <4>1. i \in 0..m /\ (i # 0 => i - 1 \in 0..m)
        BY <3>2
      <4>2. f[i] = IF i = 0 THEN <<>> ELSE Step(f[i - 1], i)
        BY <2>1, <4>1
      <4> QED
        BY <2>2, <4>1, <4>2
    <3> QED
      BY <3>1, <3>2
  <2>4. Is(h, m + 1)
    BY <2>3
  <2> HIDE DEF h
  <2> QED
    BY <2>4
<1>3. PICK f : Is(f, M)
  <2>1. M \in T
    BY <1>1, <1>2, AllNaturals
  <2> QED
    BY <2>1
<1> DEFINE w == CHOOSE x : Is(x, M)
<1>4. Is(w, M)
  BY <1>3
<1>5. \A i : KeptTo(s, i) = w[i]
  BY DEF KeptTo, Step
<1> HIDE DEF w
<1>6. 0 \in 0..M /\ \A i \in 1..M : i \in 0..M /\ i # 0
  OBVIOUS
<1>7. w[0] = <<>> /\ \A i \in 1..M : w[i] = Step(w[i - 1], i)
  BY <1>4, <1>6
<1> QED
  BY <1>5, <1>7 DEF Step

(* The recursion of WalkedTo, unrolled.                                    *)
LEMMA WalkedSteps ==
  ASSUME NEW s, NEW k, Len(k) \in Nat
  PROVE  /\ WalkedTo(s, k, 0) = Fields("LIVE", s.levels, s.id, <<>>)
         /\ \A i \in 1..Len(k) : WalkedTo(s, k, i) = Turn(WalkedTo(s, k, i - 1), k[i], i)
<1> DEFINE Step(x, i) == Turn(x, k[i], i)
           M == Len(k)
           Is(f, m) == f = [i \in 0..m |-> IF i = 0 THEN Fields("LIVE", s.levels, s.id, <<>>) ELSE Step(f[i - 1], i)]
           T == {m \in Nat : \E f : Is(f, m)}
<1> HIDE DEF Step
<1>1. 0 \in T
  <2>1. Is([i \in 0..0 |-> Fields("LIVE", s.levels, s.id, <<>>)], 0)
    OBVIOUS
  <2> QED
    BY <2>1
<1>2. ASSUME NEW m \in Nat, m \in T PROVE m + 1 \in T
  <2>1. PICK f : Is(f, m)
    BY <1>2
  <2> DEFINE h == [i \in 0..m + 1 |-> IF i = m + 1 THEN Step(f[m], m + 1) ELSE f[i]]
  <2>2. \A i \in 0..m : h[i] = f[i]
    OBVIOUS
  <2>3. ASSUME NEW i \in 0..m + 1 PROVE h[i] = IF i = 0 THEN Fields("LIVE", s.levels, s.id, <<>>) ELSE Step(h[i - 1], i)
    <3>1. CASE i = m + 1
      <4>1. i - 1 = m /\ i # 0 /\ m \in 0..m
        BY <3>1
      <4> QED
        BY <3>1, <4>1, <2>2
    <3>2. CASE i # m + 1
      <4>1. i \in 0..m /\ (i # 0 => i - 1 \in 0..m)
        BY <3>2
      <4>2. f[i] = IF i = 0 THEN Fields("LIVE", s.levels, s.id, <<>>) ELSE Step(f[i - 1], i)
        BY <2>1, <4>1
      <4> QED
        BY <2>2, <4>1, <4>2
    <3> QED
      BY <3>1, <3>2
  <2>4. Is(h, m + 1)
    BY <2>3
  <2> HIDE DEF h
  <2> QED
    BY <2>4
<1>3. PICK f : Is(f, M)
  <2>1. M \in T
    BY <1>1, <1>2, AllNaturals
  <2> QED
    BY <2>1
<1> DEFINE w == CHOOSE x : Is(x, M)
<1>4. Is(w, M)
  BY <1>3
<1>5. \A i : WalkedTo(s, k, i) = w[i]
  BY DEF WalkedTo, Step
<1> HIDE DEF w
<1>6. 0 \in 0..M /\ \A i \in 1..M : i \in 0..M /\ i # 0
  OBVIOUS
<1>7. w[0] = Fields("LIVE", s.levels, s.id, <<>>) /\ \A i \in 1..M : w[i] = Step(w[i - 1], i)
  BY <1>4, <1>6
<1> QED
  BY <1>5, <1>7 DEF Step

(* The list of survivors goes through their places in the buffer, in order.*)
Places(s, k, n, at) ==
  /\ k \in Seq(Event)
  /\ at \in [1..Len(k) -> Survivors(s)]
  /\ \A i \in 1..Len(k) : at[i] \in 1..n /\ k[i] = buffer[at[i]]
  /\ \A i, j \in 1..Len(k) : i < j => at[i] < at[j]
  /\ \A x \in Survivors(s) : x <= n => \E i \in 1..Len(k) : at[i] = x

LEMMA KeptPlaces ==
  ASSUME TypeOK, NEW s
  PROVE  \E at : Places(s, KeptTo(s, Len(buffer)), Len(buffer), at)
<1> DEFINE M == Len(buffer)
           k(n) == KeptTo(s, n)
           T == {n \in Nat : n <= M => \E at : Places(s, k(n), n, at)}
<1>1. M \in Nat /\ DOMAIN buffer = 1..M /\ \A i \in 1..M : buffer[i] \in Event
  BY DEF TypeOK
<1>2. /\ k(0) = <<>>
      /\ \A n \in 1..M : k(n) = IF buffer[n].final > s.id THEN Append(k(n - 1), buffer[n])
                                 ELSE k(n - 1)
  BY <1>1, KeptSteps
<1>3. \A n \in 1..M : n \in Survivors(s) <=> buffer[n].final > s.id
  BY <1>1 DEF Survivors
<1> HIDE DEF k
<1>4. 0 \in T
  <2>1. <<>> \in Seq(Event) /\ Survivors(s) \subseteq Nat \ {0}
    BY <1>1 DEF Survivors
  <2>2. Places(s, <<>>, 0, <<>>)
    BY <2>1 DEF Places
  <2> QED
    BY <1>2, <2>2
<1>5. ASSUME NEW n \in Nat, n \in T PROVE n + 1 \in T
  <2> SUFFICES ASSUME n + 1 <= M PROVE \E at : Places(s, k(n + 1), n + 1, at)
    OBVIOUS
  <2>1. PICK at : Places(s, k(n), n, at)
    BY <1>1, <1>5
  <2>2. n + 1 \in 1..M /\ n + 1 - 1 = n
    BY <1>1
  <2>3. PICK r : r = k(n)
    OBVIOUS
  <2>4. /\ r \in Seq(Event) /\ Len(r) \in Nat
        /\ at \in [1..Len(r) -> Survivors(s)]
        /\ \A i \in 1..Len(r) : at[i] \in 1..n /\ r[i] = buffer[at[i]]
        /\ \A i, j \in 1..Len(r) : i < j => at[i] < at[j]
        /\ \A x \in Survivors(s) : x <= n => \E i \in 1..Len(r) : at[i] = x
    BY <2>1, <2>3 DEF Places
  <2>5. CASE n + 1 \notin Survivors(s)
    <3>1. k(n + 1) = r
      BY <1>2, <1>3, <2>2, <2>3, <2>5
    <3>2. \A x \in Survivors(s) : x <= n + 1 => x <= n
      BY <1>1, <2>5 DEF Survivors
    <3>3. Places(s, r, n + 1, at)
      BY <2>4, <3>2 DEF Places
    <3> QED
      BY <3>1, <3>3
  <2>6. CASE n + 1 \in Survivors(s)
    <3>1. PICK t : t = Append(r, buffer[n + 1])
      OBVIOUS
    <3>2. k(n + 1) = t
      BY <1>2, <1>3, <2>2, <2>3, <2>6, <3>1
    <3>3. /\ t \in Seq(Event) /\ Len(t) = Len(r) + 1 /\ t[Len(t)] = buffer[n + 1]
          /\ \A i \in 1..Len(r) : t[i] = r[i]
      BY <1>1, <2>2, <2>4, <3>1
    <3>4. PICK to : to = [i \in 1..Len(t) |-> IF i = Len(t) THEN n + 1 ELSE at[i]]
      OBVIOUS
    <3>5. \A i \in 1..Len(t) : i = Len(t) \/ i \in 1..Len(r)
      BY <2>4, <3>3
    <3>6. to[Len(t)] = n + 1 /\ \A i \in 1..Len(r) : to[i] = at[i]
      BY <2>4, <3>3, <3>4
    <3>7. to \in [1..Len(t) -> Survivors(s)]
      BY <2>4, <2>6, <3>4, <3>5
    <3>8. \A i \in 1..Len(t) : to[i] \in 1..n + 1 /\ t[i] = buffer[to[i]]
      BY <2>4, <3>3, <3>5, <3>6
    <3>9. \A i, j \in 1..Len(t) : i < j => to[i] < to[j]
      <4> SUFFICES ASSUME NEW i \in 1..Len(t), NEW j \in 1..Len(t), i < j PROVE to[i] < to[j]
        OBVIOUS
      <4>1. i \in 1..Len(r)
        BY <2>4, <3>3
      <4>2. CASE j = Len(t)
        BY <2>4, <3>6, <4>1, <4>2
      <4>3. CASE j \in 1..Len(r)
        BY <2>4, <3>6, <4>1, <4>3
      <4> QED
        BY <3>5, <4>2, <4>3
    <3>10. ASSUME NEW x \in Survivors(s), x <= n + 1 PROVE \E i \in 1..Len(t) : to[i] = x
      <4>1. x = n + 1 \/ x <= n
        BY <1>1, <3>10 DEF Survivors
      <4>2. Len(t) \in 1..Len(t) /\ \A i \in 1..Len(r) : i \in 1..Len(t)
        BY <2>4, <3>3
      <4> QED
        BY <2>4, <3>6, <4>1, <4>2
    <3>11. Places(s, t, n + 1, to)
      BY <3>3, <3>7, <3>8, <3>9, <3>10 DEF Places
    <3> QED
      BY <3>2, <3>11
  <2> QED
    BY <2>5, <2>6
<1> HIDE DEF T
<1>6. M \in T
  BY <1>1, <1>4, <1>5, AllNaturals
<1> QED
  BY <1>1, <1>6 DEF T, k

(* The place before the i-th in the list is that of the survivor before.   *)
LEMMA PlaceBefore ==
  ASSUME TypeOK, NEW s, NEW k, NEW at, Places(s, k, Len(buffer), at), NEW i \in 1..Len(k)
  PROVE  /\ i = 1 => \A x \in Survivors(s) : at[1] <= x
         /\ i # 1 => /\ i - 1 \in 1..Len(k) /\ at[i - 1] < at[i]
                     /\ \A x \in Survivors(s) : x < at[i] => x <= at[i - 1]
                     /\ SurvivorBefore(s, at[i]) = at[i - 1]
<1>a. Len(buffer) \in Nat /\ \A x \in Survivors(s) : x \in Nat /\ x <= Len(buffer)
  BY SurvivorsTyped
<1>1. /\ Len(k) \in Nat /\ Len(buffer) \in Nat
      /\ \A j \in 1..Len(k) : at[j] \in Survivors(s) /\ at[j] \in 1..Len(buffer)
      /\ \A j, m \in 1..Len(k) : j < m => at[j] < at[m]
      /\ \A x \in Survivors(s) : \E j \in 1..Len(k) : at[j] = x
  BY <1>a DEF Places
<1>2. ASSUME NEW x \in Survivors(s), x < at[i] PROVE \E j \in 1..i - 1 : at[j] = x
  <2>1. PICK j \in 1..Len(k) : at[j] = x
    BY <1>1
  <2>2. ~ (i < j) /\ i # j
    BY <1>1, <1>2, <2>1
  <2> QED
    BY <1>1, <2>1, <2>2
<1>3. CASE i = 1
  <2>1. \A x \in Survivors(s) : ~ (x < at[i])
    BY <1>2, <1>3
  <2>2. \A x \in Survivors(s) : x \in Nat /\ at[i] \in Nat
    BY <1>1, SurvivorsTyped
  <2> QED
    BY <1>3, <2>1, <2>2
<1>4. CASE i # 1
  <2> DEFINE B == {x \in Survivors(s) : x < at[i]}
  <2>1. i - 1 \in 1..Len(k) /\ i - 1 < i
    BY <1>1, <1>4
  <2>2. at[i - 1] < at[i] /\ at[i - 1] \in B
    BY <1>1, <2>1
  <2>3. ASSUME NEW x \in B PROVE x <= at[i - 1]
    <3>1. PICK j \in 1..i - 1 : at[j] = x
      BY <1>2, <2>3
    <3>2. j \in 1..Len(k) /\ (j < i - 1 \/ j = i - 1)
      BY <1>1
    <3> QED
      BY <1>1, <2>1, <3>1, <3>2
  <2>4. B \subseteq 0..Len(buffer) /\ B # {}
    BY <2>2, SurvivorsTyped
  <2>5. Max(B) \in B /\ \A y \in B : y <= Max(B)
    BY <1>1, <2>4, MaxIsGreatest
  <2>7. \A y \in B : y \in Int
    BY <1>a
  <2>6. Max(B) = at[i - 1]
    <3> HIDE DEF B
    <3>1. Max(B) \in Int /\ at[i - 1] \in Int
      BY <2>2, <2>5, <2>7
    <3>2. Max(B) <= at[i - 1] /\ at[i - 1] <= Max(B)
      BY <2>2, <2>3, <2>5
    <3> QED
      BY <3>1, <3>2
  <2> QED
    BY <1>4, <2>1, <2>2, <2>3, <2>6 DEF SurvivorBefore
<1> QED
  BY <1>3, <1>4

(* The events at which the loop would find a gap are those of Breaks.      *)
LEMMA BreakPlaces ==
  ASSUME TypeOK, NEW s, NEW k, NEW at, Places(s, k, Len(buffer), at), NEW i \in 1..Len(k)
  PROVE  at[i] \in Breaks(s) <=> i # 1 /\ k[i].prev # buffer[at[i - 1]].final
<1>1. at[i] \in Survivors(s) /\ k[i] = buffer[at[i]]
  BY DEF Places
<1>2. CASE i = 1
  <2>1. \A x \in Survivors(s) : x \in Nat /\ at[i] \in Nat /\ at[i] <= x
    BY <1>1, <1>2, PlaceBefore, SurvivorsTyped
  <2> QED
    BY <1>2, <2>1 DEF Breaks
<1>3. CASE i # 1
  <2>1. SurvivorBefore(s, at[i]) = at[i - 1] /\ at[i - 1] \in Survivors(s) /\ at[i - 1] < at[i]
    <3>1. /\ i - 1 \in 1..Len(k) /\ at[i - 1] < at[i]
          /\ SurvivorBefore(s, at[i]) = at[i - 1]
      BY <1>3, PlaceBefore
    <3> QED
      BY <3>1 DEF Places
  <2> QED
    BY <1>1, <1>3, <2>1 DEF Breaks, ChainsTo
<1> QED
  BY <1>2, <1>3

(* The ladder after a survivor is the one before it with the event applied.*)
LEMMA ReplayApplies ==
  ASSUME TypeOK, NEW s, NEW k \in Survivors(s), NEW side,
         \A l \in Level : side[l] = IF ListedBy(s, l, k - 1) = {} THEN s.levels[l]
                                    ELSE buffer[Max(ListedBy(s, l, k - 1))].levels[l]
  PROVE  ReplayedTo(s, k) = ApplyLevels(side, buffer[k].levels)
<1>1. \A l \in Level : ReplayedTo(s, k)[l] = ApplyLevels(side, buffer[k].levels)[l]
  BY ReplayStep DEF ApplyLevels
<1> QED
  BY <1>1 DEF ReplayedTo, ApplyLevels

(* The book and the checkpoint after i survivors without a gap.            *)
BookAfter(s, at, i) == IF i = 0 THEN s.levels ELSE ReplayedTo(s, at[i])
IdAfter(s, at, i)   == IF i = 0 THEN s.id ELSE buffer[at[i]].final

LEMMA BookGrows ==
  ASSUME TypeOK, NEW s, NEW k, NEW at, Places(s, k, Len(buffer), at), NEW i \in 1..Len(k)
  PROVE  BookAfter(s, at, i) = ApplyLevels(BookAfter(s, at, i - 1), k[i].levels)
<1>1. at[i] \in Survivors(s) /\ k[i] = buffer[at[i]] /\ i # 0
  BY DEF Places
<1>2. ASSUME NEW l \in Level
      PROVE  BookAfter(s, at, i - 1)[l] =
               IF ListedBy(s, l, at[i] - 1) = {} THEN s.levels[l]
               ELSE buffer[Max(ListedBy(s, l, at[i] - 1))].levels[l]
  <2>1. \A x \in Listing(s, l) : x \in Survivors(s) /\ x \in Nat /\ at[i] \in Nat
    BY <1>1, SurvivorsTyped DEF Listing
  <2>2. CASE i = 1
    <3>1. \A x \in Listing(s, l) : ~ (x <= at[i] - 1)
      <4>1. \A x \in Survivors(s) : at[i] <= x
        BY <2>2, PlaceBefore
      <4> QED
        BY <2>1, <4>1
    <3> QED
      BY <2>2, <3>1 DEF ListedBy, BookAfter
  <2>3. CASE i # 1
    <3>1. /\ i - 1 \in 1..Len(k) /\ at[i - 1] < at[i] /\ at[i - 1] \in Nat
          /\ \A x \in Survivors(s) : x < at[i] => x <= at[i - 1]
      <4>1. /\ i - 1 \in 1..Len(k) /\ at[i - 1] < at[i]
            /\ \A x \in Survivors(s) : x < at[i] => x <= at[i - 1]
        BY <2>3, PlaceBefore
      <4>2. at[i - 1] \in Survivors(s)
        BY <4>1 DEF Places
      <4> QED
        BY <4>1, <4>2, SurvivorsTyped
    <3>2. \A x \in Listing(s, l) : x <= at[i] - 1 <=> x <= at[i - 1]
      BY <2>1, <3>1
    <3>3. ListedBy(s, l, at[i] - 1) = ListedBy(s, l, at[i - 1])
      BY <3>2 DEF ListedBy
    <3>4. BookAfter(s, at, i - 1) = ReplayedTo(s, at[i - 1])
      BY <2>3, <3>1 DEF BookAfter
    <3> QED
      BY <3>3, <3>4 DEF ReplayedTo
  <2> QED
    BY <2>2, <2>3
<1>3. ReplayedTo(s, at[i]) = ApplyLevels(BookAfter(s, at, i - 1), buffer[at[i]].levels)
  <2>1. PICK x : x = at[i]
    OBVIOUS
  <2>2. PICK side : side = BookAfter(s, at, i - 1)
    OBVIOUS
  <2>3. /\ x \in Survivors(s)
        /\ \A l \in Level : side[l] = IF ListedBy(s, l, x - 1) = {} THEN s.levels[l]
                                      ELSE buffer[Max(ListedBy(s, l, x - 1))].levels[l]
    BY ONLY <1>1, <1>2, <2>1, <2>2
  <2>4. ReplayedTo(s, x) = ApplyLevels(side, buffer[x].levels)
    BY ONLY TypeOK, <2>3, ReplayApplies
  <2> QED
    BY ONLY <2>1, <2>2, <2>4
<1> QED
  BY <1>1, <1>3 DEF BookAfter

(* What the walk has come to after i survivors: a LIVE engine, or the gap  *)
(* at the first of the breaks.                                             *)
Walks(s, k, at, i) ==
  /\ (\A j \in 1..i : at[j] \notin Breaks(s)) =>
       WalkedTo(s, k, i) = Fields("LIVE", BookAfter(s, at, i), IdAfter(s, at, i), <<>>)
  /\ (\E j \in 1..i : at[j] \in Breaks(s)) =>
       WalkedTo(s, k, i) = Fields("RESYNCING", EmptyBook, NoId, <<buffer[Min(Breaks(s))]>>)

LEMMA WalkIs ==
  ASSUME TypeOK, NEW s, NEW k, NEW at, Places(s, k, Len(buffer), at)
  PROVE  Walks(s, k, at, Len(k))
<1> DEFINE T == {i \in Nat : i <= Len(k) => Walks(s, k, at, i)}
<1>1. Len(k) \in Nat
  BY DEF Places
<1>2. /\ WalkedTo(s, k, 0) = Fields("LIVE", s.levels, s.id, <<>>)
      /\ \A i \in 1..Len(k) : WalkedTo(s, k, i) = Turn(WalkedTo(s, k, i - 1), k[i], i)
  BY <1>1, WalkedSteps
<1>3. 0 \in T
  BY <1>2 DEF Walks, BookAfter, IdAfter
<1>4. ASSUME NEW n \in Nat, n \in T PROVE n + 1 \in T
  <2> SUFFICES ASSUME n + 1 <= Len(k) PROVE Walks(s, k, at, n + 1)
    OBVIOUS
  <2>1. PICK i : i = n + 1
    OBVIOUS
  <2>2. i \in 1..Len(k) /\ i - 1 = n /\ i # 0 /\ \A j : j \in 1..i <=> j \in 1..n \/ j = i
    BY <1>1, <2>1
  <2>3. Walks(s, k, at, n)
    BY <1>1, <1>4
  <2>4. PICK w : w = WalkedTo(s, k, n)
    OBVIOUS
  <2>5. WalkedTo(s, k, i) = Turn(w, k[i], i)
    BY <1>2, <2>2, <2>4
  <2>6. CASE \E j \in 1..n : at[j] \in Breaks(s)
    <3>1. w = Fields("RESYNCING", EmptyBook, NoId, <<buffer[Min(Breaks(s))]>>)
      BY <2>3, <2>4, <2>6 DEF Walks
    <3>2. WalkedTo(s, k, i) = w
      BY <2>5, <3>1 DEF Turn, Fields
    <3> QED
      BY <2>1, <2>2, <2>6, <3>1, <3>2 DEF Walks
  <2>7. CASE \A j \in 1..n : at[j] \notin Breaks(s)
    <3>1. w = Fields("LIVE", BookAfter(s, at, n), IdAfter(s, at, n), <<>>)
      BY <2>3, <2>4, <2>7 DEF Walks
    <3>2. w.state = "LIVE" /\ w.book = BookAfter(s, at, n) /\ w.id = IdAfter(s, at, n)
      BY <3>1 DEF Fields
    <3>3. i # 1 => w.id = buffer[at[i - 1]].final
      BY <2>1, <2>2, <3>2 DEF IdAfter
    <3>4. CASE at[i] \notin Breaks(s)
      <4>1. ~ (i # 1 /\ k[i].prev # w.id)
        BY <2>2, <3>3, <3>4, BreakPlaces
      <4>2. BookAfter(s, at, i) = ApplyLevels(w.book, k[i].levels)
        BY <2>2, <3>2, BookGrows
      <4>3. IdAfter(s, at, i) = k[i].final
        BY <2>2 DEF IdAfter, Places
      <4>4. WalkedTo(s, k, i) = Fields("LIVE", BookAfter(s, at, i), IdAfter(s, at, i), <<>>)
        BY <2>5, <3>2, <4>1, <4>2, <4>3 DEF Turn
      <4> QED
        BY <2>1, <2>2, <2>7, <3>4, <4>4 DEF Walks
    <3>5. CASE at[i] \in Breaks(s)
      <4>1. i # 1 /\ k[i].prev # w.id
        BY <2>2, <3>3, <3>5, BreakPlaces
      <4>2. WalkedTo(s, k, i) = Fields("RESYNCING", EmptyBook, NoId, <<k[i]>>)
        BY <2>5, <3>2, <4>1 DEF Turn
      <4>3. Breaks(s) \subseteq Survivors(s) /\ Breaks(s) \subseteq Nat
        BY SurvivorsTyped DEF Breaks
      <4>4. ASSUME NEW b \in Breaks(s) PROVE at[i] <= b
        <5>1. PICK j \in 1..Len(k) : at[j] = b
          BY <4>3, SurvivorsTyped DEF Places
        <5>2. j \notin 1..n
          BY <2>7, <5>1
        <5>3. j = i \/ i < j
          BY <1>1, <2>1, <5>2
        <5>4. at[i] \in Nat /\ (i < j => at[i] < at[j])
          BY <2>2, <3>5, <4>3 DEF Places
        <5> QED
          BY <4>3, <5>1, <5>3, <5>4
      <4>5. Min(Breaks(s)) = at[i]
        <5>1. Min(Breaks(s)) \in Breaks(s) /\ Min(Breaks(s)) <= at[i]
          BY <3>5, <4>3, MinIsLeast
        <5> QED
          BY <3>5, <4>3, <4>4, <5>1
      <4>6. k[i] = buffer[at[i]]
        BY <2>2 DEF Places
      <4> QED
        BY <2>1, <2>2, <3>5, <4>2, <4>5, <4>6 DEF Walks
    <3> QED
      BY <3>4, <3>5
  <2> QED
    BY <2>6, <2>7
<1> HIDE DEF T
<1>5. Len(k) \in T
  BY <1>1, <1>3, <1>4, AllNaturals
<1> QED
  BY <1>1, <1>5 DEF T

(* After the last survivor the walk has the whole replay.                  *)
LEMMA WalkEnds ==
  ASSUME TypeOK, NEW n \in 0..head, NEW k, NEW at,
         Places(SnapshotAt(n), k, Len(buffer), at)
  PROVE  LET s == SnapshotAt(n)
         IN  /\ k = <<>> <=> Survivors(s) = {}
             /\ k # <<>> => k[1] = buffer[Min(Survivors(s))]
             /\ BookAfter(s, at, Len(k)) = Replayed(s)
             /\ IdAfter(s, at, Len(k)) = ReplayedId(s)
<1> DEFINE M == Len(k)
<1>1. PICK s : s = SnapshotAt(n)
  OBVIOUS
<1>a. /\ Len(buffer) \in Nat /\ Survivors(s) \subseteq 1..Len(buffer)
      /\ \A x \in Survivors(s) : x \in Nat /\ x <= Len(buffer)
  BY SurvivorsTyped
<1>b. Survivors(s) \subseteq 0..Len(buffer) /\ Survivors(s) \subseteq Nat
  BY <1>a
<1>2. /\ M \in Nat /\ k \in Seq(Event) /\ Len(buffer) \in Nat
      /\ \A j \in 1..M : at[j] \in Survivors(s) /\ at[j] \in Nat /\ k[j] = buffer[at[j]]
      /\ \A j, m \in 1..M : j < m => at[j] < at[m]
      /\ \A x \in Survivors(s) : \E j \in 1..M : at[j] = x
      /\ Survivors(s) \subseteq 0..Len(buffer) /\ Survivors(s) \subseteq Nat
  BY <1>1, <1>a, <1>b DEF Places
<1>3. CASE k = <<>>
  <2>1. M = 0 /\ Survivors(s) = {}
    BY <1>2, <1>3
  <2>2. \A l \in Level : Listing(s, l) = {}
    BY <2>1 DEF Listing
  <2>3. s.levels \in [Level -> Qty]
    BY <1>1 DEF TypeOK, Books, SnapshotAt, SnapshotEvent
  <2>4. Replayed(s) = s.levels /\ ReplayedId(s) = s.id
    BY <2>1, <2>2, <2>3 DEF Replayed, ReplayedId
  <2> QED
    BY <1>1, <1>3, <2>1, <2>4 DEF BookAfter, IdAfter
<1>4. CASE k # <<>>
  <2>1. M # 0 /\ 1 \in 1..M /\ M \in 1..M
    BY <1>2, <1>4
  <2>2. Survivors(s) # {} /\ at[1] \in Survivors(s) /\ at[M] \in Survivors(s)
    BY <1>2, <2>1
  <2>3. Min(Survivors(s)) = at[1]
    <3>1. \A x \in Survivors(s) : at[1] <= x
      BY <1>1, <2>1, PlaceBefore
    <3>2. Min(Survivors(s)) \in Survivors(s) /\ Min(Survivors(s)) <= at[1]
      BY <1>2, <2>2, MinIsLeast
    <3> QED
      BY <1>2, <2>2, <3>1, <3>2
  <2>4. \A x \in Survivors(s) : x <= at[M]
    <3>1. ASSUME NEW x \in Survivors(s) PROVE x <= at[M]
      <4>1. PICK j \in 1..M : at[j] = x
        BY <1>2
      <4>2. j = M \/ j < M
        BY <1>2
      <4> QED
        BY <1>2, <2>1, <4>1, <4>2
    <3> QED
      BY <3>1
  <2>5. Max(Survivors(s)) = at[M]
    <3>1. Max(Survivors(s)) \in Survivors(s) /\ at[M] <= Max(Survivors(s))
      BY <1>2, <2>2, MaxIsGreatest
    <3> QED
      BY <1>2, <2>2, <2>4, <3>1
  <2>6. ASSUME NEW l \in Level PROVE Listing(s, l) = ListedBy(s, l, at[M])
    BY <2>4 DEF Listing, ListedBy
  <2>7. Replayed(s) = ReplayedTo(s, at[M])
    BY <2>6 DEF Replayed, ReplayedTo
  <2>8. BookAfter(s, at, M) = Replayed(s) /\ IdAfter(s, at, M) = ReplayedId(s)
    BY <2>1, <2>2, <2>5, <2>7 DEF BookAfter, IdAfter, ReplayedId
  <2> QED
    BY <1>1, <1>2, <1>4, <2>1, <2>2, <2>3, <2>8
<1> QED
  BY <1>3, <1>4

(* So what the loop leaves is what the actions of BookEngine leave.        *)
LEMMA LoopIsDefined ==
  ASSUME TypeOK, NEW n \in 0..head
  PROVE  LoopOutcome(SnapshotAt(n)) = DefinedOutcome(SnapshotAt(n))
<1>1. PICK s : s = SnapshotAt(n)
  OBVIOUS
<1>2. PICK k : k = KeptTo(s, Len(buffer))
  OBVIOUS
<1>3. PICK at : Places(s, k, Len(buffer), at)
  BY <1>2, KeptPlaces
<1>4. /\ k = <<>> <=> Survivors(s) = {}
      /\ k # <<>> => k[1] = buffer[Min(Survivors(s))]
      /\ BookAfter(s, at, Len(k)) = Replayed(s)
      /\ IdAfter(s, at, Len(k)) = ReplayedId(s)
  BY <1>1, <1>3, WalkEnds
<1>5. Walks(s, k, at, Len(k))
  BY <1>3, WalkIs
<1>6. FirstStraddles(s) <=>
        ~ (k # <<>> /\ ~ (k[1].prev <= s.id /\ s.id < k[1].final))
  BY <1>4 DEF FirstStraddles, Straddles
<1>7. LoopOutcome(s) = IF FirstStraddles(s) THEN WalkedTo(s, k, Len(k))
                       ELSE Fields(state, book, lastAppliedId, buffer)
  BY <1>2, <1>6 DEF LoopOutcome
<1>8. (\E j \in 1..Len(k) : at[j] \in Breaks(s)) <=> Breaks(s) # {}
  <2>1. \A x \in Breaks(s) : x \in Survivors(s) /\ x <= Len(buffer)
    BY SurvivorsTyped DEF Breaks
  <2> QED
    BY <1>3, <2>1 DEF Places
<1>9. WalkedTo(s, k, Len(k)) =
        IF Breaks(s) # {} THEN Fields("RESYNCING", EmptyBook, NoId, <<buffer[Min(Breaks(s))]>>)
        ELSE Fields("LIVE", Replayed(s), ReplayedId(s), <<>>)
  BY <1>4, <1>5, <1>8 DEF Walks
<1> QED
  BY <1>1, <1>7, <1>9 DEF DefinedOutcome

(* The sets of places BookEngine speaks of are the code's two loops, for a *)
(* buffer of any length: what load_snapshot leaves behind is what filter   *)
(* and walk leave (ReplayIsTheLoop).                                       *)
THEOREM ReplayIsLoop == Spec => []ReplayIsTheLoop
<1>1. TypeOK => ReplayIsTheLoop
  BY LoopIsDefined DEF ReplayIsTheLoop
<1> QED
  BY <1>1, TypeCorrect, PTL
=============================================================================
