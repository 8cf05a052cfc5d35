------------------------------ MODULE BookSync ------------------------------
(***************************************************************************)
(* The engine fed by an exchange that tells the truth over a path that     *)
(* promises nothing.  Any event the exchange could have sent may reach     *)
(* apply_event at any time, again, late, out of order or never; any        *)
(* snapshot it could have served, however old, may reach load_snapshot;    *)
(* and the feed client may call invalidate whenever it likes.  Whatever a  *)
(* real client does to its engine is among these steps.                    *)
(*                                                                         *)
(* The exchange is the one of simulation/market.py: a ground-truth book    *)
(* and an update id that grows by one with every change to it.             *)
(***************************************************************************)
EXTENDS BookEngine

CONSTANTS
  MaxId,       \* bound: update ids the exchange goes through
  MaxBuffer    \* bound: events the engine may hold back

ASSUME SyncAssumption == MaxId \in Nat /\ MaxBuffer \in Nat

VARIABLES
  head,      \* the exchange's current update id
  history    \* history[n], its book at update id n

vars == <<state, book, lastAppliedId, buffer, head, history>>
exchangeVars == <<head, history>>

-----------------------------------------------------------------------------
(* The exchange                                                            *)

ExchangeInit ==
  /\ head = 0
  /\ history \in [{0} -> Books]

MarketStep ==
  /\ head < MaxId
  /\ head' = head + 1
  /\ \E b \in Books :
       history' = [n \in 0..head + 1 |-> IF n = head + 1 THEN b ELSE history[n]]

(* The levels whose quantity changes on the way from update p to update f. *)
Touched(p, f) == {l \in Level : \E n \in p..f : history[n][l] # history[f][l]}

(* The event from p to f that lists the levels D: every level that changed *)
(* is among them, each with the quantity it has at f.                      *)
EventOf(p, f, D) == DiffEvent(p, f, [l \in D |-> history[f][l]])

(* The whole book as it stands at update n.                                *)
SnapshotAt(n) == SnapshotEvent(n, history[n])

-----------------------------------------------------------------------------
Init == EngineInit /\ ExchangeInit

Market == MarketStep /\ UNCHANGED engineVars

Deliver ==
  /\ Len(buffer) < MaxBuffer
  /\ \E p, f \in 0..head : \E D \in SUBSET Level :
       /\ p <= f
       /\ Touched(p, f) \subseteq D
       /\ ApplyEvent(EventOf(p, f, D))
  /\ UNCHANGED exchangeVars

Resync ==
  /\ \E n \in 0..head : LoadSnapshot(SnapshotAt(n))
  /\ UNCHANGED exchangeVars

Reconnect == Invalidate /\ UNCHANGED exchangeVars

Next == Market \/ Deliver \/ Resync \/ Reconnect

Spec == Init /\ [][Next]_vars

-----------------------------------------------------------------------------
(* An event that tells the truth about the exchange's past.                *)
Truthful(e) ==
  /\ e.prev \in 0..head
  /\ e.final \in 0..head
  /\ e.prev <= e.final
  /\ \A l \in DOMAIN e.levels : e.levels[l] = history[e.final][l]
  /\ Touched(e.prev, e.final) \subseteq DOMAIN e.levels

(* The variables have their types, and what is buffered is truthful.       *)
TypeOK ==
  /\ state \in BookStates
  /\ book \in Books
  /\ lastAppliedId \in (0..head) \cup {NoId}
  /\ head \in 0..MaxId
  /\ history \in [0..head -> Books]
  /\ buffer \in Seq(Event)
  /\ \A i \in DOMAIN buffer : Truthful(buffer[i])

(* While LIVE the book is, level for level, the one the exchange had at    *)
(* the checkpoint: no lost, repeated, reordered or late message and no     *)
(* stale snapshot ever leaves a wrong quantity in a book the pipeline      *)
(* writes out (apply_event, load_snapshot).                                *)
LiveBookIsExact == state = "LIVE" => /\ lastAppliedId # NoId
                                     /\ book = history[lastAppliedId]

(* An engine that has lost sync shows an empty ladder and no checkpoint,   *)
(* never the last book it had; one that is in sync holds nothing back.     *)
UnsyncedShowsNothing ==
  /\ state # "LIVE" => book = EmptyBook /\ lastAppliedId = NoId
  /\ state = "LIVE" => buffer = <<>>

(* The buffer holds an unbroken run of events, as it does when the         *)
(* connection has lost nothing since the buffer was started.               *)
BufferInOrder ==
  \A i \in 1..Len(buffer) - 1 : buffer[i + 1].prev = buffer[i].final

(* The sync procedure cannot fail on a connection that loses nothing: an   *)
(* unbroken buffer that reaches back to the snapshot is replayed in whole, *)
(* wherever in it the snapshot's update id falls (load_snapshot).          *)
InOrderBufferReplays ==
  state # "LIVE" /\ buffer # <<>> /\ BufferInOrder =>
    \A n \in buffer[1].prev..head :
      LET s == SnapshotAt(n)
      IN  /\ FirstStraddles(s)
          /\ Breaks(s) = {}
          /\ ReplayedId(s) = Max({n, buffer[Len(buffer)].final})

(* Once it has been LIVE, an engine that loses sync is recovering and is   *)
(* never again reported as starting up, whichever way it lost it.          *)
ColdStartOnlyOnce == [][state # "BUFFERING" => state' # "BUFFERING"]_vars

(* The engine keeps the promise of MirrorBook.                             *)
Mirror == INSTANCE MirrorBook WITH checkpoint <- lastAppliedId, shown <- book
ImplementsMirror == Mirror!MirrorSpec
=============================================================================
