----------------------------- MODULE MirrorBook -----------------------------
(***************************************************************************)
(* What the book engine promises whoever reads it, however the exchange's  *)
(* messages reach it: the reader sees either nothing at all or the book    *)
(* the exchange had at one update id, whole and exact; and as long as it   *)
(* goes on seeing something, that id never moves back.                     *)
(***************************************************************************)
EXTENDS Integers

CONSTANTS
  Level, Qty, NoId,
  MaxId              \* bound: update ids the exchange goes through

VARIABLES
  head,        \* the exchange's current update id
  history,     \* history[n], the exchange's book at update id n
  checkpoint,  \* the id the reader's book stands at, or NoId
  shown        \* the book the reader sees

mirrorVars == <<head, history, checkpoint, shown>>

Nothing == [l \in Level |-> 0]

MirrorInit ==
  /\ head = 0
  /\ history \in [{0} -> [Level -> Qty]]
  /\ checkpoint = NoId
  /\ shown = Nothing

ExchangeMoves ==
  /\ head < MaxId
  /\ head' = head + 1
  /\ \E b \in [Level -> Qty] :
       history' = [n \in 0..head + 1 |-> IF n = head + 1 THEN b ELSE history[n]]
  /\ UNCHANGED <<checkpoint, shown>>

(* The reader's book moves to update id n.                                 *)
ShowAt(n) ==
  /\ checkpoint' = n
  /\ shown' = history[n]
  /\ UNCHANGED <<head, history>>

Advance ==
  /\ checkpoint # NoId
  /\ \E n \in 0..head : checkpoint <= n /\ ShowAt(n)

Synchronise == checkpoint = NoId /\ \E n \in 0..head : ShowAt(n)

LoseSync ==
  /\ checkpoint' = NoId
  /\ shown' = Nothing
  /\ UNCHANGED <<head, history>>

MirrorNext == ExchangeMoves \/ Advance \/ Synchronise \/ LoseSync

MirrorSpec == MirrorInit /\ [][MirrorNext]_mirrorVars
=============================================================================
