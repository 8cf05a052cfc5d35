----------------------------- MODULE BookReplay ------------------------------
(***************************************************************************)
(* The body of load_snapshot (book/engine.py) as the two loops it is: a    *)
(* filter that makes the list of survivors, and a walk over that list.     *)
(* BookEngine says in terms of sets of places in the buffer what comes out *)
(* of them; this module is there to compare the two.                       *)
(***************************************************************************)
EXTENDS BookSync

(* The list of survivors once the first i events have been looked at.      *)
KeptTo(s, i) ==
  LET kept[j \in 0..Len(buffer)] ==
        IF j = 0 THEN <<>>
        ELSE IF buffer[j].final > s.id THEN Append(kept[j - 1], buffer[j]) ELSE kept[j - 1]
  IN  kept[i]

(* The fields of an engine.                                                *)
Fields(st, b, id, held) == [state |-> st, book |-> b, id |-> id, buffer |-> held]

(* The i-th turn of the walk: the first survivor is applied without a      *)
(* check, the others through _apply_live, and a gap ends the loop.         *)
Turn(engine, event, i) ==
  IF engine.state # "LIVE" THEN engine
  ELSE IF i # 1 /\ event.prev # engine.id
  THEN Fields("RESYNCING", EmptyBook, NoId, <<event>>)
  ELSE Fields("LIVE", ApplyLevels(engine.book, event.levels), event.final, <<>>)

(* The engine once the first i survivors have been walked.                 *)
WalkedTo(s, survivors, i) ==
  LET walked[j \in 0..Len(survivors)] ==
        IF j = 0 THEN Fields("LIVE", s.levels, s.id, <<>>)
        ELSE Turn(walked[j - 1], survivors[j], j)
  IN  walked[i]

LoopOutcome(s) ==
  LET survivors == KeptTo(s, Len(buffer))
  IN  IF /\ survivors # <<>>
         /\ ~ (survivors[1].prev <= s.id /\ s.id < survivors[1].final)
      THEN Fields(state, book, lastAppliedId, buffer)
      ELSE WalkedTo(s, survivors, Len(survivors))

(* What a load of s leaves behind, by the actions of BookEngine.           *)
DefinedOutcome(s) ==
  IF ~ FirstStraddles(s) THEN Fields(state, book, lastAppliedId, buffer)
  ELSE IF Breaks(s) # {}
  THEN Fields("RESYNCING", EmptyBook, NoId, <<buffer[Min(Breaks(s))]>>)
  ELSE Fields("LIVE", Replayed(s), ReplayedId(s), <<>>)

(* For every buffer the engine can be holding and every snapshot the       *)
(* exchange could serve, the definition of load_snapshot in BookEngine     *)
(* gives exactly what the code's filter and loop give (engine.py:63-100).  *)
ReplayIsTheLoop ==
  state # "LIVE" =>
    \A n \in 0..head : LoopOutcome(SnapshotAt(n)) = DefinedOutcome(SnapshotAt(n))
=============================================================================
