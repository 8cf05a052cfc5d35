-------------------------------- MODULE RowLog --------------------------------
(***************************************************************************)
(* What the row queue and the sink promise the feeds together: rows wait   *)
(* to be saved, those of one feed are saved oldest first, some are given   *)
(* up before they are saved, and none that is saved is lost again or waits *)
(* once more.                                                              *)
(***************************************************************************)
EXTENDS Integers

CONSTANTS
  Feed,
  MaxRow     \* bound: rows ever put

VARIABLES
  waiting,   \* <<id, feed>> of the rows not yet saved
  saved      \* <<id, feed>> of the rows saved for good

logVars == <<waiting, saved>>

LogInit == waiting = {} /\ saved = {}

(* Row n, newer than every other, comes from feed f; to make room for it   *)
(* at most one row is given up.                                            *)
Offer(n, f) ==
  /\ \A r \in waiting \cup saved : r[1] < n
  /\ \E room \in {{}} \cup {{r} : r \in waiting} : waiting' = (waiting \ room) \cup {<<n, f>>}
  /\ UNCHANGED saved

(* Every feed's saved rows are older than those of it that go on waiting.  *)
OldestFirst(rows) ==
  \A r \in rows, w \in waiting \ rows : r[2] = w[2] => r[1] < w[1]

Save(rows) ==
  /\ OldestFirst(rows)
  /\ saved' = saved \cup rows
  /\ waiting' = waiting \ rows

GiveUp(rows) ==
  /\ waiting' = waiting \ rows
  /\ UNCHANGED saved

LogNext ==
  \/ \E f \in Feed, n \in 1..MaxRow : Offer(n, f)
  \/ \E rows \in SUBSET waiting : Save(rows) \/ GiveUp(rows)

LogSpec == LogInit /\ [][LogNext]_logVars
=============================================================================
