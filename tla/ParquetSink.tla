----------------------------- MODULE ParquetSink -----------------------------
(***************************************************************************)
(* The way of a row to disk (sinks/parquet_sink.py): BoundedRowQueue, into *)
(* which the feed clients put rows, ParquetSink with its consumer, its     *)
(* watchdog and its final clean-up, one _RotatingWriter per feed, and the  *)
(* process around them, which may die and be started again over the same   *)
(* output directory.                                                       *)
(*                                                                         *)
(* asyncio runs one task at a time: an action is what runs between two     *)
(* awaits.  The one exception is the consumer's turn, split in two at the  *)
(* top of its loop ("top") because flushing takes time: the clocks may     *)
(* move there, but no other task may run.                                  *)
(*                                                                         *)
(* Abstraction.  Clocks are ages, counted in ticks and capped at the       *)
(* interval they are compared with.  A row is its number, its feed and its *)
(* hour.  The watchdog may look at any moment.  A table that cannot be     *)
(* written leaves nothing of itself in its file.  "lost" and the other     *)
(* history variables are not in the code.                                  *)
(***************************************************************************)
EXTENDS Integers, Sequences, FiniteSets

CONSTANTS
  Feed,                \* (exchange, symbol) pairs
  QueueMax,            \* queue_maxsize (asyncio takes 0 for "unbounded")
  BatchSize,           \* batch_size
  FlushInterval,       \* flush_interval_seconds
  CheckpointInterval,  \* checkpoint_interval_seconds
  StallTimeout,        \* stall_timeout_seconds
  IOFails,             \* which flushes an I/O error may strike: see MayFail
  HourReuse,           \* how an hour that has files may come again: the wall clock
                       \* is set back, or a new process starts within the hour
  MaxRow,              \* bound: rows ever put
  MaxHour              \* bound: hours the wall clock shows

ASSUME SinkAssumption ==
  /\ {QueueMax, BatchSize, FlushInterval, CheckpointInterval, StallTimeout} \subseteq Nat \ {0}
  /\ {MaxRow, MaxHour} \subseteq Nat \ {0}
  /\ IOFails \in {"never", "within_hour", "always"}
  /\ HourReuse \subseteq {"clock", "restart"}

VARIABLES
  hour,            \* of the wall clock
  put,             \* rows put so far
  queue,           \* BoundedRowQueue._queue
  buffer,          \* ParquetSink._buffer
  sinceFlush,      \* age of _last_flush
  sinceProgress,   \* age of _last_progress_at
  pc,              \* where _consume is: "top", "waiting" or "taking"
  waitFor,         \* the timeout it gave wait_for
  sink,            \* where run() is
  writer,          \* the _RotatingWriters
  files,           \* the finalized files: <<feed, hour, part>> -> rows
  dropped,         \* history: rows evicted from the queue
  lost,            \* history: rows a dead process had not finalized
  ioFailed         \* history: writing has failed

sinkVars == <<hour, put, queue, buffer, sinceFlush, sinceProgress, pc, waitFor,
              sink, writer, files, dropped, lost, ioFailed>>
clockVars    == <<sinceFlush, sinceProgress>>
consumerVars == <<buffer, pc, waitFor>>
diskVars     == <<writer, files>>
historyVars  == <<dropped, lost, ioFailed>>

Row == [id : 1..MaxRow, feed : Feed, hour : 1..MaxHour]
Ids(rows) == {rows[i].id : i \in DOMAIN rows}

(* "closing": the task group is over and run()'s finally is still to come. *)
SinkStates == {"running", "closing", "ended", "dead"}

SinkTypeOK ==
  /\ hour \in 1..MaxHour
  /\ put \in 0..MaxRow
  /\ queue \in Seq(Row) /\ Len(queue) <= QueueMax
  /\ buffer \in Seq(Row) /\ Len(buffer) <= BatchSize
  /\ sinceFlush \in 0..FlushInterval
  /\ sinceProgress \in 0..StallTimeout
  /\ pc \in {"top", "waiting", "taking"}
  /\ waitFor \in 1..FlushInterval
  /\ sink \in SinkStates
  /\ \A f \in Feed :
       /\ writer[f].rows \in Seq(Row)
       /\ writer[f].age \in 0..CheckpointInterval
       /\ writer[f].open => writer[f].next > 0 /\ writer[f].hour \in 1..MaxHour
  /\ \A k \in DOMAIN files : files[k] \in Seq(Row)
  /\ (dropped \cup lost) \subseteq 1..put
  /\ ioFailed \in BOOLEAN

-----------------------------------------------------------------------------
(* _RotatingWriter.  A disk is a record of all the writers and the files.  *)
NewWriter == [open |-> FALSE, hour |-> 0, next |-> 0, rows |-> <<>>, age |-> 0]

Disk == [writer |-> writer, files |-> files]
SetDisk(disk) == writer' = disk.writer /\ files' = disk.files

(* The finalized file the open one of feed f is to become.                 *)
Part(disk, f) == <<f, disk.writer[f].hour, disk.writer[f].next - 1>>

Closed(w) == [open |-> FALSE, hour |-> w.hour, next |-> w.next, rows |-> <<>>, age |-> 0]

(* The open files of the feeds in S get their final names.  Path.replace:  *)
(* a file of the same name is gone.                                        *)
Finalize(disk, S) ==
  LET parts == {Part(disk, f) : f \in {g \in S : disk.writer[g].open}}
  IN  [writer |-> [f \in Feed |-> IF f \in S /\ disk.writer[f].open
                                  THEN Closed(disk.writer[f]) ELSE disk.writer[f]],
       files  |-> [k \in DOMAIN disk.files \cup parts |->
                     IF k \in parts THEN disk.writer[k[1]].rows ELSE disk.files[k]]]

(* Mutant: the numbering starts again with every file.                     *)
OpenAtZero(disk, f, h) ==
  [disk EXCEPT !.writer[f] = [open |-> TRUE, hour |-> h, next |-> 1, rows |-> <<>>, age |-> 0]]

Open(disk, f, h) ==
  [disk EXCEPT !.writer[f] =
     [open |-> TRUE, hour |-> h, next |-> IF h = @.hour THEN @.next + 1 ELSE 1,
      rows |-> <<>>, age |-> 0]]

(* Mutant: only the checkpoint interval rotates.                           *)
NeedsRotationByAge(w, h) == ~ w.open \/ w.age >= CheckpointInterval

NeedsRotation(w, h) == ~ w.open \/ w.hour # h \/ w.age >= CheckpointInterval

WriteBatch(disk, rows) ==
  LET f == rows[1].feed
      h == rows[1].hour
      ready == IF NeedsRotation(disk.writer[f], h)
               THEN Open(Finalize(disk, {f}), f, h) ELSE disk
  IN [ready EXCEPT !.writer[f].rows = @ \o rows]

(* _flush: a batch is split into groups, each of them written by itself.   *)
GroupOf(r) == <<r.feed, r.hour>>

RowsOfGroup(rows, g) ==
  LET found[n \in 0..Len(rows)] ==
        IF n = 0 THEN <<>>
        ELSE IF GroupOf(rows[n]) = g THEN Append(found[n - 1], rows[n]) ELSE found[n - 1]
  IN  found[Len(rows)]

(* The places of the rows that are the first of their group.               *)
Leads(rows) == {n \in DOMAIN rows : \A m \in 1..n - 1 : GroupOf(rows[m]) # GroupOf(rows[n])}

WriteGroup(disk, rows, g) == WriteBatch(disk, RowsOfGroup(rows, g))

(* Mutant: the groups come in some other order, as a set might give them.  *)
FlushToBackwards(disk, rows, n) ==
  LET written[m \in 0..Len(rows)] ==
        IF m = 0 THEN disk
        ELSE IF Len(rows) + 1 - m \in Leads(rows)
             THEN WriteGroup(written[m - 1], rows, GroupOf(rows[Len(rows) + 1 - m]))
             ELSE written[m - 1]
  IN  written[n]

(* Groups come in the order of their first rows: the disk when those with  *)
(* one among the first n rows are written.                                 *)
FlushTo(disk, rows, n) ==
  LET written[m \in 0..Len(rows)] ==
        IF m = 0 THEN disk
        ELSE IF m \in Leads(rows)
             THEN WriteGroup(written[m - 1], rows, GroupOf(rows[m]))
             ELSE written[m - 1]
  IN  written[n]

Flush(disk, rows) == FlushTo(disk, rows, Len(rows))

(* What a flush leaves behind that fails on the group row n leads: before  *)
(* or in finalizing the old file, in making the directory, in creating the *)
(* new file, or in writing the table to it.                                *)
FailOn(disk, rows, n) ==
  LET before == FlushTo(disk, rows, n - 1)
      f == rows[n].feed
      h == rows[n].hour
      closed == Finalize(before, {f})
      opened == Open(closed, f, h)
  IN  {before} \cup
      IF ~ NeedsRotation(before.writer[f], h) THEN {}
      ELSE {closed, [opened EXCEPT !.writer[f].open = FALSE], opened}

FailedFlushes(disk, rows) == UNION {FailOn(disk, rows, n) : n \in Leads(rows)}

SpansHours(rows) ==
  \E i, j \in DOMAIN rows : rows[i].feed = rows[j].feed /\ rows[i].hour # rows[j].hour

(* An I/O error strikes no flush, any flush, or any but those that hold    *)
(* rows of one feed from two hours.                                        *)
MayFail(rows) == \/ IOFails = "always"
                 \/ IOFails = "within_hour" /\ ~ SpansHours(rows)

-----------------------------------------------------------------------------
SinkInit ==
  /\ hour = 1 /\ put = 0
  /\ queue = <<>> /\ buffer = <<>>
  /\ sinceFlush = 0 /\ sinceProgress = 0
  /\ pc = "top" /\ waitFor = FlushInterval
  /\ sink = "running"
  /\ writer = [f \in Feed |-> NewWriter] /\ files = <<>>
  /\ dropped = {} /\ lost = {} /\ ioFailed = FALSE

Least(a, b) == IF a <= b THEN a ELSE b

Tick ==
  /\ sink = "running"
  /\ sinceFlush' = Least(sinceFlush + 1, FlushInterval)
  /\ sinceProgress' = Least(sinceProgress + 1, StallTimeout)
  /\ writer' = [f \in Feed |-> IF writer[f].open
                  THEN [writer[f] EXCEPT !.age = Least(@ + 1, CheckpointInterval)]
                  ELSE writer[f]]
  /\ UNCHANGED <<hour, put, queue, consumerVars, sink, files, dropped, lost, ioFailed>>

(* The wall clock goes on, by any number of hours, or is set back.         *)
NewHour ==
  /\ \E h \in 1..MaxHour :
       /\ h > hour \/ ("clock" \in HourReuse /\ h < hour)
       /\ hour' = h
  /\ UNCHANGED <<put, queue, consumerVars, clockVars, sink, diskVars, historyVars>>

OthersMayRun == sink \in {"closing", "ended"} \/ (sink = "running" /\ pc = "waiting")

(* A feed client puts a row; a full queue gives up its oldest.             *)
Put(f) ==
  /\ OthersMayRun /\ put < MaxRow
  /\ put' = put + 1
  /\ LET row == [id |-> put + 1, feed |-> f, hour |-> hour]
     IN IF Len(queue) < QueueMax
        THEN queue' = Append(queue, row) /\ UNCHANGED dropped
        ELSE queue' = Append(Tail(queue), row) /\ dropped' = dropped \cup {queue[1].id}
  /\ UNCHANGED <<hour, consumerVars, clockVars, sink, diskVars, lost, ioFailed>>

-----------------------------------------------------------------------------
(* The top of _consume's loop.  An interval that is over is closed here,   *)
(* with or without rows, so that wait_for gets a positive timeout.         *)
NewInterval ==
  /\ sinceFlush' = 0
  /\ waitFor' = FlushInterval
  /\ buffer' = <<>>
  /\ SetDisk(IF buffer = <<>> THEN Disk ELSE Flush(Disk, buffer))

(* Mutant, the code before M8: the timeout is clamped to zero instead.     *)
WaitClamped ==
  /\ sink = "running" /\ pc = "top"
  /\ waitFor' = FlushInterval - sinceFlush
  /\ pc' = IF waitFor' > 0 /\ queue # <<>> THEN "taking" ELSE "waiting"
  /\ UNCHANGED <<hour, put, queue, buffer, clockVars, sink, diskVars, historyVars>>

(* get() hands over a row that is there without letting go of the loop     *)
(* ("taking"); otherwise the consumer is suspended.                        *)
Wait ==
  /\ sink = "running" /\ pc = "top"
  /\ pc' = IF queue # <<>> THEN "taking" ELSE "waiting"
  /\ \/ /\ sinceFlush = FlushInterval
        /\ NewInterval
     \/ /\ sinceFlush < FlushInterval
        /\ waitFor' = FlushInterval - sinceFlush
        /\ UNCHANGED <<sinceFlush, buffer, diskVars>>
  /\ UNCHANGED <<hour, put, queue, sinceProgress, sink, historyVars>>

(* Mutant: one row too many.                                               *)
DueLate(rows) == Len(rows) > BatchSize \/ (rows # <<>> /\ sinceFlush = FlushInterval)

Due(rows) == Len(rows) >= BatchSize \/ (rows # <<>> /\ sinceFlush = FlushInterval)

(* After the wait: flush if it is time to, else only keep the row.         *)
AfterWait(rows, progressAge) ==
  /\ pc' = "top"
  /\ \/ /\ Due(rows)
        /\ SetDisk(Flush(Disk, rows))
        /\ buffer' = <<>> /\ sinceFlush' = 0 /\ sinceProgress' = 0
     \/ /\ ~ Due(rows)
        /\ buffer' = rows /\ sinceProgress' = progressAge
        /\ UNCHANGED <<sinceFlush, diskVars>>

Waiting == sink = "running" /\ pc = "waiting"

(* With a timeout of zero wait_for would cancel get() before it ran.  A    *)
(* row and the timeout may come together: then either is seen.             *)
GetRow ==
  /\ sink = "running" /\ pc # "top"
  /\ waitFor > 0 /\ queue # <<>>
  /\ queue' = Tail(queue)
  /\ AfterWait(Append(buffer, queue[1]), 0)
  /\ UNCHANGED <<hour, put, waitFor, sink, historyVars>>

TimeOut ==
  /\ Waiting /\ sinceFlush = FlushInterval
  /\ AfterWait(buffer, sinceProgress)
  /\ UNCHANGED <<hour, put, queue, waitFor, sink, historyVars>>

-----------------------------------------------------------------------------
(* A flush of the consumer's fails: the task group falls, and run()'s      *)
(* finally finds all of the batch still in the buffer.                     *)
FlushFails ==
  /\ sink = "running"
  /\ \/ /\ pc = "top" /\ sinceFlush = FlushInterval /\ buffer # <<>>
        /\ UNCHANGED <<queue, buffer>>
     \/ /\ Waiting /\ sinceFlush = FlushInterval /\ buffer # <<>>
        /\ UNCHANGED <<queue, buffer>>
     \/ /\ pc # "top" /\ queue # <<>> /\ Due(Append(buffer, queue[1]))
        /\ queue' = Tail(queue) /\ buffer' = Append(buffer, queue[1])
  /\ MayFail(buffer')
  /\ \E disk \in FailedFlushes(Disk, buffer') : SetDisk(disk)
  /\ ioFailed' = TRUE
  /\ sink' = "closing"
  /\ UNCHANGED <<hour, put, pc, waitFor, clockVars, dropped, lost>>

WatchdogFires ==
  /\ Waiting
  /\ sinceProgress = StallTimeout /\ queue # <<>>
  /\ sink' = "closing"
  /\ UNCHANGED <<hour, put, queue, consumerVars, clockVars, diskVars, historyVars>>

(* The supervisor cancels the sink's task.                                 *)
CancelSink ==
  /\ Waiting
  /\ sink' = "closing"
  /\ UNCHANGED <<hour, put, queue, consumerVars, clockVars, diskVars, historyVars>>

(* run()'s finally.  Mutant: the writers are left open.                    *)
FinishOpen ==
  /\ sink = "closing"
  /\ sink' = "ended"
  /\ buffer' = <<>>
  /\ SetDisk(IF buffer = <<>> THEN Disk ELSE Flush(Disk, buffer))
  /\ UNCHANGED <<hour, put, queue, pc, waitFor, clockVars, historyVars>>

Finish ==
  /\ sink = "closing"
  /\ sink' = "ended"
  /\ buffer' = <<>>
  /\ SetDisk(Finalize(IF buffer = <<>> THEN Disk ELSE Flush(Disk, buffer), Feed))
  /\ UNCHANGED <<hour, put, queue, pc, waitFor, clockVars, historyVars>>

(* The final flush fails and nothing is closed, or a writer does not close *)
(* and those after it are not tried.                                       *)
FinishFails ==
  /\ sink = "closing" /\ MayFail(buffer)
  /\ sink' = "ended"
  /\ ioFailed' = TRUE
  /\ \/ \E disk \in FailedFlushes(Disk, buffer) : SetDisk(disk) /\ UNCHANGED buffer
     \/ \E S \in SUBSET Feed \ {Feed} :
          SetDisk(Finalize(Flush(Disk, buffer), S)) /\ buffer' = <<>>
  /\ UNCHANGED <<hour, put, queue, pc, waitFor, clockVars, dropped, lost>>

-----------------------------------------------------------------------------
InMemory == Ids(queue) \cup Ids(buffer)
OnTheWay == UNION {Ids(writer[f].rows) : f \in Feed}
OnDisk   == UNION {Ids(files[k]) : k \in DOMAIN files}

(* The process ends, of itself or killed: only finalized files remain.     *)
Die ==
  /\ sink # "dead"
  /\ sink' = "dead"
  /\ lost' = lost \cup ((InMemory \cup OnTheWay) \ OnDisk)
  /\ queue' = <<>> /\ buffer' = <<>>
  /\ writer' = [f \in Feed |-> NewWriter]
  /\ UNCHANGED <<hour, put, pc, waitFor, clockVars, files, dropped, ioFailed>>

Restart ==
  /\ sink = "dead"
  /\ "restart" \in HourReuse \/ \A k \in DOMAIN files : k[2] < hour
  /\ sink' = "running"
  /\ pc' = "top" /\ waitFor' = FlushInterval
  /\ sinceFlush' = 0 /\ sinceProgress' = 0
  /\ UNCHANGED <<hour, put, queue, buffer, diskVars, historyVars>>

-----------------------------------------------------------------------------
SinkNext ==
  \/ Tick \/ NewHour
  \/ \E f \in Feed : Put(f)
  \/ Wait \/ GetRow \/ TimeOut \/ FlushFails
  \/ WatchdogFires \/ CancelSink \/ Finish \/ FinishFails
  \/ Die \/ Restart

SinkSpec == SinkInit /\ [][SinkNext]_sinkVars

(* Time passes, and the event loop runs the consumer whenever its wait is  *)
(* over.  Nothing is assumed of the watchdog: it is a second line.         *)
FairSinkSpec ==
  /\ SinkSpec
  /\ WF_sinkVars(Tick)
  /\ WF_sinkVars(Wait)
  /\ WF_sinkVars(GetRow \/ TimeOut)

-----------------------------------------------------------------------------
(* Every row a feed has put is, at every moment, dropped by the queue,     *)
(* lost with a process, or in exactly one of the queue, the buffer, an     *)
(* open file and the finalized ones (parquet_sink.py:131-141, 213-252,     *)
(* 300-305, 333-356): no hand-over between them skips or repeats one, and  *)
(* no file is written over.  Only an I/O error may leave copies behind.    *)
RowsAccounted ==
  /\ 1..put = dropped \cup lost \cup InMemory \cup OnTheWay \cup OnDisk
  /\ ~ ioFailed =>
       LET places == <<dropped, lost, Ids(queue), Ids(buffer), OnTheWay, OnDisk>>
       IN /\ \A i, j \in DOMAIN places : i # j => places[i] \cap places[j] = {}
          /\ \A k, l \in DOMAIN files : k # l => Ids(files[k]) \cap Ids(files[l]) = {}

(* A file holds rows of its own feed and hour, oldest first, and of two    *)
(* files of the same hour the one with the smaller number is the older,    *)
(* whatever the batches, rotations and restarts in between                 *)
(* (parquet_sink.py:213-243, 389-407).                                     *)
FilesInOrder ==
  \A k \in DOMAIN files :
    /\ \A i \in DOMAIN files[k] : GroupOf(files[k][i]) = <<k[1], k[2]>>
    /\ ~ ioFailed =>
         /\ \A i, j \in DOMAIN files[k] : i < j => files[k][i].id < files[k][j].id
         /\ \A l \in DOMAIN files :
              k[1] = l[1] /\ k[2] = l[2] /\ k[3] < l[3] =>
                \A a \in Ids(files[k]), b \in Ids(files[l]) : a < b

(* When run() has ended without an I/O error, through the watchdog or a    *)
(* cancellation, every row it took off the queue is in a finalized file    *)
(* (parquet_sink.py:300-305).                                              *)
EndedMeansWritten ==
  sink = "ended" /\ ~ ioFailed =>
    1..put = dropped \cup lost \cup Ids(queue) \cup OnDisk

(* To a feed, queue and sink together are a RowLog: rows are saved in the  *)
(* order it put them, given up or still waiting, and saved for good,       *)
(* whatever the batches, checkpoints, hours, I/O errors, shutdowns and     *)
(* crashes in between (parquet_sink.py:119-141, 213-255, 300-356).         *)
RowsOf(rows) == {<<rows[i].id, rows[i].feed>> : i \in DOMAIN rows}
SavedRows == UNION {RowsOf(files[k]) : k \in DOMAIN files}
WaitingRows ==
  (RowsOf(queue) \cup RowsOf(buffer) \cup UNION {RowsOf(writer[f].rows) : f \in Feed})
    \ SavedRows

Log == INSTANCE RowLog WITH waiting <- WaitingRows, saved <- SavedRows

ImplementsRowLog == Log!LogSpec

(* While the sink runs, the queue and the buffer are emptied again and     *)
(* again, however late the consumer is woken up (the livelock of           *)
(* parquet_sink.py:310-331).                                               *)
RowsAreWritten == []<>(sink # "running" \/ (queue = <<>> /\ buffer = <<>>))

(* parquet_sink.py:181-185: once a file has its final name, its rows stay. *)
FinalizedRowsSurvive ==
  [][\A k \in DOMAIN files : k \in DOMAIN files' /\ Ids(files[k]) \subseteq Ids(files'[k])]_sinkVars

=============================================================================
