# TLA+ models of the L2 order book pipeline

The pipeline keeps the top of two exchanges' order books and writes a row to
Parquet for every change. These modules model the parts of it in which a row
can go wrong, get lost or stop coming: the book engine, the two feed clients,
the supervisor and the sink, and the simulation the engine is tested with. TLC
checks small instances of them. TLAPS proves for every value of the constants
what the passing runs check of them, all but what must eventually happen;
section 4 says from which assumptions.

Paths below are relative to the repository's `src/l2_pipeline/`.

## 1. Inventory

One asyncio event loop runs everything except the metrics server, so nothing
is preempted: the interleavings are those of coroutines at their awaits. What
makes the code hard is state read before an await and used after it, events
that several coroutines set and clear, cancellation, and two networks.

| Component | State | Operations | Used by |
|---|---|---|---|
| Book engine (`book/engine.py`) | state, the two sides, last applied id, buffer | `apply_event`, `load_snapshot`, `invalidate` | one feed client at a time; outlives it |
| Connection manager (`feeds/connection.py`) | state, attempt, message seen | `connecting`, `connected`, `message_received`, `disconnected` | the client's run loop |
| Binance client (`feeds/binance.py`) | websocket, `resync_needed`, worker | `run`, `_reader_loop`, `_resync_worker` and its REST snapshots | the supervisor's factory |
| OKX client (`feeds/okx.py`) | as above, retry count | `run`, `_reader_loop` (loads pushed snapshots), `_resync_worker` (resubscribes) | the supervisor's factory |
| Token bucket (`feeds/ratelimit.py`) | tokens, last refill | `try_acquire`, `time_until_available` | both clients |
| Row queue and sink (`sinks/parquet_sink.py`) | queue, buffer, writers, two clocks | `put`; `_consume`, `_watchdog`, `_flush`, `run`'s clean-up | clients put rows; the supervisor runs the sink |
| Supervisor (`supervisor.py`) | per feed state, restart count and times; shutdown event | `_run_feed`, `_run_sink`, `run`, `request_shutdown` | `app.py` |
| Wiring (`app.py`) | one engine per feed, one queue, one sink | feed factory, start-up, signal handlers | |
| Simulation (`simulation/`) | a ground-truth market; a fault injector's held event and drop window; a driver | `step`, `snapshot`; `poll`, `request_snapshot`; `run_step`, `_sync` with its retries | the tests, `scripts/stress_replay.py` |
| Metrics, config, logging, row building | none that lasts | read-only or start-up only | |

What makes each of them correct, and what is hard about it:

* **Book engine.** A LIVE book is exactly the exchange's at its checkpoint,
  whatever was lost, repeated, reordered or late; otherwise nothing is shown.
  Hard: which buffered events survive a snapshot, which must straddle it, a gap
  in the middle of a replay.
* **Connection manager.** A client that never gets a message through hands over
  to the supervisor instead of retrying for ever.
* **Binance client.** Reader and worker share the engine without a lock, and the
  REST request spans awaits: no snapshot for a LIVE engine, no lost wakeup, no
  rows going back in time, recovery once the network is calm.
* **OKX client.** The snapshot arrives among the updates, and asking for another
  takes two sends with a throttle before them, across which the connection may
  change.
* **Supervisor.** The restart budget over a rolling window, truthful states, a
  shutdown that reaches every task in whatever state it is.
* **Token bucket.** A caller who sleeps for as long as it is told finds its tokens
  there, whatever happened meanwhile: the result of `try_acquire` is ignored. In
  no stretch of time does more go ahead than a full bucket and its refill pay for.
* **Simulation.** A market that never crosses; after a step that delivered
  anything the engine stands where the market stands; the retry limit is reached
  only through delayed snapshots. Hard: faults that meet, a gap among several
  events of one step, an event held back across a resync.
* **Sink.** Every row is in exactly one place until it is in a final file; files
  are ordered and hold their own hour; the consumer never livelocks; a restart
  does not undo what was written.

`PROJECT.json` lists the hazards at their lines. Those without a property
are what the code does, so that no property can forbid it, or lie outside the
runs; each has a note. Among them: the backoff of a feed overflows after a thousand
restarts (`ReportedTruly` and `RestartsFollow` except it), a wall clock set back
over an hour boundary overwrites files (in the model, and enabled in no run), and
the rows still queued at a graceful shutdown are lost (`EndedMeansWritten` speaks
of the rows the sink had taken).

## 2. The modules

| Module | What it models |
|---|---|
| `BookEngine` | The engine's operations as actions over `state`, `book`, `lastAppliedId`, `buffer`. A book is a function from price level to quantity, 0 for "not there"; both sides are one function, as the code treats them alike. The replay loop is written in closed form (`Survivors`, `FirstStraddles`, `Breaks`, `Replayed`) so that it can be proved about. |
| `BookSync` | The engine behind an exchange that tells the truth (`simulation/market.py`) over a path that promises nothing: any true event or snapshot, at any time, any number of times or never. |
| `MirrorBook` | The abstract specification: a reader sees nothing, or the exchange's exact book at an id that only grows. |
| `BookReplay` | `load_snapshot`'s filter and loop turn by turn, to compare with the closed form. Its recursive functions stand for the two loops; a RECURSIVE operator could not be proved about. |
| `Connection` | The connection manager; both clients extend it. |
| `BinanceFeed` | The client: `StartConnecting`, `Connect`, `LoseConnection` (run loop), `Receive`, `SkipMalformed` (reader), `WakeUp` to `FinishClose` (worker), `Restart` and `Cancel` (supervisor). |
| `OKXFeed` | The client and the far end of its websocket: requests one way, pushes the other, both lost with the connection. |
| `TokenBucket` | The bucket, in units of one token; `OKXFeed` extends it for the resubscribe throttle and keeps the sleep beside it. |
| `Throttle` | A caller of a bucket, as `feeds/okx.py:271-274`, `587-594` and `feeds/binance.py:472-475` all write it, and the time that passes (`Ask`, `FallAsleep`, `WakeUp`, `Tick`). It is there to be proved about. |
| `Supervisor` | `_run_feed`, `_run_sink` and `run` with cancellation in two steps (requested, delivered), and the two ways a client swallows it. |
| `ParquetSink` | Queue, consumer, watchdog, writers, files, and a process that dies and is started again. |
| `RowLog` | The abstract specification of queue and sink: rows wait, those of one feed are saved oldest first, some are given up, none that is saved is lost again. |
| `MarketSimulator` | The ground truth of the tests: `BookSync`'s exchange with the choice of its next book spelled out. |
| `Simulation` | `FaultInjector` (`Inject`, `Servable`) and `SimulatedFeedDriver` (`Poll`, `ApplyNext`, `EndStep`, `SyncTry`) around market and engine, and the fault-free tail of a test (`StartTail`). |
| `MCBookSync`, `MCBinanceFeed`, `MCOKXFeed`, `MCSupervisor`, `MCParquetSink`, `MCSimulation` | Instances. |
| `BookSyncProofs`, `BinanceFeedProofs`, `OKXFeedProofs`, `SupervisorProofs`, `ParquetSinkProofs`, `SimulationProofs`, `ThrottleProofs` | Proofs about the module of that name; `BookSyncProofs` also about `BookReplay`, `SimulationProofs` about `MarketSimulator`. |
| `DataFacts` | Lemmas about least elements, sequences and first elements that several of them use. |

`BinanceFeed` and `OKXFeed` extend `BookSync` and `Connection`: their variables
are the engine's, the exchange's, the connection's and the client's own. Both
have `ImplementsBookSync` (the client does to its engine only what `BookSync`
allows) as a checked property, so what holds in `BookSync` holds of the book
each client keeps; `Simulation` has it too, for the book of every simulated run.
`BookSync` in turn implements `MirrorBook`, and `ParquetSink` implements
`RowLog`.

An action is what runs between two awaits. Where a method awaits nothing, it is
one action with everything it calls. The consumer of `ParquetSink` is the one
place where an action is finer: flushing takes time, so the clocks may move
between a flush and the top of the loop, though no other task may run there.
`Simulation` is one thread; a `run_step` is cut at each call of the engine, so that
a step of it is at most one step of `BookSync`.

### How state maps to code

`resyncNeeded` is the `asyncio.Event`; `worker` is the line the resync worker is
suspended at; `wsOpen` is whether `_current_ws` is there and not closed;
`outcome` is how `run()` ended. `streamed` and `pushed` say how far the exchange
has got on this connection and stand for the bytes in between. In `Supervisor`,
`loop` is the line of `_run_feed` and `toCancel` the tasks with a
`CancelledError` on its way. In `ParquetSink`, `sinceFlush`, `sinceProgress` and
a writer's `age` are differences `clock() - x` capped at the interval they are
compared with, so the clocks are unbounded although the state is finite.
History variables (`calm`, `snapshotLost`, `crashes`, `swallowed`, `lost`,
`dropped`, `ioFailed`, `lastRow`, `delivered`, `sampled`, `spent`, `spentBy`) are read by properties, or limit an
assumption in time; no modelled decision of the code depends on them. Operators
marked "Mutant" are plausible mistakes in the definition after them. No
specification uses them: putting one in place of its definition must make TLC
refute a property.

## 3. The runs

| Run | Instance | Shows |
|---|---|---|
| `book_sync` | `MCBookSync.cfg` | With any truthful events and snapshots in any order: a LIVE book is exact, an engine out of sync shows nothing, unbroken buffers always replay, the closed form of the replay is the loop, no second cold start, the engine implements the mirror. |
| `binance_feed` | `MCBinanceFeed.cfg` | The Binance client with every fault: no load into a LIVE engine, no lost wakeup, rows never go back by more than the exchange's own lag, recovery, no silent retrying, implements `BookSync`. |
| `okx_feed` | `MCOKXFeed.cfg` | The OKX client likewise, with late, refused and unparsable snapshots: a resync is always coming unless the snapshot itself was lost, each resync has the full retry budget, each resubscribe is paid for with its tokens, recovery. |
| `supervisor` | `MCSupervisor.cfg` | The restart budget is exactly that of a rolling window, the states shown are true, a feed shown as RESTARTING restarts while its backoff can be computed, and a shutdown completes unless a client swallows its cancellation. |
| `sink` | `MCParquetSink.cfg` | Every row is accounted for, files are ordered and hold their own hour, a sink that has ended has written all it took, a finalized file keeps its rows, queue and sink implement `RowLog`, the queue and buffer are emptied again and again. |
| `simulation` | `MCSimulation.cfg` | The market never crosses; the engine converges with every step that delivers an event and for good in the fault-free tail; recent snapshots always load; no update is sampled twice; the simulation implements `BookSync`. |

Six more runs refute what a document or comment of the repository says; the
findings in `PROJECT.json` quote it.

| Run | Refuted | What happens |
|---|---|---|
| `binance_worker` | `WorkerSurvives` | A 5xx status or an unparsable body ends the resync worker of a running client (`feeds/binance.py:534`). |
| `okx_refused` | `NeverLoadsWhileLive` | A resubscribe throttled across a reconnect makes the exchange push a snapshot to a LIVE engine, which raises and drops a healthy connection (`feeds/okx.py:586-611`). |
| `okx_malformed` | `LostPushSurfaces` | An unparsable snapshot leaves an open connection on which nothing asks for another (`feeds/okx.py:509`). |
| `supervisor_shutdown` | `ShutdownStopsFeeds` | A dead worker's error replaces the cancellation at shutdown; the feed is restarted and `run()` never returns (`feeds/binance.py:284`, `supervisor.py:110`). |
| `sink_overwrite` | `FinalizedRowsSurvive` | A process started again within the hour overwrites `part-0000` (`sinks/parquet_sink.py:231-249`). |
| `sink_reflush` | `FinalizedRowsSurvive` | After an I/O error in a flush that spans an hour boundary, the final flush begins again with the old hour, whose numbering has been forgotten, and replaces that hour's `part-0000` (`sinks/parquet_sink.py:301-302`, `234-235`). |

The passing runs include the faults behind these: their properties say what
holds all the same, and name the exception (`worker = "dead"`, `snapshotLost`,
`swallowed`). Only the two of the sink are left out of its passing run, by
constants: `HourReuse` says how an hour that has files may come again (the wall
clock is set back, which no run enables, or a process starts within the hour,
as in `sink_overwrite`; neither in `sink`), and
`IOFails` which flushes an I/O error may strike (in `sink`, all but those that
hold rows of one feed from two hours; within those it may strike at any group
and at any point of the group).

### Bounds

* `book_sync`: one price level with two quantities, three updates, three events
  held back. Three updates are the fewest with which a buffer can start in the
  middle, break in the middle, and have a snapshot fall before, inside and after
  it. Levels do not interact, and the proofs cover any number of them.
* `binance_feed`: `Level = {}`. The client never looks at a book's contents, and
  `ImplementsBookSync` with the theorem `BinanceBookExact` covers them; without
  them three updates, two buffered events, two retries of each kind and every
  fault fit into one run. A retry limit of two has a first, a middle and a last
  attempt.
* `okx_feed`: one level (so that a wrong parse shows in the book), three updates,
  two messages under way: a snapshot can be in front of or behind an update. A
  bucket of two tokens pays for one resubscribe, so the next has to wait.
  `okx_refused` takes four updates, two for each of the gaps it needs.
* `RestLag` and `SnapshotLag` of 1 let a snapshot be older than the stream, which
  is what makes it stale, or makes a replay end in a gap. From `calm` on they
  are 0: a snapshot source that lags for ever may well never let a client
  recover.
* `supervisor`: two feeds; a window of two ticks in a run of four instants with a
  budget of two, so that crashes fall inside, at the edge of and outside a
  window; `MaxExponent` of 2 lets the backoff overflow happen.
* `simulation`: a market of three prices with one level a side, so that the sides
  have one price to meet at; five updates, drop windows and snapshot delays of up
  to two, two tries. Five updates leave room for a fault, a second one before its
  gap is seen, a resync with the oldest snapshot there is, and a tail.
* `sink`: two feeds, four rows, two hours, a queue and a batch of two, intervals
  of two ticks: an overflow, a batch that spans feeds and hours, a rotation by
  age and by hour, and up to two files of one hour are all reached.

`CHECK_DEADLOCK FALSE` is set throughout: the updates, rows or ticks of an
instance run out, and a cancelled client, a sink that has ended and a `run()`
that has returned really stop.

### Fairness

Weak fairness is put on what the event loop does of itself: a coroutine that can
run does; a sleep, a handshake, a request and a `close()` end, as each has a
timeout; a requested cancellation is delivered; for OKX the exchange answers
what it was asked. It is not put on messages, errors, the market, crashes, the
watchdog or a shutdown request. The `Recovers` properties assume that the
network calms down at some point (`<>calm` is their hypothesis, not fairness);
before that everything may fail at any time. In the sink, time passes (`Tick`);
`get()` takes a row that is already there without giving up the loop, which is
why a timeout cannot win against it for ever. In `OKXFeed` a throttle's sleep ends
because time passes (`Tick`); in `Simulation` the driver's loop goes on, and
nothing is assumed of which faults come up or whether the tail ever starts.

## 4. The proofs

`BookSyncProofs` proves, for any set of levels, quantities and any history:

* `TypeCorrect`, `LiveBookExact`, `UnsyncedEmpty`, from the inductive invariant
  `IInv == TypeOK /\ LiveBookIsExact /\ UnsyncedShowsNothing`. The exactness of
  the book is not inductive alone: a replay is exact only because each buffered
  event is truthful (in `TypeOK`), and an event applied in order only because the
  book it is applied to was exact at the event's `prev`. The heart is
  `ReplayIsExact`: by induction along the unbroken run of survivors, written out
  as a least counterexample (`NatLeast`), each survivor leaves the book of its
  final id.
* `InOrderAlwaysReplays`: every unbroken buffer that reaches back to the snapshot
  is replayed in whole, that is, the sync procedure fails only when something
  was lost.
* `ReplayIsLoop`: the closed form of the replay, which all of the above is about,
  is what the filter and the loop of `load_snapshot` compute, for a buffer of any
  length. The filter lists the survivors in the order of their places in the
  buffer (`KeptPlaces`), so that a gap in the walk is a break in the buffer
  (`BreakPlaces`); the walk is then followed turn by turn up to the first break
  (`Walks`), or to the end, where its book is `Replayed`'s because levels are set
  one event after the other (`BookGrows`).
* `NoSecondColdStart`, an action property.
* `EngineImplementsMirror`: initial states map to initial states, each step to a
  step of the mirror or a stutter.

`BinanceFeedProofs`:

* `WorkerNeverLoadsLive` and `NoWakeupLost` from `FeedIInv` (the two promises and
  that the stream is read no further than the exchange has got).
* `BinanceImplementsBookSync`, step by step; from it, what is proved of
  `BookSync` for the book of this client: `BinanceBookExact`,
  `BinanceImplementsMirror` (what a reader of the running client sees), and
  `BinanceReplaysInOrder` (a resync fails only over something lost or a snapshot
  too old).
* `RowsKeepOrder`: no row shows an older book than the row before it, but for the
  lag of a snapshot. `RowIInv` says why: while a request is on its way nothing
  puts a row, as the engine is not LIVE, so the last row is no younger than the
  exchange was when the request was sent. The book id alone does not tell,
  because a resync may take it back.
* `WorkerDiesOfResponsesOnly`: without the responses of the run `binance_worker`
  (`FatalFaults = {}`) `WorkerSurvives` holds. It needs `NeverLoadsWhileLive`, as
  `load_snapshot`'s `ValueError` is the other way for the worker to die.
* `BinanceTypeCorrect`, with the counts of retries: a request is sent only while
  a retry is left.

`OKXFeedProofs`:

* `OKXImplementsBookSync`, and from it `OKXBookExact`, `OKXImplementsMirror` and
  `OKXReplaysInOrder`, from `StreamIInv`: every message
  under way is the exchange's, no newer than it. That is all a client may rely
  on, and all it needs: order and completeness are `BookSync`'s business.
* `NoResyncLost` from `ResyncIInv`: a client between connections has no
  websocket, and one whose handshake is done has asked for a snapshot. Without
  that second part the flag of an earlier connection would look like a lost
  resync at the moment the connection counts as made.
* `LostUpdatesSurface`: without lost snapshots (`SnapshotFaults = {}`)
  `LostPushSurfaces` holds, however many updates are lost.
* `RefusedOnlyAfterThrottle`: as long as the worker has never been throttled
  `NeverLoadsWhileLive` holds. `AskIInv` says that at most one snapshot is under
  way, counting one whose resubscribe is half sent, and none to a LIVE engine or
  while the event is set. It holds through a reconnect because a worker that is
  not throttled is woken, and finds no websocket, before the next handshake
  ends; a throttled one sleeps past it. TLC agrees on an instance with
  `worker = "throttled"` cut off.
* `ResubscribesPaid` from `ThrottleIInv`: while the worker sleeps, the tokens
  there and those the sleep brings pay for the resubscribe. `try_acquire`'s
  answer is ignored by the code, so this is what makes the ignored answer
  `True`. It needs `ThrottleAssumption`, that a bucket can hold the price of one
  resubscribe (2 and 3 in `feeds/okx.py:54-63`); a smaller bucket would never
  pay.
* `RetryBudgetIsFull`, and `OKXTypeCorrect`, which bounds the failed snapshots: a
  client counts past its limit only while it reads what was under way when it
  closed the websocket.

`SupervisorProofs`:

* `StatesReportedTruly`, from the invariant that a cancellation is on its way
  only once `run()` gathers.
* `ShutdownStopsUnlessSwallowed`: as long as no cancellation is swallowed
  `ShutdownStopsFeeds` holds. Once `run()` gathers, every feed is done, about to
  be cancelled, or has swallowed its cancellation (`GatheringIInv`).
* `RestartBudgetKept`, from `BudgetIInv`. The code forgets restarts that have
  left the window, at each crash, in place; the property counts all crashes
  since the beginning. The invariant says that what is left is exactly the
  crashes of the window as of the last crash, which stays so because time does
  not go back.
* `SupervisorTypeCorrect`.

`ParquetSinkProofs`: `SinkTypeCorrect` without any hypothesis; the others under
`Undisturbed`, which is what the constants of the run `sink` say: no hour that
has files comes again, and no flush across an hour boundary fails. The two
refuting runs of the sink show that neither can be left out.

* `EveryRowAccounted`, `FilesStayInOrder`, `ShutdownWritesAll`, `FilesSurvive`
  from `SinkIInv`. What makes it inductive are three things the code relies on
  without saying so. A row's number is its own, and hours do not decrease with
  the numbers, so a batch is sorted by hour (`RowsIInv`). No file is in the way
  of a row that waits: every feed's writer *reaches* the hour of each of its rows,
  which is to say that all files of that hour have smaller numbers than its next
  one (`WayIInv`, `DiskOK`). And of each feed the rows on the disk are older than
  those that wait, and those finalized older than the rest (`SavedIInv`).
* `SinkImplementsRowLog`: all the consumer does is `Save` for what it has
  finalized, in whatever stages; a row put is an `Offer` and the evicted row
  makes its room; a death is a `GiveUp`.
* A flush writes its groups one after the other (`FlushTo`); each lemma about a
  flush is an induction over the places of the batch (`AllNaturals`), from what
  one `WriteBatch` does, from what `Finalize` and `Open` do. A failed flush is
  shown to be a shorter one that stopped somewhere in its next group.

`SimulationProofs`:

* `MarketNeverCrosses`: each move of the market leaves both sides quoted, every
  bid below every ask (`Sound`), under `MarketAssumption`.
* `SimulationImplementsBookSync` and `SimulatedBookExact`, with the truth of the
  events held back and pending.
* `RunStepConverges`, `LatestSnapshotLoads`, `UpdatesSampledOnce`,
  `SimTypeCorrect` from `SimIInv` with `StepIInv`, which follows a `run_step` from
  its first call of the engine to its last: nothing has reached the engine yet,
  or the newest event has and at most an older or the same one is left, or a gap
  has been found and the newest event is in the buffer the resync starts from.
  They need a buffer of two (`SimulationAssumption`), as a step hands over at
  most two events.

`ThrottleProofs`, for every capacity, cost and length of time:

* `WindowIsKept`, from `Balance`: what was spent since any moment *and what is
  left* do not exceed a full bucket and what came back. Without what is left
  nothing would say that a caller cannot spend a saved bucket twice.
* `EveryOperationPaid`, from `SleepPays`: the tokens there and those the rest of
  the sleep brings make up the cost. Both need that an operation costs no more
  than a bucket holds (`Affordable`, the hypothesis of the three; 2 of 40 and 1 of
  3 in `feeds/okx.py`, 1 in `feeds/binance.py`).
* `ThrottleTypeCorrect`.

No run is kept for `Throttle`: its bucket is the one `okx_feed` runs. TLC agrees
with the three on an instance of nine instants with three tokens counted in
halves (`BucketCapacity = 6`, `OpCost = 2`, `MaxTime = 8`).

The proofs rest only on the assumptions named in the modules (`EngineAssumption`,
`SyncAssumption`, `ConnectionAssumption`, `FeedAssumption`, `BucketAssumption`,
`ThrottleAssumption`, `SupervisorAssumption`, `SinkIsNoFeed`, `SinkAssumption`,
`MarketAssumption`, `SimulationAssumption`), which TLC evaluates in the runs.

The findings are thus bounded from the other side: a run shows what goes wrong, and
a theorem that nothing else leads to it. `WorkerDiesOfResponsesOnly`,
`LostUpdatesSurface`, `RefusedOnlyAfterThrottle`, `ShutdownStopsUnlessSwallowed`
and `FilesSurvive` prove the property of a refuting run from the absence of what
the run blames.

Only model-checked: everything temporal under fairness (`Recovers`,
`NeverRetriesSilently`, `ShutdownCompletes`, `RestartsFollow`, `RowsAreWritten`,
`TailConverges`), which TLAPS cannot prove. Every other property of a passing run
is a theorem.

## 5. What is not modelled

* `config.py`, `logging_setup.py`, `feeds/envelope.py`, `feeds/transport.py`,
  `metrics.py`: start-up validation, formatting, construction of a row,
  read-only statistics.
* In `OKXFeed` and `BinanceFeed`, the connection bucket and the snapshot bucket:
  those waits may take any time, which includes none, a superset of what a bucket
  allows; `Throttle` is where they are looked at. Floating-point rounding of the
  tokens.
* Signal handlers and the metrics thread of `app.py`; Ctrl+C on Windows.
* The injector's log with its shadowed faults, the pacing and the reports of
  `scripts/stress_replay.py` (its `on_apply` hook is `sampled`), `ops/`,
  benchmarks, other tests.
* Resets of OKX's sequence numbers, and exchanges that lie: the exchange of the
  model sends only true events.
* The one turn of the event loop in which the watchdog looks just before the
  consumer is woken: a row put in that turn after a pause of the feeds passes for
  a stall. `WatchdogFires` may be taken there, and the properties hold of what
  follows.
* A `queue_maxsize` of 0, which asyncio takes for "unbounded" and `config.py` lets
  through: the models assume a bound.

Observed while modelling and not the subject of a run: a Binance response that is
in flight across a reconnect may be loaded after the `invalidate()` that was to
force a fresh sync (`feeds/binance.py:249-253` against `416`); the book is exact
all the same. A resync given up closes whatever websocket there is by then
(`466-468`). At a graceful shutdown the rows still queued are lost
(`supervisor.py:93-98` cancels the sink along with the feeds). A bucket lets
capacity plus refill through (`WindowIsKept`; TLC reaches the bound), so the
connection bucket admits more than three attempts in one second
(`feeds/okx.py:62-63`), five within two thirds of it, where `DECISIONS.md:683-688`
speaks of three as a hard ceiling, and the resubscribe bucket of 40 lets 520
operations through in its first hour where the limit is 480. `tests/simulation/test_properties.py:50-53` says that every
`run_step()` leaves the engine converged; it leaves it LIVE, but behind the market
while the last events were dropped and nothing has shown the gap
(`DeliveryConverges` states when it does converge), so the tail is needed.

## 6. Plan

Done, in this order: `BookEngine`, `BookSync`, `MirrorBook` and their proofs;
`Connection`, `BinanceFeed` and its proofs; `OKXFeed`; `Supervisor`; `ParquetSink`; `MarketSimulator` and `Simulation`; `RowLog`;
`TokenBucket` in `OKXFeed`; `BookReplay`; `Throttle`.

Then the proofs: `BookSyncProofs`, `BinanceFeedProofs`, `OKXFeedProofs`,
`SimulationProofs`, the restart budget in `SupervisorProofs`,
`ParquetSinkProofs`, the replay as a loop, and `ThrottleProofs`.

Left:

1. `EveryRowAccounted` for an I/O error in a flush across hours: what is
   overwritten then is at most the part that `sink_reflush` shows.
2. A connection bucket inside `OKXFeed`, to count attempts in a run of the client.
