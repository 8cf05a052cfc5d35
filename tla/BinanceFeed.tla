---------------------------- MODULE BinanceFeed ----------------------------
(***************************************************************************)
(* BinanceFeedClient (feeds/binance.py): a run loop that keeps a websocket *)
(* connected and reads diff events into the engine, and a resync worker    *)
(* that fetches REST snapshots for it, two coroutines that share the       *)
(* engine, the resync_needed event and the websocket without a lock.       *)
(*                                                                         *)
(* A step of the model is what runs between two awaits.  The exchange is   *)
(* BookSync's; a connection streams every change from the moment it opens, *)
(* in order and in batches, and a response carries the book of some moment *)
(* since the request was sent, or of up to RestLag updates before.         *)
(*                                                                         *)
(* The engine outlives the client: when run() raises, the supervisor       *)
(* builds a new client around the same engine (app.py, _make_feed_factory).*)
(***************************************************************************)
EXTENDS BookSync, Connection

CONSTANTS
  SnapshotRetryLimit,   \* snapshot_retry_limit
  HttpRetryLimit,       \* http_retry_limit
  RestLag,              \* how many updates a response may be behind its request
  RetryableFaults,      \* ways a request fails that the client retries
  FatalFaults           \* ways it fails that no handler of the client catches

ASSUME FeedAssumption ==
  /\ SnapshotRetryLimit \in Nat \ {0}
  /\ HttpRetryLimit \in Nat \ {0}
  /\ RestLag \in Nat
  /\ RetryableFaults \subseteq {"network", "rate_limited"}
  /\ FatalFaults \subseteq {"server_error", "malformed_body"}

VARIABLES
  outcome,        \* "running", or how run() ended
  wsOpen,         \* FALSE once the worker has closed the current websocket
  streamed,       \* update id up to which the current one was read
  resyncNeeded,   \* the asyncio.Event
  worker,         \* where the resync worker is
  requestHead,    \* update id of the exchange when the request was sent
  snapshotTries,  \* snapshots loaded in vain in this resync
  httpTries,      \* requests failed in this fetch
  lastRow,        \* update id of the last row put on the row queue
  calm            \* TRUE once the network has stopped misbehaving

streamVars == <<wsOpen, streamed>>
tryVars    == <<snapshotTries, httpTries>>
workerVars == <<worker, requestHead, tryVars>>
clientVars == <<outcome, streamVars, resyncNeeded, workerVars, lastRow, calm>>
feedVars == <<vars, connVars, clientVars>>

(* "idle" waits for the event, "waiting" is about to send a request (token *)
(* bucket or Retry-After sleep), "fetching" awaits the response, "closing" *)
(* awaits ws.close(); "dead" has raised, "stopped" was cancelled.          *)
Worker == {"idle", "waiting", "fetching", "closing", "dead", "stopped"}

(* How run() ended: cancelled, by ReconnectBudgetExhausted, or by the      *)
(* exception of a dead worker, which awaiting it in the finally raises     *)
(* again in place of whatever ended the loop.                              *)
Outcomes == {"running", "cancelled", "escalated", "worker_error"}

Ended(how) == IF worker = "dead" THEN "worker_error" ELSE how

-----------------------------------------------------------------------------
FeedInit ==
  /\ Init
  /\ ConnInit
  /\ outcome = "running"
  /\ wsOpen = FALSE
  /\ streamed = 0
  /\ resyncNeeded = FALSE
  /\ worker = "idle"
  /\ requestHead = 0
  /\ snapshotTries = 0
  /\ httpTries = 0
  /\ lastRow = 0
  /\ calm = FALSE

-----------------------------------------------------------------------------
(* The run loop                                                            *)

StartConnecting ==
  /\ outcome = "running"
  /\ connState \in {"DISCONNECTED", "BACKOFF"}
  /\ Connecting
  /\ UNCHANGED <<vars, clientVars>>

(* Every new connection forces a fresh sync.                               *)
Connect ==
  /\ outcome = "running"
  /\ connState = "CONNECTING"
  /\ Connected
  /\ wsOpen' = TRUE
  /\ streamed' = head
  /\ Reconnect
  /\ resyncNeeded' = TRUE
  /\ UNCHANGED <<outcome, workerVars, lastRow, calm>>

(* The handshake fails, the stream breaks or stays silent for too long, or *)
(* recv() finds that the worker has closed the websocket.  The connection  *)
(* goes into backoff, unless the budget is spent: then run() raises and    *)
(* takes the worker with it.                                               *)
LoseConnection ==
  /\ outcome = "running"
  /\ \/ connState \in {"CONNECTING", "CONNECTED"} /\ ~ calm
     \/ connState = "CONNECTED" /\ ~ wsOpen
  /\ Disconnected
  /\ IF BudgetExhausted
     THEN outcome' = Ended("escalated") /\ worker' = "stopped"
     ELSE UNCHANGED <<outcome, worker>>
  /\ wsOpen' = FALSE
  /\ UNCHANGED <<vars, streamed, resyncNeeded, requestHead, tryVars, lastRow, calm>>

(* The supervisor cancels run() at shutdown.                               *)
Cancel ==
  /\ outcome = "running"
  /\ outcome' = Ended("cancelled")
  /\ worker' = "stopped"
  /\ wsOpen' = FALSE
  /\ UNCHANGED <<vars, connVars, streamed, resyncNeeded, requestHead, tryVars,
                 lastRow, calm>>

(* The supervisor's factory: a new client, and the same engine.            *)
Restart ==
  /\ outcome \in {"escalated", "worker_error"}
  /\ ConnReset
  /\ outcome' = "running"
  /\ worker' = "idle"
  /\ resyncNeeded' = FALSE
  /\ snapshotTries' = 0
  /\ httpTries' = 0
  /\ UNCHANGED <<vars, streamVars, requestHead, lastRow, calm>>

-----------------------------------------------------------------------------
(* The reader loop                                                         *)

(* Binance names the first and the last update of a batch, U and u.        *)
Raw(p, f) == [U |-> p + 1, u |-> f,
              levels |-> [l \in Touched(p, f) |-> history[f][l]]]

(* Mutant: the checkpoint before U is off by one.                          *)
ParseDiffEventEarly(raw) == DiffEvent(raw.U - 2, raw.u, raw.levels)

ParseDiffEvent(raw) == DiffEvent(raw.U - 1, raw.u, raw.levels)

(* Mutant: a gap leaves the worker asleep.                                 *)
HandleEventQuietly(e) ==
  \/ BufferEvent(e) /\ UNCHANGED <<resyncNeeded, lastRow>>
  \/ ApplyInOrder(e) /\ lastRow' = e.final /\ UNCHANGED resyncNeeded
  \/ DetectGap(e) /\ UNCHANGED <<resyncNeeded, lastRow>>

(* apply_event and what the loop does with each of its results: every      *)
(* event applied is a row of output, every gap a call for a resync.        *)
HandleEvent(e) ==
  \/ BufferEvent(e) /\ UNCHANGED <<resyncNeeded, lastRow>>
  \/ ApplyInOrder(e) /\ lastRow' = e.final /\ UNCHANGED resyncNeeded
  \/ DetectGap(e) /\ resyncNeeded' = TRUE /\ UNCHANGED lastRow

Reading == outcome = "running" /\ connState = "CONNECTED"

Receive ==
  /\ Reading
  /\ Len(buffer) < MaxBuffer
  /\ MessageReceived
  /\ \E f \in streamed + 1..head :
       /\ streamed' = f
       /\ HandleEvent(ParseDiffEvent(Raw(streamed, f)))
  /\ UNCHANGED <<exchangeVars, outcome, wsOpen, workerVars, calm>>

(* A message that cannot be parsed is skipped, and what it said is lost.   *)
SkipMalformed ==
  /\ Reading
  /\ ~ calm
  /\ MessageReceived
  /\ \E f \in streamed + 1..head : streamed' = f
  /\ UNCHANGED <<vars, outcome, wsOpen, resyncNeeded, workerVars, lastRow, calm>>

-----------------------------------------------------------------------------
(* The resync worker                                                       *)

(* Mutant: the state is not looked at again when the worker wakes.         *)
WakeUpBlindly ==
  /\ worker = "idle"
  /\ resyncNeeded
  /\ resyncNeeded' = FALSE
  /\ worker' = "waiting"
  /\ UNCHANGED <<vars, connVars, outcome, streamVars, requestHead, tryVars, lastRow, calm>>

(* The event is cleared first; if the book is LIVE by now, that is all.    *)
WakeUp ==
  /\ worker = "idle"
  /\ resyncNeeded
  /\ resyncNeeded' = FALSE
  /\ worker' = IF state = "LIVE" THEN "idle" ELSE "waiting"
  /\ UNCHANGED <<vars, connVars, outcome, streamVars, requestHead, tryVars, lastRow, calm>>

SendRequest ==
  /\ worker = "waiting"
  /\ httpTries < HttpRetryLimit
  /\ worker' = "fetching"
  /\ requestHead' = head
  /\ UNCHANGED <<vars, connVars, outcome, streamVars, resyncNeeded, tryVars, lastRow, calm>>

(* The resync is given up: the current websocket is closed, so that the    *)
(* run loop reconnects (closing one that is already lost does nothing).    *)
GiveUp ==
  /\ IF connState = "CONNECTED"
     THEN worker' = "closing" /\ wsOpen' = FALSE
     ELSE worker' = "idle" /\ UNCHANGED wsOpen
  /\ snapshotTries' = 0
  /\ httpTries' = 0

(* Mutant: one try too many.                                               *)
TryAgainOnceMore ==
  IF snapshotTries = SnapshotRetryLimit THEN GiveUp
  ELSE /\ worker' = "waiting"
       /\ snapshotTries' = snapshotTries + 1
       /\ httpTries' = 0
       /\ UNCHANGED wsOpen

TryAgain ==
  IF snapshotTries + 1 = SnapshotRetryLimit THEN GiveUp
  ELSE /\ worker' = "waiting"
       /\ snapshotTries' = snapshotTries + 1
       /\ httpTries' = 0
       /\ UNCHANGED wsOpen

FinishResync ==
  /\ worker' = "idle"
  /\ snapshotTries' = 0
  /\ httpTries' = 0
  /\ UNCHANGED wsOpen

(* The response arrives.  A snapshot loaded and replayed is a row of       *)
(* output, one that is stale or ends in a gap another try; load_snapshot's *)
(* ValueError would end the worker.                                        *)
LoadResponse(s) ==
  \/ LoadAndReplay(s) /\ FinishResync /\ lastRow' = ReplayedId(s)
  \/ (RejectStale(s) \/ LoadThenGap(s)) /\ TryAgain /\ UNCHANGED lastRow
  \/ RefuseWhileLive /\ worker' = "dead"
     /\ UNCHANGED <<wsOpen, snapshotTries, httpTries, lastRow>>

(* Mutant: the response may come out of a cache.                           *)
RespondFromCache ==
  /\ worker = "fetching"
  /\ \E n \in 0..head : LoadResponse(SnapshotAt(n))
  /\ UNCHANGED <<exchangeVars, connVars, outcome, streamed, resyncNeeded,
                 requestHead, calm>>

Respond ==
  /\ worker = "fetching"
  /\ \E n \in 0..head :
       /\ requestHead - (IF calm THEN 0 ELSE RestLag) <= n
       /\ LoadResponse(SnapshotAt(n))
  /\ UNCHANGED <<exchangeVars, connVars, outcome, streamed, resyncNeeded,
                 requestHead, calm>>

(* A network error: the fetch is retried, and the resync given up when its *)
(* retries run out (HttpRetryLimitExceeded).                               *)
FailToFetch ==
  /\ worker = "fetching"
  /\ ~ calm
  /\ "network" \in RetryableFaults
  /\ IF httpTries + 1 = HttpRetryLimit THEN GiveUp
     ELSE /\ worker' = "waiting"
          /\ httpTries' = httpTries + 1
          /\ UNCHANGED <<snapshotTries, wsOpen>>
  /\ UNCHANGED <<vars, connVars, outcome, streamed, resyncNeeded, requestHead, lastRow,
                 calm>>

(* A 429 or 418 status: the worker sleeps for as long as Retry-After says, *)
(* and finds out only then whether a retry is left.                        *)
GetRateLimited ==
  /\ worker = "fetching"
  /\ ~ calm
  /\ "rate_limited" \in RetryableFaults
  /\ worker' = "waiting"
  /\ httpTries' = httpTries + 1
  /\ UNCHANGED <<vars, connVars, outcome, streamVars, resyncNeeded, requestHead,
                 snapshotTries, lastRow, calm>>

RunOutOfRetries ==
  /\ worker = "waiting"
  /\ httpTries = HttpRetryLimit
  /\ GiveUp
  /\ UNCHANGED <<vars, connVars, outcome, streamed, resyncNeeded, requestHead, lastRow,
                 calm>>

(* Any other error status (raise_for_status) or a body that does not parse *)
(* leaves the worker's coroutine as an exception.                          *)
FailForGood ==
  /\ worker = "fetching"
  /\ ~ calm
  /\ FatalFaults # {}
  /\ worker' = "dead"
  /\ UNCHANGED <<vars, connVars, outcome, streamVars, resyncNeeded, requestHead, tryVars,
                 lastRow, calm>>

FinishClose ==
  /\ worker = "closing"
  /\ worker' = "idle"
  /\ UNCHANGED <<vars, connVars, outcome, streamVars, resyncNeeded, requestHead, tryVars,
                 lastRow, calm>>

-----------------------------------------------------------------------------
MarketMoves == Market /\ UNCHANGED <<connVars, clientVars>>

(* From here on nothing fails any more.                                    *)
CalmDown ==
  /\ ~ calm
  /\ calm' = TRUE
  /\ UNCHANGED <<vars, connVars, outcome, streamVars, resyncNeeded, workerVars, lastRow>>

RunLoop == StartConnecting \/ Connect \/ LoseConnection
Reader == Receive \/ SkipMalformed
ResyncWorker == \/ WakeUp \/ SendRequest \/ Respond \/ FinishClose
                \/ FailToFetch \/ GetRateLimited \/ RunOutOfRetries \/ FailForGood
Environment == MarketMoves \/ CalmDown \/ Cancel \/ Restart

FeedNext == RunLoop \/ Reader \/ ResyncWorker \/ Environment

FeedSpec == FeedInit /\ [][FeedNext]_feedVars

(* The event loop runs every coroutine that can run: a sleep ends, a       *)
(* handshake, a request and a close() end one way or the other (each has a *)
(* timeout), recv() reports a closed websocket, and the supervisor's       *)
(* restart backoff ends.  Nothing is assumed of the market, of messages or *)
(* of errors, save for Recovers that the network calms down eventually.    *)
FeedFairness ==
  /\ WF_feedVars(StartConnecting)
  /\ WF_feedVars(Connect)
  /\ WF_feedVars(LoseConnection /\ ~ wsOpen)
  /\ WF_feedVars(Restart)
  /\ WF_feedVars(WakeUp)
  /\ WF_feedVars(SendRequest)
  /\ WF_feedVars(Respond)
  /\ WF_feedVars(RunOutOfRetries)
  /\ WF_feedVars(FinishClose)

FairFeedSpec == FeedSpec /\ FeedFairness

-----------------------------------------------------------------------------
FeedTypeOK ==
  /\ TypeOK
  /\ ConnTypeOK
  /\ outcome \in Outcomes
  /\ wsOpen \in BOOLEAN
  /\ streamed \in 0..head
  /\ resyncNeeded \in BOOLEAN
  /\ worker \in Worker
  /\ requestHead \in 0..head
  /\ snapshotTries \in 0..SnapshotRetryLimit - 1
  /\ httpTries \in 0..HttpRetryLimit
  /\ lastRow \in 0..head
  /\ calm \in BOOLEAN

(* Though the reader and the worker share the engine without a lock, the   *)
(* worker never hands a snapshot to an engine that is already LIVE, which  *)
(* load_snapshot answers with ValueError: whatever the reader does while   *)
(* the request is in flight, only the worker itself ends a resync.         *)
NeverLoadsWhileLive ==
  worker \in {"waiting", "fetching"} => state # "LIVE"

(* No wakeup is lost: an open connection whose book is not LIVE has a      *)
(* resync running or called for, in whatever order the gap, the reconnect, *)
(* the clearing of the event and the end of the previous resync came,      *)
(* unless the worker has died (WorkerSurvives).                            *)
ResyncIsComing ==
  Reading /\ wsOpen /\ state # "LIVE" =>
    resyncNeeded \/ worker \in {"waiting", "fetching", "dead"}

(* The output does not go back in time: across gaps, resyncs, reconnects   *)
(* and restarts, a row is never older than the rows before it by more than *)
(* the exchange's snapshots lag behind its stream.                         *)
RowsNeverGoBack == [][lastRow' + RestLag >= lastRow]_feedVars

(* The feed does to its engine only what BookSync allows, so what is       *)
(* proved there of the book holds of the book this client keeps.           *)
ImplementsBookSync == Spec

(* A client that goes on losing its connection gets a message through now  *)
(* and then or hands over to the supervisor: it never just retries.        *)
NeverRetriesSilently ==
  []<>(connState = "BACKOFF") => []<>(messageSeen \/ outcome # "running")

(* Once the network has calmed down the book gets LIVE and stays LIVE,     *)
(* unless the resync worker has died for good before.                      *)
Recovers ==
  <>calm => <>(outcome = "cancelled" \/ [](state = "LIVE") \/ [](worker = "dead"))

(* What the guard around the request is for: no failure of a request ends  *)
(* the resync worker of a client that goes on running.                     *)
WorkerSurvives == outcome = "running" => worker # "dead"
=============================================================================
