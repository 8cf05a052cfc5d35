------------------------- MODULE BinanceFeedProofs -------------------------
(***************************************************************************)
(* Proofs about BinanceFeed, for every value of its constants: its client  *)
(* does to the engine only what BookSync allows, so the book it keeps is   *)
(* exact; its resync worker never meets a LIVE engine; no wakeup is lost;  *)
(* and its output does not go back in time.                                *)
(***************************************************************************)
EXTENDS BinanceFeed, BookSyncProofs

(* What the control properties need to know: the stream is read no further *)
(* than the exchange has got, and the worker's two promises.               *)
FeedIInv ==
  /\ head \in Nat
  /\ streamed \in 0..head
  /\ NeverLoadsWhileLive
  /\ ResyncIsComing

LEMMA InitFeedIInv == FeedInit => FeedIInv
BY DEF FeedInit, Init, ExchangeInit, ConnInit, FeedIInv, NeverLoadsWhileLive,
       ResyncIsComing, Reading

(* The parsed event is the exchange's event for the batch.                 *)
LEMMA ParsedEvent ==
  ASSUME NEW p \in Nat, NEW f
  PROVE  ParseDiffEvent(Raw(p, f)) = EventOf(p, f, Touched(p, f))
BY DEF ParseDiffEvent, Raw, EventOf, DiffEvent

(* What the engine's operations do to state, seen from a client.           *)
LEMMA HandledEvent ==
  ASSUME NEW e, HandleEvent(e)
  PROVE  /\ ApplyEvent(e)
         /\ state' = "LIVE" => state = "LIVE"
         /\ state' # "LIVE" /\ state = "LIVE" => resyncNeeded'
         /\ resyncNeeded => resyncNeeded'
BY DEF HandleEvent, ApplyEvent, BufferEvent, ApplyInOrder, DetectGap, FallBehind

LEMMA LoadedResponse ==
  ASSUME NEW s, LoadResponse(s), state # "LIVE"
  PROVE  /\ LoadSnapshot(s)
         /\ state' = "LIVE" => worker' \notin {"waiting", "fetching"}
         /\ wsOpen' => wsOpen
         /\ wsOpen' /\ state' # "LIVE" /\ connState = "CONNECTED" =>
              worker' \in {"waiting", "fetching"}
<1> USE DEF FallBehind, engineVars
<1>1. CASE LoadAndReplay(s) /\ FinishResync
  BY <1>1 DEF LoadAndReplay, LoadSnapshot, FinishResync
<1>2. CASE (RejectStale(s) \/ LoadThenGap(s)) /\ TryAgain
  BY <1>2 DEF RejectStale, LoadThenGap, LoadSnapshot, TryAgain, GiveUp
<1> QED
  BY <1>1, <1>2 DEF LoadResponse, RefuseWhileLive

LEMMA NextFeedIInv == FeedIInv /\ [FeedNext]_feedVars => FeedIInv'
<1> SUFFICES ASSUME FeedIInv, [FeedNext]_feedVars PROVE FeedIInv'
  OBVIOUS
<1> USE DEF FeedIInv, NeverLoadsWhileLive, ResyncIsComing, Reading,
            vars, connVars, clientVars, streamVars, workerVars, tryVars
<1>1. CASE StartConnecting
  BY <1>1 DEF StartConnecting, Connecting
<1>2. CASE Connect
  BY <1>2 DEF Connect, Connected, Reconnect, Invalidate, exchangeVars
<1>3. CASE LoseConnection
  BY <1>3 DEF LoseConnection, Disconnected
<1>4. CASE Receive
  <2>1. PICK f \in streamed + 1..head :
          streamed' = f /\ HandleEvent(ParseDiffEvent(Raw(streamed, f)))
    BY <1>4 DEF Receive
  <2>2. /\ state' = "LIVE" => state = "LIVE"
        /\ state' # "LIVE" /\ state = "LIVE" => resyncNeeded'
        /\ resyncNeeded => resyncNeeded'
    BY <2>1, HandledEvent
  <2> QED
    BY <1>4, <2>1, <2>2 DEF Receive, MessageReceived, exchangeVars
<1>5. CASE SkipMalformed
  BY <1>5 DEF SkipMalformed, MessageReceived
<1>6. CASE WakeUp
  BY <1>6 DEF WakeUp
<1>7. CASE SendRequest
  BY <1>7 DEF SendRequest
<1>8. CASE Respond
  <2>1. PICK n \in 0..head : LoadResponse(SnapshotAt(n))
    BY <1>8 DEF Respond
  <2>2. state # "LIVE"
    BY <1>8 DEF Respond
  <2>3. /\ state' = "LIVE" => worker' \notin {"waiting", "fetching"}
        /\ wsOpen' => wsOpen
        /\ wsOpen' /\ state' # "LIVE" /\ connState = "CONNECTED" =>
             worker' \in {"waiting", "fetching"}
    BY <2>1, <2>2, LoadedResponse
  <2> QED
    BY <1>8, <2>3 DEF Respond, exchangeVars
<1>9. CASE FailToFetch
  BY <1>9 DEF FailToFetch, GiveUp
<1>10. CASE FailForGood
  BY <1>10 DEF FailForGood
<1>11. CASE FinishClose
  BY <1>11 DEF FinishClose
<1>12. CASE MarketMoves
  BY <1>12 DEF MarketMoves, Market, MarketStep, engineVars
<1>13. CASE CalmDown
  BY <1>13 DEF CalmDown
<1>14. CASE Cancel
  BY <1>14 DEF Cancel, Ended
<1>15. CASE Restart
  BY <1>15 DEF Restart, ConnReset
<1>16. CASE GetRateLimited
  BY <1>16 DEF GetRateLimited
<1>17. CASE RunOutOfRetries
  BY <1>17 DEF RunOutOfRetries, GiveUp
<1>18. CASE UNCHANGED feedVars
  BY <1>18 DEF feedVars
<1> QED
  BY <1>1, <1>2, <1>3, <1>4, <1>5, <1>6, <1>7, <1>8, <1>9, <1>10, <1>11, <1>12, <1>13,
     <1>14, <1>15, <1>16, <1>17, <1>18
  DEF FeedNext, RunLoop, Reader, ResyncWorker, Environment

(* The resync worker never hands a snapshot to a LIVE engine, however many *)
(* gaps, reconnects and restarts happen while its request is in flight.    *)
THEOREM WorkerNeverLoadsLive == FeedSpec => []NeverLoadsWhileLive
<1>1. FeedIInv => NeverLoadsWhileLive
  BY DEF FeedIInv
<1> QED
  BY <1>1, InitFeedIInv, NextFeedIInv, PTL DEF FeedSpec

(* No wakeup of the resync worker is lost.                                 *)
THEOREM NoWakeupLost == FeedSpec => []ResyncIsComing
<1>1. FeedIInv => ResyncIsComing
  BY DEF FeedIInv
<1> QED
  BY <1>1, InitFeedIInv, NextFeedIInv, PTL DEF FeedSpec

(* The worker can also die of a ValueError of load_snapshot, which would   *)
(* come from a LIVE engine: that never happens.                            *)
LEMMA StaysAlive ==
  ASSUME FatalFaults = {}, FeedIInv, worker # "dead", [FeedNext]_feedVars
  PROVE  worker' # "dead"
<1>1. CASE Respond
  <2>1. PICK n \in 0..head : LoadResponse(SnapshotAt(n))
    BY <1>1 DEF Respond
  <2>2. state # "LIVE"
    BY <1>1 DEF Respond, FeedIInv, NeverLoadsWhileLive
  <2> QED
    BY <1>1, <2>1, <2>2
    DEF Respond, LoadResponse, FinishResync, TryAgain, GiveUp, RefuseWhileLive
<1>2. CASE RunLoop \/ Reader \/ Environment
  BY <1>2
  DEF RunLoop, Reader, Environment, StartConnecting, Connect, LoseConnection, Receive,
      SkipMalformed, MarketMoves, CalmDown, Cancel, Restart, clientVars, workerVars
<1>3. CASE ResyncWorker \/ UNCHANGED feedVars
  BY <1>1, <1>3
  DEF ResyncWorker, WakeUp, SendRequest, FailToFetch, GetRateLimited, RunOutOfRetries,
      FailForGood, FinishClose, GiveUp, feedVars, clientVars, workerVars
<1> QED
  BY <1>2, <1>3 DEF FeedNext

(* Nothing but a response that raise_for_status or the parser refuses ends *)
(* the resync worker of a running client: guarding those two as well       *)
(* (binance.py:534-535) would be enough (WorkerSurvives).                  *)
THEOREM WorkerDiesOfResponsesOnly ==
  ASSUME FatalFaults = {}
  PROVE  FeedSpec => []WorkerSurvives
<1> DEFINE Alive == FeedIInv /\ worker # "dead"
<1>1. FeedInit => Alive
  BY InitFeedIInv DEF FeedInit
<1>2. Alive /\ [FeedNext]_feedVars => Alive'
  BY NextFeedIInv, StaysAlive
<1>3. Alive => WorkerSurvives
  BY DEF WorkerSurvives
<1> QED
  BY <1>1, <1>2, <1>3, PTL DEF FeedSpec

LEMMA FeedStepRefines == FeedIInv /\ [FeedNext]_feedVars => [Next]_vars
<1> SUFFICES ASSUME FeedIInv, [FeedNext]_feedVars PROVE [Next]_vars
  OBVIOUS
<1>1. CASE Connect
  BY <1>1 DEF Connect, Next
<1>2. CASE Receive
  <2>1. PICK f \in streamed + 1..head : HandleEvent(ParseDiffEvent(Raw(streamed, f)))
    BY <1>2 DEF Receive
  <2>2. streamed \in 0..head /\ f \in 0..head /\ streamed <= f /\ streamed \in Nat
    BY <2>1 DEF FeedIInv
  <2>3. ApplyEvent(EventOf(streamed, f, Touched(streamed, f)))
    BY <2>1, <2>2, HandledEvent, ParsedEvent
  <2>4. Touched(streamed, f) \in SUBSET Level
    BY DEF Touched
  <2> QED
    BY <1>2, <2>2, <2>3, <2>4 DEF Receive, Deliver, Next
<1>3. CASE Respond
  <2>1. PICK n \in 0..head : LoadResponse(SnapshotAt(n))
    BY <1>3 DEF Respond
  <2>2. state # "LIVE"
    BY <1>3 DEF Respond, FeedIInv, NeverLoadsWhileLive
  <2>3. LoadSnapshot(SnapshotAt(n))
    BY <2>1, <2>2, LoadedResponse
  <2> QED
    BY <1>3, <2>3 DEF Respond, Resync, Next
<1>4. CASE MarketMoves
  BY <1>4 DEF MarketMoves, Next
<1>5. CASE UNCHANGED vars
  BY <1>5
<1> QED
  BY <1>1, <1>2, <1>3, <1>4, <1>5
  DEF FeedNext, RunLoop, Reader, ResyncWorker, Environment, StartConnecting,
      LoseConnection, SkipMalformed, WakeUp, SendRequest, FailToFetch, GetRateLimited,
      RunOutOfRetries, FailForGood, FinishClose, CalmDown, Cancel, Restart, feedVars

(* The Binance client implements BookSync: what it does to its engine is   *)
(* always a truthful event, a truthful snapshot or an invalidation.        *)
THEOREM BinanceImplementsBookSync == FeedSpec => ImplementsBookSync
<1>1. FeedInit => Init
  BY DEF FeedInit
<1> QED
  BY <1>1, InitFeedIInv, NextFeedIInv, FeedStepRefines, PTL
  DEF FeedSpec, Spec, ImplementsBookSync

(* Hence the book of a LIVE Binance feed is the exchange's, whatever the   *)
(* interleaving of its two coroutines and whatever the network does.       *)
THEOREM BinanceBookExact == FeedSpec => []LiveBookIsExact
BY BinanceImplementsBookSync, LiveBookExact DEF ImplementsBookSync

(* What a reader of the Binance client sees is nothing, or a book the      *)
(* exchange had, with an id that grows until the next resync               *)
(* (ImplementsMirror).                                                     *)
THEOREM BinanceImplementsMirror == FeedSpec => ImplementsMirror
BY BinanceImplementsBookSync, EngineImplementsMirror DEF ImplementsBookSync

(* Whenever the Binance client fails to sync, something was lost or the    *)
(* snapshot was too old: a buffer without a break that reaches back to it  *)
(* is replayed in whole (InOrderBufferReplays).                            *)
THEOREM BinanceReplaysInOrder == FeedSpec => []InOrderBufferReplays
BY BinanceImplementsBookSync, InOrderAlwaysReplays DEF ImplementsBookSync

-----------------------------------------------------------------------------
(* The rows                                                                *)

(* The last row is the one of the book the engine shows, and no younger    *)
(* than the exchange was when the request on its way was sent: between     *)
(* the sending and the response nothing puts a row, for then the engine is *)
(* not LIVE (NeverLoadsWhileLive).                                         *)
RowIInv ==
  /\ lastRow \in 0..head
  /\ requestHead \in 0..head
  /\ state = "LIVE" => lastRow = lastAppliedId
  /\ worker = "fetching" => lastRow <= requestHead

LEMMA InitRow == FeedInit => RowIInv
BY DEF FeedInit, Init, EngineInit, ExchangeInit, RowIInv

(* What handling an event does to the rows.                                *)
LEMMA RowOfEvent ==
  ASSUME IInv, RowIInv, FeedIInv, NEW p \in 0..head, NEW f \in p..head,
         HandleEvent(ParseDiffEvent(Raw(p, f)))
  PROVE  /\ lastRow' \in 0..head /\ lastRow <= lastRow'
         /\ state' = "LIVE" => lastRow' = lastAppliedId'
         /\ state # "LIVE" => lastRow' = lastRow
<1> DEFINE e == EventOf(p, f, Touched(p, f))
<1>0. /\ head \in Nat /\ lastRow \in 0..head
      /\ state = "LIVE" => lastRow = lastAppliedId
  BY DEF FeedIInv, RowIInv
<1>1. HandleEvent(e) /\ e.prev = p /\ e.final = f
  BY <1>0, ParsedEvent DEF EventOf, DiffEvent
<1> HIDE DEF e
<1>2. CASE BufferEvent(e) /\ UNCHANGED lastRow
  BY <1>0, <1>2 DEF BufferEvent
<1>3. CASE ApplyInOrder(e) /\ lastRow' = e.final
  BY <1>0, <1>1, <1>3 DEF ApplyInOrder, ChainsTo
<1>4. CASE DetectGap(e) /\ UNCHANGED lastRow
  BY <1>0, <1>4 DEF DetectGap, FallBehind
<1> QED
  BY <1>1, <1>2, <1>3, <1>4 DEF HandleEvent

(* And what a response does.                                               *)
LEMMA RowOfResponse ==
  ASSUME IInv, RowIInv, FeedIInv, NEW n \in 0..head, requestHead - RestLag <= n,
         LoadResponse(SnapshotAt(n)), worker = "fetching"
  PROVE  /\ lastRow' \in 0..head /\ lastRow' + RestLag >= lastRow
         /\ state' = "LIVE" => lastRow' = lastAppliedId'
         /\ worker' # "fetching"
<1> DEFINE s == SnapshotAt(n)
<1>0. /\ head \in Nat /\ lastRow \in 0..head /\ requestHead \in 0..head
      /\ lastRow <= requestHead /\ state # "LIVE" /\ RestLag \in Nat
  BY FeedAssumption DEF FeedIInv, RowIInv, NeverLoadsWhileLive
<1> HIDE DEF s
<1>1. CASE LoadAndReplay(s) /\ FinishResync /\ lastRow' = ReplayedId(s)
  <2>1. ReplayedId(s) \in n..head
    BY <1>1, ReplayIsExact DEF LoadAndReplay, IInv, s
  <2>2. lastAppliedId' = ReplayedId(s) /\ worker' = "idle"
    BY <1>1 DEF LoadAndReplay, FinishResync
  <2> QED
    BY <1>0, <1>1, <2>1, <2>2
<1>2. CASE (RejectStale(s) \/ LoadThenGap(s)) /\ TryAgain /\ UNCHANGED lastRow
  BY <1>0, <1>2 DEF RejectStale, LoadThenGap, FallBehind, engineVars, TryAgain, GiveUp
<1> QED
  BY <1>0, <1>1, <1>2 DEF LoadResponse, RefuseWhileLive, s

(* What does not go back is within any lag.                                *)
LEMMA MoreThanEnough ==
  ASSUME NEW a \in Nat, NEW b \in Nat, NEW c \in Nat, a <= b
  PROVE  b + c >= a
OBVIOUS

LEMMA NextRow ==
  IInv /\ FeedIInv /\ RowIInv /\ [FeedNext]_feedVars =>
    RowIInv' /\ lastRow' + RestLag >= lastRow
<1> SUFFICES ASSUME IInv, FeedIInv, RowIInv, [FeedNext]_feedVars
             PROVE  RowIInv' /\ lastRow' + RestLag >= lastRow
  OBVIOUS
<1> USE DEF vars, exchangeVars, engineVars, connVars, clientVars, streamVars, workerVars
<1>0. /\ head \in Nat /\ lastRow \in 0..head /\ requestHead \in 0..head
      /\ RestLag \in Nat /\ streamed \in 0..head
      /\ state = "LIVE" => lastRow = lastAppliedId
      /\ worker = "fetching" => lastRow <= requestHead /\ state # "LIVE"
  BY FeedAssumption DEF RowIInv, FeedIInv, NeverLoadsWhileLive
(* A step that puts no row and sends no request.                           *)
<1>1. ASSUME UNCHANGED <<lastRow, requestHead, head>>,
             state' = "LIVE" => state = "LIVE" /\ lastAppliedId' = lastAppliedId,
             worker' = "fetching" => worker = "fetching"
      PROVE  RowIInv' /\ lastRow' + RestLag >= lastRow
  BY <1>0, <1>1 DEF RowIInv
<1>2. CASE Receive
  <2>1. PICK f \in streamed + 1..head : HandleEvent(ParseDiffEvent(Raw(streamed, f)))
    BY <1>2 DEF Receive
  <2>2. f \in streamed..head
    BY <1>0, <2>1
  <2>3. /\ lastRow' \in 0..head /\ lastRow <= lastRow'
        /\ state' = "LIVE" => lastRow' = lastAppliedId'
        /\ state # "LIVE" => lastRow' = lastRow
    BY <1>0, <2>1, <2>2, RowOfEvent
  <2>4. UNCHANGED <<head, requestHead, worker>>
    BY <1>2 DEF Receive
  <2>5. lastRow' \in 0..head /\ lastRow' + RestLag >= lastRow
    <3>1. lastRow' \in 0..head /\ lastRow <= lastRow'
      BY <2>3
    <3>2. lastRow' \in Nat /\ lastRow \in Nat /\ RestLag \in Nat
      BY <1>0, <3>1
    <3> QED
      BY <3>1, <3>2, MoreThanEnough
  <2>6. worker = "fetching" => lastRow' <= requestHead
    <3> SUFFICES ASSUME worker = "fetching" PROVE lastRow' <= requestHead
      OBVIOUS
    <3>1. lastRow' = lastRow
      BY <1>0, <2>3
    <3> QED
      BY <1>0, <3>1
  <2> QED
    BY <1>0, <2>3, <2>4, <2>5, <2>6 DEF RowIInv
<1>3. CASE Respond
  <2>1. PICK n \in 0..head :
          requestHead - (IF calm THEN 0 ELSE RestLag) <= n /\ LoadResponse(SnapshotAt(n))
    BY <1>3 DEF Respond
  <2>2. requestHead - RestLag <= n
    BY <1>0, <2>1
  <2>3. UNCHANGED <<head, requestHead>> /\ worker = "fetching"
    BY <1>3 DEF Respond
  <2>4. /\ lastRow' \in 0..head /\ lastRow' + RestLag >= lastRow
        /\ state' = "LIVE" => lastRow' = lastAppliedId'
        /\ worker' # "fetching"
    BY <2>1, <2>2, <2>3, RowOfResponse
  <2> QED
    BY <1>0, <2>3, <2>4 DEF RowIInv
<1>4. CASE SendRequest
  BY <1>0, <1>4 DEF SendRequest, RowIInv
<1>5. CASE Connect
  BY <1>1, <1>5 DEF Connect, Reconnect, Invalidate
<1>6. CASE StartConnecting \/ LoseConnection \/ SkipMalformed
  BY <1>1, <1>6 DEF StartConnecting, LoseConnection, SkipMalformed
<1>7. CASE WakeUp \/ FinishClose \/ FailForGood \/ GetRateLimited
  BY <1>1, <1>7 DEF WakeUp, FinishClose, FailForGood, GetRateLimited
<1>8. CASE FailToFetch \/ RunOutOfRetries
  BY <1>1, <1>8 DEF FailToFetch, RunOutOfRetries, GiveUp
<1>9. CASE MarketMoves
  <2>1. head' = head + 1 /\ UNCHANGED <<lastRow, requestHead, worker, state, lastAppliedId>>
    BY <1>9 DEF MarketMoves, Market, MarketStep
  <2> QED
    BY <1>0, <2>1 DEF RowIInv
<1>10. CASE CalmDown \/ Cancel \/ Restart
  BY <1>1, <1>10 DEF CalmDown, Cancel, Restart
<1>11. CASE UNCHANGED feedVars
  BY <1>1, <1>11 DEF feedVars
<1> QED
  BY <1>2, <1>3, <1>4, <1>5, <1>6, <1>7, <1>8, <1>9, <1>10, <1>11
  DEF FeedNext, RunLoop, Reader, ResyncWorker, Environment

(* The engine of a feed is always one that BookSync could have got to.     *)
LEMMA FeedKeepsEngine == FeedSpec => []IInv
<1>1. FeedInit => Init
  BY DEF FeedInit
<1> QED
  BY <1>1, InitIInv, NextIInv, InitFeedIInv, NextFeedIInv, FeedStepRefines, PTL DEF FeedSpec

(* The rows of a Binance feed never go further back than its snapshots lag *)
(* behind its stream, across any gaps, resyncs, reconnects and restarts.   *)
THEOREM RowsKeepOrder == FeedSpec => RowsNeverGoBack
<1>1. IInv /\ FeedIInv /\ RowIInv /\ [FeedNext]_feedVars =>
        [lastRow' + RestLag >= lastRow]_feedVars
  BY NextRow
<1>2. IInv /\ FeedIInv /\ RowIInv /\ [FeedNext]_feedVars => RowIInv'
  BY NextRow
<1> QED
  BY <1>1, <1>2, FeedKeepsEngine, InitFeedIInv, NextFeedIInv, InitRow, PTL
  DEF FeedSpec, RowsNeverGoBack

-----------------------------------------------------------------------------
(* Types                                                                   *)

(* A client that runs has failed to connect less often than it may, and a  *)
(* request is sent only while one of its retries is left.                  *)
CountIInv ==
  /\ attempt \in 0..MaxReconnectFailures
  /\ outcome = "running" => attempt < MaxReconnectFailures
  /\ snapshotTries \in 0..SnapshotRetryLimit - 1
  /\ httpTries \in 0..HttpRetryLimit
  /\ worker = "fetching" => httpTries < HttpRetryLimit

ClientIInv ==
  /\ connState \in ConnStates
  /\ messageSeen \in BOOLEAN
  /\ outcome \in Outcomes
  /\ wsOpen \in BOOLEAN
  /\ resyncNeeded \in BOOLEAN
  /\ worker \in Worker
  /\ calm \in BOOLEAN

LEMMA NextCount == CountIInv /\ [FeedNext]_feedVars => CountIInv'
<1> SUFFICES ASSUME CountIInv, [FeedNext]_feedVars PROVE CountIInv'
  OBVIOUS
<1> USE FeedAssumption, ConnectionAssumption
    DEF CountIInv, connVars, clientVars, streamVars, workerVars, tryVars, GiveUp
<1>1. CASE LoseConnection
  BY <1>1 DEF LoseConnection, Disconnected, BudgetExhausted, Ended
<1>2. CASE Respond
  <2>1. UNCHANGED <<connVars, outcome>> /\ \E n \in 0..head : LoadResponse(SnapshotAt(n))
    BY <1>2 DEF Respond
  <2>2. \/ FinishResync
        \/ TryAgain
        \/ worker' = "dead" /\ UNCHANGED tryVars
    BY <2>1 DEF LoadResponse
  <2> QED
    BY <2>1, <2>2 DEF FinishResync, TryAgain
<1>3. CASE Receive \/ SkipMalformed
  BY <1>3 DEF Receive, SkipMalformed, MessageReceived
<1>4. CASE StartConnecting \/ Connect
  BY <1>4 DEF StartConnecting, Connecting, Connect, Connected
<1>5. CASE WakeUp \/ SendRequest \/ FinishClose \/ FailForGood
  BY <1>5 DEF WakeUp, SendRequest, FinishClose, FailForGood
<1>6. CASE FailToFetch
  BY <1>6 DEF FailToFetch
<1>7. CASE GetRateLimited \/ RunOutOfRetries
  BY <1>7 DEF GetRateLimited, RunOutOfRetries
<1>8. CASE MarketMoves \/ CalmDown
  BY <1>8 DEF MarketMoves, CalmDown
<1>9. CASE Cancel \/ Restart
  BY <1>9 DEF Cancel, Ended, Restart, ConnReset
<1>10. CASE UNCHANGED feedVars
  BY <1>10 DEF feedVars
<1> QED
  BY <1>1, <1>2, <1>3, <1>4, <1>5, <1>6, <1>7, <1>8, <1>9, <1>10
  DEF FeedNext, RunLoop, Reader, ResyncWorker, Environment

LEMMA NextClient == ClientIInv /\ [FeedNext]_feedVars => ClientIInv'
<1> SUFFICES ASSUME ClientIInv, [FeedNext]_feedVars PROVE ClientIInv'
  OBVIOUS
<1> USE DEF ClientIInv, ConnStates, Outcomes, Worker, connVars, clientVars, streamVars,
            workerVars, GiveUp, Ended
<1>1. CASE LoseConnection
  BY <1>1 DEF LoseConnection, Disconnected
<1>2. CASE Respond
  <2>1. /\ UNCHANGED <<connVars, outcome, resyncNeeded, calm>>
        /\ \E n \in 0..head : LoadResponse(SnapshotAt(n))
    BY <1>2 DEF Respond
  <2>2. \/ FinishResync
        \/ TryAgain
        \/ worker' = "dead" /\ UNCHANGED wsOpen
    BY <2>1 DEF LoadResponse
  <2> QED
    BY <2>1, <2>2 DEF FinishResync, TryAgain
<1>3. CASE Receive
  <2>1. \E e : HandleEvent(e)
    BY <1>3 DEF Receive
  <2> QED
    BY <1>3, <2>1 DEF Receive, HandleEvent, MessageReceived
<1>4. CASE SkipMalformed
  BY <1>4 DEF SkipMalformed, MessageReceived
<1>5. CASE StartConnecting \/ Connect
  BY <1>5 DEF StartConnecting, Connecting, Connect, Connected
<1>6. CASE WakeUp \/ SendRequest \/ FinishClose \/ FailForGood
  BY <1>6 DEF WakeUp, SendRequest, FinishClose, FailForGood
<1>7. CASE FailToFetch \/ GetRateLimited \/ RunOutOfRetries
  BY <1>7 DEF FailToFetch, GetRateLimited, RunOutOfRetries
<1>8. CASE MarketMoves \/ CalmDown
  BY <1>8 DEF MarketMoves, CalmDown
<1>9. CASE Cancel \/ Restart
  BY <1>9 DEF Cancel, Restart, ConnReset
<1>10. CASE UNCHANGED feedVars
  BY <1>10 DEF feedVars
<1> QED
  BY <1>1, <1>2, <1>3, <1>4, <1>5, <1>6, <1>7, <1>8, <1>9, <1>10
  DEF FeedNext, RunLoop, Reader, ResyncWorker, Environment

(* All the feed's variables have their types; in particular its three      *)
(* counts of failures stay within their limits.                            *)
THEOREM BinanceTypeCorrect == FeedSpec => []FeedTypeOK
<1>1. FeedInit => ClientIInv /\ CountIInv
  <2>1. FeedInit => ClientIInv
    BY DEF FeedInit, ConnInit, ClientIInv, ConnStates, Outcomes, Worker
  <2>2. FeedInit => CountIInv
    BY ConnectionAssumption, FeedAssumption DEF FeedInit, ConnInit, CountIInv
  <2> QED
    BY <2>1, <2>2
<1>2. IInv /\ FeedIInv /\ RowIInv /\ ClientIInv /\ CountIInv => FeedTypeOK
  BY DEF FeedTypeOK, ConnTypeOK, IInv, FeedIInv, RowIInv, ClientIInv, CountIInv
<1>3. IInv /\ FeedIInv /\ RowIInv /\ [FeedNext]_feedVars => RowIInv'
  BY NextRow
<1> QED
  BY <1>1, <1>2, <1>3, FeedKeepsEngine, InitFeedIInv, NextFeedIInv, InitRow, NextClient,
     NextCount, PTL
  DEF FeedSpec
=============================================================================
