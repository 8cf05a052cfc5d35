------------------------------ MODULE OKXFeed ------------------------------
(***************************************************************************)
(* OKXFeedClient (feeds/okx.py).  Unlike Binance there is no request for a *)
(* snapshot: it is the first thing the books channel pushes after a        *)
(* subscribe, among the updates.  So the reader loop loads it, and the     *)
(* resync worker only unsubscribes and subscribes again, after a throttle. *)
(*                                                                         *)
(* A step of the model is what runs between two awaits.  Each websocket is *)
(* a pair of first-in first-out streams, lost with the connection; the far *)
(* end answers a subscribe with the book it then has, or one of up to      *)
(* SnapshotLag updates before, and goes on pushing updates from there.     *)
(***************************************************************************)
EXTENDS BookSync, Connection, TokenBucket

CONSTANTS
  SnapshotRetryLimit,  \* snapshot_retry_limit
  SnapshotLag,         \* how many updates a pushed snapshot may be behind
  MaxInbox,            \* bound: messages under way to the client
  SnapshotFaults       \* ways in which a snapshot asked for never gets loaded

ASSUME FeedAssumption ==
  /\ SnapshotRetryLimit \in Nat \ {0}
  /\ SnapshotLag \in Nat
  /\ MaxInbox \in Nat
  /\ SnapshotFaults \subseteq {"malformed", "refused"}

VARIABLES
  outcome,        \* "running", or how run() ended
  wsOpen,         \* there is a websocket, and no one has closed it
  requests,       \* operations under way to the exchange
  subscribed,     \* the exchange is pushing updates on this connection
  pushed,         \* update id up to which it has pushed
  inbox,          \* messages under way to the client
  resyncNeeded,   \* the asyncio.Event
  worker,         \* where the resync worker is
  retries,        \* _snapshot_retry_count
  snapshotLost,   \* history: the connection's latest snapshot was skipped or refused
  calm,           \* TRUE once the network has stopped misbehaving
  sleepLeft       \* what is left of the throttle's sleep

serverVars == <<requests, subscribed, pushed>>
bucketVars == <<tokens, sleepLeft>>
clientVars == <<outcome, wsOpen, serverVars, inbox, resyncNeeded, worker, retries,
                snapshotLost, calm, bucketVars>>
feedVars == <<vars, connVars, clientVars>>

(* "throttled" is about to resubscribe, "halfway" has sent the unsubscribe *)
(* and not yet the subscribe.                                              *)
Worker == {"idle", "throttled", "halfway", "stopped"}
Outcomes == {"running", "cancelled", "escalated"}

UpdateMsg(p, f) == [kind |-> "update", prev |-> p, final |-> f]
SnapshotMsg(n) == [kind |-> "snapshot", prev |-> n, final |-> n]
ErrorMsg == [kind |-> "error", prev |-> 0, final |-> 0]
Message == [kind : {"update", "snapshot", "error"}, prev : Nat, final : Nat]

-----------------------------------------------------------------------------
FeedInit ==
  /\ Init
  /\ ConnInit
  /\ outcome = "running"
  /\ wsOpen = FALSE
  /\ requests = <<>>
  /\ subscribed = FALSE
  /\ pushed = 0
  /\ inbox = <<>>
  /\ resyncNeeded = FALSE
  /\ worker = "idle"
  /\ retries = 0
  /\ snapshotLost = FALSE
  /\ calm = FALSE
  /\ BucketInit /\ sleepLeft = 0

-----------------------------------------------------------------------------
(* The exchange's end of a connection                                      *)

Push ==
  /\ wsOpen /\ subscribed
  /\ Len(inbox) < MaxInbox
  /\ \E f \in pushed + 1..head :
       /\ pushed' = f
       /\ inbox' = Append(inbox, UpdateMsg(pushed, f))
  /\ UNCHANGED <<vars, connVars, outcome, wsOpen, requests, subscribed, resyncNeeded,
                 worker, retries, snapshotLost, calm, bucketVars>>

ServeUnsubscribe ==
  /\ subscribed' = FALSE
  /\ UNCHANGED <<pushed, inbox>>

ServeSubscribe ==
  /\ Len(inbox) < MaxInbox
  /\ \/ \E n \in 0..head :
          /\ head - (IF calm THEN 0 ELSE SnapshotLag) <= n
          /\ subscribed' = TRUE
          /\ pushed' = n
          /\ inbox' = Append(inbox, SnapshotMsg(n))
     \/ /\ "refused" \in SnapshotFaults /\ ~ calm
        /\ inbox' = Append(inbox, ErrorMsg)
        /\ UNCHANGED <<subscribed, pushed>>

Serve ==
  /\ wsOpen
  /\ requests # <<>>
  /\ requests' = Tail(requests)
  /\ IF Head(requests) = "subscribe" THEN ServeSubscribe ELSE ServeUnsubscribe
  /\ UNCHANGED <<vars, connVars, outcome, wsOpen, resyncNeeded, worker, retries,
                 snapshotLost, calm, bucketVars>>

-----------------------------------------------------------------------------
(* The run loop                                                            *)

StartConnecting ==
  /\ outcome = "running"
  /\ connState \in {"DISCONNECTED", "BACKOFF"}
  /\ Connecting
  /\ UNCHANGED <<vars, clientVars>>

(* The handshake is done and the subscribe on its way; the client is not   *)
(* "connected" before that send has returned.  A worker that has been      *)
(* woken does not wait for its turn as long as a handshake takes.          *)
OpenSocket ==
  /\ outcome = "running"
  /\ ~ (worker = "idle" /\ resyncNeeded)
  /\ connState = "CONNECTING" /\ ~ wsOpen
  /\ wsOpen' = TRUE
  /\ requests' = <<"subscribe">>
  /\ UNCHANGED <<vars, connVars, outcome, subscribed, pushed, inbox, resyncNeeded,
                 worker, retries, snapshotLost, calm, bucketVars>>

(* Every new connection forces a fresh sync, by its first snapshot.        *)
Connect ==
  /\ outcome = "running"
  /\ connState = "CONNECTING" /\ wsOpen
  /\ Connected
  /\ Reconnect
  /\ retries' = 0
  /\ snapshotLost' = FALSE
  /\ UNCHANGED <<outcome, wsOpen, serverVars, inbox, resyncNeeded, worker, calm, bucketVars>>

(* What run() does when an exception ends the connection.  A worker halfway*)
(* through a resubscribe fails its second send, which it suppresses.       *)
Drop ==
  /\ Disconnected
  /\ IF BudgetExhausted
     THEN outcome' = "escalated" /\ worker' = "stopped"
     ELSE /\ worker' = IF worker = "halfway" THEN "idle" ELSE worker
          /\ UNCHANGED outcome
  /\ wsOpen' = FALSE
  /\ requests' = <<>>
  /\ subscribed' = FALSE
  /\ pushed' = 0
  /\ inbox' = <<>>

(* A failed handshake, a broken stream, a service notice, a ping without   *)
(* pong, or recv() on a websocket that the reader has closed itself.       *)
LoseConnection ==
  /\ outcome = "running"
  /\ \/ connState \in {"CONNECTING", "CONNECTED"} /\ ~ calm
     \/ connState = "CONNECTED" /\ ~ wsOpen
  /\ Drop
  /\ UNCHANGED <<vars, resyncNeeded, retries, snapshotLost, calm, bucketVars>>

Cancel ==
  /\ outcome = "running"
  /\ outcome' = "cancelled"
  /\ worker' = "stopped"
  /\ wsOpen' = FALSE
  /\ UNCHANGED <<vars, connVars, serverVars, inbox, resyncNeeded, retries, snapshotLost, calm, bucketVars>>

(* The supervisor's factory: a new client, and the same engine.            *)
Restart ==
  /\ outcome = "escalated"
  /\ ConnReset
  /\ outcome' = "running"
  /\ worker' = "idle"
  /\ resyncNeeded' = FALSE
  /\ retries' = 0
  /\ tokens' = BucketCapacity /\ sleepLeft' = 0
  /\ UNCHANGED <<vars, wsOpen, serverVars, inbox, snapshotLost, calm>>

-----------------------------------------------------------------------------
(* The reader loop                                                         *)

Reading == outcome = "running" /\ connState = "CONNECTED"

(* Mutant: a gap leaves the worker asleep.                                 *)
HandleUpdateQuietly(e) ==
  (BufferEvent(e) \/ ApplyInOrder(e) \/ DetectGap(e)) /\ UNCHANGED resyncNeeded

HandleUpdate(e) ==
  \/ (BufferEvent(e) \/ ApplyInOrder(e)) /\ UNCHANGED resyncNeeded
  \/ DetectGap(e) /\ resyncNeeded' = TRUE

(* Mutant: prevSeqId taken for the first id an update covers.              *)
ParseBookUpdateEarly(m) == EventOf(m.prev - 1, m.final, Touched(m.prev, m.final))

(* prevSeqId and seqId are the two checkpoints themselves.                 *)
ParseBookUpdate(m) == EventOf(m.prev, m.final, Touched(m.prev, m.final))

ReceiveUpdate(m) ==
  /\ m.kind = "update"
  /\ Len(buffer) < MaxBuffer
  /\ MessageReceived
  /\ HandleUpdate(ParseBookUpdate(m))
  /\ UNCHANGED <<wsOpen, retries, worker, outcome, snapshotLost>>

(* Mutant: success leaves the failures before it on the count.             *)
HandleResyncResultKeepingCount(s) ==
  \/ /\ LoadAndReplay(s)
     /\ UNCHANGED <<wsOpen, resyncNeeded, retries>>
  \/ /\ RejectStale(s) \/ LoadThenGap(s)
     /\ retries' = retries + 1
     /\ IF retries + 1 >= SnapshotRetryLimit
        THEN wsOpen' = FALSE /\ UNCHANGED resyncNeeded
        ELSE resyncNeeded' = TRUE /\ UNCHANGED wsOpen

(* A snapshot loaded and replayed is a row of output.  One that is stale   *)
(* or ends in a gap calls for a resubscribe, and the one that exhausts the *)
(* retries closes the websocket instead.                                   *)
HandleResyncResult(s) ==
  \/ /\ LoadAndReplay(s)
     /\ retries' = 0
     /\ UNCHANGED <<wsOpen, resyncNeeded>>
  \/ /\ RejectStale(s) \/ LoadThenGap(s)
     /\ retries' = retries + 1
     /\ IF retries + 1 >= SnapshotRetryLimit
        THEN wsOpen' = FALSE /\ UNCHANGED resyncNeeded
        ELSE resyncNeeded' = TRUE /\ UNCHANGED wsOpen

ReceiveSnapshot(m) ==
  /\ m.kind = "snapshot"
  /\ MessageReceived
  /\ HandleResyncResult(SnapshotAt(m.final))
  /\ snapshotLost' = FALSE
  /\ UNCHANGED <<worker, outcome>>

(* A subscribe error is logged, and that is all.                           *)
ReceiveError(m) ==
  /\ m.kind = "error"
  /\ MessageReceived
  /\ snapshotLost' = TRUE
  /\ UNCHANGED <<engineVars, wsOpen, resyncNeeded, retries, worker, outcome>>

(* A message that cannot be parsed is skipped, and what it said is lost.   *)
SkipMalformed(m) ==
  /\ ~ calm
  /\ m.kind = "update" \/ "malformed" \in SnapshotFaults
  /\ MessageReceived
  /\ snapshotLost' = (snapshotLost \/ m.kind # "update")
  /\ UNCHANGED <<engineVars, wsOpen, resyncNeeded, retries, worker, outcome>>

Receive ==
  /\ Reading
  /\ inbox # <<>>
  /\ inbox' = Tail(inbox)
  /\ LET m == Head(inbox)
     IN  ReceiveUpdate(m) \/ ReceiveSnapshot(m) \/ ReceiveError(m) \/ SkipMalformed(m)
  /\ UNCHANGED <<exchangeVars, serverVars, calm, bucketVars>>

(* A snapshot for an engine that is LIVE: load_snapshot raises ValueError, *)
(* and the run loop takes that for a broken connection.                    *)
RaiseOnSnapshot ==
  /\ Reading
  /\ inbox # <<>>
  /\ Head(inbox).kind = "snapshot"
  /\ RefuseWhileLive
  /\ connState' = "BACKOFF"
  /\ messageSeen' = TRUE
  /\ attempt' = IF messageSeen THEN attempt + 1 ELSE 1
  /\ IF attempt' >= MaxReconnectFailures
     THEN outcome' = "escalated" /\ worker' = "stopped"
     ELSE /\ worker' = IF worker = "halfway" THEN "idle" ELSE worker
          /\ UNCHANGED outcome
  /\ wsOpen' = FALSE
  /\ requests' = <<>>
  /\ subscribed' = FALSE
  /\ pushed' = 0
  /\ inbox' = <<>>
  /\ UNCHANGED <<exchangeVars, resyncNeeded, retries, snapshotLost, calm, bucketVars>>

(* The answer to a ping keeps the connection alive, whatever its state.    *)
ReceivePong ==
  /\ Reading /\ wsOpen
  /\ MessageReceived
  /\ UNCHANGED <<vars, clientVars>>

-----------------------------------------------------------------------------
(* The resync worker                                                       *)

RESUBSCRIBE_OP_COST == 2

(* A bucket that never holds the cost of one resubscribe cannot pay for it.*)
ASSUME ThrottleAssumption == RESUBSCRIBE_OP_COST <= BucketCapacity

(* Whether the tokens were there is not looked at.  The websocket is the   *)
(* one there is now.                                                       *)
SendUnsubscribe ==
  /\ TryAcquire(RESUBSCRIBE_OP_COST)
  /\ IF wsOpen
     THEN worker' = "halfway" /\ requests' = Append(requests, "unsubscribe")
     ELSE worker' = "idle" /\ UNCHANGED requests

(* Mutant: the wait is for a single token.                                 *)
RequestResubscribeForOne ==
  /\ sleepLeft' = TimeUntilAvailable(1)
  /\ \/ sleepLeft' = 0 /\ SendUnsubscribe
     \/ sleepLeft' > 0 /\ worker' = "throttled" /\ UNCHANGED <<tokens, requests>>

(* With tokens at hand the worker does not let go of the loop.             *)
RequestResubscribe ==
  /\ sleepLeft' = TimeUntilAvailable(RESUBSCRIBE_OP_COST)
  /\ \/ sleepLeft' = 0 /\ SendUnsubscribe
     \/ sleepLeft' > 0 /\ worker' = "throttled" /\ UNCHANGED <<tokens, requests>>

WakeUp ==
  /\ worker = "idle"
  /\ resyncNeeded
  /\ resyncNeeded' = FALSE
  /\ \/ state = "LIVE" /\ UNCHANGED <<worker, requests, bucketVars>>
     \/ state # "LIVE" /\ RequestResubscribe
  /\ UNCHANGED <<vars, connVars, outcome, wsOpen, subscribed, pushed, inbox, retries,
                 snapshotLost, calm>>

(* Neither the state nor the websocket is the one that was there when the  *)
(* sleep began.                                                            *)
EndThrottle ==
  /\ worker = "throttled" /\ sleepLeft = 0
  /\ SendUnsubscribe
  /\ UNCHANGED <<vars, connVars, outcome, wsOpen, subscribed, pushed, inbox, resyncNeeded,
                 retries, snapshotLost, calm, sleepLeft>>

(* Time passes: a token comes back, and a sleeping worker has less to wait.*)
Tick ==
  /\ outcome = "running"
  /\ tokens < BucketCapacity \/ sleepLeft > 0
  /\ Refill
  /\ sleepLeft' = IF sleepLeft > 0 THEN sleepLeft - 1 ELSE 0
  /\ UNCHANGED <<vars, connVars, outcome, wsOpen, serverVars, inbox, resyncNeeded, worker,
                 retries, snapshotLost, calm>>

SendSubscribe ==
  /\ worker = "halfway"
  /\ worker' = "idle"
  /\ requests' = IF wsOpen THEN Append(requests, "subscribe") ELSE requests
  /\ UNCHANGED <<vars, connVars, outcome, wsOpen, subscribed, pushed, inbox, resyncNeeded,
                 retries, snapshotLost, calm, bucketVars>>

-----------------------------------------------------------------------------
MarketMoves == Market /\ UNCHANGED <<connVars, clientVars>>

(* From here on nothing fails any more.                                    *)
CalmDown ==
  /\ ~ calm
  /\ calm' = TRUE
  /\ UNCHANGED <<vars, connVars, outcome, wsOpen, serverVars, inbox, resyncNeeded, worker,
                 retries, snapshotLost, bucketVars>>

Exchange == Push \/ Serve \/ MarketMoves
RunLoop == StartConnecting \/ OpenSocket \/ Connect \/ LoseConnection
Reader == Receive \/ RaiseOnSnapshot \/ ReceivePong
ResyncWorker == WakeUp \/ EndThrottle \/ SendSubscribe \/ Tick
Environment == Exchange \/ CalmDown \/ Cancel \/ Restart

FeedNext == RunLoop \/ Reader \/ ResyncWorker \/ Environment

FeedSpec == FeedInit /\ [][FeedNext]_feedVars

(* As in BinanceFeed; the exchange answers what it is asked, and what it   *)
(* sent on a connection that holds is received.                            *)
FeedFairness ==
  /\ WF_feedVars(StartConnecting)
  /\ WF_feedVars(OpenSocket)
  /\ WF_feedVars(Connect)
  /\ WF_feedVars(LoseConnection /\ ~ wsOpen)
  /\ WF_feedVars(Restart)
  /\ WF_feedVars(Serve)
  /\ WF_feedVars(Receive \/ RaiseOnSnapshot)
  /\ WF_feedVars(WakeUp)
  /\ WF_feedVars(Tick)
  /\ WF_feedVars(EndThrottle)
  /\ WF_feedVars(SendSubscribe)

FairFeedSpec == FeedSpec /\ FeedFairness

-----------------------------------------------------------------------------
FeedTypeOK ==
  /\ TypeOK
  /\ ConnTypeOK
  /\ outcome \in Outcomes
  /\ wsOpen \in BOOLEAN
  /\ requests \in Seq({"subscribe", "unsubscribe"})
  /\ subscribed \in BOOLEAN
  /\ pushed \in 0..head
  /\ inbox \in Seq(Message)
  /\ resyncNeeded \in BOOLEAN
  /\ worker \in Worker
  /\ retries \in 0..SnapshotRetryLimit + MaxInbox
  /\ snapshotLost \in BOOLEAN
  /\ calm \in BOOLEAN
  /\ tokens \in 0..BucketCapacity
  /\ sleepLeft \in 0..RESUBSCRIBE_OP_COST

(* The answer to a subscribe is under way to the client, or asked for.     *)
SnapshotComing ==
  \/ \E i \in DOMAIN inbox : inbox[i].kind # "update"
  \/ \E i \in DOMAIN requests : requests[i] = "subscribe"

(* Something will bring the book back: a snapshot, or the worker.          *)
ResyncUnderWay ==
  SnapshotComing \/ resyncNeeded \/ worker \in {"throttled", "halfway"}

(* No resync is lost: on an open connection whose book is not LIVE, a      *)
(* snapshot is coming or the worker has been told to ask for one, in       *)
(* whatever order pushes, wakeups and reconnects came, unless the snapshot *)
(* itself was refused or could not be parsed.                              *)
ResyncIsComing ==
  Reading /\ wsOpen /\ state # "LIVE" /\ ~ snapshotLost => ResyncUnderWay

(* What the reader's skipping of messages relies on: the gap a lost push   *)
(* leaves surfaces, so that even then a resync is under way.               *)
LostPushSurfaces == Reading /\ wsOpen /\ state # "LIVE" => ResyncUnderWay

(* Every resync has the whole retry limit for itself: once the book is LIVE *)
(* none of the failures it took, on this connection or an earlier one, is  *)
(* left to be counted against the next gap.                                *)
FullRetryBudget == Reading /\ state = "LIVE" => retries = 0

(* Every resubscribe is paid for, although the result of try_acquire is    *)
(* ignored: nothing that happens during the sleep, on this connection or   *)
(* the next, leaves too few tokens when it is over (okx.py:586-594).       *)
ResubscribesArePaid ==
  [][worker # "halfway" /\ worker' = "halfway" =>
       tokens' = tokens - RESUBSCRIBE_OP_COST]_feedVars

(* The feed does to its engine only what BookSync allows, so what is       *)
(* proved there of the book holds of the book this client keeps.           *)
ImplementsBookSync == Spec

(* Once the network has calmed down the book gets LIVE and stays LIVE,     *)
(* unless the connection has lost its snapshot before.                     *)
Recovers ==
  <>calm => <>(outcome = "cancelled" \/ [](state = "LIVE") \/ [](snapshotLost))

(* The client fetches a snapshot only for an engine that wants one: none   *)
(* is ever handed to a LIVE engine.                                        *)
NeverLoadsWhileLive ==
  ~ (Reading /\ inbox # <<>> /\ Head(inbox).kind = "snapshot" /\ state = "LIVE")
=============================================================================
