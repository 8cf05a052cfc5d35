---------------------------- MODULE OKXFeedProofs ----------------------------
(***************************************************************************)
(* Proofs about OKXFeed, for every value of its constants: its client does *)
(* to the engine only what BookSync allows, so the book it keeps is exact; *)
(* no resync is lost unless its snapshot is; every resync has the whole    *)
(* retry limit; and every resubscribe is paid for.                         *)
(***************************************************************************)
EXTENDS OKXFeed, BookSyncProofs

-----------------------------------------------------------------------------
(* What is under way to the client                                         *)

(* A message that tells of updates an exchange at h has been through.      *)
TrueAt(m, h) ==
  /\ m \in Message
  /\ m.prev <= m.final /\ m.final <= h

StreamIInv ==
  /\ head \in Nat
  /\ pushed \in 0..head
  /\ inbox \in Seq(Message)
  /\ \A i \in 1..Len(inbox) : TrueAt(inbox[i], head)
  /\ requests \in Seq({"subscribe", "unsubscribe"})

LEMMA InitStream == FeedInit => StreamIInv
BY DEF FeedInit, Init, ExchangeInit, StreamIInv

(* The messages sent are true when they are sent.                          *)
LEMMA SentAreTrue ==
  ASSUME StreamIInv
  PROVE  /\ \A f \in pushed + 1..head : TrueAt(UpdateMsg(pushed, f), head)
         /\ \A n \in 0..head : TrueAt(SnapshotMsg(n), head)
         /\ TrueAt(ErrorMsg, head)
BY DEF StreamIInv, TrueAt, UpdateMsg, SnapshotMsg, ErrorMsg, Message

(* Where they all go: to the end of the inbox.                             *)
LEMMA InboxGrows ==
  ASSUME StreamIInv, NEW m, TrueAt(m, head), inbox' = Append(inbox, m), UNCHANGED head
  PROVE  inbox' \in Seq(Message) /\ \A i \in 1..Len(inbox') : TrueAt(inbox'[i], head')
<1>1. m \in Message /\ inbox \in Seq(Message)
  BY DEF TrueAt, StreamIInv
<1>2. /\ inbox' \in Seq(Message) /\ Len(inbox') = Len(inbox) + 1 /\ Len(inbox) \in Nat
      /\ \A i \in 1..Len(inbox) : inbox'[i] = inbox[i]
      /\ inbox'[Len(inbox) + 1] = m
  BY <1>1, Appended
<1>3. ASSUME NEW i \in 1..Len(inbox') PROVE TrueAt(inbox'[i], head')
  BY <1>2 DEF StreamIInv
<1> QED
  BY <1>2, <1>3 DEF TrueAt

(* And where they are taken from.                                          *)
LEMMA InboxShrinks ==
  ASSUME StreamIInv, inbox # <<>>, inbox' = Tail(inbox), UNCHANGED head
  PROVE  /\ TrueAt(Head(inbox), head)
         /\ inbox' \in Seq(Message)
         /\ \A i \in 1..Len(inbox') : TrueAt(inbox'[i], head')
<1>1. inbox \in Seq(Message)
  BY DEF StreamIInv
<1>2. /\ inbox' \in Seq(Message)
      /\ Len(inbox) \in Nat \ {0} /\ Len(inbox') = Len(inbox) - 1
      /\ Head(inbox) = inbox[1]
      /\ \A i \in 1..Len(inbox) - 1 : inbox'[i] = inbox[i + 1]
  BY <1>1, WithoutFirst
<1>3. ASSUME NEW i \in 1..Len(inbox') PROVE TrueAt(inbox'[i], head')
  <2>1. i + 1 \in 1..Len(inbox) /\ inbox'[i] = inbox[i + 1]
    BY <1>2
  <2> QED
    BY <2>1 DEF StreamIInv
<1>4. TrueAt(Head(inbox), head)
  BY <1>2 DEF StreamIInv
<1> QED
  BY <1>2, <1>3, <1>4 DEF TrueAt

LEMMA NextStream == StreamIInv /\ [FeedNext]_feedVars => StreamIInv'
<1> SUFFICES ASSUME StreamIInv, [FeedNext]_feedVars PROVE StreamIInv'
  OBVIOUS
<1> USE DEF vars, exchangeVars, connVars, clientVars, serverVars, bucketVars, engineVars
<1>0. /\ head \in Nat /\ pushed \in 0..head /\ inbox \in Seq(Message)
      /\ \A i \in 1..Len(inbox) : TrueAt(inbox[i], head)
      /\ requests \in Seq({"subscribe", "unsubscribe"})
  BY DEF StreamIInv
(* A step that goes on with the same connection, or drops it.              *)
<1>1. ASSUME UNCHANGED <<head, pushed, inbox>>,
             requests' \in Seq({"subscribe", "unsubscribe"})
      PROVE  StreamIInv'
  BY <1>0, <1>1 DEF StreamIInv, TrueAt
<1>2. ASSUME UNCHANGED head, pushed' = 0, inbox' = <<>>, requests' = <<>>
      PROVE  StreamIInv'
  BY <1>0, <1>2 DEF StreamIInv
<1>3. CASE Push
  <2>1. PICK f \in pushed + 1..head :
          pushed' = f /\ inbox' = Append(inbox, UpdateMsg(pushed, f))
    BY <1>3 DEF Push
  <2>2. UNCHANGED <<head, requests>>
    BY <1>3 DEF Push
  <2> QED
    BY <1>0, <2>1, <2>2, SentAreTrue, InboxGrows DEF StreamIInv
<1>4. CASE Serve
  <2>1. UNCHANGED head /\ requests' \in Seq({"subscribe", "unsubscribe"})
    BY <1>0, <1>4, WithoutFirst DEF Serve
  <2>2. CASE ServeUnsubscribe
    BY <1>1, <2>1, <2>2 DEF ServeUnsubscribe
  <2>3. CASE ServeSubscribe
    <3>1. \/ \E n \in 0..head : pushed' = n /\ inbox' = Append(inbox, SnapshotMsg(n))
          \/ pushed' = pushed /\ inbox' = Append(inbox, ErrorMsg)
      BY <2>3 DEF ServeSubscribe
    <3> QED
      BY <1>0, <2>1, <3>1, SentAreTrue, InboxGrows DEF StreamIInv
  <2> QED
    BY <1>4, <2>2, <2>3 DEF Serve
<1>5. CASE Receive
  <2>1. UNCHANGED <<head, requests, pushed>> /\ inbox # <<>> /\ inbox' = Tail(inbox)
    BY <1>5 DEF Receive
  <2> QED
    BY <1>0, <2>1, InboxShrinks DEF StreamIInv
<1>6. CASE RaiseOnSnapshot
  BY <1>2, <1>6 DEF RaiseOnSnapshot
<1>7. CASE LoseConnection
  BY <1>2, <1>7 DEF LoseConnection, Drop
<1>8. CASE StartConnecting \/ OpenSocket \/ Connect
  <2>1. <<"subscribe">> \in Seq({"subscribe", "unsubscribe"})
    OBVIOUS
  <2> QED
    BY <1>0, <1>1, <1>8, <2>1 DEF StartConnecting, OpenSocket, Connect, Reconnect
<1>9. CASE ReceivePong \/ Cancel \/ Restart \/ CalmDown \/ Tick
  BY <1>0, <1>1, <1>9 DEF ReceivePong, Cancel, Restart, CalmDown, Tick
<1>10. CASE WakeUp \/ EndThrottle \/ SendSubscribe
  <2>1. /\ UNCHANGED <<head, pushed, inbox>>
        /\ \/ UNCHANGED requests
           \/ requests' = Append(requests, "subscribe")
           \/ requests' = Append(requests, "unsubscribe")
    BY <1>10 DEF WakeUp, EndThrottle, SendSubscribe, RequestResubscribe, SendUnsubscribe
  <2> QED
    BY <1>0, <1>1, <2>1, Appended
<1>11. CASE MarketMoves
  <2>1. head' = head + 1 /\ UNCHANGED <<pushed, inbox, requests>>
    BY <1>11 DEF MarketMoves, Market, MarketStep
  <2>2. ASSUME NEW i \in 1..Len(inbox) PROVE TrueAt(inbox'[i], head')
    <3>1. TrueAt(inbox[i], head)
      BY <1>0
    <3> QED
      BY <1>0, <2>1, <3>1 DEF TrueAt, Message
  <2> QED
    BY <1>0, <2>1, <2>2 DEF StreamIInv
<1>12. CASE UNCHANGED feedVars
  BY <1>0, <1>1, <1>12 DEF feedVars
<1> QED
  BY <1>3, <1>4, <1>5, <1>6, <1>7, <1>8, <1>9, <1>10, <1>11, <1>12
  DEF FeedNext, RunLoop, Reader, ResyncWorker, Environment, Exchange

-----------------------------------------------------------------------------
(* Refinement                                                              *)

(* What the reader does with an update is a step of apply_event on it.     *)
LEMMA HandledUpdate ==
  ASSUME NEW e, HandleUpdate(e)
  PROVE  /\ ApplyEvent(e)
         /\ state' = "LIVE" => state = "LIVE"
         /\ state' # "LIVE" /\ state = "LIVE" => resyncNeeded'
         /\ resyncNeeded => resyncNeeded'
BY DEF HandleUpdate, ApplyEvent, BufferEvent, ApplyInOrder, DetectGap, FallBehind

(* And what it does with a snapshot, one of load_snapshot.                 *)
LEMMA HandledSnapshot ==
  ASSUME NEW s, HandleResyncResult(s)
  PROVE  /\ LoadSnapshot(s)
         /\ state # "LIVE"
         /\ state' = "LIVE" => retries' = 0
         /\ wsOpen' => wsOpen
         /\ wsOpen' /\ state' # "LIVE" => resyncNeeded'
BY DEF HandleResyncResult, LoadSnapshot, RejectStale, LoadAndReplay, LoadThenGap,
       FallBehind, engineVars

LEMMA FeedStepRefines == StreamIInv /\ [FeedNext]_feedVars => [Next]_vars
<1> SUFFICES ASSUME StreamIInv, [FeedNext]_feedVars PROVE [Next]_vars
  OBVIOUS
<1>1. CASE Connect
  BY <1>1 DEF Connect, Next
<1>2. CASE Receive
  <2> DEFINE m == Head(inbox)
  <2>1. TrueAt(m, head) /\ head \in Nat
    BY <1>2, InboxShrinks DEF Receive, StreamIInv, exchangeVars
  <2>2. m.prev \in 0..head /\ m.final \in 0..head /\ m.prev <= m.final
    BY <2>1 DEF TrueAt, Message
  <2> HIDE DEF m
  <2>3. CASE ReceiveUpdate(m)
    <3>1. ApplyEvent(EventOf(m.prev, m.final, Touched(m.prev, m.final)))
      BY <2>3, HandledUpdate DEF ReceiveUpdate, ParseBookUpdate
    <3>2. Touched(m.prev, m.final) \in SUBSET Level
      BY DEF Touched
    <3>3. UNCHANGED exchangeVars /\ Len(buffer) < MaxBuffer
      BY <1>2, <2>3 DEF Receive, ReceiveUpdate
    <3>4. Deliver
      BY <2>2, <3>1, <3>2, <3>3 DEF Deliver
    <3> QED
      BY <3>4 DEF Next
  <2>4. CASE ReceiveSnapshot(m)
    <3>1. LoadSnapshot(SnapshotAt(m.final)) /\ UNCHANGED exchangeVars
      BY <1>2, <2>4, HandledSnapshot DEF Receive, ReceiveSnapshot
    <3> QED
      BY <2>2, <3>1 DEF Resync, Next
  <2>5. CASE ReceiveError(m) \/ SkipMalformed(m)
    BY <1>2, <2>5 DEF Receive, ReceiveError, SkipMalformed, engineVars, exchangeVars, vars
  <2> QED
    BY <1>2, <2>3, <2>4, <2>5 DEF Receive, m
<1>3. CASE RaiseOnSnapshot
  BY <1>3 DEF RaiseOnSnapshot, RefuseWhileLive, engineVars, exchangeVars, vars
<1>4. CASE MarketMoves
  BY <1>4 DEF MarketMoves, Next
<1>5. CASE UNCHANGED vars
  BY <1>5
<1> QED
  BY <1>1, <1>2, <1>3, <1>4, <1>5
  DEF FeedNext, RunLoop, Reader, ResyncWorker, Environment, Exchange, Push, Serve,
      StartConnecting, OpenSocket, LoseConnection, Cancel, Restart, ReceivePong, WakeUp,
      EndThrottle, Tick, SendSubscribe, CalmDown, feedVars

(* The OKX client implements BookSync: what it does to its engine is       *)
(* always a truthful event, a truthful snapshot or an invalidation, though *)
(* both come to it over one stream, among errors and messages it skips.    *)
THEOREM OKXImplementsBookSync == FeedSpec => ImplementsBookSync
<1>1. FeedInit => Init
  BY DEF FeedInit
<1> QED
  BY <1>1, InitStream, NextStream, FeedStepRefines, PTL
  DEF FeedSpec, Spec, ImplementsBookSync

(* Hence the book of a LIVE OKX feed is the exchange's.                    *)
THEOREM OKXBookExact == FeedSpec => []LiveBookIsExact
BY OKXImplementsBookSync, LiveBookExact DEF ImplementsBookSync

(* What a reader of the OKX client sees is nothing, or a book the exchange *)
(* had, with an id that grows until the next resync (ImplementsMirror).    *)
THEOREM OKXImplementsMirror == FeedSpec => ImplementsMirror
BY OKXImplementsBookSync, EngineImplementsMirror DEF ImplementsBookSync

(* Whenever the OKX client fails to sync, something was lost or the        *)
(* snapshot was too old: a buffer without a break that reaches back to it  *)
(* is replayed in whole (InOrderBufferReplays).                            *)
THEOREM OKXReplaysInOrder == FeedSpec => []InOrderBufferReplays
BY OKXImplementsBookSync, InOrderAlwaysReplays DEF ImplementsBookSync

-----------------------------------------------------------------------------
(* The resubscribe throttle                                                *)

(* What the worker waits for comes back while it sleeps: the tokens there  *)
(* and the ones the sleep brings pay for the resubscribe.                  *)
SleepPays == worker = "throttled" => tokens + sleepLeft >= RESUBSCRIBE_OP_COST

ThrottleIInv ==
  /\ tokens \in 0..BucketCapacity
  /\ sleepLeft \in 0..RESUBSCRIBE_OP_COST
  /\ SleepPays

LEMMA InitThrottle == FeedInit => ThrottleIInv
BY BucketAssumption
DEF FeedInit, BucketInit, ThrottleIInv, SleepPays, RESUBSCRIBE_OP_COST

(* A worker that sends the unsubscribe after a wait of nothing has paid.   *)
LEMMA PaidSend ==
  ASSUME tokens \in 0..BucketCapacity, tokens >= RESUBSCRIBE_OP_COST, SendUnsubscribe
  PROVE  /\ tokens' = tokens - RESUBSCRIBE_OP_COST /\ tokens' \in 0..BucketCapacity
         /\ worker' # "throttled"
BY BucketAssumption DEF SendUnsubscribe, TryAcquire, RESUBSCRIBE_OP_COST

LEMMA NextThrottle ==
  ThrottleIInv /\ [FeedNext]_feedVars =>
    /\ ThrottleIInv'
    /\ worker # "halfway" /\ worker' = "halfway" => tokens' = tokens - RESUBSCRIBE_OP_COST
<1> SUFFICES ASSUME ThrottleIInv, [FeedNext]_feedVars
             PROVE  /\ ThrottleIInv'
                    /\ worker # "halfway" /\ worker' = "halfway" =>
                         tokens' = tokens - RESUBSCRIBE_OP_COST
  OBVIOUS
<1> USE DEF connVars, clientVars, serverVars, bucketVars
<1>0. /\ tokens \in 0..BucketCapacity /\ sleepLeft \in 0..RESUBSCRIBE_OP_COST
      /\ SleepPays /\ BucketCapacity \in Nat \ {0}
  BY BucketAssumption DEF ThrottleIInv
(* A step that leaves the throttle alone.                                  *)
<1>1. ASSUME UNCHANGED bucketVars,
             worker' = worker \/ worker' \in {"idle", "stopped"}
      PROVE  /\ ThrottleIInv'
             /\ worker # "halfway" /\ worker' = "halfway" =>
                  tokens' = tokens - RESUBSCRIBE_OP_COST
  BY <1>0, <1>1 DEF ThrottleIInv, SleepPays
<1>2. CASE WakeUp
  <2>1. CASE UNCHANGED <<worker, bucketVars>>
    BY <1>1, <2>1
  <2>2. CASE RequestResubscribe
    <3>1. CASE sleepLeft' = 0 /\ SendUnsubscribe
      <4>1. tokens >= RESUBSCRIBE_OP_COST
        BY <1>0, <2>2, <3>1 DEF RequestResubscribe, TimeUntilAvailable, RESUBSCRIBE_OP_COST
      <4> QED
        BY <1>0, <3>1, <4>1, PaidSend DEF ThrottleIInv, SleepPays, RESUBSCRIBE_OP_COST
    <3>2. CASE sleepLeft' > 0 /\ worker' = "throttled" /\ UNCHANGED tokens
      <4>1. sleepLeft' = RESUBSCRIBE_OP_COST - tokens
        BY <1>0, <2>2, <3>2 DEF RequestResubscribe, TimeUntilAvailable, RESUBSCRIBE_OP_COST
      <4> QED
        BY <1>0, <3>2, <4>1 DEF ThrottleIInv, SleepPays, RESUBSCRIBE_OP_COST
    <3> QED
      BY <2>2, <3>1, <3>2 DEF RequestResubscribe
  <2> QED
    BY <1>2, <2>1, <2>2 DEF WakeUp
<1>3. CASE EndThrottle
  <2>1. worker = "throttled" /\ sleepLeft = 0 /\ SendUnsubscribe /\ sleepLeft' = sleepLeft
    BY <1>3 DEF EndThrottle
  <2>2. tokens >= RESUBSCRIBE_OP_COST
    BY <1>0, <2>1 DEF SleepPays, RESUBSCRIBE_OP_COST
  <2> QED
    BY <1>0, <2>1, <2>2, PaidSend DEF ThrottleIInv, SleepPays
<1>4. CASE Tick
  <2>1. /\ worker' = worker
        /\ tokens' = IF tokens < BucketCapacity THEN tokens + 1 ELSE tokens
        /\ sleepLeft' = IF sleepLeft > 0 THEN sleepLeft - 1 ELSE 0
    BY <1>4 DEF Tick, Refill
  <2>2. SleepPays'
    BY <1>0, <2>1, ThrottleAssumption DEF SleepPays, RESUBSCRIBE_OP_COST
  <2> QED
    BY <1>0, <2>1, <2>2 DEF ThrottleIInv, RESUBSCRIBE_OP_COST
<1>5. CASE Restart
  <2>1. worker' = "idle" /\ tokens' = BucketCapacity /\ sleepLeft' = 0
    BY <1>5 DEF Restart
  <2> QED
    BY <1>0, <2>1 DEF ThrottleIInv, SleepPays, RESUBSCRIBE_OP_COST
<1>6. CASE LoseConnection
  BY <1>1, <1>6 DEF LoseConnection, Drop
<1>7. CASE RaiseOnSnapshot
  BY <1>1, <1>7 DEF RaiseOnSnapshot
<1>8. CASE Receive
  BY <1>1, <1>8
  DEF Receive, ReceiveUpdate, ReceiveSnapshot, ReceiveError, SkipMalformed
<1>9. CASE (RunLoop /\ ~ LoseConnection) \/ ReceivePong
  BY <1>1, <1>9 DEF RunLoop, StartConnecting, OpenSocket, Connect, ReceivePong
<1>10. CASE SendSubscribe \/ Exchange \/ CalmDown \/ Cancel
  BY <1>1, <1>10
  DEF SendSubscribe, Exchange, Push, Serve, MarketMoves, CalmDown, Cancel
<1>11. CASE UNCHANGED feedVars
  BY <1>1, <1>11 DEF feedVars
<1> QED
  BY <1>2, <1>3, <1>4, <1>5, <1>6, <1>7, <1>8, <1>9, <1>10, <1>11
  DEF FeedNext, RunLoop, Reader, ResyncWorker, Environment

(* Every resubscribe is paid for: whatever happens during the throttle's   *)
(* sleep, the tokens are there when it is over (ResubscribesArePaid).      *)
THEOREM ResubscribesPaid == FeedSpec => ResubscribesArePaid
<1>1. ThrottleIInv /\ [FeedNext]_feedVars =>
        [worker # "halfway" /\ worker' = "halfway" =>
           tokens' = tokens - RESUBSCRIBE_OP_COST]_feedVars
  BY NextThrottle
<1>2. ThrottleIInv /\ [FeedNext]_feedVars => ThrottleIInv'
  BY NextThrottle
<1> QED
  BY <1>1, <1>2, InitThrottle, PTL DEF FeedSpec, ResubscribesArePaid

-----------------------------------------------------------------------------
(* Resyncs                                                                 *)

(* Every resync has the whole retry limit for itself: the count starts     *)
(* over with the connection and with every snapshot that loads.            *)
LEMMA NextFullRetryBudget == FullRetryBudget /\ [FeedNext]_feedVars => FullRetryBudget'
<1> SUFFICES ASSUME FullRetryBudget, [FeedNext]_feedVars PROVE FullRetryBudget'
  OBVIOUS
<1> USE DEF FullRetryBudget, Reading, vars, engineVars, connVars, clientVars
<1>1. CASE Receive
  <2>1. Reading /\ outcome' = outcome /\ connState' = connState
    BY <1>1 DEF Receive, ReceiveUpdate, ReceiveSnapshot, ReceiveError, SkipMalformed,
                MessageReceived
  <2>2. CASE ReceiveUpdate(Head(inbox))
    BY <2>1, <2>2, HandledUpdate DEF ReceiveUpdate
  <2>3. CASE ReceiveSnapshot(Head(inbox))
    BY <2>3, HandledSnapshot DEF ReceiveSnapshot
  <2>4. CASE ReceiveError(Head(inbox)) \/ SkipMalformed(Head(inbox))
    BY <2>1, <2>4 DEF ReceiveError, SkipMalformed
  <2> QED
    BY <1>1, <2>2, <2>3, <2>4 DEF Receive
<1>2. CASE RunLoop
  BY <1>2 DEF RunLoop, StartConnecting, Connecting, OpenSocket, Connect, Connected,
              Reconnect, Invalidate, LoseConnection, Drop, Disconnected
<1>3. CASE RaiseOnSnapshot
  BY <1>3 DEF RaiseOnSnapshot
<1>4. CASE ReceivePong \/ ResyncWorker
  BY <1>4 DEF ReceivePong, MessageReceived, ResyncWorker, WakeUp, EndThrottle, Tick,
              SendSubscribe
<1>5. CASE Environment
  BY <1>5 DEF Environment, Exchange, Push, Serve, MarketMoves, Market, CalmDown, Cancel,
              Restart, ConnReset
<1>6. CASE UNCHANGED feedVars
  BY <1>6 DEF feedVars
<1> QED
  BY <1>1, <1>2, <1>3, <1>4, <1>5, <1>6 DEF FeedNext, Reader

(* No failure of a past resync is left on the count of a book that is LIVE,*)
(* so the next gap has snapshot_retry_limit tries of its own.              *)
THEOREM RetryBudgetIsFull == FeedSpec => []FullRetryBudget
<1>1. FeedInit => FullRetryBudget
  BY DEF FeedInit, ConnInit, FullRetryBudget, Reading
<1> QED
  BY <1>1, NextFullRetryBudget, PTL DEF FeedSpec

(* A client between connections has no websocket, and one whose handshake  *)
(* is done has asked for its first snapshot: when the connection counts as *)
(* made, and the old snapshot is forgotten, a new one is coming.           *)
ResyncIInv ==
  /\ connState \in {"DISCONNECTED", "BACKOFF"} \/ outcome = "escalated" => ~ wsOpen
  /\ outcome = "running" /\ connState = "CONNECTING" /\ wsOpen => SnapshotComing
  /\ ResyncIsComing

(* A snapshot that is coming keeps coming, whatever else is sent.          *)
LEMMA ComingWhilePushed ==
  ASSUME StreamIInv, SnapshotComing, NEW m \in Message,
         inbox' = Append(inbox, m), UNCHANGED requests
  PROVE  SnapshotComing'
BY Appended DEF StreamIInv, SnapshotComing

LEMMA ComingWhileServed ==
  ASSUME StreamIInv, SnapshotComing, Serve
  PROVE  SnapshotComing'
<1>1. /\ inbox \in Seq(Message) /\ requests \in Seq({"subscribe", "unsubscribe"})
      /\ requests # <<>> /\ requests' = Tail(requests)
  BY DEF StreamIInv, Serve
<1>2. CASE ServeUnsubscribe /\ Head(requests) # "subscribe"
  <2>1. inbox' = inbox
    BY <1>2 DEF ServeUnsubscribe
  <2>2. CASE \E i \in DOMAIN inbox : inbox[i].kind # "update"
    BY <2>1, <2>2 DEF SnapshotComing
  <2>3. CASE \E i \in DOMAIN requests : requests[i] = "subscribe"
    <3>1. PICK i \in 1..Len(requests) : requests[i] = "subscribe"
      BY <1>1, <2>3
    <3>2. i # 1 /\ i - 1 \in DOMAIN Tail(requests) /\ Tail(requests)[i - 1] = requests[i]
      BY <1>1, <1>2, <3>1, WithoutFirst
    <3> QED
      BY <1>1, <3>1, <3>2 DEF SnapshotComing
  <2> QED
    BY <2>2, <2>3 DEF SnapshotComing
<1>3. CASE ServeSubscribe
  <2>1. PICK m \in Message : inbox' = Append(inbox, m) /\ m.kind # "update"
    <3>1. head \in Nat /\ \A n \in 0..head : SnapshotMsg(n) \in Message
      BY SentAreTrue DEF StreamIInv, TrueAt
    <3>2. /\ \A n : SnapshotMsg(n).kind = "snapshot"
          /\ ErrorMsg \in Message /\ ErrorMsg.kind = "error"
      BY DEF SnapshotMsg, ErrorMsg, Message
    <3> QED
      BY <1>3, <3>1, <3>2 DEF ServeSubscribe
  <2>2. Len(inbox) + 1 \in DOMAIN inbox' /\ inbox'[Len(inbox) + 1] = m
    BY <1>1, <2>1, Appended
  <2> QED
    BY <2>1, <2>2 DEF SnapshotComing
<1> QED
  BY <1>2, <1>3 DEF Serve

(* Only its own arrival takes it off the stream.                           *)
LEMMA ComingWhileRead ==
  ASSUME StreamIInv, SnapshotComing, inbox # <<>>, inbox' = Tail(inbox),
         Head(inbox).kind = "update", UNCHANGED requests
  PROVE  SnapshotComing'
<1>1. CASE \E i \in DOMAIN requests : requests[i] = "subscribe"
  BY <1>1 DEF SnapshotComing
<1>2. CASE \E i \in DOMAIN inbox : inbox[i].kind # "update"
  <2>1. PICK i \in 1..Len(inbox) : inbox[i].kind # "update"
    BY <1>2 DEF StreamIInv
  <2>2. i # 1 /\ i - 1 \in DOMAIN Tail(inbox) /\ Tail(inbox)[i - 1] = inbox[i]
    BY <2>1, WithoutFirst DEF StreamIInv
  <2> QED
    BY <2>1, <2>2 DEF SnapshotComing
<1> QED
  BY <1>1, <1>2 DEF SnapshotComing

(* What the worker sends comes after it.                                   *)
LEMMA ComingWhileAsked ==
  ASSUME StreamIInv, NEW op \in {"subscribe", "unsubscribe"},
         requests' = Append(requests, op), UNCHANGED inbox
  PROVE  /\ SnapshotComing => SnapshotComing'
         /\ op = "subscribe" => SnapshotComing'
<1>1. /\ \A i \in 1..Len(requests) : requests'[i] = requests[i]
      /\ DOMAIN requests = 1..Len(requests) /\ DOMAIN requests' = 1..Len(requests) + 1
      /\ requests'[Len(requests) + 1] = op /\ Len(requests) \in Nat
  BY Appended DEF StreamIInv
<1> QED
  BY <1>1 DEF SnapshotComing

(* The first two parts of the invariant are enough for the third wherever  *)
(* the connection, the engine and the worker are left as they are.         *)
LEMMA NextResync ==
  StreamIInv /\ ResyncIInv /\ [FeedNext]_feedVars => ResyncIInv'
<1> SUFFICES ASSUME StreamIInv, ResyncIInv, [FeedNext]_feedVars PROVE ResyncIInv'
  OBVIOUS
<1> USE DEF ResyncIInv, ResyncIsComing, ResyncUnderWay, Reading,
            vars, connVars, clientVars, serverVars, bucketVars
<1>1. ASSUME SnapshotComing => SnapshotComing',
             UNCHANGED <<outcome, connState, wsOpen, state, snapshotLost>>,
             resyncNeeded \/ worker \in {"throttled", "halfway"} =>
               SnapshotComing' \/ resyncNeeded' \/ worker' \in {"throttled", "halfway"}
                 \/ state = "LIVE" \/ ~ wsOpen
      PROVE  ResyncIInv'
  BY <1>1
<1>2. ASSUME UNCHANGED <<inbox, requests>> PROVE SnapshotComing' <=> SnapshotComing
  BY <1>2 DEF SnapshotComing
<1>3. ASSUME wsOpen' = FALSE PROVE ResyncIInv'
  BY <1>3
(* The run loop                                                            *)
<1>4. CASE StartConnecting
  BY <1>4 DEF StartConnecting, Connecting
<1>5. CASE OpenSocket
  <2>1. SnapshotComing'
    <3>1. requests' = <<"subscribe">>
      BY <1>5 DEF OpenSocket
    <3>2. 1 \in DOMAIN requests' /\ requests'[1] = "subscribe"
      BY <3>1
    <3> QED
      BY <3>2 DEF SnapshotComing
  <2> QED
    BY <1>5, <2>1 DEF OpenSocket
<1>6. CASE Connect
  BY <1>2, <1>6 DEF Connect, Connected
<1>7. CASE LoseConnection
  BY <1>3, <1>7 DEF LoseConnection, Drop
<1>8. CASE Cancel
  BY <1>3, <1>8 DEF Cancel
<1>9. CASE Restart
  BY <1>9 DEF Restart, ConnReset
(* The reader                                                              *)
<1>10. CASE Receive
  <2> DEFINE m == Head(inbox)
  <2>1. /\ Reading /\ inbox # <<>> /\ inbox' = Tail(inbox)
        /\ UNCHANGED <<requests, outcome, connState, worker>>
    BY <1>10 DEF Receive, ReceiveUpdate, ReceiveSnapshot, ReceiveError, SkipMalformed,
                 MessageReceived
  <2>2. m.kind = "update" /\ SnapshotComing => SnapshotComing'
    BY <2>1, ComingWhileRead
  <2>3. CASE ReceiveUpdate(m)
    <3>1. /\ UNCHANGED <<wsOpen, snapshotLost>> /\ m.kind = "update"
          /\ state' # "LIVE" /\ state = "LIVE" => resyncNeeded'
          /\ resyncNeeded => resyncNeeded'
      BY <2>3, HandledUpdate DEF ReceiveUpdate
    <3> HIDE DEF m
    <3> QED
      BY <2>1, <2>2, <3>1
  <2>4. CASE ReceiveSnapshot(m)
    BY <2>1, <2>4, HandledSnapshot DEF ReceiveSnapshot
  <2>5. CASE ReceiveError(m)
    BY <2>1, <2>5 DEF ReceiveError
  <2>6. CASE SkipMalformed(m)
    BY <2>1, <2>2, <2>6 DEF SkipMalformed, engineVars
  <2> QED
    BY <1>10, <2>3, <2>4, <2>5, <2>6 DEF Receive
<1>11. CASE RaiseOnSnapshot
  BY <1>3, <1>11 DEF RaiseOnSnapshot
<1>12. CASE ReceivePong
  BY <1>2, <1>12 DEF ReceivePong, MessageReceived
(* The worker                                                              *)
<1>13. ASSUME NEW op \in {"subscribe", "unsubscribe"}, UNCHANGED inbox,
              requests' = Append(requests, op) \/ UNCHANGED requests
       PROVE  SnapshotComing => SnapshotComing'
  BY <1>2, <1>13, ComingWhileAsked
<1>14. CASE WakeUp
  <2>1. /\ UNCHANGED <<outcome, connState, wsOpen, state, snapshotLost, inbox>>
        /\ requests' = Append(requests, "unsubscribe") \/ UNCHANGED requests
        /\ state # "LIVE" /\ wsOpen => worker' \in {"throttled", "halfway"}
    BY <1>14 DEF WakeUp, RequestResubscribe, SendUnsubscribe
  <2> QED
    BY <1>1, <1>13, <2>1
<1>15. CASE EndThrottle
  <2>1. /\ UNCHANGED <<outcome, connState, wsOpen, state, snapshotLost, inbox>>
        /\ requests' = Append(requests, "unsubscribe") \/ UNCHANGED requests
        /\ wsOpen => worker' = "halfway"
    BY <1>15 DEF EndThrottle, SendUnsubscribe
  <2> QED
    BY <1>1, <1>13, <2>1
<1>16. CASE SendSubscribe
  <2>1. /\ UNCHANGED <<outcome, connState, wsOpen, state, snapshotLost, inbox>>
        /\ wsOpen => requests' = Append(requests, "subscribe")
        /\ requests' = Append(requests, "subscribe") \/ UNCHANGED requests
    BY <1>16 DEF SendSubscribe
  <2>2. wsOpen => SnapshotComing'
    BY <2>1, ComingWhileAsked
  <2> QED
    BY <1>1, <1>13, <2>1, <2>2
<1>17. CASE Tick
  BY <1>1, <1>2, <1>17 DEF Tick
(* The rest                                                                *)
<1>18. CASE Push
  <2>1. PICK f \in pushed + 1..head : inbox' = Append(inbox, UpdateMsg(pushed, f))
    BY <1>18 DEF Push
  <2>2. UpdateMsg(pushed, f) \in Message
    BY <2>1, SentAreTrue DEF TrueAt
  <2>3. UNCHANGED requests
    BY <1>18 DEF Push
  <2>4. SnapshotComing => SnapshotComing'
    BY <2>1, <2>2, <2>3, ComingWhilePushed
  <2> QED
    BY <1>1, <1>18, <2>4 DEF Push
<1>19. CASE Serve
  <2>1. SnapshotComing => SnapshotComing'
    BY <1>19, ComingWhileServed
  <2> QED
    BY <1>1, <1>19, <2>1 DEF Serve
<1>20. CASE MarketMoves
  BY <1>1, <1>2, <1>20 DEF MarketMoves, Market, engineVars
<1>21. CASE CalmDown
  BY <1>1, <1>2, <1>21 DEF CalmDown
<1>22. CASE UNCHANGED feedVars
  BY <1>1, <1>2, <1>22 DEF feedVars
<1> QED
  BY <1>4, <1>5, <1>6, <1>7, <1>8, <1>9, <1>10, <1>11, <1>12, <1>14, <1>15, <1>16, <1>17,
     <1>18, <1>19, <1>20, <1>21, <1>22
  DEF FeedNext, RunLoop, Reader, ResyncWorker, Environment, Exchange

(* No resync of an OKX feed is lost, in whatever order pushes, answers,    *)
(* wakeups and reconnects come, unless its snapshot was refused or could   *)
(* not be parsed.                                                          *)
THEOREM NoResyncLost == FeedSpec => []ResyncIsComing
<1>1. FeedInit => ResyncIInv
  BY DEF FeedInit, ConnInit, ResyncIInv, ResyncIsComing, Reading
<1>2. ResyncIInv => ResyncIsComing
  BY DEF ResyncIInv
<1> QED
  BY <1>1, <1>2, InitStream, NextStream, NextResync, PTL DEF FeedSpec

(* No snapshot is lost, and no error is under way, where none happens.     *)
NoSnapshotLost ==
  /\ ~ snapshotLost
  /\ \A i \in 1..Len(inbox) : inbox[i].kind # "error"

LEMMA NextNoSnapshotLost ==
  ASSUME SnapshotFaults = {}, StreamIInv, NoSnapshotLost, [FeedNext]_feedVars
  PROVE  NoSnapshotLost'
<1> USE DEF vars, exchangeVars, connVars, clientVars, serverVars, bucketVars, engineVars
<1>0. /\ ~ snapshotLost /\ \A i \in 1..Len(inbox) : inbox[i].kind # "error"
      /\ inbox \in Seq(Message)
  BY DEF NoSnapshotLost, StreamIInv
<1>1. ASSUME UNCHANGED <<inbox, snapshotLost>> PROVE NoSnapshotLost'
  BY <1>0, <1>1 DEF NoSnapshotLost
<1>2. ASSUME inbox' = <<>>, ~ snapshotLost' PROVE NoSnapshotLost'
  BY <1>2 DEF NoSnapshotLost
<1>3. ASSUME NEW m \in Message, m.kind # "error", inbox' = Append(inbox, m),
             UNCHANGED snapshotLost
      PROVE  NoSnapshotLost'
  <2>1. /\ Len(inbox) \in Nat /\ Len(inbox') = Len(inbox) + 1
        /\ \A i \in 1..Len(inbox) : inbox'[i] = inbox[i]
        /\ inbox'[Len(inbox) + 1] = m
    BY <1>0, <1>3, Appended
  <2>2. ASSUME NEW i \in 1..Len(inbox') PROVE inbox'[i].kind # "error"
    <3>1. i \in 1..Len(inbox) \/ i = Len(inbox) + 1
      BY <2>1
    <3> QED
      BY <1>0, <1>3, <2>1, <3>1
  <2> QED
    BY <1>0, <1>3, <2>2 DEF NoSnapshotLost
<1>4. CASE Push
  <2>1. PICK f \in pushed + 1..head : inbox' = Append(inbox, UpdateMsg(pushed, f))
    BY <1>4 DEF Push
  <2>2. UpdateMsg(pushed, f) \in Message /\ UpdateMsg(pushed, f).kind # "error"
    BY <2>1, SentAreTrue DEF TrueAt, UpdateMsg
  <2>3. UNCHANGED snapshotLost
    BY <1>4 DEF Push
  <2> QED
    BY <1>3, <2>1, <2>2, <2>3
<1>5. CASE Serve
  <2>1. UNCHANGED snapshotLost
    BY <1>5 DEF Serve
  <2>2. CASE ServeUnsubscribe
    BY <1>1, <2>1, <2>2 DEF ServeUnsubscribe
  <2>3. CASE ServeSubscribe
    <3>1. PICK n \in 0..head : inbox' = Append(inbox, SnapshotMsg(n))
      BY <2>3 DEF ServeSubscribe
    <3>2. SnapshotMsg(n) \in Message /\ SnapshotMsg(n).kind # "error"
      BY <3>1, SentAreTrue DEF TrueAt, SnapshotMsg
    <3> QED
      BY <1>3, <2>1, <3>1, <3>2
  <2> QED
    BY <1>5, <2>2, <2>3 DEF Serve
<1>6. CASE Receive
  <2>1. inbox # <<>> /\ inbox' = Tail(inbox)
    BY <1>6 DEF Receive
  <2>2. /\ Len(inbox) \in Nat \ {0} /\ Len(inbox') = Len(inbox) - 1
        /\ Head(inbox) = inbox[1]
        /\ \A i \in 1..Len(inbox) - 1 : inbox'[i] = inbox[i + 1]
    BY <1>0, <2>1, WithoutFirst
  <2>3. Head(inbox).kind # "error"
    BY <1>0, <2>2
  <2>4. ~ snapshotLost'
    BY <1>0, <1>6, <2>3
    DEF Receive, ReceiveUpdate, ReceiveSnapshot, ReceiveError, SkipMalformed
  <2>5. ASSUME NEW i \in 1..Len(inbox') PROVE inbox'[i].kind # "error"
    <3>1. i + 1 \in 1..Len(inbox) /\ inbox'[i] = inbox[i + 1]
      BY <2>2
    <3> QED
      BY <1>0, <3>1
  <2> QED
    BY <2>4, <2>5 DEF NoSnapshotLost
<1>7. CASE RaiseOnSnapshot \/ LoseConnection
  BY <1>0, <1>2, <1>7 DEF RaiseOnSnapshot, LoseConnection, Drop
<1>8. CASE Connect
  BY <1>0, <1>8 DEF Connect, NoSnapshotLost
<1>9. CASE \/ StartConnecting \/ OpenSocket \/ ReceivePong \/ Cancel \/ CalmDown \/ Tick
           \/ WakeUp \/ EndThrottle \/ SendSubscribe \/ MarketMoves \/ UNCHANGED feedVars
  BY <1>1, <1>9
  DEF StartConnecting, OpenSocket, ReceivePong, Cancel, CalmDown, Tick, WakeUp,
      EndThrottle, SendSubscribe, MarketMoves, feedVars
<1>10. CASE Restart
  BY <1>0, <1>1, <1>10 DEF Restart, NoSnapshotLost
<1> QED
  BY <1>4, <1>5, <1>6, <1>7, <1>8, <1>9, <1>10
  DEF FeedNext, RunLoop, Reader, ResyncWorker, Environment, Exchange

(* Losing updates, in any number, never leaves an OKX feed without a       *)
(* resync: only a snapshot that is refused or cannot be parsed does        *)
(* (LostPushSurfaces).                                                     *)
THEOREM LostUpdatesSurface ==
  ASSUME SnapshotFaults = {}
  PROVE  FeedSpec => []LostPushSurfaces
<1>1. FeedInit => NoSnapshotLost
  BY DEF FeedInit, NoSnapshotLost
<1>2. NoSnapshotLost /\ ResyncIsComing => LostPushSurfaces
  BY DEF NoSnapshotLost, ResyncIsComing, LostPushSurfaces
<1>3. StreamIInv /\ NoSnapshotLost /\ [FeedNext]_feedVars => NoSnapshotLost'
  BY NextNoSnapshotLost
<1> QED
  BY <1>1, <1>2, <1>3, InitStream, NextStream, NoResyncLost, PTL DEF FeedSpec

-----------------------------------------------------------------------------
(* At most one snapshot under way                                          *)

(* Where in s the members of K stand.                                      *)
PlacesOf(s, K) == {i \in 1..Len(s) : s[i] \in K}

AtMostOne(X) == \A i, j \in X : i = j

LEMMA PlacesAppended ==
  ASSUME NEW S, NEW K, NEW s \in Seq(S), NEW x \in S
  PROVE  /\ x \notin K => PlacesOf(Append(s, x), K) = PlacesOf(s, K)
         /\ PlacesOf(s, K) = {} => AtMostOne(PlacesOf(Append(s, x), K))
<1>1. PICK t : t = Append(s, x)
  OBVIOUS
<1>2. /\ Len(s) \in Nat /\ Len(t) = Len(s) + 1
      /\ \A i \in 1..Len(s) : t[i] = s[i]
      /\ t[Len(s) + 1] = x
  BY <1>1, Appended
<1>3. ASSUME x \notin K PROVE PlacesOf(t, K) = PlacesOf(s, K)
  BY <1>2, <1>3 DEF PlacesOf
<1>4. ASSUME PlacesOf(s, K) = {}, NEW i \in PlacesOf(t, K) PROVE i = Len(s) + 1
  BY <1>2, <1>4 DEF PlacesOf
<1> QED
  BY <1>1, <1>3, <1>4 DEF AtMostOne

LEMMA PlacesBehind ==
  ASSUME NEW S, NEW K, NEW s \in Seq(S), s # <<>>, AtMostOne(PlacesOf(s, K))
  PROVE  /\ AtMostOne(PlacesOf(Tail(s), K))
         /\ PlacesOf(s, K) = {} => PlacesOf(Tail(s), K) = {}
         /\ Head(s) \in K => PlacesOf(s, K) # {} /\ PlacesOf(Tail(s), K) = {}
<1>1. PICK t : t = Tail(s)
  OBVIOUS
<1>2. /\ Len(s) \in Nat \ {0} /\ Len(t) = Len(s) - 1 /\ Head(s) = s[1]
      /\ \A i \in 1..Len(s) - 1 : t[i] = s[i + 1]
  BY <1>1, WithoutFirst
<1>3. ASSUME NEW i \in PlacesOf(t, K) PROVE i + 1 \in PlacesOf(s, K) /\ i \in Nat /\ i # 0
  BY <1>2 DEF PlacesOf
<1>4. AtMostOne(PlacesOf(t, K))
  <2> SUFFICES ASSUME NEW i \in PlacesOf(t, K), NEW j \in PlacesOf(t, K) PROVE i = j
    BY DEF AtMostOne
  <2>1. i + 1 = j + 1 /\ i \in Nat /\ j \in Nat
    BY <1>3 DEF AtMostOne
  <2> QED
    BY ONLY <2>1
<1>5. ASSUME Head(s) \in K PROVE PlacesOf(s, K) # {} /\ PlacesOf(t, K) = {}
  <2>1. 1 \in PlacesOf(s, K)
    BY <1>2, <1>5 DEF PlacesOf
  <2>2. ASSUME NEW i \in PlacesOf(t, K) PROVE FALSE
    <3>1. i + 1 = 1 /\ i \in Nat /\ i # 0
      BY <1>3, <2>1 DEF AtMostOne
    <3> QED
      BY ONLY <3>1
  <2> QED
    BY <2>1, <2>2
<1> QED
  BY <1>1, <1>3, <1>4, <1>5

AskPlaces == PlacesOf(requests, {"subscribe"})
AnswerPlaces == PlacesOf(inbox, {m \in Message : m.kind # "update"})

(* A snapshot is under way while its resubscribe is only half sent, while  *)
(* its subscribe has not arrived, and while it has not been read.          *)
OneUnderWay ==
  /\ AtMostOne(AskPlaces) /\ AtMostOne(AnswerPlaces)
  /\ AskPlaces = {} \/ AnswerPlaces = {}
  /\ worker = "halfway" => AskPlaces = {} /\ AnswerPlaces = {}

NoneUnderWay == worker # "halfway" /\ AskPlaces = {} /\ AnswerPlaces = {}

(* None is under way to a LIVE engine, nor while one is still to be asked  *)
(* for.  Between connections there is none at all, and during a handshake  *)
(* none is called for but the first.                                       *)
AskIInv ==
  /\ outcome = "running" =>
       /\ worker \in {"idle", "throttled", "halfway"}
       /\ OneUnderWay
       /\ resyncNeeded => NoneUnderWay
       /\ connState = "CONNECTED" /\ state = "LIVE" => NoneUnderWay
       /\ connState # "CONNECTED" /\ ~ wsOpen => NoneUnderWay
       /\ connState # "CONNECTED" /\ wsOpen =>
            connState = "CONNECTING" /\ ~ resyncNeeded /\ worker # "halfway"
  /\ outcome = "escalated" => ~ wsOpen /\ requests = <<>> /\ inbox = <<>>

LEMMA EmptyPlaces ==
  /\ \A K : PlacesOf(<<>>, K) = {}
  /\ AtMostOne({})
BY DEF PlacesOf, AtMostOne

LEMMA InitAsk == FeedInit => AskIInv
BY EmptyPlaces
DEF FeedInit, ConnInit, AskIInv, OneUnderWay, NoneUnderWay, AskPlaces, AnswerPlaces

(* What a step of the reader may do.                                       *)
LEMMA AskWhileRead ==
  ASSUME StreamIInv, AskIInv, Receive
  PROVE  AskIInv'
<1> DEFINE K == {m \in Message : m.kind # "update"}
<1>1. /\ outcome = "running" /\ connState = "CONNECTED" /\ OneUnderWay
      /\ worker \in {"idle", "throttled", "halfway"}
      /\ resyncNeeded => NoneUnderWay
      /\ state = "LIVE" => NoneUnderWay
  BY DEF Receive, Reading, AskIInv
<1>2. /\ inbox \in Seq(Message) /\ inbox # <<>> /\ inbox' = Tail(inbox)
      /\ requests' = requests
      /\ Head(inbox) \in Message
  <2>1. inbox \in Seq(Message) /\ inbox # <<>> /\ inbox' = Tail(inbox) /\ requests' = requests
    BY DEF Receive, StreamIInv, serverVars
  <2> QED
    BY <2>1, WithoutFirst
<1>3. /\ AtMostOne(PlacesOf(inbox', K))
      /\ PlacesOf(inbox, K) = {} => PlacesOf(inbox', K) = {}
      /\ Head(inbox) \in K => PlacesOf(inbox, K) # {} /\ PlacesOf(inbox', K) = {}
  <2>1. AtMostOne(PlacesOf(inbox, K))
    BY <1>1 DEF OneUnderWay, AnswerPlaces
  <2> HIDE DEF K
  <2> QED
    BY <1>2, <2>1, PlacesBehind
<1>4. /\ AtMostOne(AnswerPlaces') /\ AskPlaces' = AskPlaces
      /\ AnswerPlaces = {} => AnswerPlaces' = {}
      /\ Head(inbox).kind # "update" => AnswerPlaces # {} /\ AnswerPlaces' = {}
  BY <1>2, <1>3 DEF AnswerPlaces, AskPlaces
<1>5. /\ UNCHANGED <<worker, outcome, connState>>
      /\ resyncNeeded' => resyncNeeded \/ state = "LIVE" \/ Head(inbox).kind # "update"
      /\ state' = "LIVE" => state = "LIVE" \/ Head(inbox).kind # "update"
  <2>1. CASE ReceiveUpdate(Head(inbox))
    BY <2>1 DEF ReceiveUpdate, MessageReceived, HandleUpdate, BufferEvent, ApplyInOrder,
                DetectGap
  <2>2. CASE ReceiveSnapshot(Head(inbox))
    BY <2>2 DEF ReceiveSnapshot, MessageReceived
  <2>3. CASE ReceiveError(Head(inbox)) \/ SkipMalformed(Head(inbox))
    BY <2>3 DEF ReceiveError, SkipMalformed, MessageReceived, engineVars
  <2> QED
    BY <2>1, <2>2, <2>3 DEF Receive
<1>6. OneUnderWay' /\ (NoneUnderWay => NoneUnderWay')
      /\ (Head(inbox).kind # "update" => NoneUnderWay')
  BY <1>1, <1>4, <1>5 DEF OneUnderWay, NoneUnderWay
<1> QED
  BY <1>1, <1>5, <1>6 DEF AskIInv

(* What is sent to the exchange, and what it answers.                      *)
LEMMA AskWhileServed ==
  ASSUME StreamIInv, AskIInv, Serve
  PROVE  AskIInv'
<1> DEFINE K == {m \in Message : m.kind # "update"}
<1>1. /\ requests \in Seq({"subscribe", "unsubscribe"}) /\ requests # <<>>
      /\ requests' = Tail(requests) /\ wsOpen /\ inbox \in Seq(Message)
      /\ UNCHANGED <<outcome, connState, wsOpen, state, resyncNeeded, worker>>
  BY DEF Serve, StreamIInv, vars, engineVars, connVars
<1> SUFFICES ASSUME outcome = "running"
             PROVE  OneUnderWay' /\ (NoneUnderWay => NoneUnderWay')
  BY <1>1 DEF AskIInv
<1>2. OneUnderWay
  BY DEF AskIInv
<1>3. /\ AtMostOne(AskPlaces')
      /\ AskPlaces = {} => AskPlaces' = {}
      /\ Head(requests) = "subscribe" => AskPlaces # {} /\ AskPlaces' = {}
  <2>1. PICK Q : Q = {"subscribe"}
    OBVIOUS
  <2>2. AtMostOne(PlacesOf(requests, Q))
    BY <1>2, <2>1 DEF OneUnderWay, AskPlaces
  <2>3. /\ AtMostOne(PlacesOf(requests', Q))
        /\ PlacesOf(requests, Q) = {} => PlacesOf(requests', Q) = {}
        /\ Head(requests) \in Q => PlacesOf(requests, Q) # {} /\ PlacesOf(requests', Q) = {}
    BY <1>1, <2>2, PlacesBehind
  <2> QED
    BY <2>1, <2>3 DEF AskPlaces
<1>4. CASE Head(requests) # "subscribe"
  <2>1. AnswerPlaces' = AnswerPlaces
    BY <1>4 DEF Serve, ServeUnsubscribe, AnswerPlaces
  <2> QED
    BY <1>1, <1>2, <1>3, <2>1 DEF OneUnderWay, NoneUnderWay
<1>5. CASE Head(requests) = "subscribe"
  <2>1. AnswerPlaces = {} /\ AskPlaces # {} /\ AskPlaces' = {} /\ worker # "halfway"
    BY <1>2, <1>3, <1>5 DEF OneUnderWay
  <2>2. PICK m \in Message : inbox' = Append(inbox, m)
    <3>1. \/ \E n \in 0..head : inbox' = Append(inbox, SnapshotMsg(n))
          \/ inbox' = Append(inbox, ErrorMsg)
      BY <1>5 DEF Serve, ServeSubscribe
    <3> QED
      BY <3>1, SentAreTrue DEF TrueAt
  <2>3. AtMostOne(PlacesOf(inbox', K))
    <3>1. PlacesOf(inbox, K) = {}
      BY <2>1 DEF AnswerPlaces
    <3> HIDE DEF K
    <3> QED
      BY <1>1, <2>2, <3>1, PlacesAppended
  <2>4. AtMostOne(AnswerPlaces') /\ AtMostOne(AskPlaces')
    BY <2>1, <2>3, EmptyPlaces DEF AnswerPlaces
  <2> QED
    BY <1>1, <2>1, <2>4 DEF OneUnderWay, NoneUnderWay
<1> QED
  BY <1>4, <1>5

(* The worker asks for a snapshot only when none is under way.             *)
LEMMA AskWhileResyncing ==
  ASSUME StreamIInv, AskIInv, WakeUp \/ SendSubscribe
  PROVE  AskIInv'
<1> DEFINE Q == {"subscribe"}
<1>0. /\ requests \in Seq({"subscribe", "unsubscribe"})
      /\ UNCHANGED <<outcome, connState, wsOpen, state, inbox>>
      /\ AnswerPlaces' = AnswerPlaces
  BY DEF StreamIInv, WakeUp, SendSubscribe, vars, engineVars, connVars, AnswerPlaces
<1>1. CASE outcome # "running"
  <2>1. outcome = "escalated" => requests = <<>> /\ ~ wsOpen
    BY DEF AskIInv
  <2>2. ~ wsOpen => requests' = requests
    BY DEF WakeUp, SendSubscribe, RequestResubscribe, SendUnsubscribe
  <2> QED
    BY <1>0, <1>1, <2>1, <2>2 DEF AskIInv
<1>2. CASE outcome = "running" /\ WakeUp
  <2>1. NoneUnderWay /\ ~ resyncNeeded'
    BY <1>2 DEF AskIInv, WakeUp
  <2>2. /\ worker' \in {"idle", "throttled", "halfway"}
        /\ worker' = "halfway" => state # "LIVE" /\ wsOpen
        /\ requests' = requests \/ requests' = Append(requests, "unsubscribe")
    BY <1>2 DEF WakeUp, RequestResubscribe, SendUnsubscribe
  <2>3. AskPlaces' = {}
    <3>1. PlacesOf(requests, Q) = {} /\ "unsubscribe" \notin Q
      BY <2>1 DEF NoneUnderWay, AskPlaces
    <3>2. PlacesOf(requests', Q) = {}
      <4>1. PICK S : S = {"subscribe", "unsubscribe"}
        OBVIOUS
      <4>2. requests \in Seq(S) /\ "unsubscribe" \in S
        BY <1>0, <4>1
      <4>3. requests' = requests \/ requests' = Append(requests, "unsubscribe")
        BY ONLY <2>2
      <4> HIDE DEF Q
      <4>4. PlacesOf(Append(requests, "unsubscribe"), Q) = PlacesOf(requests, Q)
        BY ONLY <3>1, <4>2, PlacesAppended
      <4> QED
        BY ONLY <3>1, <4>3, <4>4
    <3> QED
      BY <3>2 DEF AskPlaces
  <2>4. OneUnderWay' /\ (worker' # "halfway" => NoneUnderWay')
    BY <1>0, <2>1, <2>3, EmptyPlaces DEF OneUnderWay, NoneUnderWay
  <2>5. worker' = "halfway" => connState = "CONNECTED"
    BY <1>2, <2>2 DEF AskIInv, WakeUp
  <2> QED
    BY <1>0, <1>2, <2>1, <2>2, <2>4, <2>5 DEF AskIInv
<1>3. CASE outcome = "running" /\ SendSubscribe
  <2>1. /\ OneUnderWay /\ worker = "halfway" /\ worker' = "idle"
        /\ UNCHANGED resyncNeeded /\ ~ resyncNeeded
        /\ connState = "CONNECTED" /\ state # "LIVE"
    BY <1>3 DEF AskIInv, SendSubscribe, NoneUnderWay
  <2>2. AskPlaces = {} /\ AnswerPlaces = {}
    BY <2>1 DEF OneUnderWay
  <2>3. AtMostOne(AskPlaces')
    <3>1. PlacesOf(requests, Q) = {}
      BY <2>2 DEF AskPlaces
    <3>2. requests' = requests \/ requests' = Append(requests, "subscribe")
      BY <1>3 DEF SendSubscribe
    <3>3. AtMostOne(PlacesOf(requests', Q))
      <4>1. PICK S : S = {"subscribe", "unsubscribe"}
        OBVIOUS
      <4>2. requests \in Seq(S) /\ "subscribe" \in S
        BY <1>0, <4>1
      <4> HIDE DEF Q
      <4> QED
        BY <3>1, <3>2, <4>2, EmptyPlaces, PlacesAppended
    <3> QED
      BY <3>3 DEF AskPlaces
  <2>4. OneUnderWay'
    BY <1>0, <2>1, <2>2, <2>3, EmptyPlaces DEF OneUnderWay
  <2> QED
    BY <1>0, <1>3, <2>1, <2>4 DEF AskIInv
<1> QED
  BY <1>1, <1>2, <1>3

LEMMA NextAsk ==
  ASSUME StreamIInv, AskIInv, worker # "throttled", [FeedNext]_feedVars
  PROVE  AskIInv'
<1> USE DEF vars, engineVars, exchangeVars, connVars, clientVars, serverVars, bucketVars
<1>1. ASSUME UNCHANGED <<requests, inbox>>
      PROVE  UNCHANGED <<AskPlaces, AnswerPlaces>>
  BY <1>1 DEF AskPlaces, AnswerPlaces
<1>2. ASSUME UNCHANGED <<outcome, connState, wsOpen, requests, inbox, resyncNeeded, worker, state>>
      PROVE  AskIInv'
  BY <1>1, <1>2 DEF AskIInv, OneUnderWay, NoneUnderWay
<1>3. ASSUME requests' = <<>>, inbox' = <<>>
      PROVE  AskPlaces' = {} /\ AnswerPlaces' = {}
  BY <1>3, EmptyPlaces DEF AskPlaces, AnswerPlaces
<1>4. CASE StartConnecting
  <2>1. /\ UNCHANGED <<outcome, wsOpen, requests, inbox, resyncNeeded, worker, state>>
        /\ outcome = "running" /\ connState \in {"DISCONNECTED", "BACKOFF"}
        /\ connState' = "CONNECTING"
    BY <1>4 DEF StartConnecting, Connecting
  <2> QED
    BY <1>1, <2>1 DEF AskIInv, OneUnderWay, NoneUnderWay
<1>5. CASE OpenSocket
  <2>1. /\ UNCHANGED <<outcome, connState, inbox, resyncNeeded, worker, state>>
        /\ outcome = "running" /\ connState = "CONNECTING" /\ ~ wsOpen
        /\ requests' = <<"subscribe">> /\ wsOpen'
        /\ ~ (worker = "idle" /\ resyncNeeded)
    BY <1>5 DEF OpenSocket
  <2>2. NoneUnderWay /\ worker = "idle" /\ ~ resyncNeeded
    BY <2>1 DEF AskIInv, NoneUnderWay
  <2>3. AtMostOne(AskPlaces') /\ AnswerPlaces' = {}
    BY <2>1, <2>2 DEF AskPlaces, AnswerPlaces, PlacesOf, AtMostOne, NoneUnderWay
  <2>4. OneUnderWay'
    BY <2>1, <2>2, <2>3, EmptyPlaces DEF OneUnderWay
  <2> QED
    BY <2>1, <2>2, <2>4 DEF AskIInv
<1>6. CASE Connect
  <2>1. /\ UNCHANGED <<outcome, wsOpen, requests, inbox, resyncNeeded, worker>>
        /\ outcome = "running" /\ connState' = "CONNECTED" /\ state' # "LIVE"
    BY <1>6 DEF Connect, Connected, Reconnect, Invalidate
  <2> QED
    BY <1>1, <2>1 DEF AskIInv, OneUnderWay, NoneUnderWay
<1>7. CASE LoseConnection \/ RaiseOnSnapshot
  <2>1. /\ requests' = <<>> /\ inbox' = <<>> /\ ~ wsOpen' /\ connState' = "BACKOFF"
        /\ outcome = "running"
        /\ \/ outcome' = "escalated"
           \/ /\ outcome' = "running"
              /\ worker' = IF worker = "halfway" THEN "idle" ELSE worker
    BY <1>7 DEF LoseConnection, RaiseOnSnapshot, Drop, Disconnected, Reading
  <2> QED
    BY <1>3, <2>1, EmptyPlaces DEF AskIInv, OneUnderWay, NoneUnderWay
<1>8. CASE Restart
  <2>1. /\ outcome = "escalated" /\ outcome' = "running" /\ worker' = "idle"
        /\ UNCHANGED <<wsOpen, requests, inbox>> /\ connState' = "DISCONNECTED"
    BY <1>8 DEF Restart, ConnReset
  <2> QED
    BY <1>3, <2>1, EmptyPlaces DEF AskIInv, OneUnderWay, NoneUnderWay
<1>9. CASE Cancel
  BY <1>9 DEF Cancel, AskIInv
<1>10. CASE Push
  <2>1. PICK f \in pushed + 1..head : inbox' = Append(inbox, UpdateMsg(pushed, f))
    BY <1>10 DEF Push
  <2>2. /\ UNCHANGED <<outcome, connState, wsOpen, requests, resyncNeeded, worker, state>>
        /\ wsOpen
    BY <1>10 DEF Push
  <2>3. inbox \in Seq(Message) /\ UpdateMsg(pushed, f) \in Message
        /\ UpdateMsg(pushed, f).kind = "update"
    BY <2>1, SentAreTrue DEF StreamIInv, TrueAt, UpdateMsg
  <2>4. AnswerPlaces' = AnswerPlaces
    <3>1. PICK K : K = {m \in Message : m.kind # "update"}
      OBVIOUS
    <3>2. UpdateMsg(pushed, f) \notin K
      BY <2>3, <3>1
    <3>3. PlacesOf(inbox', K) = PlacesOf(inbox, K)
      BY <2>1, <2>3, <3>2, PlacesAppended
    <3> QED
      BY <3>1, <3>3 DEF AnswerPlaces
  <2>5. AskPlaces' = AskPlaces
    BY <2>2 DEF AskPlaces
  <2> QED
    BY <2>2, <2>4, <2>5 DEF AskIInv, OneUnderWay, NoneUnderWay
<1>11. CASE ReceivePong \/ CalmDown \/ Tick
  BY <1>2, <1>11 DEF ReceivePong, MessageReceived, CalmDown, Tick
<1>12. CASE MarketMoves
  BY <1>2, <1>12 DEF MarketMoves, Market
<1>13. CASE UNCHANGED feedVars
  BY <1>2, <1>13 DEF feedVars
<1>14. ~ EndThrottle
  BY DEF EndThrottle
<1> QED
  BY <1>4, <1>5, <1>6, <1>7, <1>8, <1>9, <1>10, <1>11, <1>12, <1>13, <1>14,
     AskWhileRead, AskWhileServed, AskWhileResyncing
  DEF FeedNext, RunLoop, Reader, ResyncWorker, Environment, Exchange

(* As long as no resubscribe has had to wait for its tokens, no snapshot   *)
(* ever meets a LIVE engine, whatever gaps, refusals, reconnects and       *)
(* restarts there are: the throttle's sleep is all there is to the finding *)
(* of the run okx_refused (NeverLoadsWhileLive).                           *)
THEOREM RefusedOnlyAfterThrottle ==
  FeedSpec /\ [](worker # "throttled") => []NeverLoadsWhileLive
<1>1. StreamIInv /\ AskIInv => NeverLoadsWhileLive
  <2> SUFFICES ASSUME StreamIInv, AskIInv, Reading, inbox # <<>>,
                      Head(inbox).kind = "snapshot", state = "LIVE"
               PROVE  FALSE
    BY DEF NeverLoadsWhileLive
  <2>1. AnswerPlaces = {}
    BY DEF AskIInv, Reading, NoneUnderWay
  <2>2. /\ Len(inbox) \in Nat \ {0} /\ Head(inbox) = inbox[1] /\ inbox[1] \in Message
    BY WithoutFirst DEF StreamIInv
  <2>3. 1 \in AnswerPlaces
    BY <2>2 DEF AnswerPlaces, PlacesOf
  <2> QED
    BY <2>1, <2>3
<1>2. StreamIInv /\ AskIInv /\ worker # "throttled" /\ [FeedNext]_feedVars => AskIInv'
  BY NextAsk
<1> QED
  BY <1>1, <1>2, InitAsk, InitStream, NextStream, PTL DEF FeedSpec

-----------------------------------------------------------------------------
(* Types                                                                   *)

(* A client that runs has failed to connect less often than it may; and it *)
(* may count failed snapshots past the limit only while it reads what was  *)
(* under way when it closed the websocket.                                 *)
AttemptIInv ==
  /\ attempt \in 0..MaxReconnectFailures
  /\ outcome = "running" => attempt < MaxReconnectFailures

ClientIInv ==
  /\ connState \in ConnStates
  /\ messageSeen \in BOOLEAN
  /\ outcome \in Outcomes
  /\ wsOpen \in BOOLEAN
  /\ subscribed \in BOOLEAN
  /\ resyncNeeded \in BOOLEAN
  /\ worker \in Worker
  /\ snapshotLost \in BOOLEAN
  /\ calm \in BOOLEAN

CountIInv ==
  /\ Len(inbox) <= MaxInbox
  /\ retries \in 0..SnapshotRetryLimit + MaxInbox
  /\ Reading /\ wsOpen => retries < SnapshotRetryLimit
  /\ Reading /\ ~ wsOpen => retries + Len(inbox) <= SnapshotRetryLimit + MaxInbox

LEMMA NextAttempt == AttemptIInv /\ [FeedNext]_feedVars => AttemptIInv'
<1> SUFFICES ASSUME AttemptIInv, [FeedNext]_feedVars PROVE AttemptIInv'
  OBVIOUS
<1> USE ConnectionAssumption DEF AttemptIInv, connVars, clientVars
<1>1. CASE LoseConnection
  BY <1>1 DEF LoseConnection, Drop, Disconnected, BudgetExhausted
<1>2. CASE RaiseOnSnapshot
  BY <1>2 DEF RaiseOnSnapshot, Reading
<1>3. ASSUME UNCHANGED outcome, UNCHANGED attempt \/ attempt' = 0 PROVE AttemptIInv'
  BY <1>3
<1>4. CASE Receive
  BY <1>3, <1>4 DEF Receive, ReceiveUpdate, ReceiveSnapshot, ReceiveError, SkipMalformed,
                    MessageReceived
<1>5. CASE ReceivePong
  BY <1>3, <1>5 DEF ReceivePong, MessageReceived
<1>6. CASE StartConnecting \/ OpenSocket \/ Connect
  BY <1>3, <1>6 DEF StartConnecting, Connecting, OpenSocket, Connect, Connected
<1>7. CASE ResyncWorker
  BY <1>3, <1>7 DEF ResyncWorker, WakeUp, EndThrottle, Tick, SendSubscribe
<1>8. CASE Environment
  BY <1>8 DEF Environment, Exchange, Push, Serve, MarketMoves, CalmDown, Cancel, Restart,
              ConnReset
<1>9. CASE UNCHANGED feedVars
  BY <1>9 DEF feedVars
<1> QED
  BY <1>1, <1>2, <1>4, <1>5, <1>6, <1>7, <1>8, <1>9 DEF FeedNext, RunLoop, Reader

LEMMA NextClient == ClientIInv /\ [FeedNext]_feedVars => ClientIInv'
<1> SUFFICES ASSUME ClientIInv, [FeedNext]_feedVars PROVE ClientIInv'
  OBVIOUS
<1> USE DEF ClientIInv, ConnStates, Outcomes, Worker, connVars, clientVars, serverVars
<1>1. CASE LoseConnection
  BY <1>1 DEF LoseConnection, Drop, Disconnected
<1>2. CASE RaiseOnSnapshot
  BY <1>2 DEF RaiseOnSnapshot
<1>3. CASE StartConnecting \/ OpenSocket \/ Connect
  BY <1>3 DEF StartConnecting, Connecting, OpenSocket, Connect, Connected
<1>4. CASE Receive
  <2>1. UNCHANGED <<serverVars, calm>> /\ messageSeen' \in BOOLEAN /\ connState' = connState
    BY <1>4 DEF Receive, ReceiveUpdate, ReceiveSnapshot, ReceiveError, SkipMalformed,
                MessageReceived
  <2>2. CASE ReceiveUpdate(Head(inbox))
    BY <2>1, <2>2 DEF ReceiveUpdate, HandleUpdate
  <2>3. CASE ReceiveSnapshot(Head(inbox))
    BY <2>1, <2>3 DEF ReceiveSnapshot, HandleResyncResult
  <2>4. CASE ReceiveError(Head(inbox))
    BY <2>1, <2>4 DEF ReceiveError
  <2>5. CASE SkipMalformed(Head(inbox))
    BY <2>1, <2>5 DEF SkipMalformed
  <2> QED
    BY <1>4, <2>2, <2>3, <2>4, <2>5 DEF Receive
<1>5. CASE ReceivePong
  BY <1>5 DEF ReceivePong, MessageReceived
<1>6. CASE ResyncWorker
  <2>1. CASE WakeUp
    BY <2>1 DEF WakeUp, RequestResubscribe, SendUnsubscribe
  <2>2. CASE EndThrottle
    BY <2>2 DEF EndThrottle, SendUnsubscribe
  <2>3. CASE SendSubscribe
    BY <2>3 DEF SendSubscribe
  <2>4. CASE Tick
    BY <2>4 DEF Tick
  <2> QED
    BY ONLY <1>6, <2>1, <2>2, <2>3, <2>4 DEF ResyncWorker
<1>7. CASE Push \/ MarketMoves \/ CalmDown
  <2>1. CASE Push
    BY <2>1 DEF Push
  <2>2. CASE MarketMoves
    BY <2>2 DEF MarketMoves
  <2>3. CASE CalmDown
    BY <2>3 DEF CalmDown
  <2> QED
    BY ONLY <1>7, <2>1, <2>2, <2>3
<1>8. CASE Serve
  BY <1>8 DEF Serve, ServeSubscribe, ServeUnsubscribe
<1>9. CASE Cancel \/ Restart
  BY <1>9 DEF Cancel, Restart, ConnReset
<1>10. CASE UNCHANGED feedVars
  BY <1>10 DEF feedVars
<1> QED
  BY <1>1, <1>2, <1>3, <1>4, <1>5, <1>6, <1>7, <1>8, <1>9, <1>10
  DEF FeedNext, RunLoop, Reader, Environment, Exchange

LEMMA NextCount == StreamIInv /\ CountIInv /\ [FeedNext]_feedVars => CountIInv'
<1> SUFFICES ASSUME StreamIInv, CountIInv, [FeedNext]_feedVars PROVE CountIInv'
  OBVIOUS
<1> USE DEF CountIInv, Reading, connVars, clientVars, serverVars
<1> DEFINE held == Len(inbox)
<1>0. /\ inbox \in Seq(Message) /\ held \in Nat
      /\ MaxInbox \in Nat /\ SnapshotRetryLimit \in Nat \ {0}
  BY FeedAssumption DEF StreamIInv
(* A step that leaves the reader, or what it reads and counts, as it is.   *)
<1>1. ASSUME UNCHANGED <<retries, inbox>>,
             ~ Reading' \/ UNCHANGED <<wsOpen, outcome, connState>>
      PROVE  CountIInv'
  BY <1>0, <1>1
<1>2. ASSUME inbox' = <<>>, UNCHANGED retries, ~ Reading'
      PROVE  CountIInv'
  BY <1>0, <1>2
<1>3. CASE StartConnecting \/ OpenSocket
  BY <1>1, <1>3 DEF StartConnecting, Connecting, OpenSocket
<1>4. CASE Connect
  BY <1>0, <1>4 DEF Connect
<1>5. CASE LoseConnection
  BY <1>2, <1>5 DEF LoseConnection, Drop, Disconnected
<1>6. CASE RaiseOnSnapshot
  BY <1>2, <1>6 DEF RaiseOnSnapshot
<1>7. CASE Receive
  <2> DEFINE left == Len(inbox')
  <2>1. left = held - 1 /\ left \in Nat
    BY <1>0, <1>7, WithoutFirst DEF Receive
  <2> HIDE DEF held, left
  <2>2. ASSUME UNCHANGED <<retries, wsOpen, outcome, connState>>, Reading
        PROVE  /\ Len(inbox') <= MaxInbox
               /\ Reading' /\ ~ wsOpen' => retries' + Len(inbox') <= SnapshotRetryLimit + MaxInbox
    BY <1>0, <2>1, <2>2 DEF held, left
  <2>3. CASE ReceiveUpdate(Head(inbox)) \/ ReceiveError(Head(inbox)) \/ SkipMalformed(Head(inbox))
    <3>1. UNCHANGED <<retries, wsOpen, outcome, connState>> /\ Reading
      BY <1>7, <2>3 DEF Receive, ReceiveUpdate, ReceiveError, SkipMalformed, MessageReceived
    <3> QED
      BY <2>2, <3>1
  <2>4. CASE ReceiveSnapshot(Head(inbox))
    <3>1. /\ Reading /\ UNCHANGED <<outcome, connState>>
          /\ \/ retries' = 0 /\ UNCHANGED wsOpen
             \/ /\ retries' = retries + 1
                /\ \/ retries + 1 >= SnapshotRetryLimit /\ wsOpen' = FALSE
                   \/ retries + 1 < SnapshotRetryLimit /\ UNCHANGED wsOpen
      <4>1. /\ Reading /\ UNCHANGED <<outcome, connState>>
            /\ HandleResyncResult(SnapshotAt(Head(inbox).final))
        BY <1>7, <2>4 DEF Receive, ReceiveSnapshot, MessageReceived
      <4> QED
        BY <1>0, <4>1 DEF HandleResyncResult
    <3>2. retries \in Nat /\ left + 1 <= MaxInbox
      BY <1>0, <2>1 DEF held
    <3>3. left <= MaxInbox /\ left = Len(inbox')
      BY <1>0, <2>1, <3>2 DEF left
    <3>4. CASE wsOpen
      <4>1. retries < SnapshotRetryLimit
        BY <3>1, <3>4
      <4>2. \/ retries' = 0 /\ wsOpen'
            \/ retries' = retries + 1 /\ ~ wsOpen'
            \/ retries' = retries + 1 /\ wsOpen' /\ retries + 1 < SnapshotRetryLimit
        BY <3>1, <3>4
      <4> QED
        BY <1>0, <2>1, <3>2, <3>3, <4>1, <4>2
    <3>5. CASE ~ wsOpen
      <4>1. retries + left + 1 <= SnapshotRetryLimit + MaxInbox
        BY <1>0, <2>1, <3>1, <3>5 DEF held
      <4>2. wsOpen' # TRUE
        BY <3>1, <3>5
      <4> QED
        BY <1>0, <2>1, <3>1, <3>2, <3>3, <4>1, <4>2
    <3> QED
      BY <3>4, <3>5
  <2> QED
    BY <1>7, <2>3, <2>4 DEF Receive
<1>8. CASE ReceivePong
  BY <1>1, <1>8 DEF ReceivePong, MessageReceived
<1>9. CASE ResyncWorker
  BY <1>1, <1>9 DEF ResyncWorker, WakeUp, EndThrottle, Tick, SendSubscribe
<1>10. ASSUME NEW m \in Message, inbox' = Append(inbox, m), held < MaxInbox, wsOpen,
              UNCHANGED <<retries, wsOpen, outcome, connState>>
       PROVE  CountIInv'
  <2>1. Len(inbox') = held + 1
    BY <1>0, <1>10, Appended
  <2> QED
    BY <1>0, <1>10, <2>1
<1>11. CASE Push
  <2>1. PICK f \in pushed + 1..head : inbox' = Append(inbox, UpdateMsg(pushed, f))
    BY <1>11 DEF Push
  <2>2. UpdateMsg(pushed, f) \in Message
    BY <2>1, SentAreTrue DEF TrueAt
  <2> QED
    BY <1>10, <1>11, <2>1, <2>2 DEF Push
<1>12. CASE Serve
  <2>1. UNCHANGED <<retries, wsOpen, outcome, connState>> /\ wsOpen
    BY <1>12 DEF Serve
  <2>2. CASE ServeUnsubscribe
    BY <1>1, <2>1, <2>2 DEF ServeUnsubscribe
  <2>3. CASE ServeSubscribe
    <3>1. PICK m \in Message : inbox' = Append(inbox, m)
      BY <2>3, SentAreTrue DEF ServeSubscribe, TrueAt
    <3> QED
      BY <1>10, <2>1, <2>3, <3>1 DEF ServeSubscribe
  <2> QED
    BY <1>12, <2>2, <2>3 DEF Serve
<1>13. CASE MarketMoves \/ CalmDown \/ Cancel
  BY <1>1, <1>13 DEF MarketMoves, CalmDown, Cancel
<1>14. CASE Restart
  BY <1>0, <1>14 DEF Restart, ConnReset
<1>15. CASE UNCHANGED feedVars
  BY <1>1, <1>15 DEF feedVars
<1> QED
  BY <1>3, <1>4, <1>5, <1>6, <1>7, <1>8, <1>9, <1>11, <1>12, <1>13, <1>14, <1>15
  DEF FeedNext, RunLoop, Reader, Environment, Exchange

(* All the feed's variables have their types; in particular the count of   *)
(* failed attempts and the one of failed snapshots stay within bounds.     *)
THEOREM OKXTypeCorrect == FeedSpec => []FeedTypeOK
<1>1. FeedInit => ClientIInv /\ AttemptIInv /\ CountIInv
  <2>1. FeedInit => ClientIInv
    BY DEF FeedInit, ConnInit, ClientIInv, ConnStates, Outcomes, Worker
  <2>2. FeedInit => AttemptIInv /\ CountIInv
    BY ConnectionAssumption, FeedAssumption
    DEF FeedInit, ConnInit, AttemptIInv, CountIInv, Reading
  <2> QED
    BY <2>1, <2>2
<1>2. TypeOK /\ StreamIInv /\ ThrottleIInv /\ ClientIInv /\ AttemptIInv /\ CountIInv
        => FeedTypeOK
  BY DEF FeedTypeOK, ConnTypeOK, StreamIInv, ThrottleIInv, ClientIInv, AttemptIInv, CountIInv
<1>3. ThrottleIInv /\ [FeedNext]_feedVars => ThrottleIInv'
  BY NextThrottle
<1>4. FeedSpec => []TypeOK
  BY OKXImplementsBookSync, TypeCorrect DEF ImplementsBookSync
<1> QED
  BY <1>1, <1>2, <1>3, <1>4, InitStream, NextStream, InitThrottle, NextClient, NextAttempt,
     NextCount, PTL
  DEF FeedSpec
=============================================================================
