----------------------------- MODULE Supervisor -----------------------------
(***************************************************************************)
(* FeedSupervisor (supervisor.py): one task per feed, restarted on a       *)
(* budget, the sink's task, whose end stops everything, and run(), which   *)
(* waits for the shutdown event, cancels every task and gathers them.      *)
(*                                                                         *)
(* asyncio runs one task at a time, so an action is what a task does       *)
(* between two awaits.  task.cancel() only leaves a request: the task gets *)
(* its CancelledError the next time it runs, and takes no other step       *)
(* before (toCancel).  What a feed's run() does with that error is the     *)
(* client's business, and the two clients do not always let it through:    *)
(*   - run()'s finally awaits its own cancelled worker under               *)
(*     suppress(CancelledError), so a cancellation that arrives while a    *)
(*     client is already leaving on an error ("closing") is swallowed and  *)
(*     the error goes on;                                                  *)
(*   - where that worker has died of an error of its own, awaiting it      *)
(*     raises that error, which replaces the CancelledError (Fragile).     *)
(*                                                                         *)
(* Abstraction.  Time is counted in the window's units, and a backoff ends *)
(* at any time.  Feed clients, book and rows are left to the other modules.*)
(***************************************************************************)
EXTENDS Integers, Sequences, FiniteSets

CONSTANTS
  Feed,            \* names given to add_feed
  MaxRestarts,     \* max_restarts
  RestartWindow,   \* restart_window_seconds
  MaxExponent,     \* largest n for which base_seconds * 2**n is still a float
  Fragile,         \* feeds whose resync worker may be dead when cancelled
  MaxTime          \* bound: the clock stops here

ASSUME SupervisorAssumption ==
  /\ MaxRestarts \in Nat
  /\ RestartWindow \in Nat \ {0}
  /\ MaxExponent \in Nat
  /\ Fragile \subseteq Feed
  /\ MaxTime \in Nat

VARIABLES
  now,            \* the injected clock
  loop,           \* where _run_feed is, per feed
  feedState,      \* _FeedEntry.state
  restartCount,   \* _FeedEntry.restart_count
  restartTimes,   \* _FeedEntry.restart_times
  sink,           \* where _run_sink is
  shutdown,       \* _shutdown_event
  runner,         \* where run() is
  toCancel,       \* tasks with a cancellation on its way
  crashes,        \* history: the times of all of a feed's crashes
  swallowed       \* history: feeds that outlived their cancellation

supervisorVars == <<now, loop, feedState, restartCount, restartTimes, sink,
                    shutdown, runner, toCancel, crashes, swallowed>>
entryVars == <<feedState, restartCount, restartTimes, crashes>>
runVars   == <<sink, shutdown, runner, toCancel, swallowed>>

SinkTask == "sink"
ASSUME SinkIsNoFeed == SinkTask \notin Feed

FeedStates == {"RUNNING", "RESTARTING", "PERMANENTLY_FAILED", "STOPPED"}

(* "ended": returned, or gave up.  "broken": the task died of an error     *)
(* inside _run_feed's own except clause.                                   *)
DoneLoops == {"ended", "cancelled", "broken"}
Loops     == {"running", "closing", "backoff"} \cup DoneLoops

SupervisorTypeOK ==
  /\ now \in 0..MaxTime
  /\ loop \in [Feed -> Loops]
  /\ feedState \in [Feed -> FeedStates]
  /\ restartCount \in [Feed -> Nat]
  /\ \A f \in Feed : /\ restartTimes[f] \in Seq(0..now)
                     /\ crashes[f] \in Seq(0..now)
                     /\ Len(restartTimes[f]) <= MaxRestarts + 1
                     /\ restartCount[f] <= Len(crashes[f])
  /\ sink \in {"running", "ended", "cancelled"}
  /\ shutdown \in BOOLEAN
  /\ runner \in {"waiting", "gathering", "returned"}
  /\ toCancel \subseteq Feed \cup {SinkTask}
  /\ swallowed \subseteq Feed

-----------------------------------------------------------------------------
SupervisorInit ==
  /\ now = 0
  /\ loop = [f \in Feed |-> "running"]
  /\ feedState = [f \in Feed |-> "RUNNING"]
  /\ restartCount = [f \in Feed |-> 0]
  /\ restartTimes = [f \in Feed |-> <<>>]
  /\ sink = "running" /\ shutdown = FALSE
  /\ runner = "waiting" /\ toCancel = {}
  /\ crashes = [f \in Feed |-> <<>>] /\ swallowed = {}

Tick ==
  /\ now < MaxTime
  /\ now' = now + 1
  /\ UNCHANGED <<loop, entryVars, runVars>>

-----------------------------------------------------------------------------
(* Mutant: only whether the newest crash has left the window is looked at. *)
RecentAllOrNothing(times) ==
  IF times # <<>> /\ now - times[Len(times)] < RestartWindow THEN times ELSE <<>>

(* _run_feed's except clause: forget the crashes that have left the        *)
(* window, add this one, and give up or back off.  The clock (monotonic)   *)
(* does not go back, so the ones to forget are the first ones.             *)
Gone(times) == {i \in DOMAIN times : now - times[i] >= RestartWindow}

Recent(times) == SubSeq(times, Cardinality(Gone(times)) + 1, Len(times))

(* Mutant: the budget is checked before this crash is counted.             *)
OverBudgetLate(f) == Len(Recent(restartTimes[f])) > MaxRestarts

OverBudget(f) == Len(restartTimes'[f]) > MaxRestarts

GiveUp(f) ==
  /\ OverBudget(f)
  /\ feedState' = [feedState EXCEPT ![f] = "PERMANENTLY_FAILED"]
  /\ loop' = [loop EXCEPT ![f] = "ended"]
  /\ UNCHANGED restartCount

(* Mutant: the count is taken after it has grown.                          *)
BackOffEarly(f) ==
  /\ ~ OverBudget(f)
  /\ restartCount' = [restartCount EXCEPT ![f] = @ + 1]
  /\ feedState' = [feedState EXCEPT ![f] = "RESTARTING"]
  /\ loop' = [loop EXCEPT ![f] =
                IF restartCount'[f] > MaxExponent THEN "broken" ELSE "backoff"]

(* restart_count is never reset, so 2**(restart_count - 1) grows with it.  *)
BackOff(f) ==
  /\ ~ OverBudget(f)
  /\ restartCount' = [restartCount EXCEPT ![f] = @ + 1]
  /\ feedState' = [feedState EXCEPT ![f] = "RESTARTING"]
  /\ loop' = [loop EXCEPT ![f] =
                IF restartCount[f] > MaxExponent THEN "broken" ELSE "backoff"]

HandleCrash(f) ==
  /\ restartTimes' = [restartTimes EXCEPT ![f] = Append(Recent(@), now)]
  /\ crashes' = [crashes EXCEPT ![f] = Append(@, now)]
  /\ GiveUp(f) \/ BackOff(f)

(* The feed's own steps, when no cancellation is on its way.               *)
FeedReturns(f) ==
  /\ loop[f] = "running" /\ f \notin toCancel
  /\ loop' = [loop EXCEPT ![f] = "ended"]
  /\ feedState' = [feedState EXCEPT ![f] = "STOPPED"]
  /\ UNCHANGED <<now, restartCount, restartTimes, crashes, runVars>>

FeedFails(f) ==
  /\ loop[f] = "running" /\ f \notin toCancel
  /\ loop' = [loop EXCEPT ![f] = "closing"]
  /\ UNCHANGED <<now, entryVars, runVars>>

FeedCrashes(f) ==
  /\ loop[f] = "closing" /\ f \notin toCancel
  /\ HandleCrash(f)
  /\ UNCHANGED <<now, runVars>>

(* Mutant: the state is left at RESTARTING once the feed runs again.       *)
BackoffEndsSilently(f) ==
  /\ loop[f] = "backoff" /\ f \notin toCancel
  /\ loop' = [loop EXCEPT ![f] = "running"]
  /\ UNCHANGED <<now, entryVars, runVars>>

BackoffEnds(f) ==
  /\ loop[f] = "backoff" /\ f \notin toCancel
  /\ loop' = [loop EXCEPT ![f] = "running"]
  /\ feedState' = [feedState EXCEPT ![f] = "RUNNING"]
  /\ UNCHANGED <<now, restartCount, restartTimes, crashes, runVars>>

-----------------------------------------------------------------------------
(* Mutant: only an error of the sink, not its end, is passed on.           *)
SinkEndsUnnoticed ==
  /\ sink = "running" /\ SinkTask \notin toCancel
  /\ sink' = "ended"
  /\ shutdown' \in {shutdown, TRUE}
  /\ UNCHANGED <<now, loop, entryVars, runner, toCancel, swallowed>>

(* However the sink ends, _run_sink's finally asks for a shutdown.         *)
SinkEnds ==
  /\ sink = "running" /\ SinkTask \notin toCancel
  /\ sink' = "ended"
  /\ shutdown' = TRUE
  /\ UNCHANGED <<now, loop, entryVars, runner, toCancel, swallowed>>

RequestShutdown ==
  /\ ~ shutdown
  /\ shutdown' = TRUE
  /\ UNCHANGED <<now, loop, entryVars, sink, runner, toCancel, swallowed>>

(* run() wakes up and cancels what is not done, in one step.               *)
BeginShutdown ==
  /\ runner = "waiting" /\ shutdown
  /\ runner' = "gathering"
  /\ toCancel' = {f \in Feed : loop[f] \notin DoneLoops}
                   \cup (IF sink = "running" THEN {SinkTask} ELSE {})
  /\ UNCHANGED <<now, loop, entryVars, sink, shutdown, swallowed>>

CancelFeed(f) ==
  /\ f \in toCancel
  /\ toCancel' = toCancel \ {f}
  /\ loop' = [loop EXCEPT ![f] = "cancelled"]
  /\ UNCHANGED <<now, entryVars, sink, shutdown, runner, swallowed>>

(* The client's finally lets another error out instead.                    *)
SwallowCancel(f) ==
  /\ f \in toCancel
  /\ loop[f] = "closing" \/ (loop[f] = "running" /\ f \in Fragile)
  /\ toCancel' = toCancel \ {f}
  /\ swallowed' = swallowed \cup {f}
  /\ HandleCrash(f)
  /\ UNCHANGED <<now, sink, shutdown, runner>>

CancelSink ==
  /\ SinkTask \in toCancel
  /\ toCancel' = toCancel \ {SinkTask}
  /\ sink' = "cancelled"
  /\ UNCHANGED <<now, loop, entryVars, shutdown, runner, swallowed>>

(* gather() returns once every task is done.                               *)
Return ==
  /\ runner = "gathering"
  /\ sink # "running" /\ \A f \in Feed : loop[f] \in DoneLoops
  /\ runner' = "returned"
  /\ UNCHANGED <<now, loop, entryVars, sink, shutdown, toCancel, swallowed>>

-----------------------------------------------------------------------------
FeedStep(f) == FeedReturns(f) \/ FeedFails(f) \/ FeedCrashes(f) \/ BackoffEnds(f)

SupervisorNext ==
  \/ Tick
  \/ \E f \in Feed : FeedStep(f) \/ CancelFeed(f) \/ SwallowCancel(f)
  \/ SinkEnds \/ RequestShutdown \/ BeginShutdown \/ CancelSink \/ Return

SupervisorSpec == SupervisorInit /\ [][SupervisorNext]_supervisorVars

(* The event loop runs every task that is ready, a sleep ends, and a       *)
(* client that is leaving finishes its clean-up.  Nothing is assumed of    *)
(* when a feed fails, the sink ends or a shutdown is requested.            *)
FairSupervisorSpec ==
  /\ SupervisorSpec
  /\ \A f \in Feed : /\ WF_supervisorVars(CancelFeed(f) \/ SwallowCancel(f))
                     /\ WF_supervisorVars(FeedCrashes(f))
                     /\ WF_supervisorVars(BackoffEnds(f))
  /\ WF_supervisorVars(BeginShutdown)
  /\ WF_supervisorVars(CancelSink)
  /\ WF_supervisorVars(Return)

-----------------------------------------------------------------------------
(* The number of crashes among the first i that fall in the window that    *)
(* ends with crash i, counted over the feed's whole history.               *)
InWindow(f, i) == Cardinality({j \in 1..i : crashes[f][i] - crashes[f][j] < RestartWindow})

(* A feed is given up on exactly when its last crash is one too many for   *)
(* the window it ends, and never lives on after such a crash: pruning      *)
(* restart_times at each crash (supervisor.py:113-117) loses no crash that *)
(* a later window would have counted and keeps none that has left it.      *)
BudgetKept ==
  \A f \in Feed :
    LET last == Len(crashes[f])
    IN /\ \A i \in 1..(last - 1) : InWindow(f, i) <= MaxRestarts
       /\ feedState[f] = "PERMANENTLY_FAILED"
            <=> last > 0 /\ InWindow(f, last) > MaxRestarts

(* Until run() begins to cancel, the state the heartbeat and the metrics   *)
(* show is the truth about the feed's task, whatever the order of crashes, *)
(* backoffs and returns (supervisor.py:102-134).  The exception is the     *)
(* task that died computing its own backoff.                               *)
ReportedTruly ==
  runner = "waiting" =>
    \A f \in Feed : loop[f] # "broken" =>
      /\ feedState[f] = "RUNNING" <=> loop[f] \in {"running", "closing"}
      /\ feedState[f] = "RESTARTING" <=> loop[f] = "backoff"

(* Once a shutdown is asked for or the sink is gone, run() returns, with   *)
(* every feed in whatever state it was, unless a client lets its           *)
(* cancellation fall (supervisor.py:91-98, 136-144).                       *)
ShutdownCompletes ==
  (shutdown \/ sink # "running") ~> (runner = "returned" \/ swallowed # {})

(* A feed shown as RESTARTING does restart or is stopped, for as long as   *)
(* its backoff can be computed at all: the exponent is the number of       *)
(* restarts before this one, and no more (supervisor.py:130-134).          *)
RestartsFollow ==
  \A f \in Feed :
    feedState[f] = "RESTARTING" /\ restartCount[f] <= MaxExponent + 1
      ~> feedState[f] # "RESTARTING" \/ runner # "waiting"

(* supervisor.py:44-48 and DECISIONS.md:906-912: a shutdown, or a crash of *)
(* the sink, cancels every feed; none is started again after that.         *)
ShutdownStopsFeeds ==
  [][runner = "gathering" =>
       \A f \in Feed : loop[f] = "backoff" => loop'[f] # "running"]_supervisorVars
=============================================================================
