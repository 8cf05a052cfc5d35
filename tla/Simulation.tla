------------------------------ MODULE Simulation ------------------------------
(***************************************************************************)
(* The deterministic simulation the book engine is tested with             *)
(* (simulation/faults.py, simulation/driver.py): the market, a             *)
(* FaultInjector between it and the engine, which drops, repeats and swaps *)
(* events and serves old snapshots, and the SimulatedFeedDriver, which     *)
(* applies what comes through and resyncs after a gap.                     *)
(*                                                                         *)
(* One thread runs all of it.  A run_step is cut here at every call of the *)
(* engine, so that each step of the model is at most one step of BookSync. *)
(*                                                                         *)
(* Abstraction.  A roll of the dice is a choice, so the precedence among   *)
(* the faults that come up together, which decides between outcomes that   *)
(* are all possible anyway, is left out with the log that records it.      *)
(***************************************************************************)
EXTENDS MarketSimulator

CONSTANTS
  Faults,             \* the FaultTypes with a probability above zero
  DisconnectMaxLen,   \* disconnect_max_len
  DropBurstMaxLen,    \* drop_burst_max_len
  DelayMaxSteps,      \* delayed_snapshot_max_steps
  RetryLimit          \* snapshot_retry_limit

FaultType == {"disconnect", "drop_burst", "drop_one", "duplicate", "reorder",
              "delayed_snapshot"}

ASSUME SimulationAssumption ==
  /\ Faults \subseteq FaultType
  /\ {DisconnectMaxLen, DropBurstMaxLen, DelayMaxSteps, RetryLimit} \subseteq Nat \ {0}
  /\ 2 <= MaxBuffer   \* all that one run_step can leave in the buffer

VARIABLES
  config,      \* FaultConfig: the faults the injector in use may roll
  held,        \* _held: the event of a swap, or none
  window,      \* _window_remaining
  oldest,      \* update id of the first snapshot the injector in use took
  pc,          \* where the driver is
  pending,     \* events poll returned and run_step has not applied yet
  gap,         \* gap_this_step
  tries,       \* snapshots this _sync has loaded in vain
  delivered,   \* history: whether the last poll returned an event
  sampled      \* history: update id of the last event on_apply saw applied

injectorVars == <<config, held, window, oldest>>
driverVars   == <<pc, pending, gap, tries, delivered, sampled>>
simVars      == <<vars, injectorVars, driverVars>>

(* "idle" between two run_steps, "raised" by SnapshotRetryLimitExceeded.   *)
DriverStates == {"idle", "applying", "syncing", "raised"}

(* build_simulation: the driver's constructor syncs an engine that is new. *)
SimInit ==
  /\ EngineInit /\ SeedBook
  /\ config = Faults
  /\ held = <<>> /\ window = 0 /\ oldest = 0
  /\ pc = "syncing" /\ pending = <<>> /\ gap = FALSE /\ tries = 0
  /\ delivered = FALSE /\ sampled = 0

-----------------------------------------------------------------------------
(* FaultInjector.poll                                                      *)

Deliveries(events) == pending' = events

(* The event of this tick goes before the one held back.                   *)
CompleteSwap(e) ==
  /\ held # <<>>
  /\ Deliveries(<<e, held[1]>>)
  /\ held' = <<>> /\ UNCHANGED window

DropInWindow ==
  /\ held = <<>> /\ window > 0
  /\ Deliveries(<<>>)
  /\ window' = window - 1 /\ UNCHANGED held

Rolling == held = <<>> /\ window = 0

Pass(e) == Rolling /\ Deliveries(<<e>>) /\ UNCHANGED <<held, window>>

OpenWindow(fault, maxLen) ==
  /\ Rolling /\ fault \in config
  /\ Deliveries(<<>>)
  /\ \E length \in 1..maxLen : window' = length - 1
  /\ UNCHANGED held

DropOne ==
  /\ Rolling /\ "drop_one" \in config
  /\ Deliveries(<<>>) /\ UNCHANGED <<held, window>>

Duplicate(e) ==
  /\ Rolling /\ "duplicate" \in config
  /\ Deliveries(<<e, e>>) /\ UNCHANGED <<held, window>>

Reorder(e) ==
  /\ Rolling /\ "reorder" \in config
  /\ Deliveries(<<>>)
  /\ held' = <<e>> /\ UNCHANGED window

Inject(e) ==
  \/ CompleteSwap(e)
  \/ DropInWindow
  \/ OpenWindow("disconnect", DisconnectMaxLen)
  \/ OpenWindow("drop_burst", DropBurstMaxLen)
  \/ DropOne \/ Duplicate(e) \/ Reorder(e)
  \/ Pass(e)

(* request_snapshot: the latest one, or where snapshots may be delayed one *)
(* of the last DelayMaxSteps before it that this injector has taken.       *)
Servable ==
  IF "delayed_snapshot" \in config
  THEN {n \in oldest..head : head - n <= DelayMaxSteps}
  ELSE {head}

-----------------------------------------------------------------------------
(* SimulatedFeedDriver                                                     *)

Poll ==
  /\ pc = "idle" /\ head < MaxId
  /\ pc' = "applying"
  /\ gap' = FALSE
  /\ \E changes \in ChangesOf[OracleBook] :
       /\ StepBy(changes)
       /\ Inject(DiffEvent(head, head + 1, changes))
  /\ delivered' = (pending' # <<>>)
  /\ UNCHANGED <<engineVars, config, oldest, tries, sampled>>

(* The on_apply hook: an applied event is measured and becomes a row.      *)
Sample(e) == sampled' = e.final

(* Mutant: gap_this_step is what the last event of the step came to.       *)
ApplyNextForgetful ==
  /\ pc = "applying" /\ pending # <<>>
  /\ pending' = Tail(pending)
  /\ LET e == Head(pending)
     IN  \/ ApplyInOrder(e) /\ Sample(e) /\ gap' = FALSE
         \/ BufferEvent(e) /\ gap' = FALSE /\ UNCHANGED sampled
         \/ DetectGap(e) /\ gap' = TRUE /\ UNCHANGED sampled
  /\ UNCHANGED <<exchangeVars, injectorVars, pc, tries, delivered>>

ApplyNext ==
  /\ pc = "applying" /\ pending # <<>>
  /\ pending' = Tail(pending)
  /\ LET e == Head(pending)
     IN  \/ ApplyInOrder(e) /\ Sample(e) /\ UNCHANGED gap
         \/ BufferEvent(e) /\ UNCHANGED <<gap, sampled>>
         \/ DetectGap(e) /\ gap' = TRUE /\ UNCHANGED sampled
  /\ UNCHANGED <<exchangeVars, injectorVars, pc, tries, delivered>>

EndStep ==
  /\ pc = "applying" /\ pending = <<>>
  /\ pc' = IF gap THEN "syncing" ELSE "idle"
  /\ tries' = 0
  /\ UNCHANGED <<vars, injectorVars, pending, gap, delivered, sampled>>

(* Mutant: one attempt after the last.                                     *)
OutOfTriesLate == tries' > RetryLimit

OutOfTries == tries' = RetryLimit

(* One turn of _sync's loop.                                               *)
SyncTry ==
  /\ pc = "syncing"
  /\ \E n \in Servable :
       \/ LoadAndReplay(SnapshotAt(n)) /\ pc' = "idle" /\ UNCHANGED tries
       \/ /\ RejectStale(SnapshotAt(n)) \/ LoadThenGap(SnapshotAt(n))
          /\ tries' = tries + 1
          /\ pc' = IF OutOfTries THEN "raised" ELSE "syncing"
  /\ UNCHANGED <<exchangeVars, injectorVars, pending, gap, delivered, sampled>>

(* The fault-free tail of a test: a new injector without faults and a new  *)
(* driver take over market and engine, whatever the old injector still     *)
(* held back.  The bound leaves the tail at least one step to run.         *)
StartTail ==
  /\ pc = "idle" /\ config # {} /\ head < MaxId
  /\ config' = {}
  /\ held' = <<>> /\ window' = 0 /\ oldest' = head
  /\ pc' = IF state = "LIVE" THEN "idle" ELSE "syncing"
  /\ tries' = 0
  /\ UNCHANGED <<vars, pending, gap, delivered, sampled>>

-----------------------------------------------------------------------------
SimNext == Poll \/ ApplyNext \/ EndStep \/ SyncTry \/ StartTail

SimSpec == SimInit /\ [][SimNext]_simVars

(* run() calls run_step again and again, and run_step runs through.        *)
FairSimSpec == SimSpec /\ WF_simVars(Poll \/ ApplyNext \/ EndStep \/ SyncTry)

-----------------------------------------------------------------------------
SimTypeOK ==
  /\ TypeOK
  /\ config \in {Faults, {}}
  /\ \A e \in {held[i] : i \in DOMAIN held} \cup {pending[i] : i \in DOMAIN pending} :
       Truthful(e)
  /\ Len(held) <= 1 /\ Len(pending) <= 2
  /\ window \in 0..Max({DisconnectMaxLen, DropBurstMaxLen})
  /\ oldest \in 0..head
  /\ pc \in DriverStates
  /\ {gap, delivered} \subseteq BOOLEAN
  /\ tries \in 0..RetryLimit
  /\ sampled \in 0..head

(* What assert_converged asserts (convergence.py).                         *)
Converged == state = "LIVE" /\ lastAppliedId = head /\ book = OracleBook

(* A run_step that returns leaves the engine LIVE, whatever was dropped,   *)
(* repeated or swapped in it and before it; and if as much as one event    *)
(* came through in it, however old that one was, the engine is at the      *)
(* market's own update id with the market's own book (driver.py:70-97).    *)
DeliveryConverges == pc = "idle" => state = "LIVE" /\ (delivered => Converged)

(* The latest snapshot always ends a resync, at the market's own update    *)
(* id, for everything the faults can leave in the buffer.  The one before  *)
(* it is never stale, and fails only where the event buffered last was     *)
(* delivered twice, whose copy then breaks the replay.  So                 *)
(* SnapshotRetryLimitExceeded takes a run of delayed snapshots             *)
(* (driver.py:83-97, faults.py:165-184).                                   *)
RecentSnapshotsLoad ==
  pc = "syncing" =>
    \A n \in Servable :
      LET s == SnapshotAt(n)
          repeated == Len(buffer) = 2 /\ buffer[1] = buffer[2]
      IN  /\ head - n <= 1 => FirstStraddles(s)
          /\ n = head \/ (n = head - 1 /\ ~ repeated) =>
               Breaks(s) = {} /\ ReplayedId(s) = head

(* No update is measured, or written as a row, twice or behind a later     *)
(* one, even where the injector repeats it or a resync replays it          *)
(* (driver.py:74-79, stress_replay.py:107-118).                            *)
SampledOnce ==
  [][pc = "applying" /\ pending # <<>> /\ state = "LIVE" /\ state' = "LIVE" =>
       sampled' > sampled]_simVars

(* The simulation drives its engine only as BookSync allows, so what is    *)
(* proved there of the book holds in every simulated run.                  *)
ImplementsBookSync == Spec

(* Once the faults have stopped the engine converges, and stays converged  *)
(* after every further step, unless the driver gave up before              *)
(* (tests/simulation/test_properties.py:45-60).                            *)
TailConverges ==
  <>(config = {}) => <>[](pc = "idle" => Converged)
=============================================================================
