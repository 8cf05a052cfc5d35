-------------------------- MODULE SupervisorProofs --------------------------
(***************************************************************************)
(* Proofs about Supervisor, for any number of feeds, any budget and any    *)
(* interleaving of crashes, backoffs, cancellations and shutdown.          *)
(***************************************************************************)
EXTENDS Supervisor, DataFacts, TLAPS

(* A cancellation is on its way only once run() has begun to gather.       *)
ReportIInv ==
  /\ loop \in [Feed -> Loops]
  /\ feedState \in [Feed -> FeedStates]
  /\ runner = "waiting" => toCancel = {}
  /\ ReportedTruly

LEMMA InitReport == SupervisorInit => ReportIInv
BY DEF SupervisorInit, ReportIInv, ReportedTruly, Loops, FeedStates

(* However a crash is handled, the state set is the one of the new loop.   *)
LEMMA CrashReported ==
  ASSUME ReportIInv, NEW f \in Feed, HandleCrash(f)
  PROVE  /\ loop' \in [Feed -> Loops]
         /\ feedState' \in [Feed -> FeedStates]
         /\ \A g \in Feed \ {f} : loop'[g] = loop[g] /\ feedState'[g] = feedState[g]
         /\ \/ loop'[f] = "ended" /\ feedState'[f] = "PERMANENTLY_FAILED"
            \/ loop'[f] \in {"backoff", "broken"} /\ feedState'[f] = "RESTARTING"
<1> USE DEF ReportIInv, Loops, DoneLoops, FeedStates
<1>1. CASE GiveUp(f)
  BY <1>1 DEF GiveUp
<1>2. CASE BackOff(f)
  BY <1>2 DEF BackOff
<1> QED
  BY <1>1, <1>2 DEF HandleCrash

LEMMA NextReport == ReportIInv /\ [SupervisorNext]_supervisorVars => ReportIInv'
<1> SUFFICES ASSUME ReportIInv, [SupervisorNext]_supervisorVars PROVE ReportIInv'
  OBVIOUS
<1> USE DEF ReportIInv, ReportedTruly, entryVars, runVars
<1>1. CASE Tick
  BY <1>1 DEF Tick
<1>2. ASSUME NEW f \in Feed, FeedReturns(f) PROVE ReportIInv'
  BY <1>2 DEF FeedReturns, Loops, DoneLoops, FeedStates
<1>3. ASSUME NEW f \in Feed, FeedFails(f) PROVE ReportIInv'
  BY <1>3 DEF FeedFails, Loops, DoneLoops
<1>4. ASSUME NEW f \in Feed, FeedCrashes(f) PROVE ReportIInv'
  <2>1. HandleCrash(f) /\ UNCHANGED <<runner, toCancel>>
    BY <1>4 DEF FeedCrashes
  <2> QED
    BY <2>1, CrashReported
<1>5. ASSUME NEW f \in Feed, BackoffEnds(f) PROVE ReportIInv'
  BY <1>5 DEF BackoffEnds, Loops, DoneLoops, FeedStates
<1>6. ASSUME NEW f \in Feed, CancelFeed(f) PROVE ReportIInv'
  BY <1>6 DEF CancelFeed, Loops, DoneLoops
<1>7. ASSUME NEW f \in Feed, SwallowCancel(f) PROVE ReportIInv'
  <2>1. HandleCrash(f) /\ runner # "waiting" /\ UNCHANGED runner
    BY <1>7 DEF SwallowCancel
  <2> QED
    BY <2>1, CrashReported
<1>8. CASE SinkEnds \/ RequestShutdown \/ CancelSink
  BY <1>8 DEF SinkEnds, RequestShutdown, CancelSink
<1>9. CASE BeginShutdown \/ Return
  BY <1>9 DEF BeginShutdown, Return
<1>10. CASE UNCHANGED supervisorVars
  BY <1>10 DEF supervisorVars
<1> QED
  BY <1>1, <1>2, <1>3, <1>4, <1>5, <1>6, <1>7, <1>8, <1>9, <1>10
     DEF SupervisorNext, FeedStep

(* What the heartbeat and the metrics say of a feed is true of its task    *)
(* until run() begins to cancel, for every set of feeds and every budget.  *)
THEOREM StatesReportedTruly == SupervisorSpec => []ReportedTruly
<1>1. ReportIInv => ReportedTruly
  BY DEF ReportIInv
<1> QED
  BY InitReport, NextReport, <1>1, PTL DEF SupervisorSpec

(* Once run() gathers, a feed is done, is about to be cancelled, or has    *)
(* outlived its cancellation.                                              *)
GatheringIInv ==
  /\ loop \in [Feed -> Loops]
  /\ runner # "waiting" =>
       \A f \in Feed : loop[f] \in DoneLoops \/ f \in toCancel \/ f \in swallowed

LEMMA NextGathering ==
  ASSUME ReportIInv, GatheringIInv, [SupervisorNext]_supervisorVars
  PROVE  GatheringIInv'
<1> USE DEF GatheringIInv, entryVars, runVars
<1>1. ReportIInv'
  BY NextReport
<1>2. loop' \in [Feed -> Loops]
  BY <1>1 DEF ReportIInv
<1>3. ASSUME NEW f \in Feed, FeedStep(f) PROVE GatheringIInv'
  <2>1. /\ UNCHANGED <<runner, toCancel, swallowed>>
        /\ loop[f] \notin DoneLoops /\ f \notin toCancel
    BY <1>3 DEF FeedStep, FeedReturns, FeedFails, FeedCrashes, BackoffEnds, DoneLoops
  <2>2. \A g \in Feed \ {f} : loop'[g] = loop[g]
    <3>1. CASE FeedCrashes(f)
      BY <3>1, CrashReported DEF FeedCrashes
    <3>2. CASE FeedReturns(f) \/ FeedFails(f) \/ BackoffEnds(f)
      BY <3>2 DEF FeedReturns, FeedFails, BackoffEnds
    <3> QED
      BY <1>3, <3>1, <3>2 DEF FeedStep
  <2> QED
    BY <1>2, <2>1, <2>2
<1>4. ASSUME NEW f \in Feed, CancelFeed(f) PROVE GatheringIInv'
  BY <1>2, <1>4 DEF CancelFeed, DoneLoops
<1>5. ASSUME NEW f \in Feed, SwallowCancel(f) PROVE GatheringIInv'
  <2>1. /\ UNCHANGED runner /\ toCancel' = toCancel \ {f} /\ swallowed' = swallowed \cup {f}
        /\ HandleCrash(f)
    BY <1>5 DEF SwallowCancel
  <2>2. \A g \in Feed \ {f} : loop'[g] = loop[g]
    BY <2>1, CrashReported
  <2> QED
    BY <1>2, <2>1, <2>2
<1>6. CASE BeginShutdown
  BY <1>2, <1>6 DEF BeginShutdown
<1>7. CASE CancelSink
  BY <1>2, <1>7, SinkIsNoFeed DEF CancelSink
<1>8. CASE Tick \/ SinkEnds \/ RequestShutdown \/ Return \/ UNCHANGED supervisorVars
  BY <1>2, <1>8 DEF Tick, SinkEnds, RequestShutdown, Return, supervisorVars
<1> QED
  BY <1>3, <1>4, <1>5, <1>6, <1>7, <1>8 DEF SupervisorNext

(* Of a feed that has not outlived its cancellation no run begins again.   *)
LEMMA NoneStarts ==
  ASSUME ReportIInv, GatheringIInv, swallowed = {}, runner = "gathering",
         [SupervisorNext]_supervisorVars, NEW f \in Feed, loop[f] = "backoff"
  PROVE  loop'[f] # "running"
<1> USE DEF entryVars, runVars
<1>1. f \in toCancel
  BY DEF GatheringIInv, DoneLoops
<1>2. ASSUME NEW g \in Feed, FeedStep(g) PROVE loop'[f] # "running"
  <2>1. g # f
    BY <1>1, <1>2 DEF FeedStep, FeedReturns, FeedFails, FeedCrashes, BackoffEnds
  <2>2. loop'[f] = loop[f]
    <3>1. CASE FeedCrashes(g)
      BY <2>1, <3>1, CrashReported DEF FeedCrashes
    <3>2. CASE FeedReturns(g) \/ FeedFails(g) \/ BackoffEnds(g)
      BY <2>1, <3>2 DEF FeedReturns, FeedFails, BackoffEnds, GatheringIInv
    <3> QED
      BY <1>2, <3>1, <3>2 DEF FeedStep
  <2> QED
    BY <2>2
<1>3. ASSUME NEW g \in Feed, CancelFeed(g) PROVE loop'[f] # "running"
  BY <1>3 DEF CancelFeed, GatheringIInv
<1>4. ASSUME NEW g \in Feed, SwallowCancel(g) PROVE loop'[f] # "running"
  <2>1. HandleCrash(g) /\ loop[g] # "backoff"
    BY <1>4 DEF SwallowCancel
  <2> QED
    BY <2>1, CrashReported
<1>5. CASE Tick \/ SinkEnds \/ RequestShutdown \/ BeginShutdown \/ CancelSink \/ Return
             \/ UNCHANGED supervisorVars
  BY <1>5 DEF Tick, SinkEnds, RequestShutdown, BeginShutdown, CancelSink, Return,
              supervisorVars
<1> QED
  BY <1>2, <1>3, <1>4, <1>5 DEF SupervisorNext

(* A shutdown stops every feed, in whatever state it is, as long as no     *)
(* client replaces its cancellation by an error: nothing else brings a     *)
(* feed back (ShutdownStopsFeeds).                                         *)
THEOREM ShutdownStopsUnlessSwallowed ==
  SupervisorSpec /\ [](swallowed = {}) => ShutdownStopsFeeds
<1> DEFINE Stopping == runner = "gathering" =>
                         \A f \in Feed : loop[f] = "backoff" => loop'[f] # "running"
<1>1. SupervisorInit => GatheringIInv
  BY DEF SupervisorInit, GatheringIInv, Loops
<1>2. ReportIInv /\ GatheringIInv /\ swallowed = {} /\ [SupervisorNext]_supervisorVars =>
        [Stopping]_supervisorVars
  BY NoneStarts
<1>3. ShutdownStopsFeeds <=> [][Stopping]_supervisorVars
  BY DEF ShutdownStopsFeeds
<1> QED
  BY <1>1, <1>2, <1>3, InitReport, NextReport, NextGathering, PTL DEF SupervisorSpec

-----------------------------------------------------------------------------
(* The restart budget                                                      *)

(* Time does not go back, so neither do the crashes of a feed.             *)
CrashesInOrder(f) ==
  /\ \A i \in 1..Len(crashes[f]) : crashes[f][i] <= now
  /\ \A i, j \in 1..Len(crashes[f]) : i <= j => crashes[f][i] <= crashes[f][j]

(* restart_times holds the last of them: those in the window that ends     *)
(* with the newest.                                                        *)
WindowRemembered(f) ==
  LET all  == Len(crashes[f])
      kept == Len(restartTimes[f])
  IN /\ kept <= all
     /\ \A i \in 1..kept : restartTimes[f][i] = crashes[f][all - kept + i]
     /\ \A j \in 1..all :
          crashes[f][all] - crashes[f][j] < RestartWindow <=> j > all - kept

FeedBudget(f) ==
  /\ CrashesInOrder(f)
  /\ WindowRemembered(f)
  /\ Len(restartTimes[f]) <= MaxRestarts + 1
  /\ restartCount[f] <= Len(crashes[f])
  /\ feedState[f] = "PERMANENTLY_FAILED" <=> Len(restartTimes[f]) > MaxRestarts
  /\ feedState[f] = "PERMANENTLY_FAILED" => loop[f] \in DoneLoops
  /\ \A i \in 1..(Len(crashes[f]) - 1) : InWindow(f, i) <= MaxRestarts

BudgetIInv ==
  /\ now \in Nat
  /\ loop \in [Feed -> Loops]
  /\ feedState \in [Feed -> FeedStates]
  /\ restartCount \in [Feed -> Nat]
  /\ restartTimes \in [Feed -> Seq(Nat)]
  /\ crashes \in [Feed -> Seq(Nat)]
  /\ \A f \in Feed : FeedBudget(f)

LEMMA InitBudget == SupervisorInit => BudgetIInv
BY SupervisorAssumption
DEF SupervisorInit, BudgetIInv, FeedBudget, CrashesInOrder, WindowRemembered,
    Loops, FeedStates

(* What is outside a window stays outside as time goes on.                 *)
LEMMA OlderStill ==
  ASSUME NEW a \in Nat, NEW b \in Nat, NEW c \in Nat, NEW w \in Nat,
         b <= c, ~ b - a < w
  PROVE  ~ c - a < w
OBVIOUS

(* What the code keeps of restart_times when it prunes it at time now.     *)
LEMMA RecentIsTail ==
  ASSUME BudgetIInv, NEW f \in Feed
  PROVE  LET times == restartTimes[f]
             gone  == Cardinality(Gone(times))
         IN /\ gone \in 0..Len(times)
            /\ Recent(times) \in Seq(Nat)
            /\ Len(Recent(times)) = Len(times) - gone
            /\ \A i \in 1..Len(times) - gone : Recent(times)[i] = times[gone + i]
            /\ \A i \in 1..Len(times) : now - times[i] < RestartWindow <=> i > gone
<1> DEFINE times == restartTimes[f]
           gone  == Cardinality(Gone(times))
<1>1. /\ times \in Seq(Nat) /\ Len(times) \in Nat /\ now \in Nat
      /\ DOMAIN times = 1..Len(times)
      /\ \A i \in 1..Len(times) : times[i] \in Nat
  BY DEF BudgetIInv
<1>2. \A i, j \in 1..Len(times) : i <= j => times[i] <= times[j]
  <2> DEFINE all == Len(crashes[f])
             kept == Len(times)
  <2>0. crashes[f] \in Seq(Nat)
    BY DEF BudgetIInv
  <2>1. all \in Nat /\ kept \in Nat /\ kept <= all
    BY <1>1, <2>0 DEF BudgetIInv, FeedBudget, WindowRemembered
  <2>2. \A i \in 1..kept : times[i] = crashes[f][all - kept + i]
    BY DEF BudgetIInv, FeedBudget, WindowRemembered
  <2>3. \A i, j \in 1..all : i <= j => crashes[f][i] <= crashes[f][j]
    BY DEF BudgetIInv, FeedBudget, CrashesInOrder
  <2>4. ASSUME NEW i \in 1..kept, NEW j \in 1..kept, i <= j
        PROVE  times[i] <= times[j]
    <3> HIDE DEF all, kept
    <3>1. /\ all - kept + i \in 1..all /\ all - kept + j \in 1..all
          /\ all - kept + i <= all - kept + j
      BY <2>1, <2>4
    <3> QED
      BY <2>2, <2>3, <2>4, <3>1
  <2> QED
    BY <2>4
<1>3. gone \in 0..Len(times) /\ Gone(times) = 1..gone
  <2>1. Gone(times) \subseteq 1..Len(times)
    BY <1>1 DEF Gone
  <2>2. \A i \in Gone(times), j \in 1..Len(times) : j <= i => j \in Gone(times)
    BY <1>1, <1>2, SupervisorAssumption DEF Gone
  <2> QED
    BY <1>1, <2>1, <2>2, FirstOnes
<1>4. ASSUME NEW i \in 1..Len(times)
      PROVE  now - times[i] < RestartWindow <=> i > gone
  <2>1. i \in Gone(times) <=> now - times[i] >= RestartWindow
    BY <1>1 DEF Gone
  <2>2. i \in Gone(times) <=> i <= gone
    <3> HIDE DEF gone
    <3> QED
      BY <1>3
  <2>3. now - times[i] \in Int /\ i \in Int /\ gone \in Int /\ RestartWindow \in Int
    <3> HIDE DEF gone
    <3> QED
      BY <1>1, <1>3, SupervisorAssumption
  <2> QED
    <3> HIDE DEF gone
    <3> QED
      BY <2>1, <2>2, <2>3
<1>5. /\ Recent(times) \in Seq(Nat)
      /\ Len(Recent(times)) = Len(times) - gone
      /\ \A i \in 1..Len(times) - gone : Recent(times)[i] = times[gone + i]
  <2>1. Recent(times) = SubSeq(times, gone + 1, Len(times))
    BY DEF Recent
  <2> HIDE DEF gone
  <2> QED
    BY <1>1, <1>3, <2>1, AllButFirst
<1> QED
  BY <1>3, <1>4, <1>5

(* The crashes restart_times holds are counted over the whole history.     *)
LEMMA WindowCounted ==
  ASSUME BudgetIInv, NEW f \in Feed, Len(crashes[f]) > 0
  PROVE  InWindow(f, Len(crashes[f])) = Len(restartTimes[f])
<1> DEFINE n == Len(crashes[f])
           m == Len(restartTimes[f])
<1>1. n \in Nat /\ m \in Nat /\ m <= n
  BY DEF BudgetIInv, FeedBudget, WindowRemembered
<1>2. \A j \in 1..n : crashes[f][n] - crashes[f][j] < RestartWindow <=> j > n - m
  BY DEF BudgetIInv, FeedBudget, WindowRemembered
<1>3. InWindow(f, n) = Cardinality({j \in 1..n : j > n - m})
  BY <1>2 DEF InWindow
<1> HIDE DEF n, m
<1>4. {j \in 1..n : j > n - m} = n - m + 1..n
  BY <1>1
<1>5. Cardinality(n - m + 1..n) = m
  <2>1. Cardinality(n - m + 1..n) = IF n - m + 1 > n THEN 0 ELSE n - (n - m + 1) + 1
    BY <1>1, FS_Interval
  <2> QED
    BY <1>1, <2>1
<1> QED
  BY <1>3, <1>4, <1>5 DEF n, m

(* A crash of a feed that has not been given up on: what is remembered is  *)
(* again the window, now the one that ends with this crash.                *)
LEMMA CrashRemembered ==
  ASSUME BudgetIInv, NEW f \in Feed, HandleCrash(f), UNCHANGED now
  PROVE  /\ restartTimes'[f] \in Seq(Nat) /\ crashes'[f] \in Seq(Nat)
         /\ Len(crashes'[f]) = Len(crashes[f]) + 1
         /\ \A i \in 1..Len(crashes[f]) : crashes'[f][i] = crashes[f][i]
         /\ Len(restartTimes'[f]) <= Len(restartTimes[f]) + 1
         /\ CrashesInOrder(f)' /\ WindowRemembered(f)'
<1> DEFINE c == crashes[f]
           r == restartTimes[f]
           c2 == crashes'[f]
           r2 == restartTimes'[f]
           n == Len(c)
           m == Len(r)
           g == Cardinality(Gone(r))
<1>1. /\ c \in Seq(Nat) /\ r \in Seq(Nat) /\ now \in Nat
      /\ n \in Nat /\ m \in Nat /\ m <= n
      /\ \A i \in 1..n : c[i] \in Nat
      /\ \A i \in 1..m : r[i] \in Nat
  BY DEF BudgetIInv, FeedBudget, WindowRemembered
<1>2. /\ \A i \in 1..n : c[i] <= now
      /\ \A i, j \in 1..n : i <= j => c[i] <= c[j]
      /\ \A i \in 1..m : r[i] = c[n - m + i]
      /\ \A j \in 1..n : c[n] - c[j] < RestartWindow <=> j > n - m
  BY DEF BudgetIInv, FeedBudget, WindowRemembered, CrashesInOrder
<1>3. c2 = Append(c, now) /\ r2 = Append(Recent(r), now)
  BY DEF HandleCrash, BudgetIInv
<1>4. /\ g \in 0..m
      /\ Recent(r) \in Seq(Nat) /\ Len(Recent(r)) = m - g
      /\ \A i \in 1..m - g : Recent(r)[i] = r[g + i]
      /\ \A i \in 1..m : now - r[i] < RestartWindow <=> i > g
  BY RecentIsTail
<1>5. RestartWindow \in Nat \ {0}
  BY SupervisorAssumption
<1> HIDE DEF c, r, n, m, g
<1>6. /\ c2 \in Seq(Nat) /\ Len(c2) = n + 1
      /\ \A i \in 1..n : c2[i] = c[i]
      /\ c2[n + 1] = now
  BY <1>1, <1>3 DEF n
<1>7. /\ r2 \in Seq(Nat) /\ Len(r2) = m - g + 1
      /\ \A i \in 1..m - g : r2[i] = r[g + i]
      /\ r2[m - g + 1] = now
  <2>1. m - g \in Nat
    BY <1>1, <1>4
  <2> QED
    <3> DEFINE q == Recent(r)
    <3>1. /\ r2 \in Seq(Nat) /\ Len(r2) = Len(q) + 1
          /\ \A i \in 1..Len(q) : r2[i] = q[i]
          /\ r2[Len(q) + 1] = now
      BY <1>1, <1>3, <1>4, Appended
    <3> HIDE DEF q, r2
    <3> QED
      BY <1>4, <2>1, <3>1 DEF q
<1> HIDE DEF c2, r2
<1>8. /\ \A i \in 1..n + 1 : c2[i] <= now
      /\ \A i, j \in 1..n + 1 : i <= j => c2[i] <= c2[j]
  <2>1. ASSUME NEW i \in 1..n + 1
        PROVE  c2[i] <= now /\ c2[i] \in Nat
    <3>1. i \in 1..n \/ i = n + 1
      BY <1>1
    <3> QED
      BY <1>1, <1>2, <1>6, <3>1
  <2>2. ASSUME NEW i \in 1..n + 1, NEW j \in 1..n + 1, i <= j
        PROVE  c2[i] <= c2[j]
    <3>1. j = n + 1 \/ (i \in 1..n /\ j \in 1..n)
      BY <1>1, <2>2
    <3> QED
      BY <1>2, <1>6, <2>1, <2>2, <3>1
  <2> QED
    BY <2>1, <2>2
<1>9. ASSUME NEW i \in 1..m - g + 1
      PROVE  r2[i] = c2[n - m + g + i]
  <2>1. CASE i = m - g + 1
    BY <1>1, <1>4, <1>6, <1>7, <2>1
  <2>2. CASE i \in 1..m - g
    <3>1. g + i \in 1..m /\ n - m + g + i \in 1..n /\ n - m + (g + i) = n - m + g + i
      BY <1>1, <1>4, <2>2
    <3> QED
      BY <1>2, <1>6, <1>7, <2>2, <3>1
  <2> QED
    BY <1>1, <1>4, <2>1, <2>2
<1>10. ASSUME NEW j \in 1..n + 1
       PROVE  now - c2[j] < RestartWindow <=> j > n - m + g
  <2>1. CASE j = n + 1
    BY <1>1, <1>4, <1>5, <1>6, <2>1
  <2>2. CASE j \in 1..n /\ j > n - m
    <3>1. j - (n - m) \in 1..m /\ n - m + (j - (n - m)) = j
      BY <1>1, <2>2
    <3>2. now - c2[j] < RestartWindow <=> j - (n - m) > g
      BY <1>2, <1>4, <1>6, <2>2, <3>1
    <3> QED
      BY <1>1, <1>4, <2>2, <3>2
  <2>3. CASE j \in 1..n /\ ~ j > n - m
    <3>a. n \in 1..n /\ j \in 1..n /\ n \in Nat
      BY <1>1, <2>3
    <3>b. c[n] <= now /\ c2[j] = c[j]
      BY <1>2, <1>6, <3>a
    <3>c. ~ c[n] - c[j] < RestartWindow
      BY <1>2, <2>3, <3>a
    <3>1. ~ c[n] - c[j] < RestartWindow /\ c[n] <= now /\ c2[j] = c[j]
      BY <3>b, <3>c
    <3>2. c[n] \in Nat /\ c[j] \in Nat
      BY <1>1, <2>3
    <3>3. ~ now - c[j] < RestartWindow
      BY <1>1, <1>5, <3>1, <3>2, OlderStill
    <3> QED
      BY <1>1, <1>4, <2>3, <3>1, <3>3
  <2> QED
    BY <1>1, <2>1, <2>2, <2>3
<1>11. /\ m - g + 1 <= n + 1 /\ m - g + 1 <= m + 1
       /\ (n + 1) - (m - g + 1) = n - m + g
  BY <1>1, <1>4
<1>12. CrashesInOrder(f)'
  BY <1>6, <1>8 DEF CrashesInOrder, c2
<1>13. WindowRemembered(f)'
  BY <1>6, <1>7, <1>9, <1>10, <1>11 DEF WindowRemembered, c2, r2
<1> QED
  BY <1>6, <1>7, <1>11, <1>12, <1>13 DEF c, r, c2, r2, n, m

(* A feed whose crashes a step leaves alone keeps its budget.              *)
LEMMA BudgetFrame ==
  ASSUME BudgetIInv, NEW f \in Feed, now' \in Nat, now <= now',
         crashes'[f] = crashes[f], restartTimes'[f] = restartTimes[f],
         restartCount'[f] = restartCount[f],
         feedState'[f] = "PERMANENTLY_FAILED" <=> feedState[f] = "PERMANENTLY_FAILED",
         feedState'[f] = "PERMANENTLY_FAILED" => loop'[f] \in DoneLoops
  PROVE  FeedBudget(f)'
<1>1. FeedBudget(f) /\ now \in Nat /\ crashes[f] \in Seq(Nat)
  BY DEF BudgetIInv
<1>2. CrashesInOrder(f)'
  <2>1. \A i \in 1..Len(crashes[f]) : crashes[f][i] \in Nat
    BY <1>1
  <2> QED
    BY <1>1, <2>1 DEF FeedBudget, CrashesInOrder
<1>3. WindowRemembered(f)'
  BY <1>1 DEF FeedBudget, WindowRemembered
<1>4. \A i : InWindow(f, i)' = InWindow(f, i)
  BY DEF InWindow
<1> QED
  BY <1>1, <1>2, <1>3, <1>4 DEF FeedBudget

LEMMA CrashBudget ==
  ASSUME BudgetIInv, NEW f \in Feed, HandleCrash(f), UNCHANGED now,
         loop[f] \in {"running", "closing"}
  PROVE  BudgetIInv'
<1>1. /\ restartTimes'[f] \in Seq(Nat) /\ crashes'[f] \in Seq(Nat)
      /\ Len(crashes'[f]) = Len(crashes[f]) + 1
      /\ \A i \in 1..Len(crashes[f]) : crashes'[f][i] = crashes[f][i]
      /\ Len(restartTimes'[f]) <= Len(restartTimes[f]) + 1
      /\ CrashesInOrder(f)' /\ WindowRemembered(f)'
  BY CrashRemembered
<1>2. /\ Len(crashes[f]) \in Nat /\ Len(restartTimes[f]) \in Nat
      /\ Len(restartTimes'[f]) \in Nat
      /\ MaxRestarts \in Nat /\ restartCount[f] \in Nat
  BY <1>1, SupervisorAssumption DEF BudgetIInv
<1>3. Len(restartTimes[f]) <= MaxRestarts
  <2>1. /\ feedState[f] = "PERMANENTLY_FAILED" => loop[f] \in DoneLoops
        /\ feedState[f] = "PERMANENTLY_FAILED" <=> Len(restartTimes[f]) > MaxRestarts
    BY DEF BudgetIInv, FeedBudget
  <2> QED
    BY <1>2, <2>1 DEF DoneLoops
<1>4. /\ loop' \in [Feed -> Loops] /\ feedState' \in [Feed -> FeedStates]
      /\ restartCount' \in [Feed -> Nat]
      /\ restartCount'[f] <= restartCount[f] + 1
      /\ feedState'[f] = "PERMANENTLY_FAILED" <=> Len(restartTimes'[f]) > MaxRestarts
      /\ feedState'[f] = "PERMANENTLY_FAILED" => loop'[f] \in DoneLoops
      /\ \A g \in Feed \ {f} : /\ loop'[g] = loop[g] /\ feedState'[g] = feedState[g]
                               /\ restartCount'[g] = restartCount[g]
  <2>1. CASE GiveUp(f)
    BY <1>2, <2>1 DEF GiveUp, OverBudget, BudgetIInv, Loops, DoneLoops, FeedStates
  <2>2. CASE BackOff(f)
    BY <1>2, <2>2 DEF BackOff, OverBudget, BudgetIInv, Loops, DoneLoops, FeedStates
  <2> QED
    BY <2>1, <2>2 DEF HandleCrash
<1>5. /\ restartTimes' \in [Feed -> Seq(Nat)] /\ crashes' \in [Feed -> Seq(Nat)]
      /\ \A g \in Feed \ {f} : /\ restartTimes'[g] = restartTimes[g]
                               /\ crashes'[g] = crashes[g]
  BY <1>1 DEF HandleCrash, BudgetIInv
<1>6. ASSUME NEW i \in 1..(Len(crashes'[f]) - 1)
      PROVE  InWindow(f, i)' <= MaxRestarts
  <2>1. i \in 1..Len(crashes[f])
    BY <1>1, <1>2
  <2>2. InWindow(f, i)' = InWindow(f, i)
    <3>1. ASSUME NEW j \in 1..i PROVE crashes'[f][j] = crashes[f][j]
      <4>1. j \in 1..Len(crashes[f])
        BY <1>2, <2>1
      <4> QED
        BY <1>1, <4>1
    <3> QED
      BY <1>1, <2>1, <3>1 DEF InWindow
  <2>3. CASE i = Len(crashes[f])
    BY <1>2, <1>3, <2>1, <2>2, <2>3, WindowCounted
  <2>4. CASE i # Len(crashes[f])
    <3>1. i \in 1..(Len(crashes[f]) - 1)
      BY <1>2, <2>1, <2>4
    <3> QED
      BY <2>2, <3>1 DEF BudgetIInv, FeedBudget
  <2> QED
    BY <2>3, <2>4
<1>7. FeedBudget(f)'
  <2>1. Len(restartTimes'[f]) <= MaxRestarts + 1
    BY ONLY <1>1, <1>2, <1>3
  <2>2. restartCount'[f] <= Len(crashes'[f])
    <3>1. restartCount[f] <= Len(crashes[f]) /\ restartCount'[f] \in Nat
      BY <1>4 DEF BudgetIInv, FeedBudget
    <3> QED
      BY ONLY <1>1, <1>2, <1>4, <3>1
  <2> QED
    BY ONLY <1>1, <1>4, <1>6, <2>1, <2>2 DEF FeedBudget
<1>8. ASSUME NEW g \in Feed \ {f} PROVE FeedBudget(g)'
  <2>1. feedState[g] = "PERMANENTLY_FAILED" => loop[g] \in DoneLoops
    BY DEF BudgetIInv, FeedBudget
  <2>2. now' \in Nat /\ now <= now'
    BY DEF BudgetIInv
  <2> QED
    BY <1>4, <1>5, <2>1, <2>2, BudgetFrame
<1> QED
  BY <1>4, <1>5, <1>7, <1>8 DEF BudgetIInv

LEMMA NextBudget == BudgetIInv /\ [SupervisorNext]_supervisorVars => BudgetIInv'
<1> SUFFICES ASSUME BudgetIInv, [SupervisorNext]_supervisorVars PROVE BudgetIInv'
  OBVIOUS
<1> USE DEF entryVars, runVars
<1>0. \A g \in Feed : feedState[g] = "PERMANENTLY_FAILED" => loop[g] \in DoneLoops
  BY DEF BudgetIInv, FeedBudget
(* Steps that touch no crash, of which there are many.                     *)
<1>1. ASSUME UNCHANGED <<restartCount, restartTimes, crashes>>,
             now' \in Nat, now <= now',
             loop' \in [Feed -> Loops], feedState' \in [Feed -> FeedStates],
             \A g \in Feed :
               /\ feedState'[g] = "PERMANENTLY_FAILED"
                    <=> feedState[g] = "PERMANENTLY_FAILED"
               /\ feedState'[g] = "PERMANENTLY_FAILED" => loop'[g] \in DoneLoops
      PROVE  BudgetIInv'
  <2>1. \A g \in Feed : FeedBudget(g)'
    BY <1>1, BudgetFrame
  <2> QED
    BY <1>1, <2>1 DEF BudgetIInv
<1>2. CASE Tick
  BY <1>0, <1>1, <1>2 DEF Tick, BudgetIInv
<1>3. ASSUME NEW f \in Feed, FeedReturns(f) \/ FeedFails(f) \/ BackoffEnds(f) \/ CancelFeed(f)
      PROVE  BudgetIInv'
  <2> USE <1>0, <1>1 DEF BudgetIInv, Loops, DoneLoops, FeedStates
  <2>1. CASE FeedReturns(f)
    BY <2>1 DEF FeedReturns
  <2>2. CASE FeedFails(f)
    BY <2>2 DEF FeedFails
  <2>3. CASE BackoffEnds(f)
    BY <2>3 DEF BackoffEnds
  <2>4. CASE CancelFeed(f)
    BY <2>4 DEF CancelFeed
  <2> QED
    BY <1>3, <2>1, <2>2, <2>3, <2>4
<1>4. ASSUME NEW f \in Feed, FeedCrashes(f) PROVE BudgetIInv'
  BY <1>4, CrashBudget DEF FeedCrashes
<1>5. ASSUME NEW f \in Feed, SwallowCancel(f) PROVE BudgetIInv'
  BY <1>5, CrashBudget DEF SwallowCancel
<1>6. CASE \/ SinkEnds \/ RequestShutdown \/ BeginShutdown \/ CancelSink \/ Return
           \/ UNCHANGED supervisorVars
  BY <1>0, <1>1, <1>6
  DEF SinkEnds, RequestShutdown, BeginShutdown, CancelSink, Return, supervisorVars, BudgetIInv
<1> QED
  BY <1>2, <1>3, <1>4, <1>5, <1>6 DEF SupervisorNext, FeedStep

(* The budget is the one of a rolling window over the feed's whole past:   *)
(* a feed is given up on exactly by the crash that is one too many, for    *)
(* any number of feeds, any window and budget, and however long it runs.   *)
THEOREM RestartBudgetKept == SupervisorSpec => []BudgetKept
<1>1. BudgetIInv => BudgetKept
  <2> SUFFICES ASSUME BudgetIInv, NEW f \in Feed
               PROVE  /\ \A i \in 1..(Len(crashes[f]) - 1) : InWindow(f, i) <= MaxRestarts
                      /\ feedState[f] = "PERMANENTLY_FAILED"
                           <=> /\ Len(crashes[f]) > 0
                               /\ InWindow(f, Len(crashes[f])) > MaxRestarts
    BY DEF BudgetKept
  <2>1. /\ Len(crashes[f]) \in Nat /\ Len(restartTimes[f]) \in Nat
        /\ Len(restartTimes[f]) <= Len(crashes[f])
        /\ MaxRestarts \in Nat
    BY SupervisorAssumption DEF BudgetIInv, FeedBudget, WindowRemembered
  <2> QED
    BY <2>1, WindowCounted DEF BudgetIInv, FeedBudget
<1> QED
  BY InitBudget, NextBudget, <1>1, PTL DEF SupervisorSpec

-----------------------------------------------------------------------------
(* Types                                                                   *)

RestTyped ==
  /\ now \in 0..MaxTime
  /\ sink \in {"running", "ended", "cancelled"}
  /\ shutdown \in BOOLEAN
  /\ runner \in {"waiting", "gathering", "returned"}
  /\ toCancel \subseteq Feed \cup {SinkTask}
  /\ swallowed \subseteq Feed

LEMMA InitTyped == SupervisorInit => RestTyped
<1> SUFFICES ASSUME SupervisorInit PROVE RestTyped
  OBVIOUS
<1>1. now \in 0..MaxTime
  BY SupervisorAssumption DEF SupervisorInit
<1> QED
  BY <1>1 DEF SupervisorInit, RestTyped

LEMMA NextTyped == RestTyped /\ [SupervisorNext]_supervisorVars => RestTyped'
<1> SUFFICES ASSUME RestTyped, [SupervisorNext]_supervisorVars PROVE RestTyped'
  OBVIOUS
<1> USE SupervisorAssumption DEF RestTyped, entryVars, runVars
<1>1. CASE Tick
  BY <1>1 DEF Tick
<1>2. ASSUME NEW f \in Feed, FeedStep(f) PROVE RestTyped'
  BY <1>2 DEF FeedStep, FeedReturns, FeedFails, FeedCrashes, BackoffEnds
<1>3. ASSUME NEW f \in Feed, CancelFeed(f) \/ SwallowCancel(f) PROVE RestTyped'
  BY <1>3 DEF CancelFeed, SwallowCancel
<1>4. CASE SinkEnds \/ RequestShutdown \/ BeginShutdown \/ CancelSink \/ Return
  BY <1>4 DEF SinkEnds, RequestShutdown, BeginShutdown, CancelSink, Return
<1>5. CASE UNCHANGED supervisorVars
  BY <1>5 DEF supervisorVars
<1> QED
  BY <1>1, <1>2, <1>3, <1>4, <1>5 DEF SupervisorNext

(* The variables keep their types; in particular restart_times never grows *)
(* beyond one crash more than the budget.                                  *)
THEOREM SupervisorTypeCorrect == SupervisorSpec => []SupervisorTypeOK
<1>1. BudgetIInv /\ RestTyped => SupervisorTypeOK
  <2> SUFFICES ASSUME BudgetIInv, RestTyped PROVE SupervisorTypeOK
    OBVIOUS
  <2>1. ASSUME NEW f \in Feed
        PROVE  crashes[f] \in Seq(0..now) /\ restartTimes[f] \in Seq(0..now)
    <3>1. /\ crashes[f] \in Seq(Nat) /\ restartTimes[f] \in Seq(Nat)
          /\ Len(crashes[f]) \in Nat /\ Len(restartTimes[f]) \in Nat
      BY DEF BudgetIInv
    <3>2. CrashesInOrder(f) /\ WindowRemembered(f)
      BY DEF BudgetIInv, FeedBudget
    <3>3. now \in Nat /\ \A i \in 1..Len(crashes[f]) : crashes[f][i] \in 0..now
      BY <3>1, <3>2 DEF CrashesInOrder, BudgetIInv
    <3>4. ASSUME NEW i \in 1..Len(restartTimes[f])
          PROVE  restartTimes[f][i] \in 0..now
      <4> DEFINE n == Len(crashes[f])
                 m == Len(restartTimes[f])
      <4>1. m <= n /\ restartTimes[f][i] = crashes[f][n - m + i]
        BY <3>2 DEF WindowRemembered
      <4>2. n \in Nat /\ m \in Nat
        BY <3>1
      <4> HIDE DEF n, m
      <4>3. n - m + i \in 1..n
        BY <4>1, <4>2 DEF m
      <4> QED
        BY <3>3, <4>1, <4>3 DEF n
    <3> QED
      BY <3>1, <3>3, <3>4, Retyped
  <2> QED
    BY <2>1 DEF SupervisorTypeOK, BudgetIInv, RestTyped, FeedBudget
<1> QED
  BY <1>1, InitBudget, NextBudget, InitTyped, NextTyped, PTL DEF SupervisorSpec

=============================================================================
