----------------------------- MODULE Dashboard ------------------------------
(***************************************************************************)
(* The script of docs/index.html: a simulated fault is counted and shown   *)
(* at once and healed by a timer of its own some hundred milliseconds      *)
(* later, while the simulation is paused and resumed, more faults are      *)
(* injected and the feed is cleared. The browser runs one callback at a    *)
(* time; timers fire in any order, since their delays are random.          *)
(***************************************************************************)
EXTENDS Naturals, Sequences, FiniteSets

CONSTANTS
  FeedMax, LogMax, ChartMax,  (* How much is kept on display: 80, 6, 8.     *)
  MaxFaults, MaxStarts        (* Bounds: faults, resumptions.               *)

ASSUME MaxAssumption ==
  {FeedMax, LogMax, ChartMax, MaxFaults, MaxStarts} \subseteq Nat

VARIABLES
  simRunning, simInterval,
  intervals,     (* The intervals of simTick that are not cleared.          *)
  stats,         (* healed, detected and z3total; z3pass is the same.       *)
  mttrHistory,   (* Here: the faults the times are of.                      *)
  timers,        (* The faults whose setTimeout has not fired.              *)
  metrics,       (* What is on display: the numbers, ...                    *)
  feed,          (* ... the feed, newest first,                             *)
  patch_log,     (* ... the patches, newest first,                          *)
  bar_chart,     (* ... and the bars, by fault.                             *)
  faults,        (* How many faults there were.                             *)
  since          (* History: `faults` when the feed was cleared last.       *)

display == <<metrics, feed, patch_log, bar_chart>>
vars    == <<simRunning, simInterval, intervals, stats, mttrHistory, timers,
             display, faults, since>>

Faults  == 1 .. MaxFaults
Entries == [type : {"OK"}, of : {0}] \cup [type : {"fault", "HEALED"}, of : Faults]
Numbers == [healed : Nat, detected : Nat, z3total : Nat]

Cut(s, max) == SubSeq(s, 1, IF Len(s) < max THEN Len(s) ELSE max)

(* While the simulation runs one interval ticks, the one that the button   *)
(* will clear, and while it is paused none does, however often it was      *)
(* resumed.                                                                *)
TypeOK ==
  /\ simRunning \in BOOLEAN /\ simInterval \in 0 .. MaxStarts
  /\ intervals = IF simRunning THEN {simInterval} ELSE {}
  /\ stats \in Numbers /\ metrics \in Numbers
  /\ faults \in 0 .. MaxFaults /\ since \in 0 .. faults
  /\ timers \subseteq 1 .. faults
  /\ mttrHistory \in Seq(Faults) /\ patch_log \in Seq(Faults) /\ bar_chart \in Seq(Faults)
  /\ feed \in Seq(Entries) /\ Len(feed) <= FeedMax

Init ==
  /\ simRunning = FALSE /\ simInterval = 0 /\ intervals = {}
  /\ stats = [healed |-> 0, detected |-> 0, z3total |-> 0] /\ metrics = stats
  /\ mttrHistory = << >> /\ timers = {}
  /\ feed = << >> /\ patch_log = << >> /\ bar_chart = << >>
  /\ faults = 0 /\ since = 0

sim == <<simRunning, simInterval, intervals>>

addEvent(type, n) == feed' = Cut(<<[type |-> type, of |-> n]>> \o feed, FeedMax)
addPatch(n)       == patch_log' = Cut(<<n>> \o patch_log, LogMax)

(* The last of the history.                                                *)
updateChart ==
  LET len == Len(mttrHistory') IN
  bar_chart' = SubSeq(mttrHistory', IF len < ChartMax THEN 1 ELSE len - ChartMax + 1, len)

-----------------------------------------------------------------------------

(* A fault is shown before the four checks of its patch are counted.       *)
Fault ==
  /\ faults < MaxFaults /\ faults' = faults + 1
  /\ LET counted == [stats EXCEPT !.detected = @ + 1] IN
       /\ metrics' = counted
       /\ stats' = [counted EXCEPT !.z3total = @ + 4]
  /\ addEvent("fault", faults')
  /\ timers' = timers \cup {faults'}
  /\ UNCHANGED <<mttrHistory, patch_log, bar_chart, since>>

(* simTick: a proper operation, or a fault.                                *)
Tick ==
  \/ Fault
  \/ /\ addEvent("OK", 0)
     /\ UNCHANGED <<stats, mttrHistory, timers, metrics, patch_log, bar_chart, faults, since>>

simTick == intervals # {} /\ Tick /\ UNCHANGED sim

injectFault == Fault /\ UNCHANGED sim

(* Mutated: the interval goes on.                                          *)
toggleSimKept ==
  /\ simRunning' = ~simRunning
  /\ \/ /\ ~simRunning /\ simInterval < MaxStarts
        /\ simInterval' = simInterval + 1 /\ intervals' = intervals \cup {simInterval'}
        /\ Tick
     \/ /\ simRunning
        /\ UNCHANGED <<simInterval, intervals, stats, mttrHistory, timers, display, faults, since>>

(* The first tick comes with the button.                                   *)
toggleSim ==
  /\ simRunning' = ~simRunning
  /\ \/ /\ ~simRunning /\ simInterval < MaxStarts
        /\ simInterval' = simInterval + 1 /\ intervals' = intervals \cup {simInterval'}
        /\ Tick
     \/ /\ simRunning /\ intervals' = intervals \ {simInterval}
        /\ UNCHANGED <<simInterval, stats, mttrHistory, timers, display, faults, since>>

(* Mutated: the numbers are not shown again.                               *)
HealHidden(n) ==
  /\ n \in timers /\ timers' = timers \ {n}
  /\ stats' = [stats EXCEPT !.healed = @ + 1]
  /\ mttrHistory' = Append(mttrHistory, n)
  /\ addEvent("HEALED", n) /\ addPatch(n) /\ updateChart
  /\ UNCHANGED <<sim, metrics, faults, since>>

(* The timer of a fault, whoever has made it.                              *)
Heal(n) ==
  /\ n \in timers /\ timers' = timers \ {n}
  /\ stats' = [stats EXCEPT !.healed = @ + 1]
  /\ mttrHistory' = Append(mttrHistory, n)
  /\ addEvent("HEALED", n) /\ addPatch(n) /\ metrics' = stats' /\ updateChart
  /\ UNCHANGED <<sim, faults, since>>

(* Mutated: the faults that are being healed are still counted.            *)
clearFeedPending ==
  /\ stats' = [healed |-> 0, detected |-> Cardinality(timers), z3total |-> 0]
  /\ metrics' = stats'
  /\ mttrHistory' = << >> /\ feed' = << >> /\ patch_log' = << >> /\ bar_chart' = << >>
  /\ since' = faults
  /\ UNCHANGED <<sim, timers, faults>>

clearFeed ==
  /\ stats' = [healed |-> 0, detected |-> 0, z3total |-> 0] /\ metrics' = stats'
  /\ mttrHistory' = << >> /\ feed' = << >> /\ patch_log' = << >> /\ bar_chart' = << >>
  /\ since' = faults
  /\ UNCHANGED <<sim, timers, faults>>

Next ==
  \/ simTick \/ toggleSim \/ injectFault \/ clearFeed
  \/ \E n \in Faults : Heal(n)

Spec == Init /\ [][Next]_vars

-----------------------------------------------------------------------------
(* Properties.                                                             *)

(* The faults whose timers were pending when the feed was cleared and that *)
(* were counted as healed since.                                           *)
Stale == {n \in 1 .. since : \E j \in DOMAIN mttrHistory : mttrHistory[j] = n}
Fresh == {n \in timers : n > since}

(* Line 577 shows detected - healed as the number of pending heals. It is  *)
(* that, in any order of faults and timers, less one for each heal that    *)
(* was pending at the last clear and has fired since: such a heal is       *)
(* counted without its fault, and the number may even be negative.         *)
PendingShown == stats.detected + Cardinality(Stale) = stats.healed + Cardinality(Fresh)

(* What is on display between two callbacks tells the same story: the      *)
(* numbers are those of stats, but for the checks of a fault that is still *)
(* being healed; each bar is a heal of the history, the newest on the      *)
(* right; the patches are the newest of these, the newest first.           *)
DisplayAgrees ==
  LET len == Len(mttrHistory) IN
  /\ metrics.healed = stats.healed /\ metrics.detected = stats.detected
  /\ metrics.z3total # stats.z3total =>
       metrics.z3total + 4 = stats.z3total /\ Fresh # {}
  /\ len = stats.healed
  /\ Len(patch_log) = (IF len < LogMax THEN len ELSE LogMax)
  /\ \A j \in DOMAIN patch_log : patch_log[j] = mttrHistory[len + 1 - j]
  /\ Len(bar_chart) = (IF len < ChartMax THEN len ELSE ChartMax)
  /\ \A j \in DOMAIN bar_chart : bar_chart[j] = mttrHistory[len - Len(bar_chart) + j]
=============================================================================
