-------------------------- MODULE DashboardProofs --------------------------
(***************************************************************************)
(* The counters and the display of the dashboard agree for any number of   *)
(* faults, resumptions and clears, and any sizes of feed, log and chart.   *)
(* A fault is pending or in the history, never both, so that each heal     *)
(* moves one fault from the one to the other.                              *)
(***************************************************************************)
EXTENDS Dashboard, FiniteSetTheorems, TLAPS

(* No fault is healed twice, and none before it happened.                  *)
Once == \A j \in DOMAIN mttrHistory : mttrHistory[j] \notin timers

HistoryKnown == \A j \in DOMAIN mttrHistory : mttrHistory[j] <= faults

Inv == TypeOK /\ HistoryKnown /\ Once /\ PendingShown /\ DisplayAgrees

-----------------------------------------------------------------------------

LEMMA Maxima ==
  /\ FeedMax \in Nat /\ LogMax \in Nat /\ ChartMax \in Nat
  /\ MaxFaults \in Nat /\ MaxStarts \in Nat
BY MaxAssumption

(* t is s with e in front, cut at max.                                     *)
IsFront(t, s, e, max) ==
  /\ Len(t) = IF Len(s) + 1 < max THEN Len(s) + 1 ELSE max
  /\ \A j \in 1 .. Len(t) : t[j] = IF j = 1 THEN e ELSE s[j - 1]

LEMMA CutFront ==
  ASSUME NEW S, NEW s \in Seq(S), NEW e \in S, NEW max \in Nat
  PROVE  LET t == Cut(<<e>> \o s, max) IN t \in Seq(S) /\ IsFront(t, s, e, max)
<1> DEFINE u == <<e>> \o s
           m == IF Len(s) + 1 < max THEN Len(s) + 1 ELSE max
<1>1. /\ u \in Seq(S) /\ Len(u) = Len(s) + 1
      /\ \A j \in 1 .. Len(u) : u[j] = IF j = 1 THEN e ELSE s[j - 1]
  OBVIOUS
<1>2. m \in 0 .. Len(u) /\ Cut(u, max) = SubSeq(u, 1, m)
  BY <1>1 DEF Cut
<1> HIDE DEF u, m
<1>3. /\ SubSeq(u, 1, m) \in Seq(S) /\ Len(SubSeq(u, 1, m)) = m
      /\ \A j \in 1 .. m : SubSeq(u, 1, m)[j] = u[j]
  BY <1>1, <1>2
<1> DEFINE t == Cut(u, max)
<1>4. t \in Seq(S) /\ Len(t) = m /\ \A j \in 1 .. m : t[j] = u[j]
  BY <1>2, <1>3
<1>5. m <= Len(u)
  BY <1>1, <1>2
<1>6. \A j \in 1 .. Len(t) : t[j] = IF j = 1 THEN e ELSE s[j - 1]
  BY <1>1, <1>2, <1>4, <1>5
<1> HIDE DEF t
<1> QED
  BY <1>4, <1>6 DEF t, u, m, IsFront

(* The feed stays in its bound when an entry is put in front.              *)
LEMMA FeedKept ==
  ASSUME NEW e \in Entries, NEW q \in Seq(Entries)
  PROVE  LET t == Cut(<<e>> \o q, FeedMax) IN t \in Seq(Entries) /\ Len(t) <= FeedMax
<1> DEFINE t == Cut(<<e>> \o q, FeedMax)
<1>1. Len(q) \in Nat /\ FeedMax \in Nat
  BY Maxima
<1>2. t \in Seq(Entries) /\ IsFront(t, q, e, FeedMax)
  BY <1>1, CutFront
<1> HIDE DEF t
<1>3. Len(t) = IF Len(q) + 1 < FeedMax THEN Len(q) + 1 ELSE FeedMax
  BY <1>2 DEF IsFront
<1>4. Len(t) <= FeedMax
  BY <1>1, <1>3
<1> QED
  BY <1>2, <1>4 DEF t

(* The last of a sequence.                                                 *)
LEMMA LastOf ==
  ASSUME NEW S, NEW s \in Seq(S), NEW max \in Nat
  PROVE  LET len == Len(s)
             t   == SubSeq(s, IF len < max THEN 1 ELSE len - max + 1, len)
         IN  /\ t \in Seq(S) /\ Len(t) = IF len < max THEN len ELSE max
             /\ \A j \in 1 .. Len(t) : t[j] = s[len - Len(t) + j]
<1> DEFINE len == Len(s)
           m   == IF len < max THEN 1 ELSE len - max + 1
<1>1. len \in Nat /\ m \in 1 .. len + 1
  OBVIOUS
<1> HIDE DEF m
<1>2. /\ SubSeq(s, m, len) \in Seq(S) /\ Len(SubSeq(s, m, len)) = len - m + 1
      /\ \A j \in 1 .. len - m + 1 : SubSeq(s, m, len)[j] = s[m + j - 1]
  BY <1>1
<1> DEFINE t == SubSeq(s, m, len)
<1>3. t \in Seq(S) /\ Len(t) = len - m + 1 /\ \A j \in 1 .. Len(t) : t[j] = s[m + j - 1]
  BY <1>2
<1>4. m = len - Len(t) + 1
  BY <1>1, <1>3
<1>5. Len(t) = IF len < max THEN len ELSE max
  <2>1. len - m + 1 = IF len < max THEN len ELSE max
    BY <1>1 DEF m
  <2> QED
    BY <1>3, <2>1
<1>6. \A j \in 1 .. Len(t) : t[j] = s[len - Len(t) + j]
  <2> SUFFICES ASSUME NEW j \in 1 .. Len(t) PROVE t[j] = s[len - Len(t) + j]
    OBVIOUS
  <2>1. m + j - 1 = len - Len(t) + j
    BY <1>1, <1>3, <1>4
  <2> QED
    BY <2>1, <1>3
<1> HIDE DEF t
<1> QED
  BY <1>3, <1>5, <1>6 DEF t, m

-----------------------------------------------------------------------------
(* The sets that are counted.                                              *)
LEMMA Finite ==
  ASSUME TypeOK
  PROVE  /\ IsFiniteSet(timers) /\ IsFiniteSet(Fresh) /\ IsFiniteSet(Stale)
         /\ Cardinality(Fresh) \in Nat /\ Cardinality(Stale) \in Nat
<1>1. faults \in Nat /\ since \in Nat
  BY Maxima DEF TypeOK
<1>2. IsFiniteSet(1 .. faults) /\ IsFiniteSet(1 .. since)
  BY <1>1, FS_Interval
<1>3. timers \in SUBSET (1 .. faults) /\ Fresh \in SUBSET (1 .. faults)
      /\ Stale \in SUBSET (1 .. since)
  BY DEF TypeOK, Fresh, Stale
<1>4. IsFiniteSet(timers) /\ IsFiniteSet(Fresh) /\ IsFiniteSet(Stale)
  BY <1>2, <1>3, FS_Subset
<1> QED
  BY <1>4, FS_CardinalityType

LEMMA InitInv == Init => Inv
<1> SUFFICES ASSUME Init PROVE Inv
  OBVIOUS
<1> USE Maxima DEF Init
<1>1. TypeOK
  <2>1. simRunning \in BOOLEAN /\ intervals = IF simRunning THEN {simInterval} ELSE {}
    OBVIOUS
  <2>2. stats \in Numbers /\ metrics \in Numbers
    BY DEF Numbers
  <2>3. /\ simInterval \in 0 .. MaxStarts /\ faults \in 0 .. MaxFaults /\ since \in 0 .. faults
        /\ timers \subseteq 1 .. faults
    OBVIOUS
  <2>4. /\ mttrHistory \in Seq(Faults) /\ patch_log \in Seq(Faults) /\ bar_chart \in Seq(Faults)
        /\ feed \in Seq(Entries) /\ Len(feed) <= FeedMax
    OBVIOUS
  <2> QED
    BY <2>1, <2>2, <2>3, <2>4 DEF TypeOK
<1>2. HistoryKnown /\ Once /\ DisplayAgrees
  BY DEF HistoryKnown, Once, DisplayAgrees
<1>3. Stale = {} /\ Fresh = {} /\ Cardinality({}) = 0
  BY FS_EmptySet DEF Stale, Fresh
<1> QED
  BY <1>1, <1>2, <1>3 DEF Inv, PendingShown

(* A fault, whoever makes it.                                              *)
LEMMA FaultInv ==
  ASSUME Inv, Fault
  PROVE  /\ HistoryKnown' /\ Once' /\ PendingShown' /\ DisplayAgrees'
         /\ stats' \in Numbers /\ metrics' \in Numbers
         /\ faults' \in 0 .. MaxFaults /\ since' \in 0 .. faults' /\ timers' \subseteq 1 .. faults'
         /\ feed' \in Seq(Entries) /\ Len(feed') <= FeedMax
         /\ UNCHANGED <<mttrHistory, patch_log, bar_chart>>
<1> USE Maxima DEF Inv
<1>1. /\ faults \in Nat /\ faults' = faults + 1 /\ faults' \in Faults /\ since \in 0 .. faults
      /\ timers' = timers \cup {faults'} /\ timers \subseteq 1 .. faults /\ since' = since
      /\ UNCHANGED <<mttrHistory, patch_log, bar_chart>>
  BY DEF TypeOK, Fault, Faults
<1>2. stats \in [healed : Nat, detected : Nat, z3total : Nat]
  BY DEF TypeOK, Numbers
<1>3. /\ stats'.healed = stats.healed /\ stats'.detected = stats.detected + 1
      /\ stats'.z3total = stats.z3total + 4
      /\ metrics'.healed = stats.healed /\ metrics'.detected = stats.detected + 1
      /\ metrics'.z3total = stats.z3total
      /\ stats' \in Numbers /\ metrics' \in Numbers
      /\ stats.healed \in Nat /\ stats.detected \in Nat /\ stats.z3total \in Nat
  <2> DEFINE counted == [stats EXCEPT !.detected = @ + 1]
  <2>1. metrics' = counted /\ stats' = [counted EXCEPT !.z3total = @ + 4]
    BY DEF Fault
  <2>2. /\ counted \in [healed : Nat, detected : Nat, z3total : Nat]
        /\ counted.healed = stats.healed /\ counted.detected = stats.detected + 1
        /\ counted.z3total = stats.z3total
    BY <1>2
  <2> HIDE DEF Inv, counted
  <2>3. /\ stats' \in [healed : Nat, detected : Nat, z3total : Nat]
        /\ stats'.healed = counted.healed /\ stats'.detected = counted.detected
        /\ stats'.z3total = counted.z3total + 4
    BY <2>1, <2>2
  <2> QED
    BY <1>2, <2>1, <2>2, <2>3 DEF Numbers
<1>4. feed' \in Seq(Entries) /\ Len(feed') <= FeedMax
  <2>1. [type |-> "fault", of |-> faults'] \in Entries /\ feed \in Seq(Entries)
    BY <1>1 DEF Entries, TypeOK
  <2>2. feed' = Cut(<<[type |-> "fault", of |-> faults']>> \o feed, FeedMax)
    BY DEF Fault, addEvent
  <2> HIDE DEF Inv
  <2> QED
    BY <2>1, <2>2, FeedKept
<1>5. HistoryKnown' /\ Once'
  <2>1. \A j \in DOMAIN mttrHistory : mttrHistory[j] <= faults
    BY DEF HistoryKnown
  <2> QED
    BY <1>1, <2>1 DEF Once, HistoryKnown, TypeOK, Faults
<1>6. Stale' = Stale /\ Fresh' = Fresh \cup {faults'} /\ faults' \notin Fresh
  BY <1>1 DEF Stale, Fresh
<1>7. PendingShown'
  <2>1. Cardinality(Fresh') = Cardinality(Fresh) + 1
    BY <1>6, Finite, FS_AddElement
  <2> QED
    BY <1>3, <1>6, <2>1, Finite DEF PendingShown
<1>8. DisplayAgrees'
  BY <1>1, <1>3, <1>6 DEF DisplayAgrees
<1>9. faults' \in 0 .. MaxFaults /\ since' \in 0 .. faults' /\ timers' \subseteq 1 .. faults'
  BY <1>1 DEF Faults
<1> HIDE DEF Inv
<1> QED
  BY <1>1, <1>3, <1>4, <1>5, <1>7, <1>8, <1>9

-----------------------------------------------------------------------------
(* The two parts of the state: the button and its interval, and the rest.  *)
SimOK ==
  /\ simRunning \in BOOLEAN /\ simInterval \in 0 .. MaxStarts
  /\ intervals = IF simRunning THEN {simInterval} ELSE {}

RestOK ==
  /\ stats \in Numbers /\ metrics \in Numbers
  /\ faults \in 0 .. MaxFaults /\ since \in 0 .. faults
  /\ timers \subseteq 1 .. faults
  /\ mttrHistory \in Seq(Faults) /\ patch_log \in Seq(Faults) /\ bar_chart \in Seq(Faults)
  /\ feed \in Seq(Entries) /\ Len(feed) <= FeedMax

Counted == RestOK /\ HistoryKnown /\ Once /\ PendingShown /\ DisplayAgrees

LEMMA Parts ==
  /\ Inv <=> SimOK /\ Counted
  /\ Inv' <=> SimOK' /\ Counted'
<1>1. TypeOK <=> SimOK /\ RestOK
  BY DEF TypeOK, SimOK, RestOK
<1>2. TypeOK' <=> SimOK' /\ RestOK'
  BY DEF TypeOK, SimOK, RestOK
<1> QED
  BY <1>1, <1>2 DEF Inv, Counted

(* A tick: a fault, or an entry of the feed.                               *)
LEMMA TickInv ==
  ASSUME Inv, Tick
  PROVE  Counted'
<1> USE Maxima
<1>0. RestOK /\ HistoryKnown /\ Once /\ PendingShown /\ DisplayAgrees
  BY Parts DEF Counted
<1>1. CASE Fault
  <2>1. /\ HistoryKnown' /\ Once' /\ PendingShown' /\ DisplayAgrees'
        /\ stats' \in Numbers /\ metrics' \in Numbers
        /\ faults' \in 0 .. MaxFaults /\ since' \in 0 .. faults' /\ timers' \subseteq 1 .. faults'
        /\ feed' \in Seq(Entries) /\ Len(feed') <= FeedMax
        /\ UNCHANGED <<mttrHistory, patch_log, bar_chart>>
    BY <1>1, FaultInv
  <2>2. mttrHistory \in Seq(Faults) /\ patch_log \in Seq(Faults) /\ bar_chart \in Seq(Faults)
    BY <1>0 DEF RestOK
  <2>3. RestOK'
    BY <2>1, <2>2 DEF RestOK
  <2> QED
    BY <2>1, <2>3 DEF Counted
<1>2. CASE addEvent("OK", 0)
           /\ UNCHANGED <<stats, mttrHistory, timers, metrics, patch_log, bar_chart, faults, since>>
  <2>1. feed' \in Seq(Entries) /\ Len(feed') <= FeedMax
    <3>1. [type |-> "OK", of |-> 0] \in Entries /\ feed \in Seq(Entries)
      BY <1>0 DEF Entries, RestOK
    <3>2. feed' = Cut(<<[type |-> "OK", of |-> 0]>> \o feed, FeedMax)
      BY <1>2 DEF addEvent
    <3> QED
      BY <3>1, <3>2, FeedKept
  <2>2. RestOK'
    BY <1>0, <1>2, <2>1 DEF RestOK
  <2>3. Stale' = Stale /\ Fresh' = Fresh
    BY <1>2 DEF Stale, Fresh
  <2>4. HistoryKnown' /\ Once'
    BY <1>0, <1>2 DEF HistoryKnown, Once
  <2>5. PendingShown'
    BY <1>0, <1>2, <2>3 DEF PendingShown
  <2>6. DisplayAgrees'
    BY <1>0, <1>2, <2>3 DEF DisplayAgrees
  <2> QED
    BY <2>2, <2>4, <2>5, <2>6 DEF Counted
<1> QED
  BY <1>1, <1>2 DEF Tick

LEMMA SimKept == ASSUME SimOK, UNCHANGED sim PROVE SimOK'
BY DEF SimOK, sim

LEMMA SimTickInv == ASSUME Inv, simTick PROVE Inv'
BY TickInv, SimKept, Parts DEF simTick

LEMMA InjectFaultInv == ASSUME Inv, injectFault PROVE Inv'
<1>1. Tick /\ UNCHANGED sim
  BY DEF injectFault, Tick
<1> QED
  BY <1>1, TickInv, SimKept, Parts

(* The interval that is cleared is the only one.                           *)
LEMMA ToggleInv == ASSUME Inv, toggleSim PROVE Inv'
<1>1. SimOK /\ Counted
  BY Parts
<1>2. CASE simRunning
  <2>1. /\ simRunning' = ~simRunning /\ intervals' = intervals \ {simInterval}
        /\ UNCHANGED <<simInterval, stats, mttrHistory, timers, display, faults, since>>
    BY <1>2 DEF toggleSim
  <2>2. SimOK'
    BY <1>1, <1>2, <2>1 DEF SimOK
  <2>3. UNCHANGED <<stats, mttrHistory, timers, metrics, feed, patch_log, bar_chart, faults, since>>
    BY <2>1 DEF display
  <2>4. Counted'
    BY <1>1, <2>3 DEF Counted, RestOK, HistoryKnown, Once, PendingShown, DisplayAgrees, Stale, Fresh
  <2> QED
    BY <2>2, <2>4, Parts
<1>3. CASE ~simRunning
  <2>1. /\ simRunning' = ~simRunning /\ simInterval < MaxStarts
        /\ simInterval' = simInterval + 1 /\ intervals' = intervals \cup {simInterval'}
        /\ Tick
    BY <1>3 DEF toggleSim
  <2>2. intervals = {} /\ simRunning' = TRUE
    BY <1>1, <1>3, <2>1 DEF SimOK
  <2>3. simInterval' \in 0 .. MaxStarts /\ intervals' = {simInterval'}
    BY <1>1, <2>1, <2>2, Maxima DEF SimOK
  <2>4. SimOK'
    BY <2>2, <2>3 DEF SimOK
  <2> QED
    BY <2>1, <2>4, TickInv, Parts
<1> QED
  BY <1>2, <1>3

(* Clearing forgets the numbers and the history together.                  *)
LEMMA ClearInv == ASSUME Inv, clearFeed PROVE Inv'
<1> USE Maxima
<1>1. SimOK /\ Counted
  BY Parts
<1>2. SimOK'
  BY <1>1 DEF SimOK, clearFeed, sim
<1>3. RestOK'
  <2>1. stats' \in Numbers /\ metrics' \in Numbers
    BY DEF clearFeed, Numbers
  <2>2. faults' \in 0 .. MaxFaults /\ since' \in 0 .. faults' /\ timers' \subseteq 1 .. faults'
    BY <1>1 DEF Counted, RestOK, clearFeed
  <2>3. /\ mttrHistory' \in Seq(Faults) /\ patch_log' \in Seq(Faults) /\ bar_chart' \in Seq(Faults)
        /\ feed' \in Seq(Entries) /\ Len(feed') <= FeedMax
    BY DEF clearFeed
  <2> QED
    BY <2>1, <2>2, <2>3 DEF RestOK
<1>4. HistoryKnown' /\ Once' /\ DisplayAgrees'
  BY DEF HistoryKnown, Once, DisplayAgrees, clearFeed
<1>5. Stale' = {} /\ Fresh' = {}
  <2>1. timers \subseteq 1 .. faults /\ faults \in Nat
    BY <1>1 DEF Counted, RestOK
  <2>2. mttrHistory' = << >> /\ since' = faults /\ timers' = timers
    BY DEF clearFeed
  <2>3. \A n \in timers : ~(n > faults)
    BY <2>1
  <2>4. Fresh' = {}
    BY <2>2, <2>3 DEF Fresh
  <2>5. DOMAIN mttrHistory' = {}
    BY <2>2
  <2>6. Stale' = {}
    BY <2>5 DEF Stale
  <2> QED
    BY <2>4, <2>6
<1>6. PendingShown'
  BY <1>5, FS_EmptySet DEF PendingShown, clearFeed
<1> QED
  BY <1>2, <1>3, <1>4, <1>6, Parts DEF Counted

-----------------------------------------------------------------------------
(* A heal takes its fault from the timers to the history.                  *)
LEMMA HealCounts ==
  ASSUME NEW n \in Faults, Inv, Heal(n)
  PROVE  HistoryKnown' /\ Once' /\ PendingShown'
<1>1. RestOK /\ HistoryKnown /\ Once /\ PendingShown
  BY Parts DEF Counted
<1>2. /\ n \in timers /\ timers' = timers \ {n} /\ since' = since /\ faults' = faults
      /\ stats' = [stats EXCEPT !.healed = @ + 1]
      /\ mttrHistory' = Append(mttrHistory, n)
  BY DEF Heal
<1>3. /\ n \in 1 .. faults /\ timers \subseteq 1 .. faults
      /\ faults \in Nat /\ since \in 0 .. faults /\ mttrHistory \in Seq(Faults)
      /\ stats \in [healed : Nat, detected : Nat, z3total : Nat]
  BY <1>1, <1>2, Maxima DEF RestOK, Numbers
<1> DEFINE len == Len(mttrHistory)
<1>4. /\ DOMAIN mttrHistory = 1 .. len /\ DOMAIN mttrHistory' = 1 .. len + 1 /\ len \in Nat
      /\ \A j \in 1 .. len : mttrHistory'[j] = mttrHistory[j]
      /\ mttrHistory'[len + 1] = n
  BY <1>2, <1>3
<1>5. \A j \in DOMAIN mttrHistory' : j \in DOMAIN mttrHistory \/ j = len + 1
  BY <1>4
<1>6. HistoryKnown'
  BY <1>1, <1>2, <1>3, <1>4, <1>5 DEF HistoryKnown
<1>7. Once'
  BY <1>1, <1>2, <1>4, <1>5 DEF Once
<1>8. \A j \in DOMAIN mttrHistory : mttrHistory[j] # n
  BY <1>1, <1>2 DEF Once
<1>9. /\ stats'.healed = stats.healed + 1 /\ stats'.detected = stats.detected
      /\ stats.healed \in Nat /\ stats.detected \in Nat
  BY <1>2, <1>3
<1>10. stats.detected + Cardinality(Stale) = stats.healed + Cardinality(Fresh)
  BY <1>1 DEF PendingShown
<1>11. TypeOK
  BY DEF Inv
<1> HIDE DEF len
<1>12. CASE n > since
  <2>1. Fresh' = Fresh \ {n} /\ n \in Fresh
    BY <1>2, <1>12 DEF Fresh
  <2>2. Stale' = Stale
    BY <1>2, <1>3, <1>4, <1>5, <1>12 DEF Stale
  <2>3. Cardinality(Fresh') = Cardinality(Fresh) - 1
    BY <2>1, <1>11, Finite, FS_RemoveElement
  <2> QED
    BY <1>6, <1>7, <1>9, <1>10, <1>11, <2>2, <2>3, Finite DEF PendingShown
<1>13. CASE ~(n > since)
  <2>1. Fresh' = Fresh
    BY <1>2, <1>13 DEF Fresh
  <2>2. Stale' = Stale \cup {n} /\ n \notin Stale
    <3>1. n \in 1 .. since
      BY <1>3, <1>13
    <3>2. n \notin Stale
      BY <1>8 DEF Stale
    <3>3. \A m \in 1 .. since : (\E j \in DOMAIN mttrHistory' : mttrHistory'[j] = m)
                <=> m = n \/ \E j \in DOMAIN mttrHistory : mttrHistory[j] = m
      BY <1>4, <1>5
    <3> QED
      BY <1>2, <3>1, <3>2, <3>3 DEF Stale
  <2>3. Cardinality(Stale') = Cardinality(Stale) + 1
    BY <2>2, <1>11, Finite, FS_AddElement
  <2> QED
    BY <1>6, <1>7, <1>9, <1>10, <1>11, <2>1, <2>3, Finite DEF PendingShown
<1> QED
  BY <1>12, <1>13

(* The patch is put in front and the bar at the end.                       *)
LEMMA HealShown ==
  ASSUME NEW n \in Faults, Inv, Heal(n)
  PROVE  RestOK' /\ DisplayAgrees'
<1> USE Maxima
<1>1. RestOK /\ DisplayAgrees
  BY Parts DEF Counted
<1>2. /\ n \in timers /\ timers' = timers \ {n} /\ since' = since /\ faults' = faults
      /\ stats' = [stats EXCEPT !.healed = @ + 1] /\ metrics' = stats'
      /\ mttrHistory' = Append(mttrHistory, n)
      /\ addEvent("HEALED", n) /\ addPatch(n) /\ updateChart
  BY DEF Heal
<1>3. /\ mttrHistory \in Seq(Faults) /\ patch_log \in Seq(Faults) /\ feed \in Seq(Entries)
      /\ stats \in [healed : Nat, detected : Nat, z3total : Nat]
  BY <1>1 DEF RestOK, Numbers
<1>4. PICK len \in Nat : len = Len(mttrHistory)
  BY <1>3
<1>5. /\ mttrHistory' \in Seq(Faults) /\ Len(mttrHistory') = len + 1
      /\ \A j \in 1 .. len : mttrHistory'[j] = mttrHistory[j]
      /\ mttrHistory'[len + 1] = n
  BY <1>2, <1>3, <1>4
<1>6. stats' \in Numbers /\ stats'.healed = stats.healed + 1
  <2>1. stats' = [stats EXCEPT !.healed = @ + 1]
    BY <1>2
  <2>2. /\ stats' \in [healed : Nat, detected : Nat, z3total : Nat]
        /\ stats'.healed = stats.healed + 1
    BY <2>1, <1>3, SMTT(30)
  <2> QED
    BY <2>2 DEF Numbers
<1>7. feed' \in Seq(Entries) /\ Len(feed') <= FeedMax
  <2>1. [type |-> "HEALED", of |-> n] \in Entries /\ feed \in Seq(Entries)
    BY <1>3 DEF Entries
  <2>2. feed' = Cut(<<[type |-> "HEALED", of |-> n]>> \o feed, FeedMax)
    BY <1>2 DEF addEvent
  <2> QED
    BY <2>1, <2>2, FeedKept
<1>8. /\ patch_log' \in Seq(Faults)
      /\ Len(patch_log') = IF Len(patch_log) + 1 < LogMax THEN Len(patch_log) + 1 ELSE LogMax
      /\ \A j \in 1 .. Len(patch_log') :
           patch_log'[j] = IF j = 1 THEN n ELSE patch_log[j - 1]
  <2> DEFINE t == Cut(<<n>> \o patch_log, LogMax)
  <2>1. patch_log' = t
    BY <1>2 DEF addPatch
  <2>2. t \in Seq(Faults) /\ IsFront(t, patch_log, n, LogMax)
    BY <1>3, CutFront
  <2> HIDE DEF t
  <2> QED
    BY <2>1, <2>2 DEF IsFront
<1>9. /\ bar_chart' \in Seq(Faults)
      /\ Len(bar_chart') = IF len + 1 < ChartMax THEN len + 1 ELSE ChartMax
      /\ \A j \in 1 .. Len(bar_chart') :
           bar_chart'[j] = mttrHistory'[len + 1 - Len(bar_chart') + j]
  <2>1. PICK h \in Seq(Faults) : h = mttrHistory'
    BY <1>5
  <2> DEFINE t == SubSeq(h, IF Len(h) < ChartMax THEN 1 ELSE Len(h) - ChartMax + 1, Len(h))
  <2>2. bar_chart' = t
    BY <1>2, <2>1 DEF updateChart
  <2>3. /\ t \in Seq(Faults)
        /\ Len(t) = IF Len(h) < ChartMax THEN Len(h) ELSE ChartMax
        /\ \A j \in 1 .. Len(t) : t[j] = h[Len(h) - Len(t) + j]
    BY LastOf
  <2>4. Len(h) = len + 1
    BY <1>5, <2>1
  <2> HIDE DEF t
  <2> QED
    BY <2>1, <2>2, <2>3, <2>4
<1>10. RestOK'
  <2>1. faults' \in 0 .. MaxFaults /\ since' \in 0 .. faults' /\ timers' \subseteq 1 .. faults'
    BY <1>1, <1>2 DEF RestOK
  <2> QED
    BY <1>2, <1>5, <1>6, <1>7, <1>8, <1>9, <2>1 DEF RestOK
<1>11. DisplayAgrees'
  <2>1. /\ len = stats.healed
        /\ Len(patch_log) = IF len < LogMax THEN len ELSE LogMax
        /\ \A j \in DOMAIN patch_log : patch_log[j] = mttrHistory[len + 1 - j]
    BY <1>1, <1>4 DEF DisplayAgrees
  <2>2. /\ Len(mttrHistory') = stats'.healed /\ Len(mttrHistory') = len + 1
        /\ metrics' = stats'
    BY <1>2, <1>5, <1>6, <2>1
  <2>3. Len(patch_log') = IF len + 1 < LogMax THEN len + 1 ELSE LogMax
    BY <1>8, <2>1
  <2>4. ASSUME NEW j \in 1 .. Len(patch_log')
        PROVE  patch_log'[j] = mttrHistory'[len + 1 + 1 - j]
    <3>1. CASE j = 1
      <4>1. len + 1 + 1 - j = len + 1
        BY <3>1
      <4> QED
        BY <3>1, <4>1, <1>5, <1>8
    <3>2. CASE j # 1
      <4>1. /\ j - 1 \in 1 .. Len(patch_log) /\ len + 1 - (j - 1) \in 1 .. len
            /\ len + 1 - (j - 1) = len + 1 + 1 - j
        BY <3>2, <1>3, <2>1, <2>3
      <4>2. patch_log'[j] = patch_log[j - 1]
        BY <3>2, <1>8
      <4>3. j - 1 \in DOMAIN patch_log
        BY <4>1, <1>3
      <4>4. patch_log[j - 1] = mttrHistory[len + 1 - (j - 1)]
        BY <2>1, <4>3
      <4> QED
        BY <1>5, <4>1, <4>2, <4>4
    <3> QED
      BY <3>1, <3>2
  <2>5. /\ DOMAIN patch_log' = 1 .. Len(patch_log') /\ DOMAIN bar_chart' = 1 .. Len(bar_chart')
    BY <1>8, <1>9
  <2>6. /\ Len(patch_log') = IF Len(mttrHistory') < LogMax THEN Len(mttrHistory') ELSE LogMax
        /\ \A j \in DOMAIN patch_log' :
             patch_log'[j] = mttrHistory'[Len(mttrHistory') + 1 - j]
    BY <2>2, <2>3, <2>4, <2>5
  <2>7. /\ Len(bar_chart') = IF Len(mttrHistory') < ChartMax THEN Len(mttrHistory') ELSE ChartMax
        /\ \A j \in DOMAIN bar_chart' :
             bar_chart'[j] = mttrHistory'[Len(mttrHistory') - Len(bar_chart') + j]
    <3>1. Len(bar_chart') = IF len + 1 < ChartMax THEN len + 1 ELSE ChartMax
      BY <1>9
    <3>2. \A j \in DOMAIN bar_chart' : bar_chart'[j] = mttrHistory'[len + 1 - Len(bar_chart') + j]
      BY <1>9, <2>5
    <3>3. Len(mttrHistory') = len + 1
      BY <2>2
    <3>4. ASSUME NEW j \in DOMAIN bar_chart'
          PROVE  bar_chart'[j] = mttrHistory'[Len(mttrHistory') - Len(bar_chart') + j]
      BY <3>2, <3>3
    <3>5. Len(bar_chart') = IF Len(mttrHistory') < ChartMax THEN Len(mttrHistory') ELSE ChartMax
      BY <3>1, <3>3
    <3> QED
      BY <3>4, <3>5
  <2>8. /\ metrics'.healed = stats'.healed /\ metrics'.detected = stats'.detected
        /\ metrics'.z3total = stats'.z3total /\ Len(mttrHistory') = stats'.healed
    BY <2>2
  <2> QED
    BY <2>6, <2>7, <2>8 DEF DisplayAgrees
<1> QED
  BY <1>10, <1>11

LEMMA HealInv == ASSUME NEW n \in Faults, Inv, Heal(n) PROVE Inv'
<1>1. UNCHANGED sim
  BY DEF Heal
<1> QED
  BY <1>1, HealCounts, HealShown, SimKept, Parts DEF Counted

-----------------------------------------------------------------------------

LEMMA StepInv == Inv /\ [Next]_vars => Inv'
<1> SUFFICES ASSUME Inv, [Next]_vars PROVE Inv'
  OBVIOUS
<1>1. CASE simTick
  BY <1>1, SimTickInv
<1>2. CASE toggleSim
  BY <1>2, ToggleInv
<1>3. CASE injectFault
  BY <1>3, InjectFaultInv
<1>4. CASE clearFeed
  BY <1>4, ClearInv
<1>5. CASE \E n \in Faults : Heal(n)
  BY <1>5, HealInv
<1>6. CASE UNCHANGED vars
  BY <1>6 DEF vars, display, Inv, TypeOK, HistoryKnown, Once, PendingShown,
              DisplayAgrees, Stale, Fresh
<1> QED
  BY <1>1, <1>2, <1>3, <1>4, <1>5, <1>6 DEF Next

LEMMA Always == Spec => []Inv
BY InitInv, StepInv, PTL DEF Spec

(* The state has its types; what runs while the simulation runs is one     *)
(* interval, the one that the button will clear (lines 633-654).           *)
THEOREM TypeCorrect == Spec => []TypeOK
<1>1. Inv => TypeOK
  BY DEF Inv
<1> QED
  BY <1>1, Always, PTL

(* detected - healed, the number that line 577 shows as pending heals, is  *)
(* short by one for each heal that a clear has overtaken, and else exact.  *)
THEOREM CountsPending == Spec => []PendingShown
<1>1. Inv => PendingShown
  BY DEF Inv
<1> QED
  BY <1>1, Always, PTL

(* The numbers, the patches and the bars on display are those of one       *)
(* history of heals between any two callbacks.                             *)
THEOREM DisplayAgreement == Spec => []DisplayAgrees
<1>1. Inv => DisplayAgrees
  BY DEF Inv
<1> QED
  BY <1>1, Always, PTL
=============================================================================
