------------------------- MODULE HealingLoopProofs --------------------------
(***************************************************************************)
(* HeapTracker finds exactly the faults there are, for every list of       *)
(* operations. What it stores is related to the operations so far by       *)
(* TrackerInv: an address is known iff it was allocated, and its mark says *)
(* whether it is live. The report counts no more than these faults.        *)
(***************************************************************************)
EXTENDS HealingLoop, FiniteSetTheorems, TLAPS

TrackerInv ==
  \A a \in Addrs :
    /\ a \in DOMAIN allocations <=> Allocated(k, a)
    /\ a \in DOMAIN allocations => (allocations[a] <=> ~Live(k, a))

-----------------------------------------------------------------------------
(* An event of the list is one of the operations on an address.            *)
LEMMA EventType ==
  ASSUME events \in EventLists
  PROVE  /\ Len(events) \in Nat
         /\ \A j \in 1 .. Len(events) :
              events[j].op \in Operations /\ events[j].addr \in Addrs
<1>1. events \in Seq(Event)
  BY EventAssumption
<1>2. \A j \in 1 .. Len(events) : events[j] \in Event
  BY <1>1
<1> QED BY <1>1, <1>2 DEF Event

(* The fault found for an operation is one, or none.                       *)
LEMMA FaultType ==
  ASSUME NEW e, e.op \in Operations
  PROVE  FaultOf(e) \in FaultClass \cup {"none"}
  BY DEF FaultOf, FreeFault, WriteFault, Operations, FaultClass

-----------------------------------------------------------------------------
(* Type correctness.                                                       *)
LEMMA TypeInit == Init => TypeOK
<1> SUFFICES ASSUME Init PROVE TypeOK
  OBVIOUS
<1>1. Len(events) \in Nat
  BY EventType DEF Init
<1>2. k \in 1 .. Len(events) + 1 /\ 1 .. k - 1 = {} /\ 1 .. 0 = {}
  BY <1>1 DEF Init
<1> QED BY <1>2 DEF Init, TypeOK, FaultClass

LEMMA TypeStep == TypeOK /\ [Next]_vars => TypeOK'
<1> SUFFICES ASSUME TypeOK, [Next]_vars PROVE TypeOK'
  OBVIOUS
<1> USE DEF TypeOK
<1>0. Len(events) \in Nat
  BY EventType
<1>1. CASE HandleEvent
  <2>1. events[k].op \in Operations /\ events[k].addr \in Addrs
    BY <1>0, <1>1, EventType DEF HandleEvent
  <2>2. FaultOf(events[k]) \in FaultClass \cup {"none"}
    BY <2>1, FaultType
  <2>3. /\ DOMAIN allocations' \subseteq Addrs
        /\ \A a \in DOMAIN allocations' : allocations'[a] \in BOOLEAN
    BY <2>1, <1>1 DEF HandleEvent, on_malloc, on_free
  <2>4. /\ k' \in 1 .. Len(events') + 1 /\ events' \in EventLists
        /\ k' - 1 = k /\ 1 .. k - 1 = (1 .. k) \ {k}
    BY <1>0, <1>1 DEF HandleEvent
  <2>5. found' = [j \in 1 .. k |-> IF j = k THEN FaultOf(events[k]) ELSE found[j]]
    BY <1>1 DEF HandleEvent
  <2>6. found' \in [1 .. k' - 1 -> FaultClass \cup {"none"}]
    BY <2>2, <2>4, <2>5
  <2>7. /\ healed' \in Nat /\ fault' \in FaultClass \cup {"none"}
        /\ pc' \in {"next", "verify", "done", "panicked"}
        /\ fault' # "none" <=> pc' \in {"verify", "panicked"}
    BY <2>2, <1>1 DEF HandleEvent
  <2> QED BY <2>3, <2>4, <2>6, <2>7
<1>2. CASE Heal
  BY <1>2 DEF Heal, Verified, NotVerified, NoPython
<1>3. CASE Report
  BY <1>3 DEF Report
<1>4. CASE UNCHANGED vars
  BY <1>4 DEF vars
<1> QED BY <1>1, <1>2, <1>3, <1>4 DEF Next

(* The state of the tracker and of the loop keeps its type.                *)
THEOREM TypeCorrect == Spec => []TypeOK
BY TypeInit, TypeStep, PTL DEF Spec

-----------------------------------------------------------------------------
(* What the operations say of a block changes with the next one only.      *)
LEMMA LiveNext ==
  ASSUME NEW n \in Nat \ {0}, NEW a
  PROVE  /\ Allocated(n + 1, a) <=> Allocated(n, a) \/ Is(n, "malloc", a)
         /\ Live(n + 1, a) <=> Is(n, "malloc", a) \/ (Live(n, a) /\ ~Is(n, "free", a))
<1>1. 1 .. (n + 1) - 1 = (1 .. n - 1) \cup {n}
  OBVIOUS
<1>2. Allocated(n + 1, a) <=> Allocated(n, a) \/ Is(n, "malloc", a)
  BY <1>1 DEF Allocated
<1>3. \A m \in 1 .. n - 1 : m + 1 .. (n + 1) - 1 = (m + 1 .. n - 1) \cup {n}
  OBVIOUS
<1>4. n + 1 .. (n + 1) - 1 = {}
  OBVIOUS
<1>5. Is(n, "malloc", a) => Live(n + 1, a)
  BY <1>1, <1>4 DEF Live
<1>6. Live(n, a) /\ ~Is(n, "free", a) => Live(n + 1, a)
  BY <1>1, <1>3 DEF Live
<1>7. Live(n + 1, a) => Is(n, "malloc", a) \/ (Live(n, a) /\ ~Is(n, "free", a))
  BY <1>1, <1>3 DEF Live
<1> QED BY <1>2, <1>5, <1>6, <1>7

(* The tracker knows of each block what the operations say.                *)
LEMMA TrackerInit == Init => TrackerInv
<1> SUFFICES ASSUME Init, NEW a \in Addrs
             PROVE  a \notin DOMAIN allocations /\ ~Allocated(k, a)
  BY DEF TrackerInv
<1>1. 1 .. k - 1 = {}
  BY DEF Init
<1> QED BY <1>1 DEF Init, Allocated

LEMMA TrackerStep == TypeOK /\ TrackerInv /\ [Next]_vars => TrackerInv'
<1> SUFFICES ASSUME TypeOK, TrackerInv, [Next]_vars PROVE TrackerInv'
  OBVIOUS
<1>0. Len(events) \in Nat /\ k \in Nat \ {0}
  BY EventType DEF TypeOK
<1>1. CASE HandleEvent
  <2> SUFFICES ASSUME NEW a \in Addrs
               PROVE  /\ a \in DOMAIN allocations' <=> Allocated(k, a)'
                      /\ a \in DOMAIN allocations' => (allocations'[a] <=> ~Live(k, a)')
    BY DEF TrackerInv
  <2> DEFINE e == events[k]
  <2>1. e.op \in Operations /\ e.addr \in Addrs
    BY <1>0, <1>1, EventType DEF HandleEvent, TypeOK
  <2>2. Allocated(k, a)' = Allocated(k + 1, a) /\ Live(k, a)' = Live(k + 1, a)
    BY <1>1 DEF HandleEvent, Allocated, Live, Is
  <2>3. /\ Allocated(k + 1, a) <=> Allocated(k, a) \/ Is(k, "malloc", a)
        /\ Live(k + 1, a) <=> Is(k, "malloc", a) \/ (Live(k, a) /\ ~Is(k, "free", a))
    BY <1>0, LiveNext
  <2>4. /\ a \in DOMAIN allocations <=> Allocated(k, a)
        /\ a \in DOMAIN allocations => (allocations[a] <=> ~Live(k, a))
        /\ \A x \in DOMAIN allocations : allocations[x] \in BOOLEAN
    BY DEF TrackerInv, TypeOK
  <2>5. CASE e.op = "malloc"
    <3>1. allocations' = on_malloc(allocations, e.addr)
      BY <1>1, <2>5 DEF HandleEvent
    <3> QED BY <3>1, <2>2, <2>3, <2>4, <2>5 DEF on_malloc, Is
  <2>6. CASE e.op = "write"
    <3>1. allocations' = allocations
      BY <1>1, <2>6 DEF HandleEvent
    <3> QED BY <3>1, <2>2, <2>3, <2>4, <2>6 DEF Is
  <2>7. CASE e.op = "free"
    <3>1. FaultOf(e) = FreeFault(allocations, e.addr)
      BY <2>7 DEF FaultOf
    <3>2. Live(k, e.addr) => e.addr \in DOMAIN allocations
      BY <2>1 DEF Live, Allocated, TrackerInv
    <3>3. CASE FaultOf(e) = "none"
      <4>1. allocations' = [allocations EXCEPT ![e.addr] = TRUE]
        BY <1>1, <2>7, <3>1, <3>3 DEF HandleEvent, on_free, FreeFault
      <4> QED BY <4>1, <2>2, <2>3, <2>4, <2>7 DEF Is
    <3>4. CASE FaultOf(e) # "none"
      <4>1. allocations' = allocations
        BY <1>1, <2>7, <3>4 DEF HandleEvent
      <4>2. e.addr \notin DOMAIN allocations \/ allocations[e.addr]
        BY <3>1, <3>4 DEF FreeFault
      <4> QED BY <4>1, <4>2, <2>2, <2>3, <2>4, <2>7 DEF Is
    <3> QED BY <3>3, <3>4
  <2> QED BY <2>1, <2>5, <2>6, <2>7 DEF Operations
<1>2. CASE Heal
  BY <1>2 DEF Heal, TrackerInv, Allocated, Live, Is
<1>3. CASE Report
  BY <1>3 DEF Report, TrackerInv, Allocated, Live, Is
<1>4. CASE UNCHANGED vars
  BY <1>4 DEF vars, TrackerInv, Allocated, Live, Is
<1> QED BY <1>1, <1>2, <1>3, <1>4 DEF Next

-----------------------------------------------------------------------------
(* The fault found for the next operation is the one that is due.          *)
LEMMA FaultIsDue ==
  ASSUME TypeOK, TrackerInv, k <= Len(events)
  PROVE  FaultOf(events[k]) = FaultDue(k)
<1> DEFINE a == events[k].addr
<1>1. events[k].op \in Operations /\ a \in Addrs
  BY EventType DEF TypeOK
<1>2. Live(k, a) => Allocated(k, a)
  BY DEF Live, Allocated
<1>3. /\ a \in DOMAIN allocations <=> Allocated(k, a)
      /\ a \in DOMAIN allocations => (allocations[a] <=> ~Live(k, a))
  BY <1>1 DEF TrackerInv
<1>4. CASE events[k].op = "malloc"
  BY <1>4 DEF FaultOf, FaultDue
<1>5. CASE events[k].op = "free"
  BY <1>2, <1>3, <1>5 DEF FaultOf, FaultDue, FreeFault
<1>6. CASE events[k].op = "write"
  BY <1>2, <1>3, <1>6 DEF FaultOf, FaultDue, WriteFault
<1> QED BY <1>1, <1>4, <1>5, <1>6 DEF Operations

LEMMA ExactStep ==
  TypeOK /\ TrackerInv /\ FaultsExact /\ [Next]_vars => FaultsExact'
<1> SUFFICES ASSUME TypeOK, TrackerInv, FaultsExact, [Next]_vars PROVE FaultsExact'
  OBVIOUS
<1>1. CASE HandleEvent
  <2>1. \A j : FaultDue(j)' = FaultDue(j)
    BY <1>1 DEF HandleEvent, FaultDue, Live, Allocated, Is
  <2>2. k \in Nat /\ k' - 1 = k /\ 1 .. k = (1 .. k - 1) \cup {k}
    BY EventType, <1>1 DEF HandleEvent, TypeOK
  <2>3. found' = [j \in 1 .. k |-> IF j = k THEN FaultOf(events[k]) ELSE found[j]]
    BY <1>1 DEF HandleEvent
  <2>4. FaultOf(events[k]) = FaultDue(k)
    BY FaultIsDue, <1>1 DEF HandleEvent
  <2> QED BY <2>1, <2>2, <2>3, <2>4 DEF FaultsExact
<1>2. CASE Heal
  BY <1>2 DEF Heal, FaultsExact, FaultDue, Live, Allocated, Is
<1>3. CASE Report
  BY <1>3 DEF Report, FaultsExact, FaultDue, Live, Allocated, Is
<1>4. CASE UNCHANGED vars
  BY <1>4 DEF vars, FaultsExact, FaultDue, Live, Allocated, Is
<1> QED BY <1>1, <1>2, <1>3, <1>4 DEF Next

(* For every list of operations on any set of addresses, the tracker of    *)
(* src/main.rs finds the double frees and the uses after free in it, and   *)
(* nothing else.                                                           *)
THEOREM TrackerExact == Spec => []FaultsExact
<1>1. Init => FaultsExact
  <2>1. Init => 1 .. k - 1 = {}
    BY DEF Init
  <2> QED BY <2>1 DEF FaultsExact
<1> QED BY <1>1, TrackerInit, TypeCorrect, TrackerStep, ExactStep, PTL DEF Spec

-----------------------------------------------------------------------------
(* The operations up to the next one have the faults found so far.         *)
LEMMA FaultsNext ==
  ASSUME NEW n \in Nat \ {0}
  PROVE  /\ IsFiniteSet(FaultsBefore(n)) /\ Cardinality(FaultsBefore(n)) \in Nat
         /\ n \notin FaultsBefore(n)
         /\ FaultsBefore(n + 1) =
              IF FaultDue(n) = "none" THEN FaultsBefore(n) ELSE FaultsBefore(n) \cup {n}
<1>1. IsFiniteSet(1 .. n - 1)
  BY FS_Interval
<1>2. IsFiniteSet(FaultsBefore(n))
  BY <1>1, FS_Subset DEF FaultsBefore
<1>3. 1 .. (n + 1) - 1 = (1 .. n - 1) \cup {n} /\ n \notin 1 .. n - 1
  OBVIOUS
<1> QED BY <1>2, <1>3, FS_CardinalityType DEF FaultsBefore

(* For every list of operations, the faults the report counts as healed    *)
(* are no more than the double frees and the uses after free in it.        *)
THEOREM CountsOnlyFaults == Spec => []HealsOnlyFaults
<1>1. Init => HealsOnlyFaults
  <2> SUFFICES ASSUME Init PROVE HealsOnlyFaults
    OBVIOUS
  <2>1. k = 1 /\ 1 .. 1 - 1 = {} /\ healed = 0 /\ pc = "next"
    BY DEF Init
  <2>2. FaultsBefore(k) = {}
    BY <2>1 DEF FaultsBefore
  <2>3. Cardinality(FaultsBefore(k)) = 0
    BY <2>2, FS_EmptySet
  <2> QED BY <2>1, <2>3 DEF HealsOnlyFaults
<1>2. TypeOK /\ TrackerInv /\ HealsOnlyFaults /\ [Next]_vars => HealsOnlyFaults'
  <2> SUFFICES ASSUME TypeOK, TrackerInv, HealsOnlyFaults, [Next]_vars
               PROVE  HealsOnlyFaults'
    OBVIOUS
  <2>0. k \in Nat \ {0} /\ healed \in Nat
    BY EventType DEF TypeOK
  <2>1. events' = events => \A n : FaultsBefore(n)' = FaultsBefore(n)
    BY DEF FaultsBefore, FaultDue, Live, Allocated, Is
  <2>2. CASE HandleEvent
    <3>1. FaultDue(k) # "none" <=> pc' = "verify"
      BY FaultIsDue, <2>2 DEF HandleEvent
    <3>2. FaultsBefore(k)' = FaultsBefore(k + 1)
      BY <2>2 DEF HandleEvent, FaultsBefore, FaultDue, Live, Allocated, Is
    <3>3. /\ IsFiniteSet(FaultsBefore(k)) /\ Cardinality(FaultsBefore(k)) \in Nat
          /\ k \notin FaultsBefore(k)
          /\ FaultsBefore(k + 1) =
               IF pc' = "verify" THEN FaultsBefore(k) \cup {k} ELSE FaultsBefore(k)
      BY <2>0, <3>1, FaultsNext
    <3>4. Cardinality(FaultsBefore(k)) >= healed /\ healed' = healed /\ k' = k + 1
      BY <2>2, <2>0, <3>3 DEF HandleEvent, HealsOnlyFaults
    <3>5. CASE pc' = "verify"
      <4>1. Cardinality(FaultsBefore(k + 1)) = Cardinality(FaultsBefore(k)) + 1
        BY <3>3, <3>5, FS_AddElement
      <4>2. Cardinality(FaultsBefore(k)') >= healed' + 1
        BY <2>0, <3>2, <3>3, <3>4, <4>1
      <4> QED BY <3>5, <4>2 DEF HealsOnlyFaults
    <3>6. CASE pc' # "verify"
      <4>1. Cardinality(FaultsBefore(k)') >= healed' + 0
        BY <2>0, <3>2, <3>3, <3>4, <3>6
      <4> QED BY <3>6, <4>1 DEF HealsOnlyFaults
    <3> QED BY <3>5, <3>6
  <2>3. CASE Heal
    <3>1. FaultsBefore(k)' = FaultsBefore(k)
      BY <2>1, <2>3 DEF Heal
    <3>2. Cardinality(FaultsBefore(k)) >= healed + 1
      BY <2>3 DEF Heal, HealsOnlyFaults
    <3>3. pc' # "verify" /\ healed' \in {healed, healed + 1}
      BY <2>3 DEF Heal, Verified, NotVerified, NoPython
    <3>4. Cardinality(FaultsBefore(k)) \in Nat
      BY <2>0, FaultsNext
    <3>5. Cardinality(FaultsBefore(k)') >= healed' + 0
      BY <2>0, <3>1, <3>2, <3>3, <3>4
    <3> QED BY <3>3, <3>5 DEF HealsOnlyFaults
  <2>4. CASE Report
    <3>1. FaultsBefore(k)' = FaultsBefore(k) /\ healed' = healed /\ pc' # "verify"
      BY <2>1, <2>4 DEF Report
    <3> QED BY <3>1, <2>4 DEF Report, HealsOnlyFaults
  <2>5. CASE UNCHANGED vars
    <3>1. FaultsBefore(k)' = FaultsBefore(k)
      BY <2>1, <2>5 DEF vars
    <3> QED BY <3>1, <2>5 DEF vars, HealsOnlyFaults
  <2> QED BY <2>2, <2>3, <2>4, <2>5 DEF Next
<1> QED BY <1>1, <1>2, TrackerInit, TypeCorrect, TrackerStep, PTL DEF Spec
=============================================================================
