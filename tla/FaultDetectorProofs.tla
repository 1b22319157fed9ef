------------------------ MODULE FaultDetectorProofs ------------------------
(***************************************************************************)
(* The probes report only misused addresses, and their map is the heap,    *)
(* for any number of threads and processes, when processes do not share    *)
(* addresses, use no allocator but malloc, and have no more blocks than    *)
(* the map has entries. Each of these three is needed: without it TLC      *)
(* finds a proper program that is reported.                                *)
(***************************************************************************)
EXTENDS FaultDetector, FiniteSetTheorems, TLAPS

HeapsApart == \A p, q \in Processes : p # q => Heap[p] \cap Heap[q] = {}
HeapFits   == IsFiniteSet(Addrs) /\ Cardinality(Addrs) <= HeapMax
Proper     == HeapsApart /\ HeapFits /\ ~Callocs

-----------------------------------------------------------------------------
(* Types, in parts.                                                        *)

MapOK ==
  /\ heap_allocations \subseteq Addrs /\ IsFiniteSet(heap_allocations)
  /\ Cardinality(heap_allocations) <= HeapMax
RequestsOK ==
  /\ active_malloc_requests \subseteq Threads
  /\ Cardinality(active_malloc_requests) <= RequestMax
RingOK == fault_events \in Seq(Events) /\ Len(fault_events) <= RingMax
ThreadsOK ==
  /\ pc \in [Threads -> {"user", "malloc", "malloc_ret", "free_hit", "free"}]
  /\ arg \in [Threads -> Addrs \cup {NULL}]
BlocksOK ==
  /\ live \in [Processes -> SUBSET Addrs]
  /\ misused \in [Processes -> SUBSET Addrs] /\ overlapped \subseteq Addrs
  /\ left \subseteq Addrs

(* A thread has an address exactly while it is in malloc or free with one, *)
(* and one of its own heap.                                                *)
ArgInv ==
  \A t \in Threads :
    /\ pc[t] \in {"user", "malloc"} => arg[t] = NULL
    /\ pc[t] \in {"free_hit", "free"} => arg[t] # NULL
    /\ arg[t] # NULL => arg[t] \in Heap[ProcessOf[t]]

TypeInv == MapOK /\ RequestsOK /\ RingOK /\ ThreadsOK /\ BlocksOK /\ ArgInv

LEMMA HeapAddrs == \A p \in Processes : Heap[p] \subseteq Addrs
BY DEF Addrs

LEMMA NullApart == NULL \notin Addrs
BY ThreadAssumption

LEMMA OfThreads == \A t \in Threads : ProcessOf[t] \in Processes
BY ThreadAssumption

LEMMA RemoveBounded ==
  ASSUME NEW S, NEW x, IsFiniteSet(S), NEW max \in Nat, Cardinality(S) <= max
  PROVE  IsFiniteSet(S \ {x}) /\ Cardinality(S \ {x}) <= max
<1>1. IsFiniteSet(S \ {x})
  BY FS_RemoveElement
<1>2. Cardinality(S) \in Nat /\ Cardinality(S \ {x}) \in Nat
  BY <1>1, FS_CardinalityType
<1> QED
  BY <1>1, <1>2, FS_RemoveElement

LEMMA UpdateBounded ==
  ASSUME NEW map, NEW key, NEW max \in Nat, IsFiniteSet(map), Cardinality(map) <= max
  PROVE  /\ IsFiniteSet(Update(map, key, max))
         /\ Cardinality(Update(map, key, max)) <= max
         /\ Update(map, key, max) \subseteq map \cup {key}
         /\ map \subseteq Update(map, key, max)
<1>1. Cardinality(map) \in Nat
  BY FS_CardinalityType
<1>2. CASE Cardinality(map) < max
  <2>1. Update(map, key, max) = map \cup {key}
    BY <1>2 DEF Update
  <2>2. IsFiniteSet(map \cup {key}) /\ Cardinality(map \cup {key}) <= max
    BY <1>1, <1>2, FS_AddElement
  <2> QED
    BY <2>1, <2>2
<1>3. CASE ~(Cardinality(map) < max)
  BY <1>3 DEF Update
<1> QED
  BY <1>2, <1>3

LEMMA ReportBounded ==
  ASSUME RingOK, NEW class \in {"memory_corruption", "invariant"}, NEW t \in Threads,
         NEW a \in Addrs \cup {NULL}, Report(class, t, a)
  PROVE  RingOK'
<1> DEFINE e == [class |-> class, pid |-> ProcessOf[t], addr |-> a]
<1>1. e \in Events
  BY OfThreads DEF Events
<1>2. CASE Len(fault_events) < RingMax
  <2>1. fault_events' = Append(fault_events, e)
    BY <1>2 DEF Report
  <2>2. fault_events \in Seq(Events) /\ RingMax \in Nat
    BY LimitAssumption DEF RingOK
  <2> HIDE DEF e
  <2> QED
    BY <1>1, <1>2, <2>1, <2>2 DEF RingOK
<1>3. CASE ~(Len(fault_events) < RingMax)
  BY <1>3 DEF Report, RingOK
<1> QED
  BY <1>2, <1>3

(* A thread that goes on with an address of its heap, or with none.        *)
LEMMA GotoOK ==
  ASSUME ThreadsOK, ArgInv, NEW t \in Threads, NEW a \in Heap[ProcessOf[t]] \cup {NULL},
         NEW label \in {"user", "malloc", "malloc_ret", "free_hit", "free"},
         Goto(t, label, a),
         label \in {"user", "malloc"} => a = NULL,
         label \in {"free_hit", "free"} => a # NULL
  PROVE  ThreadsOK' /\ ArgInv'
<1>1. /\ pc' = [pc EXCEPT ![t] = label] /\ arg' = [arg EXCEPT ![t] = a]
  BY DEF Goto
<1>2. a \in Addrs \cup {NULL}
  BY HeapAddrs, OfThreads
<1>3. ThreadsOK'
  BY <1>1, <1>2 DEF ThreadsOK
<1>4. ASSUME NEW u \in Threads
      PROVE  /\ pc'[u] \in {"user", "malloc"} => arg'[u] = NULL
             /\ pc'[u] \in {"free_hit", "free"} => arg'[u] # NULL
             /\ arg'[u] # NULL => arg'[u] \in Heap[ProcessOf[u]]
  <2>1. CASE u = t
    <3>1. pc'[u] = label /\ arg'[u] = a
      BY <1>1, <2>1 DEF ThreadsOK
    <3> QED
      BY <3>1, <2>1
  <2>2. CASE u # t
    <3>1. pc'[u] = pc[u] /\ arg'[u] = arg[u]
      BY <1>1, <2>2 DEF ThreadsOK
    <3> QED
      BY <3>1 DEF ArgInv
  <2> QED
    BY <2>1, <2>2
<1> QED
  BY <1>3, <1>4 DEF ArgInv

LEMMA InitType == Init => TypeInv
<1> SUFFICES ASSUME Init PROVE TypeInv
  OBVIOUS
<1>1. MapOK /\ RequestsOK
  BY LimitAssumption, FS_EmptySet DEF Init, MapOK, RequestsOK
<1>2. RingOK
  BY LimitAssumption DEF Init, RingOK
<1>3. ThreadsOK /\ ArgInv
  BY DEF Init, ThreadsOK, ArgInv
<1>4. BlocksOK
  BY DEF Init, BlocksOK
<1> QED
  BY <1>1, <1>2, <1>3, <1>4 DEF TypeInv

-----------------------------------------------------------------------------
(* The steps keep the types.                                               *)

LEMMA MallocEntryType == ASSUME TypeInv, NEW t \in Threads, MallocEntry(t) PROVE TypeInv'
<1> USE DEF TypeInv
<1>1. RequestsOK'
  <2>1. IsFiniteSet(active_malloc_requests)
    BY ThreadAssumption, FS_Subset DEF RequestsOK
  <2>2. active_malloc_requests' = Update(active_malloc_requests, t, RequestMax)
    BY DEF MallocEntry
  <2>3. RequestMax \in Nat
    BY LimitAssumption
  <2> QED
    BY <2>1, <2>2, <2>3, UpdateBounded DEF RequestsOK
<1>2. ThreadsOK' /\ ArgInv'
  BY GotoOK DEF MallocEntry
<1>3. MapOK' /\ RingOK' /\ BlocksOK'
  BY DEF MallocEntry, MapOK, RingOK, BlocksOK, history
<1> QED
  BY <1>1, <1>2, <1>3

LEMMA MallocType == ASSUME TypeInv, NEW t \in Threads, Malloc(t) PROVE TypeInv'
<1> USE DEF TypeInv
<1>1. MapOK' /\ RequestsOK' /\ RingOK'
  BY DEF Malloc, maps, MapOK, RequestsOK, RingOK
<1>2. ThreadsOK' /\ ArgInv'
  <2>1. PICK a \in Heap[ProcessOf[t]] \cup {NULL} : Goto(t, "malloc_ret", a)
    BY DEF Malloc
  <2> QED
    BY <2>1, GotoOK
<1>3. BlocksOK'
  <2>1. CASE UNCHANGED live
    BY <2>1 DEF Malloc, history, BlocksOK
  <2>2. ASSUME NEW a \in Heap[ProcessOf[t]],
               live' = [live EXCEPT ![ProcessOf[t]] = @ \cup {a}]
        PROVE  BlocksOK'
    <3>1. a \in Addrs /\ ProcessOf[t] \in Processes
      BY HeapAddrs, OfThreads
    <3>2. live' \in [Processes -> SUBSET Addrs]
      BY <2>2, <3>1 DEF BlocksOK
    <3>3. misused' = misused /\ overlapped' = overlapped /\ left' = left
      BY DEF Malloc, history
    <3> QED
      BY <3>2, <3>3 DEF BlocksOK
  <2> QED
    BY <2>1, <2>2 DEF Malloc
<1> QED
  BY <1>1, <1>2, <1>3

LEMMA MallocRetType == ASSUME TypeInv, NEW t \in Threads, MallocRet(t) PROVE TypeInv'
<1> USE DEF TypeInv
<1>1. MapOK' /\ RequestsOK'
  <2>1. CASE arg[t] = NULL
    BY <2>1 DEF MallocRet, maps, MapOK, RequestsOK
  <2>2. CASE arg[t] # NULL
    <3>1. /\ heap_allocations' = Update(heap_allocations, arg[t], HeapMax)
          /\ active_malloc_requests' = active_malloc_requests \ {t}
      BY <2>2 DEF MallocRet
    <3>2. arg[t] \in Addrs
      BY <2>2 DEF ThreadsOK
    <3>3. MapOK'
      <4>1. HeapMax \in Nat
        BY LimitAssumption
      <4> QED
        BY <3>1, <3>2, <4>1, UpdateBounded DEF MapOK
    <3>4. RequestsOK'
      <4>1. IsFiniteSet(active_malloc_requests)
        BY ThreadAssumption, FS_Subset DEF RequestsOK
      <4>2. RequestMax \in Nat
        BY LimitAssumption
      <4> QED
        BY <3>1, <4>1, <4>2, RemoveBounded DEF RequestsOK
    <3> QED
      BY <3>3, <3>4
  <2> QED
    BY <2>1, <2>2
<1>2. ThreadsOK' /\ ArgInv'
  BY GotoOK DEF MallocRet
<1>3. RingOK' /\ BlocksOK'
  BY DEF MallocRet, RingOK, BlocksOK, history
<1> QED
  BY <1>1, <1>2, <1>3

LEMMA CallocType == ASSUME TypeInv, NEW t \in Threads, Calloc(t) PROVE TypeInv'
<1> USE DEF TypeInv
<1>1. PICK a \in Heap[ProcessOf[t]] : live' = [live EXCEPT ![ProcessOf[t]] = @ \cup {a}]
  BY DEF Calloc
<1>2. a \in Addrs /\ ProcessOf[t] \in Processes
  BY HeapAddrs, OfThreads
<1>3. BlocksOK'
  BY <1>1, <1>2 DEF Calloc, history, BlocksOK
<1>4. MapOK' /\ RequestsOK' /\ RingOK' /\ ThreadsOK' /\ ArgInv'
  BY DEF Calloc, maps, MapOK, RequestsOK, RingOK, ThreadsOK, ArgInv
<1> QED
  BY <1>3, <1>4

LEMMA FreeEntryType ==
  ASSUME TypeInv, NEW t \in Threads, NEW a \in Addrs, FreeEntry(t, a) PROVE TypeInv'
<1> USE DEF TypeInv
<1>1. a \in Heap[ProcessOf[t]] /\ a # NULL /\ ProcessOf[t] \in Processes
  BY NullApart, OfThreads DEF FreeEntry
<1>2. ThreadsOK' /\ ArgInv'
  <2>1. PICK label \in {"free_hit", "free"} : Goto(t, label, a)
    BY DEF FreeEntry
  <2> QED
    BY <1>1, <2>1, GotoOK
<1>3. RingOK'
  <2>1. CASE UNCHANGED fault_events
    BY <2>1 DEF RingOK
  <2>2. CASE Report("memory_corruption", t, a)
    BY <2>2, ReportBounded
  <2> QED
    BY <2>1, <2>2 DEF FreeEntry
<1>4. BlocksOK'
  <2>1. misused' = misused \/ misused' = [misused EXCEPT ![ProcessOf[t]] = @ \cup {a}]
    BY DEF FreeEntry
  <2>2. overlapped' = overlapped \/ overlapped' = overlapped \cup {a}
    BY DEF FreeEntry
  <2>3. UNCHANGED <<live, left>>
    BY DEF FreeEntry
  <2>4. misused' \in [Processes -> SUBSET Addrs]
    BY <1>1, <2>1 DEF BlocksOK
  <2> QED
    BY <2>2, <2>3, <2>4 DEF BlocksOK
<1>5. MapOK' /\ RequestsOK'
  BY DEF FreeEntry, maps, MapOK, RequestsOK
<1> QED
  BY <1>2, <1>3, <1>4, <1>5

LEMMA FreeDeleteType == ASSUME TypeInv, NEW t \in Threads, FreeDelete(t) PROVE TypeInv'
<1> USE DEF TypeInv
<1>1. arg[t] # NULL /\ arg[t] \in Heap[ProcessOf[t]]
  BY DEF FreeDelete, ArgInv
<1>2. ThreadsOK' /\ ArgInv'
  BY <1>1, GotoOK DEF FreeDelete
<1>3. MapOK'
  <2>1. heap_allocations' = heap_allocations \ {arg[t]}
    BY DEF FreeDelete
  <2>2. HeapMax \in Nat
    BY LimitAssumption
  <2> QED
    BY <2>1, <2>2, RemoveBounded DEF MapOK
<1>4. RequestsOK' /\ RingOK' /\ BlocksOK'
  BY DEF FreeDelete, RequestsOK, RingOK, BlocksOK, history
<1> QED
  BY <1>2, <1>3, <1>4

LEMMA FreeType == ASSUME TypeInv, NEW t \in Threads, Free(t) PROVE TypeInv'
<1> USE DEF TypeInv
<1>1. ThreadsOK' /\ ArgInv'
  BY GotoOK DEF Free
<1>2. BlocksOK'
  BY OfThreads DEF Free, BlocksOK
<1>3. MapOK' /\ RequestsOK' /\ RingOK'
  BY DEF Free, maps, MapOK, RequestsOK, RingOK
<1> QED
  BY <1>1, <1>2, <1>3

LEMMA PageFaultType == ASSUME TypeInv, NEW t \in Threads, PageFault(t) PROVE TypeInv'
<1> USE DEF TypeInv
<1>1. RingOK'
  <2>1. CASE UNCHANGED fault_events
    BY <2>1 DEF RingOK
  <2>2. CASE Report("invariant", t, NULL)
    BY <2>2, ReportBounded
  <2> QED
    BY <2>1, <2>2 DEF PageFault
<1>2. MapOK' /\ RequestsOK' /\ ThreadsOK' /\ BlocksOK' /\ ArgInv'
  BY DEF PageFault, maps, history, MapOK, RequestsOK, ThreadsOK, BlocksOK, ArgInv
<1> QED
  BY <1>1, <1>2

LEMMA ExitType == ASSUME TypeInv, NEW p \in Processes, Exit(p) PROVE TypeInv'
<1> USE DEF TypeInv
<1>1. /\ pc' = [u \in Threads |-> IF ProcessOf[u] = p THEN "user" ELSE pc[u]]
      /\ arg' = [u \in Threads |-> IF ProcessOf[u] = p THEN NULL ELSE arg[u]]
  BY DEF Exit
<1>2. ThreadsOK'
  BY <1>1 DEF ThreadsOK
<1>3. ArgInv'
  BY <1>1 DEF ArgInv
<1>4. BlocksOK'
  BY DEF Exit, BlocksOK
<1>5. MapOK' /\ RequestsOK' /\ RingOK'
  BY DEF Exit, maps, MapOK, RequestsOK, RingOK
<1> QED
  BY <1>2, <1>3, <1>4, <1>5

LEMMA TypeStep == TypeInv /\ [Next]_vars => TypeInv'
<1> SUFFICES ASSUME TypeInv, [Next]_vars PROVE TypeInv'
  OBVIOUS
<1>1. ASSUME NEW t \in Threads,
             MallocEntry(t) \/ Malloc(t) \/ MallocRet(t) \/ Calloc(t)
             \/ FreeDelete(t) \/ Free(t) \/ PageFault(t)
      PROVE  TypeInv'
  BY <1>1, MallocEntryType, MallocType, MallocRetType, CallocType, FreeDeleteType,
     FreeType, PageFaultType
<1>2. ASSUME NEW t \in Threads, NEW a \in Addrs, FreeEntry(t, a) PROVE TypeInv'
  BY <1>2, FreeEntryType
<1>3. ASSUME NEW p \in Processes, Exit(p) PROVE TypeInv'
  BY <1>3, ExitType
<1>4. CASE UNCHANGED vars
  BY <1>4 DEF vars, maps, history, TypeInv, MapOK, RequestsOK, RingOK, ThreadsOK, BlocksOK, ArgInv
<1> QED
  BY <1>1, <1>2, <1>3, <1>4 DEF Next

(* The maps stay within their limits, the ring within its size, and each   *)
(* thread is in a call with an address the program can have.               *)
THEOREM TypeCorrect == Spec => []TypeOK
<1>1. TypeInv => TypeOK
  BY DEF TypeInv, MapOK, RequestsOK, RingOK, ThreadsOK, BlocksOK, TypeOK
<1> QED
  BY <1>1, InitType, TypeStep, PTL DEF Spec

-----------------------------------------------------------------------------
(* What the probes know, for proper programs on a map that is large enough.*)

Mine(t, p, a) == ProcessOf[t] = p /\ arg[t] = a

(* A block that no call is working on is in the map, misused or not.       *)
KnownInv ==
  \A p \in Processes, a \in Addrs :
    a \in Heap[p] /\ a \in live[p] /\ (\A t \in Threads : ~Mine(t, p, a))
      => a \in heap_allocations

(* In a process without mistakes a call works on a block that is in use,   *)
(* and no other one does.                                                  *)
OneInv ==
  \A t, u \in Threads :
    misused[ProcessOf[t]] = {} /\ arg[t] # NULL =>
      /\ arg[t] \in live[ProcessOf[t]]
      /\ Mine(u, ProcessOf[t], arg[t]) => u = t

(* A block that is about to be freed has left the map.                     *)
GoneInv ==
  \A t \in Threads :
    misused[ProcessOf[t]] = {} /\ pc[t] = "free" => arg[t] \notin heap_allocations

(* The map holds no other blocks than those in use.                        *)
HeapInv ==
  \A p \in Processes, a \in Addrs :
    misused[p] = {} /\ a \in Heap[p] /\ a \in heap_allocations => a \in live[p] \cup left

Alarms ==
  \A k \in DOMAIN fault_events :
    fault_events[k].class = "memory_corruption" =>
      fault_events[k].addr \in misused[fault_events[k].pid]

Sound == KnownInv /\ OneInv /\ GoneInv /\ HeapInv /\ Alarms

LEMMA InitSound == Init => Sound
BY DEF Init, Sound, KnownInv, OneInv, GoneInv, HeapInv, Alarms

(* How a thread that goes on changes who works on what.                    *)
LEMMA GotoMine ==
  ASSUME ThreadsOK, NEW t \in Threads, NEW a, NEW label, Goto(t, label, a)
  PROVE  /\ arg'[t] = a /\ pc'[t] = label
         /\ \A u \in Threads : u # t => arg'[u] = arg[u] /\ pc'[u] = pc[u]
BY DEF Goto, ThreadsOK

(* Nothing is ever missing from the map for want of room.                  *)
LEMMA RoomForAll ==
  ASSUME HeapFits, MapOK, NEW a \in Addrs
  PROVE  Update(heap_allocations, a, HeapMax) = heap_allocations \cup {a}
<1>1. CASE a \in heap_allocations
  BY <1>1 DEF Update
<1>2. CASE a \notin heap_allocations
  <2> DEFINE S == heap_allocations \cup {a}
  <2>1. S \in SUBSET Addrs
    BY DEF MapOK
  <2>2. Cardinality(S) <= Cardinality(Addrs)
    BY <2>1, FS_Subset DEF HeapFits
  <2>3. Cardinality(S) = Cardinality(heap_allocations) + 1
    BY <1>2, FS_AddElement DEF MapOK
  <2>4. Cardinality(heap_allocations) \in Nat /\ Cardinality(Addrs) \in Nat
    BY FS_CardinalityType DEF MapOK, HeapFits
  <2>5. HeapMax \in Nat
    BY LimitAssumption
  <2> HIDE DEF S
  <2>6. Cardinality(heap_allocations) < HeapMax
    BY <2>2, <2>3, <2>4, <2>5 DEF HeapFits
  <2> QED
    BY <2>6 DEF Update
<1> QED
  BY <1>1, <1>2

(* What a call of one process works on is no block of another.             *)
LEMMA Apart ==
  ASSUME HeapsApart, ArgInv, NEW t \in Threads, arg[t] # NULL,
         NEW p \in Processes, arg[t] \in Heap[p]
  PROVE  ProcessOf[t] = p
BY OfThreads DEF HeapsApart, ArgInv

LEMMA MallocEntrySound ==
  ASSUME Proper, TypeInv, Sound, NEW t \in Threads, MallocEntry(t) PROVE Sound'
<1>1. /\ pc[t] = "user" /\ arg[t] = NULL
      /\ UNCHANGED <<heap_allocations, fault_events, live, misused, left>>
  BY DEF MallocEntry, history, TypeInv, ArgInv
<1>2. /\ arg'[t] = NULL /\ pc'[t] = "malloc"
      /\ \A u \in Threads : u # t => arg'[u] = arg[u] /\ pc'[u] = pc[u]
  BY GotoMine DEF MallocEntry, TypeInv
<1>3. \A u \in Threads : arg'[u] = arg[u]
  BY <1>1, <1>2
<1>4. KnownInv' /\ OneInv'
  BY <1>1, <1>3 DEF Sound, KnownInv, OneInv, Mine
<1>5. GoneInv'
  BY <1>1, <1>2, <1>3 DEF Sound, GoneInv
<1>6. HeapInv' /\ Alarms'
  BY <1>1 DEF Sound, HeapInv, Alarms
<1> QED
  BY <1>4, <1>5, <1>6 DEF Sound

(* libc does not return a block in use.                                    *)
LEMMA MallocSound ==
  ASSUME Proper, TypeInv, Sound, NEW t \in Threads, Malloc(t) PROVE Sound'
<1> DEFINE q == ProcessOf[t]
<1>1. /\ pc[t] = "malloc" /\ arg[t] = NULL /\ q \in Processes
      /\ UNCHANGED <<heap_allocations, fault_events, misused, left>>
  BY OfThreads DEF Malloc, maps, history, TypeInv, ArgInv
<1>2. PICK b : /\ Goto(t, "malloc_ret", b)
               /\ \/ b \in Heap[q] \ live[q] /\ live' = [live EXCEPT ![q] = @ \cup {b}]
                  \/ b = NULL /\ live' = live
  BY DEF Malloc
<1>3. /\ arg'[t] = b /\ pc'[t] = "malloc_ret"
      /\ \A u \in Threads : u # t => arg'[u] = arg[u] /\ pc'[u] = pc[u]
  BY <1>2, GotoMine DEF TypeInv
<1>4. \A p \in Processes :
        /\ live[p] \subseteq live'[p]
        /\ \A a : a \in live'[p] => a \in live[p] \/ (p = q /\ a = b)
        /\ b # NULL => b \in live'[q] /\ b \notin live[q]
  BY <1>1, <1>2 DEF TypeInv, BlocksOK
<1>5. KnownInv'
  <2> SUFFICES ASSUME NEW p \in Processes, NEW a \in Addrs, a \in Heap[p], a \in live'[p],
                      \A u \in Threads : ~Mine(u, p, a)'
               PROVE  a \in heap_allocations
    BY <1>1 DEF KnownInv
  <2>1. ~(p = q /\ a = b)
    BY <1>3 DEF Mine
  <2>2. a \in live[p]
    BY <1>4, <2>1
  <2>3. a # NULL
    BY NullApart
  <2>4. \A u \in Threads : ~Mine(u, p, a)
    BY <1>1, <1>3, <2>3 DEF Mine
  <2> QED
    BY <2>2, <2>4 DEF Sound, KnownInv
<1>6. OneInv'
  <2> SUFFICES ASSUME NEW u \in Threads, NEW v \in Threads,
                      misused[ProcessOf[u]] = {}, arg'[u] # NULL
               PROVE  /\ arg'[u] \in live'[ProcessOf[u]]
                      /\ ProcessOf[v] = ProcessOf[u] /\ arg'[v] = arg'[u] => v = u
    BY <1>1 DEF OneInv, Mine
  <2>1. ASSUME NEW w \in Threads, w # t, arg[w] # NULL, misused[ProcessOf[w]] = {},
               ProcessOf[w] = q
        PROVE  arg[w] # b
    <3>1. arg[w] \in live[q]
      BY <2>1 DEF Sound, OneInv
    <3> QED
      BY <3>1, <1>1, <1>2, <2>1
  <2>2. CASE u = t
    BY <1>3, <1>4, <2>1, <2>2, <1>1, <1>2
  <2>3. CASE u # t
    <3>1. arg[u] # NULL /\ arg'[u] = arg[u] /\ ProcessOf[u] \in Processes
      BY <1>3, <2>3, OfThreads
    <3>2. arg[u] \in live[ProcessOf[u]]
      BY <3>1 DEF Sound, OneInv
    <3>3. ASSUME ProcessOf[v] = ProcessOf[u], arg'[v] = arg'[u] PROVE v = u
      <4>1. v # t
        BY <3>1, <3>3, <1>3, <2>1, <2>3
      <4> QED
        BY <4>1, <3>1, <3>3, <1>3 DEF Sound, OneInv, Mine
    <3> QED
      BY <3>1, <3>2, <3>3, <1>4
  <2> QED
    BY <2>2, <2>3
<1>7. GoneInv'
  BY <1>1, <1>3 DEF Sound, GoneInv
<1>8. HeapInv' /\ Alarms'
  BY <1>1, <1>4 DEF Sound, HeapInv, Alarms
<1> QED
  BY <1>5, <1>6, <1>7, <1>8 DEF Sound

LEMMA MallocRetSound ==
  ASSUME Proper, TypeInv, Sound, NEW t \in Threads, MallocRet(t) PROVE Sound'
<1> DEFINE q == ProcessOf[t]
<1>1. /\ UNCHANGED <<fault_events, live, misused, left>> /\ q \in Processes
      /\ pc[t] = "malloc_ret"
  BY OfThreads DEF MallocRet, history
<1>2. /\ arg'[t] = NULL /\ pc'[t] = "user"
      /\ \A u \in Threads : u # t => arg'[u] = arg[u] /\ pc'[u] = pc[u]
  BY GotoMine DEF MallocRet, TypeInv
<1>3. CASE arg[t] = NULL
  <2>1. heap_allocations' = heap_allocations /\ \A u \in Threads : arg'[u] = arg[u]
    BY <1>2, <1>3 DEF MallocRet, maps
  <2>2. KnownInv' /\ OneInv'
    BY <1>1, <2>1 DEF Sound, KnownInv, OneInv, Mine
  <2>3. GoneInv'
    BY <1>1, <1>2, <2>1 DEF Sound, GoneInv
  <2>4. HeapInv' /\ Alarms'
    BY <1>1, <2>1 DEF Sound, HeapInv, Alarms
  <2> QED
    BY <2>2, <2>3, <2>4 DEF Sound
<1>4. CASE arg[t] # NULL
  <2>1. arg[t] \in Addrs
    BY <1>4 DEF TypeInv, ThreadsOK
  <2>2. heap_allocations' = heap_allocations \cup {arg[t]}
    BY <1>4, <2>1, RoomForAll DEF MallocRet, TypeInv, Proper
  <2>3. KnownInv'
    <3> SUFFICES ASSUME NEW p \in Processes, NEW a \in Addrs, a \in Heap[p], a \in live[p],
                        \A u \in Threads : ~Mine(u, p, a)', a # arg[t]
                 PROVE  a \in heap_allocations
      BY <1>1, <2>2 DEF KnownInv
    <3>1. \A u \in Threads : ~Mine(u, p, a)
      BY <1>2 DEF Mine
    <3> QED
      BY <3>1 DEF Sound, KnownInv
  <2>4. OneInv'
    <3> SUFFICES ASSUME NEW u \in Threads, NEW v \in Threads,
                        misused[ProcessOf[u]] = {}, arg'[u] # NULL
                 PROVE  /\ arg'[u] \in live[ProcessOf[u]]
                        /\ ProcessOf[v] = ProcessOf[u] /\ arg'[v] = arg'[u] => v = u
      BY <1>1 DEF OneInv, Mine
    <3>1. u # t /\ arg'[u] = arg[u]
      BY <1>2
    <3>2. arg'[v] = arg'[u] => v # t /\ arg'[v] = arg[v]
      BY <1>2
    <3> QED
      BY <3>1, <3>2 DEF Sound, OneInv, Mine
  <2>5. GoneInv'
    <3> SUFFICES ASSUME NEW u \in Threads, misused[ProcessOf[u]] = {}, pc'[u] = "free"
                 PROVE  arg'[u] \notin heap_allocations'
      BY <1>1 DEF GoneInv
    <3>1. u # t /\ arg'[u] = arg[u] /\ pc[u] = "free"
      BY <1>2
    <3>2. arg[u] \notin heap_allocations /\ arg[u] # NULL
      BY <3>1 DEF Sound, GoneInv, TypeInv, ArgInv
    <3>3. arg[u] # arg[t]
      <4> SUFFICES ASSUME arg[u] = arg[t] PROVE FALSE
        OBVIOUS
      <4>1. arg[t] \in Heap[ProcessOf[u]]
        BY <3>2 DEF TypeInv, ArgInv
      <4>2. ProcessOf[t] = ProcessOf[u]
        BY <4>1, <1>4, Apart, OfThreads DEF TypeInv, Proper
      <4> QED
        BY <4>2, <3>1, <3>2 DEF Sound, OneInv, Mine
    <3> QED
      BY <2>2, <3>1, <3>2, <3>3
  <2>6. HeapInv'
    <3> SUFFICES ASSUME NEW p \in Processes, NEW a \in Addrs, misused[p] = {}, a \in Heap[p],
                        a \in heap_allocations'
                 PROVE  a \in live[p] \cup left
      BY <1>1 DEF HeapInv
    <3>1. CASE a \in heap_allocations
      BY <3>1 DEF Sound, HeapInv
    <3>2. CASE a = arg[t]
      <4>1. ProcessOf[t] = p
        BY <3>2, <1>4, Apart DEF TypeInv, Proper
      <4> QED
        BY <4>1, <3>2, <1>4 DEF Sound, OneInv
    <3> QED
      BY <2>2, <3>1, <3>2
  <2>7. Alarms'
    BY <1>1 DEF Sound, Alarms
  <2> QED
    BY <2>3, <2>4, <2>5, <2>6, <2>7 DEF Sound
<1> QED
  BY <1>3, <1>4

(* An event that is reported is added at the end.                          *)
LEMMA ReportAdds ==
  ASSUME RingOK, NEW class, NEW t, NEW a, Report(class, t, a)
  PROVE  \A k \in DOMAIN fault_events' :
           \/ k \in DOMAIN fault_events /\ fault_events'[k] = fault_events[k]
           \/ fault_events'[k] = [class |-> class, pid |-> ProcessOf[t], addr |-> a]
<1> DEFINE e == [class |-> class, pid |-> ProcessOf[t], addr |-> a]
<1>1. fault_events' = Append(fault_events, e) \/ fault_events' = fault_events
  BY DEF Report
<1>2. fault_events \in Seq(Events)
  BY DEF RingOK
<1> HIDE DEF e
<1>3. \A k \in DOMAIN fault_events' :
        \/ k \in DOMAIN fault_events /\ fault_events'[k] = fault_events[k]
        \/ fault_events'[k] = e
  <2>1. CASE fault_events' = fault_events
    BY <2>1
  <2>2. CASE fault_events' = Append(fault_events, e)
    BY <1>2, <2>2
  <2> QED
    BY <1>1, <2>1, <2>2
<1> QED
  BY <1>3 DEF e

(* The step the properties are about: an address that is not in the map is *)
(* not in use, or is being worked on.                                      *)
LEMMA FreeEntrySound ==
  ASSUME Proper, TypeInv, Sound, NEW t \in Threads, NEW a \in Addrs, FreeEntry(t, a)
  PROVE  Sound'
<1> DEFINE q == ProcessOf[t]
<1>1. /\ pc[t] = "user" /\ a \in Heap[q] /\ q \in Processes /\ a # NULL /\ arg[t] = NULL
      /\ UNCHANGED <<heap_allocations, live, left>>
  BY OfThreads, NullApart DEF FreeEntry, maps, TypeInv, ArgInv
<1>2. /\ arg'[t] = a /\ pc'[t] \in {"free_hit", "free"}
      /\ (pc'[t] = "free" => a \notin heap_allocations)
      /\ \A u \in Threads : u # t => arg'[u] = arg[u] /\ pc'[u] = pc[u]
  <2>1. CASE a \in heap_allocations
    <3>1. Goto(t, "free_hit", a)
      BY <2>1 DEF FreeEntry
    <3> QED
      BY <3>1, GotoMine DEF TypeInv
  <2>2. CASE a \notin heap_allocations
    <3>1. Goto(t, "free", a)
      BY <2>2 DEF FreeEntry
    <3> QED
      BY <2>2, <3>1, GotoMine DEF TypeInv
  <2> QED
    BY <2>1, <2>2
<1>3. /\ \A p \in Processes : misused[p] \subseteq misused'[p]
      /\ \/ a \in misused'[q]
         \/ misused' = misused /\ a \in live[q] /\ \A u \in Threads : ~Mine(u, q, a)
  <2>1. CASE ~Owned(q, a) \/ Freeing(q, a)
    <3>1. misused' = [misused EXCEPT ![q] = @ \cup {a}]
      BY <2>1 DEF FreeEntry
    <3> QED
      BY <3>1, <1>1 DEF TypeInv, BlocksOK
  <2>2. CASE Owned(q, a) /\ ~Freeing(q, a)
    <3>1. misused' = misused
      BY <2>2 DEF FreeEntry
    <3>2. a \in live[q]
      BY <2>2 DEF Owned
    <3>3. ASSUME NEW u \in Threads, Mine(u, q, a) PROVE FALSE
      <4>1. pc[u] \in {"malloc_ret", "free_hit", "free"}
        BY <3>3, <1>1 DEF Mine, TypeInv, ArgInv, ThreadsOK
      <4> QED
        BY <4>1, <3>3, <2>2 DEF Owned, Freeing, Mine
    <3> QED
      BY <3>1, <3>2, <3>3
  <2> QED
    BY <2>1, <2>2
<1>4. KnownInv'
  <2> SUFFICES ASSUME NEW p \in Processes, NEW b \in Addrs, b \in Heap[p], b \in live[p],
                      \A u \in Threads : ~Mine(u, p, b)'
               PROVE  b \in heap_allocations
    BY <1>1 DEF KnownInv
  <2>1. b # NULL
    BY NullApart
  <2>2. \A u \in Threads : ~Mine(u, p, b)
    BY <1>1, <1>2, <2>1 DEF Mine
  <2> QED
    BY <2>2 DEF Sound, KnownInv
<1>5. OneInv'
  <2> SUFFICES ASSUME NEW u \in Threads, NEW v \in Threads,
                      misused'[ProcessOf[u]] = {}, arg'[u] # NULL
               PROVE  /\ arg'[u] \in live[ProcessOf[u]]
                      /\ ProcessOf[v] = ProcessOf[u] /\ arg'[v] = arg'[u] => v = u
    BY <1>1 DEF OneInv, Mine
  <2>1. misused[ProcessOf[u]] = {}
    BY <1>3, OfThreads
  <2>2. CASE u = t
    <3>1. a \in live[q] /\ \A w \in Threads : ~Mine(w, q, a)
      BY <1>3, <2>2
    <3> QED
      BY <1>2, <2>2, <3>1 DEF Mine
  <2>3. CASE u # t
    <3>1. arg'[u] = arg[u] /\ arg[u] \in live[ProcessOf[u]]
      BY <1>2, <2>1, <2>3 DEF Sound, OneInv
    <3>2. ASSUME ProcessOf[v] = ProcessOf[u], arg'[v] = arg'[u], v = t PROVE FALSE
      <4>1. Mine(u, q, a)
        BY <3>1, <3>2, <1>2 DEF Mine
      <4>2. a \notin misused'[q]
        BY <3>2
      <4> QED
        BY <4>1, <4>2, <1>3
    <3>3. ASSUME ProcessOf[v] = ProcessOf[u], arg'[v] = arg'[u], v # t PROVE v = u
      BY <3>1, <3>3, <1>2, <2>1 DEF Sound, OneInv, Mine
    <3> QED
      BY <3>1, <3>2, <3>3
  <2> QED
    BY <2>2, <2>3
<1>6. GoneInv'
  <2> SUFFICES ASSUME NEW u \in Threads, misused'[ProcessOf[u]] = {}, pc'[u] = "free"
               PROVE  arg'[u] \notin heap_allocations
    BY <1>1 DEF GoneInv
  <2>1. misused[ProcessOf[u]] = {}
    BY <1>3, OfThreads
  <2> QED
    BY <2>1, <1>2 DEF Sound, GoneInv
<1>7. HeapInv'
  <2> SUFFICES ASSUME NEW p \in Processes, NEW b \in Addrs, misused'[p] = {}, b \in Heap[p],
                      b \in heap_allocations
               PROVE  b \in live[p] \cup left
    BY <1>1 DEF HeapInv
  <2> QED
    BY <1>3 DEF Sound, HeapInv
<1>8. Alarms'
  <2> SUFFICES ASSUME NEW k \in DOMAIN fault_events',
                      fault_events'[k].class = "memory_corruption"
               PROVE  fault_events'[k].addr \in misused'[fault_events'[k].pid]
    BY DEF Alarms
  <2>1. ASSUME k \in DOMAIN fault_events, fault_events'[k] = fault_events[k]
        PROVE  fault_events'[k].addr \in misused'[fault_events'[k].pid]
    <3>1. fault_events[k] \in Events
      BY <2>1 DEF TypeInv, RingOK
    <3>2. fault_events[k].pid \in Processes
      BY <3>1 DEF Events
    <3> QED
      BY <2>1, <3>2, <1>3 DEF Sound, Alarms
  <2>2. CASE a \in heap_allocations
    BY <2>1, <2>2 DEF FreeEntry
  <2>3. CASE a \notin heap_allocations
    <3>1. Report("memory_corruption", t, a)
      BY <2>3 DEF FreeEntry
    <3>2. \/ k \in DOMAIN fault_events /\ fault_events'[k] = fault_events[k]
          \/ fault_events'[k] = [class |-> "memory_corruption", pid |-> q, addr |-> a]
      BY <3>1, ReportAdds DEF TypeInv
    <3>3. a \in misused'[q]
      BY <1>1, <1>3, <2>3 DEF Sound, KnownInv
    <3> QED
      BY <2>1, <3>2, <3>3
  <2> QED
    BY <2>2, <2>3
<1> QED
  BY <1>4, <1>5, <1>6, <1>7, <1>8 DEF Sound

LEMMA FreeDeleteSound ==
  ASSUME Proper, TypeInv, Sound, NEW t \in Threads, FreeDelete(t) PROVE Sound'
<1>1. /\ pc[t] = "free_hit" /\ heap_allocations' = heap_allocations \ {arg[t]}
      /\ UNCHANGED <<fault_events, live, misused, left>>
      /\ arg[t] # NULL
  BY DEF FreeDelete, history, TypeInv, ArgInv
<1>2. /\ pc'[t] = "free" /\ arg'[t] = arg[t]
      /\ \A u \in Threads : u # t => arg'[u] = arg[u] /\ pc'[u] = pc[u]
  BY GotoMine DEF FreeDelete, TypeInv
<1>3. \A u \in Threads : arg'[u] = arg[u]
  BY <1>2
<1>4. KnownInv'
  <2> SUFFICES ASSUME NEW p \in Processes, NEW a \in Addrs, a \in Heap[p], a \in live[p],
                      \A u \in Threads : ~Mine(u, p, a)
               PROVE  a \in heap_allocations'
    BY <1>1, <1>3 DEF KnownInv, Mine
  <2>1. a \in heap_allocations
    BY DEF Sound, KnownInv
  <2>2. a # arg[t]
    BY <1>1, Apart DEF Mine, TypeInv, Proper
  <2> QED
    BY <1>1, <2>1, <2>2
<1>5. OneInv'
  BY <1>1, <1>3 DEF Sound, OneInv, Mine
<1>6. GoneInv'
  BY <1>1, <1>2, <1>3 DEF Sound, GoneInv
<1>7. HeapInv' /\ Alarms'
  BY <1>1 DEF Sound, HeapInv, Alarms
<1> QED
  BY <1>4, <1>5, <1>6, <1>7 DEF Sound

LEMMA FreeSound ==
  ASSUME Proper, TypeInv, Sound, NEW t \in Threads, Free(t) PROVE Sound'
<1> DEFINE q == ProcessOf[t]
<1>1. /\ pc[t] = "free" /\ q \in Processes /\ arg[t] # NULL /\ arg[t] \in Heap[q]
      /\ live' = [live EXCEPT ![q] = @ \ {arg[t]}] /\ left' = left \ {arg[t]}
      /\ UNCHANGED <<heap_allocations, fault_events, misused>>
  BY OfThreads DEF Free, maps, TypeInv, ArgInv
<1>2. /\ arg'[t] = NULL /\ pc'[t] = "user"
      /\ \A u \in Threads : u # t => arg'[u] = arg[u] /\ pc'[u] = pc[u]
  BY GotoMine DEF Free, TypeInv
<1>3. \A p \in Processes : \A a : a \in live'[p] <=> a \in live[p] /\ ~(p = q /\ a = arg[t])
  BY <1>1 DEF TypeInv, BlocksOK
<1>4. KnownInv'
  <2> SUFFICES ASSUME NEW p \in Processes, NEW a \in Addrs, a \in Heap[p], a \in live'[p],
                      \A u \in Threads : ~Mine(u, p, a)'
               PROVE  a \in heap_allocations
    BY <1>1 DEF KnownInv
  <2>1. a \in live[p] /\ ~(p = q /\ a = arg[t])
    BY <1>3
  <2>2. \A u \in Threads : ~Mine(u, p, a)
    BY <1>2, <2>1 DEF Mine
  <2> QED
    BY <2>1, <2>2 DEF Sound, KnownInv
<1>5. OneInv'
  <2> SUFFICES ASSUME NEW u \in Threads, NEW v \in Threads,
                      misused[ProcessOf[u]] = {}, arg'[u] # NULL
               PROVE  /\ arg'[u] \in live'[ProcessOf[u]]
                      /\ ProcessOf[v] = ProcessOf[u] /\ arg'[v] = arg'[u] => v = u
    BY <1>1 DEF OneInv, Mine
  <2>1. u # t /\ arg'[u] = arg[u]
    BY <1>2
  <2>2. arg[u] \in live[ProcessOf[u]] /\ ~(ProcessOf[u] = q /\ arg[u] = arg[t])
    BY <2>1 DEF Sound, OneInv, Mine
  <2>3. arg'[v] = arg'[u] => v # t /\ arg'[v] = arg[v]
    BY <1>2
  <2>4. arg'[u] \in live'[ProcessOf[u]]
    BY <1>3, <2>1, <2>2, OfThreads
  <2> QED
    BY <2>1, <2>3, <2>4 DEF Sound, OneInv, Mine
<1>6. GoneInv'
  BY <1>1, <1>2 DEF Sound, GoneInv
<1>7. HeapInv'
  <2> SUFFICES ASSUME NEW p \in Processes, NEW a \in Addrs, misused[p] = {}, a \in Heap[p],
                      a \in heap_allocations
               PROVE  a \in live'[p] \cup left'
    BY <1>1 DEF HeapInv
  <2>1. a # arg[t]
    <3> SUFFICES ASSUME a = arg[t] PROVE FALSE
      OBVIOUS
    <3>1. q = p
      BY <1>1, Apart DEF TypeInv, Proper
    <3> QED
      BY <1>1, <3>1 DEF Sound, GoneInv
  <2>2. a \in live[p] \cup left
    BY DEF Sound, HeapInv
  <2> QED
    BY <1>1, <1>3, <2>1, <2>2
<1>8. Alarms'
  BY <1>1 DEF Sound, Alarms
<1> QED
  BY <1>4, <1>5, <1>6, <1>7, <1>8 DEF Sound

LEMMA PageFaultSound ==
  ASSUME TypeInv, Sound, NEW t \in Threads, PageFault(t) PROVE Sound'
<1>1. UNCHANGED <<heap_allocations, pc, arg, live, misused, left>>
  BY DEF PageFault, maps, history
<1>2. Alarms'
  <2>1. CASE UNCHANGED fault_events
    BY <1>1, <2>1 DEF Sound, Alarms
  <2>2. CASE Report("invariant", t, NULL)
    <3>1. \A k \in DOMAIN fault_events' :
            \/ k \in DOMAIN fault_events /\ fault_events'[k] = fault_events[k]
            \/ fault_events'[k] = [class |-> "invariant", pid |-> ProcessOf[t], addr |-> NULL]
      BY <2>2, ReportAdds DEF TypeInv
    <3> QED
      BY <1>1, <3>1 DEF Sound, Alarms
  <2> QED
    BY <2>1, <2>2 DEF PageFault
<1> QED
  BY <1>1, <1>2 DEF Sound, KnownInv, OneInv, GoneInv, HeapInv, Mine

(* The blocks of a process that exits stay in the map.                     *)
LEMMA ExitSound ==
  ASSUME TypeInv, Sound, NEW p \in Processes, Exit(p) PROVE Sound'
<1>1. /\ live' = [live EXCEPT ![p] = {}] /\ left' = left \cup live[p]
      /\ UNCHANGED <<heap_allocations, fault_events, misused>>
  BY DEF Exit, maps
<1>2. \A u \in Threads : IF ProcessOf[u] = p THEN arg'[u] = NULL /\ pc'[u] = "user"
                         ELSE arg'[u] = arg[u] /\ pc'[u] = pc[u]
  BY DEF Exit
<1>3. /\ live'[p] = {}
      /\ \A q \in Processes : q # p => live'[q] = live[q]
  BY <1>1 DEF TypeInv, BlocksOK
<1>4. KnownInv'
  BY <1>1, <1>2, <1>3 DEF Sound, KnownInv, Mine
<1>5. OneInv'
  <2> SUFFICES ASSUME NEW u \in Threads, NEW v \in Threads,
                      misused[ProcessOf[u]] = {}, arg'[u] # NULL
               PROVE  /\ arg'[u] \in live'[ProcessOf[u]]
                      /\ ProcessOf[v] = ProcessOf[u] /\ arg'[v] = arg'[u] => v = u
    BY <1>1 DEF OneInv, Mine
  <2>1. ProcessOf[u] # p /\ arg'[u] = arg[u]
    BY <1>2
  <2>2. ProcessOf[v] = ProcessOf[u] => arg'[v] = arg[v]
    BY <1>2, <2>1
  <2>3. live'[ProcessOf[u]] = live[ProcessOf[u]]
    BY <1>3, <2>1, OfThreads
  <2> QED
    BY <2>1, <2>2, <2>3 DEF Sound, OneInv, Mine
<1>6. GoneInv'
  BY <1>1, <1>2 DEF Sound, GoneInv
<1>7. HeapInv'
  BY <1>1, <1>3 DEF Sound, HeapInv
<1>8. Alarms'
  BY <1>1 DEF Sound, Alarms
<1> QED
  BY <1>4, <1>5, <1>6, <1>7, <1>8 DEF Sound

LEMMA SoundStep == Proper => (TypeInv /\ Sound /\ [Next]_vars => Sound')
<1> SUFFICES ASSUME Proper, TypeInv, Sound, [Next]_vars PROVE Sound'
  OBVIOUS
<1>1. ASSUME NEW t \in Threads,
             MallocEntry(t) \/ Malloc(t) \/ MallocRet(t) \/ FreeDelete(t)
             \/ Free(t) \/ PageFault(t)
      PROVE  Sound'
  BY <1>1, MallocEntrySound, MallocSound, MallocRetSound, FreeDeleteSound, FreeSound,
     PageFaultSound
<1>2. ASSUME NEW t \in Threads, Calloc(t) PROVE FALSE
  BY <1>2 DEF Calloc, Proper
<1>3. ASSUME NEW t \in Threads, NEW a \in Addrs, FreeEntry(t, a) PROVE Sound'
  BY <1>3, FreeEntrySound
<1>4. ASSUME NEW p \in Processes, Exit(p) PROVE Sound'
  BY <1>4, ExitSound
<1>5. CASE UNCHANGED vars
  <2>1. UNCHANGED <<heap_allocations, fault_events, pc, arg, live, misused, left>>
    BY <1>5 DEF vars, maps, history
  <2>2. KnownInv' /\ OneInv' /\ GoneInv'
    BY <2>1 DEF Sound, KnownInv, OneInv, GoneInv, Mine
  <2>3. HeapInv' /\ Alarms'
    BY <2>1 DEF Sound, HeapInv, Alarms
  <2> QED
    BY <2>2, <2>3 DEF Sound
<1> QED
  BY <1>1, <1>2, <1>3, <1>4, <1>5 DEF Next

LEMMA AlwaysSound == ASSUME Proper PROVE Spec => [](TypeInv /\ Sound)
<1>1. TypeInv /\ Sound /\ [Next]_vars => Sound'
  BY SoundStep
<1> QED
  BY <1>1, InitType, TypeStep, InitSound, PTL DEF Spec

(* Line 63 reports an address as "double-free or wild pointer": with apart *)
(* heaps and room in the map it is one, for any number of threads that     *)
(* interleave between the calls of the helpers.                            *)
THEOREM ReportsMisuse ==
  ASSUME Proper
  PROVE  Spec => []NoFalseAlarm
<1>1. Alarms => NoFalseAlarm
  BY DEF Alarms, NoFalseAlarm, Reported, Range
<1> QED
  BY <1>1, AlwaysSound, PTL DEF Sound

(* Between the calls that are under way the map holds the blocks in use of *)
(* a process without mistakes, and only what an exit has left besides.     *)
THEOREM MapIsHeap ==
  ASSUME Proper
  PROVE  Spec => []TracksHeap
<1>1. KnownInv /\ HeapInv => TracksHeap
  BY DEF KnownInv, HeapInv, TracksHeap, Mine
<1> QED
  BY <1>1, AlwaysSound, PTL DEF Sound

-----------------------------------------------------------------------------
(***************************************************************************)
(* The other direction: no misuse is missed. Here the map may be full and  *)
(* programs may use other allocators, but no process exits, since a new    *)
(* one would find the entries of its blocks. What was said above of whole  *)
(* processes without mistakes is said of each address that its process has *)
(* not misused so far.                                                     *)
(***************************************************************************)

Lasting == HeapsApart /\ ~Exits

(* A call that works on such an address is alone with it, and it is in use.*)
UseInv ==
  \A t \in Threads :
    arg[t] # NULL /\ arg[t] \notin misused[ProcessOf[t]] =>
      /\ arg[t] \in live[ProcessOf[t]]
      /\ \A u \in Threads : Mine(u, ProcessOf[t], arg[t]) => u = t

(* If it is in the map it is in use, and the only call that may be at it   *)
(* is a free that has found it there.                                      *)
HitInv ==
  \A p \in Processes, a \in Addrs :
    a \in Heap[p] /\ a \notin misused[p] /\ a \in heap_allocations =>
      /\ a \in live[p]
      /\ \A t \in Threads : Mine(t, p, a) => pc[t] = "free_hit"

Told(p, a) ==
  \E k \in DOMAIN fault_events :
    /\ fault_events[k].class = "memory_corruption"
    /\ fault_events[k].pid = p /\ fault_events[k].addr = a

ToldInv ==
  Len(fault_events) < RingMax =>
    \A p \in Processes : \A a \in misused[p] \ overlapped : Told(p, a)

Complete == UseInv /\ HitInv /\ ToldInv

LEMMA InitComplete == Init => Complete
BY DEF Init, Complete, UseInv, HitInv, ToldInv

(* Most steps of a thread leave what was misused and reported as it is.    *)
LEMMA ToldKept ==
  ASSUME ToldInv, UNCHANGED <<fault_events, misused, overlapped>>
  PROVE  ToldInv'
BY DEF ToldInv, Told

(* A thread that goes on without an address.                               *)
LEMMA MallocEntryComplete ==
  ASSUME TypeInv, Complete, NEW t \in Threads, MallocEntry(t) PROVE Complete'
<1>1. UNCHANGED <<heap_allocations, fault_events, live, misused, overlapped>> /\ arg[t] = NULL
  BY DEF MallocEntry, history, TypeInv, ArgInv
<1>2. /\ \A u \in Threads : arg'[u] = arg[u]
      /\ \A u \in Threads : u # t => pc'[u] = pc[u]
  BY <1>1, GotoMine DEF MallocEntry, TypeInv
<1>3. UseInv'
  BY <1>1, <1>2 DEF Complete, UseInv, Mine
<1>4. HitInv'
  <2> SUFFICES ASSUME NEW p \in Processes, NEW a \in Addrs, a \in Heap[p], a \notin misused[p],
                      a \in heap_allocations
               PROVE  a \in live[p] /\ \A u \in Threads : Mine(u, p, a) => pc'[u] = "free_hit"
    BY <1>1, <1>2 DEF HitInv, Mine
  <2>1. a # NULL
    BY NullApart
  <2> QED
    BY <1>1, <1>2, <2>1 DEF Complete, HitInv, Mine
<1> QED
  BY <1>1, <1>3, <1>4, ToldKept DEF Complete

(* malloc returns what is not in use, hence an address that no call works  *)
(* on and that is not in the map, unless it was misused before.            *)
LEMMA MallocComplete ==
  ASSUME TypeInv, Complete, NEW t \in Threads, Malloc(t) PROVE Complete'
<1> DEFINE q == ProcessOf[t]
<1>1. /\ UNCHANGED <<heap_allocations, fault_events, misused, overlapped>> /\ q \in Processes
      /\ pc[t] = "malloc" /\ arg[t] = NULL
  BY OfThreads DEF Malloc, maps, history, TypeInv, ArgInv
<1>2. PICK b \in Heap[q] \cup {NULL} :
        /\ Goto(t, "malloc_ret", b)
        /\ \/ b \in Heap[q] \ live[q] /\ live' = [live EXCEPT ![q] = @ \cup {b}]
           \/ b = NULL /\ live' = live
  BY DEF Malloc
<1>3. /\ arg'[t] = b /\ pc'[t] = "malloc_ret"
      /\ \A u \in Threads : u # t => arg'[u] = arg[u] /\ pc'[u] = pc[u]
  BY <1>2, GotoMine DEF TypeInv
<1>4. /\ \A p \in Processes : live[p] \subseteq live'[p]
      /\ b # NULL => b \in live'[q] /\ b \notin live[q]
  BY <1>1, <1>2 DEF TypeInv, BlocksOK
<1>5. ASSUME NEW w \in Threads, w # t, arg[w] # NULL, ProcessOf[w] = q, arg[w] \notin misused[q]
      PROVE  arg[w] # b
  <2>1. arg[w] \in live[q]
    BY <1>5 DEF Complete, UseInv
  <2> QED
    BY <2>1, <1>4, <1>5
<1>6. UseInv'
  <2> SUFFICES ASSUME NEW u \in Threads, arg'[u] # NULL, arg'[u] \notin misused[ProcessOf[u]]
               PROVE  /\ arg'[u] \in live'[ProcessOf[u]]
                      /\ \A v \in Threads :
                           ProcessOf[v] = ProcessOf[u] /\ arg'[v] = arg'[u] => v = u
    BY <1>1 DEF UseInv, Mine
  <2>1. CASE u = t
    BY <1>3, <1>4, <1>5, <2>1
  <2>2. CASE u # t
    <3>1. arg'[u] = arg[u] /\ ProcessOf[u] \in Processes
      BY <1>3, <2>2, OfThreads
    <3>2. arg[u] \in live'[ProcessOf[u]]
      BY <3>1, <1>4 DEF Complete, UseInv
    <3>3. ASSUME NEW v \in Threads, ProcessOf[v] = ProcessOf[u], arg'[v] = arg'[u] PROVE v = u
      <4>1. v # t
        BY <3>1, <3>3, <1>3, <1>5, <2>2
      <4> QED
        BY <4>1, <3>1, <3>3, <1>3 DEF Complete, UseInv, Mine
    <3> QED
      BY <3>1, <3>2, <3>3
  <2> QED
    BY <2>1, <2>2
<1>7. HitInv'
  <2> SUFFICES ASSUME NEW p \in Processes, NEW a \in Addrs, a \in Heap[p], a \notin misused[p],
                      a \in heap_allocations
               PROVE  /\ a \in live'[p]
                      /\ \A u \in Threads :
                           ProcessOf[u] = p /\ arg'[u] = a => pc'[u] = "free_hit"
    BY <1>1 DEF HitInv, Mine
  <2>1. a \in live[p] /\ \A u \in Threads : Mine(u, p, a) => pc[u] = "free_hit"
    BY DEF Complete, HitInv
  <2>2. a # NULL
    BY NullApart
  <2>3. p = q => a # b
    BY <2>1, <2>2, <1>4
  <2> QED
    BY <2>1, <2>3, <1>3, <1>4 DEF Mine
<1> QED
  BY <1>1, <1>6, <1>7, ToldKept DEF Complete

(* A block becomes known, if there is room, when nothing else is at it.    *)
LEMMA MallocRetComplete ==
  ASSUME Lasting, TypeInv, Complete, NEW t \in Threads, MallocRet(t) PROVE Complete'
<1> DEFINE q == ProcessOf[t]
<1>1. /\ UNCHANGED <<fault_events, live, misused, overlapped>> /\ q \in Processes
      /\ pc[t] = "malloc_ret"
  BY OfThreads DEF MallocRet, history
<1>2. /\ arg'[t] = NULL /\ pc'[t] = "user"
      /\ \A u \in Threads : u # t => arg'[u] = arg[u] /\ pc'[u] = pc[u]
  BY GotoMine DEF MallocRet, TypeInv
<1>3. \A a \in heap_allocations' : a \in heap_allocations \/ (a = arg[t] /\ arg[t] # NULL)
  BY DEF MallocRet, maps, Update
<1>4. UseInv'
  <2> SUFFICES ASSUME NEW u \in Threads, arg'[u] # NULL, arg'[u] \notin misused[ProcessOf[u]]
               PROVE  /\ arg'[u] \in live[ProcessOf[u]]
                      /\ \A v \in Threads :
                           ProcessOf[v] = ProcessOf[u] /\ arg'[v] = arg'[u] => v = u
    BY <1>1 DEF UseInv, Mine
  <2>1. u # t /\ arg'[u] = arg[u]
    BY <1>2
  <2>2. \A v \in Threads : arg'[v] = arg'[u] => v # t /\ arg'[v] = arg[v]
    BY <1>2
  <2> QED
    BY <2>1, <2>2 DEF Complete, UseInv, Mine
<1>5. HitInv'
  <2> SUFFICES ASSUME NEW p \in Processes, NEW a \in Addrs, a \in Heap[p], a \notin misused[p],
                      a \in heap_allocations'
               PROVE  /\ a \in live[p]
                      /\ \A u \in Threads :
                           ProcessOf[u] = p /\ arg'[u] = a => pc'[u] = "free_hit"
    BY <1>1 DEF HitInv, Mine
  <2>1. a # NULL
    BY NullApart
  <2>2. CASE a \in heap_allocations
    BY <1>2, <2>1, <2>2 DEF Complete, HitInv, Mine
  <2>3. CASE a = arg[t]
    <3>1. p = q
      BY <2>1, <2>3, Apart DEF TypeInv, Lasting
    <3>2. a \in live[p] /\ \A u \in Threads : Mine(u, p, a) => u = t
      BY <2>1, <2>3, <3>1 DEF Complete, UseInv
    <3> QED
      BY <1>2, <2>1, <3>2 DEF Mine
  <2> QED
    BY <1>3, <2>2, <2>3
<1> QED
  BY <1>1, <1>4, <1>5, ToldKept DEF Complete

LEMMA CallocComplete ==
  ASSUME TypeInv, Complete, NEW t \in Threads, Calloc(t) PROVE Complete'
<1>1. UNCHANGED <<heap_allocations, fault_events, pc, arg, misused, overlapped>>
  BY DEF Calloc, maps, history
<1>2. \A p \in Processes : live[p] \subseteq live'[p]
  BY OfThreads DEF Calloc, TypeInv, BlocksOK
<1>3. UseInv' /\ HitInv'
  BY <1>1, <1>2, OfThreads DEF Complete, UseInv, HitInv, Mine
<1> QED
  BY <1>1, <1>3, ToldKept DEF Complete

(* What was reported stays so, and a full ring does not become less full.  *)
LEMMA ReportKeeps ==
  ASSUME RingOK, NEW class, NEW t, NEW a, Report(class, t, a)
  PROVE  /\ \A k \in DOMAIN fault_events :
              k \in DOMAIN fault_events' /\ fault_events'[k] = fault_events[k]
         /\ Len(fault_events') < RingMax =>
              /\ Len(fault_events) < RingMax
              /\ \E k \in DOMAIN fault_events' :
                   fault_events'[k] = [class |-> class, pid |-> ProcessOf[t], addr |-> a]
<1> DEFINE e == [class |-> class, pid |-> ProcessOf[t], addr |-> a]
<1>1. fault_events \in Seq(Events) /\ RingMax \in Nat
  BY LimitAssumption DEF RingOK
<1>2. CASE Len(fault_events) < RingMax
  <2>1. fault_events' = Append(fault_events, e)
    BY <1>2 DEF Report
  <2> HIDE DEF e
  <2>2. /\ DOMAIN fault_events = 1 .. Len(fault_events)
        /\ DOMAIN fault_events' = 1 .. Len(fault_events) + 1 /\ Len(fault_events) \in Nat
        /\ \A k \in 1 .. Len(fault_events) : fault_events'[k] = fault_events[k]
        /\ fault_events'[Len(fault_events) + 1] = e
    BY <1>1, <2>1
  <2>3. Len(fault_events) + 1 \in DOMAIN fault_events'
    BY <2>2
  <2> QED
    BY <1>2, <2>2, <2>3 DEF e
<1>3. CASE ~(Len(fault_events) < RingMax)
  BY <1>3 DEF Report
<1> QED
  BY <1>2, <1>3

LEMMA ToldStays ==
  ASSUME \A k \in DOMAIN fault_events :
           k \in DOMAIN fault_events' /\ fault_events'[k] = fault_events[k],
         NEW p, NEW a, Told(p, a)
  PROVE  Told(p, a)'
BY DEF Told

(* The step the property is about: a wrong free finds nothing in the map,  *)
(* or another one is under way, or the address was misused before.         *)
LEMMA FreeEntryComplete ==
  ASSUME TypeInv, Complete, NEW t \in Threads, NEW a \in Addrs, FreeEntry(t, a)
  PROVE  Complete'
<1> DEFINE q == ProcessOf[t]
<1>1. /\ pc[t] = "user" /\ a \in Heap[q] /\ q \in Processes /\ a # NULL /\ arg[t] = NULL
      /\ UNCHANGED <<heap_allocations, live>>
  BY OfThreads, NullApart DEF FreeEntry, maps, TypeInv, ArgInv
<1>2. /\ arg'[t] = a
      /\ pc'[t] = IF a \in heap_allocations THEN "free_hit" ELSE "free"
      /\ \A u \in Threads : u # t => arg'[u] = arg[u] /\ pc'[u] = pc[u]
  BY GotoMine DEF FreeEntry, TypeInv
<1>3. /\ overlapped \subseteq overlapped'
      /\ \A p \in Processes : misused[p] \subseteq misused'[p]
      /\ \A p \in Processes : \A b \in misused'[p] : b \in misused[p] \/ (p = q /\ b = a)
  BY <1>1 DEF FreeEntry, TypeInv, BlocksOK
<1>4. a \notin misused'[q] => a \in live[q] /\ \A u \in Threads : ~Mine(u, q, a)
  <2> SUFFICES ASSUME a \notin misused'[q]
               PROVE  a \in live[q] /\ \A u \in Threads : ~Mine(u, q, a)
    OBVIOUS
  <2>1. Owned(q, a) /\ ~Freeing(q, a)
    BY <1>1 DEF FreeEntry, TypeInv, BlocksOK
  <2>2. ASSUME NEW u \in Threads, Mine(u, q, a) PROVE FALSE
    <3>1. pc[u] \in {"malloc_ret", "free_hit", "free"}
      BY <2>2, <1>1 DEF Mine, TypeInv, ArgInv, ThreadsOK
    <3> QED
      BY <3>1, <2>1, <2>2 DEF Owned, Freeing, Mine
  <2> QED
    BY <2>1, <2>2 DEF Owned
<1>5. UseInv'
  <2> SUFFICES ASSUME NEW u \in Threads, arg'[u] # NULL, arg'[u] \notin misused'[ProcessOf[u]]
               PROVE  /\ arg'[u] \in live[ProcessOf[u]]
                      /\ \A v \in Threads :
                           ProcessOf[v] = ProcessOf[u] /\ arg'[v] = arg'[u] => v = u
    BY <1>1 DEF UseInv, Mine
  <2>1. CASE u = t
    BY <1>2, <1>4, <2>1 DEF Mine
  <2>2. CASE u # t
    <3>1. arg'[u] = arg[u] /\ arg[u] \notin misused[ProcessOf[u]]
      BY <1>2, <1>3, <2>2, OfThreads
    <3>2. ASSUME NEW v \in Threads, ProcessOf[v] = ProcessOf[u], arg'[v] = arg'[u] PROVE v = u
      <4>1. v # t
        BY <1>2, <1>4, <2>2, <3>1, <3>2 DEF Mine
      <4> QED
        BY <4>1, <3>1, <3>2, <1>2 DEF Complete, UseInv, Mine
    <3> QED
      BY <3>1, <3>2 DEF Complete, UseInv
  <2> QED
    BY <2>1, <2>2
<1>6. HitInv'
  <2> SUFFICES ASSUME NEW p \in Processes, NEW b \in Addrs, b \in Heap[p], b \notin misused'[p],
                      b \in heap_allocations
               PROVE  /\ b \in live[p]
                      /\ \A u \in Threads :
                           ProcessOf[u] = p /\ arg'[u] = b => pc'[u] = "free_hit"
    BY <1>1 DEF HitInv, Mine
  <2>1. b \in live[p] /\ \A u \in Threads : Mine(u, p, b) => pc[u] = "free_hit"
    BY <1>3 DEF Complete, HitInv
  <2> QED
    BY <1>2, <2>1 DEF Mine
<1>7. \/ /\ Report("memory_corruption", t, a) /\ a \notin heap_allocations
      \/ UNCHANGED fault_events /\ a \in heap_allocations
  BY DEF FreeEntry
<1>8. /\ \A k \in DOMAIN fault_events :
           k \in DOMAIN fault_events' /\ fault_events'[k] = fault_events[k]
      /\ Len(fault_events') < RingMax =>
           /\ Len(fault_events) < RingMax
           /\ a \notin heap_allocations => Told(q, a)'
  BY <1>7, ReportKeeps DEF TypeInv, Told
<1>9. ToldInv'
  <2> SUFFICES ASSUME Len(fault_events') < RingMax, NEW p \in Processes,
                      NEW b \in misused'[p] \ overlapped'
               PROVE  Told(p, b)'
    BY DEF ToldInv
  <2>1. CASE b \in misused[p]
    <3>1. Told(p, b)
      BY <1>3, <1>8, <2>1 DEF Complete, ToldInv
    <3> QED
      BY <1>8, <3>1, ToldStays
  <2>2. CASE p = q /\ b = a /\ a \notin misused[q]
    <3>1. ~Freeing(q, a)
      BY <2>2 DEF FreeEntry
    <3>2. ~Owned(q, a)
      BY <2>2, <3>1 DEF FreeEntry
    <3>3. ASSUME a \in heap_allocations PROVE FALSE
      <4>1. a \in live[q] /\ \A u \in Threads : Mine(u, q, a) => pc[u] = "free_hit"
        BY <1>1, <2>2, <3>3 DEF Complete, HitInv
      <4> QED
        BY <3>2, <4>1 DEF Owned, Mine
    <3> QED
      BY <1>8, <2>2, <3>3
  <2> QED
    BY <1>3, <2>1, <2>2
<1> QED
  BY <1>5, <1>6, <1>9 DEF Complete

LEMMA FreeDeleteComplete ==
  ASSUME TypeInv, Complete, NEW t \in Threads, FreeDelete(t) PROVE Complete'
<1>1. /\ heap_allocations' = heap_allocations \ {arg[t]} /\ pc[t] = "free_hit"
      /\ UNCHANGED <<fault_events, live, misused, overlapped>>
  BY DEF FreeDelete, history
<1>2. /\ \A u \in Threads : arg'[u] = arg[u]
      /\ \A u \in Threads : u # t => pc'[u] = pc[u]
  BY GotoMine DEF FreeDelete, TypeInv
<1>3. UseInv'
  BY <1>1, <1>2 DEF Complete, UseInv, Mine
<1>4. HitInv'
  BY <1>1, <1>2 DEF Complete, HitInv, Mine
<1> QED
  BY <1>1, <1>3, <1>4, ToldKept DEF Complete

(* A block that was not misused has no entry any more when it is freed.    *)
LEMMA FreeComplete ==
  ASSUME TypeInv, Complete, NEW t \in Threads, Free(t) PROVE Complete'
<1> DEFINE q == ProcessOf[t]
<1>1. /\ pc[t] = "free" /\ q \in Processes /\ arg[t] # NULL
      /\ live' = [live EXCEPT ![q] = @ \ {arg[t]}]
      /\ UNCHANGED <<heap_allocations, fault_events, misused, overlapped>>
  BY OfThreads DEF Free, maps, TypeInv, ArgInv
<1>2. /\ arg'[t] = NULL /\ pc'[t] = "user"
      /\ \A u \in Threads : u # t => arg'[u] = arg[u] /\ pc'[u] = pc[u]
  BY GotoMine DEF Free, TypeInv
<1>3. \A p \in Processes : \A a : a \in live'[p] <=> a \in live[p] /\ ~(p = q /\ a = arg[t])
  BY <1>1 DEF TypeInv, BlocksOK
<1>4. UseInv'
  <2> SUFFICES ASSUME NEW u \in Threads, arg'[u] # NULL, arg'[u] \notin misused[ProcessOf[u]]
               PROVE  /\ arg'[u] \in live'[ProcessOf[u]]
                      /\ \A v \in Threads :
                           ProcessOf[v] = ProcessOf[u] /\ arg'[v] = arg'[u] => v = u
    BY <1>1 DEF UseInv, Mine
  <2>1. u # t /\ arg'[u] = arg[u]
    BY <1>2
  <2>2. arg[u] \in live[ProcessOf[u]] /\ ~(ProcessOf[u] = q /\ arg[u] = arg[t])
    BY <2>1 DEF Complete, UseInv, Mine
  <2>3. \A v \in Threads : arg'[v] = arg'[u] => v # t /\ arg'[v] = arg[v]
    BY <1>2
  <2>4. arg'[u] \in live'[ProcessOf[u]]
    BY <1>3, <2>1, <2>2, OfThreads
  <2> QED
    BY <2>1, <2>3, <2>4 DEF Complete, UseInv, Mine
<1>5. HitInv'
  <2> SUFFICES ASSUME NEW p \in Processes, NEW a \in Addrs, a \in Heap[p], a \notin misused[p],
                      a \in heap_allocations
               PROVE  /\ a \in live'[p]
                      /\ \A u \in Threads :
                           ProcessOf[u] = p /\ arg'[u] = a => pc'[u] = "free_hit"
    BY <1>1 DEF HitInv, Mine
  <2>1. a \in live[p] /\ \A u \in Threads : Mine(u, p, a) => pc[u] = "free_hit"
    BY DEF Complete, HitInv
  <2>2. ~(p = q /\ a = arg[t]) /\ a # NULL
    BY <2>1, <1>1, NullApart DEF Mine
  <2> QED
    BY <1>2, <1>3, <2>1, <2>2 DEF Mine
<1> QED
  BY <1>1, <1>4, <1>5, ToldKept DEF Complete

LEMMA PageFaultComplete ==
  ASSUME TypeInv, Complete, NEW t \in Threads, PageFault(t) PROVE Complete'
<1>1. UNCHANGED <<heap_allocations, pc, arg, live, misused, overlapped>>
  BY DEF PageFault, maps, history
<1>2. UseInv' /\ HitInv'
  BY <1>1 DEF Complete, UseInv, HitInv, Mine
<1>3. CASE UNCHANGED fault_events
  BY <1>1, <1>2, <1>3, ToldKept DEF Complete
<1>4. CASE Report("invariant", t, NULL)
  <2>1. /\ \A k \in DOMAIN fault_events :
             k \in DOMAIN fault_events' /\ fault_events'[k] = fault_events[k]
        /\ Len(fault_events') < RingMax => Len(fault_events) < RingMax
    BY <1>4, ReportKeeps DEF TypeInv
  <2>2. ToldInv'
    BY <1>1, <2>1, ToldStays DEF Complete, ToldInv
  <2> QED
    BY <1>2, <2>2 DEF Complete
<1> QED
  BY <1>3, <1>4 DEF PageFault

LEMMA CompleteStep == Lasting => (TypeInv /\ Complete /\ [Next]_vars => Complete')
<1> SUFFICES ASSUME Lasting, TypeInv, Complete, [Next]_vars PROVE Complete'
  OBVIOUS
<1>1. ASSUME NEW t \in Threads,
             MallocEntry(t) \/ Malloc(t) \/ MallocRet(t) \/ Calloc(t) \/ FreeDelete(t)
             \/ Free(t) \/ PageFault(t)
      PROVE  Complete'
  BY <1>1, MallocEntryComplete, MallocComplete, MallocRetComplete, CallocComplete,
     FreeDeleteComplete, FreeComplete, PageFaultComplete
<1>2. ASSUME NEW t \in Threads, NEW a \in Addrs, FreeEntry(t, a) PROVE Complete'
  BY <1>2, FreeEntryComplete
<1>3. ASSUME NEW p \in Processes, Exit(p) PROVE FALSE
  BY <1>3 DEF Exit, Lasting
<1>4. CASE UNCHANGED vars
  <2>1. UNCHANGED <<heap_allocations, fault_events, pc, arg, live, misused, overlapped>>
    BY <1>4 DEF vars, maps, history
  <2>2. UseInv' /\ HitInv'
    BY <2>1 DEF Complete, UseInv, HitInv, Mine
  <2> QED
    BY <2>1, <2>2, ToldKept DEF Complete
<1> QED
  BY <1>1, <1>2, <1>3, <1>4 DEF Next

(* A double free or a wild one is reported for any number of threads, map  *)
(* entries and allocators, unless two calls free the address at a time or  *)
(* the ring is full.                                                       *)
THEOREM NoneMissed ==
  ASSUME Lasting
  PROVE  Spec => []MisusesReported
<1>1. ToldInv => MisusesReported
  <2> SUFFICES ASSUME ToldInv, NEW p \in Processes, Len(fault_events) < RingMax,
                      NEW a \in misused[p] \ overlapped
               PROVE  a \in Reported(p)
    BY DEF MisusesReported
  <2>1. PICK k \in DOMAIN fault_events :
          /\ fault_events[k].class = "memory_corruption"
          /\ fault_events[k].pid = p /\ fault_events[k].addr = a
    BY DEF ToldInv, Told
  <2>2. fault_events[k] \in Range(fault_events)
    BY DEF Range
  <2> QED
    BY <2>1, <2>2 DEF Reported
<1>2. TypeInv /\ Complete /\ [Next]_vars => Complete'
  BY CompleteStep
<1> QED
  BY <1>1, <1>2, InitType, TypeStep, InitComplete, PTL DEF Spec, Complete
=============================================================================
