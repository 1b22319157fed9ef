---------------------------- MODULE FaultDetector ----------------------------
(***************************************************************************)
(* ebpf/fault_detector.bpf.c: the probes on malloc, free and the page      *)
(* fault handler, the two maps they keep and the ring buffer they report   *)
(* to. Every call of a map or ring helper is one step, since the probes of *)
(* threads on different CPUs interleave between them; the map of requests  *)
(* is never read, so its calls are taken with the step next to them.       *)
(*                                                                         *)
(* Of the C library only this is assumed: malloc and calloc return an      *)
(* address of the heap of the process that is not in use there, or NULL,   *)
(* and free makes the address usable again, whatever it was used for.      *)
(* Nobody reads the ring: the consumer of the daemon is a stub.            *)
(***************************************************************************)
EXTENDS Integers, FiniteSets, Sequences, Functions

CONSTANTS
  Threads, Processes,
  ProcessOf,    (* The process of each thread.                              *)
  Heap,         (* The addresses each process may get from malloc.          *)
  NULL,         (* The null pointer, and any address of the first page.     *)
  HeapMax,      (* max_entries of heap_allocations.                         *)
  RequestMax,   (* max_entries of active_malloc_requests.                   *)
  RingMax,      (* How many events the ring holds.                          *)
  Callocs,      (* Do programs also get blocks from calloc or realloc?      *)
  Exits         (* Do processes exit?                                       *)

Addrs == UNION {Heap[p] : p \in Processes}

ASSUME ThreadAssumption ==
  /\ IsFiniteSet(Threads) /\ ProcessOf \in [Threads -> Processes]
  /\ DOMAIN Heap = Processes /\ NULL \notin Addrs
ASSUME LimitAssumption ==
  /\ HeapMax \in Nat /\ RequestMax \in Nat /\ RingMax \in Nat
  /\ Callocs \in BOOLEAN /\ Exits \in BOOLEAN

VARIABLES
  heap_allocations,         (* the addresses in the map; the values of both    *)
                            (* maps are never read                             *)
  active_malloc_requests,   (* the threads with a request                   *)
  fault_events,             (* the ring                                     *)
  pc, arg,                  (* where each thread is, and its address        *)
  live,                     (* the blocks in use in each process            *)
  misused,                  (* History: the addresses each process has      *)
                            (* freed when they were not in use, or were     *)
                            (* being freed already,                         *)
  overlapped,               (* those it has freed in two calls at a time,   *)
  left                      (* and the blocks in use when a process exited. *)

maps    == <<heap_allocations, active_malloc_requests>>
history == <<misused, overlapped, left>>
vars    == <<maps, fault_events, pc, arg, live, history>>

Events == [class : {"memory_corruption", "invariant"}, pid : Processes, addr : Addrs \cup {NULL}]

TypeOK ==
  /\ heap_allocations \subseteq Addrs /\ Cardinality(heap_allocations) <= HeapMax
  /\ active_malloc_requests \subseteq Threads
  /\ Cardinality(active_malloc_requests) <= RequestMax
  /\ fault_events \in Seq(Events) /\ Len(fault_events) <= RingMax
  /\ pc \in [Threads -> {"user", "malloc", "malloc_ret", "free_hit", "free"}]
  /\ arg \in [Threads -> Addrs \cup {NULL}]
  /\ live \in [Processes -> SUBSET Addrs]
  /\ misused \in [Processes -> SUBSET Addrs] /\ overlapped \subseteq Addrs
  /\ left \subseteq Addrs

Init ==
  /\ heap_allocations = {} /\ active_malloc_requests = {} /\ fault_events = << >>
  /\ pc = [t \in Threads |-> "user"] /\ arg = [t \in Threads |-> NULL]
  /\ live = [p \in Processes |-> {}]
  /\ misused = [p \in Processes |-> {}] /\ overlapped = {} /\ left = {}

-----------------------------------------------------------------------------
(* The map helpers. The probes look at no result of an update.             *)

Update(map, key, max) ==
  IF Cardinality(map) < max THEN map \cup {key} ELSE map

(* Mutated: the reservation is not checked.                                *)
ReportUnchecked(class, t, a) ==
  fault_events' = Append(fault_events, [class |-> class, pid |-> ProcessOf[t], addr |-> a])

(* A reservation fails when the ring is full, and the event is lost.       *)
Report(class, t, a) ==
  fault_events' =
    IF Len(fault_events) < RingMax
      THEN Append(fault_events, [class |-> class, pid |-> ProcessOf[t], addr |-> a])
      ELSE fault_events

-----------------------------------------------------------------------------
Goto(t, label, a) ==
  /\ pc' = [pc EXCEPT ![t] = label]
  /\ arg' = [arg EXCEPT ![t] = a]

MallocEntry(t) ==
  /\ pc[t] = "user"
  /\ active_malloc_requests' = Update(active_malloc_requests, t, RequestMax)
  /\ Goto(t, "malloc", NULL)
  /\ UNCHANGED <<heap_allocations, fault_events, live, history>>

(* libc: the body of malloc.                                               *)
Malloc(t) ==
  /\ pc[t] = "malloc"
  /\ \/ \E a \in Heap[ProcessOf[t]] \ live[ProcessOf[t]] :
          /\ live' = [live EXCEPT ![ProcessOf[t]] = @ \cup {a}]
          /\ Goto(t, "malloc_ret", a)
     \/ Goto(t, "malloc_ret", NULL) /\ UNCHANGED live
  /\ UNCHANGED <<maps, fault_events, history>>

(* Mutated: a return without a recorded request is ignored.                *)
MallocRetRequested(t) ==
  /\ pc[t] = "malloc_ret"
  /\ IF arg[t] = NULL \/ t \notin active_malloc_requests
       THEN UNCHANGED maps
       ELSE /\ heap_allocations' = Update(heap_allocations, arg[t], HeapMax)
            /\ active_malloc_requests' = active_malloc_requests \ {t}
  /\ Goto(t, "user", NULL)
  /\ UNCHANGED <<fault_events, live, history>>

MallocRet(t) ==
  /\ pc[t] = "malloc_ret"
  /\ IF arg[t] = NULL
       THEN UNCHANGED maps
       ELSE /\ heap_allocations' = Update(heap_allocations, arg[t], HeapMax)
            /\ active_malloc_requests' = active_malloc_requests \ {t}
  /\ Goto(t, "user", NULL)
  /\ UNCHANGED <<fault_events, live, history>>

(* libc: an allocation that runs no probe.                                 *)
Calloc(t) ==
  /\ Callocs /\ pc[t] = "user"
  /\ \E a \in Heap[ProcessOf[t]] \ live[ProcessOf[t]] :
       live' = [live EXCEPT ![ProcessOf[t]] = @ \cup {a}]
  /\ UNCHANGED <<maps, fault_events, pc, arg, history>>

-----------------------------------------------------------------------------
Freeing(p, a) ==
  \E t \in Threads : ProcessOf[t] = p /\ arg[t] = a /\ pc[t] \in {"free_hit", "free"}

(* A program owns what malloc has returned.                                *)
Owned(p, a) ==
  a \in live[p] /\ \A t \in Threads : ~(pc[t] = "malloc_ret" /\ ProcessOf[t] = p /\ arg[t] = a)

(* The free of any address of the heap: the lookup, and the report of an   *)
(* address that is not found.                                              *)
FreeEntry(t, a) ==
  LET p == ProcessOf[t] IN
    /\ pc[t] = "user" /\ a \in Heap[p]
    /\ IF a \in heap_allocations
         THEN Goto(t, "free_hit", a) /\ UNCHANGED fault_events
         ELSE Goto(t, "free", a) /\ Report("memory_corruption", t, a)
    /\ misused' = IF ~Owned(p, a) \/ Freeing(p, a)
                    THEN [misused EXCEPT ![p] = @ \cup {a}] ELSE misused
    /\ overlapped' = IF Freeing(p, a) THEN overlapped \cup {a} ELSE overlapped
    /\ UNCHANGED <<maps, live, left>>

(* Mutated: the entry stays.                                               *)
FreeDeleteForgotten(t) ==
  /\ pc[t] = "free_hit"
  /\ Goto(t, "free", arg[t])
  /\ UNCHANGED <<maps, fault_events, live, history>>

(* The deletion, after a lookup that has found the address.                *)
FreeDelete(t) ==
  /\ pc[t] = "free_hit"
  /\ heap_allocations' = heap_allocations \ {arg[t]}
  /\ Goto(t, "free", arg[t])
  /\ UNCHANGED <<active_malloc_requests, fault_events, live, history>>

(* libc: the body of free.                                                 *)
Free(t) ==
  /\ pc[t] = "free"
  /\ live' = [live EXCEPT ![ProcessOf[t]] = @ \ {arg[t]}]
  /\ left' = left \ {arg[t]}
  /\ Goto(t, "user", NULL)
  /\ UNCHANGED <<maps, fault_events, misused, overlapped>>

(* A page fault of t, with any value in the first argument register of the *)
(* interrupted code, which is what PT_REGS_PARM1 reads from the frame: it  *)
(* has nothing to do with the address of the fault.                        *)
PageFault(t) ==
  /\ pc[t] = "user"
  /\ \/ Report("invariant", t, NULL)
     \/ UNCHANGED fault_events
  /\ UNCHANGED <<maps, pc, arg, live, history>>

(* A process exits, or is killed, and its heap is gone; a new one with the *)
(* same addresses takes its place. A probe that has begun is completed.    *)
Exit(p) ==
  /\ Exits /\ \A t \in Threads : ProcessOf[t] = p => pc[t] # "free_hit"
  /\ live' = [live EXCEPT ![p] = {}]
  /\ left' = left \cup live[p]
  /\ pc' = [t \in Threads |-> IF ProcessOf[t] = p THEN "user" ELSE pc[t]]
  /\ arg' = [t \in Threads |-> IF ProcessOf[t] = p THEN NULL ELSE arg[t]]
  /\ UNCHANGED <<maps, fault_events, misused, overlapped>>

Next ==
  \/ \E t \in Threads :
       \/ MallocEntry(t) \/ Malloc(t) \/ MallocRet(t) \/ Calloc(t)
       \/ \E a \in Addrs : FreeEntry(t, a)
       \/ FreeDelete(t) \/ Free(t) \/ PageFault(t)
  \/ \E p \in Processes : Exit(p)

Spec == Init /\ [][Next]_vars

-----------------------------------------------------------------------------
(* Properties.                                                             *)

(* The frees a process is told of.                                         *)
Reported(p) ==
  {e.addr : e \in {e \in Range(fault_events) :
                     e.class = "memory_corruption" /\ e.pid = p}}

(* "Address not found in heap mapping = Double-Free or wild pointer        *)
(* manipulation!" (line 63): a process is reported only for what it has    *)
(* freed without having it from malloc, or twice, however its threads      *)
(* interleave inside of malloc, free and the probes.                       *)
NoFalseAlarm == \A p \in Processes : Reported(p) \subseteq misused[p]

(* The map is the heap: outside of the calls that are under way it holds   *)
(* the blocks in use, as long as the process makes no mistake, and no      *)
(* others but those a process was using when it exited.                    *)
TracksHeap ==
  \A p \in Processes, a \in Addrs :
    misused[p] = {} /\ a \in Heap[p] /\ (\A t \in Threads : arg[t] # a) =>
      /\ a \in live[p] => a \in heap_allocations
      /\ a \in heap_allocations => a \in live[p] \cup left

(* An address freed when it was not in use is reported, unless the ring    *)
(* was full or two calls were freeing it at a time: neither a full map nor *)
(* other allocators hide it.                                               *)
MisusesReported ==
  \A p \in Processes :
    Len(fault_events) < RingMax => misused[p] \ overlapped \subseteq Reported(p)
=============================================================================
