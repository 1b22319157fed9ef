---------------------------- MODULE HealingLoop -----------------------------
(***************************************************************************)
(* src/main.rs, the proof of concept in one process: HeapTracker, which    *)
(* keeps for every address whether the block there was freed, and          *)
(* healing_loop, which feeds it a list of heap operations, verifies a      *)
(* patch for every fault it finds and swaps it in. The list in the code is *)
(* one value of EventLists. Sizes are stored and never read, and left out; *)
(* so are the times.                                                       *)
(***************************************************************************)
EXTENDS Naturals, Sequences, FiniteSets

CONSTANTS
  Addrs,
  EventLists    (* The lists of operations healing_loop may work through.   *)

Operations == {"malloc", "free", "write"}
Event      == [op : Operations, addr : Addrs]

ASSUME EventAssumption == EventLists \subseteq Seq(Event)

VARIABLES
  events, k,    (* The operations, and the index of the next one.           *)
  allocations,  (* addr -> freed, for the addresses ever allocated.         *)
  fault,        (* The fault being healed, or "none".                       *)
  healed,
  pc,           (* "next", "verify", "done" or "panicked".                  *)
  found         (* History: the fault found at each index so far.           *)

vars == <<events, k, allocations, fault, healed, pc, found>>

FaultClass == {"UseAfterFree", "DoubleFree"}

TypeOK ==
  /\ events \in EventLists /\ k \in 1 .. Len(events) + 1
  /\ DOMAIN allocations \subseteq Addrs
  /\ \A a \in DOMAIN allocations : allocations[a] \in BOOLEAN
  /\ fault \in FaultClass \cup {"none"}
  /\ healed \in Nat
  /\ pc \in {"next", "verify", "done", "panicked"}
  /\ fault # "none" <=> pc \in {"verify", "panicked"}
  /\ found \in [1 .. k - 1 -> FaultClass \cup {"none"}]

Init ==
  /\ events \in EventLists /\ k = 1
  /\ allocations = [a \in {} |-> FALSE]
  /\ fault = "none" /\ healed = 0 /\ pc = "next"
  /\ found = [j \in 1 .. 0 |-> "none"]

-----------------------------------------------------------------------------
(* HeapTracker.                                                            *)

(* Mutated: a block that was freed keeps its mark.                         *)
on_mallocMarked(t, a) ==
  [x \in DOMAIN t \cup {a} |-> IF x \in DOMAIN t THEN t[x] ELSE FALSE]

on_malloc(t, a) ==
  [x \in DOMAIN t \cup {a} |-> IF x = a THEN FALSE ELSE t[x]]

FreeFault(t, a)  == IF a \notin DOMAIN t \/ t[a] THEN "DoubleFree" ELSE "none"

(* Mutated: a write to a block that is not known is a fault as well.       *)
WriteFaultUnknown(t, a) == IF a \notin DOMAIN t \/ t[a] THEN "UseAfterFree" ELSE "none"

WriteFault(t, a) == IF a \in DOMAIN t /\ t[a] THEN "UseAfterFree" ELSE "none"

on_free(t, a) == IF a \in DOMAIN t THEN [t EXCEPT ![a] = TRUE] ELSE t

-----------------------------------------------------------------------------
(* healing_loop.                                                           *)

FaultOf(e) ==
  CASE e.op = "malloc" -> "none"
    [] e.op = "free"   -> FreeFault(allocations, e.addr)
    [] e.op = "write"  -> WriteFault(allocations, e.addr)

(* One iteration up to the fault it finds; a free that is a fault changes  *)
(* nothing.                                                                *)
HandleEvent ==
  /\ pc = "next" /\ k <= Len(events)
  /\ LET e == events[k] f == FaultOf(e) IN
       /\ allocations' =
            IF e.op = "malloc" THEN on_malloc(allocations, e.addr)
            ELSE IF e.op = "free" /\ f = "none" THEN on_free(allocations, e.addr)
            ELSE allocations
       /\ fault' = f
       /\ found' = [j \in 1 .. k |-> IF j = k THEN f ELSE found[j]]
       /\ pc' = IF f = "none" THEN "next" ELSE "verify"
  /\ k' = k + 1
  /\ UNCHANGED <<events, healed>>

(* The query verify_patch sends does not depend on the patch, and has a    *)
(* solution: it prints VERIFIED wherever Python has the z3 module. What    *)
(* hot_swap returns is always true, and ignored.                           *)
Verified ==
  /\ healed' = healed + 1
  /\ fault' = "none" /\ pc' = "next"

(* Mutated: the fault stays the current one.                               *)
NotVerifiedKept ==
  /\ pc' = "next"
  /\ UNCHANGED <<healed, fault>>

(* Nothing is printed: the fault is passed over.                           *)
NotVerified ==
  /\ fault' = "none" /\ pc' = "next"
  /\ UNCHANGED healed

(* Command::output fails, and expect panics.                               *)
NoPython ==
  /\ pc' = "panicked"
  /\ UNCHANGED <<healed, fault>>

Heal ==
  /\ pc = "verify"
  /\ Verified \/ NotVerified \/ NoPython
  /\ UNCHANGED <<events, k, allocations, found>>

Report ==
  /\ pc = "next" /\ k > Len(events)
  /\ pc' = "done"
  /\ UNCHANGED <<events, k, allocations, fault, healed, found>>

Next == HandleEvent \/ Heal \/ Report

(* One thread, and a command that returns.                                 *)
Spec == Init /\ [][Next]_vars /\ WF_vars(Next)

-----------------------------------------------------------------------------
(* Properties.                                                             *)

Is(j, op, a) == events[j].op = op /\ events[j].addr = a

(* What the operations before index j say of the block at a.               *)
Allocated(j, a) == \E m \in 1 .. j - 1 : Is(m, "malloc", a)
Live(j, a) ==
  \E m \in 1 .. j - 1 :
    Is(m, "malloc", a) /\ \A n \in m + 1 .. j - 1 : ~Is(n, "free", a)

FaultDue(j) ==
  LET a == events[j].addr IN
    IF events[j].op = "free" /\ ~Live(j, a) THEN "DoubleFree"
    ELSE IF events[j].op = "write" /\ Allocated(j, a) /\ ~Live(j, a) THEN "UseAfterFree"
    ELSE "none"

(* The tracker, which keeps one mark for an address, finds exactly the     *)
(* faults in the whole sequence of operations: a free of a block that was  *)
(* not allocated since it was last freed, and a write to one that was      *)
(* allocated and is not now (on_malloc, on_free, on_write).                *)
FaultsExact == \A j \in 1 .. k - 1 : found[j] = FaultDue(j)

FaultsBefore(n) == {j \in 1 .. n - 1 : FaultDue(j) # "none"}

(* "Faults healed" and "Crashes avoided" of the report are no more than    *)
(* the faults there are in the operations themselves: however a block was  *)
(* allocated, freed and allocated again, an operation that is in order     *)
(* adds nothing to them, and one that is not adds one at most, the fault   *)
(* that is being verified not yet counted (HeapTracker and the counter of  *)
(* healing_loop together).                                                 *)
HealsOnlyFaults ==
  Cardinality(FaultsBefore(k)) >= healed + IF pc = "verify" THEN 1 ELSE 0
=============================================================================
