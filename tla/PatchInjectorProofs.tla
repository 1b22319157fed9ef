------------------------ MODULE PatchInjectorProofs ------------------------
(***************************************************************************)
(* What holds of inject_patch for every target, patch and page: theorems   *)
(* about the specification of PatchInjector.                               *)
(***************************************************************************)
EXTENDS PatchInjector, TLAPS

Words == [0 .. WordSize - 1 -> Byte]

(* What is stored in the operand of the JMP is a number.                   *)
LEMMA DisplacementType ==
  ASSUME NEW from \in Int, NEW to \in Int
  PROVE  Displacement(from, to) \in Int /\ Displacement(from, to) \in 0 .. RelMod - 1
BY RelAssumption DEF Displacement, JmpLen

LEMMA BytesType ==
  ASSUME NEW a \in Int, NEW d \in Int
  PROVE  /\ Own(a) \in Byte /\ Zero \in Byte /\ Syscall(a) \in Byte
         /\ Patch(a) \in Byte /\ Jmp(a, d) \in Byte /\ Ones \in Byte
BY DEF Own, Zero, Ones, Syscall, Patch, Jmp, Byte, Kinds

LEMMA FaultAddrType == TypeOK => ctx.fault_addr \in Nat /\ ctx.patch_size \in Nat
<1>1. FaultAddrs \subseteq Nat /\ PatchSizes \subseteq Nat
  BY ContextAssumption
<1> QED
  BY <1>1 DEF TypeOK

LEMMA PeekedType ==
  ASSUME TraceeTypeOK, NEW a \in Int
  PROVE  Peeked(a) \in Words
<1>1. Mapped \subseteq Memory
  BY DEF TraceeTypeOK, Mapped, Memory
<1>2. CanPeek(a) => \A k \in 0 .. WordSize - 1 : a + k \in Memory
  BY <1>1 DEF CanPeek, WordAt, WordSize
<1> QED
  BY <1>2, BytesType DEF Peeked, Word, Words, TraceeTypeOK

(* The bytes that a failing POKE writes are bytes of its word.             *)
LEMMA SplitInWord ==
  ASSUME NEW a \in Int
  PROVE  /\ Split(a) \subseteq WordAt(a) /\ FirstPage(a) \subseteq WordAt(a)
         /\ WordAt(a) \subseteq Int
         /\ Split(a) # {} => a \in Split(a)
<1>1. a \in FirstPage(a)
  BY PageStartAssumption DEF FirstPage, WordAt, WordSize
<1> QED
  BY <1>1 DEF Split, FirstPage, WordAt, WordSize

LEMMA WriteType ==
  ASSUME TraceeTypeOK, NEW a \in Int, NEW w \in Words, NEW bytes \in SUBSET WordAt(a),
         Write(bytes, a, w)
  PROVE  mem' \in [Memory -> Byte]
<1>1. ASSUME NEW x \in Memory PROVE mem'[x] \in Byte
  <2>1. CASE x \in bytes
    <3>1. x - a \in 0 .. WordSize - 1
      BY <2>1 DEF WordAt, WordSize
    <3> QED
      BY <3>1, <2>1 DEF Write, Words
  <2>2. CASE x \notin bytes
    BY <2>2 DEF Write, TraceeTypeOK
  <2> QED
    BY <2>1, <2>2
<1> QED
  BY <1>1 DEF Write

LEMMA PokeType ==
  ASSUME TraceeTypeOK, NEW a \in Int, NEW w \in Words, Poke(a, w) \/ PokeFails(a, w)
  PROVE  TraceeTypeOK'
<1>1. CASE Poke(a, w)
  <2>1. mem' \in [Memory -> Byte]
    BY <1>1, WriteType DEF Poke
  <2> QED
    BY <1>1, <2>1 DEF Poke, TraceeTypeOK
<1>2. CASE Refused(a)
  BY <1>2 DEF Refused, tracee, memory, TraceeTypeOK
<1>3. CASE Torn(a, w)
  <2>1. Split(a) \subseteq WordAt(a) /\ torn' \subseteq Int
    BY <1>3, SplitInWord DEF Torn, TraceeTypeOK
  <2>2. mem' \in [Memory -> Byte]
    BY <1>3, <2>1, WriteType DEF Torn
  <2> QED
    BY <1>3, <2>1, <2>2 DEF Torn, TraceeTypeOK
<1> QED
  BY <1>1, <1>2, <1>3 DEF PokeFails

LEMMA RequestTypes ==
  ASSUME TraceeTypeOK,
         Attach \/ AttachFails \/ SingleStep \/ RequestFails \/ Detach \/ TracerExits
  PROVE  TraceeTypeOK'
BY DEF TraceeTypeOK, tracee, memory, Attach, AttachFails, SingleStep, RequestFails,
       Detach, TracerExits, Runs

LEMMA TraceeStepTypes ==
  ASSUME TraceeTypeOK, NEW len, TraceeStep(len)
  PROVE  TraceeTypeOK'
<1>1. ASSUME NEW s \in Signals, SignalArrives(s) PROVE TraceeTypeOK'
  BY <1>1 DEF TraceeTypeOK, memory, SignalArrives
<1>2. CASE SignalStop
  BY <1>2 DEF TraceeTypeOK, memory, SignalStop, Runs
<1>3. CASE SignalHandled
  BY <1>3 DEF TraceeTypeOK, memory, SignalHandled, Runs
<1>4. CASE SyscallReturns(len)
  <2>1. mapped' \subseteq Pages
    BY <1>4 DEF TraceeTypeOK, SyscallReturns
  <2>2. regs.ip + SyscallLen \in Int /\ Pages \subseteq Int /\ MmapError \in Int
    BY PageAssumption, RegAssumption DEF TraceeTypeOK, Registers, SyscallLen
  <2>3. regs' \in Registers
    BY <1>4, <2>2 DEF SyscallReturns, Registers
  <2>4. /\ run' = "ptrace-stop" /\ stopsig' = SIGTRAP
        /\ UNCHANGED <<mem, private, torn, ownRegs, traced, groupStop, pending>>
    BY <1>4 DEF SyscallReturns
  <2> QED
    BY <2>1, <2>3, <2>4 DEF TraceeTypeOK, Runs
<1>5. CASE Killed
  BY <1>5 DEF TraceeTypeOK, memory, Killed, Runs
<1> QED
  BY <1>1, <1>2, <1>3, <1>4, <1>5 DEF TraceeStep

LEMMA Init_TypeOK == Init => TypeOK
<1> SUFFICES ASSUME Init PROVE TypeOK
  OBVIOUS
<1>1. \A a \in Memory : a \in Int
  BY PageAssumption, TextAssumption DEF Memory, Text, PageAt
<1>2. TraceeTypeOK
  <2>1. mem \in [Memory -> Byte]
    BY <1>1, BytesType DEF Init, TraceeInit
  <2>2. ownRegs \in Registers /\ regs = ownRegs
    BY TextAssumption, RegAssumption DEF Init, TraceeInit, Text, Registers
  <2> QED
    BY <2>1, <2>2 DEF Init, TraceeInit, TraceeTypeOK, Runs
<1>3. saved_text \in Words
  BY BytesType DEF Init, Words
<1> QED
  BY <1>2, <1>3 DEF Init, TypeOK, Registers, Labels, Words

LEMMA TypeStep == TypeOK /\ [Next]_vars => TypeOK'
<1> SUFFICES ASSUME TypeOK, [Next]_vars PROVE TypeOK'
  OBVIOUS
<1> USE DEF TypeOK, Goto, locals, memory, Labels
<1>1. CASE AttachTarget
  BY <1>1, RequestTypes DEF AttachTarget
<1>2. CASE WaitStop
  BY <1>2 DEF WaitStop, tracee, TraceeTypeOK
<1>3. CASE GetRegs
  BY <1>3 DEF GetRegs, tracee, TraceeTypeOK
<1>4. CASE PokeSyscall
  <2>1. saved_regs.ip \in Int
    BY DEF Registers
  <2>2. saved_text' \in Words
    BY <1>4, <2>1, PeekedType DEF PokeSyscall
  <2>3. SyscallWord(saved_text') \in Words
    BY <2>2, BytesType DEF SyscallWord, Words, WordSize
  <2>4. TraceeTypeOK'
    BY <1>4, <2>1, <2>3, PokeType DEF PokeSyscall
  <2> QED
    BY <1>4, <2>2, <2>4 DEF PokeSyscall, Words
<1>5. CASE SetCallRegs
  <2>1. [saved_regs EXCEPT !.ret = SysNo] \in Registers
    BY RegAssumption DEF Registers
  <2> QED
    BY <1>5, <2>1, RequestTypes DEF SetCallRegs, SetRegs, TraceeTypeOK
<1>6. CASE StepTarget
  BY <1>6, RequestTypes DEF StepTarget
<1>7. CASE WaitStep
  BY <1>7 DEF WaitStep, tracee, TraceeTypeOK
<1>8. CASE GetReturn
  BY <1>8 DEF GetReturn, tracee, TraceeTypeOK, Registers
<1>9. CASE RestoreText \/ UndoText
  <2>1. saved_regs.ip \in Int /\ saved_text \in Words
    BY DEF Registers, Words
  <2>2. TraceeTypeOK'
    BY <1>9, <2>1, PokeType DEF RestoreText, UndoText
  <2> QED
    BY <1>9, <2>2 DEF RestoreText, UndoText
<1>10. CASE WritePatch
  <2>1. remote_addr + i \in Int /\ i + WordSize \in Nat
    BY DEF WordSize
  <2>2. PatchWord(i) \in Words
    BY BytesType DEF PatchWord, Words, WordSize
  <2>3. TraceeTypeOK'
    BY <1>10, <2>1, <2>2, PokeType DEF WritePatch
  <2> QED
    BY <1>10, <2>1, <2>3 DEF WritePatch
<1>11. CASE PokeJmp
  <2>1. ctx.fault_addr \in Int
    BY FaultAddrType
  <2>2. JmpWord(Peeked(ctx.fault_addr)) \in Words
    <3>1. Peeked(ctx.fault_addr) \in Words
      BY <2>1, PeekedType
    <3>2. Displacement(ctx.fault_addr, remote_addr) \in Int
      BY <2>1, DisplacementType
    <3> QED
      BY <3>1, <3>2, BytesType DEF JmpWord, Words, WordSize
  <2>3. TraceeTypeOK'
    BY <1>11, <2>1, <2>2, PokeType DEF PokeJmp
  <2> QED
    BY <1>11, <2>3 DEF PokeJmp
<1>12. CASE RestoreRegs \/ UndoRegs
  BY <1>12 DEF RestoreRegs, UndoRegs, SetRegs, RequestFails, tracee, TraceeTypeOK
<1>13. CASE DetachTarget \/ GiveUp \/ InjectorKilled
  BY <1>13, RequestTypes DEF DetachTarget, GiveUp, InjectorKilled
<1>14. CASE TargetStep
  BY <1>14, TraceeStepTypes DEF TargetStep
<1>15. CASE UNCHANGED vars
  BY <1>15 DEF vars, tracee, TraceeTypeOK
<1> QED
  BY <1>1, <1>2, <1>3, <1>4, <1>5, <1>6, <1>7, <1>8, <1>9, <1>10, <1>11,
     <1>12, <1>13, <1>14, <1>15 DEF Next, Inject

(* The state keeps its type through every request, failure and signal, for *)
(* every memory layout and every fault address and patch.                  *)
THEOREM TypeCorrect == Spec => []TypeOK
BY Init_TypeOK, TypeStep, PTL DEF Spec

-----------------------------------------------------------------------------
(***************************************************************************)
(* The inductive invariant: for each label what the injector has changed   *)
(* so far, and what it still has in hand to undo it. Nothing is claimed of *)
(* a dead target, nor once the injector has been killed.                   *)
(***************************************************************************)

Sane(S) == \A a \in Text \ S : Untouched(a)

Before   == {"attach", "wait_stop", "get_regs"}
Bare     == Before \cup {"poke_syscall", "write_patch", "undo_regs", "give_up", "failure"}
Borrowing == {"set_regs", "single_step", "wait_step", "get_return", "restore_text", "undo_text"}
Linked   == {"restore_regs", "detach", "success"}
Whole    == Labels \ {"undo_text", "undo_regs", "give_up", "failure", "killed"}

(* Between a wait and the next step the target has stopped, and only while *)
(* the step is awaited may it execute the syscall.                         *)
RunInv ==
  /\ pc \in Labels \ {"attach", "wait_stop", "wait_step", "success", "failure", "killed"}
       => run = "ptrace-stop"
  /\ pc \in {"attach", "wait_stop", "success", "failure"} => run # "stepping"
  /\ pc \in Before \cup {"poke_syscall", "set_regs", "single_step"} => mapped = {}

CodeInv ==
  /\ pc \in Whole => torn = {}
  /\ pc \in Bare =>
       Sane(torn) /\ torn \in {{}, Split(ownRegs.ip), Split(ctx.fault_addr)}
  /\ pc \in Borrowing =>
       /\ Sane(WordAt(saved_regs.ip) \cup torn)
       /\ torn \in {{}, Split(ctx.fault_addr)}
       /\ torn = {} => \A a \in WordAt(saved_regs.ip) : mem[a][1] # "jmp"
  /\ pc \in Linked => Sane(EntryBytes) /\ Hooked

SavedInv ==
  /\ pc \in Borrowing \cup {"poke_syscall", "write_patch", "restore_regs", "undo_regs"}
       => saved_regs = ownRegs
  /\ pc \in Borrowing \cup {"write_patch"} =>
       /\ WordAt(saved_regs.ip) \subseteq Text
       /\ saved_regs.ip \in private
       /\ \A k \in 0 .. WordSize - 1 : saved_text[k] = Own(saved_regs.ip + k)
  /\ pc \in Before \cup {"poke_syscall", "set_regs", "detach", "success", "give_up", "failure"}
       => regs = ownRegs

(* The address that the patch is written to is a page, or the number of    *)
(* the system call when a signal has come in its stead; the second is not  *)
(* mapped, so that the first word of the patch tells them apart.           *)
PageInv ==
  /\ pc \in {"single_step", "wait_step", "get_return"} => regs.ret \in {SysNo, MmapError} \cup mapped
  /\ pc \in {"restore_text", "write_patch"} => remote_addr \in {SysNo} \cup mapped
  /\ pc \in Before \cup {"poke_syscall", "set_regs", "single_step", "wait_step",
                          "get_return", "restore_text"} => i = 0
  /\ pc = "write_patch" =>
       /\ i % WordSize = 0
       /\ i > 0 => remote_addr \in mapped
       /\ \A n \in 0 .. ctx.patch_size - 1 :
            n < i => remote_addr + n \in Memory /\ mem[remote_addr + n] = Patch(n)
  /\ pc = "undo_text" /\ torn # {} /\ ctx.patch_size > 0 => remote_addr \in mapped

IInv ==
  /\ TypeOK
  /\ Alive => RunInv /\ CodeInv /\ SavedInv /\ PageInv
  /\ JmpAfterPatch

USE DEF Labels, Before, Bare, Borrowing, Linked, Whole

LEMMA NoJmpYet ==
  ASSUME IInv, Alive, torn = {}, pc \in Bare \cup Borrowing
  PROVE  \A a \in Text : mem[a][1] # "jmp"
<1>1. \A a : Own(a)[1] # "jmp"
  BY DEF Own
<1> QED
  BY <1>1 DEF IInv, CodeInv, Sane, Untouched

LEMMA Init_IInv == Init => IInv
<1> SUFFICES ASSUME Init PROVE IInv
  OBVIOUS
<1>1. TypeOK
  BY Init_TypeOK
<1>2. Sane({}) /\ torn = {}
  BY DEF Init, TraceeInit, Sane, Untouched, Memory
<1>3. RunInv /\ SavedInv /\ PageInv /\ CodeInv
  BY <1>2 DEF Init, TraceeInit, RunInv, SavedInv, PageInv, CodeInv
<1>4. JmpAfterPatch
  BY <1>2 DEF JmpAfterPatch, Sane, Untouched, Own
<1> QED
  BY <1>1, <1>3, <1>4 DEF IInv

(* The steps of the injector that leave the memory of the target alone.    *)
LEMMA QuietSteps ==
  ASSUME IInv,
         AttachTarget \/ WaitStop \/ GetRegs \/ SetCallRegs \/ StepTarget \/ WaitStep
         \/ RestoreRegs \/ DetachTarget \/ UndoRegs \/ GiveUp \/ InjectorKilled
  PROVE  IInv'
<1> USE DEF Goto, locals, tracee, memory, Attach, AttachFails, WaitReturns, SetRegs,
            SingleStep, RequestFails, Detach, TracerExits, Held, Alive
<1>1. TypeOK'
  BY TypeStep DEF Next, Inject, IInv
<1>2. UNCHANGED <<mem, torn, ctx, remote_addr, saved_text, i, mapped, private, ownRegs>>
  BY DEF AttachTarget, WaitStop, GetRegs, SetCallRegs, StepTarget, WaitStep,
         RestoreRegs, DetachTarget, UndoRegs, GiveUp, InjectorKilled
<1>3. JmpAfterPatch'
  BY <1>2 DEF IInv, JmpAfterPatch, Hooked, PatchWritten
<1>4. UNCHANGED <<Hooked, EntryBytes>> /\ \A S : UNCHANGED Sane(S)
  BY <1>2 DEF Hooked, EntryBytes, Sane, Untouched
<1> SUFFICES ASSUME Alive' PROVE (RunInv /\ CodeInv /\ SavedInv /\ PageInv)'
  BY <1>1, <1>3 DEF IInv
<1> USE DEF RunInv, CodeInv, SavedInv, PageInv
<1>5. CASE AttachTarget
  BY <1>2, <1>4, <1>5 DEF AttachTarget, IInv
<1>6. CASE WaitStop
  BY <1>2, <1>4, <1>6 DEF WaitStop, IInv
<1>7. CASE GetRegs
  BY <1>2, <1>4, <1>7 DEF GetRegs, IInv
<1>8. CASE SetCallRegs
  <2>1. [saved_regs EXCEPT !.ret = SysNo].ret = SysNo
    BY DEF IInv, TypeOK, Registers
  <2>2. pc = "set_regs" /\ run = "ptrace-stop"
    BY <1>8 DEF SetCallRegs, IInv
  <2>3. pc' = "single_step" /\ regs'.ret = SysNo /\ UNCHANGED <<run, saved_regs>>
    BY <1>8, <2>1, <2>2 DEF SetCallRegs
  <2> QED
    BY <1>2, <1>4, <2>2, <2>3 DEF IInv
<1>9. CASE StepTarget
  BY <1>2, <1>4, <1>9 DEF StepTarget, IInv
<1>10. CASE WaitStep
  BY <1>2, <1>4, <1>10 DEF WaitStep, IInv
<1>11. CASE RestoreRegs \/ UndoRegs
  BY <1>2, <1>4, <1>11 DEF RestoreRegs, UndoRegs, IInv
<1>12. CASE DetachTarget \/ GiveUp
  BY <1>2, <1>4, <1>12 DEF DetachTarget, GiveUp, IInv
<1>13. CASE InjectorKilled
  BY <1>2, <1>4, <1>13 DEF InjectorKilled, IInv
<1> QED
  BY <1>5, <1>6, <1>7, <1>8, <1>9, <1>10, <1>11, <1>12, <1>13

(* A wait returns whatever there is in the register; nothing is written.   *)
LEMMA GetReturnStep == IInv /\ GetReturn => IInv'
<1> SUFFICES ASSUME IInv, GetReturn PROVE IInv'
  OBVIOUS
<1> USE DEF Goto, locals, tracee, memory, Held, Alive
<1>1. TypeOK'
  BY TypeStep DEF Next, Inject, IInv
<1>2. UNCHANGED <<tracee, ctx, saved_regs, saved_text, i>> /\ pc = "get_return"
  BY DEF GetReturn
<1>3. \A S : UNCHANGED Sane(S)
  BY <1>2 DEF Sane, Untouched
<1>4. CASE ~Held
  <2>1. UNCHANGED remote_addr /\ pc' = "undo_text"
    BY <1>4 DEF GetReturn
  <2>2. JmpAfterPatch'
    BY <1>2, <2>1 DEF IInv, JmpAfterPatch, Hooked, PatchWritten
  <2> QED
    BY <1>1, <1>2, <1>3, <1>4, <2>1, <2>2 DEF IInv, RunInv, CodeInv, SavedInv, PageInv
<1>5. CASE Held
  <2>1. JmpAfterPatch'
    <3>1. torn = {}
      BY <1>2, <1>5 DEF IInv, CodeInv
    <3> QED
      BY <1>2, <1>5, <3>1, NoJmpYet DEF JmpAfterPatch
  <2>2. remote_addr' = regs.ret /\ pc' = IF regs.ret >= 0 THEN "restore_text" ELSE "undo_text"
    BY <1>5 DEF GetReturn
  <2>3. regs.ret \in {SysNo, MmapError} \cup mapped
    BY <1>2, <1>5 DEF IInv, PageInv
  <2>4. pc' = "restore_text" => remote_addr' \in {SysNo} \cup mapped
    BY <2>2, <2>3, RegAssumption
  <2> QED
    BY <1>1, <1>2, <1>3, <1>5, <2>1, <2>2, <2>4
    DEF IInv, RunInv, CodeInv, SavedInv, PageInv
<1> QED
  BY <1>4, <1>5

(* What a POKE does to the memory of the target.                           *)
LEMMA WriteEffect ==
  ASSUME NEW a \in Int, NEW w, NEW bytes \in SUBSET WordAt(a), Write(bytes, a, w)
  PROVE  /\ \A x \in Memory \ bytes : mem'[x] = mem[x]
         /\ \A k \in 0 .. WordSize - 1 :
              a + k \in bytes \cap Memory => mem'[a + k] = w[k]
<1>1. \A k \in 0 .. WordSize - 1 : (a + k) - a = k
  BY DEF WordSize
<1> QED
  BY <1>1 DEF Write

LEMMA PokeEffect ==
  ASSUME TypeOK, NEW a \in Int, NEW w, Poke(a, w)
  PROVE  /\ run = "ptrace-stop" /\ WordAt(a) \subseteq Mapped
         /\ \A x \in Memory \ WordAt(a) : mem'[x] = mem[x]
         /\ \A k \in 0 .. WordSize - 1 : a + k \in Memory /\ mem'[a + k] = w[k]
         /\ private' = private \cup {a}
         /\ UNCHANGED <<mapped, torn, regs, ownRegs, run, traced, groupStop, pending>>
<1>1. Mapped \subseteq Memory
  BY DEF TypeOK, TraceeTypeOK, Mapped, Memory
<1>2. ASSUME NEW k \in 0 .. WordSize - 1
      PROVE  a + k \in WordAt(a) \cap Memory
  BY <1>1 DEF Poke, CanPeek, WordAt, WordSize
<1> QED
  BY <1>2, WriteEffect DEF Poke, CanPeek, Held

(* What one that fails does: nothing, or a part of it.                     *)
LEMMA TornEffect ==
  ASSUME TypeOK, NEW a \in Int, NEW w, Torn(a, w)
  PROVE  /\ run = "ptrace-stop" /\ a \in Split(a) /\ Split(a) \subseteq Mapped
         /\ Split(a) \subseteq WordAt(a) /\ torn' = torn \cup Split(a)
         /\ \A x \in Memory \ Split(a) : mem'[x] = mem[x]
         /\ \A x \in Split(a) : x - a \in 0 .. WordSize - 1 /\ mem'[x] = w[x - a]
         /\ UNCHANGED <<mapped, private, regs, ownRegs, run, traced, groupStop, pending>>
<1>1. Mapped \subseteq Memory
  BY DEF TypeOK, TraceeTypeOK, Mapped, Memory
<1>2. Split(a) \subseteq WordAt(a) /\ a \in Split(a)
  BY SplitInWord DEF Torn
<1>3. \A x \in Split(a) : x \in Memory /\ x - a \in 0 .. WordSize - 1
  BY <1>1, <1>2 DEF Torn, WordAt, WordSize
<1> QED
  BY <1>2, <1>3 DEF Torn, Write, Held

(* One cannot fail on a mapped word that has been written before.          *)
LEMMA PokeSucceeds ==
  ASSUME NEW a \in Int, NEW w, WordAt(a) \subseteq Mapped, a \in private, run = "ptrace-stop"
  PROVE  ~PokeFails(a, w)
<1>1. FirstPage(a) \subseteq Mapped
  BY SplitInWord
<1> QED
  BY <1>1 DEF PokeFails, Refused, Torn, NoMemory, Held

(* A word is the sum of its bytes.                                         *)
LEMMA InWord ==
  ASSUME NEW a \in Int, NEW x \in WordAt(a)
  PROVE  x - a \in 0 .. WordSize - 1 /\ x = a + (x - a)
BY DEF WordAt, WordSize

LEMMA SavedIp == TypeOK => saved_regs.ip \in Int /\ saved_text \in Words
BY DEF TypeOK, Registers, Words

LEMMA PokeSyscallStep == IInv /\ PokeSyscall => IInv'
<1> SUFFICES ASSUME IInv, PokeSyscall PROVE IInv'
  OBVIOUS
<1> DEFINE ip == saved_regs.ip
           w  == SyscallWord(saved_text')
<1>1. TypeOK' /\ TypeOK /\ ip \in Int
  BY TypeStep, SavedIp DEF Next, Inject, IInv
<1>2. /\ pc = "poke_syscall" /\ UNCHANGED <<ctx, saved_regs, remote_addr, i>>
      /\ saved_text' = Peeked(ip)
  BY DEF PokeSyscall, Goto
<1>3. Alive => /\ run = "ptrace-stop" /\ mapped = {} /\ Sane({}) /\ torn = {}
               /\ saved_regs = ownRegs /\ regs = ownRegs /\ i = 0
  BY <1>2 DEF IInv, RunInv, CodeInv, SavedInv, PageInv
<1>4. CASE Refused(ip) /\ Goto("give_up")
  <2>1. UNCHANGED tracee
    BY <1>4 DEF Refused
  <2>2. JmpAfterPatch'
    BY <1>2, <2>1 DEF IInv, JmpAfterPatch, Hooked, PatchWritten, tracee, memory
  <2> QED
    BY <1>1, <1>2, <1>3, <1>4, <2>1, <2>2
    DEF tracee, memory, Goto, Alive, IInv, RunInv, CodeInv, SavedInv, PageInv, Sane, Untouched
<1>5. \A k \in 0 .. WordSize - 1 :
        Alive /\ ip + k \in Text =>
          /\ w[k] \in {Syscall(k), Ones, Own(ip + k)}
          /\ CanPeek(ip) => saved_text'[k] = Own(ip + k)
  BY <1>1, <1>2, <1>3 DEF SyscallWord, Peeked, Word, Sane, Untouched
<1>6. CASE Torn(ip, w) /\ Goto("give_up")
  <2>1. /\ run = "ptrace-stop" /\ Split(ip) \subseteq Mapped
        /\ Split(ip) \subseteq WordAt(ip) /\ torn' = torn \cup Split(ip)
        /\ \A x \in Memory \ Split(ip) : mem'[x] = mem[x]
        /\ \A x \in Split(ip) : mem'[x] = w[x - ip]
        /\ UNCHANGED <<mapped, regs, ownRegs, run>>
    BY <1>1, <1>6, TornEffect
  <2>2. Alive /\ Mapped = Text /\ torn' = Split(ip) /\ ip = ownRegs.ip
    BY <1>3, <2>1 DEF Alive, Mapped
  <2>3. Sane(torn)'
    BY <1>3, <2>1, <2>2 DEF Sane, Untouched, Memory
  <2>4. ASSUME NEW x \in Text PROVE mem'[x][1] # "jmp"
    <3>1. CASE x \in Split(ip)
      <4>1. x - ip \in 0 .. WordSize - 1 /\ x = ip + (x - ip)
        BY <1>1, <2>1, <3>1, InWord
      <4> QED
        BY <1>5, <2>1, <2>2, <3>1, <4>1 DEF Syscall, Ones, Own
    <3>2. CASE x \notin Split(ip)
      BY <2>2, <2>3, <3>2 DEF Sane, Untouched, Own
    <3> QED
      BY <3>1, <3>2
  <2>5. JmpAfterPatch'
    BY <2>4 DEF JmpAfterPatch
  <2> QED
    BY <1>1, <1>2, <1>3, <1>6, <2>1, <2>2, <2>3, <2>5
    DEF Goto, IInv, RunInv, CodeInv, SavedInv, PageInv
<1>7. CASE Poke(ip, w) /\ Goto("set_regs")
  <2>1. /\ run = "ptrace-stop" /\ WordAt(ip) \subseteq Mapped /\ ip \in private'
        /\ \A x \in Memory \ WordAt(ip) : mem'[x] = mem[x]
        /\ \A k \in 0 .. WordSize - 1 : mem'[ip + k] = w[k]
        /\ UNCHANGED <<mapped, torn, regs, ownRegs, run>>
    BY <1>1, <1>7, PokeEffect
  <2>2. Alive /\ WordAt(ip) \subseteq Text /\ CanPeek(ip)
    BY <1>3, <1>7, <2>1 DEF Alive, Mapped, Poke
  <2>3. ASSUME NEW k \in 0 .. WordSize - 1
        PROVE  /\ saved_text'[k] = Own(ip + k) /\ ip + k \in Text
               /\ mem'[ip + k] \in {Syscall(k), Ones, Own(ip + k)}
    <3>1. ip + k \in Text
      BY <1>1, <2>2 DEF WordAt, WordSize
    <3> QED
      BY <1>5, <2>1, <2>2, <3>1
  <2>4. Sane(WordAt(ip))'
    BY <1>2, <1>3, <2>1, <2>2 DEF Sane, Untouched, Memory
  <2>5. \A x \in WordAt(ip) : mem'[x][1] # "jmp"
    <3>1. ASSUME NEW k \in 0 .. WordSize - 1 PROVE mem'[ip + k][1] # "jmp"
      BY <2>3 DEF Syscall, Own, Ones
    <3> QED
      BY <1>1, <3>1, InWord
  <2>6. JmpAfterPatch'
    BY <1>2, <2>4, <2>5 DEF JmpAfterPatch, Sane, Untouched, Own
  <2>7. torn' = {} /\ Sane(WordAt(ip) \cup torn)'
    BY <1>3, <2>1, <2>2, <2>4 DEF Sane
  <2> QED
    BY <1>1, <1>2, <1>3, <1>7, <2>1, <2>2, <2>3, <2>5, <2>6, <2>7
    DEF Goto, IInv, RunInv, CodeInv, SavedInv, PageInv
<1> QED
  BY <1>4, <1>6, <1>7 DEF PokeSyscall, PokeFails

(* The patch is not in the code.                                           *)
LEMMA PatchBeside ==
  ASSUME IInv, ctx.patch_size > 0 => remote_addr \in mapped,
         NEW n \in 0 .. ctx.patch_size - 1
  PROVE  remote_addr + n \notin Text
<1>1. ctx.patch_size \in Nat /\ mapped \subseteq Pages
  BY FaultAddrType DEF IInv, TypeOK, TraceeTypeOK
<1>2. remote_addr \in Pages /\ remote_addr \in Nat /\ PageLen \in Nat
  <2>1. ctx.patch_size > 0
    BY <1>1
  <2> QED
    BY <1>1, <2>1, PageAssumption
<1>3. ctx.patch_size <= PageLen
  BY LengthAssumption DEF IInv, TypeOK
<1>4. remote_addr + n \in PageAt(remote_addr)
  BY <1>1, <1>2, <1>3 DEF PageAt
<1> QED
  BY <1>2, <1>4, PageAssumption

(* Writing the saved word back makes the code the target's own again, but  *)
(* for what was torn, and it does not fail while the target lives.         *)
LEMMA TextRestored ==
  ASSUME IInv, pc \in Borrowing, Alive, run = "ptrace-stop",
         Poke(saved_regs.ip, saved_text) \/ PokeFails(saved_regs.ip, saved_text)
  PROVE  /\ Poke(saved_regs.ip, saved_text) /\ Sane(torn)'
         /\ UNCHANGED <<mapped, torn, regs, ownRegs, run>> /\ private \subseteq private'
         /\ \A x \in Memory : mem'[x] = mem[x] \/ (x \in Text /\ mem'[x] = Own(x))
<1> DEFINE ip == saved_regs.ip
<1>1. TypeOK /\ ip \in Int
  BY SavedIp DEF IInv
<1>2. /\ Sane(WordAt(ip) \cup torn) /\ WordAt(ip) \subseteq Text /\ ip \in private
      /\ \A k \in 0 .. WordSize - 1 : saved_text[k] = Own(ip + k)
  BY DEF IInv, CodeInv, SavedInv
<1>3. Poke(ip, saved_text)
  BY <1>1, <1>2, PokeSucceeds DEF Mapped
<1>4. /\ \A x \in Memory \ WordAt(ip) : mem'[x] = mem[x]
      /\ \A k \in 0 .. WordSize - 1 : mem'[ip + k] = saved_text[k]
      /\ UNCHANGED <<mapped, torn, regs, ownRegs, run>> /\ private \subseteq private'
  BY <1>1, <1>3, PokeEffect
<1>5. \A x \in WordAt(ip) : mem'[x] = Own(x)
  BY <1>1, <1>2, <1>4, InWord
<1>6. Sane(torn)'
  BY <1>2, <1>4, <1>5 DEF Sane, Untouched, Memory
<1> QED
  BY <1>2, <1>3, <1>4, <1>5, <1>6

LEMMA RestoreStep == IInv /\ (RestoreText \/ UndoText) => IInv'
<1> SUFFICES ASSUME IInv, RestoreText \/ UndoText PROVE IInv'
  OBVIOUS
<1>1. TypeOK'
  BY TypeStep DEF Next, Inject, IInv
<1>2. /\ pc \in Borrowing
      /\ Poke(saved_regs.ip, saved_text) \/ PokeFails(saved_regs.ip, saved_text)
      /\ UNCHANGED <<ctx, saved_regs, saved_text, remote_addr, i>>
  BY DEF RestoreText, UndoText, Goto, locals
<1>3. CASE ~Alive
  <2>1. UNCHANGED <<mem, torn, run>>
    BY <1>2, <1>3
    DEF Poke, CanPeek, Held, PokeFails, Refused, Torn, tracee, memory, Alive
  <2>2. JmpAfterPatch'
    BY <1>2, <2>1 DEF IInv, JmpAfterPatch, Hooked, PatchWritten
  <2> QED
    BY <1>1, <1>3, <2>1, <2>2 DEF IInv, Alive
<1>4. CASE Alive
  <2>1. run = "ptrace-stop"
    BY <1>4 DEF RestoreText, UndoText, IInv, RunInv
  <2>2. /\ Poke(saved_regs.ip, saved_text) /\ Sane(torn)'
        /\ UNCHANGED <<mapped, torn, regs, ownRegs, run>> /\ private \subseteq private'
        /\ \A x \in Memory : mem'[x] = mem[x] \/ (x \in Text /\ mem'[x] = Own(x))
    BY <1>2, <1>4, <2>1, TextRestored
  <2>3. torn \in {{}, Split(ctx.fault_addr)}
    BY <1>2, <1>4 DEF IInv, CodeInv
  <2>4. JmpAfterPatch'
    <3>1. CASE torn = {}
      BY <2>2, <3>1 DEF JmpAfterPatch, Sane, Untouched, Own
    <3>2. CASE torn # {}
      <4> SUFFICES ASSUME NEW x \in Text, mem'[x][1] = "jmp"
                   PROVE  PatchWritten' /\ (torn = Split(ctx.fault_addr))'
        BY DEF JmpAfterPatch
      <4>1. mem[x][1] = "jmp"
        BY <2>2 DEF Own, Memory
      <4>2. PatchWritten
        BY <4>1 DEF IInv, JmpAfterPatch
      <4>3. pc = "undo_text"
        BY <1>2, <1>4, <3>2 DEF IInv, CodeInv
      <4>4. ASSUME NEW n \in 0 .. ctx.patch_size - 1 PROVE remote_addr + n \notin Text
        BY <1>4, <3>2, <4>3, PatchBeside DEF IInv, PageInv
      <4> QED
        BY <1>2, <2>2, <2>3, <3>2, <4>2, <4>4 DEF PatchWritten
    <3> QED
      BY <3>1, <3>2
  <2>5. CASE RestoreText
    <3>1. pc = "restore_text" /\ pc' = "write_patch"
      BY <1>1, <1>4, <2>1, <2>2, <2>5, PokeSucceeds, SavedIp
      DEF RestoreText, Goto, IInv, SavedInv, Mapped
    <3> QED
      BY <1>1, <1>2, <1>4, <2>1, <2>2, <2>4, <3>1
      DEF IInv, RunInv, CodeInv, SavedInv, PageInv, WordSize
  <2>6. CASE UndoText
    BY <1>1, <1>2, <1>4, <2>1, <2>2, <2>3, <2>4, <2>6
    DEF UndoText, Goto, IInv, RunInv, CodeInv, SavedInv, PageInv
  <2> QED
    BY <2>5, <2>6
<1> QED
  BY <1>3, <1>4

(* The entry of the function is not in a page that mmap returns.           *)
LEMMA FaultWord ==
  ASSUME TypeOK
  PROVE  WordAt(ctx.fault_addr) \cap Mapped \subseteq Text
<1>1. \A p \in Pages : WordAt(ctx.fault_addr) \cap PageAt(p) = {}
  BY ContextAssumption DEF TypeOK
<1> QED
  BY <1>1 DEF Mapped, TypeOK, TraceeTypeOK

(* A word of the patch whose first byte is mapped is in the page, beside   *)
(* the code and nowhere near the end of the page.                          *)
LEMMA PatchWordInPage ==
  ASSUME IInv, Alive, pc = "write_patch", ~Written, remote_addr + i \in Mapped
  PROVE  /\ remote_addr \in mapped
         /\ WordAt(remote_addr + i) \subseteq PageAt(remote_addr)
         /\ WordAt(remote_addr + i) \cap Text = {}
         /\ Split(remote_addr + i) = {}
<1>1. /\ remote_addr \in {SysNo} \cup mapped /\ i % WordSize = 0
      /\ i > 0 => remote_addr \in mapped
  BY DEF IInv, PageInv
<1>2. i \in Nat /\ ctx.patch_size \in Nat /\ mapped \subseteq Pages /\ i < ctx.patch_size
  BY FaultAddrType DEF IInv, TypeOK, TraceeTypeOK, Written
<1>3. Mapped \subseteq Memory
  BY <1>2 DEF Mapped, Memory
<1>4. remote_addr \in mapped
  <2>1. CASE i > 0
    BY <1>1, <2>1
  <2>2. CASE i = 0 /\ remote_addr = SysNo
    <3>1. SysNo \in WordAt(SysNo)
      BY RegAssumption DEF WordAt, WordSize
    <3>2. WordAt(SysNo) \cap Memory = {}
      BY UnmappedAssumption
    <3>3. SysNo + i = SysNo
      BY <2>2, RegAssumption
    <3> QED
      BY <1>3, <2>2, <3>1, <3>2, <3>3
  <2> QED
    BY <1>1, <1>2, <2>1, <2>2
<1>5. remote_addr \in Pages /\ remote_addr \in Nat /\ PageLen \in Nat
  BY <1>2, <1>4, PageAssumption
<1>6. ctx.patch_size <= PageLen /\ PageLen % WordSize = 0
  BY LengthAssumption DEF IInv, TypeOK
<1>7. i + WordSize <= PageLen
  BY <1>1, <1>2, <1>5, <1>6 DEF WordSize
<1>8. WordAt(remote_addr + i) \subseteq PageAt(remote_addr)
  BY <1>2, <1>5, <1>7 DEF WordAt, PageAt, WordSize
<1>9. PageAt(remote_addr) \cap Text = {}
  BY <1>5, PageAssumption
<1>10. Split(remote_addr + i) = {}
  <2>1. remote_addr % WordSize = 0 /\ \A p \in PageStarts : p \in Nat /\ p % WordSize = 0
    BY <1>5, PageStartAssumption
  <2>2. \A p \in PageStarts : p <= remote_addr + i \/ remote_addr + i + WordSize <= p
    BY <1>1, <1>2, <1>5, <2>1 DEF WordSize
  <2>3. FirstPage(remote_addr + i) = WordAt(remote_addr + i)
    BY <1>2, <1>5, <2>1, <2>2 DEF FirstPage, WordAt, WordSize
  <2> QED
    BY <2>3 DEF Split
<1> QED
  BY <1>4, <1>8, <1>9, <1>10

LEMMA WritePatchStep == IInv /\ WritePatch => IInv'
<1> SUFFICES ASSUME IInv, WritePatch PROVE IInv'
  OBVIOUS
<1>1. TypeOK' /\ TypeOK /\ remote_addr + i \in Int
  BY TypeStep DEF Next, Inject, IInv, TypeOK
<1>2. pc = "write_patch" /\ ~Written /\ UNCHANGED <<ctx, saved_regs, saved_text, remote_addr>>
  BY DEF WritePatch, Goto
<1>3. CASE PokeFails(remote_addr + i, PatchWord(i)) /\ i' = i /\ Goto("undo_text")
  <2>1. Alive => UNCHANGED tracee /\ torn = {}
    <3>1. Alive => torn = {}
      BY <1>2 DEF IInv, CodeInv
    <3>2. Alive => ~Torn(remote_addr + i, PatchWord(i))
      BY <1>1, <1>2, TornEffect, PatchWordInPage
    <3> QED
      BY <1>3, <3>1, <3>2 DEF PokeFails, Refused
  <2>2. ~Alive => UNCHANGED tracee
    BY <1>3 DEF PokeFails, Refused, Torn, Held, Alive
  <2>3. Alive => \A a \in WordAt(saved_regs.ip) : mem[a][1] # "jmp"
    BY <1>2, <2>1, NoJmpYet DEF IInv, SavedInv
  <2>4. JmpAfterPatch'
    BY <1>2, <2>1, <2>2 DEF IInv, JmpAfterPatch, Hooked, PatchWritten, tracee, memory
  <2> QED
    BY <1>1, <1>2, <1>3, <2>1, <2>2, <2>3, <2>4
    DEF tracee, memory, Goto, Alive, IInv, RunInv, CodeInv, SavedInv, PageInv, Sane, Untouched
<1>4. CASE Poke(remote_addr + i, PatchWord(i)) /\ i' = i + WordSize /\ Goto("write_patch")
  <2> DEFINE a == remote_addr + i
  <2>1. /\ run = "ptrace-stop" /\ WordAt(a) \subseteq Mapped
        /\ \A x \in Memory \ WordAt(a) : mem'[x] = mem[x]
        /\ \A k \in 0 .. WordSize - 1 : a + k \in Memory /\ mem'[a + k] = PatchWord(i)[k]
        /\ private' = private \cup {a}
        /\ UNCHANGED <<mapped, torn, regs, ownRegs, run>>
    BY <1>1, <1>4, PokeEffect
  <2>2. Alive /\ a \in Mapped /\ torn = {}
    BY <1>1, <1>2, <2>1 DEF Alive, WordAt, WordSize, IInv, CodeInv
  <2>3. /\ remote_addr \in mapped /\ WordAt(a) \subseteq PageAt(remote_addr)
        /\ WordAt(a) \cap Text = {}
    BY <1>2, <2>1, <2>2, PatchWordInPage
  <2>4. Sane({})'
    BY <1>2, <2>1, <2>2, <2>3 DEF IInv, CodeInv, Sane, Untouched, Memory
  <2>5. JmpAfterPatch'
    BY <2>4 DEF JmpAfterPatch, Sane, Untouched, Own
  <2>6. i \in Nat /\ ctx.patch_size \in Nat /\ remote_addr \in Int /\ i % WordSize = 0
    BY <1>2, <2>2, FaultAddrType DEF IInv, TypeOK, PageInv
  <2>7. ASSUME NEW n \in 0 .. ctx.patch_size - 1, n < i + WordSize
        PROVE  remote_addr + n \in Memory /\ mem'[remote_addr + n] = Patch(n)
    <3>1. CASE n < i
      <4>1. remote_addr + n \in Memory /\ mem[remote_addr + n] = Patch(n)
        BY <1>2, <2>2, <3>1 DEF IInv, PageInv
      <4>2. remote_addr + n \notin WordAt(a)
        BY <2>6, <3>1 DEF WordAt
      <4> QED
        BY <2>1, <4>1, <4>2
    <3>2. CASE n >= i
      <4>1. n - i \in 0 .. WordSize - 1 /\ a + (n - i) = remote_addr + n /\ i + (n - i) = n
        BY <2>6, <2>7, <3>2 DEF WordSize
      <4>2. PatchWord(i)[n - i] = Patch(n)
        BY <2>6, <4>1 DEF PatchWord
      <4> QED
        BY <2>1, <4>1, <4>2
    <3> QED
      BY <2>6, <3>1, <3>2
  <2>8. i' % WordSize = 0
    BY <1>4, <2>6 DEF WordSize
  <2> QED
    BY <1>1, <1>2, <1>4, <2>1, <2>2, <2>3, <2>4, <2>5, <2>7, <2>8
    DEF Goto, IInv, RunInv, CodeInv, SavedInv, PageInv
<1> QED
  BY <1>3, <1>4 DEF WritePatch

LEMMA PokeJmpStep == IInv /\ PokeJmp => IInv'
<1> SUFFICES ASSUME IInv, PokeJmp PROVE IInv'
  OBVIOUS
<1> DEFINE f == ctx.fault_addr
           w == JmpWord(Peeked(f))
<1>1. TypeOK' /\ TypeOK /\ f \in Int /\ ctx.patch_size \in Nat /\ i \in Nat /\ remote_addr \in Int
  BY TypeStep, FaultAddrType DEF Next, Inject, IInv, TypeOK
<1>2. pc = "write_patch" /\ i >= ctx.patch_size
      /\ UNCHANGED <<ctx, saved_regs, saved_text, remote_addr, i>>
  BY DEF PokeJmp, Goto, locals, Written
<1>3. Alive => /\ Sane({}) /\ torn = {} /\ saved_regs = ownRegs
               /\ ctx.patch_size > 0 => remote_addr \in mapped
  <2> SUFFICES ASSUME Alive
               PROVE  /\ Sane({}) /\ torn = {} /\ saved_regs = ownRegs
                      /\ ctx.patch_size > 0 => remote_addr \in mapped
    OBVIOUS
  <2>1. Sane(torn) /\ torn = {} /\ saved_regs = ownRegs
    BY <1>2 DEF IInv, CodeInv, SavedInv
  <2>2. i > 0 => remote_addr \in mapped
    BY <1>2 DEF IInv, PageInv
  <2> QED
    BY <1>1, <1>2, <2>1, <2>2
<1>4. CASE Refused(f) /\ Goto("undo_text")
  <2>1. UNCHANGED tracee
    BY <1>4 DEF Refused
  <2>2. Alive => \A a \in WordAt(saved_regs.ip) : mem[a][1] # "jmp"
    BY <1>2, <1>3, NoJmpYet DEF IInv, SavedInv
  <2>3. JmpAfterPatch'
    BY <1>2, <2>1 DEF IInv, JmpAfterPatch, Hooked, PatchWritten, tracee, memory
  <2> QED
    BY <1>1, <1>2, <1>3, <1>4, <2>1, <2>2, <2>3
    DEF tracee, memory, Goto, Alive, IInv, RunInv, CodeInv, SavedInv, PageInv, Sane, Untouched
<1>5. ASSUME Alive, NEW n \in 0 .. ctx.patch_size - 1
      PROVE  /\ remote_addr + n \in Memory \ Text /\ mem[remote_addr + n] = Patch(n)
  <2>1. remote_addr + n \in Memory /\ mem[remote_addr + n] = Patch(n)
    BY <1>1, <1>2, <1>5 DEF IInv, PageInv
  <2> QED
    BY <1>3, <1>5, <2>1, PatchBeside
<1>6. CASE Torn(f, w) /\ Goto("undo_text")
  <2>1. /\ run = "ptrace-stop" /\ f \in Split(f) /\ Split(f) \subseteq Mapped
        /\ Split(f) \subseteq WordAt(f) /\ torn' = torn \cup Split(f)
        /\ \A x \in Memory \ Split(f) : mem'[x] = mem[x]
        /\ UNCHANGED <<mapped, private, regs, ownRegs, run>>
    BY <1>1, <1>6, TornEffect
  <2>2. Alive /\ Split(f) \subseteq Text /\ torn' = Split(f) /\ torn' # {}
    BY <1>1, <1>3, <2>1, FaultWord DEF Alive
  <2>3. Sane(WordAt(saved_regs.ip) \cup torn)'
    BY <1>2, <1>3, <2>1, <2>2 DEF Sane, Untouched, Memory
  <2>4. JmpAfterPatch'
    BY <1>2, <1>5, <2>1, <2>2 DEF JmpAfterPatch, PatchWritten
  <2> QED
    BY <1>1, <1>2, <1>3, <1>6, <2>1, <2>2, <2>3, <2>4
    DEF Goto, IInv, RunInv, CodeInv, SavedInv, PageInv
<1>7. CASE Poke(f, w) /\ Goto("restore_regs")
  <2>1. /\ run = "ptrace-stop" /\ WordAt(f) \subseteq Mapped
        /\ \A x \in Memory \ WordAt(f) : mem'[x] = mem[x]
        /\ \A k \in 0 .. WordSize - 1 : mem'[f + k] = w[k]
        /\ UNCHANGED <<mapped, torn, regs, ownRegs, run>>
    BY <1>1, <1>7, PokeEffect
  <2>2. Alive /\ WordAt(f) \subseteq Text /\ CanPeek(f)
    BY <1>1, <1>7, <2>1, FaultWord DEF Alive, Poke
  <2>3. \A k \in 0 .. WordSize - 1 :
          mem'[f + k] = IF k < JmpLen THEN Jmp(k, Displacement(f, remote_addr)) ELSE mem[f + k]
    BY <2>1, <2>2 DEF JmpWord, Peeked, Word
  <2>4. ASSUME NEW x \in Text \ EntryBytes PROVE mem'[x] = Own(x)
    <3>1. CASE x \in WordAt(f)
      <4>1. x - f \in 0 .. WordSize - 1 /\ x = f + (x - f)
        BY <1>1, <3>1, InWord
      <4>2. ~(x - f < JmpLen)
        BY <1>1, <2>4, <4>1 DEF EntryBytes, JmpLen, WordSize
      <4> QED
        BY <1>3, <2>2, <2>3, <4>1, <4>2 DEF Sane, Untouched
    <3>2. CASE x \notin WordAt(f)
      BY <1>3, <2>1, <2>2, <3>2 DEF Sane, Untouched, Memory
    <3> QED
      BY <3>1, <3>2
  <2>5. Hooked'
    <3>1. ASSUME NEW k \in 0 .. JmpLen - 1
          PROVE  f + k \in Text /\ mem'[f + k] = Jmp(k, Displacement(f, remote_addr))
      <4>1. k \in 0 .. WordSize - 1 /\ k < JmpLen
        BY DEF JmpLen, WordSize
      <4>2. f + k \in WordAt(f)
        BY <1>1, <4>1 DEF WordAt, WordSize
      <4> QED
        BY <2>2, <2>3, <4>1, <4>2
    <3> QED
      BY <1>2, <3>1 DEF Hooked
  <2>6. PatchWritten'
    BY <1>2, <1>5, <2>1, <2>2 DEF PatchWritten
  <2>7. Sane(EntryBytes)'
    BY <1>2, <2>4 DEF Sane, Untouched, EntryBytes
  <2> QED
    BY <1>1, <1>2, <1>3, <1>7, <2>1, <2>2, <2>5, <2>6, <2>7
    DEF Goto, IInv, RunInv, CodeInv, SavedInv, PageInv, JmpAfterPatch
<1> QED
  BY <1>4, <1>6, <1>7 DEF PokeJmp, PokeFails

LEMMA TargetStepKeeps == IInv /\ TargetStep => IInv'
<1> SUFFICES ASSUME IInv, TargetStep PROVE IInv'
  OBVIOUS
<1> USE DEF Alive
<1>1. TypeOK'
  BY TypeStep DEF Next, IInv
<1>2. UNCHANGED <<ctx, pc, saved_regs, saved_text, remote_addr, i, mem, torn, private, ownRegs>>
  BY DEF TargetStep, locals, memory, TraceeStep, SignalArrives, SignalStop, SignalHandled,
         SyscallReturns, Killed
<1>3. JmpAfterPatch' /\ UNCHANGED Hooked /\ \A S : UNCHANGED Sane(S)
  BY <1>2 DEF IInv, JmpAfterPatch, Hooked, PatchWritten, Sane, Untouched
<1>4. CASE Killed
  BY <1>1, <1>3, <1>4 DEF Killed, IInv
<1>5. CASE SyscallReturns(ctx.patch_size)
  <2>1. run = "stepping" /\ run' = "ptrace-stop"
    BY <1>5 DEF SyscallReturns
  <2>2. pc \in {"wait_step", "killed"}
    BY <2>1 DEF IInv, RunInv, TypeOK
  <2>3. regs'.ret \in {MmapError} \cup mapped'
    BY <1>5 DEF SyscallReturns
  <2> QED
    BY <1>1, <1>2, <1>3, <2>1, <2>2, <2>3 DEF IInv, RunInv, CodeInv, SavedInv, PageInv
<1>6. CASE SignalStop \/ SignalHandled \/ \E s \in Signals : SignalArrives(s)
  <2>1. UNCHANGED <<mapped, regs>>
    BY <1>6 DEF memory, SignalStop, SignalHandled, SignalArrives
  <2>2. /\ run # "dead" /\ (run = "ptrace-stop" => run' = "ptrace-stop")
        /\ run' = "stepping" => run = "stepping"
    BY <1>6 DEF SignalStop, SignalHandled, SignalArrives
  <2>3. RunInv /\ CodeInv /\ SavedInv /\ PageInv => (RunInv /\ CodeInv /\ SavedInv /\ PageInv)'
    <3>1. RunInv => RunInv'
      BY <1>2, <2>1, <2>2 DEF RunInv
    <3>2. CodeInv => CodeInv'
      BY <1>2, <1>3 DEF CodeInv, EntryBytes
    <3>3. SavedInv => SavedInv'
      BY <1>2, <2>1 DEF SavedInv
    <3>4. PageInv => PageInv'
      BY <1>2, <2>1 DEF PageInv
    <3> QED
      BY <3>1, <3>2, <3>3, <3>4
  <2> QED
    BY <1>1, <1>3, <2>2, <2>3 DEF IInv
<1> QED
  BY <1>4, <1>5, <1>6 DEF TargetStep, TraceeStep

(* The invariant is inductive.                                             *)
THEOREM InductiveInvariant == Spec => []IInv
<1>1. IInv /\ [Next]_vars => IInv'
  <2> SUFFICES ASSUME IInv, [Next]_vars PROVE IInv'
    OBVIOUS
  <2>1. CASE UNCHANGED vars
    <3>1. TypeOK'
      BY TypeStep DEF IInv
    <3>2. UNCHANGED <<JmpAfterPatch, Hooked, EntryBytes>> /\ \A S : UNCHANGED Sane(S)
      BY <2>1 DEF vars, tracee, memory, locals, JmpAfterPatch, Hooked, PatchWritten, EntryBytes,
                  Sane, Untouched
    <3> QED
      BY <2>1, <3>1, <3>2 DEF vars, tracee, memory, locals, IInv, Alive, RunInv, CodeInv,
                              SavedInv, PageInv
  <2> QED
    BY <2>1, QuietSteps, GetReturnStep, PokeSyscallStep, RestoreStep, WritePatchStep,
       PokeJmpStep, TargetStepKeeps DEF Next, Inject
<1> QED
  BY Init_IInv, <1>1, PTL DEF Spec

(* A target that inject_patch has returned from is swapped or left as it   *)
(* was but for the part of one word that a failing POKE has written, with  *)
(* its own registers, for every layout, address, patch and failure.        *)
THEOREM ReturnsAllOrNothing == Spec => []AllOrNothing
<1>1. IInv => AllOrNothing
  BY DEF IInv, CodeInv, SavedInv, AllOrNothing, Returned, Sane
<1> QED
  BY InductiveInvariant, <1>1, PTL

(* The JMP is never there before the patch it leads to.                    *)
THEOREM PatchBeforeJmp == Spec => []JmpAfterPatch
<1>1. IInv => JmpAfterPatch
  BY DEF IInv
<1> QED
  BY InductiveInvariant, <1>1, PTL

(* A JMP is written only after the first word of the patch was, if it has  *)
(* one, and that word only to a page.                                      *)
LinkInv == pc \in Linked /\ ctx.patch_size > 0 => remote_addr \in mapped

LEMMA LinkStep == IInv /\ LinkInv /\ [Next]_vars => LinkInv'
<1> SUFFICES ASSUME IInv, LinkInv, [Next]_vars, pc' \in Linked, (ctx.patch_size > 0)'
             PROVE  (remote_addr \in mapped)'
  BY DEF LinkInv
<1>1. CASE PokeJmp
  <2>1. /\ run = "ptrace-stop" /\ UNCHANGED <<ctx, remote_addr, mapped>>
        /\ pc = "write_patch" /\ i >= ctx.patch_size
    BY <1>1 DEF PokeJmp, Goto, Poke, CanPeek, Held, locals, Written
  <2>2. ctx.patch_size \in Nat /\ i \in Nat
    BY FaultAddrType DEF IInv, TypeOK
  <2> QED
    BY <2>1, <2>2 DEF IInv, PageInv, Alive
<1>2. CASE RestoreRegs \/ DetachTarget
  BY <1>2 DEF RestoreRegs, DetachTarget, Goto, locals, SetRegs, Detach, RequestFails,
              tracee, memory, LinkInv
<1>3. CASE TargetStep
  <2>1. UNCHANGED <<ctx, pc, remote_addr>> /\ mapped \subseteq mapped'
    BY <1>3 DEF TargetStep, locals, memory, TraceeStep, SignalArrives, SignalStop,
                SignalHandled, SyscallReturns, Killed
  <2> QED
    BY <2>1 DEF LinkInv
<1>4. CASE UNCHANGED vars
  BY <1>4 DEF vars, tracee, memory, locals, LinkInv
<1>5. CASE InjectorKilled \/ (Inject /\ ~PokeJmp /\ ~RestoreRegs /\ ~DetachTarget)
  BY <1>5 DEF InjectorKilled, Inject, AttachTarget, WaitStop, GetRegs, PokeSyscall,
              SetCallRegs, StepTarget, WaitStep, GetReturn, RestoreText, WritePatch,
              UndoText, UndoRegs, GiveUp, Goto
<1> QED
  BY <1>1, <1>2, <1>3, <1>4, <1>5 DEF Next, Inject

(* For a patch that is not empty, an injection that reports success has    *)
(* redirected the function to a page, also when the step was stopped by a  *)
(* signal and the register held no address.                                *)
THEOREM SuccessHasPage ==
  ASSUME 0 \notin PatchSizes
  PROVE  Spec => []SuccessUsesPage
<1>1. Init => LinkInv
  BY DEF Init, LinkInv
<1>2. IInv /\ LinkInv => SuccessUsesPage
  <2> SUFFICES ASSUME IInv, LinkInv PROVE SuccessUsesPage
    OBVIOUS
  <2>1. ctx.patch_size \in Nat /\ ctx.patch_size # 0
    BY FaultAddrType DEF IInv, TypeOK
  <2> QED
    BY <2>1 DEF LinkInv, SuccessUsesPage
<1> QED
  BY InductiveInvariant, LinkStep, <1>1, <1>2, PTL DEF Spec

(* The four bytes of the operand express every distance in reach exactly.  *)
LEMMA DisplacementExact ==
  ASSUME NEW from \in Int, NEW to \in Int, Reachable(from, to)
  PROVE  LandsAt(from, Displacement(from, to)) = to
<1> DEFINE x == to - from - JmpLen
<1>1. x \in Int /\ RelMod \in Nat /\ RelMod > 0 /\ Half \in Int /\ RelMod = 2 * Half
  BY RelAssumption DEF JmpLen, Half
<1>2. -Half <= x /\ x < Half
  BY <1>1 DEF Reachable
<1>3. CASE x >= 0
  <2>1. x % RelMod = x
    BY <1>1, <1>2, <1>3
  <2> QED
    BY <1>1, <1>2, <2>1 DEF LandsAt, SignExtend, Displacement, JmpLen
<1>4. CASE x < 0
  <2>1. x % RelMod = x + RelMod
    BY <1>1, <1>2, <1>4
  <2> QED
    BY <1>1, <1>2, <1>4, <2>1 DEF LandsAt, SignExtend, Displacement, JmpLen
<1> QED
  BY <1>1, <1>3, <1>4

(* After a success the JMP leads to the patch, for every displacement      *)
(* width, as long as the page is near enough.                              *)
THEOREM NearJumpLands == Spec => []JumpLandsIfNear
<1>1. IInv => JumpLandsIfNear
  <2> SUFFICES ASSUME IInv, pc = "success", Alive, Reachable(ctx.fault_addr, remote_addr)
               PROVE  JumpLands
    BY DEF JumpLandsIfNear
  <2>1. ctx.fault_addr \in Int /\ remote_addr \in Int
    BY FaultAddrType DEF IInv, TypeOK
  <2>2. mem[ctx.fault_addr + 0] = Jmp(0, Displacement(ctx.fault_addr, remote_addr))
    BY DEF IInv, CodeInv, Hooked, JmpLen
  <2>3. mem[ctx.fault_addr][3] = Displacement(ctx.fault_addr, remote_addr)
    BY <2>1, <2>2 DEF Jmp
  <2> QED
    BY <2>1, <2>3, DisplacementExact DEF JumpLands
<1> QED
  BY InductiveInvariant, <1>1, PTL

-----------------------------------------------------------------------------
(* The SIGSTOP of PTRACE_ATTACH is the only one. It stays queued while the *)
(* job is stopped, so that the step is then stopped by it; the system call *)
(* returns only when nothing is queued.                                    *)
ResumeInv ==
  /\ pc \in Labels \ {"attach", "success", "failure", "killed"} => traced
  /\ pc = "attach" => SIGSTOP \notin pending /\ ~traced /\ (groupStop /\ Alive => run = "job-stop")
  /\ pc \in {"wait_stop", "get_regs", "poke_syscall", "set_regs", "single_step"} =>
       (groupStop /\ Alive => run = "ptrace-stop" /\ SIGSTOP \in pending)
  /\ pc = "wait_step" => (groupStop /\ run = "stepping" => SIGSTOP \in pending)
  /\ pc # "killed" /\ mapped # {} /\ Alive => ~groupStop /\ SIGSTOP \notin pending

LEMMA ResumeStep == IInv /\ ResumeInv /\ [Next]_vars => ResumeInv'
<1> SUFFICES ASSUME IInv, ResumeInv, [Next]_vars PROVE ResumeInv'
  OBVIOUS
<1> USE DEF ResumeInv, Goto, locals, tracee, memory, Alive, Held
<1>1. CASE AttachTarget
  <2>1. Alive => mapped = {}
    BY <1>1 DEF AttachTarget, IInv, RunInv
  <2> QED
    BY <1>1, <2>1 DEF AttachTarget, Attach, AttachFails
<1>2. CASE WaitStop \/ GetRegs \/ WaitStep \/ GetReturn
  BY <1>2 DEF WaitStop, GetRegs, WaitStep, GetReturn
<1>3. CASE PokeSyscall \/ RestoreText \/ WritePatch \/ PokeJmp \/ UndoText
  BY <1>3 DEF PokeSyscall, RestoreText, WritePatch, PokeJmp, UndoText, Poke, PokeFails,
              Refused, Torn
<1>4. CASE SetCallRegs \/ StepTarget \/ RestoreRegs \/ UndoRegs
  BY <1>4 DEF SetCallRegs, StepTarget, RestoreRegs, UndoRegs, SetRegs, SingleStep,
              RequestFails
<1>5. CASE DetachTarget \/ GiveUp \/ InjectorKilled
  BY <1>5 DEF DetachTarget, GiveUp, InjectorKilled, Detach, RequestFails, TracerExits
<1>6. CASE TargetStep
  <2>1. UNCHANGED pc /\ SIGSTOP \notin Signals
    BY <1>6, SignalAssumption DEF TargetStep
  <2>2. CASE SyscallReturns(ctx.patch_size)
    <3>1. pc \in {"wait_step", "killed"}
      BY <2>2 DEF SyscallReturns, IInv, RunInv, TypeOK
    <3> QED
      BY <2>1, <2>2, <3>1 DEF SyscallReturns
  <2>3. CASE SignalStop
    BY <2>1, <2>3 DEF SignalStop, IInv, RunInv
  <2>4. CASE SignalHandled
    BY <2>1, <2>4 DEF SignalHandled, IInv, RunInv, TypeOK
  <2>5. CASE Killed \/ \E s \in Signals : SignalArrives(s)
    BY <2>1, <2>5 DEF Killed, SignalArrives
  <2> QED
    BY <1>6, <2>2, <2>3, <2>4, <2>5 DEF TargetStep, TraceeStep
<1>7. CASE UNCHANGED vars
  BY <1>7 DEF vars
<1> QED
  BY <1>1, <1>2, <1>3, <1>4, <1>5, <1>6, <1>7 DEF Next, Inject

(* The invariants that the proofs rest on, together.                       *)
Inductive == IInv /\ LinkInv /\ ResumeInv

(* For a patch that is not empty, a target is reported as hot-swapped only *)
(* if neither its own job stop nor a queued SIGSTOP keeps it from running. *)
THEOREM SuccessRuns ==
  ASSUME 0 \notin PatchSizes
  PROVE  Spec => []SuccessResumes
<1>1. Init => LinkInv /\ ResumeInv
  BY DEF Init, TraceeInit, LinkInv, ResumeInv, Alive
<1>2. IInv /\ LinkInv /\ ResumeInv => SuccessResumes
  <2> SUFFICES ASSUME IInv, LinkInv, ResumeInv PROVE SuccessResumes
    OBVIOUS
  <2>1. ctx.patch_size \in Nat /\ ctx.patch_size # 0
    BY FaultAddrType DEF IInv, TypeOK
  <2> QED
    BY <2>1 DEF LinkInv, ResumeInv, SuccessResumes
<1> QED
  BY InductiveInvariant, LinkStep, ResumeStep, <1>1, <1>2, PTL DEF Spec

-----------------------------------------------------------------------------
(***************************************************************************)
(* inject_patch implements HotSwap. The five variables of HotSwap, as the  *)
(* mapping of PatchInjector computes them:                                 *)
(***************************************************************************)

Phase ==
  IF ~InjectorLives THEN "gone"
  ELSE IF traced THEN "held" ELSE IF Returned THEN "over" ELSE "free"

Scratch    == InjectorLives /\ Borrowed
Redirected == InjectorLives /\ Hooked /\ PatchWritten
Broken     == InjectorLives /\ torn # {}
Outcome    == IF InjectorLives /\ Returned THEN pc ELSE "none"

mapping == <<Phase, Scratch, Redirected, Broken, Outcome>>

LEMMA MappedSteps ==
  /\ (/\ Phase = "free" /\ Scratch = FALSE /\ Redirected = FALSE /\ Broken = FALSE
      /\ Outcome = "none") => Swap!Init
  /\ (/\ Phase' = "gone" /\ Scratch' = FALSE /\ Redirected' = FALSE /\ Broken' = FALSE
      /\ Outcome' = "none") => Swap!Die
  /\ (Phase = "free" /\ Phase' = "held" /\ UNCHANGED <<Scratch, Redirected, Broken, Outcome>>)
       => Swap!Hold
  /\ (/\ Phase = "held" /\ (UNCHANGED Redirected \/ (Broken /\ ~Redirected'))
      /\ UNCHANGED <<Phase, Broken, Outcome>>) => Swap!Use
  /\ (/\ Phase = "held" /\ ~Broken /\ Redirected' = TRUE
      /\ UNCHANGED <<Phase, Scratch, Broken, Outcome>>) => Swap!Redirect
  /\ (Phase = "held" /\ Broken' = TRUE /\ UNCHANGED <<Phase, Outcome>>) => Swap!Tear
  /\ (/\ Phase = "held" /\ ~Scratch /\ Phase' = "over"
      /\ Outcome' = IF Redirected /\ ~Broken THEN "success" ELSE "failure"
      /\ UNCHANGED <<Scratch, Redirected, Broken>>) => Swap!Release
  /\ (/\ Phase = "free" /\ Phase' = "over" /\ Outcome' = "failure"
      /\ UNCHANGED <<Scratch, Redirected, Broken>>) => Swap!Refuse
  /\ UNCHANGED mapping => UNCHANGED Swap!hotSwap
BY Zenon DEF mapping, Phase, Scratch, Redirected, Broken, Outcome, Swap!Init, Swap!Die,
             Swap!Hold, Swap!Use, Swap!Redirect, Swap!Tear, Swap!Release, Swap!Refuse,
             Swap!hotSwap

Middle == Labels \ {"attach", "success", "failure", "killed"}
Clean  == Before \cup {"poke_syscall", "give_up", "failure", "detach", "success"}

(* What is borrowed and redirected at each label while both live.          *)
Stage ==
  /\ pc \in Whole => torn = {}
  /\ pc \notin Linked /\ torn = {} => Hooked = FALSE
  /\ pc \in Linked    => Hooked = TRUE /\ PatchWritten = TRUE
  /\ pc \in Clean     => Borrowed = FALSE
  /\ pc \in Middle    => traced = TRUE
  /\ pc = "attach"    => traced = FALSE
  /\ pc \in {"write_patch", "restore_regs"} => Borrowed = (regs # ownRegs)

LEMMA AtStage == IInv /\ ResumeInv /\ InjectorLives => Stage
<1> SUFFICES ASSUME IInv, ResumeInv, InjectorLives PROVE Stage
  OBVIOUS
<1>1. Alive /\ pc # "killed" /\ pc \in Labels /\ traced \in BOOLEAN
  BY DEF InjectorLives, IInv, TypeOK, TraceeTypeOK
<1>2. ASSUME pc \notin Linked, torn = {} PROVE ~Hooked
  <2>1. \A a \in Text : mem[a][1] # "jmp"
    BY <1>1, <1>2, NoJmpYet
  <2>2. Hooked => mem[ctx.fault_addr + 0][1] = "jmp" /\ ctx.fault_addr + 0 \in Text
    BY DEF Hooked, JmpLen, Jmp
  <2> QED
    BY <2>1, <2>2
<1>3. ASSUME pc \in Linked PROVE Hooked /\ PatchWritten /\ Sane(EntryBytes)
  <2>1. Hooked /\ Sane(EntryBytes) /\ JmpAfterPatch
    BY <1>1, <1>3 DEF IInv, CodeInv
  <2>2. ctx.fault_addr + 0 \in Text /\ mem[ctx.fault_addr + 0][1] = "jmp"
    BY <2>1 DEF Hooked, JmpLen, Jmp
  <2> QED
    BY <2>1, <2>2 DEF JmpAfterPatch
<1>4. (pc \in Bare => Sane(torn)) /\ (pc \in Whole => torn = {})
  BY <1>1 DEF IInv, CodeInv
<1>5. pc \in Bare \cup Linked => Borrowed = (regs # ownRegs)
  BY <1>3, <1>4 DEF Borrowed, Sane, Untouched
<1>6. pc \in Clean => Borrowed = FALSE
  BY <1>1, <1>5 DEF Clean, IInv, SavedInv
<1>7. (pc \in Middle => traced = TRUE) /\ (pc = "attach" => traced = FALSE)
  BY <1>1 DEF ResumeInv, Middle
<1>8. (pc \notin Linked /\ torn = {} => Hooked = FALSE) /\ (pc \in Linked => Hooked = TRUE /\ PatchWritten = TRUE)
  BY <1>2, <1>3 DEF Hooked, PatchWritten
<1> QED
  BY <1>4, <1>5, <1>6, <1>7, <1>8 DEF Stage

(* A process that is dead or killed stays so.                              *)
LEMMA LivesBefore == IInv /\ [Next]_vars /\ InjectorLives' => InjectorLives
<1> SUFFICES ASSUME IInv, [Next]_vars, Alive', pc' # "killed" PROVE Alive /\ pc # "killed"
  BY DEF InjectorLives
<1> USE DEF Alive, tracee, memory, locals, Goto
<1>1. CASE Inject \/ InjectorKilled
  <2>1. pc # "killed"
    BY <1>1 DEF InjectorKilled, Inject, AttachTarget, WaitStop, GetRegs, PokeSyscall,
         SetCallRegs, StepTarget, WaitStep, GetReturn, RestoreText, WritePatch, PokeJmp,
         RestoreRegs, DetachTarget, UndoText, UndoRegs, GiveUp
  <2>2. CASE AttachTarget \/ WaitStop \/ GetRegs \/ WaitStep \/ GetReturn
    BY <2>1, <2>2 DEF AttachTarget, Attach, AttachFails, WaitStop, GetRegs, WaitStep, GetReturn
  <2>3. CASE PokeSyscall \/ RestoreText \/ WritePatch \/ PokeJmp \/ UndoText
    BY <2>1, <2>3 DEF PokeSyscall, RestoreText, WritePatch, PokeJmp, UndoText, Poke, PokeFails,
                      Refused, Torn
  <2>4. CASE SetCallRegs \/ StepTarget \/ RestoreRegs \/ UndoRegs
    BY <2>1, <2>4 DEF SetCallRegs, StepTarget, RestoreRegs, UndoRegs, SetRegs, SingleStep,
                      RequestFails, Held
  <2>5. CASE DetachTarget \/ GiveUp \/ InjectorKilled
    BY <2>1, <2>5 DEF DetachTarget, GiveUp, InjectorKilled, Detach, RequestFails,
                      TracerExits, Held
  <2> QED
    BY <1>1, <2>2, <2>3, <2>4, <2>5 DEF Inject
<1>2. CASE TargetStep
  BY <1>2 DEF TargetStep, TraceeStep, SignalArrives, SignalStop, SignalHandled,
              SyscallReturns, Killed
<1>3. CASE UNCHANGED vars
  BY <1>3 DEF vars
<1> QED
  BY <1>1, <1>2, <1>3 DEF Next

(* A step between two labels at which the target is held borrows or gives  *)
(* back, redirects, or tears. Giving back can only take apart a JMP that   *)
(* was torn.                                                               *)
LEMMA MiddleStep ==
  ASSUME IInv, Stage, Stage', InjectorLives, InjectorLives', Inject,
         pc \in Middle, pc' \in Middle
  PROVE  Swap!Next
<1>1. Phase = "held" /\ UNCHANGED <<Phase, Outcome>>
  BY DEF Stage, Phase, Outcome, Middle, Returned
<1>2. CASE PokeJmp /\ pc' = "restore_regs"
  <2>1. pc = "write_patch" /\ UNCHANGED <<regs, ownRegs, torn>>
    BY <1>2 DEF PokeJmp, Goto, Poke
  <2>2. Redirected' = TRUE /\ UNCHANGED <<Scratch, Broken>> /\ ~Broken
    BY <1>2, <2>1 DEF Stage, Redirected, Scratch, Broken
  <2> QED
    BY <1>1, <2>2, MappedSteps DEF Swap!Next
<1>3. CASE torn' # {} /\ torn' # torn
  <2>1. Broken' = TRUE
    BY <1>3 DEF Broken
  <2> QED
    BY <1>1, <2>1, MappedSteps DEF Swap!Next
<1>4. CASE UNCHANGED torn /\ torn = {} /\ ~(PokeJmp /\ pc' = "restore_regs")
  <2>1. (pc \in Linked) = (pc' \in Linked)
    BY <1>4 DEF Inject, AttachTarget, WaitStop, GetRegs, PokeSyscall, SetCallRegs,
         StepTarget, WaitStep, GetReturn, RestoreText, WritePatch, PokeJmp, RestoreRegs,
         DetachTarget, UndoText, UndoRegs, GiveUp, Goto, Middle
  <2>2. UNCHANGED Redirected /\ UNCHANGED Broken /\ ~Broken
    BY <1>4, <2>1 DEF Stage, Redirected, Broken
  <2> QED
    BY <1>1, <2>2, MappedSteps DEF Swap!Next
<1>5. CASE UNCHANGED torn /\ torn # {}
  <2>1. pc \in Middle \ Whole
    BY <1>5 DEF Stage, Middle
  <2>2. UndoText \/ UndoRegs
    BY <2>1 DEF Inject, AttachTarget, WaitStop, GetRegs, PokeSyscall, SetCallRegs,
         StepTarget, WaitStep, GetReturn, RestoreText, WritePatch, PokeJmp, RestoreRegs,
         DetachTarget, GiveUp, Goto, Middle
  <2>3. \A x \in Memory : mem'[x] = mem[x] \/ (x \in Text /\ mem'[x] = Own(x))
    <3>1. CASE UndoText
      <4>1. pc \in Borrowing /\ Alive /\ run = "ptrace-stop"
        BY <3>1 DEF UndoText, InjectorLives, IInv, RunInv
      <4> QED
        BY <3>1, <4>1, TextRestored DEF UndoText
    <3>2. CASE UndoRegs
      BY <3>2 DEF UndoRegs, SetRegs, RequestFails, tracee, memory
    <3> QED
      BY <2>2, <3>1, <3>2
  <2>4. UNCHANGED <<ctx, remote_addr>>
    BY <2>2 DEF UndoText, UndoRegs, Goto, locals
  <2>5. Hooked' => Hooked
    BY <2>3, <2>4 DEF Hooked, Own, Jmp, Memory
  <2>6. PatchWritten' => PatchWritten
    BY <2>3, <2>4 DEF PatchWritten, Own, Patch
  <2>7. Redirected' => Redirected
    BY <2>5, <2>6 DEF Redirected
  <2>8. Broken /\ UNCHANGED Broken
    BY <1>5 DEF Broken
  <2>9. UNCHANGED Redirected \/ (Broken /\ ~Redirected')
    BY <2>7, <2>8 DEF Redirected
  <2> QED
    BY <1>1, <2>8, <2>9, MappedSteps DEF Swap!Next
<1>6. torn \subseteq torn'
  BY DEF Inject, AttachTarget, WaitStop, GetRegs, PokeSyscall, SetCallRegs,
         StepTarget, WaitStep, GetReturn, RestoreText, WritePatch, PokeJmp, RestoreRegs,
         DetachTarget, UndoText, UndoRegs, GiveUp, Attach, AttachFails, SetRegs, SingleStep,
         RequestFails, Detach, Poke, PokeFails, Refused, Torn, tracee, memory
<1> QED
  BY <1>2, <1>3, <1>4, <1>5, <1>6

LEMMA EndStep ==
  ASSUME IInv, Stage, Stage', InjectorLives, InjectorLives',
         AttachTarget \/ DetachTarget \/ GiveUp
  PROVE  Swap!Next
<1> USE DEF Goto, tracee, memory, locals
<1>1. CASE AttachTarget
  <2>1. pc = "attach" /\ pc \in Clean /\ torn = {} /\ UNCHANGED <<mem, torn, regs, ownRegs, ctx, remote_addr>>
    BY <1>1 DEF AttachTarget, Attach, AttachFails, Clean, Stage
  <2>2. /\ Phase = "free" /\ Outcome = "none" /\ Scratch = FALSE /\ Redirected = FALSE
        /\ pc' \in Clean \ Linked
    BY <1>1, <2>1 DEF AttachTarget, Stage, Phase, Outcome, Scratch, Redirected, Returned, Clean
  <2>3. /\ Scratch' = FALSE /\ Redirected' = FALSE
        /\ Broken = FALSE /\ Broken' = FALSE
    BY <2>1, <2>2 DEF Stage, Scratch, Redirected, Broken
  <2>4. CASE pc' = "wait_stop"
    <3>1. Phase' = "held" /\ Outcome' = "none"
      BY <2>4 DEF Stage, Phase, Outcome, Middle, Returned
    <3> QED
      BY <2>2, <2>3, <3>1, MappedSteps DEF Swap!Next
  <2>5. CASE pc' = "failure"
    <3>1. UNCHANGED traced
      BY <1>1, <2>5 DEF AttachTarget, AttachFails
    <3>2. Phase' = "over" /\ Outcome' = "failure"
      BY <2>1, <2>5, <3>1 DEF Stage, Phase, Outcome, Returned
    <3> QED
      BY <2>2, <2>3, <3>2, MappedSteps DEF Swap!Next
  <2> QED
    BY <1>1, <2>4, <2>5 DEF AttachTarget
<1>2. CASE DetachTarget \/ GiveUp
  <2>1. Detach
    BY <1>2 DEF DetachTarget, GiveUp, RequestFails, Held, IInv, RunInv, InjectorLives
  <2>2. /\ pc \in Middle /\ pc \in Clean /\ pc' \in Clean
        /\ pc \in Linked => pc' = "success"
        /\ pc \notin Linked => pc' = "failure"
    BY <1>2 DEF DetachTarget, GiveUp, Clean, Middle
  <2>3. Phase = "held" /\ Scratch = FALSE /\ Scratch' = FALSE
    BY <2>2 DEF Stage, Phase, Scratch
  <2>4. Phase' = "over" /\ Outcome' = pc'
    BY <2>1, <2>2 DEF Detach, Phase, Outcome, Returned
  <2>5. UNCHANGED <<mem, torn, ctx, remote_addr>>
    BY <1>2, <2>1 DEF Detach, DetachTarget, GiveUp
  <2>6. UNCHANGED Redirected /\ UNCHANGED Broken
    BY <2>5 DEF Redirected, Broken, Hooked, PatchWritten
  <2>7. (Redirected /\ ~Broken) = (pc \in Linked)
    BY <2>2 DEF Stage, Redirected, Broken
  <2>8. Outcome' = IF Redirected /\ ~Broken THEN "success" ELSE "failure"
    BY <2>2, <2>4, <2>7
  <2> QED
    BY <2>3, <2>4, <2>6, <2>8, MappedSteps DEF Swap!Next
<1> QED
  BY <1>1, <1>2

LEMMA TargetMaps ==
  ASSUME IInv, Stage, Stage', InjectorLives, InjectorLives', TargetStep
  PROVE  [Swap!Next]_(Swap!hotSwap)
<1>1. UNCHANGED <<ctx, pc, locals, mem, torn, ownRegs, traced>> /\ ~Killed
  BY DEF memory, TargetStep, TraceeStep, SignalArrives, SignalStop, SignalHandled,
         SyscallReturns, Killed, InjectorLives, Alive
<1>2. UNCHANGED <<Phase, Outcome, Redirected, Broken>>
  BY <1>1 DEF Phase, Outcome, Redirected, Broken, Returned, Hooked, PatchWritten, locals
<1>3. CASE UNCHANGED regs
  <2>1. UNCHANGED Scratch
    BY <1>1, <1>3 DEF Scratch, Borrowed, EntryBytes, Hooked, locals
  <2> QED
    BY <1>2, <2>1, MappedSteps DEF mapping
<1>4. CASE regs' # regs
  <2>1. SyscallReturns(ctx.patch_size)
    BY <1>1, <1>4 DEF TargetStep, memory, TraceeStep, SignalArrives, SignalStop, SignalHandled, Killed
  <2>2. run = "stepping"
    BY <2>1 DEF SyscallReturns
  <2>3. pc = "wait_step"
    BY <2>2 DEF IInv, RunInv, TypeOK, InjectorLives
  <2>4. Phase = "held"
    BY <2>3 DEF Stage, Phase, Middle
  <2> QED
    BY <1>2, <2>4, MappedSteps DEF Swap!Next
<1> QED
  BY <1>3, <1>4

(* However requests fail, signals arrive and processes die: inject_patch   *)
(* redirects in one step, lets go of a target only when nothing of it is   *)
(* borrowed any more, and reports what it has done.                        *)
THEOREM SwapsHot == Spec => ImplementsHotSwap
<1>1. Init => LinkInv /\ ResumeInv
  BY DEF Init, TraceeInit, LinkInv, ResumeInv, Alive
<1>2. Spec => [](IInv /\ ResumeInv)
  BY InductiveInvariant, ResumeStep, <1>1, PTL DEF Spec
<1>3. Init /\ IInv /\ ResumeInv => Swap!Init
  <2> SUFFICES ASSUME Init, IInv, ResumeInv PROVE Swap!Init
    OBVIOUS
  <2>1. InjectorLives /\ pc = "attach"
    BY DEF Init, TraceeInit, InjectorLives, Alive
  <2>2. Stage
    BY <2>1, AtStage
  <2> QED
    BY <2>1, <2>2, MappedSteps DEF Stage, Phase, Scratch, Redirected, Broken,
       Outcome, Returned, Clean
<1>4. (IInv /\ ResumeInv /\ InjectorLives => Stage)'
  BY AtStage, PTL
<1>5. IInv /\ ResumeInv /\ (IInv /\ ResumeInv)' /\ [Next]_vars => [Swap!Next]_(Swap!hotSwap)
  <2> SUFFICES ASSUME IInv, ResumeInv, IInv', ResumeInv', [Next]_vars
               PROVE  [Swap!Next]_(Swap!hotSwap)
    OBVIOUS
  <2>1. CASE ~InjectorLives'
    BY <2>1, MappedSteps DEF Phase, Scratch, Redirected, Broken, Outcome, Swap!Next
  <2>2. CASE InjectorLives'
    <3>1. InjectorLives /\ Stage /\ Stage'
      BY <1>4, <2>2, LivesBefore, AtStage
    <3>2. CASE UNCHANGED vars
      <4>1. UNCHANGED mapping
        BY <3>2 DEF vars, tracee, memory, locals, mapping, Phase, Scratch, Redirected, Broken,
             Outcome, InjectorLives, Alive, Returned, Borrowed, EntryBytes, Hooked, PatchWritten
      <4> QED
        BY <4>1, MappedSteps
    <3>3. CASE Inject
      <4>1. AttachTarget \/ DetachTarget \/ GiveUp \/ (pc \in Middle /\ pc' \in Middle)
        BY <3>3 DEF Inject, WaitStop, GetRegs, PokeSyscall, SetCallRegs, StepTarget,
             WaitStep, GetReturn, RestoreText, WritePatch, PokeJmp, RestoreRegs, UndoText,
             UndoRegs, Goto, Middle
      <4> QED
        BY <2>2, <3>1, <3>3, <4>1, MiddleStep, EndStep
    <3>4. CASE TargetStep
      BY <2>2, <3>1, <3>4, TargetMaps
    <3>5. ~InjectorKilled
      BY <2>2 DEF InjectorLives, InjectorKilled, Goto
    <3> QED
      BY <3>2, <3>3, <3>4, <3>5 DEF Next
  <2> QED
    BY <2>1, <2>2
<1> QED
  BY <1>2, <1>3, <1>5, PTL DEF Spec, ImplementsHotSwap, Swap!Spec
=============================================================================
