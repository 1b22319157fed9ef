---------------------------- MODULE DaemonProofs ----------------------------
(***************************************************************************)
(* The Rust daemon, for every memory layout: first what holds of any       *)
(* number of calls of hot_swap_patch on one target, as theorems about the  *)
(* specification of Injector, then what holds of the loop around them, for *)
(* any number of faults. The steps of the loop are steps of Injector or    *)
(* leave its variables alone, so that what was proved of any number of     *)
(* calls holds of the calls the loop makes.                                *)
(*                                                                         *)
(* A call that has returned an error is still attached and may have left a *)
(* word of the code other than it should be, which is why the invariants   *)
(* speak of a target that is not traced, of the steps of a call, and of a  *)
(* word that is off while the daemon waits.                                *)
(***************************************************************************)
EXTENDS Daemon, SequenceTheorems, TLAPS

USE DEF memory

Words == [0 .. WordSize - 1 -> Byte]

LEMMA BytesType ==
  ASSUME NEW a \in Int, NEW d \in Int
  PROVE  /\ Own(a) \in Byte /\ Zero \in Byte /\ Syscall(a) \in Byte
         /\ Patch(a) \in Byte /\ Jmp(a, d) \in Byte
BY DEF Own, Zero, Syscall, Patch, Jmp, Byte, Kinds

LEMMA OperandType ==
  ASSUME NEW from \in Int, NEW to \in Int
  PROVE  Displacement(from, to) \in Int
BY RelAssumption DEF Displacement, JmpLen

(* What a successful POKE does to the target, and what one that fails does *)
(* not do.                                                                 *)
LEMMA PokeEffect ==
  ASSUME TraceeTypeOK, NEW a \in Int, NEW w, Poke(a, w)
  PROVE  /\ run = "ptrace-stop" /\ WordAt(a) \subseteq Mapped
         /\ \A x \in Memory \ WordAt(a) : mem'[x] = mem[x]
         /\ \A k \in 0 .. WordSize - 1 : a + k \in Memory /\ mem'[a + k] = w[k]
         /\ private' = private \cup {a}
         /\ UNCHANGED <<mapped, regs, ownRegs, run, traced, groupStop, stopsig, pending>>
<1>1. Mapped \subseteq Memory
  BY DEF TraceeTypeOK, Mapped, Memory
<1>2. ASSUME NEW k \in 0 .. WordSize - 1
      PROVE  a + k \in Memory /\ mem'[a + k] = w[k]
  <2>1. a + k \in WordAt(a) /\ (a + k) - a = k
    BY DEF WordAt, WordSize
  <2>2. a + k \in Memory
    BY <1>1, <2>1 DEF Poke, CanPeek
  <2> QED
    BY <2>1, <2>2 DEF Poke, Write
<1> QED
  BY <1>2 DEF Poke, Write, CanPeek, Held

LEMMA FailureEffect ==
  ASSUME NEW a \in Int, NEW w, PeekFails(a) \/ PokeFails(a, w)
  PROVE  /\ \A x \in Memory \ WordAt(a) : mem'[x] = mem[x]
         /\ UNCHANGED <<mapped, regs, ownRegs, run, traced, groupStop, stopsig, pending>>
BY DEF PeekFails, PokeFails, Refused, Torn, Split, FirstPage, Write, tracee

(* A word is the sum of its bytes.                                         *)
LEMMA OfWord ==
  ASSUME NEW a \in Int, NEW x \in WordAt(a)
  PROVE  x - a \in 0 .. WordSize - 1 /\ x = a + (x - a)
BY DEF WordAt, WordSize

LEMMA WordType ==
  ASSUME TraceeTypeOK, NEW a \in Int, CanPeek(a)
  PROVE  Word(a) \in Words
<1>1. Mapped \subseteq Memory
  BY DEF TraceeTypeOK, Mapped, Memory
<1>2. \A k \in 0 .. WordSize - 1 : a + k \in Memory
  BY <1>1 DEF CanPeek, WordAt, WordSize
<1> QED
  BY <1>2 DEF Word, Words, TraceeTypeOK

LEMMA WriteType ==
  ASSUME TraceeTypeOK, NEW a \in Int, NEW w \in Words, NEW bytes \in SUBSET WordAt(a),
         Write(bytes, a, w)
  PROVE  mem' \in [Memory -> Byte]
<1>1. ASSUME NEW x \in Memory PROVE mem'[x] \in Byte
  <2>1. CASE x \in bytes
    BY <2>1, OfWord DEF Write, Words
  <2>2. CASE x \notin bytes
    BY <2>2 DEF Write, TraceeTypeOK
  <2> QED
    BY <2>1, <2>2
<1> QED
  BY <1>1 DEF Write

LEMMA PokeType ==
  ASSUME TraceeTypeOK, NEW a \in Int, NEW w \in Words, Poke(a, w) \/ PokeFails(a, w)
  PROVE  TraceeTypeOK'
<1>1. CASE Poke(a, w)
  <2>1. mem' \in [Memory -> Byte]
    BY <1>1, WriteType DEF Poke
  <2> QED
    BY <1>1, <2>1 DEF Poke, TraceeTypeOK
<1>2. CASE Refused(a)
  BY <1>2 DEF Refused, tracee, TraceeTypeOK
<1>3. CASE Torn(a, w)
  <2>1. Split(a) \subseteq WordAt(a) /\ WordAt(a) \subseteq Int
    BY DEF Split, FirstPage, WordAt
  <2>2. mem' \in [Memory -> Byte]
    BY <1>3, <2>1, WriteType DEF Torn
  <2>3. torn' \subseteq Int
    BY <1>3, <2>1 DEF Torn, TraceeTypeOK
  <2> QED
    BY <1>3, <2>2, <2>3 DEF Torn, TraceeTypeOK
<1> QED
  BY <1>1, <1>2, <1>3 DEF PokeFails

LEMMA RequestTypes ==
  ASSUME TraceeTypeOK,
         Attach \/ AttachFails \/ SingleStep \/ RequestFails \/ Detach \/ TracerExits
         \/ UNCHANGED tracee
  PROVE  TraceeTypeOK'
BY DEF TraceeTypeOK, tracee, Attach, AttachFails, SingleStep, RequestFails,
       Detach, TracerExits, Runs

LEMMA TargetTypes ==
  ASSUME TraceeTypeOK, TraceeStep(PatchSize) \/ Executes
  PROVE  TraceeTypeOK'
<1>1. ASSUME NEW s \in Signals, SignalArrives(s) PROVE TraceeTypeOK'
  BY <1>1 DEF TraceeTypeOK, SignalArrives
<1>2. CASE SignalStop
  BY <1>2 DEF TraceeTypeOK, SignalStop, Runs
<1>3. CASE SignalHandled
  BY <1>3 DEF TraceeTypeOK, SignalHandled, Runs
<1>4. CASE SyscallReturns(PatchSize)
  <2>1. mapped' \subseteq Pages
    BY <1>4 DEF TraceeTypeOK, SyscallReturns
  <2>2. regs.ip + SyscallLen \in Int /\ Pages \subseteq Int /\ MmapError \in Int
    BY PageAssumption, RegAssumption DEF TraceeTypeOK, Registers, SyscallLen
  <2>3. regs' \in Registers
    BY <1>4, <2>2 DEF SyscallReturns, Registers
  <2>4. /\ run' = "ptrace-stop" /\ stopsig' = SIGTRAP
        /\ UNCHANGED <<mem, private, torn, ownRegs, traced, groupStop, pending>>
    BY <1>4 DEF SyscallReturns
  <2> QED
    BY <2>1, <2>3, <2>4 DEF TraceeTypeOK, Runs
<1>5. CASE Killed
  BY <1>5 DEF TraceeTypeOK, Killed, Runs
<1>6. CASE Executes
  <2>1. PICK a \in Mapped : regs' = [regs EXCEPT !.ip = a]
    BY <1>6 DEF Executes, Code
  <2>2. a \in Int
    BY <2>1, TextAssumption, PageAssumption DEF Mapped, Text, PageAt, TraceeTypeOK
  <2>3. regs' \in Registers /\ ownRegs' \in Registers
    BY <1>6, <2>1, <2>2 DEF Executes, TraceeTypeOK, Registers
  <2> QED
    BY <1>6, <2>3 DEF Executes, TraceeTypeOK
<1> QED
  BY <1>1, <1>2, <1>3, <1>4, <1>5, <1>6 DEF TraceeStep

-----------------------------------------------------------------------------
(* What the target does and which registers it has, at each step of a call.*)

Called    == Steps \ {"attach"}
Early     == {"wait_stop", "getregs", "write_syscall", "setregs"}
Borrowing == {"setregs", "step", "wait_step", "getregs_after", "write_original"}
Live      == Alive /\ pc # "exited"

RunInv ==
  /\ pc \in Called => traced
  /\ pc \in Called \ {"wait_stop", "wait_step"} => run = "ptrace-stop"
  /\ run = "stepping" => pc = "wait_step"

RegsInv ==
  /\ ~traced => regs = ownRegs
  /\ pc \in Early \cup {"detach"} => regs = ownRegs
  /\ pc \in Borrowing \cup {"write_syscall", "write_patch", "restore_regs"}
       => saved_regs = ownRegs

(* The address that the patch is written to is a page once a write has     *)
(* succeeded: the other values the register can hold are not mapped.       *)
PageInv ==
  /\ pc \in {"step", "wait_step", "getregs_after"}
       => regs.ret \in {SysNo, MmapError} \cup mapped
  /\ pc \in {"write_original", "write_patch"}
       => allocated_addr \in {SysNo, MmapError} \cup mapped
  /\ pc \in Steps => i = 0 \/ (pc \in {"write_patch", "restore_regs", "detach"} /\ i = WordSize
                               /\ allocated_addr \in mapped)

FaultKnown == pc \in Steps => fault_addr \in FaultAddrs

CallInv == TypeOK /\ FaultKnown /\ (Live => RunInv /\ RegsInv /\ PageInv)

LEMMA InitCall == Init => CallInv
<1> SUFFICES ASSUME Init PROVE CallInv
  OBVIOUS
<1>1. \A a \in Memory : a \in Int
  BY PageAssumption, TextAssumption DEF Memory, Text, PageAt
<1>2. TraceeTypeOK
  <2>1. mem \in [Memory -> Byte]
    BY <1>1, BytesType DEF Init, TraceeInit
  <2>2. ownRegs \in Registers /\ regs = ownRegs
    BY TextAssumption, RegAssumption DEF Init, TraceeInit, Text, Registers
  <2> QED
    BY <2>1, <2>2 DEF Init, TraceeInit, TraceeTypeOK, Runs
<1>3. original_instr \in Words
  BY BytesType DEF Init, Words
<1>4. TypeOK
  BY <1>2, <1>3, CallAssumption DEF Init, TypeOK, Registers, Words
<1>5. FaultKnown /\ RunInv /\ RegsInv /\ PageInv
  BY DEF Init, TraceeInit, FaultKnown, RunInv, RegsInv, PageInv, Steps, Called, Early, Borrowing
<1> QED
  BY <1>4, <1>5 DEF CallInv

USE DEF Steps, Called, Early, Borrowing

(* A call, a return and a step from one request to the next.               *)
LEMMA CallCall == CallInv /\ Call => CallInv'
<1> SUFFICES ASSUME CallInv, Call PROVE CallInv'
  OBVIOUS
<1>1. TypeOK' /\ FaultKnown'
  BY CallAssumption DEF Call, CallInv, TypeOK, FaultKnown, tracee, TraceeTypeOK
<1>2. ASSUME Live' PROVE (RunInv /\ RegsInv /\ PageInv)'
  BY <1>2 DEF Call, CallInv, Live, Alive, tracee, RunInv, RegsInv, PageInv
<1> QED
  BY <1>1, <1>2 DEF CallInv

(* The steps that change neither the memory of the target nor a variable   *)
(* of the call.                                                            *)
LEMMA QuietType ==
  ASSUME CallInv, UNCHANGED <<fault_addr, calls, locals, installed>>, TraceeTypeOK',
         pc' \in Steps \cup {"recv", "exited"}, result' \in {"none", "ok", "err"},
         pc' \in Steps => pc \in Steps
  PROVE  TypeOK' /\ FaultKnown'
BY DEF CallInv, TypeOK, FaultKnown, locals

LEMMA QuietCall ==
  ASSUME CallInv,
         AttachTarget \/ WaitStop \/ StepTarget \/ WaitStep \/ DetachTarget \/ DaemonExits
  PROVE  CallInv'
<1> USE DEF Try, Goto, Return, caller
<1>1. TraceeTypeOK'
  BY RequestTypes DEF AttachTarget, WaitStop, StepTarget, WaitStep, DetachTarget,
                      DaemonExits, CallInv, TypeOK
<1>2. TypeOK' /\ FaultKnown'
  <2>1. /\ UNCHANGED <<fault_addr, calls, locals, installed>>
        /\ pc' \in Steps \cup {"recv", "exited"} /\ (pc' \in Steps => pc \in Steps)
    BY DEF AttachTarget, WaitStop, StepTarget, WaitStep, DetachTarget, DaemonExits
  <2>2. result' \in {"none", "ok", "err"}
    BY DEF AttachTarget, WaitStop, StepTarget, WaitStep, DetachTarget, DaemonExits,
           CallInv, TypeOK
  <2> QED
    BY <1>1, <2>1, <2>2, QuietType
<1> SUFFICES ASSUME Live' PROVE (RunInv /\ RegsInv /\ PageInv)'
  BY <1>2 DEF CallInv
<1> USE DEF CallInv, Live, Alive, RunInv, RegsInv, PageInv, Held, locals, tracee
<1>3. CASE AttachTarget
  BY <1>3 DEF AttachTarget, Attach, AttachFails
<1>4. CASE WaitStop
  BY <1>4 DEF WaitStop, WaitReturns, UnknownStop
<1>5. CASE StepTarget
  BY <1>5 DEF StepTarget, SingleStep, RequestFails
<1>6. CASE WaitStep
  BY <1>6 DEF WaitStep, WaitReturns, UnknownStop
<1>7. CASE DetachTarget
  BY <1>7 DEF DetachTarget, Detach, RequestFails
<1>8. CASE DaemonExits
  BY <1>8 DEF DaemonExits
<1> QED
  BY <1>3, <1>4, <1>5, <1>6, <1>7, <1>8

(* The registers are read and written.                                     *)
LEMMA RegsCall ==
  ASSUME CallInv, GetRegs \/ SetCallRegs \/ RestoreRegs \/ GetAllocated
  PROVE  CallInv'
<1> USE DEF Try, Goto, Return, caller
<1>1. /\ TraceeTypeOK /\ saved_regs \in Registers /\ [saved_regs EXCEPT !.ret = SysNo] \in Registers
      /\ regs \in Registers /\ regs.ret \in Int
      /\ [saved_regs EXCEPT !.ret = SysNo].ret = SysNo
  BY RegAssumption DEF CallInv, TypeOK, TraceeTypeOK, Registers
<1>2. TraceeTypeOK'
  <2>1. CASE GetRegs \/ GetAllocated
    BY <1>1, <2>1, RequestTypes DEF GetRegs, GetAllocated
  <2>2. CASE SetCallRegs
    BY <1>1, <2>2, RequestTypes DEF SetCallRegs, SetRegs, TraceeTypeOK
  <2>3. CASE RestoreRegs
    BY <1>1, <2>3, RequestTypes DEF RestoreRegs, SetRegs, TraceeTypeOK
  <2> QED
    BY <2>1, <2>2, <2>3
<1>3. TypeOK' /\ FaultKnown'
  <2>1. /\ UNCHANGED <<fault_addr, calls, original_instr, i, installed>>
        /\ pc' \in Steps \cup {"recv"} /\ pc \in Steps
        /\ result' = result \/ result' = "err"
    BY DEF GetRegs, SetCallRegs, RestoreRegs, GetAllocated, locals
  <2>2. saved_regs' \in Registers
    BY <1>1 DEF GetRegs, SetCallRegs, RestoreRegs, GetAllocated, locals
  <2>3. allocated_addr' \in Int
    BY <1>1 DEF GetRegs, SetCallRegs, RestoreRegs, GetAllocated, locals, CallInv, TypeOK
  <2> QED
    BY <1>2, <2>1, <2>2, <2>3 DEF CallInv, TypeOK, FaultKnown
<1> SUFFICES ASSUME Live' PROVE (RunInv /\ RegsInv /\ PageInv)'
  BY <1>3 DEF CallInv
<1> USE DEF CallInv, Live, Alive, RunInv, RegsInv, PageInv, Held, locals, tracee
<1>4. CASE GetRegs
  BY <1>4 DEF GetRegs
<1>5. CASE SetCallRegs
  BY <1>1, <1>5 DEF SetCallRegs, SetRegs, RequestFails
<1>6. CASE RestoreRegs
  BY <1>6 DEF RestoreRegs, SetRegs, RequestFails
<1>7. CASE GetAllocated
  BY <1>7 DEF GetAllocated
<1> QED
  BY <1>4, <1>5, <1>6, <1>7

(* A word is written, or it is not and the call returns.                   *)
LEMMA PokeCall ==
  ASSUME CallInv, NEW a \in Int, NEW w \in Words,
         Poke(a, w) \/ PeekFails(a) \/ PokeFails(a, w)
  PROVE  /\ TraceeTypeOK'
         /\ UNCHANGED <<mapped, regs, ownRegs, run, traced>>
<1>1. TraceeTypeOK'
  BY PokeType, RequestTypes DEF CallInv, TypeOK, PeekFails
<1>2. UNCHANGED <<mapped, regs, ownRegs, run, traced>>
  BY PokeEffect, FailureEffect DEF CallInv, TypeOK
<1> QED
  BY <1>1, <1>2

LEMMA WriteSyscallCall == CallInv /\ WriteSyscall => CallInv'
<1> SUFFICES ASSUME CallInv, WriteSyscall PROVE CallInv'
  OBVIOUS
<1> DEFINE ip == saved_regs.ip
<1>1. ip \in Int /\ SyscallWord \in Words /\ TraceeTypeOK /\ original_instr \in Words
  BY BytesType DEF CallInv, TypeOK, Registers, SyscallWord, Words, WordSize, SyscallLen
<1>2. Poke(ip, SyscallWord) \/ PeekFails(ip) \/ PokeFails(ip, SyscallWord)
  BY DEF WriteSyscall, Try
<1>3. TraceeTypeOK' /\ UNCHANGED <<mapped, regs, ownRegs, run, traced>>
  BY <1>1, <1>2, PokeCall
<1>4. original_instr' \in Words
  BY <1>1, WordType DEF WriteSyscall, Try, Read
<1>5. /\ pc = "write_syscall" /\ pc' \in {"setregs", "recv"}
      /\ result' = result \/ result' = "err"
      /\ UNCHANGED <<fault_addr, calls, saved_regs, allocated_addr, i, installed>>
  BY DEF WriteSyscall, Try, Goto, Return, caller
<1>6. TypeOK' /\ FaultKnown'
  BY <1>3, <1>4, <1>5 DEF CallInv, TypeOK, FaultKnown, Words
<1>7. ASSUME Live' PROVE (RunInv /\ RegsInv /\ PageInv)'
  BY <1>3, <1>5, <1>7 DEF CallInv, Live, Alive, RunInv, RegsInv, PageInv
<1> QED
  BY <1>6, <1>7 DEF CallInv

LEMMA WriteOriginalCall == CallInv /\ WriteOriginal => CallInv'
<1> SUFFICES ASSUME CallInv, WriteOriginal PROVE CallInv'
  OBVIOUS
<1>1. saved_regs.ip \in Int /\ original_instr \in Words
  BY DEF CallInv, TypeOK, Registers, Words
<1>2. Poke(saved_regs.ip, original_instr) \/ PokeFails(saved_regs.ip, original_instr)
  BY DEF WriteOriginal, Try
<1>3. TraceeTypeOK' /\ UNCHANGED <<mapped, regs, ownRegs, run, traced>>
  BY <1>1, <1>2, PokeCall
<1>4. /\ pc = "write_original" /\ pc' \in {"write_patch", "recv"}
      /\ result' = result \/ result' = "err"
      /\ UNCHANGED <<fault_addr, calls, locals, installed>>
  BY DEF WriteOriginal, Try, Goto, Return, caller
<1>5. TypeOK' /\ FaultKnown'
  BY <1>3, <1>4 DEF CallInv, TypeOK, FaultKnown, locals
<1>6. ASSUME Live' PROVE (RunInv /\ RegsInv /\ PageInv)'
  BY <1>3, <1>4, <1>6 DEF CallInv, Live, Alive, RunInv, RegsInv, PageInv, locals
<1> QED
  BY <1>5, <1>6 DEF CallInv

(* The number of the system call and the error are no addresses of a page, *)
(* so that the first word of the patch finds out.                          *)
LEMMA Allocated ==
  ASSUME CallInv, Alive, pc = "write_patch", i < PatchSize,
         WordAt(allocated_addr + i) \subseteq Mapped
  PROVE  allocated_addr \in mapped /\ i = 0
<1>1. i = 0 /\ allocated_addr \in {SysNo, MmapError} \cup mapped
  BY DEF CallInv, Live, PageInv, PatchSize, WordSize
<1>2. Mapped \subseteq Memory
  BY DEF CallInv, TypeOK, TraceeTypeOK, Mapped, Memory
<1>3. ASSUME NEW a \in {SysNo, MmapError} PROVE ~(WordAt(a) \subseteq Mapped)
  <2>1. a \in WordAt(a)
    BY RegAssumption DEF WordAt, WordSize
  <2> QED
    BY <1>2, <2>1, UnmappedAssumption
<1>4. allocated_addr + i = allocated_addr
  BY <1>1 DEF CallInv, TypeOK
<1> QED
  BY <1>1, <1>3, <1>4

LEMMA WritePatchCall == CallInv /\ WritePatch => CallInv'
<1> SUFFICES ASSUME CallInv, WritePatch PROVE CallInv'
  OBVIOUS
<1> DEFINE a == allocated_addr + i
<1>1. a \in Int /\ PatchWord(i) \in Words /\ i \in Nat /\ TraceeTypeOK
  BY BytesType DEF CallInv, TypeOK, PatchWord, Words, WordSize
<1>2. Poke(a, PatchWord(i)) \/ PokeFails(a, PatchWord(i))
  BY DEF WritePatch, Try
<1>3. TraceeTypeOK' /\ UNCHANGED <<mapped, regs, ownRegs, run, traced>>
  BY <1>1, <1>2, PokeCall
<1>4. /\ pc = "write_patch" /\ i < PatchSize
      /\ UNCHANGED <<fault_addr, calls, saved_regs, original_instr, allocated_addr, installed>>
      /\ result' = result \/ result' = "err"
      /\ \/ pc' = "recv" /\ i' = i
         \/ pc' = "write_patch" /\ i' = i + WordSize /\ Poke(a, PatchWord(i))
  BY DEF WritePatch, Try, Goto, Return, caller
<1>5. TypeOK' /\ FaultKnown'
  BY <1>1, <1>3, <1>4 DEF CallInv, TypeOK, FaultKnown, WordSize
<1>6. ASSUME Live' PROVE (RunInv /\ RegsInv /\ PageInv)'
  <2>1. CASE pc' = "recv"
    BY <1>3, <1>4, <1>6, <2>1 DEF CallInv, Live, Alive, RunInv, RegsInv, PageInv
  <2>2. CASE pc' = "write_patch" /\ i' = i + WordSize /\ Poke(a, PatchWord(i))
    <3>1. run = "ptrace-stop" /\ WordAt(a) \subseteq Mapped
      BY <1>1, <2>2, PokeEffect
    <3>2. allocated_addr \in mapped /\ i = 0
      BY <1>4, <3>1, Allocated DEF Alive
    <3>3. i' = WordSize
      BY <2>2, <3>2 DEF WordSize
    <3> QED
      BY <1>3, <1>4, <1>6, <2>2, <3>2, <3>3
      DEF CallInv, Live, Alive, RunInv, RegsInv, PageInv
  <2> QED
    BY <1>4, <2>1, <2>2
<1> QED
  BY <1>5, <1>6 DEF CallInv

LEMMA JmpWordType ==
  ASSUME TraceeTypeOK, fault_addr \in Int, allocated_addr \in Int, CanPeek(fault_addr)
  PROVE  JmpWord(Word(fault_addr)) \in Words
<1>1. Word(fault_addr) \in Words
  BY WordType
<1>2. Displacement(fault_addr, allocated_addr) \in Int
  BY OperandType
<1> QED
  BY <1>1, <1>2, BytesType DEF JmpWord, Words, WordSize

LEMMA WriteJmpCall == CallInv /\ WriteJmp => CallInv'
<1> SUFFICES ASSUME CallInv, WriteJmp PROVE CallInv'
  OBVIOUS
<1>1. /\ pc = "write_patch" /\ i >= PatchSize /\ fault_addr \in FaultAddrs /\ fault_addr \in Int
      /\ allocated_addr \in Int /\ TraceeTypeOK /\ i \in Nat
      /\ installed \in [FaultAddrs -> {0} \cup Pages] /\ mapped \subseteq Pages
  BY CallAssumption DEF WriteJmp, Try, CallInv, FaultKnown, TypeOK, TraceeTypeOK
<1>2. /\ UNCHANGED <<fault_addr, calls, locals>>
      /\ result' = result \/ result' = "err"
      /\ pc' \in {"recv", "restore_regs"}
  BY DEF WriteJmp, Try, Goto, Return, caller
<1>3. CASE WriteJmpFails /\ UNCHANGED installed /\ pc' = "recv"
  <2>1. TraceeTypeOK' /\ UNCHANGED <<mapped, regs, ownRegs, run, traced>>
    <3>1. CASE PeekFails(fault_addr)
      BY <1>1, <3>1, RequestTypes DEF PeekFails, tracee
    <3>2. CASE CanPeek(fault_addr) /\ PokeFails(fault_addr, JmpWord(Word(fault_addr)))
      BY <1>1, <3>2, JmpWordType, PokeCall
    <3> QED
      BY <1>3, <3>1, <3>2 DEF WriteJmpFails
  <2>2. TypeOK' /\ FaultKnown'
    BY <1>2, <1>3, <2>1 DEF CallInv, TypeOK, FaultKnown, locals
  <2>3. ASSUME Live' PROVE (RunInv /\ RegsInv /\ PageInv)'
    BY <1>1, <1>2, <1>3, <2>1, <2>3
    DEF CallInv, Live, Alive, RunInv, RegsInv, PageInv
  <2> QED
    BY <2>2, <2>3 DEF CallInv
<1>4. CASE /\ CanPeek(fault_addr) /\ Poke(fault_addr, JmpWord(Word(fault_addr)))
           /\ installed' = [installed EXCEPT ![fault_addr] = allocated_addr]
           /\ pc' = "restore_regs"
  <2>1. JmpWord(Word(fault_addr)) \in Words
    BY <1>1, <1>4, JmpWordType
  <2>2. TraceeTypeOK' /\ UNCHANGED <<mapped, regs, ownRegs, run, traced>> /\ Alive
    BY <1>1, <1>4, <2>1, PokeCall, PokeEffect DEF Alive
  <2>3. allocated_addr \in mapped /\ i = WordSize
    BY <1>1, <2>2 DEF CallInv, Live, PageInv, PatchSize
  <2>4. installed' \in [FaultAddrs -> {0} \cup Pages]
    BY <1>1, <1>4, <2>3
  <2>5. TypeOK' /\ FaultKnown'
    BY <1>1, <1>2, <1>4, <2>2, <2>4 DEF CallInv, TypeOK, FaultKnown, locals
  <2>6. ASSUME Live' PROVE (RunInv /\ RegsInv /\ PageInv)'
    BY <1>1, <1>2, <1>4, <2>2, <2>3, <2>6
    DEF CallInv, Live, Alive, RunInv, RegsInv, PageInv, locals
  <2> QED
    BY <2>5, <2>6 DEF CallInv
<1> QED
  BY <1>3, <1>4 DEF WriteJmp, Try, Goto, Return, Poke, Installs

LEMMA TargetCall == CallInv /\ TargetStep => CallInv'
<1> SUFFICES ASSUME CallInv, TargetStep PROVE CallInv'
  OBVIOUS
<1>1. UNCHANGED <<pc, fault_addr, calls, locals, result, installed>>
  BY DEF TargetStep, Kept, caller
<1>2. TypeOK' /\ FaultKnown'
  BY <1>1, TargetTypes DEF TargetStep, CallInv, TypeOK, FaultKnown, locals
<1> SUFFICES ASSUME Live' PROVE (RunInv /\ RegsInv /\ PageInv)'
  BY <1>2 DEF CallInv
<1> USE <1>1 DEF CallInv, Live, Alive, RunInv, RegsInv, PageInv, locals
<1>3. ASSUME NEW s \in Signals, SignalArrives(s) PROVE (RunInv /\ RegsInv /\ PageInv)'
  BY <1>3 DEF SignalArrives
<1>4. CASE SignalStop
  BY <1>4 DEF SignalStop
<1>5. CASE SignalHandled
  BY <1>5 DEF SignalHandled
<1>6. CASE SyscallReturns(PatchSize)
  <2>1. /\ run' = "ptrace-stop" /\ run = "stepping"
        /\ UNCHANGED <<mem, private, torn, ownRegs, traced, groupStop, pending>>
        /\ mapped \subseteq mapped' /\ regs'.ret \in {MmapError} \cup mapped'
    BY <1>6 DEF SyscallReturns
  <2> QED
    BY <2>1
<1>7. CASE Killed
  BY <1>7 DEF Killed
<1>8. CASE Executes
  BY <1>8 DEF Executes
<1> QED
  BY <1>3, <1>4, <1>5, <1>6, <1>7, <1>8 DEF TargetStep, TraceeStep

LEMMA CallStep == CallInv /\ [Next]_vars => CallInv'
<1>1. ASSUME CallInv, UNCHANGED vars PROVE CallInv'
  BY <1>1, RequestTypes
  DEF vars, caller, locals, tracee, CallInv, TypeOK, FaultKnown, Live, Alive, RunInv, RegsInv, PageInv
<1> QED
  BY <1>1, CallCall, QuietCall, RegsCall, WriteSyscallCall, WriteOriginalCall,
     WritePatchCall, WriteJmpCall, TargetCall DEF Next, Step

LEMMA AlwaysCall == Spec => []CallInv
BY InitCall, CallStep, PTL DEF Spec

(* Through every request, refusal and signal of every call the state keeps *)
(* its type; what a call has installed is a page that mmap has returned.   *)
THEOREM TypeCorrect == Spec => []TypeOK
<1>1. CallInv => TypeOK
  BY DEF CallInv
<1> QED
  BY <1>1, AlwaysCall, PTL

-----------------------------------------------------------------------------
(***************************************************************************)
(* The memory of the target. The bytes that redirections have replaced and *)
(* the patches they lead to are part of what a later call has to leave as  *)
(* it is: what fits at an address is the target's own byte, that of a JMP  *)
(* or that of a patch.                                                     *)
(***************************************************************************)
Layout ==
  /\ \A f, g \in FaultAddrs : f # g => Entry(f) \cap Entry(g) = {}
  /\ \A f \in FaultAddrs, p \in Pages : WordAt(f) \cap PageAt(p) = {}
  /\ 0 \notin Pages /\ WordSize <= PageLen

Fits(a, b) ==
  /\ a \in Text =>
       \/ \E f \in FaultAddrs :
            installed[f] # 0 /\ a \in Entry(f) /\ b = Jmp(a - f, Displacement(f, installed[f]))
       \/ b = Own(a) /\ \A f \in FaultAddrs : installed[f] # 0 => a \notin Entry(f)
  /\ \A f \in FaultAddrs, n \in 0 .. PatchSize - 1 :
       installed[f] # 0 /\ a = installed[f] + n => b = Patch(n)

Whole(S) == \A a \in Memory \ S : Fits(a, mem[a])

TracedInv == pc \in Called => traced

PagesInv ==
  \A f \in FaultAddrs : installed[f] # 0 =>
    installed[f] \in mapped /\ \A g \in FaultAddrs \ {f} : installed[g] # installed[f]

(* The page of a call is not one that a redirection leads to.              *)
FreshInv ==
  \A f \in FaultAddrs : installed[f] # 0 =>
    /\ pc \in {"step", "wait_step", "getregs_after"} => installed[f] # regs.ret
    /\ pc \in {"write_original", "write_patch"} => installed[f] # allocated_addr

WrittenInv ==
  pc = "write_patch" /\ i = WordSize =>
    \A n \in 0 .. PatchSize - 1 : mem[allocated_addr + n] = Patch(n)

Lent ==
  LET ip == saved_regs.ip IN
    /\ Whole(WordAt(ip))
    /\ \A k \in 0 .. WordSize - 1 : Fits(ip + k, original_instr[k])
    /\ ip \in private /\ WordAt(ip) \subseteq Mapped

WordOff == \E a \in Int : Whole(WordAt(a))

(* A call that has failed still holds the target, which the next one can   *)
(* therefore not attach to, and has left a word of it behind at most.      *)
MemInv ==
  /\ pc # "exited" /\ (~traced \/ (Alive /\ pc \in Called \ Borrowing)) => Whole({})
  /\ Live /\ pc \in Borrowing => Lent
  /\ Alive /\ pc \in {"recv", "attach"} => WordOff

CodeInv == TracedInv /\ PagesInv /\ MemInv /\ (Live => FreshInv /\ WrittenInv)

LEMMA InitCode == Init => CodeInv
<1> SUFFICES ASSUME Init PROVE CodeInv
  OBVIOUS
<1>1. \A f \in FaultAddrs : installed[f] = 0
  BY DEF Init
<1>2. pc = "recv" /\ \A a \in Memory : a \in Text => mem[a] = Own(a)
  BY DEF Init, TraceeInit
<1>3. Whole({})
  BY <1>1, <1>2 DEF Whole, Fits
<1>4. WordOff
  BY <1>3 DEF WordOff, Whole
<1> QED
  BY <1>1, <1>2, <1>3, <1>4 DEF CodeInv, TracedInv, PagesInv, MemInv, FreshInv, WrittenInv

LEMMA FitsKept ==
  ASSUME UNCHANGED installed, NEW a, NEW b
  PROVE  Fits(a, b)' <=> Fits(a, b)
BY DEF Fits

(* A page is no address that a failed call leaves in the register.         *)
LEMMA PageStart ==
  ASSUME Layout, NEW p \in Pages
  PROVE  /\ p \in Nat /\ p # SysNo /\ p # MmapError /\ p # 0
         /\ WordAt(p) \subseteq PageAt(p) /\ PageAt(p) \cap Text = {}
         /\ \A n \in 0 .. PatchSize - 1 : p + n \in PageAt(p)
<1>1. p \in Nat /\ PageLen \in Nat /\ 8 <= PageLen
  BY PageAssumption DEF Layout, WordSize
<1>2. p \in PageAt(p) /\ p \in WordAt(p)
  BY <1>1 DEF PageAt, WordAt, WordSize
<1>3. p \in Memory
  BY <1>2 DEF Memory
<1>4. \A a \in {SysNo, MmapError} : p # a
  BY <1>2, <1>3, UnmappedAssumption
<1>5. WordAt(p) \subseteq PageAt(p) /\ \A n \in 0 .. PatchSize - 1 : p + n \in PageAt(p)
  BY <1>1 DEF WordAt, PageAt, WordSize, PatchSize
<1> QED
  BY <1>1, <1>4, <1>5, PageAssumption DEF Layout

-----------------------------------------------------------------------------
(* The steps that write no memory.                                         *)
LEMMA WholeKept ==
  ASSUME UNCHANGED <<mem, installed>>
  PROVE  (Whole({}) => Whole({})') /\ (WordOff => WordOff')
         /\ \A S : Whole(S) => Whole(S)'
BY FitsKept DEF Whole, WordOff

LEMMA LessWhole == Whole({}) => WordOff
BY DEF Whole, WordOff

LEMMA LentKept ==
  ASSUME Lent, UNCHANGED <<mem, installed, saved_regs, original_instr, private>>,
         mapped \subseteq mapped'
  PROVE  Lent'
<1>1. Mapped \subseteq Mapped'
  BY DEF Mapped
<1> QED
  BY <1>1, WholeKept, FitsKept DEF Lent

LEMMA LentOff == CallInv /\ Lent => WordOff
BY DEF CallInv, TypeOK, Registers, Lent, WordOff

LEMMA PagesKept ==
  ASSUME PagesInv, UNCHANGED installed, mapped \subseteq mapped'
  PROVE  PagesInv'
BY DEF PagesInv

LEMMA CallCode == ASSUME CallInv, CodeInv, Call PROVE CodeInv'
<1> USE DEF Call, tracee
<1>1. PagesInv' /\ TracedInv'
  BY PagesKept DEF CodeInv, TracedInv
<1>2. MemInv'
  BY WholeKept DEF CodeInv, MemInv, Live, Alive
<1> QED
  BY <1>1, <1>2 DEF CodeInv, FreshInv, WrittenInv

LEMMA QuietCode ==
  ASSUME CallInv, CodeInv,
         AttachTarget \/ WaitStop \/ StepTarget \/ WaitStep \/ DetachTarget
  PROVE  CodeInv'
<1> USE DEF Try, Goto, Return, caller, locals, tracee, Held, Alive, Live
<1>1. UNCHANGED <<mem, installed, saved_regs, original_instr, private, mapped, regs, allocated_addr, i>>
  BY DEF AttachTarget, WaitStop, StepTarget, WaitStep, DetachTarget, Attach, AttachFails,
         SingleStep, Detach, RequestFails
<1>2. PagesInv'
  BY <1>1, PagesKept DEF CodeInv
<1>3. Lent => Lent'
  BY <1>1, LentKept
<1>4. (Whole({}) => Whole({})' /\ WordOff') /\ (WordOff => WordOff')
  BY <1>1, WholeKept, LessWhole
<1> USE DEF CodeInv, TracedInv, MemInv, FreshInv, WrittenInv, CallInv, RunInv
<1>5. CASE AttachTarget
  BY <1>1, <1>2, <1>3, <1>4, <1>5 DEF AttachTarget, Attach, AttachFails
<1>6. CASE WaitStop
  BY <1>1, <1>2, <1>3, <1>4, <1>6 DEF WaitStop
<1>7. CASE StepTarget
  BY <1>1, <1>2, <1>3, <1>4, <1>7 DEF StepTarget, SingleStep, RequestFails
<1>8. CASE WaitStep
  BY <1>1, <1>2, <1>3, <1>4, <1>8, LentOff DEF WaitStep
<1>9. CASE DetachTarget
  BY <1>1, <1>2, <1>3, <1>4, <1>9 DEF DetachTarget, Detach, RequestFails
<1> QED
  BY <1>5, <1>6, <1>7, <1>8, <1>9

LEMMA RegsCode ==
  ASSUME Layout, CallInv, CodeInv, GetRegs \/ SetCallRegs \/ RestoreRegs \/ GetAllocated
  PROVE  CodeInv'
<1> USE DEF Try, Goto, Return, caller, locals, tracee, Held, Alive, Live
<1>1. UNCHANGED <<mem, installed, original_instr, private, mapped, run, traced, i>>
  BY DEF GetRegs, SetCallRegs, RestoreRegs, GetAllocated, SetRegs, RequestFails
<1>2. PagesInv'
  BY <1>1, PagesKept DEF CodeInv
<1>3. UNCHANGED saved_regs /\ Lent => Lent'
  BY <1>1, LentKept
<1>4. (Whole({}) => Whole({})' /\ WordOff') /\ (WordOff => WordOff')
  BY <1>1, WholeKept, LessWhole
<1>5. \A f \in FaultAddrs : installed[f] # 0 => installed[f] # SysNo
  BY PageStart DEF CodeInv, PagesInv, CallInv, TypeOK, TraceeTypeOK
<1>6. [saved_regs EXCEPT !.ret = SysNo].ret = SysNo
  BY DEF CallInv, TypeOK, Registers
<1> USE DEF CodeInv, TracedInv, MemInv, FreshInv, WrittenInv, CallInv, RunInv
<1>7. CASE GetRegs
  BY <1>1, <1>2, <1>4, <1>7 DEF GetRegs
<1>8. CASE SetCallRegs
  BY <1>1, <1>2, <1>3, <1>4, <1>5, <1>6, <1>8 DEF SetCallRegs, SetRegs, RequestFails
<1>9. CASE RestoreRegs
  BY <1>1, <1>2, <1>3, <1>4, <1>9 DEF RestoreRegs, SetRegs, RequestFails
<1>10. CASE GetAllocated
  BY <1>1, <1>2, <1>3, <1>4, <1>10 DEF GetAllocated
<1> QED
  BY <1>7, <1>8, <1>9, <1>10

LEMMA TargetCode == ASSUME Layout, CallInv, CodeInv, TargetStep PROVE CodeInv'
<1>1. /\ UNCHANGED <<pc, locals, installed>> /\ UNCHANGED <<mem, private, traced>>
      /\ mapped \subseteq mapped' /\ (run = "dead" => run' = "dead")
  BY DEF TargetStep, Kept, TraceeStep, SignalArrives, SignalStop, SignalHandled,
         SyscallReturns, Killed, Executes, Alive
<1>2. PagesInv' /\ TracedInv'
  BY <1>1, PagesKept DEF CodeInv, TracedInv
<1>3. Lent => Lent'
  BY <1>1, LentKept DEF locals
<1>4. (Whole({}) => Whole({})') /\ (WordOff => WordOff')
  BY <1>1, WholeKept
<1>5. MemInv'
  BY <1>1, <1>3, <1>4 DEF CodeInv, MemInv, Live, Alive
<1>6. ASSUME Live' PROVE FreshInv' /\ WrittenInv'
  <2>1. Live /\ FreshInv /\ WrittenInv
    BY <1>1, <1>6 DEF CodeInv, Live, Alive
  <2>2. WrittenInv'
    BY <1>1, <2>1 DEF WrittenInv, locals
  <2>3. CASE SyscallReturns(PatchSize)
    <3>1. pc = "wait_step"
      BY <2>1, <2>3 DEF SyscallReturns, CallInv, RunInv
    <3>2. \/ regs'.ret = MmapError
          \/ regs'.ret \in Pages \ mapped
      BY <2>3 DEF SyscallReturns
    <3>3. ASSUME NEW f \in FaultAddrs, installed[f] # 0 PROVE installed[f] # regs'.ret
      <4>1. installed[f] \in mapped /\ installed[f] \in Pages
        BY <3>3 DEF CodeInv, PagesInv, CallInv, TypeOK, TraceeTypeOK
      <4> QED
        BY <3>2, <4>1, PageStart
    <3> QED
      BY <1>1, <2>2, <3>1, <3>3 DEF FreshInv
  <2>4. CASE UNCHANGED regs
    BY <1>1, <2>1, <2>2, <2>4 DEF FreshInv, locals
  <2>5. CASE Executes
    <3>1. pc \notin Called
      BY <2>5 DEF Executes, CodeInv, TracedInv
    <3> QED
      BY <1>1, <2>2, <3>1 DEF FreshInv
  <2> QED
    BY <2>3, <2>4, <2>5
    DEF TargetStep, TraceeStep, SignalArrives, SignalStop, SignalHandled, Killed
<1> QED
  BY <1>2, <1>5, <1>6 DEF CodeInv

LEMMA ExitCode == ASSUME CallInv, CodeInv, DaemonExits PROVE CodeInv'
<1>1. PagesInv'
  BY PagesKept DEF CodeInv, DaemonExits, TracerExits
<1> QED
  BY <1>1 DEF DaemonExits, Goto, CodeInv, TracedInv, MemInv, Live

-----------------------------------------------------------------------------
(* The steps that write to the memory. A failure returns with the target   *)
(* held, and with a word of it written in part at most.                    *)
LEMMA FailedCode ==
  ASSUME CallInv, CodeInv, pc \in Called \ Borrowing, pc' = "recv",
         UNCHANGED <<mapped, run, traced, installed>>,
         NEW a \in Int, \A x \in Memory \ WordAt(a) : mem'[x] = mem[x]
  PROVE  CodeInv'
<1>1. traced /\ traced'
  BY DEF CodeInv, TracedInv
<1>2. PagesInv' /\ TracedInv'
  BY PagesKept DEF CodeInv, TracedInv
<1>3. ASSUME Alive' PROVE WordOff'
  <2>1. Whole({})
    BY <1>3 DEF CodeInv, MemInv, Alive
  <2>2. Whole(WordAt(a))'
    BY <2>1, FitsKept DEF Whole
  <2> QED
    BY <2>2 DEF WordOff
<1>4. MemInv'
  BY <1>1, <1>3 DEF MemInv
<1> QED
  BY <1>2, <1>4 DEF CodeInv, FreshInv, WrittenInv

LEMMA WriteSyscallCode == ASSUME CallInv, CodeInv, WriteSyscall PROVE CodeInv'
<1> DEFINE ip == saved_regs.ip
<1>1. /\ pc = "write_syscall" /\ ip \in Int /\ TraceeTypeOK /\ traced
      /\ UNCHANGED <<saved_regs, installed>>
  BY DEF WriteSyscall, Try, CallInv, TypeOK, Registers, CodeInv, TracedInv
<1>2. CASE (PeekFails(ip) \/ PokeFails(ip, SyscallWord)) /\ pc' = "recv"
  BY <1>1, <1>2, FailureEffect, FailedCode
<1>3. CASE Read(ip) /\ Poke(ip, SyscallWord) /\ pc' = "setregs"
  <2>1. /\ run = "ptrace-stop" /\ WordAt(ip) \subseteq Mapped
        /\ \A x \in Memory \ WordAt(ip) : mem'[x] = mem[x]
        /\ \A k \in 0 .. WordSize - 1 : ip + k \in Memory
        /\ private' = private \cup {ip} /\ UNCHANGED <<mapped, traced, run>>
    BY <1>1, <1>3, PokeEffect
  <2>2. Whole({})
    BY <1>1, <2>1 DEF CodeInv, MemInv, Alive
  <2>3. Whole(WordAt(ip))'
    BY <1>1, <2>1, <2>2, FitsKept DEF Whole
  <2>4. \A k \in 0 .. WordSize - 1 : Fits(ip + k, original_instr'[k])
    BY <1>3, <2>1, <2>2 DEF Read, Whole, Word
  <2>5. \A k \in 0 .. WordSize - 1 : Fits(ip + k, original_instr[k])'
    BY <1>1, <2>4, FitsKept
  <2>6. Lent'
    BY <1>1, <2>1, <2>3, <2>5 DEF Lent, Mapped
  <2>7. PagesInv'
    BY <1>1, <2>1, PagesKept DEF CodeInv
  <2> QED
    BY <1>1, <1>3, <2>1, <2>6, <2>7 DEF CodeInv, TracedInv, MemInv, FreshInv, WrittenInv
<1> QED
  BY <1>2, <1>3 DEF WriteSyscall, Try, Goto, Return

LEMMA WriteOriginalCode == ASSUME CallInv, CodeInv, WriteOriginal PROVE CodeInv'
<1> DEFINE ip == saved_regs.ip
<1>1. /\ pc = "write_original" /\ ip \in Int /\ TraceeTypeOK /\ traced
      /\ UNCHANGED <<locals, installed>>
  BY DEF WriteOriginal, Try, CallInv, TypeOK, Registers, CodeInv, TracedInv
<1>2. CASE PokeFails(ip, original_instr) /\ pc' = "recv"
  <2>1. UNCHANGED <<mapped, run, traced>>
    BY <1>1, <1>2, FailureEffect
  <2>2. ASSUME Alive PROVE FALSE
    <3>1. run = "ptrace-stop" /\ Lent
      BY <1>1, <2>2 DEF CallInv, RunInv, CodeInv, MemInv, Live
    <3>2. Held /\ WordAt(ip) \subseteq Mapped /\ ip \in private
      BY <3>1 DEF Held, Lent
    <3>3. FirstPage(ip) \subseteq WordAt(ip)
      BY DEF FirstPage
    <3> QED
      BY <1>2, <3>2, <3>3 DEF PokeFails, Refused, Torn, NoMemory
  <2>3. PagesInv'
    BY <1>1, <2>1, PagesKept DEF CodeInv
  <2> QED
    BY <1>1, <1>2, <2>1, <2>2, <2>3 DEF CodeInv, TracedInv, MemInv, Live, Alive
<1>3. CASE Poke(ip, original_instr) /\ pc' = "write_patch"
  <2>1. /\ run = "ptrace-stop"
        /\ \A x \in Memory \ WordAt(ip) : mem'[x] = mem[x]
        /\ \A k \in 0 .. WordSize - 1 : mem'[ip + k] = original_instr[k]
        /\ UNCHANGED <<mapped, traced, run>>
    <3>1. ip \in Int /\ TraceeTypeOK /\ Poke(ip, original_instr)
      BY <1>1, <1>3
    <3> QED
      BY ONLY <3>1, PokeEffect
  <2>2. Live /\ Lent
    BY <1>1, <2>1 DEF CodeInv, MemInv, Alive, Live
  <2>3. ASSUME NEW x \in Memory PROVE Fits(x, mem'[x])
    <3>1. CASE x \in WordAt(ip)
      <4>1. x - ip \in 0 .. WordSize - 1 /\ x = ip + (x - ip)
        BY <1>1, <3>1, OfWord
      <4>2. mem'[x] = original_instr[x - ip] /\ Fits(ip + (x - ip), original_instr[x - ip])
        BY <2>1, <2>2, <4>1 DEF Lent
      <4> QED
        BY <4>1, <4>2
    <3>2. CASE x \notin WordAt(ip)
      BY <2>1, <2>2, <3>2 DEF Lent, Whole
    <3> QED
      BY <3>1, <3>2
  <2>4. Whole({})'
    BY <1>1, <2>3, FitsKept DEF Whole
  <2>5. PagesInv'
    BY <1>1, <2>1, PagesKept DEF CodeInv
  <2>6. FreshInv' /\ WrittenInv'
    <3>1. i = 0
      BY <1>1, <2>2 DEF CallInv, PageInv
    <3>2. FreshInv
      BY <2>2 DEF CodeInv
    <3> QED
      BY <1>1, <1>3, <3>1, <3>2 DEF FreshInv, WrittenInv, locals, WordSize
  <2> QED
    BY <1>1, <1>3, <2>1, <2>4, <2>5, <2>6 DEF CodeInv, TracedInv, MemInv
<1> QED
  BY <1>2, <1>3 DEF WriteOriginal, Try, Goto, Return

(* The pages that redirections lead to lie apart from the page of the call. *)
LEMMA WritePatchCode == ASSUME Layout, CallInv, CodeInv, WritePatch PROVE CodeInv'
<1> DEFINE p == allocated_addr
<1>1. /\ pc = "write_patch" /\ i < PatchSize /\ p + i \in Int /\ TraceeTypeOK /\ traced
      /\ UNCHANGED <<saved_regs, original_instr, allocated_addr, installed>>
  BY DEF WritePatch, Try, CallInv, TypeOK, CodeInv, TracedInv
<1>2. CASE PokeFails(p + i, PatchWord(i)) /\ pc' = "recv"
  BY <1>1, <1>2, FailureEffect, FailedCode
<1>3. CASE Poke(p + i, PatchWord(i)) /\ i' = i + WordSize /\ pc' = "write_patch"
  <2>1. /\ run = "ptrace-stop" /\ WordAt(p + i) \subseteq Mapped
        /\ \A x \in Memory \ WordAt(p + i) : mem'[x] = mem[x]
        /\ \A k \in 0 .. WordSize - 1 : mem'[p + i + k] = PatchWord(i)[k]
        /\ UNCHANGED <<mapped, traced, run>>
    <3>1. p + i \in Int /\ TraceeTypeOK /\ Poke(p + i, PatchWord(i))
      BY <1>1, <1>3
    <3> QED
      BY ONLY <3>1, PokeEffect
  <2>2. p \in Pages /\ i = 0 /\ p + i = p
    <3>1. p \in mapped /\ i = 0
      BY <1>1, <2>1, Allocated DEF Alive
    <3> QED
      BY <1>1, <3>1, PageStart DEF TraceeTypeOK
  <2>3. Whole({}) /\ FreshInv
    BY <1>1, <2>1 DEF CodeInv, MemInv, Live, Alive
  <2>4. ASSUME NEW x \in Memory, x \in WordAt(p) PROVE Fits(x, mem'[x])
    <3>1. x \in PageAt(p) /\ x \notin Text
      BY <2>2, <2>4, PageStart
    <3>2. ASSUME NEW f \in FaultAddrs, NEW n \in 0 .. PatchSize - 1,
                 installed[f] # 0, x = installed[f] + n
          PROVE  FALSE
      <4>1. installed[f] \in Pages /\ installed[f] # p
        BY <1>1, <2>3, <3>2 DEF FreshInv, CallInv, TypeOK
      <4>2. x \in PageAt(installed[f])
        BY <3>2, <4>1, PageStart
      <4> QED
        BY <2>2, <3>1, <4>1, <4>2, PageAssumption
    <3> QED
      BY <3>1, <3>2 DEF Fits
  <2>5. Whole({})'
    <3>1. \A x \in Memory : Fits(x, mem'[x])
      BY <2>1, <2>2, <2>3, <2>4 DEF Whole
    <3> QED
      BY <1>1, <3>1, FitsKept DEF Whole
  <2>6. PagesInv'
    BY <1>1, <2>1, PagesKept DEF CodeInv
  <2>7. WrittenInv'
    <3>1. ASSUME NEW n \in 0 .. PatchSize - 1 PROVE mem'[p + n] = Patch(n)
      <4>1. n \in 0 .. WordSize - 1 /\ 0 + n = n /\ n < PatchSize
        BY DEF PatchSize, WordSize
      <4>2. mem'[p + n] = PatchWord(0)[n]
        BY <2>1, <2>2, <4>1
      <4> QED
        BY <4>1, <4>2 DEF PatchWord
    <3> QED
      BY <1>1, <3>1 DEF WrittenInv
  <2>8. FreshInv'
    BY <1>1, <1>3, <2>3 DEF FreshInv
  <2> QED
    BY <1>1, <1>3, <2>1, <2>5, <2>6, <2>7, <2>8 DEF CodeInv, TracedInv, MemInv
<1> QED
  BY <1>2, <1>3 DEF WritePatch, Try, Goto, Return

(* The JMP takes the place of what was due at the entry; the rest of its   *)
(* word, of which another redirection may be a part, is written back.      *)
LEMMA WriteJmpCode == ASSUME Layout, CallInv, CodeInv, WriteJmp PROVE CodeInv'
<1>1. PICK e : e = fault_addr
  OBVIOUS
<1>2. PICK p : p = allocated_addr
  OBVIOUS
<1>3. /\ pc = "write_patch" /\ i >= PatchSize /\ e \in FaultAddrs /\ e \in Int /\ p \in Int
      /\ TraceeTypeOK /\ traced /\ i \in Nat /\ installed \in [FaultAddrs -> {0} \cup Pages]
  BY <1>1, <1>2, CallAssumption
  DEF WriteJmp, Try, CallInv, TypeOK, FaultKnown, CodeInv, TracedInv
<1>4. CASE /\ PeekFails(e) \/ PokeFails(e, JmpWord(Word(e)))
           /\ UNCHANGED installed /\ pc' = "recv"
  BY <1>3, <1>4, FailureEffect, FailedCode
<1>5. CASE /\ Poke(e, JmpWord(Word(e))) /\ pc' = "restore_regs"
           /\ installed' = [installed EXCEPT ![e] = p]
  <2>1. /\ run = "ptrace-stop"
        /\ \A x \in Memory \ WordAt(e) : mem'[x] = mem[x]
        /\ \A k \in 0 .. WordSize - 1 : mem'[e + k] = JmpWord(Word(e))[k]
        /\ UNCHANGED <<mapped, traced, run>>
    <3>1. PICK w : w = JmpWord(Word(e))
      OBVIOUS
    <3>2. TraceeTypeOK /\ e \in Int /\ Poke(e, w)
      BY <1>3, <1>5, <3>1
    <3>3. /\ run = "ptrace-stop"
          /\ \A x \in Memory \ WordAt(e) : mem'[x] = mem[x]
          /\ \A k \in 0 .. WordSize - 1 : mem'[e + k] = w[k]
          /\ UNCHANGED <<mapped, traced, run>>
      BY ONLY <3>2, PokeEffect
    <3> QED
      BY <3>1, <3>3
  <2>2. Live /\ Whole({}) /\ FreshInv /\ WrittenInv
    BY <1>3, <2>1 DEF CodeInv, MemInv, Live, Alive
  <2>3. p \in mapped /\ p \in Pages /\ p # 0 /\ i = WordSize
    BY <1>2, <1>3, <2>2, PageStart DEF CallInv, PageInv, PatchSize, TraceeTypeOK
  <2>4. \A g \in FaultAddrs : installed'[g] = IF g = e THEN p ELSE installed[g]
    BY <1>3, <1>5
  <2>5. \A x \in Memory \ Entry(e) : mem'[x] = mem[x]
    <3>1. ASSUME NEW x \in Memory, x \notin Entry(e), x \in WordAt(e) PROVE mem'[x] = mem[x]
      <4>1. x - e \in 0 .. WordSize - 1 /\ x = e + (x - e)
        BY <1>3, <3>1, OfWord
      <4>2. ~(x - e < JmpLen)
        BY <1>3, <3>1, <4>1 DEF Entry, JmpLen
      <4>3. mem'[x] = JmpWord(Word(e))[x - e]
        BY <2>1, <4>1
      <4>4. JmpWord(Word(e))[x - e] = Word(e)[x - e] /\ Word(e)[x - e] = mem[x]
        BY <4>1, <4>2 DEF JmpWord, Word
      <4> QED
        BY <4>3, <4>4
    <3> QED
      BY <2>1, <3>1
  <2>6. \A x \in Entry(e) : mem'[x] = Jmp(x - e, Displacement(e, p))
    <3>1. ASSUME NEW x \in Entry(e) PROVE mem'[x] = Jmp(x - e, Displacement(e, p))
      <4>1. x - e \in 0 .. WordSize - 1 /\ x = e + (x - e) /\ x - e < JmpLen
        BY <1>3 DEF Entry, JmpLen, WordSize
      <4>2. mem'[x] = JmpWord(Word(e))[x - e]
        BY <2>1, <4>1
      <4> QED
        BY <1>1, <1>2, <4>1, <4>2 DEF JmpWord
    <3> QED
      BY <3>1
  <2>7. ASSUME NEW x \in Memory, x \in Text
        PROVE  \/ \E f \in FaultAddrs : /\ installed'[f] # 0 /\ x \in Entry(f)
                                         /\ mem'[x] = Jmp(x - f, Displacement(f, installed'[f]))
               \/ mem'[x] = Own(x) /\ \A f \in FaultAddrs : installed'[f] # 0 => x \notin Entry(f)
    <3>1. CASE x \in Entry(e)
      BY <1>3, <2>3, <2>4, <2>6, <3>1
    <3>2. CASE x \notin Entry(e)
      <4>1. mem'[x] = mem[x] /\ Fits(x, mem[x])
        BY <2>2, <2>5, <3>2 DEF Whole
      <4> QED
        BY <2>4, <2>7, <3>2, <4>1 DEF Fits
    <3> QED
      BY <3>1, <3>2
  <2>8. ASSUME NEW x \in Memory, NEW f \in FaultAddrs, NEW n \in 0 .. PatchSize - 1,
               installed'[f] # 0, x = installed'[f] + n
        PROVE  mem'[x] = Patch(n)
    <3>1. installed'[f] \in Pages
      BY <1>3, <2>3, <2>4, <2>8
    <3>2. x \in PageAt(installed'[f])
      BY <2>8, <3>1, PageStart
    <3>3. x \notin WordAt(e)
      BY <1>3, <3>1, <3>2 DEF Layout
    <3>4. mem'[x] = mem[x]
      BY <2>1, <3>3
    <3>5. CASE f = e
      BY <1>2, <1>3, <2>2, <2>3, <2>4, <2>8, <3>4, <3>5 DEF WrittenInv
    <3>6. CASE f # e
      BY <2>2, <2>4, <2>8, <3>4, <3>6 DEF Whole, Fits
    <3> QED
      BY <3>5, <3>6
  <2>9. Whole({})'
    BY <2>7, <2>8 DEF Whole, Fits
  <2>10. PagesInv'
    BY <1>2, <1>3, <2>1, <2>2, <2>3, <2>4 DEF CodeInv, PagesInv, FreshInv
  <2> QED
    BY <1>3, <1>5, <2>1, <2>9, <2>10 DEF CodeInv, TracedInv, MemInv, FreshInv, WrittenInv
<1> QED
  BY <1>1, <1>2, <1>4, <1>5 DEF WriteJmp, WriteJmpFails, Installs, Try, Goto, Return

LEMMA CodeStep == ASSUME Layout, CallInv, CodeInv, [Next]_vars PROVE CodeInv'
<1>1. CASE UNCHANGED vars
  <2>1. UNCHANGED <<pc, mem, mapped, run, traced, private, regs, locals, installed>>
    BY <1>1 DEF vars, tracee
  <2>2. PagesInv' /\ (Lent => Lent') /\ (Whole({}) => Whole({})') /\ (WordOff => WordOff')
    BY <2>1, PagesKept, LentKept, WholeKept DEF CodeInv, locals
  <2> QED
    BY <2>1, <2>2 DEF CodeInv, TracedInv, MemInv, FreshInv, WrittenInv, Live, Alive, locals
<1> QED
  BY <1>1, CallCode, QuietCode, RegsCode, ExitCode, WriteSyscallCode, WriteOriginalCode,
     WritePatchCode, WriteJmpCode, TargetCode DEF Next, Step

LEMMA AlwaysCode == ASSUME Layout PROVE Spec => [](CallInv /\ CodeInv)
<1>1. Init => CallInv /\ CodeInv
  BY InitCall, InitCode
<1>2. CallInv /\ CodeInv /\ [Next]_vars => (CallInv /\ CodeInv)'
  BY CallStep, CodeStep
<1> QED
  BY <1>1, <1>2, PTL DEF Spec

-----------------------------------------------------------------------------
(* An address of the code belongs to one entry, so that it is clear what is *)
(* due there.                                                              *)
LEMMA DueIsOwn ==
  ASSUME Layout, NEW a \in Text, NEW b, Fits(a, b)
  PROVE  b = ByteDue(a)
<1>1. CASE \E f \in FaultAddrs : installed[f] # 0 /\ a \in Entry(f)
  <2>1. PICK f \in FaultAddrs : /\ installed[f] # 0 /\ a \in Entry(f)
                                /\ b = Jmp(a - f, Displacement(f, installed[f]))
    BY <1>1 DEF Fits
  <2>2. PICK g : g = CHOOSE x \in FaultAddrs : installed[x] # 0 /\ a \in Entry(x)
    OBVIOUS
  <2>3. g \in FaultAddrs /\ installed[g] # 0 /\ a \in Entry(g)
    BY <1>1, <2>2
  <2>4. g = f
    BY <2>1, <2>3 DEF Layout
  <2>5. ByteDue(a) = Jmp(a - g, Displacement(g, installed[g]))
    BY <1>1, <2>2 DEF ByteDue
  <2> QED
    BY <2>1, <2>4, <2>5
<1>2. CASE ~\E f \in FaultAddrs : installed[f] # 0 /\ a \in Entry(f)
  BY <1>2 DEF Fits, ByteDue
<1> QED
  BY <1>1, <1>2

LEMMA WholeIsDue == ASSUME Layout, Whole({}) PROVE CodeIsDue
BY DueIsOwn DEF Whole, CodeIsDue, Memory

(* The entries of the faults lie apart and apart from the pages: then a    *)
(* living target that no call holds has its own registers and its own code *)
(* or whole redirections, however many calls failed wherever they did.     *)
THEOREM OnlyItself == ASSUME Layout PROVE Spec => []RunsItself
<1>1. CallInv /\ CodeInv => RunsItself
  BY WholeIsDue DEF CallInv, CodeInv, MemInv, Live, RegsInv, RunsItself
<1> QED
  BY <1>1, AlwaysCode, PTL

(* The target has code, or it could not have been interrupted.             *)
LEMMA HasCode == Spec => [](TextLo \in Text)
<1>1. Init => TextLo \in Text
  BY TextAssumption DEF Init, TraceeInit, Text
<1>2. TextLo \in Text /\ [Next]_vars => (TextLo \in Text)'
  BY DEF Text
<1> QED
  BY <1>1, <1>2, PTL DEF Spec

(* Under the same hypothesis a call that has returned, with success or an  *)
(* error, after any number of calls that did, has left one word of the     *)
(* code other than it should be at most, unless the target is dead.        *)
THEOREM OneWordBorrowed == ASSUME Layout PROVE Spec => []OneWordLeft
<1>1. ASSUME CallInv, CodeInv, TextLo \in Text PROVE OneWordLeft
  <2> SUFFICES ASSUME pc = "recv", Alive
               PROVE  \E a \in Text : \A x \in Text \ WordAt(a) : mem[x] = ByteDue(x)
    BY DEF OneWordLeft
  <2>1. PICK a \in Int : Whole(WordAt(a))
    BY <1>1 DEF CodeInv, MemInv, WordOff
  <2>2. \A x \in Text \ WordAt(a) : mem[x] = ByteDue(x)
    BY <2>1, DueIsOwn DEF Whole, Memory
  <2>3. CASE a \in Text
    BY <2>2, <2>3
  <2>4. CASE a < TextLo
    <3>1. \A x \in Text : x \in WordAt(a) => x \in WordAt(TextLo)
      BY <2>4, TextAssumption DEF Text, WordAt, WordSize
    <3> QED
      BY <1>1, <2>2, <3>1
  <2>5. CASE a > TextHi
    <3>1. \A x \in Text : x \notin WordAt(a)
      BY <2>5, TextAssumption DEF Text, WordAt, WordSize
    <3> QED
      BY <1>1, <2>2, <3>1
  <2> QED
    BY <2>3, <2>4, <2>5, TextAssumption DEF Text
<1> QED
  BY <1>1, AlwaysCode, HasCode, PTL

(* Under the same hypothesis the calls that follow leave the redirections  *)
(* of the calls before them, and the patches they lead to, as they are.    *)
THEOREM LeadToPatches == ASSUME Layout PROVE Spec => []RedirectionsWhole
<1>1. ASSUME CallInv, CodeInv PROVE RedirectionsWhole
  <2>1. ASSUME NEW f \in FaultAddrs, installed[f] # 0, ~traced, pc # "exited",
               NEW n \in 0 .. PatchSize - 1
        PROVE  mem[installed[f] + n] = Patch(n)
    <3>1. installed[f] \in Pages /\ Whole({})
      BY <1>1, <2>1 DEF CallInv, TypeOK, CodeInv, MemInv
    <3>2. installed[f] + n \in Memory
      BY <3>1, PageStart DEF Memory
    <3> QED
      BY <2>1, <3>1, <3>2 DEF Whole, Fits
  <2> QED
    BY <1>1, <2>1 DEF CodeInv, PagesInv, RedirectionsWhole
<1> QED
  BY <1>1, AlwaysCode, PTL

-----------------------------------------------------------------------------
HIDE DEF Called, Early, Borrowing

LEMMA LoopStep == [DaemonNext]_dvars => [Next]_vars
<1>1. HotSwap \/ (TargetStep /\ UNCHANGED loop) \/ (DaemonExits /\ UNCHANGED loop) => Next
  BY DEF HotSwap, Next
<1>2. Send \/ Receive => UNCHANGED vars
  BY DEF Send, Receive
<1>3. EngineEnds => [Next]_vars
  BY DEF EngineEnds, Next
<1>4. UNCHANGED dvars => UNCHANGED vars
  BY DEF dvars
<1> QED
  BY <1>1, <1>2, <1>3, <1>4 DEF DaemonNext

(* The daemon implements the caller that Injector describes: it makes a    *)
(* call only when the one before it has returned.                          *)
THEOREM LoopCalls == DaemonSpec => Spec
<1>1. DaemonInit => Init
  BY DEF DaemonInit
<1> QED
  BY <1>1, LoopStep, PTL DEF DaemonSpec, Spec

-----------------------------------------------------------------------------
Records == [addr : FaultAddrs, outcome : Outcomes]

(* A call is for the fault that is being served. *)
LoopType ==
  /\ rx \in Seq(FaultAddrs) /\ sent \in Seq(FaultAddrs) /\ script \in BOOLEAN
  /\ serving \in Seq(FaultAddrs) /\ Len(serving) <= 1
  /\ reports \in Seq(Records)
  /\ pc \in Steps => serving = <<fault_addr>>

(* Sequences of addresses. *)
LEMMA HeadFirst ==
  ASSUME NEW S, NEW s \in Seq(S), s # << >>
  PROVE  /\ Head(s) \in S /\ Tail(s) \in Seq(S) /\ s = <<Head(s)>> \o Tail(s)
         /\ <<Head(s)>> \in Seq(S) /\ Len(<<Head(s)>>) = 1
         /\ Len(s) <= 1 => s = <<Head(s)>>
<1>1. /\ Head(s) \in S /\ Tail(s) \in Seq(S) /\ Len(s) \in Nat \ {0} /\ Len(Tail(s)) = Len(s) - 1
      /\ \A n \in 1 .. Len(Tail(s)) : Tail(s)[n] = s[n + 1]
  BY HeadTailProperties, EmptySeq
<1>2. PICK h \in S : h = Head(s) /\ h = s[1]
  BY <1>1
<1>3. <<h>> \in Seq(S) /\ Len(<<h>>) = 1 /\ <<h>>[1] = h
  OBVIOUS
<1>4. s = <<h>> \o Tail(s)
  <2>1. /\ <<h>> \o Tail(s) \in Seq(S) /\ Len(<<h>> \o Tail(s)) = 1 + Len(Tail(s))
        /\ \A n \in 1 .. 1 + Len(Tail(s)) :
             (<<h>> \o Tail(s))[n] = IF n <= 1 THEN <<h>>[n] ELSE Tail(s)[n - 1]
    BY <1>1, <1>3, ConcatProperties
  <2>2. Len(<<h>> \o Tail(s)) = Len(s)
    BY <1>1, <2>1
  <2>3. ASSUME NEW n \in 1 .. Len(s) PROVE s[n] = (<<h>> \o Tail(s))[n]
    <3>1. CASE n = 1
      BY <1>1, <1>2, <1>3, <2>1, <3>1
    <3>2. CASE n # 1
      <4>1. n \in 1 .. 1 + Len(Tail(s)) /\ n - 1 \in 1 .. Len(Tail(s)) /\ ~(n <= 1) /\ n - 1 + 1 = n
        BY <1>1, <3>2
      <4> QED
        BY <1>1, <2>1, <4>1
    <3> QED
      BY <3>1, <3>2
  <2> QED
    BY <2>1, <2>2, <2>3, SeqEqual
<1>5. ASSUME Len(s) <= 1 PROVE s = <<h>>
  <2>1. Len(s) = 1 /\ Len(s) = Len(<<h>>)
    BY <1>1, <1>3, <1>5
  <2>2. \A n \in 1 .. Len(s) : s[n] = <<h>>[n]
    BY <1>2, <1>3, <2>1
  <2> QED
    BY <1>3, <2>1, <2>2, SeqEqual
<1> QED
  BY <1>1, <1>2, <1>3, <1>4, <1>5

(* What is appended to the last of three sequences is appended to all.     *)
LEMMA AppendLast ==
  ASSUME NEW a \in Seq(FaultAddrs), NEW b \in Seq(FaultAddrs),
         NEW c \in Seq(FaultAddrs), NEW x \in FaultAddrs
  PROVE  a \o b \o Append(c, x) = Append(a \o b \o c, x)
<1>1. a \o b \in Seq(FaultAddrs)
  BY ConcatProperties
<1>2. a \o b \o c \in Seq(FaultAddrs)
  BY <1>1, ConcatProperties
<1>3. <<x>> \in Seq(FaultAddrs)
  OBVIOUS
<1>4. Append(c, x) = c \o <<x>> /\ Append(a \o b \o c, x) = (a \o b \o c) \o <<x>>
  BY <1>2, AppendIsConcat
<1>5. (a \o b) \o (c \o <<x>>) = (a \o b \o c) \o <<x>>
  BY <1>1, <1>3, ConcatAssociative
<1> QED
  BY <1>4, <1>5

(* An element may be counted to the sequence before it or after it.        *)
LEMMA RegroupHead ==
  ASSUME NEW a \in Seq(FaultAddrs), NEW c \in Seq(FaultAddrs), NEW x \in FaultAddrs
  PROVE  a \o << >> \o (<<x>> \o c) = a \o <<x>> \o c
<1>1. <<x>> \in Seq(FaultAddrs)
  OBVIOUS
<1>2. a \o << >> = a
  BY ConcatEmptySeq
<1>3. a \o (<<x>> \o c) = a \o <<x>> \o c
  BY <1>1, ConcatAssociative
<1> QED
  BY <1>2, <1>3

LEMMA RegroupAppend ==
  ASSUME NEW a \in Seq(FaultAddrs), NEW c, NEW x \in FaultAddrs
  PROVE  Append(a, x) \o << >> \o c = a \o <<x>> \o c
<1>1. Append(a, x) = a \o <<x>>
  BY AppendIsConcat
<1>2. Append(a, x) \in Seq(FaultAddrs)
  BY AppendProperties
<1>3. Append(a, x) \o << >> = Append(a, x)
  BY <1>2, ConcatEmptySeq
<1> QED
  BY <1>1, <1>3

AddrsOf(r) == [n \in DOMAIN r |-> r[n].addr]

LEMMA AddrsType ==
  ASSUME NEW r \in Seq(Records)
  PROVE  /\ AddrsOf(r) \in Seq(FaultAddrs) /\ Len(AddrsOf(r)) = Len(r)
         /\ \A n \in 1 .. Len(r) : AddrsOf(r)[n] = r[n].addr
<1>1. Len(r) \in Nat /\ DOMAIN r = 1 .. Len(r) /\ \A n \in 1 .. Len(r) : r[n] \in Records
  BY LenProperties, ElementOfSeq
<1>2. AddrsOf(r) \in [1 .. Len(r) -> FaultAddrs]
  BY <1>1 DEF AddrsOf, Records
<1>3. DOMAIN AddrsOf(r) = 1 .. Len(r)
  BY <1>1 DEF AddrsOf
<1> QED
  BY <1>1, <1>2, <1>3 DEF AddrsOf

LEMMA AddrsAppend ==
  ASSUME NEW r \in Seq(Records), NEW x \in Records
  PROVE  AddrsOf(Append(r, x)) = Append(AddrsOf(r), x.addr)
<1>1. /\ Append(r, x) \in Seq(Records) /\ Len(Append(r, x)) = Len(r) + 1
      /\ \A n \in 1 .. Len(r) : Append(r, x)[n] = r[n]
      /\ Append(r, x)[Len(r) + 1] = x /\ x.addr \in FaultAddrs /\ Len(r) \in Nat
  BY AppendProperties, LenProperties DEF Records
<1>2. PICK u : u = AddrsOf(r)
  OBVIOUS
<1>3. PICK w : w = AddrsOf(Append(r, x))
  OBVIOUS
<1>4. /\ u \in Seq(FaultAddrs) /\ Len(u) = Len(r)
      /\ \A n \in 1 .. Len(r) : u[n] = r[n].addr
  BY <1>2, AddrsType
<1>5. /\ w \in Seq(FaultAddrs) /\ Len(w) = Len(r) + 1
      /\ \A n \in 1 .. Len(r) + 1 : w[n] = Append(r, x)[n].addr
  BY <1>1, <1>3, AddrsType
<1>6. /\ Append(u, x.addr) \in Seq(FaultAddrs) /\ Len(Append(u, x.addr)) = Len(r) + 1
      /\ \A n \in 1 .. Len(r) : Append(u, x.addr)[n] = u[n]
      /\ Append(u, x.addr)[Len(r) + 1] = x.addr
  BY <1>1, <1>4, AppendProperties
<1>7. \A n \in 1 .. Len(r) + 1 : n \in 1 .. Len(r) \/ n = Len(r) + 1
  BY <1>1
<1>8. \A n \in 1 .. Len(w) : w[n] = Append(u, x.addr)[n]
  BY <1>1, <1>4, <1>5, <1>6, <1>7
<1> QED
  BY <1>2, <1>3, <1>5, <1>6, <1>8, SeqEqual

Reported(r) == {r[n] : n \in DOMAIN r}

LEMMA ReportedAppend ==
  ASSUME NEW r \in Seq(Records), NEW x \in Records
  PROVE  Reported(Append(r, x)) = Reported(r) \cup {x}
<1>1. /\ Append(r, x) \in Seq(Records) /\ Len(Append(r, x)) = Len(r) + 1
      /\ \A n \in 1 .. Len(r) : Append(r, x)[n] = r[n]
      /\ Append(r, x)[Len(r) + 1] = x
  BY AppendProperties
<1>2. DOMAIN r = 1 .. Len(r) /\ DOMAIN Append(r, x) = 1 .. Len(r) + 1 /\ Len(r) \in Nat
  BY <1>1, LenProperties
<1>3. \A n \in 1 .. Len(r) + 1 : n \in 1 .. Len(r) \/ n = Len(r) + 1
  BY <1>2
<1>4. 1 .. Len(r) \subseteq 1 .. Len(r) + 1 /\ Len(r) + 1 \in 1 .. Len(r) + 1
  BY <1>2
<1> QED
  BY <1>1, <1>2, <1>3, <1>4 DEF Reported

-----------------------------------------------------------------------------
LoopInv == LoopType /\ ServedInOrder

LEMMA InitLoop == DaemonInit => LoopInv
<1> SUFFICES ASSUME DaemonInit PROVE LoopInv
  OBVIOUS
<1>1. pc = "recv" /\ rx = << >> /\ serving = << >> /\ reports = << >> /\ sent = << >> /\ script \in BOOLEAN
  BY DEF DaemonInit, Init
<1>3. LoopType
  <2>1. rx \in Seq(FaultAddrs) /\ serving \in Seq(FaultAddrs) /\ Len(serving) = 0
    BY <1>1, EmptySeq
  <2>2. reports \in Seq(Records)
    BY <1>1, EmptySeq
  <2> QED
    BY <1>1, <2>1, <2>2 DEF LoopType
<1>2. [n \in DOMAIN reports |-> reports[n].addr] = << >>
  BY <1>1
<1> QED
  BY <1>1, <1>2, <1>3 DEF LoopInv, ServedInOrder

(* A fault is dealt with: it goes from the one served to the reported.     *)
LEMMA ReportLoop ==
  ASSUME LoopInv, serving # << >>, NEW o \in Outcomes, Report(o),
         UNCHANGED <<rx, script, sent>>, pc' \notin Steps
  PROVE  /\ LoopInv'
         /\ Reported(reports') = Reported(reports) \cup {[addr |-> Head(serving), outcome |-> o]}
<1>1. PICK h : h = Head(serving)
  OBVIOUS
<1>2. h \in FaultAddrs /\ serving = <<h>> /\ [addr |-> h, outcome |-> o] \in Records
  BY <1>1, HeadFirst DEF LoopInv, LoopType, Records
<1>3. /\ reports' = Append(reports, [addr |-> h, outcome |-> o]) /\ serving' = << >>
      /\ reports \in Seq(Records) /\ rx \in Seq(FaultAddrs)
  BY <1>1 DEF Report, LoopInv, LoopType
<1>4. reports' \in Seq(Records)
  BY <1>2, <1>3, AppendProperties
<1>5. LoopType'
  BY <1>3, <1>4 DEF LoopInv, LoopType
<1>6. AddrsOf(reports') = Append(AddrsOf(reports), h) /\ AddrsOf(reports) \in Seq(FaultAddrs)
  BY <1>2, <1>3, AddrsAppend, AddrsType
<1>7. AddrsOf(reports') \o << >> \o rx = AddrsOf(reports) \o <<h>> \o rx
  <2>1. PICK a : a = AddrsOf(reports)
    OBVIOUS
  <2>2. a \in Seq(FaultAddrs) /\ rx \in Seq(FaultAddrs) /\ h \in FaultAddrs
    BY <1>2, <1>3, <1>6, <2>1
  <2>3. Append(a, h) \o << >> \o rx = a \o <<h>> \o rx
    BY ONLY <2>2, RegroupAppend
  <2> QED
    BY <1>6, <2>1, <2>3
<1>8. ServedInOrder'
  BY <1>2, <1>3, <1>7 DEF LoopInv, ServedInOrder, AddrsOf
<1> QED
  BY <1>1, <1>2, <1>3, <1>5, <1>8, ReportedAppend DEF LoopInv

LEMMA StepOfCall == Step => pc \in Steps /\ pc' \in Steps \cup {"recv"} /\ UNCHANGED fault_addr
<1> USE DEF Try, Goto, Return, caller
<1>1. CASE AttachTarget \/ WaitStop \/ GetRegs \/ WriteSyscall
  BY <1>1 DEF AttachTarget, WaitStop, GetRegs, WriteSyscall
<1>2. CASE SetCallRegs \/ StepTarget \/ WaitStep \/ GetAllocated
  BY <1>2 DEF SetCallRegs, StepTarget, WaitStep, GetAllocated
<1>3. CASE WriteOriginal \/ WritePatch \/ WriteJmp
  BY <1>3 DEF WriteOriginal, WritePatch, WriteJmp
<1>4. CASE RestoreRegs \/ DetachTarget
  BY <1>4 DEF RestoreRegs, DetachTarget
<1> QED
  BY <1>1, <1>2, <1>3, <1>4 DEF Step

LEMMA SendLoop == LoopInv /\ Send => LoopInv'
<1> SUFFICES ASSUME LoopInv, Send PROVE LoopInv'
  OBVIOUS
<1>1. PICK a \in FaultAddrs : rx' = Append(rx, a) /\ sent' = Append(sent, a)
  BY DEF Send
<1>2. UNCHANGED <<pc, fault_addr, script, serving, reports>>
  BY DEF Send, vars, caller
<1>3. LoopType'
  BY <1>1, <1>2, AppendProperties DEF LoopInv, LoopType
<1>4. AddrsOf(reports) \o serving \o Append(rx, a) = Append(AddrsOf(reports) \o serving \o rx, a)
  <2>1. PICK p : p = AddrsOf(reports)
    OBVIOUS
  <2>2. /\ p \in Seq(FaultAddrs) /\ serving \in Seq(FaultAddrs)
        /\ rx \in Seq(FaultAddrs) /\ a \in FaultAddrs
    BY <2>1, AddrsType DEF LoopInv, LoopType
  <2>3. p \o serving \o Append(rx, a) = Append(p \o serving \o rx, a)
    BY ONLY <2>2, AppendLast
  <2> QED
    BY <2>1, <2>3
<1> QED
  BY <1>1, <1>2, <1>3, <1>4 DEF LoopInv, ServedInOrder, AddrsOf

LEMMA ReceiveLoop ==
  ASSUME LoopInv, Receive
  PROVE  /\ LoopInv'
         /\ \E R : Reported(reports') = Reported(reports) \cup R
                   /\ \A r \in R : r.outcome # "completed"
<1>1. PICK h : h = Head(rx)
  OBVIOUS
<1>2. PICK t : t = Tail(rx)
  OBVIOUS
<1>3. /\ h \in FaultAddrs /\ t \in Seq(FaultAddrs) /\ rx = <<h>> \o t
      /\ <<h>> \in Seq(FaultAddrs) /\ Len(<<h>>) = 1
  BY <1>1, <1>2, HeadFirst DEF Receive, LoopInv, LoopType
<1>4. /\ rx' = t /\ serving = << >> /\ pc = "recv"
      /\ UNCHANGED <<pc, fault_addr, script, sent>>
  BY <1>2 DEF Receive, vars, caller
<1>5. CASE serving' = <<h>> /\ UNCHANGED reports
  <2>1. LoopType'
    BY <1>3, <1>4, <1>5 DEF LoopInv, LoopType
  <2>2. AddrsOf(reports) \o << >> \o (<<h>> \o t) = AddrsOf(reports) \o <<h>> \o t
    <3>1. PICK a : a = AddrsOf(reports)
      OBVIOUS
    <3>2. a \in Seq(FaultAddrs) /\ t \in Seq(FaultAddrs) /\ h \in FaultAddrs
      BY <1>3, <3>1, AddrsType DEF LoopInv, LoopType
    <3>3. a \o << >> \o (<<h>> \o t) = a \o <<h>> \o t
      BY ONLY <3>2, RegroupHead
    <3> QED
      BY <3>1, <3>3
  <2>3. ServedInOrder'
    BY <1>3, <1>4, <1>5, <2>2 DEF LoopInv, ServedInOrder, AddrsOf
  <2>4. PICK R : R = {}
    OBVIOUS
  <2>5. Reported(reports') = Reported(reports) \cup R /\ \A r \in R : r.outcome # "completed"
    BY <1>5, <2>4
  <2> QED
    BY <2>1, <2>3, <2>5 DEF LoopInv
<1>6. CASE UNCHANGED serving /\ reports' = Append(reports, [addr |-> h, outcome |-> "simulated"])
  <2>1. [addr |-> h, outcome |-> "simulated"] \in Records /\ reports \in Seq(Records)
    BY <1>3 DEF Records, Outcomes, LoopInv, LoopType
  <2>2. LoopType'
    BY <1>3, <1>4, <1>6, <2>1, AppendProperties DEF LoopInv, LoopType
  <2>3. AddrsOf(reports') = Append(AddrsOf(reports), h) /\ AddrsOf(reports) \in Seq(FaultAddrs)
    BY <1>6, <2>1, AddrsAppend, AddrsType
  <2>4. /\ Append(AddrsOf(reports), h) \o << >> \o t = AddrsOf(reports) \o <<h>> \o t
        /\ AddrsOf(reports) \o << >> \o (<<h>> \o t) = AddrsOf(reports) \o <<h>> \o t
    <3>1. PICK a : a = AddrsOf(reports)
      OBVIOUS
    <3>2. a \in Seq(FaultAddrs) /\ t \in Seq(FaultAddrs) /\ h \in FaultAddrs
      BY <1>3, <2>3, <3>1
    <3>3. Append(a, h) \o << >> \o t = a \o <<h>> \o t
      BY ONLY <3>2, RegroupAppend
    <3>4. a \o << >> \o (<<h>> \o t) = a \o <<h>> \o t
      BY ONLY <3>2, RegroupHead
    <3> QED
      BY <3>1, <3>3, <3>4
  <2>5. ServedInOrder'
    BY <1>3, <1>4, <1>6, <2>3, <2>4 DEF LoopInv, ServedInOrder, AddrsOf
  <2>6. PICK R : R = {[addr |-> h, outcome |-> "simulated"]}
    OBVIOUS
  <2>7. Reported(reports') = Reported(reports) \cup R
    BY <1>6, <2>1, <2>6, ReportedAppend
  <2>8. \A r \in R : r.outcome # "completed"
    BY <2>6
  <2> QED
    BY <2>2, <2>5, <2>7, <2>8 DEF LoopInv
<1> QED
  BY <1>1, <1>5, <1>6 DEF Receive

(* The engine succeeds and the call is for the fault being served, or it   *)
(* does not and the fault is dealt with.                                   *)
LEMMA EngineLoop == LoopInv /\ EngineEnds => LoopInv'
<1> SUFFICES ASSUME LoopInv, EngineEnds PROVE LoopInv'
  OBVIOUS
<1>1. UNCHANGED <<rx, script, sent>> /\ pc = "recv" /\ serving # << >>
  BY DEF EngineEnds
<1>2. CASE Call /\ fault_addr' = Head(serving) /\ UNCHANGED <<serving, reports>>
  <2>1. serving = <<fault_addr'>>
    BY <1>1, <1>2, HeadFirst DEF LoopInv, LoopType
  <2> QED
    BY <1>1, <1>2, <2>1 DEF LoopInv, LoopType, ServedInOrder
<1>3. ASSUME NEW o \in {"crashed", "simulated"}, Report(o), UNCHANGED vars PROVE LoopInv'
  <2>1. o \in Outcomes /\ pc' = "recv"
    BY <1>1, <1>3 DEF Outcomes, vars
  <2> QED
    BY <1>1, <1>3, <2>1, ReportLoop
<1> QED
  BY <1>2, <1>3 DEF EngineEnds

LEMMA SwapLoop ==
  ASSUME LoopInv, HotSwap
  PROVE  /\ LoopInv'
         /\ \/ pc' # "recv" /\ UNCHANGED reports
            \/ \E o \in {"completed", "failed"} :
                 /\ pc' = "recv" /\ (o = "completed" <=> result' = "ok")
                 /\ Reported(reports') = Reported(reports) \cup {[addr |-> fault_addr, outcome |-> o]}
<1>1. /\ pc \in Steps /\ pc' \in Steps \cup {"recv"} /\ UNCHANGED <<rx, script, sent, fault_addr>>
  BY StepOfCall DEF HotSwap
<1>2. PICK x : x = fault_addr
  OBVIOUS
<1>3. serving = <<x>> /\ Head(serving) = x /\ serving # << >>
  BY <1>1, <1>2 DEF LoopInv, LoopType
<1>4. CASE pc' = "recv"
  <2>1. PICK o : o = IF result' = "ok" THEN "completed" ELSE "failed"
    OBVIOUS
  <2>2. Report(o) /\ o \in Outcomes /\ pc' \notin Steps
    BY <1>4, <2>1 DEF HotSwap, Outcomes
  <2>3. /\ LoopInv'
        /\ Reported(reports') = Reported(reports) \cup {[addr |-> x, outcome |-> o]}
    BY <1>1, <1>3, <2>2, ReportLoop
  <2> QED
    BY <1>2, <1>4, <2>1, <2>3
<1>5. CASE pc' # "recv"
  <2>1. UNCHANGED <<serving, reports>>
    BY <1>5 DEF HotSwap
  <2> QED
    BY <1>1, <1>5, <2>1 DEF LoopInv, LoopType, ServedInOrder
<1> QED
  BY <1>4, <1>5

LEMMA LoopInvStep == LoopInv /\ [DaemonNext]_dvars => LoopInv'
<1>1. ASSUME LoopInv, UNCHANGED loop, pc' \in Steps => pc \in Steps /\ UNCHANGED fault_addr
      PROVE  LoopInv'
  BY <1>1 DEF loop, LoopInv, LoopType, ServedInOrder
<1>2. DaemonExits => pc' \notin Steps
  BY DEF DaemonExits, Goto
<1>3. TargetStep => UNCHANGED <<pc, fault_addr>>
  BY DEF TargetStep, Kept, caller
<1>4. UNCHANGED dvars => UNCHANGED loop /\ UNCHANGED <<pc, fault_addr>>
  BY DEF dvars, vars, caller
<1> QED
  BY <1>1, <1>2, <1>3, <1>4, SendLoop, ReceiveLoop, EngineLoop, SwapLoop DEF DaemonNext

LEMMA AlwaysLoop == DaemonSpec => []LoopInv
BY InitLoop, LoopInvStep, PTL DEF DaemonSpec

(* What is in the channel, served or reported keeps its type, and a step   *)
(* of hot_swap_patch is for the fault the daemon has taken.                *)
THEOREM LoopTypeCorrect == DaemonSpec => []DaemonTypeOK
<1>1. TypeOK /\ LoopInv => DaemonTypeOK
  BY DEF LoopInv, LoopType, DaemonTypeOK, Records
<1> QED
  BY <1>1, LoopCalls, TypeCorrect, AlwaysLoop, PTL

(* No fault is lost, served twice or served out of turn, however many come *)
(* and whatever becomes of the calls.                                      *)
THEOREM InOrder == DaemonSpec => []ServedInOrder
<1>1. LoopInv => ServedInOrder
  BY DEF LoopInv
<1> QED
  BY <1>1, AlwaysLoop, PTL

(* What holds of any calls of hot_swap_patch holds of those the daemon     *)
(* makes.                                                                  *)
THEOREM HealedRunsItself ==
  ASSUME Layout PROVE DaemonSpec => [](RunsItself /\ OneWordLeft /\ RedirectionsWhole)
BY LoopCalls, OnlyItself, OneWordBorrowed, LeadToPatches, PTL

-----------------------------------------------------------------------------
(* What is printed and what was done. Between the write of the JMP and the *)
(* return a function is redirected and not yet reported; a call that fails *)
(* there has lost its target.                                              *)
Healed(f) == [addr |-> f, outcome |-> "completed"] \in Reported(reports)
Ending    == {"restore_regs", "detach"}

MatchInv ==
  Live =>
    /\ \A f \in FaultAddrs :
         installed[f] # 0 <=> Healed(f) \/ (pc \in Ending /\ f = fault_addr)
    /\ pc = "recv" /\ result = "ok" => ~traced

LEMMA SwapEffect ==
  ASSUME CallInv, 0 \notin Pages, Step, Live'
  PROVE  /\ Live /\ UNCHANGED fault_addr
         /\ \/ /\ pc \notin Ending /\ pc' = "restore_regs"
               /\ \A f \in FaultAddrs : installed'[f] # 0 <=> installed[f] # 0 \/ f = fault_addr
            \/ pc = "restore_regs" /\ pc' = "detach" /\ UNCHANGED installed
            \/ pc = "detach" /\ pc' = "recv" /\ result' = "ok" /\ ~traced' /\ UNCHANGED installed
            \/ /\ pc \notin Ending /\ pc' \notin Ending /\ UNCHANGED installed
               /\ pc' = "recv" => result' = "err"
<1>1. UNCHANGED fault_addr
  BY StepOfCall
<1> USE <1>1 DEF Try, Goto, Return, Live, Alive, Ending
<1>2. CASE AttachTarget \/ WaitStop \/ StepTarget \/ WaitStep
  BY <1>2 DEF AttachTarget, WaitStop, StepTarget, WaitStep, Attach, AttachFails, SingleStep,
              RequestFails, UnknownStop, Held, tracee
<1>3. CASE GetRegs \/ SetCallRegs \/ GetAllocated
  BY <1>3 DEF GetRegs, SetCallRegs, GetAllocated, SetRegs, RequestFails, Held, tracee
<1>4. CASE WriteSyscall \/ WriteOriginal \/ WritePatch
  BY <1>4 DEF WriteSyscall, WriteOriginal, WritePatch, Poke, PeekFails, PokeFails,
              Refused, Torn, tracee
<1>5. CASE WriteJmp
  <2>1. CASE WriteJmpFails /\ UNCHANGED installed /\ pc' = "recv" /\ result' = "err"
    BY <1>5, <2>1 DEF WriteJmp, WriteJmpFails, PeekFails, PokeFails, Refused, Torn, tracee
  <2>2. CASE /\ Poke(fault_addr, JmpWord(Word(fault_addr))) /\ pc' = "restore_regs"
             /\ installed' = [installed EXCEPT ![fault_addr] = allocated_addr]
    <3>1. pc = "write_patch" /\ i >= PatchSize /\ run = "ptrace-stop"
      BY <1>5, <2>2 DEF WriteJmp, Poke, CanPeek, Held
    <3>2. allocated_addr \in mapped
      BY <3>1 DEF CallInv, PageInv, PatchSize
    <3>3. allocated_addr # 0 /\ installed \in [FaultAddrs -> {0} \cup Pages]
      BY <3>2 DEF CallInv, TypeOK, TraceeTypeOK
    <3>4. \A f \in FaultAddrs : installed'[f] # 0 <=> installed[f] # 0 \/ f = fault_addr
      BY <2>2, <3>3
    <3> QED
      BY <2>2, <3>1, <3>4
  <2> QED
    BY <1>5, <2>1, <2>2 DEF WriteJmp, Installs
<1>6. CASE RestoreRegs
  BY <1>6 DEF RestoreRegs, SetRegs, RequestFails, Held, tracee, CallInv, RunInv, Called
<1>7. CASE DetachTarget
  BY <1>7 DEF DetachTarget, Detach, RequestFails, Held, tracee, CallInv, RunInv, Called
<1> QED
  BY <1>2, <1>3, <1>4, <1>5, <1>6, <1>7 DEF Step

LEMMA InitMatch == DaemonInit => MatchInv
BY DEF DaemonInit, Init, MatchInv, Healed, Reported, Ending

LEMMA SwapMatch ==
  ASSUME CallInv, LoopInv, MatchInv, 0 \notin Pages, HotSwap, Live'
  PROVE  MatchInv'
<1>1. /\ UNCHANGED fault_addr /\ fault_addr \in FaultAddrs
      /\ \A f \in FaultAddrs :
           installed[f] # 0 <=> Healed(f) \/ (pc \in Ending /\ f = fault_addr)
  BY SwapEffect, StepOfCall DEF HotSwap, MatchInv, CallInv, FaultKnown
<1>2. CASE pc' # "recv" /\ UNCHANGED reports
  <2>1. \A f \in FaultAddrs : Healed(f)' <=> Healed(f)
    BY <1>2 DEF Healed
  <2> QED
    BY <1>1, <1>2, <2>1, SwapEffect DEF HotSwap, MatchInv, Ending
<1>3. ASSUME NEW o \in {"completed", "failed"}, pc' = "recv", o = "completed" <=> result' = "ok",
             Reported(reports') = Reported(reports) \cup {[addr |-> fault_addr, outcome |-> o]}
      PROVE  MatchInv'
  <2>1. \A f \in FaultAddrs : Healed(f)' <=> Healed(f) \/ (o = "completed" /\ f = fault_addr)
    BY <1>1, <1>3 DEF Healed
  <2>2. \/ pc = "detach" /\ result' = "ok" /\ ~traced' /\ UNCHANGED installed
        \/ pc \notin Ending /\ result' = "err" /\ UNCHANGED installed
    BY <1>3, SwapEffect DEF HotSwap, Ending
  <2>3. pc' \notin Ending /\ (pc = "detach" => pc \in Ending)
    BY <1>3 DEF Ending
  <2> QED
    BY <1>1, <1>3, <2>1, <2>2, <2>3 DEF MatchInv
<1> QED
  BY <1>2, <1>3, SwapLoop

LEMMA MatchStep ==
  ASSUME CallInv, LoopInv, MatchInv, 0 \notin Pages, [DaemonNext]_dvars
  PROVE  MatchInv'
<1> SUFFICES ASSUME Live' PROVE MatchInv'
  BY DEF MatchInv
<1>1. ASSUME UNCHANGED vars, NEW R, Reported(reports') = Reported(reports) \cup R,
             \A r \in R : r.outcome # "completed"
      PROVE  MatchInv'
  <2>1. \A f \in FaultAddrs : Healed(f)' <=> Healed(f)
    BY <1>1 DEF Healed
  <2>2. UNCHANGED <<pc, run, traced, fault_addr, result, installed>>
    BY <1>1 DEF vars, caller, tracee
  <2> QED
    BY <2>1, <2>2 DEF MatchInv, Live, Alive
<1>2. ASSUME UNCHANGED vars, UNCHANGED reports PROVE MatchInv'
  <2>1. PICK R : R = {}
    OBVIOUS
  <2> QED
    BY <1>1, <1>2, <2>1
<1>3. CASE Send
  BY <1>2, <1>3 DEF Send
<1>4. CASE Receive
  <2>1. UNCHANGED vars
    BY <1>4 DEF Receive
  <2> QED
    BY <1>1, <1>4, <2>1, ReceiveLoop
<1>5. CASE EngineEnds
  <2>1. CASE Call /\ UNCHANGED reports
    <3>1. \A f \in FaultAddrs : Healed(f)' <=> Healed(f)
      BY <2>1 DEF Healed
    <3>2. pc = "recv" /\ pc' = "attach" /\ UNCHANGED <<run, installed>>
      BY <2>1 DEF Call, tracee
    <3> QED
      BY <3>1, <3>2 DEF MatchInv, Live, Alive, Ending
  <2>2. ASSUME NEW o \in {"crashed", "simulated"}, Report(o), UNCHANGED vars PROVE MatchInv'
    <3>1. UNCHANGED <<rx, script, sent>> /\ serving # << >> /\ pc' \notin Steps /\ o \in Outcomes
      BY <1>5, <2>2 DEF EngineEnds, vars, Outcomes
    <3>2. PICK R : R = {[addr |-> Head(serving), outcome |-> o]}
      OBVIOUS
    <3>3. Reported(reports') = Reported(reports) \cup R
      BY <2>2, <3>1, <3>2, ReportLoop
    <3>4. \A r \in R : r.outcome # "completed"
      BY <3>2
    <3> QED
      BY <1>1, <2>2, <3>3, <3>4
  <2> QED
    BY <1>5, <2>1, <2>2 DEF EngineEnds
<1>6. CASE HotSwap
  BY <1>6, SwapMatch
<1>7. CASE DaemonExits /\ UNCHANGED loop
  BY <1>7 DEF DaemonExits, Goto, Live
<1>8. CASE TargetStep /\ UNCHANGED loop
  <2>1. UNCHANGED <<pc, fault_addr, result, installed, reports>>
    BY <1>8 DEF TargetStep, Kept, caller, loop
  <2>2. UNCHANGED traced /\ (Alive' => Alive)
    BY <1>8 DEF TargetStep, TraceeStep, SignalArrives, SignalStop, SignalHandled,
                SyscallReturns, Killed, Executes, Alive
  <2>3. \A f \in FaultAddrs : Healed(f)' <=> Healed(f)
    BY <2>1 DEF Healed
  <2> QED
    BY <2>1, <2>2, <2>3 DEF MatchInv, Live
<1>9. CASE UNCHANGED dvars
  BY <1>2, <1>9 DEF dvars, loop
<1> QED
  BY <1>3, <1>4, <1>5, <1>6, <1>7, <1>8, <1>9 DEF DaemonNext

(* If mmap never returns address 0, the functions of a living target into  *)
(* which a call has written its JMP are those reported as healed, after    *)
(* any number of faults: a call, an engine or a script that failed adds    *)
(* none.                                                                   *)
THEOREM ReportsMatch ==
  ASSUME 0 \notin Pages PROVE DaemonSpec => []ReportsTrue
<1>1. ASSUME LoopInv, MatchInv PROVE ReportsTrue
  <2>1. \A f : Healed(f) <=> [addr |-> f, outcome |-> "completed"] \in
                               {reports[n] : n \in DOMAIN reports}
    BY DEF Healed, Reported
  <2> QED
    BY <1>1, <2>1 DEF MatchInv, ReportsTrue, Live, Ending
<1>2. DaemonInit => CallInv /\ LoopInv /\ MatchInv
  BY InitCall, InitLoop, InitMatch DEF DaemonInit
<1>3. CallInv /\ LoopInv /\ MatchInv /\ [DaemonNext]_dvars => (CallInv /\ LoopInv /\ MatchInv)'
  BY CallStep, LoopStep, LoopInvStep, MatchStep
<1> QED
  BY <1>1, <1>2, <1>3, PTL DEF DaemonSpec
=============================================================================
