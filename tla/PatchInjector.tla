--------------------------- MODULE PatchInjector ----------------------------
(***************************************************************************)
(* inject_patch of hotswap/patch_injector.c, on Linux and x86-64: attach,  *)
(* make the target call mmap, write the patch into the page it got, write  *)
(* a JMP to it over the entry of the faulty function, let the target go.   *)
(* One action per ptrace request or waitpid, since the target can be       *)
(* killed and signalled between any two of them. A PEEK changes nothing    *)
(* and is taken with the POKE that follows it. Whether it has failed is    *)
(* not looked at: the POKE then writes the bytes that are mapped, the ones *)
(* to be preserved as those of -1, and fails.                              *)
(***************************************************************************)
EXTENDS Tracee, JmpRel32

CONSTANTS
  FaultAddrs,   (* The addresses the injector may be asked to redirect.     *)
  PatchSizes    (* The lengths of the patches it may be given.              *)

ASSUME ContextAssumption ==
  /\ FaultAddrs \subseteq Nat /\ PatchSizes \subseteq Nat
  /\ \A f \in FaultAddrs, p \in Pages : WordAt(f) \cap PageAt(p) = {}

(* The length asked of mmap is the patch's, rounded up to whole pages.     *)
ASSUME LengthAssumption ==
  PageLen % WordSize = 0 /\ \A n \in PatchSizes : n <= PageLen

VARIABLES
  ctx,          (* The HotSwapContext: fault_addr and patch_size.           *)
  pc,           (* The request that comes next.                             *)
  saved_regs, saved_text, remote_addr,
  i             (* How far the patch has been written.                      *)

locals == <<saved_regs, saved_text, remote_addr, i>>
vars   == <<tracee, ctx, pc, locals>>

Labels == {"attach", "wait_stop", "get_regs", "poke_syscall", "set_regs",
           "single_step", "wait_step", "get_return", "restore_text",
           "write_patch", "restore_regs", "detach", "success",
           "undo_text", "undo_regs", "give_up", "failure", "killed"}

TypeOK ==
  /\ TraceeTypeOK
  /\ ctx \in [fault_addr : FaultAddrs, patch_size : PatchSizes]
  /\ pc \in Labels
  /\ saved_regs \in Registers
  /\ saved_text \in [0 .. WordSize - 1 -> Byte]
  /\ remote_addr \in Int /\ i \in Nat

Init ==
  /\ TraceeInit
  /\ ctx \in [fault_addr : FaultAddrs, patch_size : PatchSizes]
  /\ pc = "attach"
  /\ saved_regs = [ip |-> 0, ret |-> 0]
  /\ saved_text = [k \in 0 .. WordSize - 1 |-> Zero]
  /\ remote_addr = 0 /\ i = 0

Goto(label) == pc' = label /\ UNCHANGED ctx

-----------------------------------------------------------------------------
(* Step 1: attach and wait for the stop. The status of the wait is not     *)
(* looked at.                                                              *)

AttachTarget ==
  /\ pc = "attach"
  /\ \/ Attach /\ Goto("wait_stop")
     \/ AttachFails /\ Goto("failure")
  /\ UNCHANGED locals

WaitStop ==
  /\ pc = "wait_stop" /\ WaitReturns
  /\ Goto("get_regs")
  /\ UNCHANGED <<tracee, locals>>

(* Step 2.                                                                 *)
GetRegs ==
  /\ pc = "get_regs"
  /\ UNCHANGED tracee
  /\ \/ Held /\ saved_regs' = regs /\ Goto("poke_syscall")
     \/ ~Held /\ saved_regs' = saved_regs /\ Goto("give_up")
  /\ UNCHANGED <<saved_text, remote_addr, i>>

(* Step 3: put a syscall instruction where the target is about to run, the *)
(* arguments of mmap into its registers, and let it take one step.         *)

SyscallWord(w) == [k \in 0 .. WordSize - 1 |-> IF k < SyscallLen THEN Syscall(k) ELSE w[k]]

PokeSyscall ==
  /\ pc = "poke_syscall"
  /\ saved_text' = Peeked(saved_regs.ip)
  /\ \/ Poke(saved_regs.ip, SyscallWord(saved_text')) /\ Goto("set_regs")
     \/ PokeFails(saved_regs.ip, SyscallWord(saved_text')) /\ Goto("give_up")
  /\ UNCHANGED <<saved_regs, remote_addr, i>>

SetCallRegs ==
  /\ pc = "set_regs"
  /\ \/ SetRegs([saved_regs EXCEPT !.ret = SysNo]) /\ Goto("single_step")
     \/ RequestFails /\ Goto("undo_text")
  /\ UNCHANGED locals

StepTarget ==
  /\ pc = "single_step"
  /\ \/ SingleStep /\ Goto("wait_step")
     \/ RequestFails /\ Goto("undo_text")
  /\ UNCHANGED locals

(* Mutated: the second waitpid is forgotten.                               *)
WaitStepForgotten ==
  /\ pc = "wait_step"
  /\ Goto("get_return")
  /\ UNCHANGED <<tracee, locals>>

WaitStep ==
  /\ pc = "wait_step" /\ WaitReturns
  /\ Goto("get_return")
  /\ UNCHANGED <<tracee, locals>>

(* Mutated: a negative result is not refused.                              *)
GetReturnUnchecked ==
  /\ pc = "get_return"
  /\ UNCHANGED tracee
  /\ \/ Held /\ remote_addr' = regs.ret
     \/ ~Held /\ remote_addr' = remote_addr
  /\ Goto(IF Held THEN "restore_text" ELSE "undo_text")
  /\ UNCHANGED <<saved_regs, saved_text, i>>

(* Whatever the return register holds is taken for the address of the page *)
(* unless it is negative.                                                  *)
GetReturn ==
  /\ pc = "get_return"
  /\ UNCHANGED tracee
  /\ \/ Held /\ remote_addr' = regs.ret
     \/ ~Held /\ remote_addr' = remote_addr
  /\ Goto(IF Held /\ remote_addr' >= 0 THEN "restore_text" ELSE "undo_text")
  /\ UNCHANGED <<saved_regs, saved_text, i>>

(* Step 4.                                                                 *)
RestoreText ==
  /\ pc = "restore_text"
  /\ \/ Poke(saved_regs.ip, saved_text) /\ Goto("write_patch")
     \/ PokeFails(saved_regs.ip, saved_text) /\ Goto("undo_text")
  /\ UNCHANGED locals

(* Step 5: the patch, word by word, the last one filled with zeros.        *)

PatchWord(n) ==
  [k \in 0 .. WordSize - 1 |-> IF n + k < ctx.patch_size THEN Patch(n + k) ELSE Zero]

(* Mutated: only whole words are written.                                  *)
WrittenWholeWords == i + WordSize > ctx.patch_size

Written == i >= ctx.patch_size

(* Mutated: a failed POKE is passed over.                                  *)
WritePatchUnchecked ==
  /\ pc = "write_patch" /\ ~Written
  /\ Poke(remote_addr + i, PatchWord(i)) \/ PokeFails(remote_addr + i, PatchWord(i))
  /\ i' = i + WordSize /\ Goto("write_patch")
  /\ UNCHANGED <<saved_regs, saved_text, remote_addr>>

(* Mutated: the loop counts down.                                          *)
WritePatchDown ==
  /\ pc = "write_patch" /\ ~Written
  /\ \/ /\ Poke(remote_addr + i, PatchWord(i))
        /\ i' = i - WordSize /\ Goto("write_patch")
     \/ /\ PokeFails(remote_addr + i, PatchWord(i))
        /\ i' = i /\ Goto("undo_text")
  /\ UNCHANGED <<saved_regs, saved_text, remote_addr>>

WritePatch ==
  /\ pc = "write_patch" /\ ~Written
  /\ \/ /\ Poke(remote_addr + i, PatchWord(i))
        /\ i' = i + WordSize /\ Goto("write_patch")
     \/ /\ PokeFails(remote_addr + i, PatchWord(i))
        /\ i' = i /\ Goto("undo_text")
  /\ UNCHANGED <<saved_regs, saved_text, remote_addr>>

(* Step 6: the JMP, in one word with the three bytes that follow it.       *)

(* Mutated: the rest of the word is not preserved.                         *)
JmpWordAlone(w) ==
  [k \in 0 .. WordSize - 1 |->
     IF k < JmpLen THEN Jmp(k, Displacement(ctx.fault_addr, remote_addr)) ELSE Zero]

JmpWord(w) ==
  [k \in 0 .. WordSize - 1 |->
     IF k < JmpLen THEN Jmp(k, Displacement(ctx.fault_addr, remote_addr)) ELSE w[k]]

PokeJmp ==
  /\ pc = "write_patch" /\ Written
  /\ LET word == JmpWord(Peeked(ctx.fault_addr)) IN
       \/ Poke(ctx.fault_addr, word) /\ Goto("restore_regs")
       \/ PokeFails(ctx.fault_addr, word) /\ Goto("undo_text")
  /\ UNCHANGED locals

(* Step 7: a failure to restore the registers is reported and ignored.     *)
RestoreRegs ==
  /\ pc = "restore_regs"
  /\ SetRegs(saved_regs) \/ RequestFails
  /\ Goto("detach")
  /\ UNCHANGED locals

DetachTarget ==
  /\ pc = "detach"
  /\ Detach \/ RequestFails
  /\ Goto("success")
  /\ UNCHANGED locals

-----------------------------------------------------------------------------
(* restore_and_fail, where no result is looked at, and the early returns   *)
(* that only detach.                                                       *)

(* Mutated: the registers are not restored.                                *)
UndoTextOnly ==
  /\ pc = "undo_text"
  /\ Poke(saved_regs.ip, saved_text) \/ PokeFails(saved_regs.ip, saved_text)
  /\ Goto("give_up")
  /\ UNCHANGED locals

UndoText ==
  /\ pc = "undo_text"
  /\ Poke(saved_regs.ip, saved_text) \/ PokeFails(saved_regs.ip, saved_text)
  /\ Goto("undo_regs")
  /\ UNCHANGED locals

UndoRegs ==
  /\ pc = "undo_regs"
  /\ SetRegs(saved_regs) \/ RequestFails
  /\ Goto("give_up")
  /\ UNCHANGED locals

(* Mutated: a failing return without PTRACE_DETACH.                        *)
GiveUpAttached ==
  /\ pc = "give_up"
  /\ Goto("failure")
  /\ UNCHANGED <<tracee, locals>>

GiveUp ==
  /\ pc = "give_up"
  /\ Detach \/ RequestFails
  /\ Goto("failure")
  /\ UNCHANGED locals

(* The injector is killed: by a user, or for want of memory.               *)
InjectorKilled ==
  /\ Faults /\ pc \notin {"success", "failure", "killed"}
  /\ TracerExits
  /\ Goto("killed")
  /\ UNCHANGED locals

Inject ==
  \/ AttachTarget \/ WaitStop \/ GetRegs
  \/ PokeSyscall \/ SetCallRegs \/ StepTarget \/ WaitStep \/ GetReturn
  \/ RestoreText \/ WritePatch \/ PokeJmp \/ RestoreRegs \/ DetachTarget
  \/ UndoText \/ UndoRegs \/ GiveUp

TargetStep == TraceeStep(ctx.patch_size) /\ UNCHANGED <<ctx, pc, locals>>

Next == Inject \/ InjectorKilled \/ TargetStep

(* The injector is a running process, and Linux runs a resumed tracee.     *)
Fairness ==
  /\ WF_vars(Inject)
  /\ WF_vars(SignalStop /\ UNCHANGED <<ctx, pc, locals>>)
  /\ WF_vars(SyscallReturns(ctx.patch_size) /\ UNCHANGED <<ctx, pc, locals>>)

Spec     == Init /\ [][Next]_vars
FairSpec == Spec /\ Fairness

-----------------------------------------------------------------------------
(* Properties.                                                             *)

Returned == pc \in {"success", "failure"}

Untouched(a) == mem[a] = Own(a)

(* The entry of the faulty function is a whole JMP.                        *)
Hooked ==
  \A k \in 0 .. JmpLen - 1 :
    /\ ctx.fault_addr + k \in Text
    /\ mem[ctx.fault_addr + k] = Jmp(k, Displacement(ctx.fault_addr, remote_addr))

PatchWritten ==
  \A n \in 0 .. ctx.patch_size - 1 :
    remote_addr + n \in Memory /\ mem[remote_addr + n] = Patch(n)

EntryBytes == ctx.fault_addr .. ctx.fault_addr + JmpLen - 1

(* However inject_patch returns, the process it leaves behind has its own  *)
(* registers, and its own code but for the five bytes of the JMP; after a  *)
(* failure not even those, after a success all five (lines 192-205). One   *)
(* failure is not undone: that of a POKE across the end of a page, at the  *)
(* instruction pointer or at the faulty function, leaves in the code what  *)
(* it has written in front of that end (lines 91 and 187).                 *)
AllOrNothing ==
  Returned /\ Alive =>
    /\ regs = ownRegs
    /\ pc = "failure" =>
         /\ \A a \in Text \ torn : Untouched(a)
         /\ torn \in {{}, Split(ownRegs.ip), Split(ctx.fault_addr)}
    /\ pc = "success" => Hooked /\ \A a \in Text \ EntryBytes : Untouched(a)

(* No byte of the JMP is in the target's code before the whole patch is in *)
(* the page it leads to: steps 5 and 6 never swap or overlap; and the JMP  *)
(* is whole, unless the end of a page has cut off its word.                *)
JmpAfterPatch ==
  (\E a \in Text : mem[a][1] = "jmp") =>
    PatchWritten /\ (Hooked \/ torn = Split(ctx.fault_addr))

(* A success is a success of mmap in the target: the address redirected to *)
(* is a page, although the code takes it from a register after a wait      *)
(* whose status it does not look at (lines 130-151).                       *)
SuccessUsesPage == pc = "success" => remote_addr \in mapped

(* A target that was hot-swapped runs on: neither its own job stop nor the *)
(* SIGSTOP of PTRACE_ATTACH is left to stop it again.                      *)
SuccessResumes ==
  pc = "success" /\ Alive => ~groupStop /\ SIGSTOP \notin pending

(* After a success the JMP leads to the patch whenever the distance fits.  *)
JumpLands == LandsAt(ctx.fault_addr, mem[ctx.fault_addr][3]) = remote_addr

JumpLandsIfNear ==
  pc = "success" /\ Alive /\ Reachable(ctx.fault_addr, remote_addr) => JumpLands

(* inject_patch returns unless it is killed, and either way the target is  *)
(* let go: no path through the code forgets to detach.                     *)
LetsGo == <>[](pc \in {"success", "failure", "killed"} /\ (Alive => ~traced))

(* When nothing is refused and nobody else signals the target, one that    *)
(* was running when the injector attached is hot-swapped.                  *)
CodeMapped == WordAt(regs.ip) \cup WordAt(ctx.fault_addr) \subseteq Text

SwapsRunning == (pc = "attach" /\ ~groupStop /\ CodeMapped) ~> pc = "success"

-----------------------------------------------------------------------------
(* The injector implements HotSwap. A JMP whose patch is complete is the   *)
(* redirection, and what a failing POKE has written is torn; any other     *)
(* foreign byte of code, or registers that are not the target's own, are   *)
(* borrowed.                                                               *)

InjectorLives == Alive /\ pc # "killed"

Borrowed ==
  \/ regs # ownRegs
  \/ \E a \in Text \ torn : mem[a] # Own(a) /\ ~(a \in EntryBytes /\ Hooked)

Swap == INSTANCE HotSwap WITH
  phase   <- IF ~InjectorLives THEN "gone"
             ELSE IF traced THEN "held" ELSE IF Returned THEN "over" ELSE "free",
  scratch <- InjectorLives /\ Borrowed,
  hooked  <- InjectorLives /\ Hooked /\ PatchWritten,
  torn    <- InjectorLives /\ torn # {},
  result  <- IF InjectorLives /\ Returned THEN pc ELSE "none"

ImplementsHotSwap == Swap!Spec
=============================================================================
