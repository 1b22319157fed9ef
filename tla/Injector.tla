------------------------------ MODULE Injector ------------------------------
(***************************************************************************)
(* hot_swap_patch of daemon/src/injector.rs on Linux, and the daemon that  *)
(* calls it for one fault after the other (daemon/src/main.rs). The steps  *)
(* are those of the C injector, but every `?` returns on the spot: nothing *)
(* is restored and the target is not detached. The daemon lives on after   *)
(* an Err, so the thread that is still the tracer is there for the next    *)
(* call on the same process.                                               *)
(***************************************************************************)
EXTENDS Tracee, JmpRel32

CONSTANTS
  FaultAddrs,   (* The event.addr of the faults the daemon is sent.         *)
  MaxCalls,     (* Bound: how many of them are explored.                    *)
  RealTime      (* The real-time signals: nix has no value for them.        *)

ASSUME CallAssumption == FaultAddrs \subseteq Nat /\ MaxCalls \in Nat
ASSUME RealTimeAssumption == RealTime \subseteq Signals

PatchSize == 3  \* vec![0x90, 0x90, 0xC3]

VARIABLES
  pc,           (* The request that comes next, "recv" between two calls,   *)
                (* "exited" once the daemon is gone.                        *)
  fault_addr,
  saved_regs, original_instr, allocated_addr, i,
  result,       (* "none", or what the last call returned: "ok" or "err".   *)
  calls,        (* How many calls were made.                                *)
  installed     (* History: where each entry is redirected to, or 0.        *)

locals == <<saved_regs, original_instr, allocated_addr, i>>
caller == <<fault_addr, calls>>
vars   == <<tracee, pc, caller, locals, result, installed>>

Steps == {"attach", "wait_stop", "getregs", "write_syscall", "setregs", "step",
          "wait_step", "getregs_after", "write_original", "write_patch",
          "restore_regs", "detach"}

TypeOK ==
  /\ TraceeTypeOK
  /\ pc \in Steps \cup {"recv", "exited"}
  /\ fault_addr \in FaultAddrs \cup {0}
  /\ saved_regs \in Registers
  /\ original_instr \in [0 .. WordSize - 1 -> Byte]
  /\ allocated_addr \in Int /\ i \in Nat
  /\ result \in {"none", "ok", "err"} /\ calls \in 0 .. MaxCalls
  /\ installed \in [FaultAddrs -> {0} \cup Pages]

Init ==
  /\ TraceeInit
  /\ pc = "recv" /\ fault_addr = 0
  /\ saved_regs = [ip |-> 0, ret |-> 0]
  /\ original_instr = [k \in 0 .. WordSize - 1 |-> Zero]
  /\ allocated_addr = 0 /\ i = 0
  /\ result = "none" /\ calls = 0
  /\ installed = [f \in FaultAddrs |-> 0]

Goto(label)  == pc' = label /\ UNCHANGED <<caller, result>>
Return(r)    == pc' = "recv" /\ result' = r /\ UNCHANGED caller

(* A request, or a wait, followed by `?`.                                  *)
Try(label, request, refusal, next) ==
  /\ pc = label
  /\ \/ request /\ Goto(next)
     \/ refusal /\ Return("err")

-----------------------------------------------------------------------------

(* Mutated: the index into the patch is not reset.                         *)
CallStaleIndex ==
  /\ pc = "recv" /\ calls < MaxCalls
  /\ fault_addr' \in FaultAddrs
  /\ calls' = calls + 1 /\ i' = i
  /\ pc' = "attach" /\ result' = "none"
  /\ UNCHANGED <<tracee, saved_regs, original_instr, allocated_addr, installed>>

Call ==
  /\ pc = "recv" /\ calls < MaxCalls
  /\ fault_addr' \in FaultAddrs
  /\ calls' = calls + 1 /\ i' = 0
  /\ pc' = "attach" /\ result' = "none"
  /\ UNCHANGED <<tracee, saved_regs, original_instr, allocated_addr, installed>>

AttachTarget ==
  /\ Try("attach", Attach, AttachFails, "wait_stop")
  /\ UNCHANGED <<locals, installed>>

(* waitpid of nix 0.27 is an error, EINVAL, when the target has stopped    *)
(* for a signal that nix does not know. What it returns otherwise is not   *)
(* looked at.                                                              *)
UnknownStop == Held /\ stopsig \in RealTime

WaitStop ==
  /\ Try("wait_stop", WaitReturns /\ ~UnknownStop, UnknownStop, "getregs")
  /\ UNCHANGED <<tracee, locals, installed>>

GetRegs ==
  /\ Try("getregs", Held /\ saved_regs' = regs, ~Held /\ UNCHANGED saved_regs,
         "write_syscall")
  /\ UNCHANGED <<tracee, original_instr, allocated_addr, i, installed>>

(* The read of the word that is replaced, and the write of a word that     *)
(* holds the syscall instruction and zeros.                                *)
SyscallWord == [k \in 0 .. WordSize - 1 |-> IF k < SyscallLen THEN Syscall(k) ELSE Zero]

Read(a) == CanPeek(a) /\ original_instr' = Word(a)

WriteSyscall ==
  /\ Try("write_syscall",
         Read(saved_regs.ip) /\ Poke(saved_regs.ip, SyscallWord),
         \/ PeekFails(saved_regs.ip) /\ UNCHANGED original_instr
         \/ Read(saved_regs.ip) /\ PokeFails(saved_regs.ip, SyscallWord),
         "setregs")
  /\ UNCHANGED <<saved_regs, allocated_addr, i, installed>>

SetCallRegs ==
  /\ Try("setregs", SetRegs([saved_regs EXCEPT !.ret = SysNo]), RequestFails, "step")
  /\ UNCHANGED <<locals, installed>>

StepTarget ==
  /\ Try("step", SingleStep, RequestFails, "wait_step")
  /\ UNCHANGED <<locals, installed>>

WaitStep ==
  /\ Try("wait_step", WaitReturns /\ ~UnknownStop, UnknownStop, "getregs_after")
  /\ UNCHANGED <<tracee, locals, installed>>

(* Any value of rax is taken for an address.                               *)
GetAllocated ==
  /\ Try("getregs_after", Held /\ allocated_addr' = regs.ret,
         ~Held /\ UNCHANGED allocated_addr, "write_original")
  /\ UNCHANGED <<tracee, saved_regs, original_instr, i, installed>>

(* Mutated: written back to where the target is after the step.            *)
WriteOriginalAfter ==
  /\ Try("write_original", Poke(regs.ip, original_instr),
         PokeFails(regs.ip, original_instr), "write_patch")
  /\ UNCHANGED <<locals, installed>>

WriteOriginal ==
  /\ Try("write_original", Poke(saved_regs.ip, original_instr),
         PokeFails(saved_regs.ip, original_instr), "write_patch")
  /\ UNCHANGED <<locals, installed>>

PatchWord(n) ==
  [k \in 0 .. WordSize - 1 |-> IF n + k < PatchSize THEN Patch(n + k) ELSE Zero]

(* Mutated: a failed write is passed over.                                 *)
WritePatchUnchecked ==
  /\ pc = "write_patch" /\ i < PatchSize
  /\ Poke(allocated_addr + i, PatchWord(i)) \/ PokeFails(allocated_addr + i, PatchWord(i))
  /\ i' = i + WordSize /\ Goto("write_patch")
  /\ UNCHANGED <<saved_regs, original_instr, allocated_addr, installed>>

(* Mutated: a failed write is tried again.                                 *)
WritePatchRetried ==
  /\ pc = "write_patch" /\ i < PatchSize
  /\ \/ Poke(allocated_addr + i, PatchWord(i)) /\ i' = i + WordSize
     \/ PokeFails(allocated_addr + i, PatchWord(i)) /\ UNCHANGED i
  /\ Goto("write_patch")
  /\ UNCHANGED <<saved_regs, original_instr, allocated_addr, installed>>

WritePatch ==
  /\ i < PatchSize
  /\ Try("write_patch",
         Poke(allocated_addr + i, PatchWord(i)) /\ i' = i + WordSize,
         PokeFails(allocated_addr + i, PatchWord(i)) /\ UNCHANGED i,
         "write_patch")
  /\ UNCHANGED <<saved_regs, original_instr, allocated_addr, installed>>

JmpWord(w) ==
  [k \in 0 .. WordSize - 1 |->
     IF k < JmpLen THEN Jmp(k, Displacement(fault_addr, allocated_addr)) ELSE w[k]]

Installs == installed' = [installed EXCEPT ![fault_addr] = allocated_addr]

WriteJmpFails ==
  \/ PeekFails(fault_addr)
  \/ CanPeek(fault_addr) /\ PokeFails(fault_addr, JmpWord(Word(fault_addr)))

(* Mutated: a failure to write the JMP is only reported.                   *)
WriteJmpUnchecked ==
  /\ i >= PatchSize /\ pc = "write_patch"
  /\ \/ Poke(fault_addr, JmpWord(Word(fault_addr))) /\ Installs
     \/ WriteJmpFails /\ UNCHANGED installed
  /\ Goto("restore_regs")
  /\ UNCHANGED locals

WriteJmp ==
  /\ i >= PatchSize
  /\ Try("write_patch",
         Poke(fault_addr, JmpWord(Word(fault_addr))) /\ Installs,
         WriteJmpFails /\ UNCHANGED installed,
         "restore_regs")
  /\ UNCHANGED locals

(* Mutated: the target resumes with the registers of the call.             *)
RestoreRegsForgotten ==
  /\ pc = "restore_regs" /\ Goto("detach")
  /\ UNCHANGED <<tracee, locals, installed>>

RestoreRegs ==
  /\ Try("restore_regs", SetRegs(saved_regs), RequestFails, "detach")
  /\ UNCHANGED <<locals, installed>>

DetachTarget ==
  /\ pc = "detach"
  /\ \/ Detach /\ Return("ok")
     \/ RequestFails /\ Return("err")
  /\ UNCHANGED <<locals, installed>>

(* The loop over rx never ends: the daemon goes only by a signal.          *)
DaemonExits ==
  /\ pc # "exited" /\ TracerExits
  /\ Goto("exited")
  /\ UNCHANGED <<locals, installed>>

Step ==
  \/ AttachTarget \/ WaitStop \/ GetRegs \/ WriteSyscall \/ SetCallRegs
  \/ StepTarget \/ WaitStep \/ GetAllocated \/ WriteOriginal \/ WritePatch
  \/ WriteJmp \/ RestoreRegs \/ DetachTarget

Kept == UNCHANGED <<pc, caller, locals, result, installed>>

TargetStep == (TraceeStep(PatchSize) \/ Executes) /\ Kept

Next == Call \/ Step \/ DaemonExits \/ TargetStep

Spec == Init /\ [][Next]_vars

-----------------------------------------------------------------------------
(* Properties.                                                             *)

Entry(f) == f .. f + JmpLen - 1

(* What a byte of code is supposed to be: the target's own, or part of a   *)
(* JMP a call has put there.                                               *)
ByteDue(a) ==
  IF \E f \in FaultAddrs : installed[f] # 0 /\ a \in Entry(f)
    THEN LET f == CHOOSE f \in FaultAddrs : installed[f] # 0 /\ a \in Entry(f)
         IN  Jmp(a - f, Displacement(f, installed[f]))
    ELSE Own(a)

CodeIsDue == \A a \in Text : mem[a] = ByteDue(a)

(* As long as the daemon lives the target runs only with its own registers *)
(* and with code that is its own or a whole JMP, whichever of the requests *)
(* of however many calls failed, and however they were hit by signals: an  *)
(* Err that has left something borrowed has left the target held.          *)
RunsItself ==
  Alive /\ ~traced /\ pc # "exited" => regs = ownRegs /\ CodeIsDue

(* Every redirection, of this call and of the calls before it, leads to a  *)
(* page of its own with the whole patch, the pages being written and the   *)
(* code around the entries being rewritten by the calls that follow.       *)
RedirectionsWhole ==
  \A f \in FaultAddrs : installed[f] # 0 =>
    /\ installed[f] \in mapped
    /\ traced \/ pc = "exited" \/
         \A n \in 0 .. PatchSize - 1 : mem[installed[f] + n] = Patch(n)
    /\ \A g \in FaultAddrs \ {f} : installed[g] # installed[f]

(* Whatever has failed, on a call that has returned, is confined to one    *)
(* word of the code: that of the syscall, which a failed call does not     *)
(* write back, or the one that a failing write has cut the JMP off in.     *)
OneWordLeft ==
  pc = "recv" /\ Alive =>
    \E a \in Text : \A x \in Text \ WordAt(a) : mem[x] = ByteDue(x)

(* README.md:5: "no downtime". A call that has returned does not hold the  *)
(* target.                                                                 *)
ReturnReleases == pc = "recv" /\ Alive => ~traced
=============================================================================
