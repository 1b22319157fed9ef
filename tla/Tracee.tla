------------------------------- MODULE Tracee -------------------------------
(***************************************************************************)
(* The process both hot-swap injectors operate on, seen through ptrace(2): *)
(* one thread with its registers, its memory and the signals sent to it.   *)
(* None of this is code of the repository. It is the part of Linux that    *)
(* hotswap/patch_injector.c and daemon/src/injector.rs rely on, reduced to *)
(* the requests they issue and the outcomes they can observe.              *)
(*                                                                         *)
(* The module is passive: the injectors take its operators as parts of     *)
(* their actions, and TraceeStep is what the kernel and the process do on  *)
(* their own.                                                              *)
(*                                                                         *)
(* What is assumed of Linux:                                               *)
(*  - requests succeed only on a thread in ptrace-stop (ESRCH otherwise);  *)
(*  - PEEK fails on a word that is not mapped as a whole, changes nothing  *)
(*    and returns -1;                                                      *)
(*  - POKE writes a word page by page: when its second page is not mapped, *)
(*    or there is no memory to make it private to the process, the bytes   *)
(*    on the first one are written and the request fails all the same;     *)
(*  - PTRACE_ATTACH queues a SIGSTOP, also for a thread in job stop, and   *)
(*    detaching puts the thread of a stopped job back into job stop;       *)
(*  - a resumed tracee reports a queued signal before it runs any code;    *)
(*  - apart from PTRACE_ATTACH and the target's own raise(SIGSTOP), nobody *)
(*    sends the target job-control signals.                                *)
(***************************************************************************)
EXTENDS Integers

CONSTANTS
  TextLo, TextHi,  (* The code of the target occupies TextLo..TextHi.       *)
  Pages, PageLen,  (* Where mmap(NULL, ...) may map, and the length mapped. *)
  PageStarts,      (* Where the pages of the memory, and what follows       *)
                   (* them, begin.                                          *)
  SysNo,           (* The number of mmap, which the injector puts in the    *)
                   (* register that the call will return its result in.     *)
  MmapError,       (* What that register holds when mmap fails.             *)
  OwnRet,          (* What it holds when the target is interrupted.         *)
  Signals,         (* The signals others may send to the target.            *)
  Faults           (* May requests be refused, memory run out, processes be *)
                   (* killed?                                               *)

WordSize   == 8           \* sizeof(long), the unit of PEEK and POKE
SyscallLen == 2           \* 0f 05
SIGSTOP    == "SIGSTOP"
SIGTRAP    == "SIGTRAP"

Text      == TextLo .. TextHi
PageAt(p) == p .. p + PageLen - 1
WordAt(a) == a .. a + WordSize - 1
Memory    == Text \cup UNION {PageAt(p) : p \in Pages}

ASSUME TextAssumption == TextLo \in Nat /\ TextHi \in Nat
ASSUME PageAssumption ==
  /\ Pages \subseteq Nat /\ PageLen \in Nat
  /\ \A p \in Pages : PageAt(p) \cap Text = {}
  /\ \A p, q \in Pages : p # q => PageAt(p) \cap PageAt(q) = {}
ASSUME PageStartAssumption ==
  /\ \A s \in PageStarts : s \in Nat /\ s % WordSize = 0
  /\ {TextLo, TextHi + 1} \cup Pages \cup {p + PageLen : p \in Pages} \subseteq PageStarts
ASSUME RegAssumption ==
  SysNo \in Nat /\ OwnRet \in Int /\ MmapError \in Int /\ MmapError < 0
ASSUME SignalAssumption == {SIGSTOP, SIGTRAP, "none"} \cap Signals = {} /\ Faults \in BOOLEAN

(* The first page and the upper half of the address space are never mapped. *)
ASSUME UnmappedAssumption ==
  \A a \in {SysNo, MmapError} : WordAt(a) \cap Memory = {}

(***************************************************************************)
(* A byte is known by where it comes from: the target's own byte of an     *)
(* address, byte i of the syscall instruction, byte i of the patch, byte i *)
(* of a JMP rel32 whose four operand bytes hold d, or a byte of the -1     *)
(* that a failed PEEK returns.                                             *)
(***************************************************************************)
Kinds == {"own", "zero", "ones", "syscall", "patch", "jmp"}
Byte  == Kinds \X Int \X Int

Own(a)     == <<"own", a, 0>>
Zero       == <<"zero", 0, 0>>
Ones       == <<"ones", 0, 0>>
Syscall(i) == <<"syscall", i, 0>>
Patch(i)   == <<"patch", i, 0>>
Jmp(i, d)  == <<"jmp", i, d>>

Registers == [ip : Int, ret : Int]

VARIABLES
  mem,        (* The bytes of Memory.                                       *)
  mapped,     (* The pages that mmap has returned.                          *)
  private,    (* The words a POKE has succeeded on.                         *)
  torn,       (* History: the bytes written by a POKE that failed.          *)
  regs,       (* The registers the thread will run with.                    *)
  ownRegs,    (* History: the registers it was interrupted with.            *)
  run,        (* What the thread does.                                      *)
  traced,     (* Is an injector attached to it?                             *)
  groupStop,  (* Is its process in job stop?                                *)
  stopsig,    (* What it is in ptrace-stop for.                             *)
  pending     (* The signals queued for it.                                 *)

memory == <<mem, mapped, private, torn>>
tracee == <<memory, regs, ownRegs, run, traced, groupStop, stopsig, pending>>

Runs == {"running", "stepping", "ptrace-stop", "job-stop", "dead"}

TraceeTypeOK ==
  /\ mem \in [Memory -> Byte]
  /\ mapped \subseteq Pages
  /\ private \subseteq Int /\ torn \subseteq Int
  /\ regs \in Registers /\ ownRegs \in Registers
  /\ run \in Runs
  /\ traced \in BOOLEAN /\ groupStop \in BOOLEAN
  /\ stopsig \in Signals \cup {SIGSTOP, SIGTRAP, "none"}
  /\ pending \subseteq Signals \cup {SIGSTOP}

(* The target runs or, like test_target in its SIGSEGV handler, has raised *)
(* SIGSTOP; it is wherever it is in its code.                              *)
TraceeInit ==
  /\ mem = [a \in Memory |-> IF a \in Text THEN Own(a) ELSE Zero]
  /\ mapped = {} /\ private = {} /\ torn = {}
  /\ ownRegs \in [ip : Text, ret : {OwnRet}] /\ regs = ownRegs
  /\ traced = FALSE
  /\ groupStop \in BOOLEAN
  /\ run = IF groupStop THEN "job-stop" ELSE "running"
  /\ stopsig = "none" /\ pending = {}

-----------------------------------------------------------------------------
(* Requests of an injector.                                                *)

Alive == run # "dead"
Held  == run = "ptrace-stop"

Mapped  == Text \cup UNION {PageAt(p) : p \in mapped}
Word(a) == [i \in 0 .. WordSize - 1 |-> mem[a + i]]

CanPeek(a) == Held /\ WordAt(a) \subseteq Mapped

(* What PEEK returns; daemon/src/injector.rs looks at whether it failed,   *)
(* hotswap/patch_injector.c does not.                                      *)
Peeked(a)    == IF CanPeek(a) THEN Word(a) ELSE [i \in 0 .. WordSize - 1 |-> Ones]
PeekFails(a) == ~CanPeek(a) /\ UNCHANGED tracee

(* PTRACE_ATTACH succeeds on a live process that nobody traces.            *)
Attach ==
  /\ Alive /\ ~traced
  /\ traced' = TRUE
  /\ pending' = pending \cup {SIGSTOP}
  /\ IF run = "job-stop" THEN run' = "ptrace-stop" /\ stopsig' = SIGSTOP
                         ELSE UNCHANGED <<run, stopsig>>
  /\ UNCHANGED <<memory, regs, ownRegs, groupStop>>

(* It may be refused for lack of permission, and always is otherwise.      *)
AttachFails ==
  /\ Alive /\ ~traced => Faults
  /\ UNCHANGED tracee

(* waitpid returns when the tracee has stopped or is gone.                 *)
WaitReturns == run \in {"ptrace-stop", "dead"}

Write(bytes, a, word) ==
  mem' = [x \in Memory |-> IF x \in bytes THEN word[x - a] ELSE mem[x]]

Poke(a, word) ==
  /\ CanPeek(a)
  /\ Write(WordAt(a), a, word) /\ private' = private \cup {a}
  /\ UNCHANGED <<mapped, torn, regs, ownRegs, run, traced, groupStop, stopsig, pending>>

(* The bytes of a word on the page it begins on, and those of them that a  *)
(* failing POKE may write: none when the word is on one page.              *)
FirstPage(a) == {x \in WordAt(a) : \A s \in PageStarts : s <= a \/ x < s}
Split(a)     == IF FirstPage(a) = WordAt(a) THEN {} ELSE FirstPage(a)

(* There may be no memory for the private copy of a page.                  *)
NoMemory(a) == Faults /\ a \notin private

Refused(a) ==
  /\ Held /\ FirstPage(a) \subseteq Mapped => NoMemory(a)
  /\ UNCHANGED tracee

Torn(a, word) ==
  /\ Held /\ Split(a) # {} /\ Split(a) \subseteq Mapped
  /\ WordAt(a) \subseteq Mapped => NoMemory(a)
  /\ Write(Split(a), a, word) /\ torn' = torn \cup Split(a)
  /\ UNCHANGED <<mapped, private, regs, ownRegs, run, traced, groupStop, stopsig, pending>>

PokeFails(a, word) == Refused(a) \/ Torn(a, word)

SetRegs(r) ==
  /\ Held
  /\ regs' = r
  /\ UNCHANGED <<memory, ownRegs, run, traced, groupStop, stopsig, pending>>

SingleStep ==
  /\ Held
  /\ run' = "stepping" /\ stopsig' = "none"
  /\ UNCHANGED <<memory, regs, ownRegs, traced, groupStop, pending>>

(* GETREGS, SETREGS and SINGLESTEP fail only when the tracee is gone.      *)
RequestFails == ~Held /\ UNCHANGED tracee

(* Detaching without a signal drops the one the tracee has stopped for.    *)
Detach ==
  /\ Held
  /\ traced' = FALSE /\ stopsig' = "none"
  /\ run' = IF groupStop THEN "job-stop" ELSE "running"
  /\ UNCHANGED <<memory, regs, ownRegs, groupStop, pending>>

(* When an injector exits the kernel detaches it, whatever it was doing.   *)
TracerExits ==
  /\ traced' = FALSE /\ stopsig' = "none"
  /\ run' = IF traced /\ Alive
            THEN IF groupStop THEN "job-stop" ELSE "running"
            ELSE run
  /\ UNCHANGED <<memory, regs, ownRegs, groupStop, pending>>

-----------------------------------------------------------------------------
(* Steps of the kernel and of the process.                                 *)

SignalArrives(s) ==
  /\ Alive /\ s \notin pending
  /\ pending' = pending \cup {s}
  /\ UNCHANGED <<memory, regs, ownRegs, run, traced, groupStop, stopsig>>

(* A traced thread stops for a signal instead of handling it.              *)
SignalStop ==
  /\ traced /\ run \in {"running", "stepping"}
  /\ \E s \in pending : pending' = pending \ {s} /\ stopsig' = s
  /\ run' = "ptrace-stop"
  /\ UNCHANGED <<memory, regs, ownRegs, traced, groupStop>>

(* An untraced one runs its handler, or stops its job for a SIGSTOP.       *)
SignalHandled ==
  /\ ~traced /\ run = "running"
  /\ \E s \in pending :
       /\ pending' = pending \ {s}
       /\ groupStop' = (s = SIGSTOP)
       /\ run' = IF s = SIGSTOP THEN "job-stop" ELSE run
  /\ UNCHANGED <<memory, regs, ownRegs, traced, stopsig>>

(* The single step executes the syscall written at ip, an mmap of len      *)
(* bytes, which returns a page that is not in use or fails.                *)
SyscallReturns(len) ==
  /\ run = "stepping" /\ pending = {}
  /\ \A i \in 0 .. SyscallLen - 1 : mem[regs.ip + i] = Syscall(i)
  /\ \/ /\ len > 0
        /\ \E p \in Pages \ mapped :
             /\ mapped' = mapped \cup {p}
             /\ regs' = [ip |-> regs.ip + SyscallLen, ret |-> p]
     \/ /\ Faults \/ len = 0 \/ mapped = Pages
        /\ mapped' = mapped
        /\ regs' = [ip |-> regs.ip + SyscallLen, ret |-> MmapError]
  /\ run' = "ptrace-stop" /\ stopsig' = SIGTRAP
  /\ UNCHANGED <<mem, private, torn, ownRegs, traced, groupStop, pending>>

(* An untraced thread runs on, through its own code or through a patch.    *)
Code == {a \in Mapped : mem[a] = Own(a) \/ mem[a][1] = "patch"}

Executes ==
  /\ ~traced /\ run = "running" /\ pending = {} /\ regs = ownRegs
  /\ \E a \in Code : regs' = [regs EXCEPT !.ip = a]
  /\ ownRegs' = regs'
  /\ UNCHANGED <<memory, run, traced, groupStop, stopsig, pending>>

(* SIGKILL, or the OOM killer, at any moment.                              *)
Killed ==
  /\ Faults /\ Alive
  /\ run' = "dead" /\ stopsig' = "none"
  /\ UNCHANGED <<memory, regs, ownRegs, traced, groupStop, pending>>

TraceeStep(len) ==
  \/ \E s \in Signals : SignalArrives(s)
  \/ SignalStop
  \/ SignalHandled
  \/ SyscallReturns(len)
  \/ Killed
=============================================================================
