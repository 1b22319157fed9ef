# A verification of Living Codebase

Living Codebase ("software that heals itself at runtime") detects a memory
fault in a running process, evolves a patch for the faulty function, and writes
the patch into the process with `ptrace`. This directory holds TLA+ models of
the program, the configurations that check them with TLC, and theorems about
them that TLAPS checks. All paths below are relative to the repository; every
definition that models code is translated from the lines that `PROJECT.json`
("map") gives for it.

    tlc -config PatchInjector.cfg MCPatchInjector     # one run
    tlapm PatchInjectorProofs.tla                     # the proofs

## 1. The system

The repository is a pipeline of programs in four languages that share very
little: an event record, an exit status, a target process.

    target --probes--> eBPF detector --ring--> daemon --spawn--> patch engine
       ^                                          |
       +----------------- ptrace -----------------+

| Part | State it keeps | Operations | Interacts with |
|---|---|---|---|
| eBPF fault detector, `ebpf/fault_detector.bpf.c` | maps `heap_allocations`, `active_malloc_requests`, ring `fault_events` | probes on malloc entry and return, free entry, page fault | the threads of every process (on all CPUs at a time); the ring's reader |
| Daemon, `daemon/src/main.rs`, `ebpf_consumer.rs`, `mock_host.rs` | an mpsc channel of faults, the event being served | receive, print, run the engine, call the injector | a producer thread (a mock on macOS, a stub that sends nothing on Linux), the engine's process, the injector |
| Rust injector, `daemon/src/injector.rs` | registers, instruction and address saved in one call; what the target was left with | `hot_swap_patch` | the target through ptrace; called by the daemon, which lives on |
| C injector, `hotswap/patch_injector.c` | `HotSwapContext`, saved registers and word, address of the page | `inject_patch`, decoding of the hex argument | the target through ptrace; its process ends with it |
| Test target, `hotswap/test_target.c` | SIGSEGV handler, the faulty function | fault, `raise(SIGSTOP)`, return to the fault | the injector, the shell that continues it |
| Proof of concept, `src/main.rs` | `HeapTracker` (a map of blocks and their state), counters | alloc, free, access, `verify_patch`, `generate_patch`, `healing_loop` | nobody: one thread, nine scripted events |
| Patch engine, `healing/patch_engine.py` | population of candidate lines, best score | mutations, fitness, Z3 query, `run_ga` | Z3; the daemon by its exit status |
| AST mutator, `healing/mutator.py` | a Python syntax tree, the tree a mutation walks | six transformers (null check, bounds check, swap of operators or comparisons, literals, early return), `mutate`, `generate_population` | nobody: no other file imports it |
| Baseline generator, `healing/baseline_generator.py` | a bitcode file, the directory `klee-out`, a JSON file of golden paths; all outlive a run | compile, run KLEE, collect, simulate, store | clang, KLEE, the file system, earlier runs |
| Dashboard, `docs/index.html` | counters, feed, patch log, chart, one interval, a timer per fault | tick, inject a fault, heal later, start and pause, clear | the browser's event loop |
| Benchmarks, demo, mock kernel headers, build files | none worth a model | print, sample, declare, build | the reader |

`full_demo.py`, `patch_engine.py`, `test_uaf_sim.py`, `test_z3.py` and
`dashboard.html` in the root are copies of files in `benchmark/`, `healing/` and
`docs/`.

### What is hard in it

* **Both injectors** change a live process in a dozen requests. Any of them can
  be refused, the target can be killed or signalled between any two, the
  injector itself can be killed, and the target may have been stopped before it
  was attached. What is borrowed in between (registers, a word of code) has to
  be given back on every path, and a function must never lead to a patch that
  is not complete. The C program ignores the statuses of both waits, so that what
  the target stopped for is only guessed, and the failure of a PEEK; a word
  may reach over the end of a page, and then a POKE that fails may have written
  a part of it.
* **The Rust injector** returns at the first error without giving anything back
  and without detaching (a wait is an error, too, when the target has stopped
  for a signal that the library has no name for), in a daemon that will be asked to heal the same
  process again; neighbouring functions share words of code.
* **The detector**'s probes run on several CPUs and interleave between any two
  helper calls; its maps and its ring have a limit; its keys are addresses that
  several processes use and that outlive a process.
* **The daemon** waits for a channel of which it holds a sender itself, for a
  process, and for the kernel, all on one thread; it takes an exit status for a
  proof and, when the engine is not where it looks for it, prints a success.
* **The engine** is a random search whose population can become empty and whose
  verifier does not look at the candidate.
* **The mutator**'s guards hold the node they guard and its operands, so that
  after the first mutation the tree is a graph; the next one visits a shared
  node once per path, in place, while the tree grows around it.
* **The baseline generator** goes on after the failures it catches with what is
  there, which may be of an earlier run, and ends at those it does not catch; a
  tool it was waiting for when it was killed goes on without it.
* **The dashboard** resets counters under timers that will still fire.

What makes each part correct:

* injectors: a target that is let go has its own registers and code, but for a
  whole JMP to a whole patch, and for what a write across a page end has left
  after a failure; a reported success is one; calls return;
* detector: a proper program is never reported, a wrong free is, the map is the
  heap;
* daemon: every fault that was sent is served, once, and what it reports was
  done;
* proof of concept: the tracker agrees with the history of every list of operations;
* engine: the best candidate never gets worse, and success means a tested patch;
* mutator: a guard guards, changes nothing else, and survives what is mutated
  after it; candidates do not share what is changed;
* baseline generator: a complete baseline is that of a run that was done, however
  others ended, and its paths are its own;
* dashboard: feed, log, chart and counters tell one story, whatever is pending.

## 2. The modules

| Module | Models | State ↔ code |
|---|---|---|
| `Tracee` | The target process and the part of Linux's ptrace the injectors use. External: no code of the repository, but what `src/` relies on. | `mem`, `mapped`, `private`: memory by origin of each byte, in pages that begin at `PageStarts`; `regs`, `run`, `groupStop`, `pending`, `stopsig`, `traced`: the thread as ptrace sees it; `torn` is history: what failing writes have left |
| `JmpRel32` | The displacement that both injectors compute, and what the processor makes of it. | pure operators, modulo `RelMod` (2^32 in the code) |
| `PatchInjector` | `inject_patch`, all of it (lines 51-205). | `pc` is the request that comes next; `ctx`, `saved_regs`, `saved_text`, `remote_addr`, `i` are the variables of the code |
| `HotSwap` | What an injector promises, without ptrace: held, borrowed, redirected in one step, let go, reported. | `phase`, `scratch`, `hooked`, `torn`, `result` |
| `PatchInjectorProofs` | The theorems about `PatchInjector`. | |
| `Injector` | `hot_swap_patch` (lines 14-139), called again and again. | as above, with `original_instr`, `allocated_addr`; `pc = "recv"` between calls; `installed` is history |
| `Daemon` | The loop of `daemon/src/main.rs` around `Injector`: channel, search for the script, engine, simulated flow, call, report. | `rx` is the channel, `serving` the event taken from it, `script` whether `script_path.exists()`; `sent`, `reports` (what was printed) are history |
| `DaemonProofs` | The theorems about `Injector`, and those about `Daemon`, which rest on them. | |
| `FaultDetector` | The four probes, and the processes they watch. | the maps as sets (their values are never read), the ring as a sequence; `pc`, `arg` per thread; `live` is the C library's heap |
| `FaultDetectorProofs` | The theorems about `FaultDetector`. | |
| `HealingLoop` | The proof of concept: `HeapTracker` and `healing_loop` of `src/main.rs`. | `allocations` is the map, without the sizes, which nobody reads; `events`, `k` the list of operations and the place in it; `found` is history |
| `HealingLoopProofs` | The theorems about `HealingLoop`. | |
| `PatchEngine` | `run_ga`, its fitness function with the Z3 query, and the script around it. | the variables of `run_ga`; a candidate is one of the three programs that mutations produce, given by what it does on a list of length *n* and an index |
| `PatchEngineProofs` | The theorems about `PatchEngine`. | |
| `PyExpr` | Syntax graphs of Python, `copy.deepcopy`, and what Python computes for them. External: what `healing/mutator.py` relies on, and what its mutations are held against. | a heap of nodes; a value is a number, None, a list, an object or an exception |
| `Mutator` | `healing/mutator.py`: the six transformers, the depth-first walk of `NodeTransformer`, `mutate`, `generate_population`. | `h` holds all nodes; `stack` the visits under way, a node and the child it is at; `population`, `candidate`, `ops`, `k` are the variables of `generate_population` |
| `MutatorProofs` | The theorems about `Mutator`, and what they need of `PyExpr`. | |
| `BaselineGenerator` | `healing/baseline_generator.py`, one run after the other in one directory. | `source`, `bitcode`, `klee_out`, `db` are the files; a path carries the run that found it and the version it is in; `left` the tools that go on after their run was killed; `since`, `compiled` are history |
| `BaselineGeneratorProofs` | The theorems about `BaselineGenerator`. | |
| `Dashboard` | The script of `docs/index.html`. | `stats`, `mttrHistory`, `simInterval` are its variables; `timers` the pending `setTimeout`s; `metrics`, `feed`, `patch_log`, `bar_chart` what is in the page |
| `DashboardProofs` | The theorems about `Dashboard`. | |
| `MC...` | Values for TLC. | |

`PatchInjector` and `Injector` extend `Tracee` and `JmpRel32`: each composes its
program with the target and the kernel. The requests are operators of `Tracee`
that are conjoined with the step of the program, and `TraceeStep` is what the
target and the kernel do on their own, at any time: take a signal, stop for it,
execute the single step, be killed. An action of the injector is one request or
wait together with the branch the code takes on its result. A PEEK is taken
with the POKE that follows it, since it changes nothing and nothing else writes
the memory of a held target (one killed between the two makes the POKE fail, as
if it had been killed before). The Rust injector returns when the PEEK fails; the
C program takes the -1 it gets then for the word (`Peeked`) and writes. A POKE
fails with nothing written (`Refused`) or, when its word reaches over the end of
a page, with the bytes in front of that end written (`Torn`).

Bytes are abstracted to where they come from: the target's own byte of an
address, byte *k* of the syscall instruction, of the patch, or of a JMP with a
given displacement. So *restored* and *overwritten* can be told apart for all
contents. Registers are the instruction pointer and the return register: the
other ones are saved and restored with them in the same request.

`PatchInjector` is shown to implement `HotSwap` by the refinement mapping at its
end: a JMP counts as the redirection only when all its bytes and all bytes of
its patch are in memory; any other foreign byte, and foreign registers, are
`scratch`. `HotSwap` has a step (`Tear`) for a word of the code that is written in
part: the code is torn from then on, redirected or not, and what is reported is a
failure. When one of the two processes dies nothing is promised any more.

`Daemon` extends `Injector`: a step of `hot_swap_patch` is a step of the loop, and
the loop adds what is printed when the call returns. The engine's process is
its exit: success, an exception, or no `python3`. The producers of the
repository send one fault (`mock_host.rs`) or none (`ebpf_consumer.rs`); the
model's send any, at any time.

`Mutator` runs each visit as a step and leaves every `random.choice` open. A
candidate is not compared with expected text but executed, by `Value` of
`PyExpr`, on small arguments.

`BaselineGenerator` and `Dashboard` have no composition: the first meets only
files, the second only its timers. An action of `Dashboard` is one callback of
the browser's event loop.

`HealingLoop` takes any list of operations where the code has a fixed one
(lines 160-170, which is among those checked). `PatchEngine` keeps the order in
which the code fills, sorts and cuts the population, since the sort is stable
and the order decides who survives; a random choice is any choice.

### Assumptions about what is not in `src/`

They are listed at the head of `Tracee` and `FaultDetector`. In short:
requests succeed only on a thread in ptrace-stop; a PEEK fails on a word that is
not all mapped; a POKE writes page by page, and fails at the first page that is
not mapped or, until a POKE has succeeded on that word, for want of memory to
make the page private; PTRACE_ATTACH queues a SIGSTOP, also when the job is
stopped already; a resumed tracee reports a queued signal before it runs code;
an exiting tracer is detached by the kernel; `mmap` returns a fresh page or an
error. `waitpid` of nix 0.27 is an error (EINVAL) when the tracee has stopped for a
real-time signal, which its enumeration of signals lacks. The target has one
thread. `malloc` returns an address that is not in
use in its process, or NULL. KLEE refuses an output directory that exists. The
clang driver leaves or removes the output of a compilation that fails. A clang
or KLEE may outlive the run that waits for it when that is killed; KLEE opens its
files by their paths. A browser
runs one callback at a time, and timers in any order, since their delays are
random.

## 3. The runs

| Run | Question | Answer |
|---|---|---|
| `inject` | What does `inject_patch` leave behind, on any path? | `TypeOK`; `AllOrNothing`: own registers, own code but for a whole JMP after a success, and but for what one torn word has left after a failure; `JmpAfterPatch`: no byte of the JMP before the last byte of the patch; `SuccessUsesPage`: what the register held was a page; `SuccessResumes`: no stop is left for a target reported as swapped; `JumpLandsIfNear`; `LetsGo`: every path ends detached; `ImplementsHotSwap` |
| `inject_succeeds` | Is a running target swapped when nothing is refused? | `SwapsRunning` holds |
| `daemon_injects` | What do faults, served one after the other, leave behind? | `DaemonTypeOK`; `RunsItself`: the target runs only with what is its own or a whole JMP; `RedirectionsWhole`: later calls do not damage earlier ones; `OneWordLeft`: whatever failed, what a call leaves is confined to one word; `ReportsTrue`: the functions in which a call has written its JMP are those reported as completed; `ServedInOrder`; `EveryServed`: no fault waits for ever |
| `detector` | Do the probes follow the heap, for threads on several CPUs? | `TypeOK`; `TracksHeap`: the map is the heap; `NoFalseAlarm`: only misused addresses are reported; all for processes whose addresses differ |
| `detector_misuse` | Is a wrong free reported? | `MisusesReported` holds unless two threads free at a time or the ring is full; a full map does not hide one |
| `healing_loop` | Does one mark for an address find every fault? | `TypeOK`; `FaultsExact`: the faults found are those that follow from the whole sequence of operations; `HealsOnlyFaults`: no more are counted as healed than there were, not even when the one being verified will be |
| `engine` | Does the search keep what it has found? | `TypeOK`; `BestOfAll`; `BestSurvives`: elitism; `VerifiedPasses`: exit status 0 means a patch that passes the tests; `Terminates` |
| `mutator` | Do guards guard, whatever was mutated before and after? | `TypeOK`: candidates stay acyclic and well formed; `NullSafe`, `InBounds`: no exception of the kind a guard is for; `Conservative`: guards change no proper result; `FinishedKept`: nothing that is done is changed in place |
| `baseline` | What is stored, whichever tool fails in whichever run? | `TypeOK`; `OwnPaths`; `FreshPaths`: paths of the source as it is, when it was compiled; `EndsWhole`: a complete baseline says that its run was done, whatever ended the runs |
| `dashboard` | Do the numbers, the feed, the log and the chart agree? | `TypeOK`: one interval at most; `PendingShown`: what *detected - healed* means after a clear; `DisplayAgrees` |
| `daemon_holds` | Does a call let its target go? | No: `ReturnReleases` fails after an `Err` (README.md:5) |
| `engine_z3` | Are candidates with the solver's points safe? | No: `Z3Sound` fails, all candidates have them (README.md:140) |

The last two are violations, each of a sentence of the repository that the
"findings" of `PROJECT.json` quote, with what the counterexample shows.

More disagreements and oddities were met while modelling and have no run:

* `mmap` may answer with a page more than 2 GiB away, and the JMP then leads
  elsewhere, after a reported success ("`ptrace` injects relative `JMP` from
  faulty fn → patched fn live", README.md:63); `JumpLandsIfNear` says what holds.
* A target that has stopped itself "so ptrace can attach safely"
  (hotswap/test_target.c:31) is not swapped: the injector takes the stop of its
  own SIGSTOP for the end of the single step, finds the number of the system
  call in the register, and gives up. `SuccessResumes` says that it is not
  reported as swapped either.
* With one address in two processes "Address not found in heap mapping =
  Double-Free or wild pointer manipulation!" (ebpf/fault_detector.bpf.c:63) is
  not so: the map is keyed by the address alone.
* Two threads that free one block at a time are not reported when both look it
  up before either deletes it (line 60, where line 52 says "track
  double-free"); the page fault probe compares the first argument register of
  the interrupted code, not the address of the fault, with 4096 (line 87); only
  `malloc` is probed, so that the proper free of a block from `calloc` is
  reported (line 29).
* With an empty patch nothing tells a page from the number of the system call,
  which is why `SuccessUsesPage` and `SuccessResumes` are about patches of at
  least one byte.
* For an instruction pointer less than a word from the end of a mapping the C
  program writes a part of the syscall word and gives up without putting it back
  ("Temporarily overwrite memory", patch_injector.c:88), since it does not see
  that the PEEK has failed. Likewise a JMP cut off by the end of a page stays in
  the function, and when the five bytes are in front of that end the function is
  redirected although a failure is reported (line 187). `AllOrNothing` and `Tear`
  say what is left.
* When the target stops for a real-time signal under the single step, the Rust
  injector returns before it has put back the instructions it saved "to restore
  later" (injector.rs:50, 72), and leaves the target held; `OneWordLeft` and
  `RunsItself` say what is left, and that the target does not run with it.
* The simulated flow prints "Process healed!" (daemon/src/main.rs:136) and
  touches no process. It is what `make run-daemon` always gets, for the engine's
  path is relative and the rule changes the directory (Makefile:54).
* The engine does not read the fault it is passed and always heals the program
  it holds itself; the full score of 160, which it prints, cannot be reached (150
  is the most, line 128).
* In the mutator a guard shares its operands with what it guards: a swap of
  operators after a null check visits such an operator twice and swaps it back.
  Null checks after bounds checks leave `len(v)` outside of the guard, and
  literals or comparisons mutated after bounds checks may undo these: the three
  pairs are excluded by name in `NullSafe` and `InBounds`. Subscripts and
  attributes are guarded also where they are assigned to, which is no Python;
  the functions checked assign to none.
* The baseline generator does not look at what the compilation returned
  (baseline_generator.py:104): without clang the bitcode of an earlier run is
  explored, and its paths stored as those of the source. Since nothing removes
  `klee-out`, the second run on stores simulated paths over KLEE's.
* After a clear of the dashboard the heals that were pending are counted without
  their faults, so that more are healed than were detected (index.html:680); the
  checks of a fault are added after the counters were shown (line 609).

### Bounds, and why they are enough

* **C injector.** The code of the target is 24 bytes and its instruction pointer
  starts anywhere in it: before, at, inside and behind the function to be
  patched, and where the word to be replaced reaches over the end of the code.
  The addresses asked for are one with nothing around it, some whose words
  overlap the one at the instruction pointer, one that is unmapped, one too near
  the end. There are two places for pages. `RelMod` is 64, so that one is within
  reach of the displacement and one is not: the arithmetic is the code's with 64
  for 2^32. Patches of 1 and 10 bytes take one and two words, both with padding.
  A page begins inside of the code, so that words reach over the end of a page
  there (`torn` for want of memory) and at the end of the text (not mapped). One
  kind of signal besides SIGSTOP is enough, since the program does not look at
  which it was.
* **Daemon.** The code is 16 bytes (`TextLo` to `TextHi`) on two pages, with two
  entries five bytes apart, so that the word behind one JMP holds the other one,
  the first JMP reaches up to the page's end and its word over it. The one signal
  is a real-time one; stops for a signal that nix knows are those of SIGSTOP. The
  patch has
  the three bytes of the code. Two faults (`MaxCalls`), of one function or of
  both, sent at any time: the second call meets whatever the first has left, and
  a fault waits while another is served. A third would meet the same states of
  the target; the theorems are about any number.
* **Detector.** Two threads of one process and one of another (`detector`);
  two threads and two addresses (`detector_misuse`). Every pair of steps of two
  threads interleaves, a third adds another address space. `HeapMax` is as
  large as the heap in `detector` (a block that found no place is reported when
  it is freed: a limit of the map, and no claim of the code's) and smaller than
  it in `detector_misuse`; `RequestMax` is smaller than the number of threads
  in `detector`. `RingMax` bounds the events, for nobody reads the ring: one is
  enough for a false alarm to show, and reaches a full ring at once; three tell
  which of several misuses were reported.
* `Callocs` and `Exits` say whether programs use other allocators and exit:
  each is on in one of the runs.

* **Proof of concept.** Every list of up to four operations on two addresses
  and of up to six on one, with the script of the code: an address is allocated,
  freed and allocated again, next to another one.
* **Engine.** Eight candidates, of which two survive, for three generations:
  parents differ, a generation follows one that was bred from one that was bred.
  The lists and indices on which a candidate is tried are those of the code;
  `Z3Ints` is enough for a model of the query, which is all that is asked.

* **Mutator.** `data[0]`, `data[i + 1]`, `data.items[i]`, `data[data[i]]` and
  `data[i] < 2`: between them every transformer has something to change, guards
  are nested, and a guard's test is itself subscripted or compared. All of one
  and all ordered pairs of mutations, which is as many as the code applies. The
  arguments are None, objects with and without a list, lists of 0 to 2 elements
  and indices from -2 to 3: before, at, and behind both ends. One candidate of
  each, and two of the smallest function for `FinishedKept`.
* **Baseline generator.** Three runs, so that one follows one that followed a
  success; three versions of the source, so that it is edited before and during
  one; two path files, so that a part of them can be unreadable. Any tool of a
  killed run may go on, in any number of steps, under the runs that follow.
* **Dashboard.** `FeedMax`, `LogMax` and `ChartMax` are 3, 2 and 3 where the code
  has 80, 6 and 8, and four faults reach each of them; `MaxStarts` lets the
  simulation be paused and resumed.

`CHECK_DEADLOCK FALSE` is said for the programs that end: both injectors, whose
target may be dead when they have returned or the daemon has exited, the
healing loop, the engine, the mutator and the runs of the baseline generator;
for the dashboard it is said since its bounds stop it. The detector never stops,
and is checked for deadlock.

### Fairness

`PatchInjector` states weak fairness for the program's own next step (a process
that is scheduled; each request and each wait that can return does), for a
traced thread's stop for a queued signal, and for the system call under the
single step. `Daemon` states it for the same two steps of the target, and for
its own: taking a fault from the channel, the end of the engine's process (its
loops are bounded, which `Terminates` of `PatchEngine` checks, and its query has
two bounded unknowns), and each step of the injector. All of these are Linux
running a runnable thread. Nothing is assumed of the arrival of faults and
signals or of deaths; a target that is not traced need never do anything.
`SwapsRunning` is checked with `Faults = FALSE`: a system that refuses nothing.
`HealingLoop` and `PatchEngine` are sequential programs, fair as a whole. The
other modules state no fairness, and nothing about them needs it.

## 4. The proofs

`PatchInjectorProofs` proves, for all values of the constants that satisfy the
named assumptions, about the C injector:

| Theorem | Statement |
|---|---|
| `TypeCorrect` | `Spec => []TypeOK` |
| `InductiveInvariant` | `Spec => []IInv` |
| `ReturnsAllOrNothing` | `Spec => []AllOrNothing` |
| `PatchBeforeJmp` | `Spec => []JmpAfterPatch` |
| `SuccessHasPage` | `Spec => []SuccessUsesPage`, given `0 \notin PatchSizes` |
| `NearJumpLands` | `Spec => []JumpLandsIfNear` |
| `SuccessRuns` | `Spec => []SuccessResumes`, given `0 \notin PatchSizes` |
| `SwapsHot` | `Spec => ImplementsHotSwap` |

Assumptions: pages begin at multiples of the word size; text and pages are disjoint and so are pages; the number of `mmap`
and its error are no mapped addresses (the first page and the upper half of the
address space never are); a word at a fault address does not reach into a page;
pages hold whole words, and a patch fits into one, as the code rounds the length
up; `RelMod` is positive and even. Nothing bounds the code, the number of pages,
the patch or the displacement.

The argument. None of the properties is inductive: what a return owes depends on
what was borrowed on the way. `IInv` says for each label which registers the
target has (`RunInv`, `SavedInv`), which bytes of its code differ from its own
and that `saved_text` holds what gives them back (`CodeInv`), what a failing
write has torn, and how much of the patch is in the page (`PageInv`). Nothing is
torn before a failure, and at most the part of one word when it is returned. A lemma per action shows that it preserves
each part that the action can disturb; `AllOrNothing` and `JmpAfterPatch` follow
from it. `LinkInv` adds what is known of the displacement that was written;
`NearJumpLands` needs besides only arithmetic: the low bits of a distance that
fits, read as a signed number, are the distance. `ResumeInv` adds that a target
whose register holds a page has executed the system call, which it does only
with no signal queued and thus with no stop outstanding: the number of the
system call is not mapped, hence the first write of the patch tells the two
apart. `Inductive` is the conjunction of these parts.

`SwapsHot` is the refinement, with nothing assumed beyond the above. `AtStage`
gives for each label what the mapping makes of it: whether the target is held,
whether anything is borrowed, whether the function is redirected. It is, at the
labels behind the write of the JMP and at no other: before, no byte of the code is
a JMP's, and with the JMP all of the patch is there. `MappedSteps` says of a change
of the four mapped values which step of `HotSwap` it is; `MiddleStep` shows that
between attaching and detaching every request borrows, gives back or redirects,
`EndStep` that attaching, detaching and giving up are `Hold`, `Release` and `Refuse`,
with nothing borrowed when the target is let go. `TargetMaps` has the steps of the
target, and a process that is dead or killed stays so (`LivesBefore`).

`HealingLoopProofs` proves `TypeCorrect`, `TrackerExact` (`Spec => []FaultsExact`)
and `CountsOnlyFaults` (`Spec => []HealsOnlyFaults`) for all lists of operations on all
sets of addresses. `TrackerInv` relates the map to the operations so far: an
address is known iff it was allocated, and marked iff the block there is not
live; `LiveNext` says how *allocated* and *live* change with one operation,
`FaultIsDue` that the map then gives the right answer.

`PatchEngineProofs` proves `TypeCorrect`, `ReturnsBest` (`[]BestOfAll`),
`Elitism` (`[]BestSurvives`) and `SuccessIsTested` (`[]VerifiedPasses`) for all
numbers of generations and all populations of at least four (with fewer nobody
survives). `RankOnto` shows that ranks are a permutation: of two different
places one is ahead of the other and has a smaller set ahead of it, so ranks are
injective on a finite set. `SortedPopulation` follows, with the fact the search
rests on: a stable sort leaves the first member in place when it is among the
best. `ScoreStep` uses it for the one step at which the invariant is at stake.

`DaemonProofs` proves of `Injector`, for any number of calls and all layouts:

| Theorem | Statement |
|---|---|
| `TypeCorrect` | `Spec => []TypeOK` |
| `OnlyItself` | `Spec => []RunsItself`, given `Layout` |
| `OneWordBorrowed` | `Spec => []OneWordLeft`, given `Layout` |
| `LeadToPatches` | `Spec => []RedirectionsWhole`, given `Layout` |

`Layout` says that the five bytes at two fault addresses do not overlap, that the
word at one does not reach into a page, and that a page is not at address 0 and
holds a word: entries of different functions on Linux. The layout of
`daemon_injects` satisfies it. `CallInv` has the part that needs no memory: which
registers the target has at each step, that it is held while a step relies on
it, and that what the call takes for an address is a page once a write to it has
succeeded. `CodeInv` is about the memory. What a byte should be (`Fits`) is no
longer the target's own, since earlier calls have left JMPs and patches: a call
saves and gives back whatever was there. `Lent` says of the word at the
instruction pointer that `original_instr` fits there, so that writing it back
restores the code, and that this write cannot be refused, for a write to the same
word has succeeded. `FreshInv` says that the page of the call is none that an
earlier redirection leads to, and rests on `mmap` returning a page that is not in
use. A failed call may leave one word that does not fit: the syscall's, when the
wait behind it fails, or the one a failing write has torn (`WordOff`). It leaves
the target held, too, so that the next attach is refused and nothing is built on
that word; this is why the invariant is indexed by `traced` and the step, and asks
of the code that all of it fits only inside of a call and of a target that is not
held.

Of the loop it proves `LoopCalls` (`DaemonSpec => Spec` of `Injector`: a
refinement, by which all of the above holds of the daemon, `HealedRunsItself`),
`LoopTypeCorrect` (`[]DaemonTypeOK`), `InOrder` (`[]ServedInOrder`) for any number
of faults, and `ReportsMatch` (`[]ReportsTrue`), given that no page is at 0, which
the code's history variable takes for "not redirected". `MatchInv` allows for the
time between the write of the JMP and the report; a call that fails in between
has lost its target (`SwapEffect`).

`FaultDetectorProofs` proves `TypeCorrect` (`[]TypeOK`) without hypotheses, and
`ReportsMisuse` (`[]NoFalseAlarm`) and `MapIsHeap` (`[]TracksHeap`) given `Proper`:
heaps of two processes have no address in common, the map has room for all, and
programs get blocks from `malloc` only. Each of the three is needed: TLC refutes
`NoFalseAlarm` without it. Any number of threads interleave between the helper
calls of their probes. `HeapInv` is the map's agreement with the heap for
blocks, all of them in a process without mistakes, but for those an exit has
left; `KnownInv` is the converse for blocks that no call is at (`Mine`). `OneInv`
says that in such a process one thread at a time works on a block and `GoneInv`
that a block about to be freed has left the map, so that the address can be used
again.

`NoneMissed` (`[]MisusesReported`) is the other direction, given `Lasting`: heaps
apart, and no process exits, for an exit leaves entries that would make a wrong
free of the next process look right. The map may be full and other allocators
may be used. What `HeapInv` says of processes without mistakes has to be said of
addresses without one, since a process goes on after its first wrong free: a call
at such an address is alone with it and has it in use (`UseInv`), and an entry of
the map for it is in use, with no call at it but a free that has found it
(`HitInv`). So a free that is wrong finds nothing and reports, in the step that
makes the address a misused one, unless two frees overlap; reports stay
(`ToldInv`). TLC checked these parts on the configuration of `detector_misuse`
first.

`MutatorProofs` proves of `Mutator`, whose operators are defined by recursion on a
graph, for every source, every population size and all arguments:

| Theorem | Statement |
|---|---|
| `TypeCorrect` | `Spec => []TypeOK` |
| `KeepsFinished` | `Spec => FinishedKept` |
| `GuardsConserve` | `Spec => []Conservative` |
| `NullChecked` | `Spec => []NullSafe`, given `LenFree` |
| `BoundsChecked` | `Spec => []InBounds` |

`LenFree` asks for a source without a `len()` of its own: the code puts null checks
at attributes and subscripts only, so that a `len(v)` of the source may use None
whatever is done, and `NullSafe` would be false. The sources of `mutator` have none.

* `RequestAssumption` is what the parser returns: nodes with what their class
  asks for, numbered so that children come before their parents, which a tree
  always allows. Nothing is assumed of its size or shape.
* `Reach` is a recursive function on sets of nodes. `ClosureExists` shows that a
  function with its equation exists, `ClosureLeast` that every such function
  gives the least set that is closed under children; the second is a
  well-founded induction on the nodes that are left, with the property as a set
  and not as an operator. `ReachFacts` is what the rest uses. `DeepCopyFacts` says
  that a copy is as well formed as its source and has its children among the
  copies, for which `PlaceIsBijection` numbers the nodes of a finite set.
* `TypeOK` is not inductive: whether a guard closes a circle depends on the whole
  graph and on every visit under way. `WalkInv` therefore says that there is a
  *border* in the heap, above all that is finished and below all that is walked,
  which no child crosses (`Apart`), and that there are *ranks* which fall from a
  node to each child, and from each visit to the next one on the stack
  (`Descends`). Neither is a variable; the border moves up with each copy, and
  the ranks are chosen anew by each step. Where a guard takes the place of a node
  in one parent while others keep the node, all ranks are multiplied by eight,
  which makes room for the guard's own nodes between the parent and the node.
  A graph with such ranks is acyclic (`RankedIsAcyclic`), and a step that writes
  only above the border leaves what is below it as it was.
* `Fits` is what every visit method promises its caller, and `VisitedFits` that
  the six of them keep it; `LeaveRoot` and `LeaveChild`, the end of a visit at the
  root and below it, need not know which one it was.
* `Conservative` speaks of `Value`, a recursive function on nodes. It has its
  equation where ranks fall (`ValueEquation`: `EvaluationExists` by induction on the
  ranks, `EvaluationUnique` because two solutions that differ somewhere differ at a
  node of least rank). The invariant does not use it, since the tree is a graph
  under change whenever it is looked at. It says what a tree *means* instead
  (`Means`): there is a set of nodes, closed under children, and a value due at each
  of them that the node computes from those of its children, unless an exception
  is due, in which case the node may do anything. That last part is what a guard
  needs, which replaces an exception by None and leaves all else alone.
* `CopyMeans` carries such values over to a copy. `GuardKeeps` gives values to the new
  nodes of a guard, so that the guard has that of what it guards, by computing its
  test from the values of its operands (`NullGuardKeeps`, `BoundsGuardKeeps`);
  `RelinkKept` says that a child may be exchanged for one with the same value due.
  With that, `StepMeans` shows that every step keeps what the source, each finished
  candidate whose mutations are guards, and the one under way mean (`MeansInv`),
  separately for each set of arguments (`AllMean`). `MeansValue` gives the property
  back: what a root means is its value, or an exception was due.
* What a guard is for cannot be said node by node: after the walk a subscript may
  stand behind its test and, by another parent, in the test itself, and a later
  walk changes the tests. `SafeInv` keeps a *certificate* (`Safe`) of the graph,
  three relations in which each member has a reason: nodes that raise nothing of
  the kind (`S`); nodes that do not while a test of `v` and `s` lets the evaluation
  in (`D`); nodes that stand for `v`, being `v` or null checks around it (`T`),
  since null checks put after bounds checks come between a test and what it
  tests. The kind is None, an index out of bounds, or `len`: there is no `len()`.
* `Sound` says that a certificate is right, by the least rank at which one of the
  three is wrong; `TowerValues` and `TestOpens` are its two hard cases, null checks
  one around the other and a test that is true. Certificates survive a copy
  (`CopySafe`), what is added or changed elsewhere (`StaysSafe`, `Grown`) and a node
  that takes the place of another (`PutSafe`).
* `VisitSafe` is the visit of any mutation but the guarding one: what comes out of
  it can be taken for the node. `BuildSafe` is the visit of the guarding mutation:
  if the children are safe, what comes out is. Both rest on the shape of the
  guards (`NullGuardShape`, `BoundsGuardShape`, `EarlyReturnPrepends`).
* The walk has to be known better than for the other theorems: the node of a
  visit is the child that the visit below is at (`Threads`), none is visited
  inside of a visit of its own (`Deep`), and during null checks the children that
  are done are accesses no more (`TameDone`), which bounds checks under them need.
  `Stage` says what that amounts to before the guarding mutation, during it
  (`Building`: the children that are done are safe) and after it (`SafeWalk`: the
  tree is). TLC checked `Threads` and `TameDone` on the configuration of `mutator`
  first. A candidate is mutated in two ways at most and never twice in one
  (`Distinct`), so that no second guard of a kind comes around the first.
* `EnvAssumption` gives each name of a program a value that is no exception.
  A function that comes to its end returns None in `PyExpr`, as it does in Python,
  so that the theorem includes sources without a return.

`BaselineGeneratorProofs` proves `TypeCorrect`, `StoresOwnPaths` (`[]OwnPaths`),
`StoresFreshPaths` (`[]FreshPaths`) and `EndsWithWhole` (`[]EndsWhole`) for any
number of runs, edits, path files and tools that go on after their run. `DashboardProofs` proves `TypeCorrect`,
`CountsPending` (`[]PendingShown`) and `DisplayAgreement` (`[]DisplayAgrees`) for
all sizes of the displays and any number of faults; the invariant adds that a
fault is healed once at most and is not pending when it was (`Once`,
`HistoryKnown`), which makes the cardinalities of `PendingShown` add up.

Only model-checked: liveness (`LetsGo`, `SwapsRunning`, `EveryServed`,
`Terminates`), which is out of this prover's reach. Every invariant and every
action property of a passing run is the statement of a theorem.

## 5. What could follow

1. `TestTarget`: the fault loop of `test_target.c` under an injector, with the
   instruction pointer inside of the bytes that are replaced, and a second
   thread that runs while the first is held. Neither injector looks at either, so
   that the properties would be about what goes wrong.
2. The hex decoding in `main` of `patch_injector.c`, as a function from digits to
   bytes; a wrong digit leaves the byte undefined.

## 6. What is not modelled

* macOS variants: the mock of the injector prints; the mock host sends one event.
* The aarch64 variant of `inject_patch`: it does not compile
  (`saved_regs.rip` at line 202 is a field of the x86-64 registers).
* Benchmarks, the scripted demo, the SVG, mock kernel headers and build files:
  no state.
* The decoding of the patch in `main` of `patch_injector.c` (lines 225-233): it is
  pure, and bytes are known by their place in the patch.
* The target's own computation and threads: `Tracee` has its job stop, its
  registers and its code, which is what the injectors touch.
* Killing the C injector half way: the kernel then detaches a target that holds
  borrowed registers or code, and the repository has nothing that would repair
  it. `AllOrNothing` is about targets that `inject_patch` has returned from.
* What the engine's candidates mean as C programs, and nodes of Python that the
  mutator passes over.
* The use-after-free and Z3 demonstrations: a few fixed steps on a free list
  that is a part of `HealingLoop`'s, and single queries.
* On Linux the consumer of the daemon is a stub that sends nothing, so that
  `hot_swap_patch` is never called there as the repository stands: `Injector`
  models the function as `main` calls it when a fault does arrive.
