------------------------------- MODULE Daemon -------------------------------
(***************************************************************************)
(* The loop of daemon/src/main.rs: faults come in through a channel, one   *)
(* thread takes them one after the other, waits for the patch engine, and  *)
(* hot-swaps the process with hot_swap_patch (module Injector) when the    *)
(* engine has exited with success. Nothing ends the loop: main keeps a     *)
(* sender of its own channel, and the threads with the others do not end.  *)
(*                                                                         *)
(* The program's own senders send one fault (mock_host.rs) or none         *)
(* (ebpf_consumer.rs, where the ring's callback is a comment); here they   *)
(* send any, at any time.                                                  *)
(***************************************************************************)
EXTENDS Injector, Sequences

VARIABLES
  rx,       (* The channel: the addresses of the faults in it.              *)
  script,   (* ./healing/patch_engine.py exists, seen from the directory    *)
            (* the daemon was started in.                                   *)
  serving,  (* The fault taken from the channel and not yet dealt with, if  *)
            (* any. While pc = "recv", the engine is running for it.        *)
  reports,  (* History: the last message printed for each fault.            *)
  sent      (* History: the faults that were sent.                          *)

loop  == <<rx, script, serving, reports, sent>>
dvars == <<vars, loop>>

Outcomes == {"simulated", "crashed", "failed", "completed"}

(* What a fault is reported as, and the queue, are of their types; a call  *)
(* of the injector is for the fault that is being served.                  *)
DaemonTypeOK ==
  /\ TypeOK
  /\ rx \in Seq(FaultAddrs) /\ sent \in Seq(FaultAddrs) /\ script \in BOOLEAN
  /\ serving \in Seq(FaultAddrs) /\ Len(serving) <= 1
  /\ reports \in Seq([addr : FaultAddrs, outcome : Outcomes])
  /\ pc \in Steps => serving = <<fault_addr>>

DaemonInit ==
  /\ Init
  /\ script \in BOOLEAN
  /\ rx = << >> /\ serving = << >> /\ reports = << >> /\ sent = << >>

Report(outcome) ==
  /\ reports' = Append(reports, [addr |-> Head(serving), outcome |-> outcome])
  /\ serving' = << >>

Send ==
  /\ pc # "exited" /\ Len(sent) < MaxCalls
  /\ \E a \in FaultAddrs : rx' = Append(rx, a) /\ sent' = Append(sent, a)
  /\ UNCHANGED <<vars, script, serving, reports>>

(* Mutated: the faults that came in meanwhile are dropped.                 *)
ReceiveLatest ==
  /\ pc = "recv" /\ serving = << >> /\ rx # << >>
  /\ rx' = << >>
  /\ IF script
       THEN serving' = <<rx[Len(rx)]>> /\ UNCHANGED reports
       ELSE /\ reports' = Append(reports, [addr |-> rx[Len(rx)], outcome |-> "simulated"])
            /\ UNCHANGED serving
  /\ UNCHANGED <<vars, script, sent>>

(* recv, up to the start of the engine. Without the script the healing is  *)
(* only printed (simulate_healing_flow) and the loop goes on.              *)
Receive ==
  /\ pc = "recv" /\ serving = << >> /\ rx # << >>
  /\ rx' = Tail(rx)
  /\ IF script
       THEN serving' = <<Head(rx)>> /\ UNCHANGED reports
       ELSE /\ reports' = Append(reports, [addr |-> Head(rx), outcome |-> "simulated"])
            /\ UNCHANGED serving
  /\ UNCHANGED <<vars, script, sent>>

(* The engine has ended: with success; with an exception; or there was no  *)
(* python3 to run it.                                                      *)
EngineEnds ==
  /\ pc = "recv" /\ serving # << >>
  /\ \/ Call /\ fault_addr' = Head(serving) /\ UNCHANGED <<serving, reports>>
     \/ \E outcome \in {"crashed", "simulated"} : Report(outcome) /\ UNCHANGED vars
  /\ UNCHANGED <<rx, script, sent>>

(* Mutated: whatever the injector returns, the healing is completed.       *)
HotSwapUnchecked ==
  /\ Step
  /\ IF pc' = "recv" THEN Report("completed") ELSE UNCHANGED <<serving, reports>>
  /\ UNCHANGED <<rx, script, sent>>

(* A step of hot_swap_patch, and what is printed when it returns.          *)
HotSwap ==
  /\ Step
  /\ IF pc' = "recv" THEN Report(IF result' = "ok" THEN "completed" ELSE "failed")
                     ELSE UNCHANGED <<serving, reports>>
  /\ UNCHANGED <<rx, script, sent>>

DaemonNext ==
  \/ Send \/ Receive \/ EngineEnds \/ HotSwap
  \/ DaemonExits /\ UNCHANGED loop
  \/ TargetStep /\ UNCHANGED loop

(* The daemon is a running process. The engine ends: its loops do (module  *)
(* PatchEngine), and its query to Z3 has two bounded unknowns. Linux runs  *)
(* a resumed tracee.                                                       *)
DaemonFairness ==
  /\ WF_dvars(Receive) /\ WF_dvars(EngineEnds) /\ WF_dvars(HotSwap)
  /\ WF_dvars(SignalStop /\ Kept /\ UNCHANGED loop)
  /\ WF_dvars(SyscallReturns(PatchSize) /\ Kept /\ UNCHANGED loop)

DaemonSpec == DaemonInit /\ [][DaemonNext]_dvars /\ DaemonFairness

-----------------------------------------------------------------------------
(* Properties.                                                             *)

(* Every fault that was sent is dealt with or waiting, once, and they are  *)
(* taken in the order they came, whatever happens to those before them and *)
(* whenever they arrive.                                                   *)
ServedInOrder ==
  [n \in DOMAIN reports |-> reports[n].addr] \o serving \o rx = sent

(* While the daemon waits, the functions of a living target into which a   *)
(* call has written its JMP are those for which it has printed "Healing    *)
(* cycle completed" (line 106), and a target that was healed last has been *)
(* let go: a call that failed half way counts as no redirection, and an    *)
(* engine that crashed or is not there has made none. By RunsItself these  *)
(* are the redirections of a target that is not held. In a held one the    *)
(* bytes of a JMP that a failing write has left come on top (OneWordLeft). *)
ReportsTrue ==
  pc = "recv" /\ Alive =>
    /\ \A f \in FaultAddrs :
         installed[f] # 0 <=> [addr |-> f, outcome |-> "completed"] \in
                                {reports[n] : n \in DOMAIN reports}
    /\ reports # << >> /\ result = "ok" => ~traced

(* Every fault that was sent is dealt with in the end, unless the daemon   *)
(* is killed: it never waits for a stop that does not come, and no failure *)
(* ends the loop.                                                          *)
EveryServed ==
  \A n \in 1 .. MaxCalls :
    Len(sent) >= n ~> Len(reports) >= n \/ pc = "exited"
=============================================================================
