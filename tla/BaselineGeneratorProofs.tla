---------------------- MODULE BaselineGeneratorProofs ----------------------
(***************************************************************************)
(* Theorems about BaselineGenerator for any number of versions, runs and   *)
(* path files. The invariant follows the paths on their way from klee-out  *)
(* through the list into the baseline, and what the run knows of them: a   *)
(* directory that is being parsed is of this run and of the bitcode it     *)
(* has, which is not older than the run if it was compiled by it.          *)
(***************************************************************************)
EXTENDS BaselineGenerator, TLAPS

InRun == pc # "idle" => run >= 1

(* The bitcode a run has compiled, unless a clang left alone came after.   *)
Compiled ==
  compiled =>
    pc # "compile" /\ (pc = "klee" => bitcode = 0 \/ bitcode >= since \/ WorkedOn(bitcode))

(* A path is this run's own, or a tool left alone has a part in it.        *)
Own(p) ==
  /\ p.by = run \/ Outlived(p.by)
  /\ compiled => p.of >= since \/ WorkedOn(p.of)

(* What is parsed.                                                         *)
Parsed == pc = "parse" => \A p \in klee_out.files : Own(p)

(* What is to be stored.                                                   *)
Listed == pc \in {"open", "dump"} => \A p \in paths : p = Simulated \/ Own(p)

(* What is being stored.                                                   *)
Opened ==
  /\ pc \in {"compile", "klee", "parse", "open"} => db.run # run
  /\ pc = "dump" /\ db.run # 0 =>
       /\ db.run = run /\ db.since = since /\ db.compiled = compiled /\ ~db.whole

FlowInv == InRun /\ Compiled /\ Parsed /\ Listed /\ Opened

Inv == TypeOK /\ FlowInv /\ OwnPaths /\ FreshPaths /\ EndsWhole

-----------------------------------------------------------------------------

LEMMA SimulatedIsNone == Simulated \in Path /\ \A p \in Path : p = Simulated \/ p.by >= 1
BY BoundsAssumption DEF Path, Simulated

LEMMA InitInv == Init => Inv
<1> SUFFICES ASSUME Init PROVE Inv
  OBVIOUS
<1> USE BoundsAssumption DEF Init, NoDir, NoBaseline
<1>1. TypeOK
  <2>1. KleeOutOK
    BY DEF TypeOK, KleeOutOK
  <2>2. (db \in Baselines)
    BY DEF TypeOK, Counters, Baselines, FlowInv, InRun
  <2>3. Counters /\ Labels
    BY DEF TypeOK, Counters, Labels, Steps
  <2>4. Lists
    BY SimulatedIsNone DEF TypeOK, Lists, KleeOutOK
  <2>5. compiled \in BOOLEAN /\ left \subseteq Tool
    BY DEF TypeOK
  <2> QED
    BY <2>1, <2>2, <2>3, <2>4, <2>5 DEF TypeOK
<1>2. FlowInv
  <2>1. InRun /\ Compiled
    BY DEF TypeOK, Counters, Labels, FlowInv, InRun, Compiled, WorkedOn, Steps
  <2>2. Parsed /\ Listed
    BY SimulatedIsNone DEF TypeOK, Lists, KleeOutOK, FlowInv, InRun, Compiled, Parsed, Listed, Own, Outlived, WorkedOn, Steps
  <2>3. Opened
    BY DEF TypeOK, Counters, Baselines, FlowInv, InRun, Opened
  <2> QED
    BY <2>1, <2>2, <2>3 DEF FlowInv
<1>3. OwnPaths /\ FreshPaths
  BY DEF TypeOK, Counters, Baselines, FlowInv, Listed, Opened, OwnPaths, FreshPaths, Own, Outlived, WorkedOn
<1>4. EndsWhole
  BY DEF TypeOK, Counters, Baselines, FlowInv, InRun, Opened, EndsWhole
<1> QED
  BY <1>1, <1>2, <1>3, <1>4 DEF Inv

(* The files KLEE writes.                                                  *)
LEMMA KleeFiles ==
  ASSUME Inv, pc = "klee", KleeWrites
  PROVE  /\ KleeOutOK' /\ klee_out'.there
         /\ \A p \in klee_out'.files : p.by = run /\ p.of = bitcode
<1>1. PICK ids \in SUBSET PathIds :
        klee_out' = [there |-> TRUE,
                     files |-> {[id |-> i, by |-> run, of |-> bitcode] : i \in ids}]
  BY DEF KleeWrites
<1>2. run \in 1 .. MaxRuns /\ bitcode \in 1 .. MaxVersions
  BY BoundsAssumption DEF Inv, TypeOK, Counters, FlowInv, InRun, KleeWrites
<1>3. \A i \in ids : [id |-> i, by |-> run, of |-> bitcode] \in Path \ {Simulated}
  BY <1>1, <1>2 DEF Path, Simulated
<1> QED
  BY <1>1, <1>3 DEF KleeOutOK

-----------------------------------------------------------------------------
(* One lemma per action.                                                   *)

LEMMA StartInv == Inv /\ Start => Inv'
<1> SUFFICES ASSUME Inv, Start PROVE Inv'
  OBVIOUS
<1> USE BoundsAssumption DEF Inv, Start, files
<1>1. TypeOK'
  <2>1. KleeOutOK'
    BY DEF TypeOK, KleeOutOK
  <2>2. (db \in Baselines)'
    BY DEF TypeOK, Counters, Baselines, FlowInv, InRun
  <2>3. Counters' /\ Labels'
    BY DEF TypeOK, Counters, Labels, Steps
  <2>4. Lists'
    BY SimulatedIsNone DEF TypeOK, Lists, KleeOutOK
  <2>5. (compiled \in BOOLEAN /\ left \subseteq Tool)'
    <3>1. 1 .. run \subseteq 1 .. run' /\ UNCHANGED <<version, left>>
      BY DEF TypeOK, Counters
    <3>2. Tool \subseteq Tool'
      BY <3>1 DEF Tool
    <3> QED
      BY <3>1, <3>2 DEF TypeOK
  <2> QED
    BY <2>1, <2>2, <2>3, <2>4, <2>5 DEF TypeOK
<1>2. FlowInv'
  <2>1. InRun' /\ Compiled'
    BY DEF TypeOK, Counters, Labels, FlowInv, InRun, Compiled, WorkedOn, Steps
  <2>2. Parsed' /\ Listed'
    BY SimulatedIsNone DEF TypeOK, Lists, KleeOutOK, FlowInv, InRun, Compiled, Parsed, Listed, Own, Outlived, WorkedOn, Steps
  <2>3. Opened'
    BY DEF TypeOK, Counters, Baselines, FlowInv, InRun, Opened
  <2> QED
    BY <2>1, <2>2, <2>3 DEF FlowInv
<1>3. OwnPaths' /\ FreshPaths'
  BY DEF TypeOK, Counters, Baselines, FlowInv, Listed, Opened, OwnPaths, FreshPaths, Own, Outlived, WorkedOn
<1>4. EndsWhole'
  BY DEF TypeOK, Counters, Baselines, FlowInv, InRun, Opened, EndsWhole
<1> QED
  BY <1>1, <1>2, <1>3, <1>4

LEMMA CompileInv == Inv /\ generate_klee_bc => Inv'
<1> SUFFICES ASSUME Inv, generate_klee_bc PROVE Inv'
  OBVIOUS
<1> USE BoundsAssumption DEF Inv, generate_klee_bc, End
<1>1. TypeOK'
  <2>1. KleeOutOK'
    BY DEF TypeOK, KleeOutOK
  <2>2. (db \in Baselines)'
    BY DEF TypeOK, Counters, Baselines, FlowInv, InRun
  <2>3. Counters' /\ Labels'
    BY DEF TypeOK, Counters, Labels, Steps
  <2>4. Lists'
    BY SimulatedIsNone DEF TypeOK, Lists, KleeOutOK
  <2>5. (compiled \in BOOLEAN /\ left \subseteq Tool)'
    BY DEF TypeOK, Counters, Tool
  <2> QED
    BY <2>1, <2>2, <2>3, <2>4, <2>5 DEF TypeOK
<1>2. FlowInv'
  <2>1. InRun' /\ Compiled'
    BY DEF TypeOK, Counters, Labels, FlowInv, InRun, Compiled, WorkedOn, Steps
  <2>2. Parsed' /\ Listed'
    BY SimulatedIsNone DEF TypeOK, Lists, KleeOutOK, FlowInv, InRun, Compiled, Parsed, Listed, Own, Outlived, WorkedOn, Steps
  <2>3. Opened'
    BY DEF TypeOK, Counters, Baselines, FlowInv, InRun, Opened
  <2> QED
    BY <2>1, <2>2, <2>3 DEF FlowInv
<1>3. OwnPaths' /\ FreshPaths'
  BY DEF TypeOK, Counters, Baselines, FlowInv, Listed, Opened, OwnPaths, FreshPaths, Own, Outlived, WorkedOn
<1>4. EndsWhole'
  BY DEF TypeOK, Counters, Baselines, FlowInv, InRun, Opened, EndsWhole
<1> QED
  BY <1>1, <1>2, <1>3, <1>4

LEMMA RunKleeInv == Inv /\ run_klee => Inv'
<1> SUFFICES ASSUME Inv, run_klee PROVE Inv'
  OBVIOUS
<1> USE BoundsAssumption DEF Inv, run_klee, End
<1>0. KleeOutOK' /\ (pc' = "parse" => \A p \in klee_out'.files : p.by = run /\ p.of = bitcode)
  BY KleeFiles DEF TypeOK, KleeOutOK
<1>1. TypeOK'
  <2>1. KleeOutOK'
    BY <1>0 DEF TypeOK, KleeOutOK
  <2>2. (db \in Baselines)'
    BY DEF TypeOK, Counters, Baselines, FlowInv, InRun
  <2>3. Counters' /\ Labels'
    BY DEF TypeOK, Counters, Labels, Steps
  <2>4. Lists'
    BY SimulatedIsNone DEF TypeOK, Lists, KleeWrites
  <2>5. (compiled \in BOOLEAN /\ left \subseteq Tool)'
    BY DEF TypeOK, Counters, Tool
  <2> QED
    BY <2>1, <2>2, <2>3, <2>4, <2>5 DEF TypeOK
<1>2. FlowInv'
  <2>1. InRun' /\ Compiled'
    BY DEF TypeOK, Counters, Labels, FlowInv, InRun, Compiled, WorkedOn, Steps
  <2>2. Parsed'
    <3> SUFFICES ASSUME pc' = "parse", NEW p \in klee_out'.files PROVE Own(p)'
      BY DEF Parsed
    <3>1. /\ p.by = run /\ p.of = bitcode /\ bitcode # 0
          /\ UNCHANGED <<run, compiled, since, left>>
      BY <1>0 DEF KleeWrites
    <3>2. compiled => bitcode >= since \/ WorkedOn(bitcode)
      BY <3>1 DEF FlowInv, Compiled
    <3> QED
      BY <3>1, <3>2 DEF Own, WorkedOn
  <2>3. Listed'
    BY DEF Listed
  <2>4. Opened'
    BY DEF TypeOK, Counters, Baselines, FlowInv, InRun, Opened
  <2> QED
    BY <2>1, <2>2, <2>3, <2>4 DEF FlowInv
<1>3. OwnPaths' /\ FreshPaths'
  BY DEF TypeOK, Counters, Baselines, FlowInv, Listed, Opened, OwnPaths, FreshPaths, Own, Outlived, WorkedOn
<1>4. EndsWhole'
  BY DEF TypeOK, Counters, Baselines, FlowInv, InRun, Opened, EndsWhole
<1> QED
  BY <1>1, <1>2, <1>3, <1>4

LEMMA ParseInv == Inv /\ parse_klee_paths => Inv'
<1> SUFFICES ASSUME Inv, parse_klee_paths PROVE Inv'
  OBVIOUS
<1> USE BoundsAssumption DEF Inv, parse_klee_paths, files
<1>1. TypeOK'
  <2>1. KleeOutOK'
    BY DEF TypeOK, KleeOutOK
  <2>2. (db \in Baselines)'
    BY DEF TypeOK, Counters, Baselines, FlowInv, InRun
  <2>3. Counters' /\ Labels'
    BY DEF TypeOK, Counters, Labels, Steps
  <2>4. Lists'
    BY SimulatedIsNone DEF TypeOK, Lists, KleeOutOK
  <2>5. (compiled \in BOOLEAN /\ left \subseteq Tool)'
    BY DEF TypeOK, Counters, Tool
  <2> QED
    BY <2>1, <2>2, <2>3, <2>4, <2>5 DEF TypeOK
<1>2. FlowInv'
  <2>1. InRun' /\ Compiled'
    BY DEF TypeOK, Counters, Labels, FlowInv, InRun, Compiled, WorkedOn, Steps
  <2>2. Parsed' /\ Listed'
    BY SimulatedIsNone DEF TypeOK, Lists, KleeOutOK, FlowInv, InRun, Compiled, Parsed, Listed, Own, Outlived, WorkedOn, Steps
  <2>3. Opened'
    BY DEF TypeOK, Counters, Baselines, FlowInv, InRun, Opened
  <2> QED
    BY <2>1, <2>2, <2>3 DEF FlowInv
<1>3. OwnPaths' /\ FreshPaths'
  BY DEF TypeOK, Counters, Baselines, FlowInv, Listed, Opened, OwnPaths, FreshPaths, Own, Outlived, WorkedOn
<1>4. EndsWhole'
  BY DEF TypeOK, Counters, Baselines, FlowInv, InRun, Opened, EndsWhole
<1> QED
  BY <1>1, <1>2, <1>3, <1>4

LEMMA OpenInv == Inv /\ OpenBaseline => Inv'
<1> SUFFICES ASSUME Inv, OpenBaseline PROVE Inv'
  OBVIOUS
<1> USE BoundsAssumption DEF Inv, OpenBaseline, End
<1>1. TypeOK'
  <2>1. KleeOutOK'
    BY DEF TypeOK, KleeOutOK
  <2>2. (db \in Baselines)'
    <3>1. /\ run \in 0 .. run /\ since \in 0 .. version /\ compiled \in BOOLEAN
          /\ {} \in SUBSET Path /\ FALSE \in BOOLEAN
      BY DEF TypeOK, Counters
    <3>2. [run |-> run, whole |-> FALSE, paths |-> {}, since |-> since, compiled |-> compiled]
            \in Baselines
      BY <3>1, Zenon DEF Baselines
    <3> QED
      BY <3>2 DEF TypeOK, Baselines
  <2>3. Counters' /\ Labels'
    BY DEF TypeOK, Counters, Labels, Steps
  <2>4. Lists'
    BY SimulatedIsNone DEF TypeOK, Lists, KleeOutOK
  <2>5. (compiled \in BOOLEAN /\ left \subseteq Tool)'
    BY DEF TypeOK, Counters, Tool
  <2> QED
    BY <2>1, <2>2, <2>3, <2>4, <2>5 DEF TypeOK
<1>2. FlowInv'
  <2>1. InRun' /\ Compiled'
    BY DEF TypeOK, Counters, Labels, FlowInv, InRun, Compiled, WorkedOn, Steps
  <2>2. Parsed' /\ Listed'
    BY SimulatedIsNone DEF TypeOK, Lists, KleeOutOK, FlowInv, InRun, Compiled, Parsed, Listed, Own, Outlived, WorkedOn, Steps
  <2>3. Opened'
    BY DEF TypeOK, Counters, Baselines, FlowInv, InRun, Opened
  <2> QED
    BY <2>1, <2>2, <2>3 DEF FlowInv
<1>3. OwnPaths' /\ FreshPaths'
  BY DEF TypeOK, Counters, Baselines, FlowInv, Listed, Opened, OwnPaths, FreshPaths, Own, Outlived, WorkedOn
<1>4. EndsWhole'
  BY DEF TypeOK, Counters, Baselines, FlowInv, InRun, Opened, EndsWhole
<1> QED
  BY <1>1, <1>2, <1>3, <1>4

LEMMA DumpInv == Inv /\ DumpBaseline => Inv'
<1> SUFFICES ASSUME Inv, DumpBaseline PROVE Inv'
  OBVIOUS
<1> USE BoundsAssumption DEF Inv, DumpBaseline, End
<1>1. TypeOK'
  <2>1. KleeOutOK'
    BY DEF TypeOK, KleeOutOK
  <2>2. (db \in Baselines)'
    <3>1. [db EXCEPT !.whole = TRUE, !.paths = paths] \in Baselines
      <4>1. paths \in SUBSET Path /\ TRUE \in BOOLEAN
        BY DEF TypeOK, Lists
      <4> QED
        BY <4>1, Zenon DEF TypeOK, Baselines
    <3> QED
      BY <3>1 DEF TypeOK, Baselines
  <2>3. Counters' /\ Labels'
    BY DEF TypeOK, Counters, Labels, Steps
  <2>4. Lists'
    BY SimulatedIsNone DEF TypeOK, Lists, KleeOutOK
  <2>5. (compiled \in BOOLEAN /\ left \subseteq Tool)'
    BY DEF TypeOK, Counters, Tool
  <2> QED
    BY <2>1, <2>2, <2>3, <2>4, <2>5 DEF TypeOK
<1>2. FlowInv'
  <2>1. InRun' /\ Compiled'
    BY DEF TypeOK, Counters, Labels, FlowInv, InRun, Compiled, WorkedOn, Steps
  <2>2. Parsed' /\ Listed'
    BY SimulatedIsNone DEF TypeOK, Lists, KleeOutOK, FlowInv, InRun, Compiled, Parsed, Listed, Own, Outlived, WorkedOn, Steps
  <2>3. Opened'
    BY DEF TypeOK, Counters, Baselines, FlowInv, InRun, Opened
  <2> QED
    BY <2>1, <2>2, <2>3 DEF FlowInv
<1>3. OwnPaths' /\ FreshPaths'
  <2>1. CASE UNCHANGED db
    BY <2>1 DEF OwnPaths, FreshPaths, Own, Outlived, WorkedOn
  <2>2. CASE db.run = run /\ db' = [db EXCEPT !.whole = TRUE, !.paths = paths]
    <3>1. /\ db'.paths = paths /\ db'.run = run
          /\ db'.since = db.since /\ db'.compiled = db.compiled
      BY <2>2 DEF TypeOK, Baselines
    <3>2. db.since = since /\ db.compiled = compiled
      BY <2>2 DEF TypeOK, Counters, FlowInv, InRun, Opened
    <3> QED
      BY <3>1, <3>2 DEF FlowInv, Listed, OwnPaths, FreshPaths, Own, Outlived, WorkedOn
  <2> QED
    BY <2>1, <2>2
<1>4. EndsWhole'
  BY DEF TypeOK, Counters, Baselines, FlowInv, InRun, Opened, EndsWhole
<1> QED
  BY <1>1, <1>2, <1>3, <1>4

LEMMA EditInv == Inv /\ EditSource => Inv'
<1> SUFFICES ASSUME Inv, EditSource PROVE Inv'
  OBVIOUS
<1> USE BoundsAssumption DEF Inv, EditSource, files
<1>1. TypeOK'
  <2>1. KleeOutOK'
    BY DEF TypeOK, KleeOutOK
  <2>2. (db \in Baselines)'
    BY DEF TypeOK, Counters, Baselines, FlowInv, InRun
  <2>3. Counters' /\ Labels'
    BY DEF TypeOK, Counters, Labels, Steps
  <2>4. Lists'
    BY SimulatedIsNone DEF TypeOK, Lists, KleeOutOK
  <2>5. (compiled \in BOOLEAN /\ left \subseteq Tool)'
    BY DEF TypeOK, Counters, Tool
  <2> QED
    BY <2>1, <2>2, <2>3, <2>4, <2>5 DEF TypeOK
<1>2. FlowInv'
  <2>1. InRun' /\ Compiled'
    BY DEF TypeOK, Counters, Labels, FlowInv, InRun, Compiled, WorkedOn, Steps
  <2>2. Parsed' /\ Listed'
    BY SimulatedIsNone DEF TypeOK, Lists, KleeOutOK, FlowInv, InRun, Compiled, Parsed, Listed, Own, Outlived, WorkedOn, Steps
  <2>3. Opened'
    BY DEF TypeOK, Counters, Baselines, FlowInv, InRun, Opened
  <2> QED
    BY <2>1, <2>2, <2>3 DEF FlowInv
<1>3. OwnPaths' /\ FreshPaths'
  BY DEF TypeOK, Counters, Baselines, FlowInv, Listed, Opened, OwnPaths, FreshPaths, Own, Outlived, WorkedOn
<1>4. EndsWhole'
  BY DEF TypeOK, Counters, Baselines, FlowInv, InRun, Opened, EndsWhole
<1> QED
  BY <1>1, <1>2, <1>3, <1>4

LEMMA CleanInv == Inv /\ Clean => Inv'
<1> SUFFICES ASSUME Inv, Clean PROVE Inv'
  OBVIOUS
<1> USE BoundsAssumption DEF Inv, Clean, NoDir, NoBaseline
<1>1. TypeOK'
  <2>1. KleeOutOK'
    BY DEF TypeOK, KleeOutOK
  <2>2. (db \in Baselines)'
    <3>1. NoBaseline \in Baselines
      BY DEF TypeOK, Counters, Baselines
    <3> HIDE DEF NoBaseline
    <3> QED
      BY <3>1 DEF TypeOK, Baselines
  <2>3. Counters' /\ Labels'
    BY DEF TypeOK, Counters, Labels, Steps
  <2>4. Lists'
    BY SimulatedIsNone DEF TypeOK, Lists, KleeOutOK
  <2>5. (compiled \in BOOLEAN /\ left \subseteq Tool)'
    BY DEF TypeOK, Counters, Tool
  <2> QED
    BY <2>1, <2>2, <2>3, <2>4, <2>5 DEF TypeOK
<1>2. FlowInv'
  <2>1. InRun' /\ Compiled'
    BY DEF TypeOK, Counters, Labels, FlowInv, InRun, Compiled, WorkedOn, Steps
  <2>2. Parsed' /\ Listed'
    BY SimulatedIsNone DEF TypeOK, Lists, KleeOutOK, FlowInv, InRun, Compiled, Parsed, Listed, Own, Outlived, WorkedOn, Steps
  <2>3. Opened'
    BY DEF TypeOK, Counters, Baselines, FlowInv, InRun, Opened
  <2> QED
    BY <2>1, <2>2, <2>3 DEF FlowInv
<1>3. OwnPaths' /\ FreshPaths'
  BY DEF TypeOK, Counters, Baselines, FlowInv, Listed, Opened, OwnPaths, FreshPaths, Own, Outlived, WorkedOn
<1>4. EndsWhole'
  BY DEF TypeOK, Counters, Baselines, FlowInv, InRun, Opened, EndsWhole
<1> QED
  BY <1>1, <1>2, <1>3, <1>4

(* The tools left alone after a kill are among those there were, or one is *)
(* of this run.                                                            *)
LEMMA LeftKept ==
  ASSUME Inv, Killed
  PROVE  /\ left \subseteq left' /\ left' \subseteq Tool
         /\ KleeOutOK'
<1>1. run \in 1 .. run /\ (source # 0 => source \in 1 .. version)
      /\ (bitcode # 0 => bitcode \in 1 .. version)
  BY BoundsAssumption DEF Inv, TypeOK, Counters, FlowInv, InRun, Killed
<1>2. \A stage \in {"clang", "new", "klee"}, of \in 1 .. version :
        left \subseteq Left(stage, of) /\ Left(stage, of) \subseteq Tool
  BY <1>1 DEF Left, Tool, Inv, TypeOK
<1>3. left \subseteq left' /\ left' \subseteq Tool
  BY <1>1, <1>2 DEF Killed, KleeWrites, Inv, TypeOK
<1>4. KleeOutOK'
  BY KleeFiles DEF Killed, Inv, TypeOK, KleeOutOK
<1> QED
  BY <1>3, <1>4

LEMMA KilledInv == Inv /\ Killed => Inv'
<1> SUFFICES ASSUME Inv, Killed PROVE Inv'
  OBVIOUS
<1>0. /\ left \subseteq left' /\ left' \subseteq Tool /\ KleeOutOK'
      /\ pc # "idle" /\ pc' = "idle" /\ last' = "killed"
      /\ UNCHANGED <<version, source, bitcode, db, run, paths, since, compiled>>
  BY LeftKept DEF Killed, End
<1> USE BoundsAssumption DEF Inv
<1>1. TypeOK'
  <2>1. (db \in Baselines)'
    BY <1>0 DEF TypeOK, Baselines
  <2>2. Counters' /\ Labels'
    BY <1>0 DEF TypeOK, Counters, Labels, Steps
  <2>3. Lists'
    BY <1>0 DEF TypeOK, Lists
  <2>4. (compiled \in BOOLEAN /\ left \subseteq Tool)'
    BY <1>0 DEF TypeOK, Tool
  <2> QED
    BY <1>0, <2>1, <2>2, <2>3, <2>4 DEF TypeOK
<1>2. FlowInv'
  BY <1>0 DEF FlowInv, InRun, Compiled, Parsed, Listed, Opened
<1>3. OwnPaths' /\ FreshPaths'
  BY <1>0 DEF OwnPaths, FreshPaths, Outlived, WorkedOn
<1>4. EndsWhole'
  <2>1. pc = "dump" /\ db.run # 0 => db.run = run /\ ~db.whole
    BY DEF FlowInv, Opened
  <2>2. pc # "dump" => db.run # run
    BY <1>0 DEF FlowInv, Opened, TypeOK, Labels, Steps
  <2> QED
    BY <1>0, <2>1, <2>2 DEF EndsWhole
<1> QED
  BY <1>1, <1>2, <1>3, <1>4

(* What a tool left alone does leaves all the others, and what it has been *)
(* working on; the files it adds are its own.                              *)
LEMMA ToolFiles ==
  ASSUME Inv, ToolGoesOn
  PROVE  /\ left' \subseteq Tool /\ KleeOutOK'
         /\ \A n : Outlived(n) => Outlived(n)'
         /\ \A v : WorkedOn(v) => WorkedOn(v)'
         /\ bitcode' \in 0 .. version
         /\ bitcode' = bitcode \/ bitcode' = 0 \/ \E o \in left' : o.of = bitcode'
         /\ \A p \in klee_out'.files :
              p \in klee_out.files \/ (Outlived(p.by)' /\ WorkedOn(p.of)')
<1>1. PICK o \in left : ClangGoesOn(o) \/ KleeBegins(o) \/ KleeGoesOn(o)
  BY DEF ToolGoesOn
<1>2. o \in Tool /\ o.by \in 1 .. run /\ o.of \in 1 .. version
  BY <1>1 DEF Inv, TypeOK, Tool
<1>3. \A st \in {"ended", "klee"} :
        LET q == [o EXCEPT !.stage = st] IN
          q \in Tool /\ q.stage = st /\ q.by = o.by /\ q.of = o.of
  BY <1>2 DEF Tool
<1>4. CASE ClangGoesOn(o)
  <2> DEFINE q == [o EXCEPT !.stage = "ended"]
  <2>1. left' = (left \ {o}) \cup {q} /\ klee_out' = klee_out /\ o.stage = "clang"
    BY <1>4 DEF ClangGoesOn
  <2>2. q \in Tool /\ q.by = o.by /\ q.of = o.of
    BY <1>3
  <2> HIDE DEF q
  <2>3. \A n : Outlived(n) => Outlived(n)'
    BY <2>1 DEF Outlived
  <2>4. \A v : WorkedOn(v) => WorkedOn(v)'
    BY <2>1, <2>2 DEF WorkedOn
  <2>5. bitcode' \in {o.of, 0} /\ \E r \in left' : r.of = o.of
    BY <1>4, <2>1, <2>2 DEF ClangGoesOn
  <2>6. bitcode' \in 0 .. version
    BY <1>2, <2>5, BoundsAssumption DEF Inv, TypeOK, Counters
  <2>7. left' \subseteq Tool /\ KleeOutOK'
    BY <2>1, <2>2 DEF Inv, TypeOK, KleeOutOK
  <2> QED
    BY <2>1, <2>3, <2>4, <2>5, <2>6, <2>7
<1>5. CASE KleeBegins(o)
  <2> DEFINE q == [o EXCEPT !.stage = "klee"]
  <2>1. /\ left' = (left \ {o}) \cup {q} /\ bitcode' = bitcode /\ o.stage = "new"
        /\ klee_out' = [there |-> TRUE, files |-> {}]
    BY <1>5 DEF KleeBegins
  <2>2. q \in Tool /\ q.by = o.by /\ q.of = o.of
    BY <1>3
  <2> HIDE DEF q
  <2>3. \A n : Outlived(n) => Outlived(n)'
    BY <2>1 DEF Outlived
  <2>4. \A v : WorkedOn(v) => WorkedOn(v)'
    BY <2>1, <2>2 DEF WorkedOn
  <2>5. left' \subseteq Tool /\ KleeOutOK' /\ klee_out'.files = {}
    BY <2>1, <2>2 DEF Inv, TypeOK, KleeOutOK
  <2> QED
    BY <2>1, <2>3, <2>4, <2>5 DEF Inv, TypeOK, Counters
<1>6. CASE KleeGoesOn(o)
  <2>1. PICK i \in PathIds :
          klee_out' = [there |-> TRUE,
                       files |-> {p \in klee_out.files : p.id # i}
                                   \cup {[id |-> i, by |-> o.by, of |-> o.of]}]
    BY <1>6 DEF KleeGoesOn
  <2>2. UNCHANGED <<bitcode, left>> /\ o.stage = "klee"
    BY <1>6 DEF KleeGoesOn
  <2> DEFINE f == [id |-> i, by |-> o.by, of |-> o.of]
  <2>3. o.by \in 1 .. MaxRuns /\ o.of \in 1 .. MaxVersions
    BY <1>2, BoundsAssumption DEF Inv, TypeOK, Counters
  <2>4. f \in Path \ {Simulated} /\ f.by = o.by /\ f.of = o.of
    BY <2>3 DEF Path, Simulated
  <2> HIDE DEF f
  <2>5. klee_out' = [there |-> TRUE, files |-> {p \in klee_out.files : p.id # i} \cup {f}]
    BY <2>1 DEF f
  <2>6. KleeOutOK'
    BY <2>4, <2>5 DEF Inv, TypeOK, KleeOutOK
  <2>7. \A p \in klee_out'.files : p \in klee_out.files \/ p = f
    BY <2>5
  <2>8. Outlived(f.by)' /\ WorkedOn(f.of)'
    BY <1>1, <2>2, <2>4 DEF Outlived, WorkedOn
  <2>9. (\A n : Outlived(n) => Outlived(n)') /\ (\A v : WorkedOn(v) => WorkedOn(v)')
    BY <2>2 DEF Outlived, WorkedOn
  <2> QED
    BY <2>2, <2>6, <2>7, <2>8, <2>9 DEF Inv, TypeOK, Counters
<1> QED
  BY <1>1, <1>4, <1>5, <1>6

LEMMA ToolInv == Inv /\ ToolGoesOn => Inv'
<1> SUFFICES ASSUME Inv, ToolGoesOn PROVE Inv'
  OBVIOUS
<1>0. UNCHANGED <<version, source, db, run, pc, paths, last, since, compiled>>
  BY DEF ToolGoesOn
<1> USE ToolFiles, BoundsAssumption DEF Inv
<1>1. TypeOK'
  <2>1. (db \in Baselines)'
    BY <1>0 DEF TypeOK, Baselines
  <2>2. Counters' /\ Labels'
    BY <1>0 DEF TypeOK, Counters, Labels, Steps
  <2>3. Lists'
    BY <1>0 DEF TypeOK, Lists
  <2>4. (compiled \in BOOLEAN /\ left \subseteq Tool)'
    BY <1>0 DEF TypeOK, Tool
  <2> QED
    BY <2>1, <2>2, <2>3, <2>4 DEF TypeOK
<1>2. FlowInv'
  <2>1. \A p : Own(p) => Own(p)'
    BY <1>0 DEF Own
  <2>2. InRun' /\ Compiled'
    <3>1. bitcode' = bitcode \/ bitcode' = 0 \/ \E o \in left' : o.of = bitcode'
      BY ToolFiles
    <3>2. WorkedOn(bitcode) => \E o \in left' : o.of = bitcode
      BY ToolFiles DEF WorkedOn
    <3> QED
      BY <1>0, <3>1, <3>2 DEF FlowInv, InRun, Compiled, WorkedOn
  <2>3. Parsed'
    BY <1>0, <2>1 DEF FlowInv, Parsed, Own
  <2>4. Listed' /\ Opened'
    BY <1>0, <2>1 DEF FlowInv, Listed, Opened
  <2> QED
    BY <2>2, <2>3, <2>4 DEF FlowInv
<1>3. OwnPaths' /\ FreshPaths'
  BY <1>0 DEF OwnPaths, FreshPaths
<1>4. EndsWhole'
  BY <1>0 DEF EndsWhole
<1> QED
  BY <1>1, <1>2, <1>3, <1>4

LEMMA StepInv == Inv /\ [Next]_vars => Inv'
<1>1. Inv /\ UNCHANGED vars => Inv'
  BY DEF vars, files, Inv, TypeOK, Counters, Labels, Lists, KleeOutOK, Tool, Own, Outlived,
     WorkedOn, Baselines, FlowInv, InRun, Compiled, Parsed, Listed, Opened,
     OwnPaths, FreshPaths, EndsWhole
<1> QED
  BY <1>1, StartInv, CompileInv, RunKleeInv, ParseInv, OpenInv, DumpInv, EditInv, CleanInv,
     KilledInv, ToolInv DEF Next

-----------------------------------------------------------------------------

(* The state keeps its type.                                               *)
THEOREM TypeCorrect == Spec => []TypeOK
<1>1. Inv => TypeOK
  BY DEF Inv
<1> QED
  BY <1>1, InitInv, StepInv, PTL DEF Spec

(* No baseline ever holds paths another run has found, unless the KLEE of  *)
(* that run has outlived it.                                               *)
THEOREM StoresOwnPaths == Spec => []OwnPaths
<1>1. Inv => OwnPaths
  BY DEF Inv
<1> QED
  BY <1>1, InitInv, StepInv, PTL DEF Spec

(* A run that was told its bitcode is compiled stores no older paths, but  *)
(* for those a tool of a killed run has slipped in.                        *)
THEOREM StoresFreshPaths == Spec => []FreshPaths
<1>1. Inv => FreshPaths
  BY DEF Inv
<1> QED
  BY <1>1, InitInv, StepInv, PTL DEF Spec

(* Wherever runs end, the baseline is complete iff its run was done.       *)
THEOREM EndsWithWhole == Spec => []EndsWhole
<1>1. Inv => EndsWhole
  BY DEF Inv
<1> QED
  BY <1>1, InitInv, StepInv, PTL DEF Spec
=============================================================================
