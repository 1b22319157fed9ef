------------------------- MODULE BaselineGenerator -------------------------
(***************************************************************************)
(* healing/baseline_generator.py: one run after the other compiles the     *)
(* source to bitcode, has KLEE explore it, and stores the paths; at the    *)
(* failures it catches it goes on with what there is, in the end with      *)
(* simulated paths. The runs meet in files that outlive them, and around   *)
(* them somebody edits the source, cleans up, and kills them; the tool a   *)
(* killed run has waited for may go on alone.                              *)
(***************************************************************************)
EXTENDS Naturals, FiniteSets

CONSTANTS
  PathIds,       (* The names KLEE gives to its path files.                 *)
  MaxVersions,   (* Bound: the source is edited less often than this.       *)
  MaxRuns        (* Bound: the runs that are explored.                      *)

ASSUME BoundsAssumption == MaxVersions \in Nat \ {0} /\ MaxRuns \in Nat

VARIABLES
  version,   (* How often the source was written; versions start at 1.      *)
  source,    (* binary.c: its version, 0 when there is no file.             *)
  bitcode,   (* binary.bc: the version it was made of, or 0.                *)
  klee_out,  (* The directory klee-out: there, and the path files in it.    *)
  db,        (* golden_paths.json: its run, 0 when there is no file.        *)
  run,       (* The number of the run.                                      *)
  pc,        (* Its next step, "idle" between two runs.                     *)
  paths,     (* The list that is to be stored.                              *)
  last,      (* How the last run ended: "done", "killed", or the step that  *)
             (* raised an exception nobody caught.                          *)
  since,     (* History: `version` when the run started.                    *)
  compiled,  (* What generate_klee_bc returned.                             *)
  left       (* The tools that have outlived their killed runs.             *)

files == <<bitcode, klee_out, db>>
vars  == <<version, source, files, run, pc, paths, last, since, compiled, left>>

Simulated == [id |-> "simulated", by |-> 0, of |-> 0]

(* A path: its name, the run whose KLEE found it, the version it is in.    *)
Path == [id : PathIds, by : 1 .. MaxRuns, of : 1 .. MaxVersions] \cup {Simulated}

NoDir      == [there |-> FALSE, files |-> {}]
NoBaseline == [run |-> 0, whole |-> FALSE, paths |-> {}, since |-> 0, compiled |-> FALSE]

Steps == {"compile", "klee", "parse", "open", "dump"}

Baselines ==
  [run : 0 .. run, whole : BOOLEAN, paths : SUBSET Path, since : 0 .. version,
   compiled : BOOLEAN]

(* A tool left alone: clang at work; KLEE that is about to make its        *)
(* directory, or has made it; and clang that has ended. `of` is the        *)
(* version it works on.                                                    *)
Tool == [stage : {"clang", "new", "klee", "ended"}, by : 1 .. run, of : 1 .. version]

(* A directory that is not there has no files.                             *)
KleeOutOK ==
  /\ klee_out \in [there : BOOLEAN, files : SUBSET (Path \ {Simulated})]
  /\ ~klee_out.there => klee_out.files = {}

Counters ==
  /\ version \in 1 .. MaxVersions /\ source \in {0, version} /\ bitcode \in 0 .. version
  /\ run \in 0 .. MaxRuns /\ since \in 0 .. version

Labels == pc \in Steps \cup {"idle"} /\ last \in Steps \cup {"none", "done", "killed"}

(* What is simulated is not mixed with what was found.                     *)
Lists == paths \subseteq Path /\ (Simulated \in paths => paths = {Simulated})

TypeOK ==
  /\ Counters /\ Labels /\ Lists /\ KleeOutOK
  /\ db \in Baselines /\ compiled \in BOOLEAN /\ left \subseteq Tool

Init ==
  /\ version = 1 /\ source \in {0, 1} /\ bitcode = 0
  /\ klee_out = NoDir /\ db = NoBaseline
  /\ run = 0 /\ pc = "idle" /\ paths = {} /\ last = "none"
  /\ since = 0 /\ compiled = FALSE /\ left = {}

End(how) == pc' = "idle" /\ last' = how

-----------------------------------------------------------------------------
(* The generator.                                                          *)

Start ==
  /\ pc = "idle" /\ run < MaxRuns
  /\ run' = run + 1 /\ since' = version /\ compiled' = FALSE
  /\ pc' = "compile" /\ paths' = {}
  /\ UNCHANGED <<version, source, files, last, left>>

(* Mutated: without check=True a failed compilation counts as one.         *)
generate_klee_bcUnchecked ==
  /\ pc = "compile"
  /\ \/ source = 0 /\ pc' = "klee" /\ UNCHANGED <<bitcode, compiled, last>>
     \/ /\ source # 0 /\ pc' = "klee"
        /\ bitcode' \in {source, bitcode} /\ compiled' = TRUE /\ UNCHANGED last
     \/ source # 0 /\ End("compile") /\ UNCHANGED <<bitcode, compiled>>
  /\ UNCHANGED <<version, source, klee_out, db, run, paths, since, left>>

(* Without a source there is nothing to do; clang makes new bitcode; or it *)
(* is not there, or fails, and the file of its last success is there or,   *)
(* as the clang driver chooses, removed. The script does not look at what  *)
(* this returns. Any other way not to start clang (it is not executable,   *)
(* or there is no process left) is an OSError that is not caught.          *)
generate_klee_bc ==
  /\ pc = "compile"
  /\ \/ source = 0 /\ pc' = "klee" /\ UNCHANGED <<bitcode, compiled, last>>
     \/ source # 0 /\ pc' = "klee" /\ bitcode' = source /\ compiled' = TRUE /\ UNCHANGED last
     \/ source # 0 /\ pc' = "klee" /\ bitcode' \in {bitcode, 0} /\ UNCHANGED <<compiled, last>>
     \/ source # 0 /\ End("compile") /\ UNCHANGED <<bitcode, compiled>>
  /\ UNCHANGED <<version, source, klee_out, db, run, paths, since, left>>

(* KLEE makes its directory, and fails when there is one.                  *)
KleeWrites ==
  /\ bitcode # 0 /\ ~klee_out.there
  /\ \E ids \in SUBSET PathIds :
       klee_out' = [there |-> TRUE,
                    files |-> {[id |-> i, by |-> run, of |-> bitcode] : i \in ids}]

(* Mutated: the bitcode is not looked for, and without check=True a failed *)
(* KLEE counts as one that has found paths.                                *)
run_kleeUnchecked ==
  /\ pc = "klee" /\ pc' = "parse"
  /\ KleeWrites \/ UNCHANGED klee_out
  /\ UNCHANGED <<version, source, bitcode, db, run, paths, last, since, compiled, left>>

(* Mutated: the simulated paths are added to those of KLEE.                *)
parse_klee_pathsAdded ==
  /\ pc = "parse" /\ pc' = "open"
  /\ \E found \in SUBSET klee_out.files : paths' = found \cup {Simulated}
  /\ UNCHANGED <<version, source, files, run, last, since, compiled, left>>

(* KLEE has explored the bitcode; or there is none, or no KLEE, or it has  *)
(* failed at once or after a while, and the paths are simulated; or it     *)
(* cannot be started for another reason, and the OSError is not caught.    *)
run_klee ==
  /\ pc = "klee"
  /\ \/ KleeWrites /\ pc' = "parse" /\ UNCHANGED <<paths, last>>
     \/ /\ KleeWrites \/ UNCHANGED klee_out
        /\ pc' = "open" /\ paths' = {Simulated} /\ UNCHANGED last
     \/ bitcode # 0 /\ End("klee") /\ UNCHANGED <<klee_out, paths>>
  /\ UNCHANGED <<version, source, bitcode, db, run, since, compiled, left>>

(* Files that cannot be read are left out. When the directory has been     *)
(* removed there are none; when that happens while it is being listed, the *)
(* handler of run_klee takes the error for a missing KLEE.                 *)
parse_klee_paths ==
  /\ pc = "parse" /\ pc' = "open"
  /\ \/ paths' \in SUBSET klee_out.files
     \/ ~klee_out.there /\ paths' = {Simulated}
  /\ UNCHANGED <<version, source, files, run, last, since, compiled, left>>

(* open(..., "w") empties the file.                                        *)
OpenBaseline ==
  /\ pc = "open"
  /\ \/ /\ db' = [run |-> run, whole |-> FALSE, paths |-> {}, since |-> since,
                  compiled |-> compiled]
        /\ pc' = "dump" /\ UNCHANGED last
     \/ UNCHANGED db /\ End("open")
  /\ UNCHANGED <<version, source, bitcode, klee_out, run, paths, since, compiled, left>>

(* Mutated: a failure to write is passed over.                             *)
DumpBaselineCaught ==
  /\ pc = "dump" /\ End("done")
  /\ \/ db' = IF db.run = run THEN [db EXCEPT !.whole = TRUE, !.paths = paths] ELSE db
     \/ UNCHANGED db
  /\ UNCHANGED <<version, source, bitcode, klee_out, run, paths, since, compiled, left>>

(* When the file has been removed since, nothing takes its place.          *)
DumpBaseline ==
  /\ pc = "dump"
  /\ \/ /\ db' = IF db.run = run THEN [db EXCEPT !.whole = TRUE, !.paths = paths] ELSE db
        /\ End("done")
     \/ UNCHANGED db /\ End("dump")
  /\ UNCHANGED <<version, source, bitcode, klee_out, run, paths, since, compiled, left>>

-----------------------------------------------------------------------------
(* What happens around it, at any time.                                    *)

EditSource ==
  /\ version < MaxVersions
  /\ version' = version + 1 /\ source' \in {0, version'}
  /\ UNCHANGED <<files, run, pc, paths, last, since, compiled, left>>

(* `make clean`, or klee-out removed by hand.                              *)
Clean ==
  /\ klee_out' = NoDir /\ db' \in {db, NoBaseline}
  /\ UNCHANGED <<version, source, bitcode, run, pc, paths, last, since, compiled, left>>

Left(stage, of) == left \cup {[stage |-> stage, by |-> run, of |-> of]}

(* The run is killed. The tool it waits for may not have begun, may die    *)
(* with it, or may be left alone.                                          *)
Killed ==
  /\ pc # "idle" /\ End("killed")
  /\ \/ UNCHANGED <<klee_out, left>>
     \/ pc = "compile" /\ source # 0 /\ left' = Left("clang", source) /\ UNCHANGED klee_out
     \/ pc = "klee" /\ bitcode # 0 /\ left' = Left("new", bitcode) /\ UNCHANGED klee_out
     \/ pc = "klee" /\ KleeWrites /\ left' \in {left, Left("klee", bitcode)}
  /\ UNCHANGED <<version, source, bitcode, db, run, paths, since, compiled>>

(* A clang left alone writes its bitcode, or fails and removes it.         *)
ClangGoesOn(o) ==
  /\ o.stage = "clang" /\ bitcode' \in {o.of, 0}
  /\ left' = (left \ {o}) \cup {[o EXCEPT !.stage = "ended"]}
  /\ UNCHANGED klee_out

(* A KLEE left alone makes its directory, if there is none yet.            *)
KleeBegins(o) ==
  /\ o.stage = "new" /\ ~klee_out.there
  /\ klee_out' = [there |-> TRUE, files |-> {}]
  /\ left' = (left \ {o}) \cup {[o EXCEPT !.stage = "klee"]}
  /\ UNCHANGED bitcode

(* It goes on writing files, by their paths: into whatever directory is    *)
(* there by now, over files of the same names.                             *)
KleeGoesOn(o) ==
  /\ o.stage = "klee" /\ klee_out.there
  /\ \E i \in PathIds :
       klee_out' = [there |-> TRUE,
                    files |-> {p \in klee_out.files : p.id # i}
                                \cup {[id |-> i, by |-> o.by, of |-> o.of]}]
  /\ UNCHANGED <<bitcode, left>>

ToolGoesOn ==
  /\ \E o \in left : ClangGoesOn(o) \/ KleeBegins(o) \/ KleeGoesOn(o)
  /\ UNCHANGED <<version, source, db, run, pc, paths, last, since, compiled>>

Next ==
  \/ Start \/ generate_klee_bc \/ run_klee \/ parse_klee_paths
  \/ OpenBaseline \/ DumpBaseline
  \/ EditSource \/ Clean \/ Killed \/ ToolGoesOn

Spec == Init /\ [][Next]_vars

-----------------------------------------------------------------------------
(* Properties.                                                             *)

(* A KLEE has outlived run n; and a tool that did worked on version v.     *)
Outlived(n) == \E o \in left : o.stage = "klee" /\ o.by = n
WorkedOn(v) == \E o \in left : o.of = v

(* The paths in the baseline that are not simulated were found by the KLEE *)
(* of the run that stored them, and not by one before it, whatever lies    *)
(* around in klee-out from earlier runs, killed ones included. (Only a     *)
(* KLEE that has outlived its run can slip its own files in.)              *)
OwnPaths ==
  \A p \in db.paths : p = Simulated \/ p.by = db.run \/ Outlived(p.by)

(* When generate_klee_bc has returned True, the paths are those of a       *)
(* version the source has had since the run was started, unless a tool     *)
(* that has outlived a killed run worked on theirs. (When it has not,      *)
(* nothing is promised: the bitcode of any earlier run may be explored.)   *)
FreshPaths ==
  db.compiled =>
    \A p \in db.paths : p = Simulated \/ p.of >= db.since \/ WorkedOn(p.of)

(* What a run that has ended leaves: done, a complete baseline of its own  *)
(* (if not cleaned up since); ended by an exception nobody caught up to    *)
(* the opening of the file, the baseline of an earlier run as it was;      *)
(* ended later or killed, never a complete one of its own, though maybe a  *)
(* file that was emptied or is written in part. So a complete baseline     *)
(* says that its run was done, whichever tool, file or kill ended the      *)
(* runs.                                                                   *)
EndsWhole ==
  pc = "idle" /\ db.run # 0 =>
    /\ last = "done" => db.run = run
    /\ last \in {"compile", "klee", "open"} => db.run # run
    /\ db.run = run => (db.whole <=> last = "done")
=============================================================================
