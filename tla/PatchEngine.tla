---------------------------- MODULE PatchEngine -----------------------------
(***************************************************************************)
(* healing/patch_engine.py: the genetic search for a patch, its fitness    *)
(* function with the Z3 query in it, and the script around it, which runs  *)
(* the patch it has found and whose exit status is all the daemon looks at.*)
(* The fault the daemon passes as an argument is not read.                 *)
(*                                                                         *)
(* A candidate is one of the three programs the mutations produce, known   *)
(* by what it does on a list of length n and an index; an element of the   *)
(* list divided by n stands for itself.                                    *)
(***************************************************************************)
EXTENDS Integers, Sequences, FiniteSets, Functions

CONSTANTS
  generations, pop_size,   (* 10 and 20 in the code.                        *)
  Z3Ints                   (* Bound: the integers Z3 looks for a model in.  *)

(* With fewer than four candidates no survivor is left to breed from, and  *)
(* random.choice raises.                                                   *)
ASSUME SizeAssumption == generations \in Nat \ {0} /\ pop_size \in Nat /\ pop_size >= 4
ASSUME Z3Assumption == {0, 1} \subseteq Z3Ints /\ Z3Ints \subseteq Int

VARIABLES
  population, survivors,
  gen,                     (* How many generations were scored.             *)
  best_patch, best_score,
  pc,                      (* "populate", "score", "breed", "report", then  *)
                           (* "verified" or "crashed".                      *)
  scored                   (* History: the candidates ever scored.          *)

vars == <<population, survivors, gen, best_patch, best_score, pc, scored>>

Candidates == {"buggy", "bounds", "null"}

TypeOK ==
  /\ population \in Seq(Candidates) /\ Len(population) <= pop_size
  /\ survivors \in Seq(Candidates)
  /\ gen \in 0 .. generations
  /\ best_patch \in Candidates \cup {"None"}
  /\ best_score \in {0, 100, 150}
  /\ pc \in {"populate", "score", "breed", "report", "verified", "crashed"}
  /\ scored \subseteq Candidates

-----------------------------------------------------------------------------
(* The programs.                                                           *)

Zero     == <<"zero", 0>>
Error    == <<"error", 0>>
Elem(p)  == <<"element", p>>

(* data[index]: an index from the end is proper Python.                    *)
Subscript(n, index) ==
  IF index \in -n .. n - 1 THEN Elem(index % n) ELSE Error

Clamp(n, index) == IF index < 0 THEN 0 ELSE IF index > n - 1 THEN n - 1 ELSE index

process(c, n, index) ==
  CASE c = "buggy"  -> Subscript(n, index)
    [] c = "null"   -> IF n = 0 THEN Zero ELSE Subscript(n, index)
    [] c = "bounds" -> IF n = 0 THEN Zero ELSE Subscript(n, Clamp(n, index))

(* Each of the mutations, except the last, ignores the tree it is given.   *)
MUTATIONS == {"add_bounds_check", "add_null_check", "swap_operator"}

Mutate(op, c) ==
  CASE op = "add_bounds_check" -> "bounds"
    [] op = "add_null_check"   -> "null"
    [] op = "swap_operator"    -> c

-----------------------------------------------------------------------------
(* verify_with_z3: the candidate is not looked at; the query asks whether  *)
(* some index outside of some list is inside of it when it is clamped.     *)
verify_with_z3(c) ==
  IF \E idx \in Z3Ints, size \in Z3Ints :
       LET clamped == IF idx < 0 THEN 0 ELSE IF idx >= size THEN size - 1 ELSE idx
       IN  /\ size >= 0 /\ (idx < 0 \/ idx >= size)
           /\ clamped >= 0 /\ clamped < (IF size = 0 THEN 1 ELSE size)
    THEN 90 ELSE 0

(* The assertions of fitness: length, index and the result asked for.      *)
Asserts == {<<3, 1, Elem(1)>>, <<0, 0, Zero>>, <<1, 99, Elem(0)>>, <<2, 0, Elem(0)>>}

PassesTests(c) == \A t \in Asserts : process(c, t[1], t[2]) = t[3]

(* All three programs compile.                                             *)
fitness ==
  [c \in Candidates |-> 10 + (IF PassesTests(c) THEN 50 ELSE 0) + verify_with_z3(c)]

-----------------------------------------------------------------------------
(* run_ga.                                                                 *)

Init ==
  /\ population = << >> /\ survivors = << >> /\ gen = 0
  /\ best_patch = "None" /\ best_score = 0
  /\ pc = "populate" /\ scored = {}

Populate ==
  /\ pc = "populate" /\ Len(population) < pop_size
  /\ \E op \in MUTATIONS : population' = Append(population, Mutate(op, "buggy"))
  /\ UNCHANGED <<survivors, gen, best_patch, best_score, pc, scored>>

Populated ==
  /\ pc = "populate" /\ Len(population) = pop_size
  /\ pc' = "score"
  /\ UNCHANGED <<population, survivors, gen, best_patch, best_score, scored>>

(* Mutated: sorted from the worst to the best.                             *)
BeforeAscending(pop, i, j) ==
  \/ fitness[pop[i]] < fitness[pop[j]]
  \/ fitness[pop[i]] = fitness[pop[j]] /\ i < j

(* The sort is stable: equals stay in order.                               *)
Before(pop, i, j) ==
  \/ fitness[pop[i]] > fitness[pop[j]]
  \/ fitness[pop[i]] = fitness[pop[j]] /\ i < j

Ahead(pop, i) == {j \in DOMAIN pop : Before(pop, j, i)}

Sorted(pop) ==
  LET rank == [i \in DOMAIN pop |-> 1 + Cardinality(Ahead(pop, i))]
  IN  [r \in DOMAIN pop |-> pop[CHOOSE i \in DOMAIN pop : rank[i] = r]]

(* Mutated: the slice leaves out the first.                                *)
SurvivorsShifted(sorted) == SubSeq(sorted, 2, pop_size \div 4 + 1)

Survivors(sorted) == SubSeq(sorted, 1, pop_size \div 4)

KeepBest(top) ==
  IF fitness[top] > best_score
    THEN best_score' = fitness[top] /\ best_patch' = top
    ELSE UNCHANGED <<best_score, best_patch>>

(* The last scored generation breeds another one, which nobody scores.     *)
Score ==
  /\ pc = "score" /\ gen < generations
  /\ LET sorted == Sorted(population) IN
       /\ KeepBest(sorted[1])
       /\ scored' = scored \cup Range(population)
       /\ IF best_score' >= 150
            THEN pc' = "report" /\ UNCHANGED <<population, survivors>>
            ELSE /\ survivors' = Survivors(sorted)
                 /\ population' = survivors'
                 /\ pc' = "breed"
  /\ gen' = gen + 1

(* Mutated: one candidate too many.                                        *)
BreedOneMore ==
  /\ pc = "breed" /\ Len(population) <= pop_size
  /\ \E parent \in Range(survivors), op \in MUTATIONS :
       population' = Append(population, Mutate(op, parent))
  /\ UNCHANGED <<survivors, gen, best_patch, best_score, pc, scored>>

Breed ==
  /\ pc = "breed" /\ Len(population) < pop_size
  /\ \E parent \in Range(survivors), op \in MUTATIONS :
       population' = Append(population, Mutate(op, parent))
  /\ UNCHANGED <<survivors, gen, best_patch, best_score, pc, scored>>

(* Mutated: the generations are not counted.                               *)
BredForever ==
  /\ pc = "breed" /\ Len(population) >= pop_size
  /\ pc' = "score"
  /\ UNCHANGED <<population, survivors, gen, best_patch, best_score, scored>>

Bred ==
  /\ pc = "breed" /\ Len(population) >= pop_size
  /\ pc' = IF gen < generations THEN "score" ELSE "report"
  /\ UNCHANGED <<population, survivors, gen, best_patch, best_score, scored>>

-----------------------------------------------------------------------------
(* The script.                                                             *)

(* Mutated: the index out of bounds is not tried.                          *)
TestsInBounds == {<<3, 1>>, <<0, 0>>, <<2, 0>>}

tests == {<<3, 1>>, <<0, 0>>, <<1, 99>>, <<2, 0>>}

(* It prints what the patch computes, without comparing it; an exception   *)
(* is not caught and ends the script with a failure.                       *)
RunPatched ==
  /\ pc = "report"
  /\ pc' = IF \E t \in tests : process(best_patch, t[1], t[2]) = Error
             THEN "crashed" ELSE "verified"
  /\ UNCHANGED <<population, survivors, gen, best_patch, best_score, scored>>

Next == Populate \/ Populated \/ Score \/ Breed \/ Bred \/ RunPatched

(* One process, with nothing to wait for.                                  *)
Spec == Init /\ [][Next]_vars /\ WF_vars(Next)

-----------------------------------------------------------------------------
(* Properties.                                                             *)

(* No candidate that was ever scored is better than the one reported, and  *)
(* its score is its own (lines 114-139).                                   *)
BestOfAll ==
  /\ \A c \in scored : fitness[c] <= best_score
  /\ gen > 0 => best_patch \in scored /\ fitness[best_patch] = best_score

(* Elitism: the best patch survives into every population that is bred,    *)
(* as its first member, since the sort keeps the order of equals.          *)
BestSurvives == gen > 0 /\ pc \in {"score", "breed"} => population[1] = best_patch

(* Exit status 0, which the daemon takes for a verified patch, means that  *)
(* the patch passes the tests, although the script compares no result and  *)
(* the search may end without such a patch (lines 163-173).                *)
VerifiedPasses == pc = "verified" => PassesTests(best_patch)

(* The search ends, after the last generation if it finds nothing.         *)
Terminates == <>(pc \in {"verified", "crashed"})

-----------------------------------------------------------------------------
(* README.md:140: "Z3 verifies safety properties". A candidate given the   *)
(* points for it computes something for every list and index.              *)
Safe(c) == \A n \in 0 .. 3, index \in -4 .. 4 : process(c, n, index) # Error

Z3Sound == \A c \in scored : verify_with_z3(c) > 0 => Safe(c)
=============================================================================
