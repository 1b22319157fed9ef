------------------------- MODULE PatchEngineProofs --------------------------
(***************************************************************************)
(* The genetic search of healing/patch_engine.py, for any size of the      *)
(* population and number of generations. Sorted is shown to be a           *)
(* permutation that starts with the first of the best; the invariant then  *)
(* needs only that the best patch so far is the first of the population.   *)
(***************************************************************************)
EXTENDS PatchEngine, FiniteSetTheorems, TLAPS

Ends == {"report", "verified", "crashed"}

(* What is known of the search at each place.                              *)
SearchInv ==
  /\ gen = 0 => scored = {} /\ best_score = 0
  /\ pc = "populate" => gen = 0
  /\ pc = "breed" => gen > 0 /\ survivors # << >> /\ population # << >>
  /\ pc \in Ends => gen > 0

(* A generation is scored when it is complete.                            *)
ScoresWhole == pc = "score" => Len(population) = pop_size

IInv == TypeOK /\ SearchInv /\ ScoresWhole /\ BestOfAll /\ BestSurvives

-----------------------------------------------------------------------------
(* The programs and their fitness.                                         *)

(* The query has a model whatever the candidate is.                        *)
LEMMA Z3Points == ASSUME NEW c PROVE verify_with_z3(c) = 90
<1>1. 1 \in Z3Ints
  BY Z3Assumption
<1>2. \E idx \in Z3Ints, size \in Z3Ints :
        LET clamped == IF idx < 0 THEN 0 ELSE IF idx >= size THEN size - 1 ELSE idx
        IN  /\ size >= 0 /\ (idx < 0 \/ idx >= size)
            /\ clamped >= 0 /\ clamped < (IF size = 0 THEN 1 ELSE size)
  <2> WITNESS 1 \in Z3Ints, 1 \in Z3Ints
  <2> QED OBVIOUS
<1> QED BY <1>2 DEF verify_with_z3

(* Only the bounds check passes the tests.                                 *)
LEMMA TestResults ==
  /\ PassesTests("bounds") /\ ~PassesTests("null") /\ ~PassesTests("buggy")
  /\ process("null", 1, 99) = Error /\ process("buggy", 1, 99) = Error
<1>1. /\ process("null", 1, 99) = Error /\ process("buggy", 1, 99) = Error
  BY DEF process, Subscript
<1>2. Error # Elem(0)
  BY DEF Error, Elem
<1>3. ~PassesTests("null") /\ ~PassesTests("buggy")
  BY <1>1, <1>2 DEF PassesTests, Asserts
<1>4. process("bounds", 3, 1) = Elem(1)
  BY DEF process, Subscript, Clamp
<1>5. process("bounds", 0, 0) = Zero
  BY DEF process
<1>6. process("bounds", 1, 99) = Elem(0) /\ process("bounds", 2, 0) = Elem(0)
  BY DEF process, Subscript, Clamp
<1> QED BY <1>1, <1>3, <1>4, <1>5, <1>6 DEF PassesTests, Asserts

LEMMA FitnessValues ==
  /\ fitness["bounds"] = 150 /\ fitness["null"] = 100 /\ fitness["buggy"] = 100
  /\ \A c \in Candidates : fitness[c] \in {100, 150}
  BY Z3Points, TestResults DEF fitness, Candidates

-----------------------------------------------------------------------------
(* Sorted.                                                                 *)

(* Of two different places one comes before the other, and then all that   *)
(* come before the first come before the second.                           *)
LEMMA BeforeOrder ==
  ASSUME NEW pop \in Seq(Candidates)
  PROVE  /\ DOMAIN pop = 1 .. Len(pop) /\ Len(pop) \in Nat
         /\ \A i \in DOMAIN pop : ~Before(pop, i, i)
         /\ \A i, j \in DOMAIN pop : i # j => Before(pop, i, j) \/ Before(pop, j, i)
         /\ \A i, j \in DOMAIN pop :
              Before(pop, i, j) => Ahead(pop, i) \subseteq Ahead(pop, j)
<1>1. /\ DOMAIN pop = 1 .. Len(pop) /\ Len(pop) \in Nat
      /\ \A i \in DOMAIN pop : pop[i] \in Candidates
  OBVIOUS
<1>2. \A i \in DOMAIN pop : fitness[pop[i]] \in Int /\ i \in Int
  BY <1>1, FitnessValues
<1> QED BY <1>1, <1>2 DEF Before, Ahead

(* The ranks are the places, each taken once.                              *)
LEMMA RankOnto ==
  ASSUME NEW pop \in Seq(Candidates), NEW r \in DOMAIN pop
  PROVE  \E i \in DOMAIN pop : 1 + Cardinality(Ahead(pop, i)) = r
<1> DEFINE n == Len(pop)
           D == 1 .. n
           rank == [i \in D |-> 1 + Cardinality(Ahead(pop, i))]
<1>1. n \in Nat /\ DOMAIN pop = D /\ IsFiniteSet(D) /\ Cardinality(D) = n
  BY BeforeOrder, FS_Interval, SMTT(30)
<1>2. \A i \in D : /\ Ahead(pop, i) \subseteq D \ {i}
                    /\ IsFiniteSet(Ahead(pop, i))
                    /\ Cardinality(Ahead(pop, i)) \in 0 .. n - 1
  <2> SUFFICES ASSUME NEW i \in D
               PROVE  /\ Ahead(pop, i) \subseteq D \ {i}
                      /\ IsFiniteSet(Ahead(pop, i))
                      /\ Cardinality(Ahead(pop, i)) \in 0 .. n - 1
    OBVIOUS
  <2>1. Ahead(pop, i) \subseteq D \ {i}
    BY <1>1, BeforeOrder DEF Ahead
  <2>2. IsFiniteSet(D \ {i}) /\ Cardinality(D \ {i}) = n - 1
    BY <1>1, FS_RemoveElement
  <2>3. IsFiniteSet(Ahead(pop, i)) /\ Cardinality(Ahead(pop, i)) <= n - 1
    BY <2>1, <2>2, FS_Subset
  <2>4. Cardinality(Ahead(pop, i)) \in Nat
    BY <2>3, FS_CardinalityType
  <2> QED BY <1>1, <2>1, <2>3, <2>4
<1>3. rank \in [D -> D]
  BY <1>1, <1>2
<1>4. ASSUME NEW i \in D, NEW j \in D, Before(pop, i, j) PROVE rank[i] # rank[j]
  <2>1. Ahead(pop, i) \subseteq Ahead(pop, j) /\ i \in Ahead(pop, j) /\ i \notin Ahead(pop, i)
    BY <1>1, <1>4, BeforeOrder DEF Ahead
  <2>2. Cardinality(Ahead(pop, i)) # Cardinality(Ahead(pop, j))
    BY <1>2, <2>1, FS_Subset
  <2> QED BY <1>2, <2>2
<1>5. \A i, j \in D : rank[i] = rank[j] => i = j
  BY <1>1, <1>4, BeforeOrder
<1>6. rank \in Injection(D, D)
  BY <1>3, <1>5 DEF Injection, IsInjective
<1>7. rank \in Surjection(D, D)
  BY <1>1, <1>6, FS_Injection
<1> QED BY <1>1, <1>7 DEF Surjection

(* Sorted rearranges the population, and starts with one of the best; with *)
(* the first member if that is one of them.                                *)
LEMMA SortedPopulation ==
  ASSUME NEW pop \in Seq(Candidates), pop # << >>
  PROVE  /\ Sorted(pop) \in Seq(Candidates) /\ Len(Sorted(pop)) = Len(pop)
         /\ Sorted(pop)[1] \in Range(pop)
         /\ \A c \in Range(pop) : fitness[c] <= fitness[Sorted(pop)[1]]
         /\ (\A c \in Range(pop) : fitness[c] <= fitness[pop[1]]) => Sorted(pop)[1] = pop[1]
<1> DEFINE D == DOMAIN pop
           rank == [i \in D |-> 1 + Cardinality(Ahead(pop, i))]
           at == [r \in D |-> CHOOSE i \in D : rank[i] = r]
<1>1. D = 1 .. Len(pop) /\ Len(pop) \in Nat /\ 1 \in D /\ IsFiniteSet(D)
      /\ \A i \in D : pop[i] \in Candidates
  BY FS_Interval
<1>2. \A r \in D : at[r] \in D /\ 1 + Cardinality(Ahead(pop, at[r])) = r
  <2> SUFFICES ASSUME NEW r \in D
               PROVE  at[r] \in D /\ 1 + Cardinality(Ahead(pop, at[r])) = r
    OBVIOUS
  <2>1. \E i \in D : rank[i] = r
    BY RankOnto
  <2>2. at[r] \in D /\ rank[at[r]] = r
    BY <2>1
  <2> QED BY <2>2
<1>3. Sorted(pop) = [r \in D |-> pop[at[r]]]
  <2>1. Sorted(pop) = [r \in D |-> pop[CHOOSE i \in D : rank[i] = r]]
    BY DEF Sorted
  <2> QED BY <2>1, Zenon
<1> HIDE DEF at
<1>4. Sorted(pop) \in Seq(Candidates) /\ Len(Sorted(pop)) = Len(pop)
  BY <1>1, <1>2, <1>3
<1>5. Sorted(pop)[1] = pop[at[1]] /\ at[1] \in D
  BY <1>1, <1>2, <1>3
<1>6. Ahead(pop, at[1]) = {}
  <2>1. IsFiniteSet(Ahead(pop, at[1]))
    BY <1>1, FS_Subset DEF Ahead
  <2>2. Cardinality(Ahead(pop, at[1])) \in Nat
    BY <2>1, FS_CardinalityType
  <2>3. Cardinality(Ahead(pop, at[1])) = 0
    BY <1>1, <1>2, <2>2
  <2> QED BY <2>1, <2>3, FS_EmptySet
<1>7. \A i \in D : i # at[1] => Before(pop, at[1], i)
  BY <1>5, <1>6, BeforeOrder DEF Ahead
<1>8. \A i \in D : fitness[pop[i]] \in Int
  BY <1>1, FitnessValues
<1>9. \A i \in D : fitness[pop[i]] <= fitness[pop[at[1]]]
  BY <1>5, <1>7, <1>8 DEF Before
<1>10. ASSUME \A i \in D : fitness[pop[i]] <= fitness[pop[1]] PROVE at[1] = 1
  BY <1>1, <1>5, <1>7, <1>8, <1>10 DEF Before
<1> QED BY <1>4, <1>5, <1>9, <1>10, <1>1 DEF Range

-----------------------------------------------------------------------------
(* The invariant.                                                          *)

LEMMA Mutations ==
  ASSUME NEW op \in MUTATIONS, NEW c \in Candidates
  PROVE  Mutate(op, c) \in Candidates
  BY DEF MUTATIONS, Mutate, Candidates

LEMMA IInvInit == Init => IInv
  BY SizeAssumption
  DEF Init, IInv, TypeOK, SearchInv, ScoresWhole, BestOfAll, BestSurvives, Ends

(* A generation is scored: the new best is the best of the population and  *)
(* its first member after the sort, since the old best was the first       *)
(* before it.                                                              *)
LEMMA ScoreStep == IInv /\ Score => IInv'
<1> SUFFICES ASSUME IInv, Score PROVE IInv'
  OBVIOUS
<1> DEFINE sorted == Sorted(population)
           top == sorted[1]
<1>1. /\ population \in Seq(Candidates) /\ population # << >>
      /\ Len(population) = pop_size /\ pop_size \in Nat /\ pop_size >= 4
      /\ pop_size \div 4 \in 1 .. pop_size
  BY SizeAssumption DEF IInv, TypeOK, ScoresWhole, Score
<1>2. /\ sorted \in Seq(Candidates) /\ Len(sorted) = pop_size
      /\ top \in Range(population) /\ top \in Candidates
      /\ \A c \in Range(population) : fitness[c] <= fitness[top]
      /\ (\A c \in Range(population) : fitness[c] <= fitness[population[1]])
           => top = population[1]
  BY <1>1, SortedPopulation
<1>3. /\ Range(population) \subseteq Candidates
      /\ \A c \in Candidates : fitness[c] \in {100, 150}
  BY <1>1, FitnessValues DEF Range
<1> HIDE DEF sorted, top
<1>4. /\ gen < generations /\ gen' = gen + 1 /\ gen \in Nat /\ gen' \in 0 .. generations
      /\ pc = "score" /\ KeepBest(top)
      /\ scored' = scored \cup Range(population)
      /\ \/ pc' = "report" /\ UNCHANGED <<population, survivors>>
         \/ /\ survivors' = SubSeq(sorted, 1, pop_size \div 4)
            /\ population' = survivors' /\ pc' = "breed"
  BY SizeAssumption DEF Score, Survivors, IInv, TypeOK, sorted, top
<1>5. /\ best_score \in {0, 100, 150} /\ scored \subseteq Candidates
      /\ \A c \in scored : fitness[c] <= best_score
      /\ gen = 0 => scored = {} /\ best_score = 0
      /\ gen > 0 => best_patch \in scored /\ fitness[best_patch] = best_score
                   /\ population[1] = best_patch
  BY <1>4 DEF IInv, TypeOK, SearchInv, BestOfAll, BestSurvives
<1>6. /\ best_patch' = top /\ best_score' = fitness[top]
      /\ best_score' \in {100, 150}
  <2>1. CASE gen = 0
    BY <2>1, <1>2, <1>3, <1>4, <1>5 DEF KeepBest
  <2>2. CASE gen > 0 /\ fitness[top] > best_score
    BY <2>2, <1>2, <1>3, <1>4 DEF KeepBest
  <2>3. CASE gen > 0 /\ ~(fitness[top] > best_score)
    <3>1. top = population[1]
      BY <2>3, <1>2, <1>3, <1>5
    <3> QED BY <2>3, <3>1, <1>2, <1>3, <1>4, <1>5 DEF KeepBest
  <2> QED BY <2>1, <2>2, <2>3, <1>4
<1>7. BestOfAll'
  <2>1. \A c \in scored : fitness[c] <= best_score'
    BY <1>2, <1>3, <1>4, <1>5, <1>6 DEF KeepBest
  <2>2. \A c \in scored' : fitness[c] <= best_score'
    BY <2>1, <1>2, <1>4, <1>6
  <2> QED BY <2>2, <1>2, <1>4, <1>6 DEF BestOfAll
<1>8. CASE pc' = "report"
  BY <1>8, <1>3, <1>4, <1>5, <1>6, <1>2, <1>7
  DEF IInv, TypeOK, SearchInv, ScoresWhole, BestSurvives, Ends
<1>9. CASE pc' = "breed"
  <2>1. /\ survivors' = SubSeq(sorted, 1, pop_size \div 4) /\ population' = survivors'
    BY <1>4, <1>9
  <2>2. /\ survivors' \in Seq(Candidates) /\ Len(survivors') = pop_size \div 4
        /\ survivors'[1] = sorted[1]
    BY <1>1, <1>2, <2>1
  <2>3. Len(population') <= pop_size /\ population' # << >>
    <3>1. Len(population') = pop_size \div 4
      BY <2>1, <2>2
    <3>2. Len(population') # 0 /\ Len(population') <= pop_size
      BY <1>1, <3>1
    <3>3. Len(<< >>) = 0
      OBVIOUS
    <3> QED BY <3>2, <3>3
  <2>4. population'[1] = best_patch'
    <3>1. top = sorted[1]
      BY DEF top
    <3> QED BY <3>1, <1>6, <2>1, <2>2
  <2>5. TypeOK'
    BY <1>9, <2>1, <2>2, <2>3, <1>2, <1>3, <1>4, <1>5, <1>6 DEF IInv, TypeOK
  <2>6. SearchInv' /\ ScoresWhole'
    BY <1>9, <2>1, <2>2, <2>3, <1>2, <1>3, <1>4, <1>5
    DEF IInv, TypeOK, SearchInv, ScoresWhole, Ends
  <2>7. BestSurvives'
    BY <1>9, <2>4 DEF BestSurvives
  <2> QED BY <2>5, <2>6, <2>7, <1>7 DEF IInv
<1> QED BY <1>4, <1>8, <1>9

LEMMA IInvStep == IInv /\ [Next]_vars => IInv'
<1> SUFFICES ASSUME IInv, [Next]_vars PROVE IInv'
  OBVIOUS
<1> USE DEF IInv, TypeOK, SearchInv, ScoresWhole, BestOfAll, BestSurvives, Ends
<1>1. CASE Populate
  <2>1. PICK op \in MUTATIONS : population' = Append(population, Mutate(op, "buggy"))
    BY <1>1 DEF Populate
  <2>2. Mutate(op, "buggy") \in Candidates
    BY Mutations DEF Candidates
  <2>3. population' \in Seq(Candidates) /\ Len(population') <= pop_size
    BY <2>1, <2>2, <1>1, SizeAssumption DEF Populate
  <2> QED BY <2>3, <1>1 DEF Populate
<1>2. CASE Populated
  BY <1>2 DEF Populated
<1>3. CASE Score
  BY <1>3, ScoreStep
<1>4. CASE Breed
  <2>1. PICK parent \in Range(survivors), op \in MUTATIONS :
          population' = Append(population, Mutate(op, parent))
    BY <1>4 DEF Breed
  <2>2. Mutate(op, parent) \in Candidates
    <3>1. parent \in Candidates
      BY DEF Range
    <3> QED BY <3>1, Mutations
  <2>3. /\ population' \in Seq(Candidates) /\ Len(population') <= pop_size
        /\ population' # << >>
    <3>1. /\ population \in Seq(Candidates) /\ Len(population) < pop_size
          /\ pop_size \in Nat
      BY <1>4, SizeAssumption DEF Breed
    <3>2. /\ population' \in Seq(Candidates) /\ Len(population') = Len(population) + 1
      BY <2>1, <2>2, <3>1
    <3>3. Len(population) \in Nat /\ Len(population') # 0 /\ Len(<< >>) = 0
      BY <3>1, <3>2
    <3> QED BY <3>1, <3>2, <3>3
  <2>4. population'[1] = population[1]
    <3>1. population \in Seq(Candidates) /\ Len(population) \in Nat /\ Len(population) > 0
      BY <1>4 DEF Breed
    <3> QED BY <2>1, <2>2, <3>1
  <2> QED BY <2>3, <2>4, <1>4 DEF Breed
<1>5. CASE Bred
  BY <1>5, SizeAssumption DEF Bred
<1>6. CASE RunPatched
  BY <1>6 DEF RunPatched
<1>7. CASE UNCHANGED vars
  BY <1>7 DEF vars
<1> QED BY <1>1, <1>2, <1>3, <1>4, <1>5, <1>6, <1>7 DEF Next

LEMMA Invariance == Spec => []IInv
  BY IInvInit, IInvStep, PTL DEF Spec

(* The state of the search keeps its type.                                 *)
THEOREM TypeCorrect == Spec => []TypeOK
<1>1. IInv => TypeOK
  BY DEF IInv
<1> QED BY <1>1, Invariance, PTL

(* No candidate that was scored is better than the one run_ga returns.     *)
THEOREM ReturnsBest == Spec => []BestOfAll
<1>1. IInv => BestOfAll
  BY DEF IInv
<1> QED BY <1>1, Invariance, PTL

(* The best patch is in every population that is bred, as its first.       *)
THEOREM Elitism == Spec => []BestSurvives
<1>1. IInv => BestSurvives
  BY DEF IInv
<1> QED BY <1>1, Invariance, PTL

(* An engine that exits with success has found a patch that passes the     *)
(* tests, although it compares no result.                                  *)
THEOREM SuccessIsTested == Spec => []VerifiedPasses
<1>1. Init => VerifiedPasses
  BY DEF Init, VerifiedPasses
<1>2. IInv /\ VerifiedPasses /\ [Next]_vars => VerifiedPasses'
  <2> SUFFICES ASSUME IInv, VerifiedPasses, [Next]_vars PROVE VerifiedPasses'
    OBVIOUS
  <2>1. CASE RunPatched
    <3>1. best_patch \in Candidates
      BY <2>1 DEF RunPatched, IInv, TypeOK, SearchInv, BestOfAll, Ends
    <3>2. CASE best_patch = "bounds"
      BY <2>1, <3>2, TestResults DEF RunPatched, VerifiedPasses
    <3>3. CASE best_patch \in {"null", "buggy"}
      <4>1. \E t \in tests : process(best_patch, t[1], t[2]) = Error
        <5>1. <<1, 99>> \in tests /\ process(best_patch, 1, 99) = Error
          BY <3>3, TestResults DEF tests
        <5> QED BY <5>1
      <4> QED BY <2>1, <4>1 DEF RunPatched, VerifiedPasses
    <3> QED BY <3>1, <3>2, <3>3 DEF Candidates
  <2>2. CASE Populate
    BY <2>2 DEF Populate, VerifiedPasses
  <2>3. CASE Populated
    BY <2>3 DEF Populated, VerifiedPasses
  <2>4. CASE Score
    BY <2>4 DEF Score, VerifiedPasses
  <2>5. CASE Breed
    BY <2>5 DEF Breed, VerifiedPasses
  <2>6. CASE Bred
    BY <2>6 DEF Bred, VerifiedPasses
  <2>7. CASE UNCHANGED vars
    BY <2>7 DEF vars, VerifiedPasses
  <2> QED BY <2>1, <2>2, <2>3, <2>4, <2>5, <2>6, <2>7 DEF Next
<1> QED BY <1>1, <1>2, Invariance, PTL DEF Spec
=============================================================================
