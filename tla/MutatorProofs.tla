--------------------------- MODULE MutatorProofs ---------------------------
(***************************************************************************)
(* The walks of ASTMutator, for every source the parser may return and     *)
(* every population size: all that is kept stays a graph of well-formed    *)
(* nodes in which no node is found from itself (TypeCorrect), and neither  *)
(* the source nor a finished candidate is changed by what is walked later  *)
(* (KeepsFinished). And what the guards do: they change nothing that a     *)
(* source without an error returns (GuardsConserve), and a candidate with  *)
(* null checks never uses None as an object (NullChecked), one with bounds *)
(* checks no index that is out of bounds (BoundsChecked).                  *)
(*                                                                         *)
(* They all rest on one invariant, WalkInv. Its first half is a border in  *)
(* the heap, with what is finished below it and the tree under way above,  *)
(* that no child crosses. Its second half is a rank of the nodes that      *)
(* falls from every node to its children and from every visit under way to *)
(* the next: a guard is put between the node it guards and the parent of   *)
(* the node, for which the ranks are spread until there is room.           *)
(*                                                                         *)
(* GuardsConserve needs, besides, what a tree means while it is walked:    *)
(* there are values that are due at its nodes, such that each node         *)
(* computes its own from those of its children, or may do anything if an   *)
(* exception is due. A copy, a guard and a changed child each keep such    *)
(* values (CopyMeans, GuardKeeps, RelinkKept), and with them what the root *)
(* means.                                                                  *)
(*                                                                         *)
(* NullChecked and BoundsChecked need certificates of what is guarded, and *)
(* which nodes have one at each point of a walk: SafeInv, below.           *)
(***************************************************************************)
EXTENDS Mutator, FiniteSetTheorems, TLAPS

-----------------------------------------------------------------------------
(* The nodes that are found from a node: Reach is defined by recursion on  *)
(* sets. A function as its definition asks for exists, and each gives the  *)
(* least set that is closed, by induction on the nodes that are left.      *)

More(g, S)   == S \cup UNION {Kids(g, m) : m \in S}
Closed(g, S) == \A m \in S : Kids(g, m) \subseteq S
Linked(g)    == Closed(g, DOMAIN g)

(* The equation of the function in Reach. *)
Closure(g, f) ==
  f = [S \in SUBSET DOMAIN g |-> IF More(g, S) = S THEN S ELSE f[More(g, S)]]

LEMMA ReachIs ==
  ASSUME NEW g, NEW n
  PROVE  Reach(g, n) = (CHOOSE f : Closure(g, f))[{n}]
BY DEF Reach, Closure, More

LEMMA MoreFacts ==
  ASSUME NEW g, Linked(g), NEW S \in SUBSET DOMAIN g
  PROVE  /\ S \subseteq More(g, S) /\ More(g, S) \in SUBSET DOMAIN g
         /\ More(g, S) = S => Closed(g, S)
         /\ \A T : S \subseteq T /\ Closed(g, T) => More(g, S) \subseteq T
<1>1. \A m \in S : Kids(g, m) \subseteq DOMAIN g
  BY DEF Linked, Closed
<1> QED
  BY <1>1 DEF More, Closed

Least(g, S) ==
  {m \in DOMAIN g : \A T \in SUBSET DOMAIN g : S \subseteq T /\ Closed(g, T) => m \in T}

LEMMA ClosureExists ==
  ASSUME NEW g, Linked(g)
  PROVE  \E f : Closure(g, f)
<1> DEFINE f == [S \in SUBSET DOMAIN g |-> Least(g, S)]
<1>1. ASSUME NEW S \in SUBSET DOMAIN g, More(g, S) = S
      PROVE  Least(g, S) = S
  BY <1>1, MoreFacts DEF Least
<1>2. ASSUME NEW S \in SUBSET DOMAIN g
      PROVE  Least(g, S) = Least(g, More(g, S))
  <2>1. \A T \in SUBSET DOMAIN g :
          Closed(g, T) => (S \subseteq T <=> More(g, S) \subseteq T)
    BY MoreFacts
  <2> QED
    BY <2>1 DEF Least
<1>3. \A S \in SUBSET DOMAIN g : More(g, S) \in SUBSET DOMAIN g
  BY MoreFacts
<1>4. \A S \in SUBSET DOMAIN g :
        Least(g, S) = IF More(g, S) = S THEN S ELSE f[More(g, S)]
  BY <1>1, <1>2, <1>3
<1>5. f = [S \in SUBSET DOMAIN g |-> IF More(g, S) = S THEN S ELSE f[More(g, S)]]
  BY <1>4, Zenon
<1> HIDE DEF f
<1> QED
  BY <1>5 DEF Closure

LEMMA ClosureLeast ==
  ASSUME NEW g, Linked(g), IsFiniteSet(DOMAIN g), NEW f, Closure(g, f), NEW S \in SUBSET DOMAIN g
  PROVE  f[S] = Least(g, S)
<1> DEFINE D     == DOMAIN g
           Bad   == {T \in SUBSET D : f[T] # Least(g, T)}
           Rests == {D \ T : T \in Bad}
<1>1. SUFFICES ASSUME Bad # {} PROVE FALSE
  OBVIOUS
<1>2. Rests \subseteq FiniteSubsetsOf(D) /\ Rests # {}
  <2>1. Rests \subseteq SUBSET D /\ Rests # {}
    BY <1>1
  <2> QED
    BY <2>1, FS_FiniteSubsetsOfFinite
<1>3. PICK R \in Rests : \A Q \in Rests : <<Q, R>> \notin StrictSubsetOrdering(D)
  <2> HIDE DEF D, Rests
  <2> QED
    BY <1>2, FS_StrictSubsetOrderingWellFounded, WFMin, Zenon
<1>4. PICK T \in Bad : R = D \ T
  OBVIOUS
<1>5. f[T] = IF More(g, T) = T THEN T ELSE f[More(g, T)]
  BY DEF Closure
<1>6. Least(g, T) = Least(g, More(g, T))
  <2>1. \A U \in SUBSET DOMAIN g :
          Closed(g, U) => (T \subseteq U <=> More(g, T) \subseteq U)
    BY MoreFacts
  <2> QED
    BY <2>1 DEF Least
<1>7. CASE More(g, T) = T
  <2>1. Least(g, T) = T
    BY <1>7, MoreFacts DEF Least
  <2> QED
    BY <1>4, <1>5, <1>7, <2>1
<1>8. CASE More(g, T) # T
  <2>1. T \subseteq More(g, T) /\ More(g, T) \in SUBSET D
    BY MoreFacts
  <2>2. <<D \ More(g, T), R>> \in StrictSubsetOrdering(D)
    BY <1>4, <1>8, <2>1 DEF StrictSubsetOrdering
  <2>3. More(g, T) \notin Bad
    BY <1>3, <2>2
  <2> QED
    BY <1>4, <1>5, <1>6, <1>8, <2>1, <2>3
<1> QED
  BY <1>7, <1>8

LEMMA ReachFacts ==
  ASSUME NEW g, Linked(g), IsFiniteSet(DOMAIN g), NEW n \in DOMAIN g
  PROVE  /\ Reach(g, n) \subseteq DOMAIN g /\ n \in Reach(g, n) /\ Closed(g, Reach(g, n))
         /\ \A T : n \in T /\ Closed(g, T) => Reach(g, n) \subseteq T
<1>1. Reach(g, n) = Least(g, {n})
  <2>1. Closure(g, CHOOSE f : Closure(g, f))
    BY ClosureExists, Zenon
  <2> QED
    BY <2>1, ClosureLeast, ReachIs
<1>2. Least(g, {n}) \subseteq DOMAIN g /\ n \in Least(g, {n}) /\ Closed(g, Least(g, {n}))
  BY DEF Least, Closed, Linked
<1>3. ASSUME NEW T, n \in T, Closed(g, T)
      PROVE  Least(g, {n}) \subseteq T
  <2>1. Closed(g, T \cap DOMAIN g) /\ n \in T \cap DOMAIN g
    BY <1>3 DEF Closed, Linked
  <2> QED
    BY <2>1 DEF Least
<1> QED
  BY <1>1, <1>2, <1>3
-----------------------------------------------------------------------------
(* Heaps, and what DeepCopy makes of them.                                 *)
Vals == {""} \cup UNION {Operators[op] : op \in DOMAIN Operators}

Nodes ==
  {v \in [op : DOMAIN Arity \cup {"FunctionDef"}, val : Vals, kids : Seq(Nat)] :
     WellFormed(v)}

Heaps == {g \in Seq(Nodes) : Linked(g)}

LEMMA HeapFacts ==
  ASSUME NEW g \in Heaps
  PROVE  /\ g \in Seq(Nodes) /\ Len(g) \in Nat /\ DOMAIN g = 1 .. Len(g)
         /\ IsFiniteSet(DOMAIN g) /\ Linked(g)
         /\ \A n \in DOMAIN g :
              /\ g[n] \in Nodes /\ Kids(g, n) \subseteq DOMAIN g
              /\ g[n].kids \in Seq(DOMAIN g)
<1>1. g \in Seq(Nodes) /\ Len(g) \in Nat /\ DOMAIN g = 1 .. Len(g) /\ Linked(g)
  BY DEF Heaps
<1>2. IsFiniteSet(DOMAIN g)
  BY <1>1, FS_Interval
<1>3. ASSUME NEW n \in DOMAIN g
      PROVE  /\ g[n] \in Nodes /\ Kids(g, n) \subseteq DOMAIN g
             /\ g[n].kids \in Seq(DOMAIN g)
  <2>1. g[n] \in Nodes
    BY <1>1
  <2>2. g[n].kids \in Seq(Nat)
    BY <2>1 DEF Nodes
  <2>3. Kids(g, n) \subseteq DOMAIN g
    BY <1>1 DEF Linked, Closed
  <2>4. \A j \in DOMAIN g[n].kids : g[n].kids[j] \in DOMAIN g
    BY <2>3 DEF Kids
  <2>5. g[n].kids \in Seq(DOMAIN g)
    BY <2>2, <2>4
  <2> QED
    BY <2>1, <2>3, <2>5
<1> QED
  BY <1>1, <1>2, <1>3

(* How many of R come up to x: the place of x in R.                        *)
Place(R, x) == Cardinality({y \in R : y <= x})

LEMMA PlaceIsBijection ==
  ASSUME NEW R \in SUBSET Nat, IsFiniteSet(R)
  PROVE  /\ Cardinality(R) \in Nat
         /\ \A x \in R : Place(R, x) \in 1 .. Cardinality(R)
         /\ \A x, y \in R : Place(R, x) = Place(R, y) => x = y
         /\ \A j \in 1 .. Cardinality(R) : \E x \in R : Place(R, x) = j
<1> DEFINE Upto(x) == {y \in R : y <= x}
<1>1. Cardinality(R) \in Nat
  BY FS_CardinalityType
<1>2. ASSUME NEW x \in R
      PROVE  IsFiniteSet(Upto(x)) /\ Place(R, x) \in 1 .. Cardinality(R)
  <2>1. Upto(x) \in SUBSET R /\ Upto(x) # {}
    OBVIOUS
  <2>2. IsFiniteSet(Upto(x)) /\ Cardinality(Upto(x)) <= Cardinality(R)
    BY <2>1, FS_Subset
  <2>3. Cardinality(Upto(x)) \in Nat /\ Cardinality(Upto(x)) # 0
    BY <2>1, <2>2, FS_CardinalityType, FS_EmptySet
  <2> QED
    BY <1>1, <2>2, <2>3 DEF Place
<1>3. ASSUME NEW x \in R, NEW y \in R, x < y
      PROVE  Place(R, x) # Place(R, y)
  <2>a. x \in Nat /\ y \in Nat /\ \A z \in R : z \in Nat
    OBVIOUS
  <2>b. y \in Upto(y) /\ y \notin Upto(x)
    BY <2>a, <1>3
  <2>c. \A z \in Upto(x) : z \in Upto(y)
    BY <2>a, <1>3
  <2>1. Upto(x) \in SUBSET Upto(y) /\ Upto(x) # Upto(y)
    BY <2>b, <2>c
  <2>2. IsFiniteSet(Upto(y))
    BY <1>2
  <2>3. Cardinality(Upto(x)) # Cardinality(Upto(y))
    <3> HIDE DEF Upto
    <3> QED
      BY <2>1, <2>2, FS_Subset
  <2> QED
    BY <2>3 DEF Place
<1>4. \A x, y \in R : Place(R, x) = Place(R, y) => x = y
  <2> TAKE x, y \in R
  <2>1. x \in Nat /\ y \in Nat /\ (x < y \/ x = y \/ y < x)
    OBVIOUS
  <2> QED
    BY <2>1, <1>3
<1>5. \A j \in 1 .. Cardinality(R) : \E x \in R : Place(R, x) = j
  <2> DEFINE N == 1 .. Cardinality(R)
             f == [x \in R |-> Place(R, x)]
  <2>1. f \in Injection(R, N)
    BY <1>2, <1>4 DEF Injection, IsInjective
  <2>2. IsFiniteSet(N) /\ Cardinality(N) = Cardinality(R)
    BY <1>1, FS_Interval
  <2>3. f \in Surjection(R, N)
    <3> HIDE DEF f, N
    <3> QED
      BY <2>1, <2>2, FS_Injection
  <2> QED
    BY <2>3 DEF Surjection
<1> QED
  BY <1>1, <1>2, <1>4, <1>5

(* What a copy of the nodes found from n is, by its parts.                 *)
Old(g, n, j) == CHOOSE m \in Reach(g, n) : Place(Reach(g, n), m) = j

CopyOf(g, n, m) ==
  [g[m] EXCEPT !.kids = [l \in DOMAIN @ |-> Len(g) + Place(Reach(g, n), @[l])]]

Copies(g, n) == [j \in 1 .. Cardinality(Reach(g, n)) |-> CopyOf(g, n, Old(g, n, j))]

LEMMA DeepCopyIs ==
  ASSUME NEW g, NEW n
  PROVE  DeepCopy(g, n) = [heap |-> g \o Copies(g, n), node |-> Len(g) + Place(Reach(g, n), n)]
BY DEF DeepCopy, Copies, CopyOf, Old, Place

LEMMA IsSequence ==
  ASSUME NEW S, NEW c \in Nat, NEW f, f = [j \in 1 .. c |-> f[j]], \A j \in 1 .. c : f[j] \in S
  PROVE  f \in Seq(S) /\ Len(f) = c
OBVIOUS

LEMMA SequenceFacts ==
  ASSUME NEW S, NEW s \in Seq(S)
  PROVE  /\ Len(s) \in Nat /\ DOMAIN s = 1 .. Len(s) /\ s = [j \in 1 .. Len(s) |-> s[j]]
         /\ \A j \in DOMAIN s : s[j] \in S
OBVIOUS

LEMMA SameShape ==
  ASSUME NEW v \in Nodes, NEW kids \in Seq(Nat), Len(kids) = Len(v.kids)
  PROVE  [v EXCEPT !.kids = kids] \in Nodes
BY DEF Nodes, WellFormed

LEMMA CopiesFacts ==
  ASSUME NEW g \in Heaps, NEW n \in DOMAIN g
  PROVE  LET C == Cardinality(Reach(g, n)) IN
         /\ C \in Nat /\ Copies(g, n) \in Seq(Nodes) /\ Len(Copies(g, n)) = C
         /\ Place(Reach(g, n), n) \in 1 .. C
         /\ \A j \in 1 .. C :
              /\ Old(g, n, j) \in DOMAIN g
              /\ \A x \in Kids(Copies(g, n), j) :
                   \E c \in Kids(g, Old(g, n, j)) :
                     \E i \in 1 .. C : x = Len(g) + i /\ Old(g, n, i) = c
<1> DEFINE R == Reach(g, n)
           C == Cardinality(R)
<1>1. /\ R \subseteq DOMAIN g /\ n \in R /\ Closed(g, R)
      /\ R \in SUBSET Nat /\ IsFiniteSet(R)
  <2>1. R \subseteq DOMAIN g /\ n \in R /\ Closed(g, R)
    BY HeapFacts, ReachFacts
  <2>2. R \in SUBSET Nat
    BY <2>1, HeapFacts
  <2>3. IsFiniteSet(R)
    BY <2>1, HeapFacts, FS_Subset
  <2> QED
    BY <2>1, <2>2, <2>3
<1>2. /\ C \in Nat
      /\ \A x \in R : Place(R, x) \in 1 .. C
      /\ \A x, y \in R : Place(R, x) = Place(R, y) => x = y
      /\ \A j \in 1 .. C : \E x \in R : Place(R, x) = j
  <2> HIDE DEF R
  <2> QED
    BY <1>1, PlaceIsBijection
<1>3. \A j \in 1 .. C : Old(g, n, j) \in R
  <2> HIDE DEF C
  <2> QED
    BY <1>2 DEF Old
<1>4. \A x \in R : Old(g, n, Place(R, x)) = x
  BY <1>2 DEF Old
<1>5. ASSUME NEW j \in 1 .. C
      PROVE  /\ Copies(g, n)[j] \in Nodes
             /\ Copies(g, n)[j].kids =
                  [l \in DOMAIN g[Old(g, n, j)].kids |-> Len(g) + Place(R, g[Old(g, n, j)].kids[l])]
             /\ \A l \in DOMAIN g[Old(g, n, j)].kids : g[Old(g, n, j)].kids[l] \in R
  <2> DEFINE m  == Old(g, n, j)
             ks == [l \in DOMAIN g[m].kids |-> Len(g) + Place(R, g[m].kids[l])]
  <2>1. m \in DOMAIN g /\ g[m] \in Nodes /\ g[m].kids \in Seq(DOMAIN g) /\ Len(g) \in Nat
    BY <1>1, <1>3, HeapFacts
  <2>2. \A l \in DOMAIN g[m].kids : g[m].kids[l] \in R
    BY <1>1, <1>3 DEF Closed, Kids
  <2>3. ks \in Seq(Nat) /\ Len(ks) = Len(g[m].kids)
    <3> HIDE DEF m, R, C
    <3>1. \A l \in DOMAIN g[m].kids : Len(g) + Place(R, g[m].kids[l]) \in Nat
      BY <1>2, <2>1, <2>2
    <3>2. DOMAIN g[m].kids = 1 .. Len(g[m].kids) /\ Len(g[m].kids) \in Nat
      BY <2>1
    <3> QED
      BY <3>1, <3>2
  <2>4. Copies(g, n)[j] = [g[m] EXCEPT !.kids = ks]
    BY DEF Copies, CopyOf
  <2>5. [g[m] EXCEPT !.kids = ks] \in Nodes
    <3> HIDE DEF m, ks
    <3> QED
      BY <2>1, <2>3, SameShape
  <2>6. [g[m] EXCEPT !.kids = ks].kids = ks
    <3> HIDE DEF m, ks
    <3> QED
      BY <2>1 DEF Nodes
  <2> QED
    BY <2>2, <2>4, <2>5, <2>6
<1>6. Copies(g, n) \in Seq(Nodes) /\ Len(Copies(g, n)) = C
  <2>1. Copies(g, n) = [j \in 1 .. C |-> Copies(g, n)[j]]
    BY DEF Copies
  <2>2. C \in Nat /\ \A j \in 1 .. C : Copies(g, n)[j] \in Nodes
    BY <1>2, <1>5
  <2> HIDE DEF C
  <2> QED
    BY <2>1, <2>2, IsSequence
<1>7. ASSUME NEW j \in 1 .. C, NEW x \in Kids(Copies(g, n), j)
      PROVE  \E c \in Kids(g, Old(g, n, j)) :
               \E i \in 1 .. C : x = Len(g) + i /\ Old(g, n, i) = c
  <2>1. PICK l \in DOMAIN g[Old(g, n, j)].kids :
          x = Len(g) + Place(R, g[Old(g, n, j)].kids[l])
    BY <1>5 DEF Kids
  <2> DEFINE c == g[Old(g, n, j)].kids[l]
  <2>2. c \in Kids(g, Old(g, n, j)) /\ c \in R
    BY <1>5 DEF Kids
  <2> QED
    BY <1>2, <1>4, <2>1, <2>2
<1> QED
  BY <1>1, <1>2, <1>3, <1>6, <1>7

-----------------------------------------------------------------------------
LEMMA Concat ==
  ASSUME NEW S, NEW g \in Seq(S), NEW e \in Seq(S)
  PROVE  /\ g \o e \in Seq(S) /\ Len(g \o e) = Len(g) + Len(e)
         /\ \A m \in DOMAIN g : (g \o e)[m] = g[m]
         /\ \A j \in DOMAIN e : (g \o e)[Len(g) + j] = e[j]
         /\ \A m \in DOMAIN (g \o e) : m \in DOMAIN g \/ \E j \in DOMAIN e : m = Len(g) + j
<1>1. /\ g \o e \in Seq(S) /\ Len(g \o e) = Len(g) + Len(e)
      /\ Len(g) \in Nat /\ Len(e) \in Nat
      /\ DOMAIN g = 1 .. Len(g) /\ DOMAIN e = 1 .. Len(e)
      /\ DOMAIN (g \o e) = 1 .. Len(g) + Len(e)
  OBVIOUS
<1>2. \A m \in DOMAIN g : (g \o e)[m] = g[m]
  OBVIOUS
<1>3. \A j \in DOMAIN e : (g \o e)[Len(g) + j] = e[j]
  OBVIOUS
<1>4. \A m \in 1 .. Len(g) + Len(e) :
        m \in 1 .. Len(g) \/ (m - Len(g) \in 1 .. Len(e) /\ m = Len(g) + (m - Len(g)))
  BY <1>1
<1> QED
  BY <1>1, <1>2, <1>3, <1>4

LEMMA ConcatHeap ==
  ASSUME NEW g \in Heaps, NEW e \in Seq(Nodes),
         \A j \in DOMAIN e : Kids(e, j) \subseteq 1 .. Len(g) + Len(e)
  PROVE  /\ g \o e \in Heaps /\ Len(g \o e) = Len(g) + Len(e)
         /\ \A m \in DOMAIN g : (g \o e)[m] = g[m] /\ Kids(g \o e, m) = Kids(g, m)
         /\ \A j \in DOMAIN e : Kids(g \o e, Len(g) + j) = Kids(e, j)
<1>1. /\ g \o e \in Seq(Nodes) /\ Len(g \o e) = Len(g) + Len(e)
      /\ \A m \in DOMAIN g : (g \o e)[m] = g[m]
      /\ \A j \in DOMAIN e : (g \o e)[Len(g) + j] = e[j]
      /\ \A m \in DOMAIN (g \o e) : m \in DOMAIN g \/ \E j \in DOMAIN e : m = Len(g) + j
  BY HeapFacts, Concat
<1>2. /\ \A m \in DOMAIN g : Kids(g \o e, m) = Kids(g, m)
      /\ \A j \in DOMAIN e : Kids(g \o e, Len(g) + j) = Kids(e, j)
  BY <1>1 DEF Kids
<1>3. /\ DOMAIN (g \o e) = 1 .. Len(g) + Len(e)
      /\ Len(e) \in Nat /\ Len(g) \in Nat /\ DOMAIN g = 1 .. Len(g)
      /\ \A m \in DOMAIN g : Kids(g, m) \subseteq DOMAIN g
  BY <1>1, HeapFacts
<1>4. Linked(g \o e)
  BY <1>1, <1>2, <1>3 DEF Linked, Closed
<1> QED
  BY <1>1, <1>2, <1>4 DEF Heaps

(* A rank is an order of the nodes that has all children of a node below   *)
(* it; there is one exactly if no node is found from itself.               *)
Ranks(g, rank) ==
  /\ rank \in [DOMAIN g -> Nat \ {0}]
  /\ \A m \in DOMAIN g : \A c \in Kids(g, m) : rank[c] < rank[m]

LEMMA RankedIsAcyclic ==
  ASSUME NEW g \in Heaps, NEW n \in DOMAIN g, NEW rank, Ranks(g, rank)
  PROVE  Acyclic(g, n)
<1>1. SUFFICES ASSUME NEW m \in Reach(g, n), NEW c \in Kids(g, m)
               PROVE  m \notin Reach(g, c)
  BY DEF Acyclic
<1> DEFINE Below == {x \in DOMAIN g : rank[x] <= rank[c]}
<1>2. m \in DOMAIN g /\ c \in DOMAIN g
  BY HeapFacts, ReachFacts
<1>3. rank[c] < rank[m] /\ rank[c] \in Nat /\ rank[m] \in Nat
  BY <1>2 DEF Ranks
<1>4. c \in Below /\ m \notin Below
  BY <1>2, <1>3
<1>5. Closed(g, Below)
  <2> SUFFICES ASSUME NEW x \in Below, NEW y \in Kids(g, x)
               PROVE  y \in Below
    BY DEF Closed
  <2>1. x \in DOMAIN g /\ y \in DOMAIN g
    BY HeapFacts
  <2>2. rank[y] < rank[x] /\ rank[x] <= rank[c] /\ rank[y] \in Nat /\ rank[x] \in Nat
    BY <2>1 DEF Ranks
  <2> QED
    BY <2>1, <2>2, <1>3
<1> HIDE DEF Below
<1> QED
  BY <1>2, <1>4, <1>5, HeapFacts, ReachFacts

LEMMA DeepCopyFacts ==
  ASSUME NEW g \in Heaps, NEW n \in DOMAIN g
  PROVE  LET c   == DeepCopy(g, n)
             new == Len(g) + 1 .. Len(c.heap)
         IN  /\ c.heap \in Heaps /\ Len(c.heap) >= Len(g) /\ c.node \in new
             /\ \A m \in DOMAIN g : c.heap[m] = g[m] /\ Kids(c.heap, m) = Kids(g, m)
             /\ \A m \in new : Kids(c.heap, m) \subseteq new
             /\ \A rank : Ranks(g, rank) =>
                  \E rank2 : Ranks(c.heap, rank2) /\ \A m \in DOMAIN g : rank2[m] = rank[m]
<1> DEFINE e == Copies(g, n)
           C == Cardinality(Reach(g, n))
           c == DeepCopy(g, n)
           new == Len(g) + 1 .. Len(c.heap)
<1>1. c.heap = g \o e /\ c.node = Len(g) + Place(Reach(g, n), n)
  BY DeepCopyIs
<1>2. /\ C \in Nat /\ e \in Seq(Nodes) /\ Len(e) = C /\ DOMAIN e = 1 .. C
      /\ Place(Reach(g, n), n) \in 1 .. C
      /\ \A j \in 1 .. C :
           /\ Old(g, n, j) \in DOMAIN g
           /\ \A x \in Kids(e, j) :
                \E o \in Kids(g, Old(g, n, j)) :
                  \E i \in 1 .. C : x = Len(g) + i /\ Old(g, n, i) = o
  BY CopiesFacts
<1> HIDE DEF e, C, c
<1>3. Len(g) \in Nat /\ DOMAIN g = 1 .. Len(g) /\ \A m \in DOMAIN g : Kids(g, m) \subseteq DOMAIN g
  BY HeapFacts
<1>4. \A j \in DOMAIN e : Kids(e, j) \subseteq Len(g) + 1 .. Len(g) + C
  BY <1>2, <1>3
<1>5. \A j \in DOMAIN e : Kids(e, j) \subseteq 1 .. Len(g) + Len(e)
  BY <1>2, <1>3, <1>4
<1>6. /\ c.heap \in Heaps /\ Len(c.heap) = Len(g) + C
      /\ \A m \in DOMAIN g : c.heap[m] = g[m] /\ Kids(c.heap, m) = Kids(g, m)
      /\ \A j \in 1 .. C : Kids(c.heap, Len(g) + j) = Kids(e, j)
  <2>1. /\ g \o e \in Heaps /\ Len(g \o e) = Len(g) + Len(e)
        /\ \A m \in DOMAIN g : (g \o e)[m] = g[m] /\ Kids(g \o e, m) = Kids(g, m)
        /\ \A j \in DOMAIN e : Kids(g \o e, Len(g) + j) = Kids(e, j)
    BY <1>2, <1>5, ConcatHeap
  <2> QED
    BY <1>1, <1>2, <2>1
<1>7. \A m \in new : m - Len(g) \in 1 .. C /\ m = Len(g) + (m - Len(g))
  BY <1>2, <1>3, <1>6
<1>8. \A m \in new : Kids(c.heap, m) = Kids(e, m - Len(g))
  BY <1>6, <1>7
<1>9. \A m \in new : Kids(c.heap, m) \subseteq new
  BY <1>2, <1>4, <1>6, <1>7, <1>8
<1>10. ASSUME NEW rank, Ranks(g, rank)
       PROVE  \E rank2 : Ranks(c.heap, rank2) /\ \A m \in DOMAIN g : rank2[m] = rank[m]
  <2> DEFINE rank2 == [m \in DOMAIN c.heap |->
                         IF m \in DOMAIN g THEN rank[m] ELSE rank[Old(g, n, m - Len(g))]]
  <2>1. DOMAIN c.heap = DOMAIN g \cup new /\ \A m \in new : m \notin DOMAIN g
    BY <1>2, <1>3, <1>6, HeapFacts, SMTT(30)
  <2>2. \A m \in DOMAIN g : rank2[m] = rank[m] /\ rank[m] \in Nat \ {0}
    BY <1>10, <2>1 DEF Ranks
  <2>3. \A m \in new : rank2[m] = rank[Old(g, n, m - Len(g))] /\ Old(g, n, m - Len(g)) \in DOMAIN g
    BY <1>2, <1>7, <2>1
  <2>4. rank2 \in [DOMAIN c.heap -> Nat \ {0}]
    BY <2>1, <2>2, <2>3
  <2>5. ASSUME NEW m \in DOMAIN g, NEW x \in Kids(c.heap, m)
        PROVE  rank2[x] < rank2[m]
    BY <1>3, <1>6, <1>10, <2>2 DEF Ranks
  <2>6. ASSUME NEW m \in new, NEW x \in Kids(c.heap, m)
        PROVE  rank2[x] < rank2[m]
    <3>1. x \in Kids(e, m - Len(g)) /\ m - Len(g) \in 1 .. C
      BY <1>7, <1>8, <2>6
    <3>2. PICK o \in Kids(g, Old(g, n, m - Len(g))) :
            \E i \in 1 .. C : x = Len(g) + i /\ Old(g, n, i) = o
      BY <1>2, <3>1
    <3>3. PICK i \in 1 .. C : x = Len(g) + i /\ Old(g, n, i) = o
      BY <3>2
    <3>4. x \in new /\ x - Len(g) = i
      BY <1>2, <1>3, <1>6, <3>3
    <3>5. rank2[x] = rank[o]
      BY <2>3, <3>3, <3>4
    <3>6. rank[o] < rank[Old(g, n, m - Len(g))]
      BY <1>10, <2>3, <3>2 DEF Ranks
    <3> QED
      BY <2>3, <3>5, <3>6
  <2>7. Ranks(c.heap, rank2)
    <3> HIDE DEF rank2
    <3> QED
      BY <2>1, <2>4, <2>5, <2>6 DEF Ranks
  <2> HIDE DEF rank2
  <2> QED
    BY <2>2, <2>7
<1>11. c.node \in new /\ Len(c.heap) >= Len(g)
  BY <1>1, <1>2, <1>3, <1>6
<1> QED
  BY <1>6, <1>9, <1>10, <1>11 DEF c

-----------------------------------------------------------------------------
(* The visit methods.                                                      *)
KidsOf(v) == {v.kids[j] : j \in DOMAIN v.kids}

LEMMA ClassFacts ==
  /\ DOMAIN Operators = {"Name", "BinOp", "Constant", "Compare"}
  /\ DOMAIN Arity = {"Name", "Constant", "None", "Attribute", "Len", "Return", "Subscript",
                     "BinOp", "Compare", "And", "If", "IfExp"}
  /\ Operators["Name"] = {"data", "i"} /\ Operators["Constant"] = Int
  /\ Operators["BinOp"] = {"Add", "Sub", "Mult", "Div"}
  /\ Operators["Compare"] = {"Lt", "Gt", "LtE", "GtE", "Eq", "NotEq", "Is", "IsNot"}
  /\ Arity["Name"] = 0 /\ Arity["Constant"] = 0 /\ Arity["None"] = 0
  /\ Arity["Attribute"] = 1 /\ Arity["Len"] = 1 /\ Arity["Return"] = 1
  /\ Arity["Subscript"] = 2 /\ Arity["BinOp"] = 2 /\ Arity["Compare"] = 2
  /\ Arity["And"] = 2 /\ Arity["If"] = 2 /\ Arity["IfExp"] = 3
BY DEF Operators, Arity

LEMMA ValFacts == "" \in Vals /\ \A op \in DOMAIN Operators : Operators[op] \subseteq Vals
<1>1. "" \in Vals
  BY DEF Vals
<1>2. ASSUME NEW op \in DOMAIN Operators
      PROVE  Operators[op] \subseteq Vals
  BY Zenon DEF Vals
<1> QED
  BY <1>1, <1>2

LEMMA NodeFacts ==
  ASSUME NEW op, NEW val, NEW kids,
         op \in DOMAIN Arity, val \in Vals, kids \in Seq(Nat),
         op \in DOMAIN Operators => val \in Operators[op], Len(kids) = Arity[op]
  PROVE  /\ Node(op, val, kids) \in Nodes
         /\ KidsOf(Node(op, val, kids)) = {kids[j] : j \in DOMAIN kids}
BY DEF Node, Nodes, WellFormed, KidsOf

LEMMA LeafNode ==
  ASSUME NEW op \in {"Name", "Constant", "None"}, NEW val \in Vals,
         op \in DOMAIN Operators => val \in Operators[op]
  PROVE  Leaf(op, val) \in Nodes /\ KidsOf(Leaf(op, val)) = {}
<1> DEFINE kids == << >>
<1>1. kids \in Seq(Nat) /\ Len(kids) = 0 /\ {kids[j] : j \in DOMAIN kids} = {}
  OBVIOUS
<1>2. op \in DOMAIN Arity /\ Arity[op] = 0
  BY ClassFacts
<1>3. Leaf(op, val) = Node(op, val, kids)
  BY DEF Leaf, Node
<1> HIDE DEF kids
<1>4. op \in DOMAIN Arity /\ Len(kids) = Arity[op]
  BY <1>1, <1>2
<1>5. Node(op, val, kids) \in Nodes /\ KidsOf(Node(op, val, kids)) = {kids[j] : j \in DOMAIN kids}
  BY <1>1, <1>4, NodeFacts
<1> QED
  BY <1>1, <1>3, <1>5

LEMMA ConstantNode == ASSUME NEW v \in Int PROVE Constant(v) \in Nodes /\ KidsOf(Constant(v)) = {}
<1>1. v \in Operators["Constant"] /\ v \in Vals
  BY ClassFacts, ValFacts
<1> QED
  BY <1>1, LeafNode DEF Constant

LEMMA NilNode == Nil \in Nodes /\ KidsOf(Nil) = {}
<1>1. "None" \notin DOMAIN Operators /\ "" \in Vals
  BY ClassFacts, ValFacts
<1> QED
  BY <1>1, LeafNode DEF Nil

LEMMA DataNode == Name("data") \in Nodes /\ KidsOf(Name("data")) = {}
<1>1. "data" \in Operators["Name"] /\ "data" \in Vals
  BY ClassFacts, ValFacts
<1> QED
  BY <1>1, LeafNode DEF Name

LEMMA OneKid ==
  ASSUME NEW op \in {"Len", "Return"}, NEW a \in Nat
  PROVE  Plain(op, <<a>>) \in Nodes /\ KidsOf(Plain(op, <<a>>)) = {a}
<1> DEFINE kids == <<a>>
<1>1. kids \in Seq(Nat) /\ Len(kids) = 1 /\ {kids[j] : j \in DOMAIN kids} = {a}
  OBVIOUS
<1>2. op \in DOMAIN Arity /\ op \notin DOMAIN Operators /\ Arity[op] = 1
  BY ClassFacts, ValFacts
<1> HIDE DEF kids
<1>3. Node(op, "", kids) \in Nodes /\ KidsOf(Node(op, "", kids)) = {a}
  BY <1>1, <1>2, ValFacts, NodeFacts
<1> QED
  BY <1>3 DEF kids, Plain

LEMMA TwoKids ==
  ASSUME NEW op \in {"And", "If"}, NEW a \in Nat, NEW b \in Nat
  PROVE  Plain(op, <<a, b>>) \in Nodes /\ KidsOf(Plain(op, <<a, b>>)) = {a, b}
<1> DEFINE kids == <<a, b>>
<1>1. kids \in Seq(Nat) /\ Len(kids) = 2 /\ {kids[j] : j \in DOMAIN kids} = {a, b}
  OBVIOUS
<1>2. op \in DOMAIN Arity /\ op \notin DOMAIN Operators /\ Arity[op] = 2
  BY ClassFacts, ValFacts
<1> HIDE DEF kids
<1>3. Len(kids) = Arity[op] /\ "" \in Vals /\ kids \in Seq(Nat)
      /\ (op \in DOMAIN Operators => "" \in Operators[op])
  BY <1>1, <1>2, ValFacts
<1>4. /\ Node(op, "", kids) \in Nodes
      /\ KidsOf(Node(op, "", kids)) = {kids[j] : j \in DOMAIN kids}
  BY <1>2, <1>3, NodeFacts
<1> QED
  BY <1>1, <1>4 DEF kids, Plain

LEMMA CompareNode ==
  ASSUME NEW val \in Operators["Compare"], NEW a \in Nat, NEW b \in Nat
  PROVE  /\ Node("Compare", val, <<a, b>>) \in Nodes
         /\ KidsOf(Node("Compare", val, <<a, b>>)) = {a, b}
<1> DEFINE kids == <<a, b>>
<1>1. kids \in Seq(Nat) /\ Len(kids) = 2 /\ {kids[j] : j \in DOMAIN kids} = {a, b}
  OBVIOUS
<1>2. "Compare" \in DOMAIN Arity /\ Arity["Compare"] = 2 /\ val \in Vals
  BY ClassFacts, ValFacts
<1> HIDE DEF kids
<1>3. Node("Compare", val, kids) \in Nodes /\ KidsOf(Node("Compare", val, kids)) = {a, b}
  BY <1>1, <1>2, ValFacts, NodeFacts
<1> QED
  BY <1>3 DEF kids

LEMMA IfExpNode ==
  ASSUME NEW a \in Nat, NEW b \in Nat, NEW c \in Nat
  PROVE  Plain("IfExp", <<a, b, c>>) \in Nodes /\ KidsOf(Plain("IfExp", <<a, b, c>>)) = {a, b, c}
<1> DEFINE kids == <<a, b, c>>
<1>1. kids \in Seq(Nat) /\ Len(kids) = 3 /\ {kids[j] : j \in DOMAIN kids} = {a, b, c}
  OBVIOUS
<1>2. /\ "IfExp" \in DOMAIN Arity /\ "IfExp" \notin DOMAIN Operators
      /\ Arity["IfExp"] = 3
  BY ClassFacts, ValFacts
<1> HIDE DEF kids
<1>3. Node("IfExp", "", kids) \in Nodes /\ KidsOf(Node("IfExp", "", kids)) = {a, b, c}
  BY <1>1, <1>2, ValFacts, NodeFacts
<1> QED
  BY <1>3 DEF kids, Plain

(* What a visit method may do, for a node n: what it changes or adds       *)
(* refers to n, to the children of n and to what it adds, and all that it  *)
(* adds has a place in the order of the nodes, next to n.                  *)
Fits(r, n) ==
  LET new  == Len(h) + 1 .. Len(r.heap)
      near == {n} \cup Kids(h, n) \cup new
  IN  /\ r.heap \in Heaps /\ Len(r.heap) >= Len(h) /\ r.node \in {n} \cup new
      /\ \A m \in DOMAIN h : m # n => r.heap[m] = h[m]
      /\ Len(r.heap[n].kids) >= Len(h[n].kids)
      /\ \A m \in {n} \cup new : Kids(r.heap, m) \subseteq near
      /\ \A rank : Ranks(h, rank) =>
           \E rank2 : /\ Ranks(r.heap, rank2)
                      /\ \A m \in DOMAIN h : rank2[m] = 8 * rank[m]
                      /\ rank2[r.node] < 8 * rank[n] + 8

LEMMA GuardFits ==
  ASSUME h \in Heaps, NEW n \in DOMAIN h, NEW e \in Seq(Nodes), Len(e) \in 1 .. 7,
         \A j \in DOMAIN e :
           KidsOf(e[j]) \subseteq {n} \cup Kids(h, n) \cup {Len(h) + i : i \in 1 .. j - 1}
  PROVE  Fits([heap |-> h \o e, node |-> Len(h) + Len(e)], n)
<1> DEFINE L == Len(h)
           E == Len(e)
           g == h \o e
           new == L + 1 .. L + E
           near == {n} \cup Kids(h, n) \cup new
<1>1. /\ L \in Nat /\ DOMAIN h = 1 .. L /\ h[n].kids \in Seq(DOMAIN h)
      /\ \A m \in DOMAIN h : Kids(h, m) \subseteq DOMAIN h
  BY HeapFacts
<1>2. E \in 1 .. 7 /\ DOMAIN e = 1 .. E
  OBVIOUS
<1>3. \A j \in DOMAIN e : Kids(e, j) = KidsOf(e[j])
  BY DEF Kids, KidsOf
<1> HIDE DEF L, E
<1>4. \A j \in DOMAIN e : Kids(e, j) \subseteq {n} \cup Kids(h, n) \cup {L + i : i \in 1 .. j - 1}
  BY <1>3 DEF L
<1>5. \A j \in 1 .. E : \A i \in 1 .. j - 1 : L + i \in new
  BY <1>1, <1>2
<1>6. \A j \in DOMAIN e : Kids(e, j) \subseteq near
  BY <1>2, <1>4, <1>5, SMTT(30)
<1>7. \A j \in DOMAIN e : Kids(e, j) \subseteq 1 .. L + E
  BY <1>1, <1>2, <1>6
<1>8. /\ g \in Heaps /\ Len(g) = L + E
      /\ \A m \in DOMAIN h : g[m] = h[m] /\ Kids(g, m) = Kids(h, m)
      /\ \A j \in DOMAIN e : Kids(g, L + j) = Kids(e, j)
  BY <1>7, ConcatHeap DEF L, E
<1> HIDE DEF g
<1>9. \A m \in new : m - L \in 1 .. E /\ m = L + (m - L)
  BY <1>1, <1>2
<1>10. \A m \in new : Kids(g, m) \subseteq {n} \cup Kids(h, n) \cup {L + i : i \in 1 .. m - L - 1}
  BY <1>2, <1>4, <1>8, <1>9
<1>11. \A m \in {n} \cup new : Kids(g, m) \subseteq near
  BY <1>2, <1>6, <1>8, <1>9
<1>12. ASSUME NEW rank, Ranks(h, rank)
       PROVE  \E rank2 : /\ Ranks(g, rank2)
                         /\ \A m \in DOMAIN h : rank2[m] = 8 * rank[m]
                         /\ rank2[L + E] < 8 * rank[n] + 8
  <2> DEFINE rank2 == [m \in DOMAIN g |-> IF m \in DOMAIN h THEN 8 * rank[m]
                                                           ELSE 8 * rank[n] + (m - L)]
  <2>1. DOMAIN g = DOMAIN h \cup new /\ \A m \in new : m \notin DOMAIN h
    BY <1>1, <1>2, <1>8, HeapFacts
  <2>2. \A m \in DOMAIN h : rank2[m] = 8 * rank[m] /\ rank[m] \in Nat \ {0}
    BY <1>12, <2>1 DEF Ranks
  <2>3. \A m \in new : rank2[m] = 8 * rank[n] + (m - L)
    BY <2>1
  <2>a. rank2 = [m \in DOMAIN g |-> rank2[m]]
    OBVIOUS
  <2> HIDE DEF rank2
  <2>4. rank2 \in [DOMAIN g -> Nat \ {0}]
    <3>1. \A m \in DOMAIN h : 8 * rank[m] \in Nat \ {0}
      BY <2>2
    <3>2. \A m \in new : 8 * rank[n] + (m - L) \in Nat \ {0}
      BY <1>9, <3>1
    <3>3. \A m \in DOMAIN g : rank2[m] \in Nat \ {0}
      BY <2>1, <2>2, <2>3, <3>1, <3>2
    <3> QED
      BY <2>a, <3>3
  <2>5. ASSUME NEW m \in DOMAIN h, NEW x \in Kids(g, m)
        PROVE  rank2[x] < rank2[m]
    <3>1. x \in Kids(h, m) /\ x \in DOMAIN h
      BY <1>1, <1>8
    <3>2. rank[x] < rank[m]
      BY <1>12, <3>1 DEF Ranks
    <3> QED
      BY <2>2, <3>1, <3>2
  <2>6. ASSUME NEW m \in new, NEW x \in Kids(g, m)
        PROVE  rank2[x] < rank2[m]
    <3>1. rank2[m] = 8 * rank[n] + (m - L) /\ m - L \in 1 .. E /\ rank[n] \in Nat
      BY <1>9, <2>2, <2>3
    <3>2. CASE x = n
      BY <2>2, <3>1, <3>2
    <3>3. CASE x \in Kids(h, n)
      <4>1. x \in DOMAIN h /\ rank[x] < rank[n] /\ rank2[x] = 8 * rank[x] /\ rank[x] \in Nat
        BY <1>1, <1>12, <2>2, <3>3 DEF Ranks
      <4> QED
        BY <3>1, <4>1
    <3>4. CASE x \in {L + i : i \in 1 .. m - L - 1}
      <4>1. PICK i \in 1 .. m - L - 1 : x = L + i
        BY <3>4
      <4>2. x \in new /\ x - L = i
        BY <1>1, <1>2, <1>9, <4>1
      <4>3. rank2[x] = 8 * rank[n] + i
        BY <2>3, <4>2
      <4> QED
        BY <3>1, <4>1, <4>3
    <3> QED
      BY <1>10, <3>2, <3>3, <3>4
  <2>7. Ranks(g, rank2)
    BY <2>1, <2>4, <2>5, <2>6 DEF Ranks
  <2>8. L + E \in new /\ rank2[L + E] = 8 * rank[n] + E /\ rank[n] \in Nat
    BY <1>1, <1>2, <2>2, <2>3
  <2>9. rank2[L + E] < 8 * rank[n] + 8
    BY <1>2, <2>8
  <2> QED
    BY <2>2, <2>7, <2>9
<1>13. L + E \in new /\ Len(g) >= L /\ Len(g[n].kids) >= Len(h[n].kids)
  BY <1>1, <1>2, <1>8
<1> DEFINE r == [heap |-> g, node |-> L + E]
<1>14. r.heap = g /\ r.node = L + E
  OBVIOUS
<1> HIDE DEF r
<1>15. Fits(r, n)
  BY <1>8, <1>11, <1>12, <1>13, <1>14 DEF Fits, L
<1> QED
  BY <1>15 DEF r, g, L, E

(* A visit method that changes the value of n and nothing else.            *)
LEMMA ChangeFits ==
  ASSUME h \in Heaps, NEW n \in DOMAIN h, NEW v \in Nodes, v.kids = h[n].kids
  PROVE  Fits([heap |-> [h EXCEPT ![n] = v], node |-> n], n)
<1> DEFINE g == [h EXCEPT ![n] = v]
           r == [heap |-> g, node |-> n]
<1>1. /\ h \in Seq(Nodes) /\ Len(h) \in Nat /\ DOMAIN h = 1 .. Len(h)
      /\ h[n].kids \in Seq(DOMAIN h) /\ Linked(h)
  BY HeapFacts
<1>2. /\ g \in Seq(Nodes) /\ Len(g) = Len(h) /\ DOMAIN g = DOMAIN h
      /\ g[n] = v /\ \A m \in DOMAIN h : m # n => g[m] = h[m]
  BY <1>1
<1> HIDE DEF g
<1>3. \A m \in DOMAIN h : Kids(g, m) = Kids(h, m)
  <2> SUFFICES ASSUME NEW m \in DOMAIN h PROVE Kids(g, m) = Kids(h, m)
    OBVIOUS
  <2>1. g[m].kids = h[m].kids
    BY <1>2
  <2> QED
    BY <2>1 DEF Kids
<1>4. g \in Heaps
  BY <1>1, <1>2, <1>3 DEF Heaps, Linked, Closed
<1>5. Len(h) + 1 .. Len(g) = {}
  BY <1>1, <1>2
<1>6. ASSUME NEW rank, Ranks(h, rank)
      PROVE  \E rank2 : /\ Ranks(g, rank2)
                        /\ \A m \in DOMAIN h : rank2[m] = 8 * rank[m]
                        /\ rank2[n] < 8 * rank[n] + 8
  <2> DEFINE rank2 == [m \in DOMAIN h |-> 8 * rank[m]]
  <2>1. \A m \in DOMAIN h : rank[m] \in Nat \ {0} /\ rank2[m] = 8 * rank[m]
    BY <1>6 DEF Ranks
  <2>a. rank2 = [m \in DOMAIN h |-> rank2[m]]
    OBVIOUS
  <2> HIDE DEF rank2
  <2>2. \A m \in DOMAIN h : rank2[m] \in Nat \ {0}
    BY <2>1
  <2>3. rank2 \in [DOMAIN g -> Nat \ {0}]
    BY <1>2, <2>a, <2>2
  <2>4. ASSUME NEW m \in DOMAIN h, NEW c \in Kids(h, m)
        PROVE  rank2[c] < rank2[m]
    <3>1. c \in DOMAIN h /\ rank[c] < rank[m]
      BY <1>1, <1>6 DEF Ranks, Linked, Closed
    <3> QED
      BY <2>1, <3>1
  <2>5. Ranks(g, rank2)
    BY <1>2, <1>3, <2>3, <2>4 DEF Ranks
  <2>6. rank2[n] < 8 * rank[n] + 8
    BY <2>1
  <2> QED
    BY <2>1, <2>5, <2>6
<1>7. r.heap = g /\ r.node = n /\ Len(g) >= Len(h) /\ Len(g[n].kids) >= Len(h[n].kids)
  BY <1>1, <1>2
<1> HIDE DEF r
<1>8. Fits(r, n)
  BY <1>2, <1>3, <1>4, <1>5, <1>6, <1>7 DEF Fits
<1> QED
  BY <1>8 DEF r, g

(* A guard at the start of a function: its nodes come below all others.    *)
LEMMA PrependFits ==
  ASSUME h \in Heaps, NEW n \in DOMAIN h, h[n].op = "FunctionDef",
         NEW e \in Seq(Nodes), Len(e) \in 1 .. 7,
         \A j \in DOMAIN e : KidsOf(e[j]) \subseteq {Len(h) + i : i \in 1 .. j - 1}
  PROVE  Fits([heap |-> [h \o e EXCEPT ![n].kids = <<Len(h) + Len(e)>> \o @], node |-> n], n)
<1> DEFINE L == Len(h)
           E == Len(e)
           f == h \o e
           kids == <<L + E>> \o h[n].kids
           v == [h[n] EXCEPT !.kids = kids]
           g == [f EXCEPT ![n] = v]
           new == L + 1 .. L + E
           r == [heap |-> g, node |-> n]
<1>1. /\ L \in Nat /\ DOMAIN h = 1 .. L /\ h[n] \in Nodes /\ h[n].kids \in Seq(DOMAIN h)
      /\ \A m \in DOMAIN h : Kids(h, m) \subseteq DOMAIN h
  BY HeapFacts
<1>2. E \in 1 .. 7 /\ DOMAIN e = 1 .. E
  OBVIOUS
<1>3. \A j \in DOMAIN e : Kids(e, j) = KidsOf(e[j])
  BY DEF Kids, KidsOf
<1> HIDE DEF L, E
<1>4. \A j \in DOMAIN e : Kids(e, j) \subseteq {L + i : i \in 1 .. j - 1}
  BY <1>3 DEF L
<1>5. \A j \in 1 .. E : \A i \in 1 .. j - 1 : L + i \in new
  BY <1>1, <1>2
<1>6. \A j \in DOMAIN e : Kids(e, j) \subseteq new
  BY <1>2, <1>4, <1>5
<1>7. \A j \in DOMAIN e : Kids(e, j) \subseteq 1 .. L + E
  BY <1>1, <1>2, <1>6
<1>8. /\ f \in Heaps /\ Len(f) = L + E
      /\ \A m \in DOMAIN h : f[m] = h[m] /\ Kids(f, m) = Kids(h, m)
      /\ \A j \in DOMAIN e : Kids(f, L + j) = Kids(e, j)
  BY <1>7, ConcatHeap DEF L, E
<1>9. [h \o e EXCEPT ![n].kids = <<Len(h) + Len(e)>> \o @] = g
  BY <1>8 DEF L, E
<1>10. /\ kids \in Seq(Nat) /\ Len(kids) = Len(h[n].kids) + 1
       /\ {kids[j] : j \in DOMAIN kids} = {L + E} \cup Kids(h, n)
  <2> DEFINE s == h[n].kids
  <2>1. s \in Seq(Nat) /\ L + E \in Nat
    BY <1>1, <1>2
  <2>2. Kids(h, n) = {s[j] : j \in DOMAIN s}
    BY DEF Kids
  <2> HIDE DEF s
  <2>3. /\ <<L + E>> \o s \in Seq(Nat) /\ Len(<<L + E>> \o s) = Len(s) + 1
        /\ DOMAIN (<<L + E>> \o s) = 1 .. Len(s) + 1 /\ DOMAIN s = 1 .. Len(s)
        /\ (<<L + E>> \o s)[1] = L + E /\ Len(s) \in Nat
    BY <2>1
  <2>4. \A j \in 2 .. Len(s) + 1 : (<<L + E>> \o s)[j] = s[j - 1] /\ j - 1 \in DOMAIN s
    BY <2>1
  <2>5. \A j \in DOMAIN s : j + 1 \in 2 .. Len(s) + 1 /\ (j + 1) - 1 = j
    BY <2>3
  <2>6. \A j \in 1 .. Len(s) + 1 : j = 1 \/ j \in 2 .. Len(s) + 1
    BY <2>3
  <2>7. {(<<L + E>> \o s)[j] : j \in DOMAIN (<<L + E>> \o s)} = {L + E} \cup {s[j] : j \in DOMAIN s}
    <3> DEFINE t == <<L + E>> \o s
    <3>1. \A x \in {t[j] : j \in DOMAIN t} : x \in {L + E} \cup {s[j] : j \in DOMAIN s}
      BY <2>3, <2>4, <2>6
    <3>2. ASSUME NEW j \in DOMAIN s
          PROVE  s[j] \in {t[i] : i \in DOMAIN t}
      <4>1. t[j + 1] = s[j] /\ j + 1 \in DOMAIN t
        BY <2>3, <2>4, <2>5
      <4> QED
        BY <4>1
    <3>3. L + E \in {t[j] : j \in DOMAIN t}
      BY <2>3
    <3> QED
      BY <3>1, <3>2, <3>3
  <2> QED
    BY <2>2, <2>3, <2>7 DEF s
<1> HIDE DEF kids
<1>11. v \in Nodes /\ v.kids = kids
  <2>1. "FunctionDef" \notin DOMAIN Arity /\ "FunctionDef" \notin DOMAIN Operators
    BY ClassFacts
  <2> QED
    BY <1>1, <1>10, <2>1 DEF Nodes, WellFormed
<1> HIDE DEF v, f
<1>12. /\ g \in Seq(Nodes) /\ Len(g) = L + E /\ DOMAIN g = 1 .. L + E /\ g[n] = v
       /\ \A m \in 1 .. L + E : m # n => g[m] = f[m]
  <2>1. f \in Seq(Nodes) /\ DOMAIN f = 1 .. L + E /\ n \in DOMAIN f
    BY <1>1, <1>2, <1>8, HeapFacts
  <2> QED
    BY <1>8, <1>11, <2>1
<1> HIDE DEF g
<1>13. Kids(g, n) = {L + E} \cup Kids(h, n)
  BY <1>10, <1>11, <1>12 DEF Kids
<1>14. /\ \A m \in DOMAIN h : m # n => Kids(g, m) = Kids(h, m)
       /\ \A j \in DOMAIN e : Kids(g, L + j) = Kids(e, j)
  <2>1. \A m \in 1 .. L + E : m # n => Kids(g, m) = Kids(f, m)
    BY <1>12 DEF Kids
  <2>2. \A j \in DOMAIN e : L + j \in 1 .. L + E /\ L + j # n
    BY <1>1, <1>2
  <2>3. \A m \in DOMAIN h : m \in 1 .. L + E
    BY <1>1, <1>2
  <2> QED
    BY <1>8, <2>1, <2>2, <2>3
<1>15. \A m \in new : m - L \in 1 .. E /\ m = L + (m - L)
  BY <1>1, <1>2
<1>16. \A m \in new : Kids(g, m) \subseteq {L + i : i \in 1 .. m - L - 1} /\ Kids(g, m) \subseteq new
  BY <1>2, <1>4, <1>6, <1>14, <1>15
<1>17. DOMAIN g = DOMAIN h \cup new /\ L + E \in new /\ \A m \in new : m \notin DOMAIN h
  BY <1>1, <1>2, <1>12
<1>18. g \in Heaps
  <2>1. ASSUME NEW m \in DOMAIN g
        PROVE  Kids(g, m) \subseteq DOMAIN g
    BY <1>1, <1>13, <1>14, <1>16, <1>17
  <2> QED
    BY <1>12, <2>1 DEF Heaps, Linked, Closed
<1>19. ASSUME NEW rank, Ranks(h, rank)
       PROVE  \E rank2 : /\ Ranks(g, rank2)
                         /\ \A m \in DOMAIN h : rank2[m] = 8 * rank[m]
                         /\ rank2[n] < 8 * rank[n] + 8
  <2> DEFINE rank2 == [m \in DOMAIN g |-> IF m \in DOMAIN h THEN 8 * rank[m] ELSE m - L]
  <2>1. \A m \in DOMAIN h : rank2[m] = 8 * rank[m] /\ rank[m] \in Nat \ {0}
    BY <1>17, <1>19 DEF Ranks
  <2>2. \A m \in new : rank2[m] = m - L
    BY <1>17
  <2>3. rank2 = [m \in DOMAIN g |-> rank2[m]]
    OBVIOUS
  <2> HIDE DEF rank2
  <2>4. \A m \in DOMAIN h : rank2[m] \in Nat /\ rank2[m] >= 8
    BY <2>1
  <2>5. \A m \in new : rank2[m] \in 1 .. 7
    BY <1>2, <1>15, <2>2
  <2>6. rank2 \in [DOMAIN g -> Nat \ {0}]
    <3>1. \A m \in DOMAIN g : rank2[m] \in Nat \ {0}
      BY <1>17, <2>4, <2>5
    <3> QED
      BY <2>3, <3>1
  <2>7. ASSUME NEW m \in DOMAIN h, NEW x \in Kids(g, m)
        PROVE  rank2[x] < rank2[m]
    <3>1. x \in Kids(h, m) \/ x \in new
      BY <1>13, <1>14, <1>17
    <3>2. CASE x \in new
      BY <2>4, <2>5, <3>2
    <3>3. CASE x \in Kids(h, m)
      <4>1. x \in DOMAIN h /\ rank[x] < rank[m]
        BY <1>1, <1>19, <3>3 DEF Ranks
      <4> QED
        BY <2>1, <4>1
    <3> QED
      BY <3>1, <3>2, <3>3
  <2>8. ASSUME NEW m \in new, NEW x \in Kids(g, m)
        PROVE  rank2[x] < rank2[m]
    <3>1. PICK i \in 1 .. m - L - 1 : x = L + i
      BY <1>16
    <3>2. x \in new /\ x - L = i /\ m - L \in 1 .. E
      BY <1>1, <1>2, <1>15, <3>1
    <3> QED
      BY <1>2, <2>2, <3>2
  <2>9. Ranks(g, rank2)
    BY <1>17, <2>6, <2>7, <2>8 DEF Ranks
  <2>10. rank2[n] < 8 * rank[n] + 8
    BY <2>1
  <2> QED
    BY <2>1, <2>9, <2>10
<1>20. r.heap = g /\ r.node = n /\ Len(g) >= L /\ Len(g[n].kids) >= Len(h[n].kids)
  BY <1>1, <1>2, <1>10, <1>11, <1>12
<1> HIDE DEF r
<1>21. \A m \in DOMAIN h : m # n => g[m] = h[m]
  BY <1>1, <1>2, <1>8, <1>12
<1>22. \A m \in {n} \cup new : Kids(g, m) \subseteq {n} \cup Kids(h, n) \cup new
  BY <1>13, <1>16, <1>17
<1>23. Fits(r, n)
  BY <1>12, <1>18, <1>19, <1>20, <1>21, <1>22 DEF Fits, L
<1> QED
  BY <1>9, <1>23 DEF r

LEMMA NullGuardFits ==
  ASSUME h \in Heaps, NEW n \in DOMAIN h, h[n].op \in {"Attribute", "Subscript"},
         NEW r \in NullGuard(n)
  PROVE  Fits(r, n)
<1> DEFINE L == Len(h)
           a == h[n].kids[1]
           e == <<Nil, Node("Compare", "IsNot", <<a, L + 1>>),
                  Constant(0), Plain("IfExp", <<L + 2, n, L + 3>>)>>
<1>1. /\ L \in Nat /\ DOMAIN h = 1 .. L /\ n \in Nat /\ a \in Nat /\ a \in Kids(h, n)
  <2>1. L \in Nat /\ DOMAIN h = 1 .. L /\ h[n] \in Nodes /\ h[n].kids \in Seq(DOMAIN h)
    BY HeapFacts
  <2>2. Len(h[n].kids) >= 1
    BY <2>1, ClassFacts DEF Nodes, WellFormed
  <2>3. 1 \in DOMAIN h[n].kids /\ a \in DOMAIN h
    BY <2>1, <2>2
  <2> QED
    BY <2>1, <2>3 DEF Kids
<1> HIDE DEF L, a
<1>2. /\ Nil \in Nodes /\ KidsOf(Nil) = {}
      /\ Node("Compare", "IsNot", <<a, L + 1>>) \in Nodes
      /\ KidsOf(Node("Compare", "IsNot", <<a, L + 1>>)) = {a, L + 1}
      /\ Constant(0) \in Nodes /\ KidsOf(Constant(0)) = {}
      /\ Plain("IfExp", <<L + 2, n, L + 3>>) \in Nodes
      /\ KidsOf(Plain("IfExp", <<L + 2, n, L + 3>>)) = {L + 2, n, L + 3}
  BY <1>1, ClassFacts, NilNode, CompareNode, ConstantNode, IfExpNode
<1>3. /\ e \in Seq(Nodes) /\ Len(e) = 4 /\ DOMAIN e = 1 .. 4
      /\ e[1] = Nil /\ e[2] = Node("Compare", "IsNot", <<a, L + 1>>)
      /\ e[3] = Constant(0) /\ e[4] = Plain("IfExp", <<L + 2, n, L + 3>>)
  BY <1>2
<1>4. r = [heap |-> h \o e, node |-> L + 4]
  BY DEF NullGuard, Result, Added, New, L, a
<1> HIDE DEF e
<1>5. ASSUME NEW j \in 1 .. 4
      PROVE  KidsOf(e[j]) \subseteq {n} \cup Kids(h, n) \cup {L + i : i \in 1 .. j - 1}
  <2>1. CASE j = 1
    BY <2>1, <1>1, <1>2, <1>3
  <2>2. CASE j = 2
    <3>1. {1} \subseteq 1 .. j - 1
      BY <2>2
    <3> QED
      BY <3>1, <2>2, <1>1, <1>2, <1>3
  <2>3. CASE j = 3
    BY <2>3, <1>1, <1>2, <1>3
  <2>4. CASE j = 4
    <3>1. {2, 3} \subseteq 1 .. j - 1
      BY <2>4
    <3> QED
      BY <3>1, <2>4, <1>1, <1>2, <1>3
  <2> QED
    BY <2>1, <2>2, <2>3, <2>4
<1>6. r = [heap |-> h \o e, node |-> Len(h) + Len(e)] /\ Len(e) \in 1 .. 7
  BY <1>3, <1>4 DEF L
<1>7. \A j \in DOMAIN e :
        KidsOf(e[j]) \subseteq {n} \cup Kids(h, n) \cup {Len(h) + i : i \in 1 .. j - 1}
  BY <1>3, <1>5 DEF L
<1> QED
  BY <1>3, <1>6, <1>7, GuardFits

LEMMA BoundsGuardFits ==
  ASSUME h \in Heaps, NEW n \in DOMAIN h, h[n].op = "Subscript", NEW r \in BoundsGuard(n)
  PROVE  Fits(r, n)
<1> DEFINE L == Len(h)
           a == h[n].kids[1]
           b == h[n].kids[2]
           above == Node("Compare", "Gt", <<L + 1, b>>)
           below == Node("Compare", "GtE", <<b, L + 3>>)
           e == <<Plain("Len", <<a>>), above, Constant(0), below,
                  Plain("And", <<L + 2, L + 4>>), Constant(0),
                  Plain("IfExp", <<L + 5, n, L + 6>>)>>
<1>1. /\ L \in Nat /\ DOMAIN h = 1 .. L /\ n \in Nat
      /\ a \in Nat /\ a \in Kids(h, n) /\ b \in Nat /\ b \in Kids(h, n)
  <2>1. L \in Nat /\ DOMAIN h = 1 .. L /\ h[n] \in Nodes /\ h[n].kids \in Seq(DOMAIN h)
    BY HeapFacts
  <2>2. Len(h[n].kids) = 2
    BY <2>1, ClassFacts DEF Nodes, WellFormed
  <2>3. {1, 2} \subseteq DOMAIN h[n].kids /\ a \in DOMAIN h /\ b \in DOMAIN h
    BY <2>1, <2>2
  <2> QED
    BY <2>1, <2>3 DEF Kids
<1> HIDE DEF L, a, b
<1>2. /\ Plain("Len", <<a>>) \in Nodes /\ KidsOf(Plain("Len", <<a>>)) = {a}
      /\ Constant(0) \in Nodes /\ KidsOf(Constant(0)) = {}
      /\ above \in Nodes /\ KidsOf(above) = {L + 1, b}
      /\ below \in Nodes /\ KidsOf(below) = {b, L + 3}
  BY <1>1, ClassFacts, OneKid, CompareNode, ConstantNode
<1>3. /\ Plain("And", <<L + 2, L + 4>>) \in Nodes
      /\ KidsOf(Plain("And", <<L + 2, L + 4>>)) = {L + 2, L + 4}
      /\ Plain("IfExp", <<L + 5, n, L + 6>>) \in Nodes
      /\ KidsOf(Plain("IfExp", <<L + 5, n, L + 6>>)) = {L + 5, n, L + 6}
  BY <1>1, TwoKids, IfExpNode
<1>4. r = [heap |-> h \o e, node |-> L + 7]
  BY DEF BoundsGuard, Result, Added, New, L, a, b
<1> HIDE DEF above, below
<1>5. /\ e \in Seq(Nodes) /\ Len(e) = 7 /\ DOMAIN e = 1 .. 7
      /\ e[1] = Plain("Len", <<a>>) /\ e[2] = above /\ e[3] = Constant(0) /\ e[4] = below
      /\ e[5] = Plain("And", <<L + 2, L + 4>>) /\ e[6] = Constant(0)
      /\ e[7] = Plain("IfExp", <<L + 5, n, L + 6>>)
  BY <1>2, <1>3
<1> HIDE DEF e
<1>6. ASSUME NEW j \in 1 .. 7
      PROVE  KidsOf(e[j]) \subseteq {n} \cup Kids(h, n) \cup {L + i : i \in 1 .. j - 1}
  <2>1. CASE j = 1
    BY <2>1, <1>1, <1>2, <1>3, <1>5
  <2>2. CASE j = 2
    <3>1. {1} \subseteq 1 .. j - 1
      BY <2>2
    <3> QED
      BY <3>1, <2>2, <1>1, <1>2, <1>3, <1>5
  <2>3. CASE j = 3
    BY <2>3, <1>1, <1>2, <1>3, <1>5
  <2>4. CASE j = 4
    <3>1. {3} \subseteq 1 .. j - 1
      BY <2>4
    <3> QED
      BY <3>1, <2>4, <1>1, <1>2, <1>3, <1>5
  <2>5. CASE j = 5
    <3>1. {2, 4} \subseteq 1 .. j - 1
      BY <2>5
    <3> QED
      BY <3>1, <2>5, <1>1, <1>2, <1>3, <1>5
  <2>6. CASE j = 6
    BY <2>6, <1>1, <1>2, <1>3, <1>5
  <2>7. CASE j = 7
    <3>1. {5, 6} \subseteq 1 .. j - 1
      BY <2>7
    <3> QED
      BY <3>1, <2>7, <1>1, <1>2, <1>3, <1>5
  <2> QED
    BY <2>1, <2>2, <2>3, <2>4, <2>5, <2>6, <2>7
<1>7. r = [heap |-> h \o e, node |-> Len(h) + Len(e)] /\ Len(e) \in 1 .. 7
  BY <1>4, <1>5 DEF L
<1>8. \A j \in DOMAIN e :
        KidsOf(e[j]) \subseteq {n} \cup Kids(h, n) \cup {Len(h) + i : i \in 1 .. j - 1}
  BY <1>5, <1>6 DEF L
<1> QED
  BY <1>5, <1>7, <1>8, GuardFits

LEMMA EarlyReturnFits ==
  ASSUME h \in Heaps, NEW n \in DOMAIN h, h[n].op = "FunctionDef", NEW r \in EarlyReturn(n)
  PROVE  Fits(r, n)
<1> DEFINE L == Len(h)
           test == Node("Compare", "Is", <<L + 1, L + 2>>)
           e == <<Name("data"), Nil, test, Constant(-1),
                  Plain("Return", <<L + 4>>), Plain("If", <<L + 3, L + 5>>)>>
<1>1. L \in Nat
  BY HeapFacts
<1> HIDE DEF L
<1>2. /\ Name("data") \in Nodes /\ KidsOf(Name("data")) = {}
      /\ Nil \in Nodes /\ KidsOf(Nil) = {}
      /\ Constant(-1) \in Nodes /\ KidsOf(Constant(-1)) = {}
      /\ test \in Nodes /\ KidsOf(test) = {L + 1, L + 2}
  BY <1>1, ClassFacts, DataNode, NilNode, CompareNode, ConstantNode
<1>3. /\ Plain("Return", <<L + 4>>) \in Nodes /\ KidsOf(Plain("Return", <<L + 4>>)) = {L + 4}
      /\ Plain("If", <<L + 3, L + 5>>) \in Nodes
      /\ KidsOf(Plain("If", <<L + 3, L + 5>>)) = {L + 3, L + 5}
  BY <1>1, OneKid, TwoKids
<1>4. r = [heap |-> [h \o e EXCEPT ![n].kids = <<L + 6>> \o @], node |-> n]
  BY DEF EarlyReturn, Result, Added, New, L
<1> HIDE DEF test
<1>5. /\ e \in Seq(Nodes) /\ Len(e) = 6 /\ DOMAIN e = 1 .. 6
      /\ e[1] = Name("data") /\ e[2] = Nil /\ e[3] = test /\ e[4] = Constant(-1)
      /\ e[5] = Plain("Return", <<L + 4>>) /\ e[6] = Plain("If", <<L + 3, L + 5>>)
  BY <1>2, <1>3
<1> HIDE DEF e
<1>6. ASSUME NEW j \in 1 .. 6
      PROVE  KidsOf(e[j]) \subseteq {L + i : i \in 1 .. j - 1}
  <2>1. CASE j = 1
    BY <2>1, <1>1, <1>2, <1>3, <1>5
  <2>2. CASE j = 2
    BY <2>2, <1>1, <1>2, <1>3, <1>5
  <2>3. CASE j = 3
    <3>1. {1, 2} \subseteq 1 .. j - 1
      BY <2>3
    <3> QED
      BY <3>1, <2>3, <1>1, <1>2, <1>3, <1>5
  <2>4. CASE j = 4
    BY <2>4, <1>1, <1>2, <1>3, <1>5
  <2>5. CASE j = 5
    <3>1. {4} \subseteq 1 .. j - 1
      BY <2>5
    <3> QED
      BY <3>1, <2>5, <1>1, <1>2, <1>3, <1>5
  <2>6. CASE j = 6
    <3>1. {3, 5} \subseteq 1 .. j - 1
      BY <2>6
    <3> QED
      BY <3>1, <2>6, <1>1, <1>2, <1>3, <1>5
  <2> QED
    BY <2>1, <2>2, <2>3, <2>4, <2>5, <2>6
<1>7. /\ r = [heap |-> [h \o e EXCEPT ![n].kids = <<Len(h) + Len(e)>> \o @], node |-> n]
      /\ Len(e) \in 1 .. 7
  BY <1>4, <1>5 DEF L
<1>8. \A j \in DOMAIN e : KidsOf(e[j]) \subseteq {Len(h) + i : i \in 1 .. j - 1}
  BY <1>5, <1>6 DEF L
<1> QED
  BY <1>5, <1>7, <1>8, PrependFits

LEMMA NewValueFits ==
  ASSUME h \in Heaps, NEW n \in DOMAIN h, NEW val,
         val \in Vals, h[n].op \in DOMAIN Operators => val \in Operators[h[n].op]
  PROVE  Fits([heap |-> [h EXCEPT ![n].val = val], node |-> n], n)
<1> DEFINE v == [h[n] EXCEPT !.val = val]
<1>1. h[n] \in Nodes
  BY HeapFacts
<1>2. v \in Nodes /\ v.kids = h[n].kids
  BY <1>1 DEF Nodes, WellFormed
<1>3. [h EXCEPT ![n].val = val] = [h EXCEPT ![n] = v]
  OBVIOUS
<1> QED
  BY <1>2, <1>3, ChangeFits

LEMMA UnchangedFits ==
  ASSUME h \in Heaps, NEW n \in DOMAIN h
  PROVE  Fits([heap |-> h, node |-> n], n)
<1>1. h[n] \in Nodes /\ [h EXCEPT ![n] = h[n]] = h
  BY HeapFacts
<1> QED
  BY <1>1, ChangeFits

LEMMA SwappedFits ==
  ASSUME h \in Heaps, NEW n \in DOMAIN h, NEW op \in {"BinOp", "Compare"}, h[n].op = op,
         NEW map, \A val \in DOMAIN map : map[val] \in Operators[op],
         NEW r \in Swapped(map, n)
  PROVE  Fits(r, n)
<1>1. CASE h[n].val \in DOMAIN map
  <2>1. r = [heap |-> [h EXCEPT ![n].val = map[h[n].val]], node |-> n]
    BY <1>1 DEF Swapped, Result
  <2>2. /\ map[h[n].val] \in Vals
        /\ h[n].op \in DOMAIN Operators => map[h[n].val] \in Operators[h[n].op]
    BY <1>1, ClassFacts, ValFacts
  <2> QED
    BY <2>1, <2>2, NewValueFits
<1>2. CASE h[n].val \notin DOMAIN map
  BY <1>2, UnchangedFits DEF Swapped, Result
<1> QED
  BY <1>1, <1>2

LEMMA LiteralFits ==
  ASSUME h \in Heaps, NEW n \in DOMAIN h, h[n].op = "Constant", NEW r \in Literal(n)
  PROVE  Fits(r, n)
<1>1. h[n].val \in Int
  BY HeapFacts, ClassFacts DEF Nodes, WellFormed
<1>2. PICK val \in Int : r = [heap |-> [h EXCEPT ![n].val = val], node |-> n]
  <2>1. PICK val \in {h[n].val - 1, h[n].val + 1, 0} :
          r \in Result([h EXCEPT ![n].val = val], n)
    BY DEF Literal
  <2>2. val \in Int
    BY <1>1, <2>1
  <2> QED
    BY <2>1, <2>2 DEF Result
<1>3. val \in Vals /\ val \in Operators[h[n].op]
  BY ClassFacts, ValFacts
<1> QED
  BY <1>2, <1>3, NewValueFits

LEMMA VisitedFits ==
  ASSUME h \in Heaps, NEW n \in DOMAIN h, NEW op, NEW r \in Visited(op, n)
  PROVE  Fits(r, n)
<1>1. CASE op = "insert_null_check" /\ h[n].op \in {"Attribute", "Subscript"}
  <2>1. r \in NullGuard(n)
    BY <1>1 DEF Visited
  <2> QED
    BY <1>1, <2>1, NullGuardFits
<1>2. CASE op = "insert_bounds_check" /\ h[n].op = "Subscript"
  <2>1. r \in BoundsGuard(n)
    BY <1>2 DEF Visited
  <2> QED
    BY <1>2, <2>1, BoundsGuardFits
<1>3. CASE op = "add_early_return" /\ h[n].op = "FunctionDef"
  <2>1. r \in EarlyReturn(n)
    BY <1>3 DEF Visited
  <2> QED
    BY <1>3, <2>1, EarlyReturnFits
<1>4. CASE op = "swap_operator" /\ h[n].op = "BinOp"
  <2>1. r \in Swapped(OperatorSwap, n)
    BY <1>4 DEF Visited
  <2>2. \A val \in DOMAIN OperatorSwap : OperatorSwap[val] \in Operators["BinOp"]
    BY ClassFacts DEF OperatorSwap
  <2> QED
    BY <1>4, <2>1, <2>2, SwappedFits
<1>5. CASE op = "swap_comparison" /\ h[n].op = "Compare"
  <2>1. r \in Swapped(ComparisonSwap, n)
    BY <1>5 DEF Visited
  <2>2. \A val \in DOMAIN ComparisonSwap : ComparisonSwap[val] \in Operators["Compare"]
    BY ClassFacts DEF ComparisonSwap
  <2> QED
    BY <1>5, <2>1, <2>2, SwappedFits
<1>6. CASE op = "replace_literal" /\ h[n].op = "Constant"
  <2>1. r \in Literal(n)
    BY <1>6 DEF Visited
  <2> QED
    BY <1>6, <2>1, LiteralFits
<1>7. CASE /\ ~(op = "insert_null_check" /\ h[n].op \in {"Attribute", "Subscript"})
           /\ ~(op = "insert_bounds_check" /\ h[n].op = "Subscript")
           /\ ~(op = "add_early_return" /\ h[n].op = "FunctionDef")
           /\ ~(op = "swap_operator" /\ h[n].op = "BinOp")
           /\ ~(op = "swap_comparison" /\ h[n].op = "Compare")
           /\ ~(op = "replace_literal" /\ h[n].op = "Constant")
  <2>1. r = [heap |-> h, node |-> n]
    BY <1>7 DEF Visited, Result
  <2> QED
    BY <2>1, UnchangedFits
<1> QED
  BY <1>1, <1>2, <1>3, <1>4, <1>5, <1>6, <1>7

-----------------------------------------------------------------------------
(* The walk. What a visit returns is put into the parent it came from.     *)
LEMMA Relink ==
  ASSUME NEW g \in Heaps, NEW p \in DOMAIN g, NEW i \in Nat, NEW x \in DOMAIN g
  PROVE  LET g2 == [g EXCEPT ![p].kids[i] = x]
         IN  /\ g2 \in Heaps /\ Len(g2) = Len(g)
             /\ \A m \in DOMAIN g : m # p => g2[m] = g[m]
             /\ \A m \in DOMAIN g : Len(g2[m].kids) = Len(g[m].kids)
             /\ \A m \in DOMAIN g : m # p => Kids(g2, m) = Kids(g, m)
             /\ Kids(g2, p) \subseteq Kids(g, p) \cup {x}
<1> DEFINE ks == [g[p].kids EXCEPT ![i] = x]
           v  == [g[p] EXCEPT !.kids = ks]
           g2 == [g EXCEPT ![p] = v]
<1>1. /\ g \in Seq(Nodes) /\ DOMAIN g = 1 .. Len(g) /\ Len(g) \in Nat /\ g[p] \in Nodes
      /\ g[p].kids \in Seq(DOMAIN g) /\ \A m \in DOMAIN g : Kids(g, m) \subseteq DOMAIN g
  BY HeapFacts
<1>2. [g EXCEPT ![p].kids[i] = x] = g2
  OBVIOUS
<1>3. ks \in Seq(Nat) /\ Len(ks) = Len(g[p].kids)
  <2> DEFINE s == g[p].kids
  <2>1. /\ Len(s) \in Nat /\ DOMAIN s = 1 .. Len(s)
        /\ \A j \in DOMAIN s : s[j] \in Nat
    BY <1>1, SequenceFacts
  <2>2. x \in Nat
    BY <1>1
  <2> HIDE DEF s
  <2>3. /\ [s EXCEPT ![i] = x] = [j \in 1 .. Len(s) |-> [s EXCEPT ![i] = x][j]]
        /\ \A j \in 1 .. Len(s) : [s EXCEPT ![i] = x][j] \in Nat
    BY <2>1, <2>2
  <2>4. [s EXCEPT ![i] = x] \in Seq(Nat) /\ Len([s EXCEPT ![i] = x]) = Len(s)
    <3> DEFINE t == [s EXCEPT ![i] = x]
    <3>1. t = [j \in 1 .. Len(s) |-> t[j]] /\ \A j \in 1 .. Len(s) : t[j] \in Nat
      BY <2>3
    <3> HIDE DEF t
    <3>2. t \in Seq(Nat) /\ Len(t) = Len(s)
      BY <2>1, <3>1, IsSequence
    <3> QED
      BY <3>2 DEF t
  <2> QED
    BY <2>4 DEF s
<1>4. {ks[j] : j \in DOMAIN ks} \subseteq Kids(g, p) \cup {x}
  BY <1>1 DEF Kids
<1> HIDE DEF ks
<1>5. v \in Nodes
  BY <1>1, <1>3, SameShape
<1>6. v.kids = ks
  BY <1>1 DEF Nodes
<1> HIDE DEF v
<1>7. /\ g2 \in Seq(Nodes) /\ Len(g2) = Len(g) /\ DOMAIN g2 = DOMAIN g /\ g2[p] = v
      /\ \A m \in DOMAIN g : m # p => g2[m] = g[m]
  BY <1>1, <1>5
<1> HIDE DEF g2
<1>8. \A m \in DOMAIN g : m # p => Kids(g2, m) = Kids(g, m)
  BY <1>7 DEF Kids
<1>9. Kids(g2, p) \subseteq Kids(g, p) \cup {x}
  BY <1>4, <1>6, <1>7 DEF Kids
<1>10. \A m \in DOMAIN g : Kids(g2, m) \subseteq DOMAIN g
  BY <1>1, <1>8, <1>9
<1>11. g2 \in Heaps
  BY <1>7, <1>10 DEF Heaps, Linked, Closed
<1>12. \A m \in DOMAIN g : Len(g2[m].kids) = Len(g[m].kids)
  BY <1>3, <1>6, <1>7
<1> QED
  BY <1>2, <1>7, <1>8, <1>9, <1>11, <1>12

-----------------------------------------------------------------------------
Frames == [node : Nat, kid : Nat]

(* A visit is at a child of its node, or behind the last one; only the one *)
(* on the top of the stack can be behind.                                  *)
FrameFits(i) ==
  /\ stack[i].node \in DOMAIN h /\ stack[i].kid >= 1
  /\ IF i = Len(stack) THEN stack[i].kid <= Len(h[stack[i].node].kids) + 1
                       ELSE stack[i].kid <= Len(h[stack[i].node].kids)

Candidates == [root : Nat, ops : Seq(MUTATION_OPS)]

WalkType ==
  /\ h \in Heaps /\ size \in Nat
  /\ original \in DOMAIN h /\ candidate \in DOMAIN h
  /\ population \in Seq(Candidates) /\ Len(population) <= size
  /\ pc # "sample" => Len(population) < size
  /\ ops \in Seq(MUTATION_OPS) /\ k \in 1 .. Len(ops) + 1
  /\ pc = "visit" => k <= Len(ops) /\ stack # << >>
  /\ pc \in {"sample", "mutate", "visit"}
  /\ pc # "visit" => stack = << >>
  /\ stack \in Seq(Frames) /\ \A i \in DOMAIN stack : FrameFits(i)

(* What is finished lies in the heap up to base, and the tree under way    *)
(* above it; neither has a node of the other as a child.                   *)
Apart(base) ==
  /\ base \in DOMAIN h
  /\ original <= base /\ candidate <= base
  /\ \A i \in DOMAIN population : population[i].root \in 1 .. base
  /\ \A n \in 1 .. base : Kids(h, n) \subseteq 1 .. base
  /\ \A n \in base + 1 .. Len(h) : Kids(h, n) \subseteq base + 1 .. Len(h)
  /\ \A i \in DOMAIN stack : stack[i].node > base

(* The nodes are in order, and the visits go down in it.                   *)
Descends(rank) ==
  /\ Ranks(h, rank)
  /\ \A i \in 1 .. Len(stack) - 1 : rank[stack[i + 1].node] < rank[stack[i].node]

WalkInv ==
  /\ WalkType
  /\ \E base \in Nat : Apart(base)
  /\ \E rank : Descends(rank)

LEMMA InitInv == Init => WalkInv
<1> SUFFICES ASSUME Init PROVE WalkInv
  OBVIOUS
<1>1. PICK r \in Requests : h = r.heap /\ original = Len(h) /\ size = r.size
  BY DEF Init
<1>2. size \in Nat /\ h \in Seq(Range(h)) /\ Len(h) > 0
  BY <1>1, RequestAssumption
<1>10. \A n \in DOMAIN h :
         LET v == h[n] IN
         /\ v = Node(v.op, v.val, v.kids) /\ WellFormed(v)
         /\ v.op \in DOMAIN Arity \cup {"FunctionDef"}
         /\ v.op \notin DOMAIN Operators => v.val = ""
         /\ v.kids \in Seq(1 .. n - 1)
  BY <1>1, RequestAssumption
<1>3. Len(h) \in Nat /\ DOMAIN h = 1 .. Len(h) /\ Len(h) \in DOMAIN h
  <2>1. Len(h) \in Nat /\ DOMAIN h = 1 .. Len(h)
    BY <1>2, SequenceFacts
  <2> QED
    BY <1>2, <2>1
<1>4. ASSUME NEW n \in DOMAIN h
      PROVE  h[n] \in Nodes /\ Kids(h, n) \subseteq 1 .. n - 1
  <2> DEFINE v == h[n]
  <2>1. /\ v = [op |-> v.op, val |-> v.val, kids |-> v.kids] /\ WellFormed(v)
        /\ v.op \in DOMAIN Arity \cup {"FunctionDef"}
        /\ v.op \notin DOMAIN Operators => v.val = ""
        /\ v.kids \in Seq(1 .. n - 1)
    BY <1>10 DEF Node
  <2>2. v.val \in Vals
    <3>1. CASE v.op \in DOMAIN Operators
      <4>1. v.val \in Operators[v.op]
        BY <2>1, <3>1 DEF WellFormed
      <4> QED
        BY <3>1, <4>1, ValFacts
    <3>2. CASE v.op \notin DOMAIN Operators
      BY <2>1, <3>2, ValFacts
    <3> QED
      BY <3>1, <3>2
  <2>3. v.kids \in Seq(Nat) /\ \A j \in DOMAIN v.kids : v.kids[j] \in 1 .. n - 1
    <3>1. \A x \in 1 .. n - 1 : x \in Nat
      BY <1>3
    <3>2. /\ Len(v.kids) \in Nat /\ v.kids = [j \in 1 .. Len(v.kids) |-> v.kids[j]]
          /\ DOMAIN v.kids = 1 .. Len(v.kids) /\ \A j \in DOMAIN v.kids : v.kids[j] \in 1 .. n - 1
      BY <2>1, SequenceFacts
    <3> QED
      BY <3>1, <3>2, IsSequence
  <2> HIDE DEF v
  <2>4. v \in [op : DOMAIN Arity \cup {"FunctionDef"}, val : Vals, kids : Seq(Nat)]
    BY <2>1, <2>2, <2>3
  <2>5. v \in Nodes
    BY <2>1, <2>4 DEF Nodes
  <2> QED
    BY <2>3, <2>5 DEF v, Kids
<1>5. h \in Heaps
  <2>1. h \in Seq(Nodes)
    <3>1. h = [j \in 1 .. Len(h) |-> h[j]]
      BY <1>2, SequenceFacts
    <3>2. \A j \in 1 .. Len(h) : h[j] \in Nodes
      BY <1>3, <1>4
    <3> QED
      BY <1>3, <3>1, <3>2, IsSequence
  <2>2. \A n \in DOMAIN h : Kids(h, n) \subseteq DOMAIN h
    BY <1>3, <1>4
  <2> QED
    BY <2>1, <2>2 DEF Heaps, Linked, Closed
<1>6. Apart(Len(h))
  <2>1. population = << >> /\ stack = << >> /\ original = Len(h) /\ candidate = original
    BY <1>1 DEF Init
  <2>2. Len(h) \in DOMAIN h /\ Len(h) + 1 .. Len(h) = {}
    BY <1>3
  <2>3. \A n \in 1 .. Len(h) : Kids(h, n) \subseteq 1 .. Len(h)
    BY <1>3, <1>4
  <2> QED
    BY <1>3, <2>1, <2>2, <2>3 DEF Apart
<1>7. Descends([n \in DOMAIN h |-> n])
  <2> DEFINE rank == [n \in DOMAIN h |-> n]
  <2>1. rank \in [DOMAIN h -> Nat \ {0}]
    BY <1>3
  <2>2. \A n \in DOMAIN h : \A c \in Kids(h, n) : rank[c] < rank[n]
    BY <1>3, <1>4
  <2>3. 1 .. Len(stack) - 1 = {}
    BY DEF Init
  <2> HIDE DEF rank
  <2>4. Descends(rank)
    BY <2>1, <2>2, <2>3 DEF Descends, Ranks
  <2> QED
    BY <2>4 DEF rank
<1>8. WalkType
  <2>1. /\ population = << >> /\ stack = << >> /\ ops = << >> /\ k = 1 /\ pc = "sample"
        /\ candidate = original
    BY DEF Init
  <2>2. original \in DOMAIN h /\ size \in Nat
    BY <1>1, <1>2, <1>3
  <2>3. /\ population \in Seq(Candidates) /\ Len(population) = 0
        /\ stack \in Seq(Frames) /\ DOMAIN stack = {}
        /\ ops \in Seq(MUTATION_OPS) /\ Len(ops) = 0
    BY <2>1
  <2>4. k \in 1 .. Len(ops) + 1
    BY <2>1, <2>3
  <2> QED
    BY <1>5, <2>1, <2>2, <2>3, <2>4 DEF WalkType
<1>9. Len(h) \in Nat
  BY <1>3
<1> QED
  BY <1>6, <1>7, <1>8, <1>9 DEF WalkInv

(* What a copy leaves of the heap, and where it is.                        *)
LEMMA CopyStep ==
  ASSUME WalkType, NEW n \in DOMAIN h, h' = Copied(n).heap
  PROVE  /\ h' \in Heaps /\ Len(h') >= Len(h) /\ Len(h) \in Nat /\ Len(h') \in Nat
         /\ DOMAIN h = 1 .. Len(h) /\ DOMAIN h' = 1 .. Len(h') /\ DOMAIN h \subseteq DOMAIN h'
         /\ Copied(n).node \in Len(h) + 1 .. Len(h')
         /\ \A m \in DOMAIN h : h'[m] = h[m] /\ Kids(h', m) = Kids(h, m)
         /\ \A m \in Len(h) + 1 .. Len(h') : Kids(h', m) \subseteq Len(h) + 1 .. Len(h')
         /\ \A rank : Ranks(h, rank) => \E rank2 : Ranks(h', rank2)
<1>1. h \in Heaps
  BY DEF WalkType
<1>2. /\ h' \in Heaps /\ Len(h') >= Len(h) /\ Copied(n).node \in Len(h) + 1 .. Len(h')
      /\ \A m \in DOMAIN h : h'[m] = h[m] /\ Kids(h', m) = Kids(h, m)
      /\ \A m \in Len(h) + 1 .. Len(h') : Kids(h', m) \subseteq Len(h) + 1 .. Len(h')
      /\ \A rank : Ranks(h, rank) =>
           \E rank2 : Ranks(h', rank2) /\ \A m \in DOMAIN h : rank2[m] = rank[m]
  BY <1>1, DeepCopyFacts DEF Copied
<1>3. /\ Len(h) \in Nat /\ Len(h') \in Nat
      /\ DOMAIN h = 1 .. Len(h) /\ DOMAIN h' = 1 .. Len(h')
  BY <1>1, <1>2, HeapFacts
<1>4. DOMAIN h \subseteq DOMAIN h'
  BY <1>2, <1>3
<1> QED
  BY <1>2, <1>3, <1>4

LEMMA SampleInv ==
  ASSUME WalkInv, Sample
  PROVE  WalkInv' /\ DOMAIN h \subseteq DOMAIN h' /\ \A m \in DOMAIN h : h'[m] = h[m]
<1>1. WalkType
  BY DEF WalkInv
<1>2. /\ pc = "sample" /\ Len(population) < size /\ h' = Copied(original).heap
      /\ candidate' = Copied(original).node /\ k' = 1 /\ pc' = "mutate"
      /\ UNCHANGED <<original, size, population, stack>>
  BY DEF Sample
<1>3. original \in DOMAIN h /\ stack = << >>
  BY <1>1, <1>2 DEF WalkType
<1>4. /\ h' \in Heaps /\ Len(h') >= Len(h) /\ Len(h) \in Nat /\ Len(h') \in Nat
      /\ DOMAIN h = 1 .. Len(h) /\ DOMAIN h' = 1 .. Len(h') /\ DOMAIN h \subseteq DOMAIN h'
      /\ candidate' \in Len(h) + 1 .. Len(h')
      /\ \A m \in DOMAIN h : h'[m] = h[m] /\ Kids(h', m) = Kids(h, m)
      /\ \A m \in Len(h) + 1 .. Len(h') : Kids(h', m) \subseteq Len(h) + 1 .. Len(h')
      /\ \A rank : Ranks(h, rank) => \E rank2 : Ranks(h', rank2)
  BY <1>1, <1>2, <1>3, CopyStep
<1>5. ops' \in Seq(MUTATION_OPS) /\ k' \in 1 .. Len(ops') + 1
  <2>1. (\E op \in MUTATION_OPS : ops' = <<op>>) \/ \E op, op2 \in MUTATION_OPS : ops' = <<op, op2>>
    BY DEF Sample
  <2>2. \A op, op2 \in MUTATION_OPS : <<op>> \in Seq(MUTATION_OPS) /\ <<op, op2>> \in Seq(MUTATION_OPS)
    OBVIOUS
  <2>3. ops' \in Seq(MUTATION_OPS)
    BY <2>1, <2>2
  <2>4. Len(ops') \in Nat
    BY <2>3
  <2> QED
    BY <1>2, <2>3, <2>4
<1>6. candidate' \in DOMAIN h'
  BY <1>4
<1>7. WalkType'
  <2>1. /\ stack' = << >> /\ original' \in DOMAIN h' /\ size' \in Nat
        /\ population' \in Seq(Candidates) /\ Len(population') < size' /\ Len(population') <= size'
    BY <1>1, <1>2, <1>3, <1>4 DEF WalkType
  <2>2. stack' \in Seq(Frames) /\ DOMAIN stack' = {}
    BY <2>1
  <2> QED
    BY <1>2, <1>4, <1>5, <1>6, <2>1, <2>2 DEF WalkType
<1>a. PICK new \in Nat : new = Len(h')
  BY <1>4
<1>8. Apart(new)'
  <2>1. PICK base \in Nat : Apart(base)
    BY DEF WalkInv
  <2>2. \A i \in DOMAIN population' : population'[i].root \in 1 .. new
    <3>1. \A i \in DOMAIN population : population[i].root \in 1 .. base
      BY <2>1 DEF Apart
    <3>2. base <= new
      BY <1>4, <1>a, <2>1 DEF Apart
    <3> QED
      BY <1>2, <1>4, <1>a, <3>1, <3>2
  <2>3. \A n \in 1 .. new : Kids(h', n) \subseteq 1 .. new
    BY <1>4, <1>a, HeapFacts
  <2>4. new + 1 .. Len(h') = {} /\ DOMAIN stack' = {} /\ new \in DOMAIN h'
    BY <1>2, <1>3, <1>4, <1>a
  <2>5. original' <= new /\ candidate' <= new
    BY <1>2, <1>3, <1>4, <1>a
  <2> QED
    BY <1>a, <2>2, <2>3, <2>4, <2>5 DEF Apart
<1>9. \E rank : Descends(rank)'
  <2>1. PICK rank : Ranks(h', rank)
    BY <1>4 DEF WalkInv, Descends
  <2>2. 1 .. Len(stack') - 1 = {}
    BY <1>2, <1>3
  <2> QED
    BY <2>1, <2>2 DEF Descends
<1> QED
  BY <1>4, <1>7, <1>8, <1>9 DEF WalkInv

LEMMA MutateInv ==
  ASSUME WalkInv, Mutate
  PROVE  WalkInv' /\ DOMAIN h \subseteq DOMAIN h' /\ \A m \in DOMAIN h : h'[m] = h[m]
<1>1. WalkType
  BY DEF WalkInv
<1>2. /\ pc = "mutate" /\ k <= Len(ops) /\ h' = Copied(candidate).heap
      /\ stack' = <<[node |-> Copied(candidate).node, kid |-> 1]>> /\ pc' = "visit"
      /\ UNCHANGED <<original, size, population, candidate, ops, k>>
  BY DEF Mutate
<1>3. original \in DOMAIN h /\ candidate \in DOMAIN h
  BY <1>1 DEF WalkType
<1> DEFINE root == Copied(candidate).node
<1>4. /\ h' \in Heaps /\ Len(h') >= Len(h) /\ Len(h) \in Nat /\ Len(h') \in Nat
      /\ DOMAIN h = 1 .. Len(h) /\ DOMAIN h' = 1 .. Len(h') /\ DOMAIN h \subseteq DOMAIN h'
      /\ root \in Len(h) + 1 .. Len(h')
      /\ \A m \in DOMAIN h : h'[m] = h[m] /\ Kids(h', m) = Kids(h, m)
      /\ \A m \in Len(h) + 1 .. Len(h') : Kids(h', m) \subseteq Len(h) + 1 .. Len(h')
      /\ \A rank : Ranks(h, rank) => \E rank2 : Ranks(h', rank2)
  BY <1>1, <1>2, <1>3, CopyStep
<1> HIDE DEF root
<1>5. /\ stack' \in Seq(Frames) /\ Len(stack') = 1 /\ DOMAIN stack' = {1}
      /\ stack'[1].node = root /\ stack'[1].kid = 1 /\ stack' # << >>
  <2>1. root \in Nat
    BY <1>4
  <2> QED
    BY <1>2, <2>1 DEF Frames, root
<1>6. WalkType'
  <2>1. /\ original' \in DOMAIN h' /\ candidate' \in DOMAIN h' /\ size' \in Nat
        /\ population' \in Seq(Candidates) /\ Len(population') < size' /\ Len(population') <= size'
        /\ ops' \in Seq(MUTATION_OPS) /\ k' \in 1 .. Len(ops') + 1 /\ k' <= Len(ops')
    BY <1>1, <1>2, <1>3, <1>4 DEF WalkType
  <2>2. root \in DOMAIN h' /\ h'[root].kids \in Seq(DOMAIN h')
    BY <1>4, HeapFacts
  <2>3. Len(h'[root].kids) \in Nat
    BY <2>2
  <2>4. \A i \in DOMAIN stack' : FrameFits(i)'
    BY <1>5, <2>2, <2>3 DEF FrameFits
  <2> QED
    BY <1>2, <1>4, <1>5, <2>1, <2>4 DEF WalkType
<1>7. PICK base \in Nat : base = Len(h)
  BY <1>4
<1>8. Apart(base)'
  <2>1. PICK old \in Nat : Apart(old)
    BY DEF WalkInv
  <2>2. \A i \in DOMAIN population' : population'[i].root \in 1 .. base
    <3>1. \A i \in DOMAIN population : population[i].root \in 1 .. old
      BY <2>1 DEF Apart
    <3>2. old <= base
      BY <1>4, <1>7, <2>1 DEF Apart
    <3> QED
      BY <1>2, <1>7, <3>1, <3>2
  <2>3. \A n \in 1 .. base : Kids(h', n) \subseteq 1 .. base
    <3>1. \A n \in DOMAIN h : Kids(h, n) \subseteq DOMAIN h
      BY <1>1, HeapFacts DEF WalkType
    <3> QED
      BY <1>4, <1>7, <3>1
  <2>4. /\ base \in DOMAIN h' /\ original' <= base /\ candidate' <= base
    BY <1>2, <1>3, <1>4, <1>7
  <2>5. \A i \in DOMAIN stack' : stack'[i].node > base
    BY <1>4, <1>5, <1>7
  <2> QED
    BY <1>4, <1>7, <2>2, <2>3, <2>4, <2>5 DEF Apart
<1>9. \E rank : Descends(rank)'
  <2>1. PICK rank : Ranks(h', rank)
    BY <1>4 DEF WalkInv, Descends
  <2>2. 1 .. Len(stack') - 1 = {}
    BY <1>5
  <2> QED
    BY <2>1, <2>2 DEF Descends
<1> QED
  BY <1>4, <1>6, <1>8, <1>9 DEF WalkInv

LEMMA CollectInv ==
  ASSUME WalkInv, Collect
  PROVE  WalkInv' /\ UNCHANGED h
<1>1. WalkType
  BY DEF WalkInv
<1>2. /\ pc = "mutate" /\ pc' = "sample"
      /\ population' = Append(population, [root |-> candidate, ops |-> ops])
      /\ UNCHANGED <<h, original, size, candidate, ops, k, stack>>
  BY DEF Collect
<1>3. /\ DOMAIN h = 1 .. Len(h) /\ Len(h) \in Nat /\ candidate \in DOMAIN h
      /\ population \in Seq(Candidates) /\ Len(population) < size /\ size \in Nat
      /\ ops \in Seq(MUTATION_OPS) /\ stack = << >>
  BY <1>1, <1>2, HeapFacts DEF WalkType
<1>4. [root |-> candidate, ops |-> ops] \in Candidates
  BY <1>3 DEF Candidates
<1>5. /\ population' \in Seq(Candidates) /\ Len(population') = Len(population) + 1
      /\ Len(population) \in Nat
      /\ \A i \in DOMAIN population' :
           (i \in DOMAIN population /\ population'[i] = population[i])
           \/ population'[i] = [root |-> candidate, ops |-> ops]
  BY <1>2, <1>3, <1>4
<1>6. WalkType'
  <2>1. Len(population') <= size
    BY <1>3, <1>5
  <2>2. \A i \in DOMAIN stack' : FrameFits(i)'
    BY <1>2, <1>3
  <2> QED
    BY <1>1, <1>2, <1>5, <2>1, <2>2 DEF WalkType
<1>7. PICK base \in Nat : Apart(base)
  BY DEF WalkInv
<1>8. Apart(base)'
  <2>1. \A i \in DOMAIN population' : population'[i].root \in 1 .. base
    <3>1. candidate \in 1 .. base
      BY <1>3, <1>7 DEF Apart
    <3> QED
      BY <1>5, <1>7, <3>1 DEF Apart
  <2> QED
    BY <1>2, <1>7, <2>1 DEF Apart
<1>9. \E rank : Descends(rank)'
  <2>1. PICK rank : Descends(rank)
    BY DEF WalkInv
  <2> QED
    BY <1>2, <2>1 DEF Descends
<1> QED
  BY <1>2, <1>6, <1>8, <1>9 DEF WalkInv

LEMMA KidCount ==
  ASSUME NEW g \in Heaps, NEW n \in DOMAIN g
  PROVE  Len(g[n].kids) \in Nat
<1>1. g[n].kids \in Seq(DOMAIN g)
  BY HeapFacts
<1> QED
  BY <1>1, SequenceFacts

LEMMA TopExists ==
  ASSUME NEW S, NEW s \in Seq(S), s # << >>
  PROVE  /\ Len(s) \in Nat /\ Len(s) >= 1 /\ DOMAIN s = 1 .. Len(s) /\ Len(s) \in DOMAIN s
         /\ \A i \in DOMAIN s : s[i] \in S
OBVIOUS

LEMMA VisitInv ==
  ASSUME WalkInv, Visit
  PROVE  WalkInv' /\ UNCHANGED h
<1>1. WalkType
  BY DEF WalkInv
<1>a. stack \in Seq(Frames) /\ stack # << >>
  BY <1>1 DEF Visit, WalkType
<1>b. PICK N \in Nat : N = Len(stack)
  BY <1>a
<1> DEFINE f == stack[N]
           node == h[f.node].kids[f.kid]
<1>2. /\ pc = "visit" /\ UNCHANGED <<h, original, size, population, candidate, ops, k, pc>>
      /\ f.kid <= Len(h[f.node].kids) /\ stack' = Append(stack, [node |-> node, kid |-> 1])
  BY <1>b DEF Visit, Last
<1>3. /\ h \in Heaps /\ stack \in Seq(Frames) /\ stack # << >>
      /\ \A i \in DOMAIN stack : FrameFits(i)
      /\ DOMAIN h = 1 .. Len(h) /\ Len(h) \in Nat
  BY <1>1, <1>2, HeapFacts DEF WalkType
<1>4. N >= 1 /\ DOMAIN stack = 1 .. N /\ N \in DOMAIN stack /\ \A i \in 1 .. N : stack[i] \in Frames
  BY <1>a, <1>b, TopExists
<1>5. f.node \in DOMAIN h /\ f.kid \in Nat /\ f.kid >= 1
  BY <1>3, <1>4 DEF FrameFits, Frames
<1>6. node \in Kids(h, f.node) /\ node \in DOMAIN h
  <2>1. h[f.node].kids \in Seq(DOMAIN h)
    BY <1>3, <1>5, HeapFacts
  <2>2. f.kid \in DOMAIN h[f.node].kids
    BY <1>2, <1>5, <2>1
  <2> QED
    BY <2>1, <2>2 DEF Kids
<1> HIDE DEF node
<1>7. /\ stack' \in Seq(Frames) /\ Len(stack') = N + 1 /\ DOMAIN stack' = 1 .. N + 1
      /\ stack'[N + 1].node = node /\ stack'[N + 1].kid = 1
      /\ \A i \in 1 .. N : stack'[i] = stack[i]
  <2>1. [node |-> node, kid |-> 1] \in Frames
    BY <1>3, <1>6 DEF Frames
  <2> QED
    BY <1>2, <1>3, <1>b, <2>1
<1>8. WalkType'
  <2>1. ASSUME NEW i \in 1 .. N
        PROVE  FrameFits(i)'
    <3>1. FrameFits(i) /\ i # N + 1
      BY <1>3, <1>4
    <3>3. stack[i].kid \in Nat /\ Len(h[stack[i].node].kids) \in Nat
      BY <1>3, <1>4, <3>1, KidCount DEF FrameFits, Frames
    <3>2. stack[i].kid <= Len(h[stack[i].node].kids)
      <4>1. CASE i = N
        BY <1>2, <4>1
      <4>2. CASE i # N
        BY <1>b, <3>1, <4>2 DEF FrameFits
      <4> QED
        BY <4>1, <4>2
    <3> QED
      BY <1>2, <1>7, <3>1, <3>2, <3>3 DEF FrameFits
  <2>2. FrameFits(N + 1)'
    <3>1. Len(h[node].kids) \in Nat
      BY <1>3, <1>6, KidCount
    <3> QED
      BY <1>2, <1>6, <1>7, <3>1 DEF FrameFits
  <2>3. \A i \in DOMAIN stack' : FrameFits(i)'
    <3>1. \A i \in 1 .. N + 1 : i \in 1 .. N \/ i = N + 1
      BY <1>4
    <3> QED
      BY <1>7, <2>1, <2>2, <3>1
  <2>4. stack' # << >>
    BY <1>4, <1>7
  <2> QED
    BY <1>1, <1>2, <1>7, <2>3, <2>4 DEF WalkType
<1>9. PICK base \in Nat : Apart(base)
  BY DEF WalkInv
<1>10. Apart(base)'
  <2>1. f.node \in base + 1 .. Len(h)
    BY <1>3, <1>4, <1>5, <1>9 DEF Apart
  <2>2. node > base
    BY <1>6, <1>9, <2>1 DEF Apart
  <2>3. \A i \in DOMAIN stack' : stack'[i].node > base
    <3>1. \A i \in 1 .. N + 1 : i \in 1 .. N \/ i = N + 1
      BY <1>4
    <3> QED
      BY <1>4, <1>7, <1>9, <2>2, <3>1 DEF Apart
  <2> QED
    BY <1>2, <1>9, <2>3 DEF Apart
<1>11. \E rank : Descends(rank)'
  <2>1. PICK rank : Descends(rank)
    BY DEF WalkInv
  <2>2. rank[node] < rank[f.node]
    BY <1>5, <1>6, <2>1 DEF Descends, Ranks
  <2>3. ASSUME NEW i \in 1 .. N
        PROVE  rank[stack'[i + 1].node] < rank[stack'[i].node]
    <3>1. CASE i = N
      BY <1>4, <1>7, <2>2, <3>1
    <3>2. CASE i # N
      <4>1. i \in 1 .. N - 1 /\ i + 1 \in 1 .. N
        BY <1>4, <3>2
      <4> QED
        BY <1>7, <1>b, <2>1, <4>1 DEF Descends
    <3> QED
      BY <3>1, <3>2
  <2>4. 1 .. Len(stack') - 1 = 1 .. N
    BY <1>4, <1>7
  <2> QED
    BY <1>2, <2>1, <2>3, <2>4 DEF Descends
<1> QED
  BY <1>2, <1>8, <1>10, <1>11 DEF WalkInv

(* The heap when the children of n are done: n and what was added are       *)
(* where n was, and all other nodes are as before.                         *)
LEMMA FitsApart ==
  ASSUME NEW n \in DOMAIN h, NEW r, Fits(r, n), h \in Heaps, NEW base \in Nat, Apart(base), n > base
  PROVE  /\ r.heap \in Heaps /\ Len(r.heap) >= Len(h) /\ DOMAIN h \subseteq DOMAIN r.heap
         /\ r.node \in base + 1 .. Len(r.heap)
         /\ \A m \in 1 .. base : r.heap[m] = h[m] /\ Kids(r.heap, m) \subseteq 1 .. base
         /\ \A m \in base + 1 .. Len(r.heap) : Kids(r.heap, m) \subseteq base + 1 .. Len(r.heap)
<1> DEFINE L == Len(h)
           new == L + 1 .. Len(r.heap)
           above == base + 1 .. Len(r.heap)
<1>1. /\ r.heap \in Heaps /\ Len(r.heap) >= L /\ r.node \in {n} \cup new
      /\ \A m \in DOMAIN h : m # n => r.heap[m] = h[m]
      /\ \A m \in {n} \cup new : Kids(r.heap, m) \subseteq {n} \cup Kids(h, n) \cup new
  BY DEF Fits
<1>2. /\ L \in Nat /\ Len(r.heap) \in Nat /\ DOMAIN h = 1 .. L /\ DOMAIN r.heap = 1 .. Len(r.heap)
  BY <1>1, HeapFacts
<1>3. base \in 1 .. L
  BY <1>2 DEF Apart
<1>4. new \subseteq above /\ n \in above /\ base + 1 .. L \subseteq above
  BY <1>1, <1>2, <1>3
<1>5. Kids(h, n) \subseteq above
  <2>1. n \in base + 1 .. L
    BY <1>2, <1>3
  <2> QED
    BY <1>4, <2>1 DEF Apart
<1>6. ASSUME NEW m \in DOMAIN h, m # n
      PROVE  Kids(r.heap, m) = Kids(h, m)
  <2>1. r.heap[m] = h[m]
    BY <1>1, <1>6
  <2> QED
    BY <2>1 DEF Kids
<1>7. ASSUME NEW m \in above
      PROVE  Kids(r.heap, m) \subseteq above
  <2>1. CASE m \in {n} \cup new
    BY <1>1, <1>4, <1>5, <2>1
  <2>2. CASE m \notin {n} \cup new
    <3>1. m \in base + 1 .. L /\ m \in DOMAIN h /\ m # n
      BY <1>2, <1>3, <2>2
    <3>2. Kids(h, m) \subseteq above
      BY <1>4, <3>1 DEF Apart
    <3> QED
      BY <1>6, <3>1, <3>2
  <2> QED
    BY <2>1, <2>2
<1>8. ASSUME NEW m \in 1 .. base
      PROVE  r.heap[m] = h[m] /\ Kids(r.heap, m) \subseteq 1 .. base
  <2>1. m \in DOMAIN h /\ m # n
    BY <1>2, <1>3
  <2>2. Kids(h, m) \subseteq 1 .. base
    BY DEF Apart
  <2> QED
    BY <1>1, <1>6, <2>1, <2>2
<1> QED
  BY <1>1, <1>2, <1>4, <1>7, <1>8

LEMMA LeaveRoot ==
  ASSUME WalkInv, pc = "visit", NEW n \in DOMAIN h, stack[Len(stack)].node = n, Len(stack) = 1,
         NEW r, Fits(r, n),
         h' = r.heap, candidate' = r.node, k' = k + 1, pc' = "mutate", stack' = << >>,
         UNCHANGED <<original, size, population, ops>>
  PROVE  /\ WalkInv' /\ DOMAIN h \subseteq DOMAIN h'
         /\ \A base \in Nat : Apart(base) => \A m \in 1 .. base : h'[m] = h[m]
<1>1. WalkType
  BY DEF WalkInv
<1>2. h \in Heaps /\ DOMAIN stack = {1}
  BY <1>1, SequenceFacts DEF WalkType
<1>3. ASSUME NEW base \in Nat, Apart(base)
      PROVE  /\ h' \in Heaps /\ Len(h') >= Len(h) /\ DOMAIN h \subseteq DOMAIN h'
             /\ candidate' \in base + 1 .. Len(h')
             /\ \A m \in 1 .. base : h'[m] = h[m] /\ Kids(h', m) \subseteq 1 .. base
             /\ \A m \in base + 1 .. Len(h') : Kids(h', m) \subseteq base + 1 .. Len(h')
  <2>1. n > base
    BY <1>2, <1>3 DEF Apart
  <2> QED
    BY <1>2, <1>3, <2>1, FitsApart
<1>4. PICK base \in Nat : Apart(base)
  BY DEF WalkInv
<1>5. Len(h') \in Nat /\ DOMAIN h' = 1 .. Len(h') /\ Len(h) \in Nat /\ DOMAIN h = 1 .. Len(h)
  BY <1>2, <1>3, <1>4, HeapFacts
<1>6. PICK new \in Nat : new = Len(h')
  BY <1>5
<1>7. base \in 1 .. Len(h)
  BY <1>4, <1>5 DEF Apart
<1>8. Apart(new)'
  <2>1. new \in DOMAIN h' /\ original' <= new /\ candidate' <= new
    <3>1. original \in DOMAIN h /\ candidate' \in base + 1 .. Len(h') /\ Len(h') >= Len(h)
      BY <1>1, <1>3, <1>4 DEF WalkType
    <3> QED
      BY <1>5, <1>6, <1>7, <3>1
  <2>2. \A i \in DOMAIN population' : population'[i].root \in 1 .. new
    BY <1>3, <1>4, <1>5, <1>6, <1>7 DEF Apart
  <2>3. \A m \in 1 .. new : Kids(h', m) \subseteq 1 .. new
    BY <1>3, <1>4, <1>5, <1>6, HeapFacts
  <2>4. new + 1 .. Len(h') = {} /\ DOMAIN stack' = {}
    BY <1>5, <1>6
  <2> QED
    BY <2>1, <2>2, <2>3, <2>4 DEF Apart
<1>9. \E rank : Descends(rank)'
  <2>1. PICK rank : Ranks(h, rank)
    BY DEF WalkInv, Descends
  <2>2. PICK rank2 : Ranks(h', rank2)
    BY <2>1 DEF Fits
  <2>3. 1 .. Len(stack') - 1 = {}
    OBVIOUS
  <2> QED
    BY <2>2, <2>3 DEF Descends
<1>10. WalkType'
  <2>1. /\ original' \in DOMAIN h' /\ size' \in Nat /\ candidate' \in DOMAIN h'
        /\ population' \in Seq(Candidates) /\ Len(population') < size' /\ Len(population') <= size'
    BY <1>1, <1>3, <1>4, <1>5, <1>7 DEF WalkType
  <2>2. ops' \in Seq(MUTATION_OPS) /\ k' \in 1 .. Len(ops') + 1
    BY <1>1, SequenceFacts DEF WalkType
  <2>3. stack' \in Seq(Frames) /\ DOMAIN stack' = {}
    OBVIOUS
  <2>4. h' \in Heaps
    BY <1>3, <1>4
  <2> QED
    BY <2>1, <2>2, <2>3, <2>4 DEF WalkType
<1>11. \A b \in Nat : Apart(b) => \A m \in 1 .. b : h'[m] = h[m]
  BY <1>3
<1> QED
  BY <1>3, <1>4, <1>8, <1>9, <1>10, <1>11 DEF WalkInv

Relinked(p, r) == h' = [r.heap EXCEPT ![p.node].kids[p.kid] = r.node]

LEMMA LeaveChild ==
  ASSUME WalkInv, pc = "visit", NEW N \in Nat, N = Len(stack), N >= 2,
         NEW n, n = stack[N].node, NEW p, p = stack[N - 1], NEW r, Fits(r, n),
         Relinked(p, r),
         stack' \in Seq(Frames), Len(stack') = N - 1,
         \A i \in 1 .. N - 2 : stack'[i] = stack[i],
         stack'[N - 1] = [p EXCEPT !.kid = @ + 1],
         UNCHANGED <<original, size, population, ops, candidate, k, pc>>
  PROVE  /\ WalkInv' /\ DOMAIN h \subseteq DOMAIN h'
         /\ \A base \in Nat : Apart(base) => \A m \in 1 .. base : h'[m] = h[m]
<1>1. WalkType
  BY DEF WalkInv
<1>2. /\ h \in Heaps /\ DOMAIN stack = 1 .. N /\ \A i \in 1 .. N : stack[i] \in Frames /\ FrameFits(i)
      /\ DOMAIN h = 1 .. Len(h) /\ Len(h) \in Nat
  BY <1>1, SequenceFacts, HeapFacts DEF WalkType
<1>3. N \in 1 .. N /\ N - 1 \in 1 .. N
  OBVIOUS
<1>4. n \in DOMAIN h /\ p \in Frames /\ p.node \in DOMAIN h /\ p.kid \in Nat
  BY <1>2, <1>3 DEF FrameFits, Frames
<1>5. DOMAIN stack' = 1 .. N - 1 /\ stack'[N - 1].node = p.node /\ stack'[N - 1].kid = p.kid + 1
  BY <1>4, SequenceFacts DEF Frames
<1>6. \A i \in 1 .. N - 1 : stack'[i].node = stack[i].node
  <2> SUFFICES ASSUME NEW i \in 1 .. N - 1 PROVE stack'[i].node = stack[i].node
    OBVIOUS
  <2>1. i = N - 1 \/ i \in 1 .. N - 2
    OBVIOUS
  <2> QED
    BY <1>5, <2>1
<1>7. /\ r.heap \in Heaps /\ Len(r.heap) >= Len(h) /\ DOMAIN h \subseteq DOMAIN r.heap
      /\ r.node \in DOMAIN r.heap /\ DOMAIN r.heap = 1 .. Len(r.heap) /\ Len(r.heap) \in Nat
  <2>1. /\ r.heap \in Heaps /\ Len(r.heap) >= Len(h)
        /\ r.node \in {n} \cup (Len(h) + 1 .. Len(r.heap))
    BY DEF Fits
  <2>2. DOMAIN r.heap = 1 .. Len(r.heap) /\ Len(r.heap) \in Nat
    BY <2>1, HeapFacts
  <2> QED
    BY <1>2, <1>4, <2>1, <2>2
<1>8. /\ h' \in Heaps /\ Len(h') = Len(r.heap)
      /\ \A m \in DOMAIN r.heap : m # p.node => h'[m] = r.heap[m]
      /\ \A m \in DOMAIN r.heap : Len(h'[m].kids) = Len(r.heap[m].kids)
      /\ \A m \in DOMAIN r.heap : m # p.node => Kids(h', m) = Kids(r.heap, m)
      /\ Kids(h', p.node) \subseteq Kids(r.heap, p.node) \cup {r.node}
  <2> DEFINE g2 == [r.heap EXCEPT ![p.node].kids[p.kid] = r.node]
  <2>1. p.node \in DOMAIN r.heap /\ p.kid \in Nat
    BY <1>4, <1>7
  <2>2. /\ g2 \in Heaps /\ Len(g2) = Len(r.heap)
        /\ \A m \in DOMAIN r.heap : m # p.node => g2[m] = r.heap[m]
        /\ \A m \in DOMAIN r.heap : Len(g2[m].kids) = Len(r.heap[m].kids)
        /\ \A m \in DOMAIN r.heap : m # p.node => Kids(g2, m) = Kids(r.heap, m)
        /\ Kids(g2, p.node) \subseteq Kids(r.heap, p.node) \cup {r.node}
    BY <1>7, <2>1, Relink
  <2>3. h' = g2
    BY DEF Relinked
  <2> HIDE DEF g2
  <2> QED
    BY <2>2, <2>3
<1>9. DOMAIN h' = DOMAIN r.heap
  BY <1>7, <1>8, HeapFacts
<1>10. ASSUME NEW base \in Nat, Apart(base)
       PROVE  /\ \A m \in 1 .. base : h'[m] = h[m] /\ Kids(h', m) \subseteq 1 .. base
              /\ \A m \in base + 1 .. Len(h') : Kids(h', m) \subseteq base + 1 .. Len(h')
  <2>1. n > base /\ p.node > base
    BY <1>2, <1>3, <1>10 DEF Apart
  <2>2. /\ r.node \in base + 1 .. Len(r.heap)
        /\ \A m \in 1 .. base : r.heap[m] = h[m] /\ Kids(r.heap, m) \subseteq 1 .. base
        /\ \A m \in base + 1 .. Len(r.heap) : Kids(r.heap, m) \subseteq base + 1 .. Len(r.heap)
    BY <1>2, <1>4, <1>10, <2>1, FitsApart
  <2>3. \A m \in 1 .. base : m \in DOMAIN r.heap /\ m # p.node
    <3>1. base <= Len(h) /\ p.node \in Nat
      BY <1>2, <1>4, <1>10 DEF Apart
    <3> QED
      BY <1>7, <2>1, <3>1, <1>2
  <2>4. \A m \in base + 1 .. Len(r.heap) : m \in DOMAIN r.heap
    BY <1>7
  <2>5. ASSUME NEW m \in base + 1 .. Len(r.heap)
        PROVE  Kids(h', m) \subseteq base + 1 .. Len(r.heap)
    <3>1. CASE m = p.node
      BY <1>8, <2>2, <3>1
    <3>2. CASE m # p.node
      BY <1>8, <2>2, <2>4, <3>2
    <3> QED
      BY <3>1, <3>2
  <2>6. \A m \in 1 .. base : h'[m] = h[m] /\ Kids(h', m) \subseteq 1 .. base
    BY <1>8, <2>2, <2>3
  <2>7. Len(h') = Len(r.heap)
    BY <1>8
  <2> QED
    BY <2>5, <2>6, <2>7
<1>11. PICK base \in Nat : Apart(base)
  BY DEF WalkInv
<1>12. Apart(base)'
  <2>1. base \in DOMAIN h'
    BY <1>7, <1>9, <1>11 DEF Apart
  <2>2. \A i \in DOMAIN stack' : stack'[i].node > base
    <3>1. \A i \in 1 .. N : stack[i].node > base
      BY <1>2, <1>11 DEF Apart
    <3>2. \A i \in 1 .. N - 1 : i \in 1 .. N
      OBVIOUS
    <3> QED
      BY <1>5, <1>6, <3>1, <3>2
  <2>3. /\ original' <= base /\ candidate' <= base
        /\ \A i \in DOMAIN population' : population'[i].root \in 1 .. base
    BY <1>11 DEF Apart
  <2>4. /\ \A m \in 1 .. base : Kids(h', m) \subseteq 1 .. base
        /\ \A m \in base + 1 .. Len(h') : Kids(h', m) \subseteq base + 1 .. Len(h')
    BY <1>10, <1>11
  <2> QED
    BY <2>1, <2>2, <2>3, <2>4 DEF Apart
<1>13. \E rank : Descends(rank)'
  <2>1. PICK rank : Descends(rank)
    BY DEF WalkInv
  <2>2. /\ \A m \in DOMAIN h : rank[m] \in Nat
        /\ \A i \in 1 .. N - 1 : rank[stack[i + 1].node] < rank[stack[i].node]
    BY <2>1 DEF Descends, Ranks
  <2>3. PICK rank2 : /\ Ranks(r.heap, rank2)
                     /\ \A m \in DOMAIN h : rank2[m] = 8 * rank[m]
                     /\ rank2[r.node] < 8 * rank[n] + 8
    BY <2>1 DEF Descends, Fits
  <2>4. rank2[r.node] < rank2[p.node]
    <3>1. rank[n] < rank[p.node]
      <4>1. N - 1 \in 1 .. N - 1 /\ (N - 1) + 1 = N
        OBVIOUS
      <4> QED
        BY <2>2, <4>1
    <3>2. rank2[p.node] = 8 * rank[p.node] /\ rank[n] \in Nat /\ rank[p.node] \in Nat
      BY <1>4, <2>2, <2>3
    <3>3. rank2[r.node] \in Nat
      BY <1>7, <2>3 DEF Ranks
    <3> QED
      BY <2>3, <3>1, <3>2, <3>3, SMTT(30)
  <2>5. Ranks(h', rank2)
    <3>1. rank2 \in [DOMAIN h' -> Nat \ {0}]
      BY <1>9, <2>3 DEF Ranks
    <3>2. ASSUME NEW m \in DOMAIN h', NEW c \in Kids(h', m)
          PROVE  rank2[c] < rank2[m]
      <4>1. c \in Kids(r.heap, m) \/ (m = p.node /\ c = r.node)
        BY <1>8, <1>9
      <4> QED
        BY <1>9, <2>3, <2>4, <4>1 DEF Ranks
    <3> QED
      BY <3>1, <3>2 DEF Ranks
  <2>6. ASSUME NEW i \in 1 .. Len(stack') - 1
        PROVE  rank2[stack'[i + 1].node] < rank2[stack'[i].node]
    <3>1. i \in 1 .. N - 2
      OBVIOUS
    <3>2. i \in 1 .. N - 1 /\ i + 1 \in 1 .. N - 1 /\ i \in 1 .. N /\ i + 1 \in 1 .. N
      BY <3>1
    <3>3. stack'[i + 1].node = stack[i + 1].node /\ stack'[i].node = stack[i].node
      BY <1>6, <3>2
    <3>4. stack[i + 1].node \in DOMAIN h /\ stack[i].node \in DOMAIN h
      BY <1>2, <3>2 DEF FrameFits
    <3>5. rank[stack[i + 1].node] < rank[stack[i].node]
      BY <2>2, <3>2
    <3>6. /\ rank2[stack[i + 1].node] = 8 * rank[stack[i + 1].node]
          /\ rank2[stack[i].node] = 8 * rank[stack[i].node]
          /\ rank[stack[i + 1].node] \in Nat /\ rank[stack[i].node] \in Nat
      BY <2>2, <2>3, <3>4
    <3> QED
      BY <3>3, <3>5, <3>6, SMTT(30)
  <2> QED
    BY <2>5, <2>6 DEF Descends
<1>14. \A m \in DOMAIN h : Len(h'[m].kids) >= Len(h[m].kids) /\ Len(h'[m].kids) \in Nat /\ Len(h[m].kids) \in Nat
  <2> SUFFICES ASSUME NEW m \in DOMAIN h
               PROVE  /\ Len(h'[m].kids) >= Len(h[m].kids)
                      /\ Len(h'[m].kids) \in Nat /\ Len(h[m].kids) \in Nat
    OBVIOUS
  <2>1. m \in DOMAIN r.heap /\ m \in DOMAIN h'
    BY <1>7, <1>9
  <2>2. Len(h'[m].kids) \in Nat /\ Len(h[m].kids) \in Nat
    BY <1>2, <1>8, <2>1, KidCount
  <2>3. Len(r.heap[m].kids) >= Len(h[m].kids)
    <3>1. CASE m = n
      BY <3>1 DEF Fits
    <3>2. CASE m # n
      <4>1. r.heap[m] = h[m]
        BY <3>2 DEF Fits
      <4> QED
        BY <2>2, <4>1
    <3> QED
      BY <3>1, <3>2
  <2> QED
    BY <1>8, <2>1, <2>2, <2>3
<1>15. WalkType'
  <2>1. ASSUME NEW i \in 1 .. N - 1
        PROVE  FrameFits(i)'
    <3>1. i \in 1 .. N /\ i # N /\ FrameFits(i) /\ stack[i] \in Frames
      BY <1>2
    <3>2. /\ stack[i].node \in DOMAIN h /\ stack[i].kid >= 1 /\ stack[i].kid \in Nat
          /\ stack[i].kid <= Len(h[stack[i].node].kids)
      BY <3>1 DEF FrameFits, Frames
    <3>3. /\ stack'[i].node = stack[i].node /\ stack'[i].node \in DOMAIN h'
          /\ Len(h'[stack[i].node].kids) >= Len(h[stack[i].node].kids)
          /\ Len(h'[stack[i].node].kids) \in Nat /\ Len(h[stack[i].node].kids) \in Nat
      BY <1>6, <1>7, <1>9, <1>14, <3>2
    <3>4. CASE i = N - 1
      <4>1. stack'[i].kid = stack[i].kid + 1 /\ i = Len(stack')
        BY <1>5, <3>4
      <4>2. stack[i].kid <= Len(h'[stack[i].node].kids)
        BY <3>2, <3>3
      <4>3. stack[i].kid + 1 <= Len(h'[stack[i].node].kids) + 1 /\ stack[i].kid + 1 >= 1
        BY <3>2, <3>3, <4>2, SMTT(30)
      <4>4. stack'[i].kid <= Len(h'[stack'[i].node].kids) + 1 /\ stack'[i].kid >= 1
        BY <3>3, <4>1, <4>3, Zenon
      <4> QED
        BY <3>3, <4>1, <4>4 DEF FrameFits
    <3>5. CASE i # N - 1
      <4>1. stack'[i].kid = stack[i].kid /\ i # Len(stack')
        BY <3>5
      <4> QED
        BY <3>2, <3>3, <4>1 DEF FrameFits
    <3> QED
      BY <3>4, <3>5
  <2>2. \A i \in DOMAIN stack' : FrameFits(i)'
    BY <1>5, <2>1
  <2>3. original' \in DOMAIN h' /\ candidate' \in DOMAIN h'
    BY <1>1, <1>7, <1>9 DEF WalkType
  <2>4. stack' # << >>
    BY <1>5
  <2>5. /\ size' \in Nat /\ population' \in Seq(Candidates) /\ Len(population') < size'
        /\ Len(population') <= size' /\ ops' \in Seq(MUTATION_OPS) /\ k' \in 1 .. Len(ops') + 1
        /\ k' <= Len(ops') /\ pc' = "visit"
    BY <1>1 DEF WalkType
  <2>6. h' \in Heaps
    BY <1>8
  <2> QED
    BY <2>2, <2>3, <2>4, <2>5, <2>6 DEF WalkType
<1>16. \A b \in Nat : Apart(b) => \A m \in 1 .. b : h'[m] = h[m]
  BY <1>10
<1> QED
  BY <1>7, <1>9, <1>12, <1>13, <1>15, <1>16 DEF WalkInv

LEMMA LeaveInv ==
  ASSUME WalkInv, Leave
  PROVE  /\ WalkInv' /\ DOMAIN h \subseteq DOMAIN h'
         /\ \A base \in Nat : Apart(base) => \A m \in 1 .. base : h'[m] = h[m]
<1>1. /\ pc = "visit" /\ h \in Heaps /\ stack \in Seq(Frames) /\ stack # << >>
      /\ \A i \in DOMAIN stack : FrameFits(i)
  BY DEF WalkInv, WalkType, Leave
<1>2. PICK N \in Nat : N = Len(stack)
  BY <1>1
<1>3. N >= 1 /\ DOMAIN stack = 1 .. N /\ N \in DOMAIN stack /\ \A i \in 1 .. N : stack[i] \in Frames
  BY <1>1, <1>2, TopExists
<1> DEFINE n    == stack[N].node
           rest == Front(stack)
<1>4. n \in DOMAIN h
  BY <1>1, <1>3 DEF FrameFits
<1>5. PICK r \in Visited(ops[k], n) :
        /\ IF rest = << >>
             THEN h' = r.heap /\ candidate' = r.node /\ k' = k + 1 /\ pc' = "mutate" /\ stack' = << >>
             ELSE /\ h' = [r.heap EXCEPT ![Last(rest).node].kids[Last(rest).kid] = r.node]
                  /\ stack' = [rest EXCEPT ![Len(rest)].kid = @ + 1]
                  /\ UNCHANGED <<candidate, k, pc>>
        /\ UNCHANGED <<original, size, population, ops>>
  BY <1>2 DEF Leave, Last
<1>6. Fits(r, n)
  BY <1>1, <1>4, VisitedFits
<1>7. /\ rest \in Seq(Frames) /\ Len(rest) = N - 1 /\ DOMAIN rest = 1 .. N - 1
      /\ \A i \in 1 .. N - 1 : rest[i] = stack[i]
  BY <1>1, <1>2, <1>3 DEF Front
<1>8. CASE N = 1
  <2>1. rest = << >>
    BY <1>7, <1>8
  <2> QED
    BY <1>1, <1>2, <1>4, <1>5, <1>6, <1>8, <2>1, LeaveRoot
<1>9. CASE N >= 2
  <2> DEFINE p == stack[N - 1]
  <2>1. rest # << >> /\ Last(rest) = p /\ N - 1 \in 1 .. N - 1
    BY <1>7, <1>9 DEF Last
  <2>2. /\ h' = [r.heap EXCEPT ![p.node].kids[p.kid] = r.node]
        /\ stack' = [rest EXCEPT ![N - 1].kid = @ + 1]
        /\ UNCHANGED <<original, size, population, ops, candidate, k, pc>>
    BY <1>5, <1>7, <2>1
  <2>3. p \in Frames /\ [p EXCEPT !.kid = @ + 1] \in Frames
    BY <1>3, <1>9 DEF Frames
  <2>4. /\ stack' \in Seq(Frames) /\ Len(stack') = N - 1
        /\ \A i \in 1 .. N - 2 : stack'[i] = stack[i]
        /\ stack'[N - 1] = [p EXCEPT !.kid = @ + 1]
    <3> DEFINE f == [p EXCEPT !.kid = @ + 1]
    <3>1. stack' = [rest EXCEPT ![N - 1] = f]
      BY <1>7, <2>1, <2>2
    <3> HIDE DEF f, rest
    <3> QED
      BY <1>3, <1>7, <1>9, <2>1, <2>3, <3>1 DEF f
  <2> HIDE DEF n, rest, p
  <2> QED
    BY <1>1, <1>2, <1>6, <1>9, <2>2, <2>4, LeaveChild DEF n, p, Relinked
<1> QED
  BY <1>3, <1>8, <1>9

-----------------------------------------------------------------------------
(* The theorems.                                                           *)
LEMMA NextInv == WalkInv /\ [Next]_vars => WalkInv'
<1> SUFFICES ASSUME WalkInv, [Next]_vars PROVE WalkInv'
  OBVIOUS
<1>1. CASE Sample
  BY <1>1, SampleInv
<1>2. CASE Mutate
  BY <1>2, MutateInv
<1>3. CASE Visit
  BY <1>3, VisitInv
<1>4. CASE Leave
  BY <1>4, LeaveInv
<1>5. CASE Collect
  BY <1>5, CollectInv
<1>6. CASE UNCHANGED vars
  BY <1>6 DEF vars, WalkInv, WalkType, FrameFits, Apart, Descends
<1> QED
  BY <1>1, <1>2, <1>3, <1>4, <1>5, <1>6 DEF Next

LEMMA Walks == Spec => []WalkInv
BY InitInv, NextInv, PTL DEF Spec

LEMMA InvType == WalkInv => TypeOK
<1> SUFFICES ASSUME WalkInv PROVE TypeOK
  OBVIOUS
<1>1. WalkType
  BY DEF WalkInv
<1>2. \A n \in DOMAIN h : Kids(h, n) \subseteq DOMAIN h /\ WellFormed(h[n])
  BY <1>1, HeapFacts DEF WalkType, Nodes
<1>3. \A c \in Range(population) : c.root \in DOMAIN h
  <2>1. PICK base \in Nat : Apart(base)
    BY DEF WalkInv
  <2>2. \A m \in 1 .. base : m \in DOMAIN h
    BY <1>1, <2>1, HeapFacts DEF Apart, WalkType
  <2> QED
    BY <2>1, <2>2 DEF Apart, Range
<1>4. Range(ops) \subseteq MUTATION_OPS
  BY <1>1, SequenceFacts DEF WalkType, Range
<1>5. \A f \in Range(stack) : f.node \in DOMAIN h /\ f.kid \in 1 .. Len(h[f.node].kids) + 1
  <2> SUFFICES ASSUME NEW i \in DOMAIN stack
               PROVE  stack[i].node \in DOMAIN h /\ stack[i].kid \in 1 .. Len(h[stack[i].node].kids) + 1
    BY DEF Range
  <2>a. stack \in Seq(Frames) /\ FrameFits(i) /\ h \in Heaps
    BY <1>1 DEF WalkType
  <2>b. stack[i] \in Frames
    BY <2>a, SequenceFacts
  <2>1. FrameFits(i) /\ stack[i].kid \in Nat /\ h \in Heaps
    BY <2>a, <2>b DEF Frames
  <2>2. stack[i].node \in DOMAIN h
    BY <2>1 DEF FrameFits
  <2>3. Len(h[stack[i].node].kids) \in Nat
    BY <2>1, <2>2, KidCount
  <2> QED
    BY <2>1, <2>2, <2>3 DEF FrameFits
<1>6. Acyclic(h, candidate)
  <2>1. PICK rank : Ranks(h, rank)
    BY DEF WalkInv, Descends
  <2> QED
    BY <1>1, <2>1, RankedIsAcyclic DEF WalkType
<1> QED
  BY <1>1, <1>2, <1>3, <1>4, <1>5, <1>6 DEF WalkType, TypeOK

(* Nodes keep what their class asks for, and a candidate that is about to  *)
(* be mutated or collected has no node that is found from itself.          *)
THEOREM TypeCorrect == Spec => []TypeOK
BY Walks, InvType, PTL

Finished == {original} \cup {c.root : c \in Range(population)}

FinishedStays == \A r \in Finished : \A n \in Reach(h, r) : h'[n] = h[n]

LEMMA StepKeeps == WalkInv /\ [Next]_vars => [FinishedStays]_vars
<1> SUFFICES ASSUME WalkInv, Next, NEW r \in Finished, NEW n \in Reach(h, r)
             PROVE  h'[n] = h[n]
  BY DEF FinishedStays
<1>1. PICK base \in Nat : Apart(base)
  BY DEF WalkInv
<1>2. h \in Heaps /\ DOMAIN h = 1 .. Len(h) /\ Len(h) \in Nat /\ original \in DOMAIN h
  BY HeapFacts DEF WalkInv, WalkType
<1>3. r \in 1 .. base /\ 1 .. base \subseteq DOMAIN h
  <2>1. original \in 1 .. base
    BY <1>1, <1>2 DEF Apart
  <2>2. 1 .. base \subseteq DOMAIN h
    BY <1>1, <1>2 DEF Apart
  <2> QED
    BY <1>1, <2>1, <2>2 DEF Finished, Range, Apart
<1>4. Closed(h, 1 .. base)
  BY <1>1 DEF Closed, Apart
<1>5. n \in 1 .. base /\ n \in DOMAIN h
  BY <1>2, <1>3, <1>4, HeapFacts, ReachFacts
<1>6. CASE Sample
  BY <1>5, <1>6, SampleInv
<1>7. CASE Mutate
  BY <1>5, <1>7, MutateInv
<1>8. CASE Visit
  BY <1>8, VisitInv
<1>9. CASE Leave
  BY <1>1, <1>5, <1>9, LeaveInv
<1>10. CASE Collect
  BY <1>10, CollectInv
<1> QED
  BY <1>6, <1>7, <1>8, <1>9, <1>10 DEF Next

(* mutate and generate_population copy before they change anything: what   *)
(* is found from the source, or from a candidate that is done, is never    *)
(* changed again.                                                          *)
THEOREM KeepsFinished == Spec => FinishedKept
<1>1. Spec => [][FinishedStays]_vars
  BY Walks, StepKeeps, PTL DEF Spec
<1>2. FinishedKept <=> [][FinishedStays]_vars
  BY DEF FinishedKept, FinishedStays, Finished
<1> QED
  BY <1>1, <1>2

-----------------------------------------------------------------------------
(* What a node computes from its children.                                 *)
KidValues(g, due, m) == [j \in DOMAIN g[m].kids |-> due[g[m].kids[j]]]

Evaluation(g, env, negative, f) ==
  f = [m \in DOMAIN g |-> Evaluated(g[m], KidValues(g, f, m), env, negative)]

LEMMA ValueIs ==
  ASSUME NEW g, NEW n, NEW env, NEW negative
  PROVE  Value(g, n, env, negative) = (CHOOSE f : Evaluation(g, env, negative, f))[n]
BY DEF Value, Evaluation, KidValues

LEMMA ValueFacts ==
  /\ \A x \in Int : IntV(x) \in Values /\ IntV(x) \notin Errors /\ IntV(x) # Next_
  /\ None \in Values /\ None \notin Errors /\ Next_ \in Values /\ Next_ \notin Errors
  /\ Errors \subseteq Values
BY DEF IntV, Values, Errors, None, Next_, NoneError, IndexError, TypeError

LEMMA ItemValue ==
  ASSUME NEW v \in Values, NEW s \in Values
  PROVE  /\ \A negative \in BOOLEAN : Item(v, s, negative) \in Values
         /\ Item(v, s, FALSE) \notin Errors =>
               /\ Item(v, s, TRUE) = Item(v, s, FALSE)
               /\ v[1] = "list" /\ s[1] = "int" /\ s[2] \in 0 .. v[2] - 1
BY DEF Item, Values, IntV, None, Errors, NoneError, IndexError, TypeError

LEMMA OperatorValues ==
  ASSUME NEW v \in Values, NEW w \in Values, NEW val
  PROVE  /\ Attribute(v) \in Values /\ Length(v) \in Values
         /\ Arithmetic(val, v, w) \in Values
<1> USE DEF Values, Errors, IntV, ListV, None, NoneError, TypeError
<1>1. Attribute(v) \in Values
  BY DEF Attribute
<1>2. Length(v) \in Values
  BY DEF Length
<1>3. Arithmetic(val, v, w) \in Values
  BY DEF Arithmetic
<1> QED
  BY <1>1, <1>2, <1>3

LEMMA ComparisonValue ==
  ASSUME NEW v \in Values, NEW w \in Values, NEW val
  PROVE  Comparison(val, v, w) \in Values
<1>1. \A b : Bool(b) \in Values
  BY DEF Bool, IntV, Values
<1>2. TypeError \in Values
  BY ValueFacts DEF Errors
<1> QED
  BY <1>1, <1>2 DEF Comparison

(* A set of numbers has a least one, by the order of the initial segments. *)
LEMMA LeastExists ==
  ASSUME NEW S \in SUBSET Nat, S # {}
  PROVE  \E j \in S : \A l \in S : j <= l
<1>1. PICK n \in S : TRUE
  OBVIOUS
<1> DEFINE D == 1 .. n
           R == StrictSubsetOrdering(D)
           T == {1 .. j : j \in {l \in S : l <= n}}
<1>2. T \subseteq SUBSET D /\ T # {}
  BY <1>1
<1>3. IsWellFoundedOn(R, SUBSET D)
  <2>1. IsFiniteSet(D)
    BY FS_Interval
  <2> HIDE DEF D
  <2> QED
    BY <2>1, FS_StrictSubsetOrderingWellFounded, FS_FiniteSubsetsOfFinite, Zenon
<1>4. PICK x \in T : \A y \in T : <<y, x>> \notin R
  <2> HIDE DEF T, R, D
  <2> QED
    BY <1>2, <1>3, WFMin, Zenon
<1>5. PICK j \in {l \in S : l <= n} : x = 1 .. j
  OBVIOUS
<1>6. ASSUME NEW l \in S, l < j
      PROVE  FALSE
  <2>1. l <= n /\ 1 .. l \in T /\ j \in Nat /\ l \in Nat
    BY <1>5, <1>6
  <2>2. 1 .. l \subseteq 1 .. j /\ j \in 1 .. j /\ j \notin 1 .. l
    BY <1>6, <2>1
  <2>3. <<1 .. l, 1 .. j>> \in R
    BY <1>2, <1>5, <2>1, <2>2 DEF StrictSubsetOrdering
  <2> QED
    BY <1>4, <1>5, <2>1, <2>3
<1> QED
  BY <1>5, <1>6

First(S) == CHOOSE j \in S : \A l \in S : j <= l

LEMMA FirstFacts ==
  ASSUME NEW S \in SUBSET Nat, S # {}
  PROVE  First(S) \in S /\ \A l \in S : First(S) <= l
BY LeastExists DEF First

LEMMA EvaluatedType ==
  ASSUME NEW v \in Nodes, NEW kid \in [DOMAIN v.kids -> Values],
         NEW env \in [Operators.Name -> Values], NEW negative \in BOOLEAN
  PROVE  Evaluated(v, kid, env, negative) \in Values
<1> DEFINE returns == {j \in DOMAIN kid : kid[j] # Next_}
<1>1. /\ v.op \in DOMAIN Arity \cup {"FunctionDef"} /\ WellFormed(v)
      /\ DOMAIN kid = 1 .. Len(v.kids) /\ Len(v.kids) \in Nat
  BY DEF Nodes
<1>2. CASE v.op \in {"Name", "Constant", "None"}
  <2>1. v.op = "Name" => env[v.val] \in Values
    BY <1>1, ClassFacts DEF WellFormed
  <2>2. v.op = "Constant" => IntV(v.val) \in Values
    BY <1>1, ClassFacts, ValueFacts DEF WellFormed
  <2> QED
    BY <1>2, <2>1, <2>2, ValueFacts DEF Evaluated
<1>3. CASE v.op = "FunctionDef"
  <2>1. Evaluated(v, kid, env, negative) = IF returns = {} THEN None ELSE kid[First(returns)]
    BY <1>3 DEF Evaluated, First
  <2>2. returns # {} => First(returns) \in returns
    <3>1. returns \in SUBSET Nat
      BY <1>1
    <3> HIDE DEF returns
    <3> QED
      BY <3>1, FirstFacts
  <2> QED
    BY <2>1, <2>2, ValueFacts
<1>4. CASE v.op \notin {"Name", "Constant", "None", "FunctionDef"}
  <2>1. Len(v.kids) >= 1 /\ 1 \in DOMAIN kid /\ kid[1] \in Values
    BY <1>1, <1>4, ClassFacts DEF WellFormed
  <2>2. v.op \in {"Subscript", "BinOp", "Compare", "And", "If", "IfExp"}
          => 2 \in DOMAIN kid /\ kid[2] \in Values
    BY <1>1, ClassFacts DEF WellFormed
  <2>3. v.op = "IfExp" => 3 \in DOMAIN kid /\ kid[3] \in Values
    BY <1>1, ClassFacts DEF WellFormed
  <2>4. v.op \in {"Attribute", "Len", "Return", "Subscript", "BinOp", "Compare", "And", "If", "IfExp"}
    BY <1>1, <1>4, ClassFacts
  <2>5. /\ v.op = "Attribute" => Attribute(kid[1]) \in Values
        /\ v.op = "Len" => Length(kid[1]) \in Values
        /\ v.op = "Subscript" => Item(kid[1], kid[2], negative) \in Values
        /\ v.op = "BinOp" => Arithmetic(v.val, kid[1], kid[2]) \in Values
        /\ v.op = "Compare" => Comparison(v.val, kid[1], kid[2]) \in Values
    BY <2>1, <2>2, OperatorValues, ItemValue, ComparisonValue
  <2> QED
    BY <2>1, <2>2, <2>3, <2>4, <2>5, ValueFacts DEF Evaluated
<1> QED
  BY <1>2, <1>3, <1>4

(* Without an exception a value depends only on the children without one,  *)
(* and an index from the end is not among what it depends on.              *)
Agree(u, w) == DOMAIN u = DOMAIN w /\ \A j \in DOMAIN w : w[j] \in Errors \/ u[j] = w[j]

LEMMA EvaluatedAgrees ==
  ASSUME NEW v \in Nodes, NEW w \in [DOMAIN v.kids -> Values], NEW u, Agree(u, w), NEW env,
         Evaluated(v, w, env, FALSE) \notin Errors
  PROVE  Evaluated(v, u, env, TRUE) = Evaluated(v, w, env, FALSE)
<1> DEFINE x == Evaluated(v, w, env, FALSE)
<1> SUFFICES Evaluated(v, u, env, TRUE) = x
  OBVIOUS
<1>x. x = Evaluated(v, w, env, FALSE) /\ x \notin Errors
  OBVIOUS
<1> HIDE DEF x
<1>1. /\ v.op \in DOMAIN Arity \cup {"FunctionDef"} /\ WellFormed(v)
      /\ DOMAIN w = 1 .. Len(v.kids) /\ DOMAIN u = DOMAIN w /\ Len(v.kids) \in Nat
  BY DEF Nodes, Agree
<1>2. CASE v.op \in {"Name", "Constant", "None"}
  BY <1>2, <1>x DEF Evaluated
<1>3. CASE v.op = "FunctionDef"
  <2> DEFINE returns(kid) == {j \in DOMAIN kid : kid[j] # Next_}
  <2>1. /\ x = IF returns(w) = {} THEN None ELSE w[First(returns(w))]
        /\ Evaluated(v, u, env, TRUE) = IF returns(u) = {} THEN None ELSE u[First(returns(u))]
    BY <1>3, <1>x DEF Evaluated, First
  <2>2. CASE returns(w) = {}
    <3>1. \A j \in DOMAIN w : u[j] = w[j]
      BY <2>2, ValueFacts DEF Agree
    <3> QED
      BY <1>1, <2>1, <2>2, <3>1
  <2>3. CASE returns(w) # {}
    <3> DEFINE i == First(returns(w))
    <3>1. i \in returns(w) /\ \A l \in returns(w) : i <= l
      <4>1. returns(w) \in SUBSET Nat
        BY <1>1
      <4> HIDE DEF returns
      <4> QED
        BY <2>3, <4>1, FirstFacts
    <3> HIDE DEF i
    <3>2. u[i] = w[i] /\ i \in returns(u) /\ x = w[i]
      BY <1>1, <1>x, <2>1, <2>3, <3>1 DEF i, Agree
    <3>3. ASSUME NEW l \in returns(u)
          PROVE  i <= l
      <4>1. CASE l \in returns(w)
        BY <3>1, <4>1
      <4>2. CASE l \notin returns(w)
        BY <1>1, <3>3, <4>2, ValueFacts DEF Agree
      <4> QED
        BY <4>1, <4>2
    <3>4. First(returns(u)) = i
      <4>1. returns(u) \in SUBSET Nat /\ returns(u) # {} /\ i \in Nat
        BY <1>1, <3>2
      <4>2. First(returns(u)) \in returns(u) /\ \A l \in returns(u) : First(returns(u)) <= l
        BY <4>1, FirstFacts
      <4>3. First(returns(u)) \in Nat
        BY <4>1, <4>2
      <4> QED
        BY <3>2, <3>3, <4>1, <4>2, <4>3
    <3> QED
      BY <2>1, <3>2, <3>4
  <2> QED
    BY <2>2, <2>3
<1>4. CASE v.op \notin {"Name", "Constant", "None", "FunctionDef"}
  <2>1. 1 \in DOMAIN w /\ w[1] \in Values
    BY <1>1, <1>4, ClassFacts DEF WellFormed
  <2>2. v.op \in {"Subscript", "BinOp", "Compare", "And", "If", "IfExp"}
          => 2 \in DOMAIN w /\ w[2] \in Values
    BY <1>1, ClassFacts DEF WellFormed
  <2>3. v.op = "IfExp" => 3 \in DOMAIN w
    BY <1>1, ClassFacts DEF WellFormed
  <2>4. w[1] \notin Errors /\ u[1] = w[1]
    BY <1>4, <1>x, <2>1 DEF Evaluated, Agree
  <2>5. v.op \in {"Subscript", "BinOp", "Compare"} => w[2] \notin Errors /\ u[2] = w[2]
    BY <1>4, <1>x, <2>2, <2>4 DEF Evaluated, Agree
  <2>6. CASE v.op = "Subscript"
    <3>1. x = Item(w[1], w[2], FALSE) /\ Evaluated(v, u, env, TRUE) = Item(w[1], w[2], TRUE)
      BY <1>x, <2>4, <2>5, <2>6 DEF Evaluated
    <3>2. Item(w[1], w[2], FALSE) \notin Errors => Item(w[1], w[2], TRUE) = Item(w[1], w[2], FALSE)
      BY <2>1, <2>2, <2>6, ItemValue
    <3> QED
      BY <1>x, <3>1, <3>2
  <2>7. CASE v.op \in {"BinOp", "Compare"}
    BY <1>x, <2>4, <2>5, <2>7 DEF Evaluated
  <2>8. CASE v.op \in {"Attribute", "Len", "Return"}
    BY <1>x, <2>4, <2>8 DEF Evaluated
  <2>9. CASE v.op \in {"And", "If"}
    BY <1>x, <2>2, <2>4, <2>9 DEF Evaluated, Agree
  <2>10. CASE v.op = "IfExp"
    BY <1>x, <2>2, <2>3, <2>4, <2>10 DEF Evaluated, Agree
  <2> QED
    BY <1>1, <1>4, <2>6, <2>7, <2>8, <2>9, <2>10, ClassFacts
<1> QED
  BY <1>2, <1>3, <1>4

-----------------------------------------------------------------------------
(* Value is defined by recursion along the graph: where ranks fall there   *)
(* is one function with its equation, by induction on the rank.            *)
LEMMA KidValuesSame ==
  ASSUME NEW g \in Heaps, NEW m \in DOMAIN g, NEW f, NEW f2, \A c \in Kids(g, m) : f[c] = f2[c]
  PROVE  KidValues(g, f, m) = KidValues(g, f2, m)
BY DEF KidValues, Kids

LEMMA EvaluationUnique ==
  ASSUME NEW g \in Heaps, NEW rank, Ranks(g, rank), NEW env, NEW negative,
         NEW S \in SUBSET DOMAIN g, Closed(g, S), NEW f, NEW f2,
         \A m \in S : /\ f[m] = Evaluated(g[m], KidValues(g, f, m), env, negative)
                      /\ f2[m] = Evaluated(g[m], KidValues(g, f2, m), env, negative)
  PROVE  \A m \in S : f[m] = f2[m]
<1> DEFINE Bad == {rank[m] : m \in {x \in S : f[x] # f2[x]}}
<1>1. SUFFICES ASSUME Bad # {} PROVE FALSE
  OBVIOUS
<1>2. Bad \in SUBSET Nat
  BY DEF Ranks
<1>3. PICK r \in Bad : \A q \in Bad : r <= q
  <2> HIDE DEF Bad
  <2> QED
    BY <1>1, <1>2, LeastExists
<1>4. PICK m \in S : f[m] # f2[m] /\ r = rank[m]
  OBVIOUS
<1>5. ASSUME NEW c \in Kids(g, m)
      PROVE  f[c] = f2[c]
  <2>1. c \in S /\ rank[c] < rank[m] /\ rank[c] \in Nat /\ rank[m] \in Nat
    BY DEF Closed, Ranks
  <2>2. f[c] # f2[c] => rank[c] \in Bad
    BY <2>1
  <2> QED
    BY <1>3, <1>4, <2>1, <2>2
<1>6. KidValues(g, f, m) = KidValues(g, f2, m)
  BY <1>5, KidValuesSame
<1> QED
  BY <1>4, <1>6

(* A function that is right up to a rank can be made right at the next.    *)
Partial(g, rank, env, negative, f, r) ==
  \A m \in DOMAIN g : rank[m] < r =>
    f[m] = Evaluated(g[m], KidValues(g, f, m), env, negative)

LEMMA EvaluationExists ==
  ASSUME NEW g \in Heaps, NEW rank, Ranks(g, rank), NEW env, NEW negative
  PROVE  \E f : Evaluation(g, env, negative, f)
<1> DEFINE Right(f, r) == Partial(g, rank, env, negative, f, r)
           Bad == {r \in Nat : ~ \E f : Right(f, r)}
<1>1. /\ \A m \in DOMAIN g : rank[m] \in Nat /\ Kids(g, m) \subseteq DOMAIN g
      /\ \A m \in DOMAIN g : \A c \in Kids(g, m) : rank[c] < rank[m]
  BY HeapFacts DEF Ranks
<1>2. Bad = {}
  <2>1. SUFFICES ASSUME Bad # {} PROVE FALSE
    OBVIOUS
  <2>2. PICK r \in Bad : \A q \in Bad : r <= q
    <3>1. Bad \in SUBSET Nat
      OBVIOUS
    <3> HIDE DEF Bad
    <3> QED
      BY <2>1, <3>1, LeastExists
  <2>3. r # 0
    BY <1>1 DEF Partial
  <2>4. PICK f : Right(f, r - 1)
    <3>1. r - 1 \in Nat /\ ~(r <= r - 1)
      BY <2>3
    <3> QED
      BY <2>2, <3>1
  <2> DEFINE f2 == [m \in DOMAIN g |->
                      IF rank[m] < r - 1 THEN f[m]
                      ELSE Evaluated(g[m], KidValues(g, f, m), env, negative)]
  <2>5. ASSUME NEW m \in DOMAIN g, rank[m] < r
        PROVE  f2[m] = Evaluated(g[m], KidValues(g, f2, m), env, negative)
    <3>1. \A c \in Kids(g, m) : f2[c] = f[c]
      <4> SUFFICES ASSUME NEW c \in Kids(g, m) PROVE f2[c] = f[c]
        OBVIOUS
      <4>1. c \in DOMAIN g /\ rank[c] < r - 1
        BY <1>1, <2>5
      <4> QED
        BY <4>1
    <3> HIDE DEF f2
    <3>2. KidValues(g, f2, m) = KidValues(g, f, m)
      BY <3>1, KidValuesSame
    <3>3. f2[m] = Evaluated(g[m], KidValues(g, f, m), env, negative)
      BY <2>4 DEF f2, Partial
    <3> QED
      BY <3>2, <3>3
  <2>6. Right(f2, r)
    <3> HIDE DEF f2
    <3> QED
      BY <2>5 DEF Partial
  <2> QED
    BY <2>2, <2>6
<1> DEFINE P(r) == CHOOSE f : Right(f, r)
           F    == [m \in DOMAIN g |-> P(rank[m] + 1)[m]]
<1>3. \A r \in Nat : Right(P(r), r)
  <2> SUFFICES ASSUME NEW r \in Nat PROVE Right(P(r), r)
    OBVIOUS
  <2>1. \E f : Right(f, r)
    BY <1>2
  <2> HIDE DEF Right
  <2> QED
    BY <2>1
<1> HIDE DEF P, Bad
<1>4. ASSUME NEW m \in DOMAIN g, NEW c \in Kids(g, m)
      PROVE  F[c] = P(rank[m] + 1)[c]
  <2> DEFINE S == {x \in DOMAIN g : rank[x] < rank[c] + 1}
  <2>1. c \in DOMAIN g /\ rank[c] < rank[m] /\ rank[c] \in Nat /\ rank[m] \in Nat
    BY <1>1
  <2>2. S \in SUBSET DOMAIN g /\ c \in S
    BY <2>1
  <2>3. Closed(g, S)
    <3> SUFFICES ASSUME NEW x \in S, NEW y \in Kids(g, x) PROVE y \in S
      BY DEF Closed
    <3>1. y \in DOMAIN g /\ rank[y] < rank[x] /\ rank[y] \in Nat /\ rank[x] \in Nat
      BY <1>1
    <3> QED
      BY <2>1, <3>1
  <2>4. Right(P(rank[c] + 1), rank[c] + 1) /\ Right(P(rank[m] + 1), rank[m] + 1)
    BY <1>3, <2>1
  <2> DEFINE f  == P(rank[c] + 1)
             f2 == P(rank[m] + 1)
  <2> HIDE DEF f, f2
  <2>5. \A x \in S : /\ f[x] = Evaluated(g[x], KidValues(g, f, x), env, negative)
                     /\ f2[x] = Evaluated(g[x], KidValues(g, f2, x), env, negative)
    <3> SUFFICES ASSUME NEW x \in S
                 PROVE  /\ f[x] = Evaluated(g[x], KidValues(g, f, x), env, negative)
                        /\ f2[x] = Evaluated(g[x], KidValues(g, f2, x), env, negative)
      OBVIOUS
    <3>1. rank[x] \in Nat /\ rank[x] < rank[c] + 1 /\ rank[x] < rank[m] + 1
      BY <1>1, <2>1
    <3> QED
      BY <2>4, <3>1 DEF f, f2, Partial
  <2> HIDE DEF S
  <2>6. f[c] = f2[c]
    BY <2>2, <2>3, <2>5, EvaluationUnique
  <2> QED
    BY <2>1, <2>6 DEF f, f2
<1>5. \A m \in DOMAIN g : F[m] = Evaluated(g[m], KidValues(g, F, m), env, negative)
  <2> SUFFICES ASSUME NEW m \in DOMAIN g
               PROVE  F[m] = Evaluated(g[m], KidValues(g, F, m), env, negative)
    OBVIOUS
  <2>1. F[m] = P(rank[m] + 1)[m]
    OBVIOUS
  <2>2. KidValues(g, F, m) = KidValues(g, P(rank[m] + 1), m)
    <3> HIDE DEF F
    <3> QED
      BY <1>4, KidValuesSame
  <2>3. rank[m] \in Nat /\ rank[m] + 1 \in Nat /\ rank[m] < rank[m] + 1
    BY <1>1
  <2>4. Right(P(rank[m] + 1), rank[m] + 1)
    BY <1>3, <2>3
  <2> QED
    BY <2>1, <2>2, <2>3, <2>4 DEF Partial
<1>6. F = [m \in DOMAIN g |-> F[m]]
  OBVIOUS
<1> HIDE DEF F
<1>7. Evaluation(g, env, negative, F)
  BY <1>5, <1>6 DEF Evaluation
<1> QED
  BY <1>7

(* The function that Value takes its result from has its equation.         *)
LEMMA ValueEquation ==
  ASSUME NEW g \in Heaps, NEW rank, Ranks(g, rank), NEW env, NEW negative
  PROVE  \E f : /\ \A n : Value(g, n, env, negative) = f[n]
                /\ \A m \in DOMAIN g : f[m] = Evaluated(g[m], KidValues(g, f, m), env, negative)
<1> DEFINE f == CHOOSE f : Evaluation(g, env, negative, f)
<1>1. Evaluation(g, env, negative, f)
  BY EvaluationExists
<1>2. \A n : Value(g, n, env, negative) = f[n]
  BY ValueIs
<1> HIDE DEF f
<1>3. \A m \in DOMAIN g : f[m] = Evaluated(g[m], KidValues(g, f, m), env, negative)
  BY <1>1 DEF Evaluation
<1> QED
  BY <1>2, <1>3

Environments == [Operators.Name -> Values]

LEMMA EvaluationType ==
  ASSUME NEW g \in Heaps, NEW rank, Ranks(g, rank), NEW env \in Environments,
         NEW negative \in BOOLEAN, NEW f,
         \A m \in DOMAIN g : f[m] = Evaluated(g[m], KidValues(g, f, m), env, negative)
  PROVE  \A m \in DOMAIN g : f[m] \in Values
<1> DEFINE Bad == {rank[m] : m \in {x \in DOMAIN g : f[x] \notin Values}}
<1>1. SUFFICES ASSUME Bad # {} PROVE FALSE
  OBVIOUS
<1>2. Bad \in SUBSET Nat
  BY DEF Ranks
<1>3. PICK r \in Bad : \A q \in Bad : r <= q
  <2> HIDE DEF Bad
  <2> QED
    BY <1>1, <1>2, LeastExists
<1>4. PICK m \in DOMAIN g : f[m] \notin Values /\ r = rank[m]
  OBVIOUS
<1>5. \A c \in Kids(g, m) : f[c] \in Values
  <2> SUFFICES ASSUME NEW c \in Kids(g, m) PROVE f[c] \in Values
    OBVIOUS
  <2>1. c \in DOMAIN g /\ rank[c] < rank[m] /\ rank[c] \in Nat /\ rank[m] \in Nat
    BY HeapFacts DEF Ranks
  <2>2. f[c] \notin Values => rank[c] \in Bad
    BY <2>1
  <2> QED
    BY <1>3, <1>4, <2>1, <2>2
<1>6. KidValues(g, f, m) \in [DOMAIN g[m].kids -> Values]
  BY <1>5 DEF KidValues, Kids
<1>7. g[m] \in Nodes
  BY HeapFacts
<1>8. Evaluated(g[m], KidValues(g, f, m), env, negative) \in Values
  BY <1>6, <1>7, EvaluatedType DEF Environments
<1> QED
  BY <1>4, <1>8

-----------------------------------------------------------------------------
(* What a graph means, for the arguments in env: each node has a value     *)
(* that is due, and computes it, or may do anything if that is an          *)
(* exception.                                                              *)
Due(g, env, due, m) == Evaluated(g[m], KidValues(g, due, m), env, FALSE)

Part(g, due, S) == S \subseteq DOMAIN g /\ Closed(g, S) /\ due \in [Nat -> Values]

Kept(g, env, due, S) ==
  Part(g, due, S) /\ \A m \in S : due[m] \in Errors \/ due[m] = Due(g, env, due, m)

Means(g, root, env, v) ==
  \E due, S : Kept(g, env, due, S) /\ root \in S /\ due[root] = v

(* The same without exceptions from the rule. *)
Returns(g, root, env, v) ==
  \E due, S : /\ Part(g, due, S) /\ root \in S /\ due[root] = v
              /\ \A m \in S : due[m] = Due(g, env, due, m)

LEMMA ReturnsMeans ==
  ASSUME NEW g, NEW root, NEW env, NEW v, Returns(g, root, env, v)
  PROVE  Means(g, root, env, v)
BY DEF Returns, Means, Kept

LEMMA ReturnsValue ==
  ASSUME NEW g \in Heaps, NEW rank, Ranks(g, rank), NEW env,
         NEW root, NEW v, Returns(g, root, env, v)
  PROVE  Value(g, root, env, FALSE) = v
<1>1. PICK due, S : /\ Part(g, due, S) /\ root \in S /\ due[root] = v
                    /\ \A m \in S : due[m] = Due(g, env, due, m)
  BY DEF Returns
<1> DEFINE negative == FALSE
<1> HIDE DEF negative
<1>2. PICK f : /\ \A n : Value(g, n, env, negative) = f[n]
               /\ \A m \in DOMAIN g : f[m] = Evaluated(g[m], KidValues(g, f, m), env, negative)
  BY ValueEquation
<1>3. S \in SUBSET DOMAIN g /\ Closed(g, S)
  BY <1>1 DEF Part
<1>4. \A m \in S : /\ f[m] = Evaluated(g[m], KidValues(g, f, m), env, negative)
                   /\ due[m] = Evaluated(g[m], KidValues(g, due, m), env, negative)
  BY <1>1, <1>2, <1>3 DEF Due, negative
<1>5. f[root] = due[root]
  BY <1>1, <1>3, <1>4, EvaluationUnique
<1> QED
  BY <1>1, <1>2, <1>5 DEF negative

LEMMA MeansValue ==
  ASSUME NEW g \in Heaps, NEW rank, Ranks(g, rank), NEW env \in Environments,
         NEW root, NEW v, Means(g, root, env, v)
  PROVE  v \in Errors \/ Value(g, root, env, TRUE) = v
<1>1. PICK due, S : Kept(g, env, due, S) /\ root \in S /\ due[root] = v
  BY DEF Means
<1> DEFINE negative == TRUE
<1> HIDE DEF negative
<1>2. PICK f : /\ \A n : Value(g, n, env, negative) = f[n]
               /\ \A m \in DOMAIN g : f[m] = Evaluated(g[m], KidValues(g, f, m), env, negative)
  BY ValueEquation
<1>3. S \in SUBSET DOMAIN g /\ Closed(g, S) /\ due \in [Nat -> Values]
  BY <1>1 DEF Kept, Part
<1> DEFINE Bad == {rank[m] : m \in {x \in S : due[x] \notin Errors /\ f[x] # due[x]}}
<1>4. SUFFICES ASSUME Bad # {} PROVE FALSE
  BY <1>1, <1>2 DEF negative
<1>5. Bad \in SUBSET Nat
  BY <1>3 DEF Ranks
<1>6. PICK r \in Bad : \A q \in Bad : r <= q
  <2> HIDE DEF Bad
  <2> QED
    BY <1>4, <1>5, LeastExists
<1>7. PICK m \in S : due[m] \notin Errors /\ f[m] # due[m] /\ r = rank[m]
  OBVIOUS
<1>8. m \in DOMAIN g /\ g[m] \in Nodes /\ \A c \in Kids(g, m) : c \in S /\ c \in Nat
  BY <1>3, HeapFacts DEF Closed
<1>9. \A c \in Kids(g, m) : due[c] \in Errors \/ f[c] = due[c]
  <2> SUFFICES ASSUME NEW c \in Kids(g, m), due[c] \notin Errors
               PROVE  f[c] = due[c]
    OBVIOUS
  <2>1. c \in S /\ rank[c] < rank[m] /\ rank[c] \in Nat /\ rank[m] \in Nat
    BY <1>3, <1>8 DEF Ranks
  <2>2. f[c] # due[c] => rank[c] \in Bad
    BY <2>1
  <2> QED
    BY <1>6, <1>7, <2>1, <2>2
<1>10. Agree(KidValues(g, f, m), KidValues(g, due, m))
  BY <1>9 DEF Agree, KidValues, Kids
<1>11. KidValues(g, due, m) \in [DOMAIN g[m].kids -> Values]
  BY <1>3, <1>8 DEF KidValues, Kids
<1>12. due[m] = Evaluated(g[m], KidValues(g, due, m), env, FALSE)
  BY <1>1, <1>7 DEF Kept, Due
<1>13. Evaluated(g[m], KidValues(g, f, m), env, TRUE) = due[m]
  <2> DEFINE w == KidValues(g, due, m)
             u == KidValues(g, f, m)
             x == g[m]
  <2>1. x \in Nodes /\ w \in [DOMAIN x.kids -> Values] /\ Agree(u, w)
    BY <1>8, <1>10, <1>11
  <2>2. Evaluated(x, w, env, FALSE) \notin Errors
    BY <1>7, <1>12
  <2> HIDE DEF w, u, x
  <2>3. Evaluated(x, u, env, TRUE) = Evaluated(x, w, env, FALSE)
    BY <2>1, <2>2, EvaluatedAgrees
  <2> QED
    BY <2>3, <1>12 DEF w, u, x
<1> QED
  BY <1>2, <1>7, <1>8, <1>13 DEF negative

(* Nodes that are left alone keep their meaning.                           *)
LEMMA KidsStay ==
  ASSUME NEW g, NEW g2, NEW B, \A m \in B : g2[m] = g[m], NEW due
  PROVE  \A m \in B : Kids(g2, m) = Kids(g, m) /\ KidValues(g2, due, m) = KidValues(g, due, m)
BY DEF Kids, KidValues

LEMMA DueStays ==
  ASSUME NEW g, NEW g2, NEW B, \A m \in B : g2[m] = g[m], NEW due, NEW env
  PROVE  \A m \in B : Due(g2, env, due, m) = Due(g, env, due, m)
<1>1. \A m \in B : KidValues(g2, due, m) = KidValues(g, due, m)
  BY KidsStay
<1> QED
  BY <1>1 DEF Due

LEMMA PartStays ==
  ASSUME NEW g, NEW g2, NEW B, Closed(g, B), B \subseteq DOMAIN g2,
         \A m \in B : g2[m] = g[m], NEW due, NEW S, Part(g, due, S)
  PROVE  Part(g2, due, S \cap B)
<1>1. \A m \in B : Kids(g2, m) = Kids(g, m)
  BY KidsStay
<1>2. Closed(g2, S \cap B)
  BY <1>1 DEF Closed, Part
<1> QED
  BY <1>2 DEF Part

LEMMA MeaningStays ==
  ASSUME NEW g, NEW g2, NEW B, Closed(g, B), B \subseteq DOMAIN g2,
         \A m \in B : g2[m] = g[m], NEW root \in B, NEW env, NEW v
  PROVE  /\ Means(g, root, env, v) => Means(g2, root, env, v)
         /\ Returns(g, root, env, v) => Returns(g2, root, env, v)
<1>1. ASSUME Means(g, root, env, v)
      PROVE  Means(g2, root, env, v)
  <2>1. PICK due, S : Kept(g, env, due, S) /\ root \in S /\ due[root] = v
    BY <1>1 DEF Means
  <2>2. /\ Part(g2, due, S \cap B)
        /\ \A m \in S \cap B : Due(g2, env, due, m) = Due(g, env, due, m)
    <3>1. Part(g, due, S)
      BY <2>1 DEF Kept
    <3>2. Part(g2, due, S \cap B)
      BY <3>1, PartStays
    <3>3. \A m \in B : Due(g2, env, due, m) = Due(g, env, due, m)
      BY DueStays
    <3> QED
      BY <3>2, <3>3
  <2>3. Kept(g2, env, due, S \cap B)
    BY <2>1, <2>2 DEF Kept
  <2> QED
    BY <2>1, <2>3 DEF Means
<1>2. ASSUME Returns(g, root, env, v)
      PROVE  Returns(g2, root, env, v)
  <2>1. PICK due, S : /\ Part(g, due, S) /\ root \in S /\ due[root] = v
                      /\ \A m \in S : due[m] = Due(g, env, due, m)
    BY <1>2 DEF Returns
  <2>2. /\ Part(g2, due, S \cap B)
        /\ \A m \in S \cap B : Due(g2, env, due, m) = Due(g, env, due, m)
    <3>2. Part(g2, due, S \cap B)
      BY <2>1, PartStays
    <3>3. \A m \in B : Due(g2, env, due, m) = Due(g, env, due, m)
      BY DueStays
    <3> QED
      BY <3>2, <3>3
  <2> QED
    BY <2>1, <2>2 DEF Returns
<1> QED
  BY <1>1, <1>2

(* Node c of the copied graph stands for the node m of the original.       *)
StandsFor(g, n, c, m) ==
  /\ c - Len(g) \in 1 .. Cardinality(Reach(g, n))
  /\ c = Len(g) + (c - Len(g))
  /\ Old(g, n, c - Len(g)) = m

(* A copy means what its original does.                                    *)
LEMMA CopyNode ==
  ASSUME NEW g \in Heaps, NEW n \in DOMAIN g
  PROVE  LET C   == Cardinality(Reach(g, n))
             R   == Reach(g, n)
             c   == Copies(g, n)
         IN  /\ Closed(g, R) /\ n \in R /\ R \subseteq DOMAIN g
             /\ Old(g, n, Place(R, n)) = n
             /\ \A j \in 1 .. C :
                  LET o == Old(g, n, j) IN
                  /\ o \in R /\ c[j].op = g[o].op /\ c[j].val = g[o].val
                  /\ DOMAIN c[j].kids = DOMAIN g[o].kids
                  /\ \A l \in DOMAIN g[o].kids : StandsFor(g, n, c[j].kids[l], g[o].kids[l])
<1> DEFINE R == Reach(g, n)
           C == Cardinality(R)
<1>1. /\ R \subseteq DOMAIN g /\ n \in R /\ Closed(g, R)
      /\ R \in SUBSET Nat /\ IsFiniteSet(R)
  <2>1. R \subseteq DOMAIN g /\ n \in R /\ Closed(g, R)
    BY HeapFacts, ReachFacts
  <2>2. R \in SUBSET Nat
    BY <2>1, HeapFacts
  <2>3. IsFiniteSet(R)
    BY <2>1, HeapFacts, FS_Subset
  <2> QED
    BY <2>1, <2>2, <2>3
<1>2. /\ C \in Nat
      /\ \A x \in R : Place(R, x) \in 1 .. C
      /\ \A x, y \in R : Place(R, x) = Place(R, y) => x = y
      /\ \A j \in 1 .. C : \E x \in R : Place(R, x) = j
  <2> HIDE DEF R
  <2> QED
    BY <1>1, PlaceIsBijection
<1>3. \A j \in 1 .. C : Old(g, n, j) \in R
  <2> HIDE DEF C
  <2> QED
    BY <1>2 DEF Old
<1>4. \A x \in R : Old(g, n, Place(R, x)) = x
  BY <1>2 DEF Old
<1>5. ASSUME NEW j \in 1 .. C
      PROVE  LET o == Old(g, n, j)
                 v == Copies(g, n)[j]
             IN  /\ o \in R /\ v.op = g[o].op /\ v.val = g[o].val
                 /\ DOMAIN v.kids = DOMAIN g[o].kids
                 /\ \A l \in DOMAIN g[o].kids : StandsFor(g, n, v.kids[l], g[o].kids[l])
  <2> DEFINE o  == Old(g, n, j)
             v  == Copies(g, n)[j]
             ks == [l \in DOMAIN g[o].kids |-> Len(g) + Place(R, g[o].kids[l])]
  <2>1. o \in R /\ g[o] \in Nodes /\ Len(g) \in Nat
    BY <1>1, <1>3, HeapFacts
  <2>2. v = [g[o] EXCEPT !.kids = ks]
    BY DEF Copies, CopyOf
  <2>3. v.op = g[o].op /\ v.val = g[o].val /\ v.kids = ks
    <3> HIDE DEF o, v, ks
    <3> QED
      BY <2>1, <2>2 DEF Nodes
  <2>4. ASSUME NEW l \in DOMAIN g[o].kids
        PROVE  StandsFor(g, n, v.kids[l], g[o].kids[l])
    <3>1. g[o].kids[l] \in R
      BY <1>1, <2>1 DEF Closed, Kids
    <3>2. v.kids[l] = Len(g) + Place(R, g[o].kids[l])
      BY <2>3
    <3>3. Place(R, g[o].kids[l]) \in 1 .. C /\ Old(g, n, Place(R, g[o].kids[l])) = g[o].kids[l]
      BY <1>2, <1>4, <3>1
    <3> DEFINE i == Place(R, g[o].kids[l])
    <3>4. v.kids[l] = Len(g) + i /\ i \in 1 .. C /\ Old(g, n, i) = g[o].kids[l]
      BY <3>2, <3>3
    <3> HIDE DEF i, o, v, R, C
    <3>5. i \in Int /\ v.kids[l] - Len(g) = i
      BY <1>2, <2>1, <3>4
    <3>6. /\ v.kids[l] - Len(g) \in 1 .. C
          /\ v.kids[l] = Len(g) + (v.kids[l] - Len(g))
          /\ Old(g, n, v.kids[l] - Len(g)) = g[o].kids[l]
      BY <3>4, <3>5
    <3> QED
      BY <3>6 DEF StandsFor, C, R
  <2>5. DOMAIN v.kids = DOMAIN g[o].kids
    BY <2>3
  <2> HIDE DEF o, v, ks, R, C
  <2> QED
    BY <2>1, <2>3, <2>4, <2>5 DEF o, v
<1> QED
  BY <1>1, <1>4, <1>5

LEMMA SameClass ==
  ASSUME NEW v, NEW u, v.op = u.op, v.val = u.val, NEW kid, NEW env
  PROVE  Evaluated(v, kid, env, FALSE) = Evaluated(u, kid, env, FALSE)
BY DEF Evaluated

LEMMA CopyMeans ==
  ASSUME NEW g \in Heaps, NEW n \in DOMAIN g, NEW env, NEW v, Means(g, n, env, v)
  PROVE  Means(DeepCopy(g, n).heap, DeepCopy(g, n).node, env, v)
<1> DEFINE e == Copies(g, n)
           R == Reach(g, n)
           C == Cardinality(R)
           c == DeepCopy(g, n)
           new == Len(g) + 1 .. Len(c.heap)
           old(m) == Old(g, n, m - Len(g))
<1>1. PICK due, S : Kept(g, env, due, S) /\ n \in S /\ due[n] = v
  BY DEF Means
<1>2. c.heap = g \o e /\ c.node = Len(g) + Place(R, n)
  BY DeepCopyIs
<1>3. /\ c.heap \in Heaps /\ c.node \in new
      /\ \A m \in new : Kids(c.heap, m) \subseteq new
  BY DeepCopyFacts
<1>4. /\ C \in Nat /\ e \in Seq(Nodes) /\ Len(e) = C /\ DOMAIN e = 1 .. C
      /\ Place(R, n) \in 1 .. C
  BY CopiesFacts
<1>5. /\ R \subseteq DOMAIN g /\ Old(g, n, Place(R, n)) = n
      /\ \A j \in 1 .. C :
           LET o == Old(g, n, j) IN
           /\ o \in R /\ e[j].op = g[o].op /\ e[j].val = g[o].val
           /\ DOMAIN e[j].kids = DOMAIN g[o].kids
           /\ \A l \in DOMAIN g[o].kids : StandsFor(g, n, e[j].kids[l], g[o].kids[l])
  BY CopyNode
<1>6. R \subseteq S
  BY <1>1, HeapFacts, ReachFacts DEF Kept, Part
<1> HIDE DEF e, R, C, c
<1>7. Len(g) \in Nat /\ g \in Seq(Nodes) /\ Len(c.heap) = Len(g) + C
      /\ \A j \in 1 .. C : c.heap[Len(g) + j] = e[j]
  <2>1. Len(g) \in Nat /\ g \in Seq(Nodes)
    BY HeapFacts
  <2> DEFINE x == g \o e
  <2>2. Len(x) = Len(g) + C /\ \A j \in 1 .. C : x[Len(g) + j] = e[j]
    <3>1. e \in Seq(Nodes) /\ g \in Seq(Nodes)
      BY <1>4, <2>1
    <3>2. /\ Len(g \o e) = Len(g) + Len(e)
          /\ \A j \in DOMAIN e : (g \o e)[Len(g) + j] = e[j]
      BY <3>1, Concat
    <3> QED
      BY <1>4, <3>2
  <2>3. c.heap = x
    BY <1>2
  <2> HIDE DEF x
  <2> QED
    BY <2>1, <2>2, <2>3
<1>8. \A m \in new : /\ m - Len(g) \in 1 .. C /\ m = Len(g) + (m - Len(g))
                     /\ old(m) \in R /\ old(m) \in S /\ old(m) \in Nat
  <2> SUFFICES ASSUME NEW m \in new
               PROVE  /\ m - Len(g) \in 1 .. C /\ m = Len(g) + (m - Len(g))
                      /\ old(m) \in R /\ old(m) \in S /\ old(m) \in Nat
    OBVIOUS
  <2>1. m - Len(g) \in 1 .. C /\ m = Len(g) + (m - Len(g))
    BY <1>4, <1>7
  <2>2. old(m) \in R
    BY <1>5, <2>1
  <2>3. old(m) \in Nat
    BY <1>5, <2>2, HeapFacts
  <2> QED
    BY <1>6, <2>1, <2>2, <2>3
<1> DEFINE due2 == [m \in Nat |-> IF m \in new THEN due[old(m)] ELSE None]
<1>9. due2 \in [Nat -> Values]
  BY <1>1, <1>8, ValueFacts DEF Kept, Part
<1>10. \A m \in new : m \in Nat /\ due2[m] = due[old(m)]
  BY <1>7
<1>11. Part(c.heap, due2, new)
  <2>1. new \subseteq DOMAIN c.heap
    BY <1>3, <1>7, HeapFacts
  <2> HIDE DEF due2
  <2> QED
    BY <1>3, <1>9, <2>1 DEF Part, Closed
<1> HIDE DEF due2
<1>12. ASSUME NEW m \in new
       PROVE  Due(c.heap, env, due2, m) = Due(g, env, due, old(m))
  <2> DEFINE j == m - Len(g)
             o == old(m)
  <2>1. j \in 1 .. C /\ c.heap[m] = e[j] /\ o = Old(g, n, j)
    BY <1>7, <1>8
  <2>2. /\ c.heap[m].op = g[o].op /\ c.heap[m].val = g[o].val
        /\ DOMAIN c.heap[m].kids = DOMAIN g[o].kids
    BY <1>5, <2>1
  <2>3. ASSUME NEW l \in DOMAIN g[o].kids
        PROVE  due2[c.heap[m].kids[l]] = due[g[o].kids[l]]
    <3> DEFINE x == c.heap[m].kids[l]
    <3>1. StandsFor(g, n, x, g[o].kids[l])
      BY <1>5, <2>1
    <3>2. x - Len(g) \in 1 .. C /\ x = Len(g) + (x - Len(g)) /\ old(x) = g[o].kids[l]
      <4> HIDE DEF x, o
      <4> QED
        BY <3>1 DEF StandsFor, C, R
    <3>3. x - Len(g) \in 1 .. C /\ x = Len(g) + (x - Len(g))
      BY <3>2
    <3> DEFINE i == x - Len(g)
    <3> HIDE DEF i
    <3>4. x = Len(g) + i /\ i \in 1 .. C
      BY <3>3 DEF i
    <3> HIDE DEF x
    <3>5. x \in new
      BY <1>4, <1>7, <3>4
    <3> QED
      BY <1>10, <3>2, <3>5 DEF x
  <2>4. KidValues(c.heap, due2, m) = KidValues(g, due, o)
    BY <2>2, <2>3 DEF KidValues
  <2> HIDE DEF o, j
  <2>5. Evaluated(c.heap[m], KidValues(g, due, o), env, FALSE)
          = Evaluated(g[o], KidValues(g, due, o), env, FALSE)
    BY <2>2, SameClass
  <2> QED
    BY <2>4, <2>5 DEF Due, o
<1>13. \A m \in new : due2[m] \in Errors \/ due2[m] = Due(c.heap, env, due2, m)
  BY <1>1, <1>8, <1>10, <1>12 DEF Kept
<1>14. due2[c.node] = v
  <2>1. c.node - Len(g) = Place(R, n)
    BY <1>2, <1>4, <1>7
  <2> QED
    BY <1>1, <1>3, <1>5, <1>10, <2>1
<1>15. Kept(c.heap, env, due2, new)
  BY <1>11, <1>13 DEF Kept
<1> QED
  BY <1>3, <1>14, <1>15 DEF Means, c

-----------------------------------------------------------------------------
(* A guard means what it guards: if that has a value, the test holds.      *)
Guards == {"insert_null_check", "insert_bounds_check"}

Computed(v, due, env) == Evaluated(v, [j \in DOMAIN v.kids |-> due[v.kids[j]]], env, FALSE)

LEMMA DueComputed ==
  ASSUME NEW g, NEW env, NEW due, NEW m, NEW v, g[m] = v
  PROVE  Due(g, env, due, m) = Computed(v, due, env)
BY DEF Due, Computed, KidValues

LEMMA ComputedNil ==
  ASSUME NEW due, NEW env
  PROVE  Computed(Nil, due, env) = None
BY DEF Computed, Evaluated, Nil, Leaf

LEMMA ComputedConstant ==
  ASSUME NEW due, NEW env, NEW x
  PROVE  Computed(Constant(x), due, env) = IntV(x)
BY DEF Computed, Evaluated, Constant, Leaf

LEMMA ComputedLen ==
  ASSUME NEW due, NEW env, NEW a, due[a] \notin Errors
  PROVE  Computed(Plain("Len", <<a>>), due, env) = Length(due[a])
<1> DEFINE w == [j \in DOMAIN <<a>> |-> due[<<a>>[j]]]
<1>1. w[1] = due[a]
  OBVIOUS
<1>2. Computed(Plain("Len", <<a>>), due, env) = Evaluated([op |-> "Len", val |-> "", kids |-> <<a>>], w, env, FALSE)
  BY DEF Computed, Plain, Node
<1> HIDE DEF w
<1> QED
  BY <1>1, <1>2 DEF Evaluated

LEMMA ComputedAnd ==
  ASSUME NEW due, NEW env, NEW a, NEW b, due[a] \notin Errors
  PROVE  Computed(Plain("And", <<a, b>>), due, env) = IF Truth(due[a]) THEN due[b] ELSE due[a]
<1> DEFINE w == [j \in DOMAIN <<a, b>> |-> due[<<a, b>>[j]]]
<1>1. w[1] = due[a] /\ w[2] = due[b]
  OBVIOUS
<1>2. Computed(Plain("And", <<a, b>>), due, env)
        = Evaluated([op |-> "And", val |-> "", kids |-> <<a, b>>], w, env, FALSE)
  BY DEF Computed, Plain, Node
<1> HIDE DEF w
<1> QED
  BY <1>1, <1>2 DEF Evaluated

LEMMA ComputedCompare ==
  ASSUME NEW due, NEW env, NEW val, NEW a, NEW b, due[a] \notin Errors, due[b] \notin Errors
  PROVE  Computed(Node("Compare", val, <<a, b>>), due, env) = Comparison(val, due[a], due[b])
<1> DEFINE w == [j \in DOMAIN <<a, b>> |-> due[<<a, b>>[j]]]
<1>1. w[1] = due[a] /\ w[2] = due[b]
  OBVIOUS
<1>2. Computed(Node("Compare", val, <<a, b>>), due, env)
        = Evaluated([op |-> "Compare", val |-> val, kids |-> <<a, b>>], w, env, FALSE)
  BY DEF Computed, Node
<1> HIDE DEF w
<1> QED
  BY <1>1, <1>2 DEF Evaluated

LEMMA ComputedChoice ==
  ASSUME NEW due, NEW env, NEW a, NEW b, NEW c, due[a] \notin Errors, Truth(due[a])
  PROVE  Computed(Plain("IfExp", <<a, b, c>>), due, env) = due[b]
<1> DEFINE w == [j \in DOMAIN <<a, b, c>> |-> due[<<a, b, c>>[j]]]
<1>1. w[1] = due[a] /\ w[2] = due[b]
  OBVIOUS
<1>2. Computed(Plain("IfExp", <<a, b, c>>), due, env)
        = Evaluated([op |-> "IfExp", val |-> "", kids |-> <<a, b, c>>], w, env, FALSE)
  BY DEF Computed, Plain, Node
<1> HIDE DEF w
<1> QED
  BY <1>1, <1>2 DEF Evaluated

(* What a visit method has added to the heap.                              *)
Fresh(g) == Len(h) + 1 .. Len(g)

LEMMA GuardKept ==
  ASSUME h \in Heaps, NEW n \in DOMAIN h, NEW r, Fits(r, n), r.heap[n] = h[n],
         NEW env, NEW due, NEW S, Kept(h, env, due, S), n \in S,
         NEW due2 \in [Nat -> Values], \A m \in DOMAIN h : due2[m] = due[m],
         \A m \in Fresh(r.heap) : due2[m] \in Errors \/ due2[m] = Due(r.heap, env, due2, m)
  PROVE  Kept(r.heap, env, due2, S \cup Fresh(r.heap))
<1> DEFINE g == r.heap
           new == Fresh(g)
<1>1. /\ g \in Heaps /\ Len(g) >= Len(h)
      /\ \A m \in DOMAIN h : g[m] = h[m]
      /\ \A m \in {n} \cup new : Kids(g, m) \subseteq {n} \cup Kids(h, n) \cup new
  BY DEF Fits, Fresh
<1>2. /\ DOMAIN h = 1 .. Len(h) /\ DOMAIN g = 1 .. Len(g) /\ Len(h) \in Nat /\ Len(g) \in Nat
      /\ \A m \in DOMAIN h : Kids(h, m) \subseteq DOMAIN h
  BY <1>1, HeapFacts
<1>3. S \subseteq DOMAIN h /\ Closed(h, S) /\ \A m \in S : due[m] \in Errors \/ due[m] = Due(h, env, due, m)
  BY DEF Kept, Part
<1> HIDE DEF g
<1>4. \A m \in S : Kids(g, m) = Kids(h, m)
  BY <1>1, <1>3 DEF Kids
<1>5. \A m \in S : Due(g, env, due2, m) = Due(h, env, due, m)
  <2> SUFFICES ASSUME NEW m \in S PROVE Due(g, env, due2, m) = Due(h, env, due, m)
    OBVIOUS
  <2>1. g[m] = h[m] /\ \A c \in Kids(h, m) : due2[c] = due[c]
    BY <1>1, <1>2, <1>3
  <2>2. KidValues(h, due2, m) = KidValues(h, due, m)
    BY <1>3, <2>1, KidValuesSame
  <2>3. KidValues(g, due2, m) = KidValues(h, due2, m)
    BY <2>1 DEF KidValues
  <2> QED
    BY <2>1, <2>2, <2>3 DEF Due
<1>6. Closed(g, S \cup new)
  <2>1. Kids(h, n) \subseteq S
    BY <1>3 DEF Closed
  <2>2. \A m \in S : Kids(g, m) \subseteq S
    BY <1>3, <1>4 DEF Closed
  <2> QED
    BY <1>1, <2>1, <2>2 DEF Closed
<1>7. S \cup new \subseteq DOMAIN g
  BY <1>1, <1>2, <1>3 DEF Fresh
<1>8. \A m \in S : due2[m] = due[m]
  BY <1>3
<1>9. \A m \in S \cup new : due2[m] \in Errors \/ due2[m] = Due(g, env, due2, m)
  BY <1>3, <1>5, <1>8 DEF g
<1> QED
  BY <1>6, <1>7, <1>9 DEF Kept, Part, g

(* What a guard has to keep.                                               *)
Keeps(r, n, env, due, S) ==
  /\ \A m \in DOMAIN h : r.heap[m] = h[m]
  /\ \E due2 : /\ Kept(r.heap, env, due2, S \cup Fresh(r.heap))
               /\ \A m \in DOMAIN h : due2[m] = due[m]
               /\ due2[r.node] = due[n]

(* Behind an exception nothing is due.                                     *)
LEMMA ErrorKept ==
  ASSUME h \in Heaps, NEW n \in DOMAIN h, NEW r, Fits(r, n), r.heap[n] = h[n],
         NEW env, NEW due, NEW S, Kept(h, env, due, S), n \in S, due[n] \in Errors
  PROVE  Keeps(r, n, env, due, S)
<1> DEFINE due2 == [m \in Nat |-> IF m \in Fresh(r.heap) THEN due[n] ELSE due[m]]
<1>1. /\ DOMAIN h = 1 .. Len(h) /\ Len(h) \in Nat /\ r.heap \in Heaps
      /\ r.node \in {n} \cup Fresh(r.heap)
      /\ \A m \in DOMAIN h : r.heap[m] = h[m]
  BY HeapFacts DEF Fits, Fresh
<1>2. due \in [Nat -> Values] /\ n \in Nat
  BY <1>1 DEF Kept, Part
<1>3. due2 \in [Nat -> Values]
  BY <1>2
<1>a. Len(r.heap) \in Nat
  BY <1>1, HeapFacts
<1>4. /\ \A m \in DOMAIN h : due2[m] = due[m]
      /\ \A m \in Fresh(r.heap) : due2[m] = due[n]
  BY <1>1, <1>a DEF Fresh
<1> HIDE DEF due2
<1>5. \A m \in Fresh(r.heap) : due2[m] \in Errors \/ due2[m] = Due(r.heap, env, due2, m)
  BY <1>4
<1>6. Kept(r.heap, env, due2, S \cup Fresh(r.heap))
  BY <1>3, <1>4, <1>5, GuardKept
<1> QED
  BY <1>1, <1>4, <1>6 DEF Keeps

(* Otherwise it is enough to name what the nodes of the guard compute.     *)
Extended(r, due, v) == [m \in Nat |-> IF m \in Fresh(r.heap) THEN v[m - Len(h)] ELSE due[m]]

Adds(r, e, env, due, v) ==
  /\ e \in Seq(Nodes) /\ Len(e) >= 1 /\ r = [heap |-> h \o e, node |-> Len(h) + Len(e)]
  /\ v \in [1 .. Len(e) -> Values]
  /\ \A j \in 1 .. Len(e) : v[j] = Computed(e[j], Extended(r, due, v), env)

LEMMA AddedKept ==
  ASSUME h \in Heaps, NEW n \in DOMAIN h, NEW r, Fits(r, n),
         NEW env, NEW due, NEW S, Kept(h, env, due, S), n \in S,
         NEW e, NEW v, Adds(r, e, env, due, v), v[Len(e)] = due[n]
  PROVE  Keeps(r, n, env, due, S)
<1> DEFINE due2 == Extended(r, due, v)
<1>a. /\ e \in Seq(Nodes) /\ Len(e) >= 1 /\ r = [heap |-> h \o e, node |-> Len(h) + Len(e)]
      /\ v \in [1 .. Len(e) -> Values]
      /\ \A j \in 1 .. Len(e) : v[j] = Computed(e[j], due2, env)
  BY DEF Adds
<1>b. due2 = [m \in Nat |-> IF m \in Fresh(r.heap) THEN v[m - Len(h)] ELSE due[m]]
  BY DEF Extended
<1> HIDE DEF due2
<1> DEFINE L == Len(h)
           E == Len(e)
           g == h \o e
<1>1. /\ DOMAIN h = 1 .. L /\ L \in Nat /\ E \in Nat /\ DOMAIN e = 1 .. E /\ h \in Seq(Nodes)
  BY <1>a, HeapFacts
<1>2. r.heap = g /\ r.node = L + E
  BY <1>a
<1>3. /\ Len(g) = L + E /\ \A m \in DOMAIN h : g[m] = h[m]
      /\ \A j \in DOMAIN e : g[L + j] = e[j]
  BY <1>1, <1>a, Concat
<1> HIDE DEF g, L, E
<1>4. Fresh(r.heap) = L + 1 .. L + E
  BY <1>2, <1>3 DEF Fresh, L
<1>5. \A m \in L + 1 .. L + E : /\ m - L \in 1 .. E /\ m = L + (m - L) /\ m \in Nat
                                /\ m \notin DOMAIN h
  BY <1>1
<1>6. /\ \A m \in DOMAIN h : due2[m] = due[m]
      /\ \A m \in L + 1 .. L + E : due2[m] = v[m - L]
  BY <1>b, <1>1, <1>4, <1>5 DEF L
<1>7. due2 \in [Nat -> Values]
  <2>1. due \in [Nat -> Values]
    BY DEF Kept, Part
  <2> QED
    BY <1>a, <1>b, <1>4, <1>5, <2>1 DEF L, E
<1>8. ASSUME NEW m \in Fresh(r.heap)
      PROVE  due2[m] = Due(r.heap, env, due2, m)
  <2>1. m - L \in 1 .. E /\ g[m] = e[m - L]
    BY <1>1, <1>3, <1>4, <1>5
  <2>2. Due(g, env, due2, m) = Computed(e[m - L], due2, env)
    BY <2>1, DueComputed
  <2>3. v[m - L] = Computed(e[m - L], due2, env)
    BY <1>a, <2>1 DEF E
  <2> QED
    BY <1>2, <1>4, <1>6, <2>2, <2>3
<1>9. due2[r.node] = due[n]
  <2>1. L + E \in L + 1 .. L + E /\ (L + E) - L = E
    BY <1>a, <1>1 DEF E
  <2> QED
    BY <1>2, <1>6, <2>1 DEF E
<1>10. Kept(r.heap, env, due2, S \cup Fresh(r.heap))
  <2>1. r.heap[n] = h[n]
    BY <1>2, <1>3
  <2> QED
    BY <1>6, <1>7, <1>8, <2>1, GuardKept
<1> QED
  BY <1>2, <1>3, <1>6, <1>9, <1>10 DEF Keeps

(* A node with children, and what they are due.                            *)
LEMMA OperandFacts ==
  ASSUME h \in Heaps, NEW n \in DOMAIN h, h[n].op \in {"Attribute", "Subscript"},
         NEW env, NEW due, NEW S, Kept(h, env, due, S), n \in S, due[n] \notin Errors
  PROVE  LET a == h[n].kids[1]
             b == h[n].kids[2]
         IN  /\ a \in DOMAIN h /\ due[a] \in Values /\ due[a] # None /\ due[a] \notin Errors
             /\ h[n].op = "Subscript" =>
                  /\ b \in DOMAIN h /\ due[b] \in Values /\ due[b] \notin Errors
                  /\ due[a][1] = "list" /\ due[b][1] = "int" /\ due[b][2] \in 0 .. due[a][2] - 1
<1> DEFINE a == h[n].kids[1]
           b == h[n].kids[2]
           w == KidValues(h, due, n)
<1>1. /\ h[n] \in Nodes /\ h[n].kids \in Seq(DOMAIN h) /\ DOMAIN h \subseteq Nat
      /\ \A j \in DOMAIN h[n].kids : h[n].kids[j] \in DOMAIN h
  BY HeapFacts
<1>2. 1 \in DOMAIN h[n].kids /\ (h[n].op = "Subscript" => 2 \in DOMAIN h[n].kids)
  BY <1>1, ClassFacts DEF Nodes, WellFormed
<1>3. due \in [Nat -> Values] /\ due[n] = Evaluated(h[n], w, env, FALSE)
  BY DEF Kept, Part, Due
<1>4. w[1] = due[a] /\ (h[n].op = "Subscript" => w[2] = due[b])
  BY <1>2 DEF KidValues
<1> HIDE DEF w
<1>5. a \in DOMAIN h /\ due[a] \in Values
  BY <1>1, <1>2, <1>3
<1>6. h[n].op = "Subscript" => b \in DOMAIN h /\ due[b] \in Values
  BY <1>1, <1>2, <1>3
<1>7. due[a] \notin Errors
  BY <1>3, <1>4 DEF Evaluated
<1>8. CASE h[n].op = "Attribute"
  <2>1. due[n] = Attribute(due[a])
    BY <1>3, <1>4, <1>7, <1>8 DEF Evaluated
  <2>2. due[a] # None
    BY <2>1 DEF Attribute, Errors
  <2> QED
    BY <1>5, <1>7, <1>8, <2>2
<1>9. CASE h[n].op = "Subscript"
  <2>1. due[b] \notin Errors
    BY <1>3, <1>4, <1>7, <1>9 DEF Evaluated
  <2>2. due[n] = Item(due[a], due[b], FALSE)
    BY <1>3, <1>4, <1>7, <1>9, <2>1 DEF Evaluated
  <2>3. due[a] # None
    <3>1. due[a] = None => Item(due[a], due[b], FALSE) = NoneError
      BY DEF Item
    <3> QED
      BY <2>2, <3>1 DEF Errors
  <2>4. due[a][1] = "list" /\ due[b][1] = "int" /\ due[b][2] \in 0 .. due[a][2] - 1
    <3> DEFINE x == due[a]
               y == due[b]
    <3>1. x \in Values /\ y \in Values /\ Item(x, y, FALSE) \notin Errors
      BY <1>5, <1>6, <1>9, <2>2
    <3> HIDE DEF x, y
    <3>2. x[1] = "list" /\ y[1] = "int" /\ y[2] \in 0 .. x[2] - 1
      BY <3>1, ItemValue
    <3> QED
      BY <3>2 DEF x, y
  <2> QED
    BY <1>5, <1>6, <1>7, <1>9, <2>1, <2>3, <2>4
<1> QED
  BY <1>8, <1>9

LEMMA TruthFacts ==
  /\ Bool(TRUE) = IntV(1) /\ Truth(IntV(1)) /\ IntV(1) \notin Errors /\ IntV(0) \notin Errors
  /\ IntV(1) \in Values /\ IntV(0) \in Values
BY ValueFacts DEF Bool, Truth, IntV

LEMMA ComparisonFacts ==
  /\ \A v : v # None => Comparison("IsNot", v, None) = IntV(1)
  /\ \A x, y \in Int : /\ x > y => Comparison("Gt", IntV(x), IntV(y)) = IntV(1)
                       /\ x >= y => Comparison("GtE", IntV(x), IntV(y)) = IntV(1)
BY DEF Comparison, Bool, IntV

LEMMA NullGuardKeeps ==
  ASSUME h \in Heaps, NEW n \in DOMAIN h, h[n].op \in {"Attribute", "Subscript"},
         NEW r \in NullGuard(n), Fits(r, n),
         NEW env, NEW due, NEW S, Kept(h, env, due, S), n \in S, due[n] \notin Errors
  PROVE  Keeps(r, n, env, due, S)
<1> DEFINE L == Len(h)
           a == h[n].kids[1]
           e == <<Nil, Node("Compare", "IsNot", <<a, L + 1>>),
                  Constant(0), Plain("IfExp", <<L + 2, n, L + 3>>)>>
           v == <<None, IntV(1), IntV(0), due[n]>>
           due2 == Extended(r, due, v)
<1>1. /\ L \in Nat /\ DOMAIN h = 1 .. L /\ n \in Nat /\ due \in [Nat -> Values] /\ h \in Seq(Nodes)
  BY HeapFacts DEF Kept, Part
<1>2. a \in DOMAIN h /\ due[a] # None /\ due[a] \notin Errors
  BY OperandFacts
<1> HIDE DEF L, a
<1>3. r = [heap |-> h \o e, node |-> L + 4]
  BY DEF NullGuard, Result, Added, New, L, a
<1>4. /\ e \in Seq(Nodes) /\ Len(e) = 4 /\ DOMAIN e = 1 .. 4
      /\ e[1] = Nil /\ e[2] = Node("Compare", "IsNot", <<a, L + 1>>)
      /\ e[3] = Constant(0) /\ e[4] = Plain("IfExp", <<L + 2, n, L + 3>>)
  <2>1. /\ Nil \in Nodes /\ Node("Compare", "IsNot", <<a, L + 1>>) \in Nodes
        /\ Constant(0) \in Nodes /\ Plain("IfExp", <<L + 2, n, L + 3>>) \in Nodes
    BY <1>1, <1>2, ClassFacts, NilNode, CompareNode, ConstantNode, IfExpNode
  <2> QED
    BY <2>1
<1>5. /\ v \in [1 .. 4 -> Values] /\ v[1] = None /\ v[2] = IntV(1) /\ v[3] = IntV(0) /\ v[4] = due[n]
  BY <1>1, ValueFacts
<1> HIDE DEF e, v
<1>6. Fits(r, n)
  OBVIOUS
<1>7. Fresh(r.heap) = L + 1 .. L + 4
  <2>1. Len(h \o e) = Len(h) + Len(e)
    <3>1. h \in Seq(Nodes) /\ e \in Seq(Nodes)
      BY <1>1, <1>4
    <3> QED
      BY <3>1, Concat
  <2> QED
    BY <1>3, <1>4, <2>1 DEF Fresh, L
<1>8. /\ due2[L + 1] = None /\ due2[L + 2] = IntV(1) /\ due2[L + 3] = IntV(0)
      /\ due2[n] = due[n] /\ due2[a] = due[a]
  BY <1>1, <1>2, <1>5, <1>7 DEF Extended, L
<1> HIDE DEF due2
<1>9. Computed(e[1], due2, env) = v[1] /\ Computed(e[3], due2, env) = v[3]
  BY <1>4, <1>5, ComputedNil, ComputedConstant
<1>10. Computed(e[2], due2, env) = v[2]
  <2>1. Computed(e[2], due2, env) = Comparison("IsNot", due[a], None)
    BY <1>2, <1>4, <1>8, ComputedCompare, ValueFacts
  <2> QED
    BY <1>2, <1>5, <2>1, ComparisonFacts
<1>11. Computed(e[4], due2, env) = v[4]
  BY <1>4, <1>5, <1>8, ComputedChoice, TruthFacts
<1>12. \A j \in 1 .. Len(e) : v[j] = Computed(e[j], due2, env)
  BY <1>4, <1>9, <1>10, <1>11
<1>13. Adds(r, e, env, due, v)
  BY <1>3, <1>4, <1>5, <1>12 DEF Adds, due2, L
<1>14. v[Len(e)] = due[n]
  BY <1>4, <1>5
<1> QED
  BY <1>6, <1>13, <1>14, AddedKept

LEMMA BoundsGuardKeeps ==
  ASSUME h \in Heaps, NEW n \in DOMAIN h, h[n].op = "Subscript",
         NEW r \in BoundsGuard(n), Fits(r, n),
         NEW env, NEW due, NEW S, Kept(h, env, due, S), n \in S, due[n] \notin Errors
  PROVE  Keeps(r, n, env, due, S)
<1> DEFINE L == Len(h)
           a == h[n].kids[1]
           b == h[n].kids[2]
           e == <<Plain("Len", <<a>>), Node("Compare", "Gt", <<L + 1, b>>),
                  Constant(0), Node("Compare", "GtE", <<b, L + 3>>),
                  Plain("And", <<L + 2, L + 4>>), Constant(0),
                  Plain("IfExp", <<L + 5, n, L + 6>>)>>
           length == due[a][2]
           at == due[b][2]
           v == <<IntV(length), IntV(1), IntV(0), IntV(1), IntV(1), IntV(0), due[n]>>
           due2 == Extended(r, due, v)
<1>1. /\ L \in Nat /\ DOMAIN h = 1 .. L /\ n \in Nat /\ due \in [Nat -> Values] /\ h \in Seq(Nodes)
  BY HeapFacts DEF Kept, Part
<1>2. /\ a \in DOMAIN h /\ due[a] # None /\ due[a] \notin Errors /\ due[a][1] = "list"
      /\ b \in DOMAIN h /\ due[b] \notin Errors
      /\ due[b] = IntV(at) /\ length \in Int /\ at \in Int /\ at >= 0 /\ length > at
  <2>1. /\ a \in DOMAIN h /\ due[a] # None /\ due[a] \notin Errors /\ due[a][1] = "list"
        /\ b \in DOMAIN h /\ due[b] \notin Errors /\ due[b][1] = "int" /\ at \in 0 .. length - 1
        /\ due[a] \in Values /\ due[b] \in Values
    BY OperandFacts
  <2>2. length \in Int /\ at \in Int /\ due[b] = <<due[b][1], at>>
    BY <2>1 DEF Values
  <2> QED
    BY <2>1, <2>2 DEF IntV
<1>3. Length(due[a]) = IntV(length)
  BY <1>2 DEF Length
<1> HIDE DEF L, a, b, length, at
<1>4. r = [heap |-> h \o e, node |-> L + 7]
  BY DEF BoundsGuard, Result, Added, New, L, a, b
<1>5. /\ e \in Seq(Nodes) /\ Len(e) = 7 /\ DOMAIN e = 1 .. 7
      /\ e[1] = Plain("Len", <<a>>) /\ e[2] = Node("Compare", "Gt", <<L + 1, b>>)
      /\ e[3] = Constant(0) /\ e[4] = Node("Compare", "GtE", <<b, L + 3>>)
      /\ e[5] = Plain("And", <<L + 2, L + 4>>) /\ e[6] = Constant(0)
      /\ e[7] = Plain("IfExp", <<L + 5, n, L + 6>>)
  <2>1. /\ Plain("Len", <<a>>) \in Nodes /\ Constant(0) \in Nodes
        /\ Node("Compare", "Gt", <<L + 1, b>>) \in Nodes
        /\ Node("Compare", "GtE", <<b, L + 3>>) \in Nodes
    BY <1>1, <1>2, ClassFacts, OneKid, CompareNode, ConstantNode
  <2>2. Plain("And", <<L + 2, L + 4>>) \in Nodes /\ Plain("IfExp", <<L + 5, n, L + 6>>) \in Nodes
    <3>1. L + 2 \in Nat /\ L + 4 \in Nat /\ L + 5 \in Nat /\ L + 6 \in Nat
      BY <1>1
    <3>2. Plain("And", <<L + 2, L + 4>>) \in Nodes
      BY <3>1, TwoKids
    <3>3. Plain("IfExp", <<L + 5, n, L + 6>>) \in Nodes
      BY <1>1, <3>1, IfExpNode
    <3> QED
      BY <3>2, <3>3
  <2> QED
    BY <2>1, <2>2
<1>6. /\ v \in [1 .. 7 -> Values] /\ v[1] = IntV(length) /\ v[2] = IntV(1) /\ v[3] = IntV(0)
      /\ v[4] = IntV(1) /\ v[5] = IntV(1) /\ v[6] = IntV(0) /\ v[7] = due[n]
  BY <1>1, <1>2, ValueFacts
<1> HIDE DEF e, v
<1>7. Fits(r, n)
  OBVIOUS
<1>8. Fresh(r.heap) = L + 1 .. L + 7
  <2>1. Len(h \o e) = Len(h) + Len(e)
    <3>1. h \in Seq(Nodes) /\ e \in Seq(Nodes)
      BY <1>1, <1>5
    <3> QED
      BY <3>1, Concat
  <2> QED
    BY <1>4, <1>5, <2>1 DEF Fresh, L
<1>9. /\ due2[L + 1] = IntV(length) /\ due2[L + 2] = IntV(1) /\ due2[L + 3] = IntV(0)
      /\ due2[L + 4] = IntV(1) /\ due2[L + 5] = IntV(1) /\ due2[L + 6] = IntV(0)
      /\ due2[n] = due[n] /\ due2[a] = due[a] /\ due2[b] = due[b]
  BY <1>1, <1>2, <1>6, <1>8 DEF Extended, L
<1> HIDE DEF due2
<1>10. Computed(e[3], due2, env) = v[3] /\ Computed(e[6], due2, env) = v[6]
  BY <1>5, <1>6, ComputedConstant
<1>11. Computed(e[1], due2, env) = v[1]
  BY <1>2, <1>3, <1>5, <1>6, <1>9, ComputedLen
<1>12. IntV(length) \notin Errors
  BY <1>2, ValueFacts
<1>13. Computed(e[2], due2, env) = v[2]
  <2>1. Computed(e[2], due2, env) = Comparison("Gt", IntV(length), IntV(at))
    BY <1>2, <1>5, <1>9, <1>12, ComputedCompare
  <2> QED
    BY <1>2, <1>6, <2>1, ComparisonFacts
<1>14. Computed(e[4], due2, env) = v[4]
  <2>1. Computed(e[4], due2, env) = Comparison("GtE", IntV(at), IntV(0))
    BY <1>2, <1>5, <1>9, ComputedCompare, TruthFacts
  <2> QED
    BY <1>2, <1>6, <2>1, ComparisonFacts
<1>15. Computed(e[5], due2, env) = v[5]
  BY <1>5, <1>6, <1>9, ComputedAnd, TruthFacts
<1>16. Computed(e[7], due2, env) = v[7]
  BY <1>5, <1>6, <1>9, ComputedChoice, TruthFacts
<1>17. \A j \in 1 .. Len(e) : v[j] = Computed(e[j], due2, env)
  BY <1>5, <1>10, <1>11, <1>13, <1>14, <1>15, <1>16
<1>18. Adds(r, e, env, due, v)
  BY <1>4, <1>5, <1>6, <1>17 DEF Adds, due2, L
<1>19. v[Len(e)] = due[n]
  BY <1>5, <1>6
<1> QED
  BY <1>7, <1>18, <1>19, AddedKept

LEMMA AddedSame ==
  ASSUME NEW g \in Seq(Nodes), NEW n \in DOMAIN g, NEW e
  PROVE  (g \o e)[n] = g[n]
OBVIOUS

LEMMA NothingKept ==
  ASSUME h \in Heaps, NEW n \in DOMAIN h, NEW env, NEW due, NEW S, Kept(h, env, due, S)
  PROVE  Keeps([heap |-> h, node |-> n], n, env, due, S)
<1>1. Fresh(h) = {}
  BY HeapFacts DEF Fresh
<1> QED
  BY <1>1 DEF Keeps

LEMMA GuardKeeps ==
  ASSUME h \in Heaps, NEW n \in DOMAIN h, NEW op \in Guards, NEW r \in Visited(op, n),
         NEW env, NEW due, NEW S, Kept(h, env, due, S), n \in S
  PROVE  Keeps(r, n, env, due, S)
<1>0. op \in {"insert_null_check", "insert_bounds_check"}
  BY DEF Guards
<1>f. Fits(r, n)
  BY VisitedFits
<1>1. CASE op = "insert_null_check" /\ h[n].op \in {"Attribute", "Subscript"}
  <2>1. r \in NullGuard(n)
    BY <1>1 DEF Visited
  <2>3. r.heap[n] = h[n]
    <3>1. \E e, x : NullGuard(n) = {[heap |-> h \o e, node |-> x]}
      BY Zenon DEF NullGuard, Result, Added
    <3>3. PICK e : r.heap = h \o e
      BY <2>1, <3>1
    <3>2. h \in Seq(Nodes)
      BY HeapFacts
    <3> QED
      BY <3>2, <3>3, AddedSame
  <2>4. CASE due[n] \in Errors
    BY <1>f, <2>3, <2>4, ErrorKept
  <2> QED
    BY <1>1, <1>f, <2>1, <2>4, NullGuardKeeps
<1>2. CASE op = "insert_bounds_check" /\ h[n].op = "Subscript"
  <2>1. r \in BoundsGuard(n)
    BY <1>2 DEF Visited
  <2>3. r.heap[n] = h[n]
    <3>1. \E e, x : BoundsGuard(n) = {[heap |-> h \o e, node |-> x]}
      BY Zenon DEF BoundsGuard, Result, Added
    <3>3. PICK e : r.heap = h \o e
      BY <2>1, <3>1
    <3>2. h \in Seq(Nodes)
      BY HeapFacts
    <3> QED
      BY <3>2, <3>3, AddedSame
  <2>4. CASE due[n] \in Errors
    BY <1>f, <2>3, <2>4, ErrorKept
  <2> QED
    BY <1>2, <1>f, <2>1, <2>4, BoundsGuardKeeps
<1>3. CASE /\ ~(op = "insert_null_check" /\ h[n].op \in {"Attribute", "Subscript"})
           /\ ~(op = "insert_bounds_check" /\ h[n].op = "Subscript")
  <2>1. r = [heap |-> h, node |-> n]
    BY <1>0, <1>3 DEF Visited, Result
  <2> QED
    BY <2>1, NothingKept
<1> QED
  BY <1>1, <1>2, <1>3

-----------------------------------------------------------------------------
(* A child may give way to another one that is due the same.               *)
Put(g, p, i, x) == [g EXCEPT ![p].kids[i] = x]

LEMMA RelinkKept ==
  ASSUME NEW g \in Heaps, NEW p \in DOMAIN g, NEW i \in DOMAIN g[p].kids, NEW x \in DOMAIN g,
         NEW env, NEW due, NEW S, Kept(g, env, due, S), x \in S, due[x] = due[g[p].kids[i]]
  PROVE  /\ Kept(Put(g, p, i, x), env, due, S)
         /\ \A m \in DOMAIN g :
              /\ DOMAIN Put(g, p, i, x)[m].kids = DOMAIN g[m].kids
              /\ \A j \in DOMAIN g[m].kids : due[Put(g, p, i, x)[m].kids[j]] = due[g[m].kids[j]]
<1> DEFINE g2 == [g EXCEPT ![p].kids[i] = x]
           ks == [g[p].kids EXCEPT ![i] = x]
<1>1. /\ g \in Seq(Nodes) /\ DOMAIN g = 1 .. Len(g) /\ Len(g) \in Nat /\ g[p] \in Nodes
      /\ g[p].kids \in Seq(DOMAIN g)
  BY HeapFacts
<1>a. i \in Nat
  BY <1>1
<1>2. /\ g2 \in Heaps /\ Len(g2) = Len(g)
      /\ \A m \in DOMAIN g : m # p => g2[m] = g[m]
      /\ \A m \in DOMAIN g : Len(g2[m].kids) = Len(g[m].kids)
      /\ \A m \in DOMAIN g : m # p => Kids(g2, m) = Kids(g, m)
      /\ Kids(g2, p) \subseteq Kids(g, p) \cup {x}
  BY <1>a, Relink, Zenon
<1>4. g2[p] = [g[p] EXCEPT !.kids = ks]
  BY <1>1
<1> HIDE DEF g2
<1>3. DOMAIN g2 = DOMAIN g
  BY <1>1, <1>2, HeapFacts
<1>5. g2[p].op = g[p].op /\ g2[p].val = g[p].val /\ g2[p].kids = ks
  <2> HIDE DEF ks
  <2> QED
    BY <1>1, <1>4 DEF Nodes
<1>6. /\ DOMAIN ks = DOMAIN g[p].kids
      /\ \A j \in DOMAIN g[p].kids : ks[j] = IF j = i THEN x ELSE g[p].kids[j]
  BY <1>1
<1> HIDE DEF ks
<1>7. ASSUME NEW m \in DOMAIN g
      PROVE  /\ g2[m].op = g[m].op /\ g2[m].val = g[m].val
             /\ DOMAIN g2[m].kids = DOMAIN g[m].kids
             /\ \A j \in DOMAIN g[m].kids : due[g2[m].kids[j]] = due[g[m].kids[j]]
  <2>1. CASE m = p
    BY <1>5, <1>6, <2>1
  <2>2. CASE m # p
    BY <1>2, <2>2
  <2> QED
    BY <2>1, <2>2
<1>8. S \subseteq DOMAIN g /\ Closed(g, S) /\ due \in [Nat -> Values]
      /\ \A m \in S : due[m] \in Errors \/ due[m] = Due(g, env, due, m)
  BY DEF Kept, Part
<1>9. Closed(g2, S)
  <2> SUFFICES ASSUME NEW m \in S PROVE Kids(g2, m) \subseteq S
    BY DEF Closed
  <2>1. Kids(g, m) \subseteq S /\ m \in DOMAIN g
    BY <1>8 DEF Closed
  <2> QED
    BY <1>2, <2>1
<1>10. ASSUME NEW m \in S
       PROVE  Due(g2, env, due, m) = Due(g, env, due, m)
  <2>1. m \in DOMAIN g
    BY <1>8
  <2>2. KidValues(g2, due, m) = KidValues(g, due, m)
    BY <1>7, <2>1 DEF KidValues
  <2> DEFINE kid == KidValues(g, due, m)
             y   == g[m]
             z   == g2[m]
  <2>3. y.op = z.op /\ y.val = z.val
    BY <1>7, <2>1
  <2> HIDE DEF kid, y, z
  <2>4. Evaluated(y, kid, env, FALSE) = Evaluated(z, kid, env, FALSE)
    BY <2>3, SameClass
  <2> QED
    BY <2>2, <2>4 DEF Due, kid, y, z
<1> QED
  BY <1>3, <1>7, <1>8, <1>9, <1>10 DEF Kept, Part, g2, Put

-----------------------------------------------------------------------------
(* What is meant while the population is generated, by a source that       *)
(* returns v for the arguments in env: the candidates that have only       *)
(* guards mean it, and so does the tree under way.                         *)
OnlyGuards(s) == Range(s) \subseteq Guards

Walked(env, due, S) ==
  /\ Kept(h, env, due, S)
  /\ \A i \in DOMAIN stack : stack[i].node \in S
  /\ \A i \in 1 .. Len(stack) - 1 :
       due[stack[i + 1].node] = due[h[stack[i].node].kids[stack[i].kid]]

Walking(env, v) == \E due, S : Walked(env, due, S) /\ due[stack[1].node] = v

MeansInv(env, v) ==
  /\ Returns(h, original, env, v)
  /\ \A i \in DOMAIN population :
       OnlyGuards(population[i].ops) => Means(h, population[i].root, env, v)
  /\ OnlyGuards(ops) /\ pc = "mutate" => Means(h, candidate, env, v)
  /\ OnlyGuards(ops) /\ pc = "visit" => Walking(env, v)

(* What a step does to the heap up to a border.                            *)
LEMMA DoneStays ==
  ASSUME WalkInv, [Next]_vars, NEW base \in Nat, Apart(base)
  PROVE  /\ Closed(h, 1 .. base) /\ 1 .. base \subseteq DOMAIN h'
         /\ \A m \in 1 .. base : h'[m] = h[m]
         /\ original \in 1 .. base /\ candidate \in 1 .. base
<1>1. h \in Heaps /\ original \in DOMAIN h /\ candidate \in DOMAIN h
  BY DEF WalkInv, WalkType
<1>2. DOMAIN h = 1 .. Len(h) /\ Len(h) \in Nat
  BY <1>1, HeapFacts
<1>3. 1 .. base \subseteq DOMAIN h /\ original \in 1 .. base /\ candidate \in 1 .. base
  BY <1>1, <1>2 DEF Apart
<1>4. Closed(h, 1 .. base)
  BY DEF Closed, Apart
<1>5. DOMAIN h \subseteq DOMAIN h' /\ \A m \in 1 .. base : h'[m] = h[m]
  <2>1. CASE Sample
    BY <1>3, <2>1, SampleInv
  <2>2. CASE Mutate
    BY <1>3, <2>2, MutateInv
  <2>3. CASE Visit
    BY <2>3, VisitInv
  <2>4. CASE Leave
    BY <2>4, LeaveInv
  <2>5. CASE Collect
    BY <2>5, CollectInv
  <2>6. CASE UNCHANGED vars
    BY <2>6 DEF vars
  <2> QED
    BY <2>1, <2>2, <2>3, <2>4, <2>5, <2>6 DEF Next
<1> QED
  BY <1>3, <1>4, <1>5

LEMMA DoneMeans ==
  ASSUME WalkInv, [Next]_vars, NEW env, NEW v, MeansInv(env, v)
  PROVE  /\ Returns(h', original, env, v)
         /\ \A i \in DOMAIN population :
              OnlyGuards(population[i].ops) => Means(h', population[i].root, env, v)
<1>1. PICK base \in Nat : Apart(base)
  BY DEF WalkInv
<1> DEFINE B == 1 .. base
<1>2. /\ Closed(h, B) /\ B \subseteq DOMAIN h' /\ \A m \in B : h'[m] = h[m]
      /\ original \in B
  BY <1>1, DoneStays
<1> HIDE DEF B
<1>3. Returns(h', original, env, v)
  BY <1>2, MeaningStays DEF MeansInv
<1>4. ASSUME NEW i \in DOMAIN population, OnlyGuards(population[i].ops)
      PROVE  Means(h', population[i].root, env, v)
  <2>1. population[i].root \in B /\ Means(h, population[i].root, env, v)
    BY <1>1, <1>4 DEF MeansInv, Apart, B
  <2> QED
    BY <1>2, <2>1, MeaningStays
<1> QED
  BY <1>3, <1>4

LEMMA SampleMeans ==
  ASSUME WalkInv, Sample, NEW env, NEW v, MeansInv(env, v)
  PROVE  Means(h', candidate', env, v)
<1>1. h \in Heaps /\ original \in DOMAIN h
  BY DEF WalkInv, WalkType
<1>2. Means(h, original, env, v)
  BY ReturnsMeans DEF MeansInv
<1> QED
  BY <1>1, <1>2, CopyMeans DEF Sample, Copied

LEMMA MutateMeans ==
  ASSUME WalkInv, Mutate, NEW env, NEW v, Means(h, candidate, env, v)
  PROVE  Walking(env, v)'
<1>1. h \in Heaps /\ candidate \in DOMAIN h
  BY DEF WalkInv, WalkType
<1> DEFINE root == DeepCopy(h, candidate).node
<1>2. h' = DeepCopy(h, candidate).heap /\ stack' = <<[node |-> root, kid |-> 1]>>
  BY DEF Mutate, Copied
<1>3. Means(h', root, env, v)
  BY <1>1, <1>2, CopyMeans
<1> HIDE DEF root
<1>4. PICK due, S : Kept(h', env, due, S) /\ root \in S /\ due[root] = v
  BY <1>3 DEF Means
<1>5. DOMAIN stack' = {1} /\ stack'[1].node = root /\ 1 .. Len(stack') - 1 = {}
  BY <1>2
<1>6. Walked(env, due, S)'
  BY <1>4, <1>5 DEF Walked
<1> QED
  BY <1>4, <1>5, <1>6 DEF Walking

LEMMA CollectMeans ==
  ASSUME WalkInv, Collect, NEW env, NEW v, MeansInv(env, v)
  PROVE  MeansInv(env, v)'
<1>1. /\ pc = "mutate" /\ pc' = "sample"
      /\ population' = Append(population, [root |-> candidate, ops |-> ops])
      /\ UNCHANGED <<h, original, size, candidate, ops, k, stack>>
  BY DEF Collect
<1>2. population \in Seq(Candidates)
  BY DEF WalkInv, WalkType
<1> DEFINE c == [root |-> candidate, ops |-> ops]
<1>3. \A i \in DOMAIN population' :
        (i \in DOMAIN population /\ population'[i] = population[i]) \/ population'[i] = c
  BY <1>1, <1>2
<1>4. c.root = candidate /\ c.ops = ops
  OBVIOUS
<1> HIDE DEF c
<1>5. ASSUME NEW i \in DOMAIN population', OnlyGuards(population'[i].ops)
      PROVE  Means(h, population'[i].root, env, v)
  <2>1. CASE population'[i] = c
    BY <1>1, <1>4, <1>5, <2>1 DEF MeansInv
  <2>2. CASE i \in DOMAIN population /\ population'[i] = population[i]
    BY <1>5, <2>2 DEF MeansInv
  <2> QED
    BY <1>3, <2>1, <2>2
<1> QED
  BY <1>1, <1>5 DEF MeansInv

LEMMA VisitMeans ==
  ASSUME WalkInv, Visit, NEW env, NEW v, Walking(env, v)
  PROVE  Walking(env, v)'
<1>1. h \in Heaps /\ stack \in Seq(Frames) /\ stack # << >> /\ \A i \in DOMAIN stack : FrameFits(i)
  BY DEF WalkInv, WalkType, Visit
<1>2. PICK N \in Nat : N = Len(stack)
  BY <1>1
<1> DEFINE f == stack[N]
           node == h[f.node].kids[f.kid]
<1>3. N >= 1 /\ DOMAIN stack = 1 .. N /\ \A i \in 1 .. N : stack[i] \in Frames
  BY <1>1, <1>2, TopExists
<1>4. f.kid <= Len(h[f.node].kids) /\ stack' = Append(stack, [node |-> node, kid |-> 1]) /\ h' = h
  BY <1>2 DEF Visit, Last
<1>5. f.node \in DOMAIN h /\ f.kid \in Nat /\ f.kid >= 1
  BY <1>1, <1>3 DEF FrameFits, Frames
<1>6. node \in Kids(h, f.node) /\ node \in Nat
  <2>1. h[f.node].kids \in Seq(DOMAIN h) /\ DOMAIN h \subseteq Nat
    BY <1>1, <1>5, HeapFacts
  <2>2. f.kid \in DOMAIN h[f.node].kids
    BY <1>4, <1>5, <2>1
  <2> QED
    BY <2>1, <2>2 DEF Kids
<1> DEFINE g == [node |-> node, kid |-> 1]
<1>7. g \in Frames /\ g.node = node
  BY <1>6 DEF Frames
<1> HIDE DEF node, g
<1>8. /\ Len(stack') = N + 1 /\ DOMAIN stack' = 1 .. N + 1 /\ stack'[N + 1] = g
      /\ \A i \in 1 .. N : stack'[i] = stack[i]
  BY <1>1, <1>2, <1>4, <1>7 DEF g
<1>9. PICK due, S : Walked(env, due, S) /\ due[stack[1].node] = v
  BY DEF Walking
<1>10. /\ \A i \in 1 .. N : stack[i].node \in S
       /\ \A i \in 1 .. N - 1 :
            due[stack[i + 1].node] = due[h[stack[i].node].kids[stack[i].kid]]
  BY <1>2, <1>3, <1>9 DEF Walked
<1>11. node \in S
  BY <1>3, <1>6, <1>9, <1>10 DEF Walked, Kept, Part, Closed
<1>12. \A i \in DOMAIN stack' : stack'[i].node \in S
  <2>1. \A i \in 1 .. N + 1 : i \in 1 .. N \/ i = N + 1
    BY <1>3
  <2> QED
    BY <1>7, <1>8, <1>10, <1>11, <2>1
<1>13. ASSUME NEW i \in 1 .. Len(stack') - 1
       PROVE  due[stack'[i + 1].node] = due[h[stack'[i].node].kids[stack'[i].kid]]
  <2>1. CASE i = N
    BY <1>3, <1>7, <1>8, <2>1 DEF node
  <2>2. CASE i # N
    <3>1. i \in 1 .. N - 1 /\ i \in 1 .. N /\ i + 1 \in 1 .. N
      BY <1>3, <1>8, <2>2
    <3> QED
      BY <1>8, <1>10, <3>1
  <2> QED
    BY <2>1, <2>2
<1>14. stack'[1].node = stack[1].node
  BY <1>3, <1>8
<1>15. Walked(env, due, S)'
  BY <1>4, <1>9, <1>12, <1>13 DEF Walked
<1> QED
  BY <1>9, <1>14, <1>15 DEF Walking

LEMMA LeaveMeans ==
  ASSUME WalkInv, Leave, ops[k] \in Guards, NEW env, NEW v, Walking(env, v)
  PROVE  /\ pc' = "mutate" => Means(h', candidate', env, v)
         /\ pc' = "visit" => Walking(env, v)'
<1>1. /\ pc = "visit" /\ h \in Heaps /\ stack \in Seq(Frames) /\ stack # << >>
      /\ \A i \in DOMAIN stack : FrameFits(i)
  BY DEF WalkInv, WalkType, Leave
<1>2. PICK N \in Nat : N = Len(stack)
  BY <1>1
<1>3. N >= 1 /\ DOMAIN stack = 1 .. N /\ N \in DOMAIN stack /\ \A i \in 1 .. N : stack[i] \in Frames
  BY <1>1, <1>2, TopExists
<1> DEFINE n    == stack[N].node
           rest == Front(stack)
<1>4. n \in DOMAIN h
  BY <1>1, <1>3 DEF FrameFits
<1>5. PICK r \in Visited(ops[k], n) :
        IF rest = << >>
          THEN h' = r.heap /\ candidate' = r.node /\ k' = k + 1 /\ pc' = "mutate" /\ stack' = << >>
          ELSE /\ h' = [r.heap EXCEPT ![Last(rest).node].kids[Last(rest).kid] = r.node]
               /\ stack' = [rest EXCEPT ![Len(rest)].kid = @ + 1]
               /\ UNCHANGED <<candidate, k, pc>>
  BY <1>2 DEF Leave, Last
<1>6. /\ rest \in Seq(Frames) /\ Len(rest) = N - 1 /\ DOMAIN rest = 1 .. N - 1
      /\ \A i \in 1 .. N - 1 : rest[i] = stack[i]
  BY <1>1, <1>2, <1>3 DEF Front
<1>7. PICK due, S : Walked(env, due, S) /\ due[stack[1].node] = v
  BY DEF Walking
<1>8. /\ \A i \in 1 .. N : stack[i].node \in S
      /\ \A i \in 1 .. N - 1 :
           due[stack[i + 1].node] = due[h[stack[i].node].kids[stack[i].kid]]
      /\ Kept(h, env, due, S)
  BY <1>2, <1>3, <1>7 DEF Walked
<1>9. n \in S
  BY <1>3, <1>8
<1> HIDE DEF n, rest
<1>10. Keeps(r, n, env, due, S)
  <2> DEFINE op == ops[k]
  <2>1. op \in Guards /\ r \in Visited(op, n)
    BY <1>5
  <2> HIDE DEF op
  <2> QED
    BY <1>1, <1>4, <1>8, <1>9, <2>1, GuardKeeps
<1>11. Fits(r, n)
  BY <1>1, <1>4, VisitedFits
<1>t. PICK T : T = S \cup Fresh(r.heap)
  OBVIOUS
<1>12. PICK due2 : /\ Kept(r.heap, env, due2, T)
                   /\ \A m \in DOMAIN h : due2[m] = due[m]
                   /\ due2[r.node] = due[n]
  BY <1>10, <1>t DEF Keeps
<1>13. \A m \in DOMAIN h : r.heap[m] = h[m]
  BY <1>10 DEF Keeps
<1>14. r.heap \in Heaps /\ r.node \in T /\ T \subseteq DOMAIN r.heap
  BY <1>9, <1>11, <1>12, <1>t DEF Fits, Fresh, Kept, Part
<1>15. CASE N = 1
  <2>1. rest = << >>
    BY <1>6, <1>15
  <2>2. due[n] = v
    BY <1>7, <1>15 DEF n
  <2> QED
    BY <1>5, <1>12, <1>14, <2>1, <2>2 DEF Means
<1>16. CASE N >= 2
  <2> DEFINE p == stack[N - 1]
             g2 == Put(r.heap, p.node, p.kid, r.node)
  <2>1. rest # << >> /\ Last(rest) = p /\ N - 1 \in 1 .. N - 1 /\ N - 1 \in 1 .. N
    BY <1>6, <1>16 DEF Last
  <2>2. h' = g2 /\ stack' = [rest EXCEPT ![N - 1].kid = @ + 1] /\ pc' = pc
    BY <1>5, <1>6, <2>1 DEF Put
  <2>3. /\ p \in Frames /\ p.node \in DOMAIN h /\ p.kid \in DOMAIN h[p.node].kids /\ p.node \in S
        /\ due[n] = due[h[p.node].kids[p.kid]]
    <3>1. p \in Frames /\ FrameFits(N - 1) /\ p.node \in S /\ N - 1 # Len(stack)
      BY <1>1, <1>2, <1>3, <1>8, <2>1
    <3>2. p.node \in DOMAIN h /\ p.kid \in Nat /\ p.kid >= 1 /\ p.kid <= Len(h[p.node].kids)
      BY <3>1 DEF FrameFits, Frames
    <3>3. h[p.node].kids \in Seq(DOMAIN h)
      BY <1>1, <3>2, HeapFacts
    <3>4. p.kid \in DOMAIN h[p.node].kids
      BY <3>2, <3>3
    <3>5. due[n] = due[h[p.node].kids[p.kid]]
      <4>1. (N - 1) + 1 = N
        OBVIOUS
      <4> QED
        BY <1>8, <2>1, <4>1 DEF n
    <3> QED
      BY <3>1, <3>2, <3>4, <3>5
  <2> HIDE DEF p
  <2>4. /\ p.node \in DOMAIN r.heap /\ p.kid \in DOMAIN r.heap[p.node].kids
        /\ due2[r.node] = due2[r.heap[p.node].kids[p.kid]]
    <3>1. r.heap[p.node] = h[p.node] /\ h[p.node].kids[p.kid] \in DOMAIN h
      BY <1>1, <1>13, <2>3, HeapFacts DEF Kids
    <3>2. p.node \in DOMAIN r.heap
      BY <1>t, <1>14, <2>3
    <3> QED
      BY <1>12, <2>3, <3>1, <3>2
  <2>5. /\ Kept(g2, env, due2, T)
        /\ \A m \in DOMAIN r.heap :
             /\ DOMAIN g2[m].kids = DOMAIN r.heap[m].kids
             /\ \A j \in DOMAIN r.heap[m].kids : due2[g2[m].kids[j]] = due2[r.heap[m].kids[j]]
    <3> DEFINE g == r.heap
               x == r.node
               q == p.node
               l == p.kid
    <3>1. /\ g \in Heaps /\ q \in DOMAIN g /\ l \in DOMAIN g[q].kids /\ x \in DOMAIN g
          /\ Kept(g, env, due2, T) /\ x \in T /\ due2[x] = due2[g[q].kids[l]]
      BY <1>12, <1>14, <2>4
    <3> HIDE DEF g, x, q, l
    <3>2. /\ Kept(Put(g, q, l, x), env, due2, T)
          /\ \A m \in DOMAIN g :
               /\ DOMAIN Put(g, q, l, x)[m].kids = DOMAIN g[m].kids
               /\ \A j \in DOMAIN g[m].kids : due2[Put(g, q, l, x)[m].kids[j]] = due2[g[m].kids[j]]
      BY <3>1, RelinkKept
    <3> QED
      BY <3>2 DEF g2, g, x, q, l
  <2> HIDE DEF g2
  <2>6. /\ DOMAIN stack' = 1 .. N - 1 /\ Len(stack') = N - 1
        /\ \A i \in 1 .. N - 1 : stack'[i].node = stack[i].node
        /\ \A i \in 1 .. N - 2 : stack'[i].kid = stack[i].kid
    <3>1. \A i \in 1 .. N - 1 : rest[i] \in Frames
      BY <1>6
    <3>2. /\ DOMAIN stack' = 1 .. N - 1 /\ Len(stack') = N - 1
          /\ \A i \in 1 .. N - 1 : /\ stack'[i].node = rest[i].node
                                   /\ i # N - 1 => stack'[i].kid = rest[i].kid
      <4> DEFINE t == [rest EXCEPT ![N - 1].kid = @ + 1]
      <4>1. /\ DOMAIN t = 1 .. N - 1 /\ Len(t) = N - 1
            /\ \A i \in 1 .. N - 1 : i # N - 1 => t[i] = rest[i]
            /\ t[N - 1] = [rest[N - 1] EXCEPT !.kid = @ + 1]
        BY <1>6, <2>1
      <4>2. t[N - 1].node = rest[N - 1].node
        BY <2>1, <3>1, <4>1 DEF Frames
      <4>3. stack' = t
        BY <2>2
      <4> HIDE DEF t
      <4> QED
        BY <4>1, <4>2, <4>3
    <3>3. \A i \in 1 .. N - 2 : i \in 1 .. N - 1 /\ i # N - 1
      OBVIOUS
    <3> QED
      BY <1>6, <3>2, <3>3
  <2>7. \A i \in DOMAIN stack' : stack'[i].node \in T
    <3>1. \A i \in 1 .. N - 1 : i \in 1 .. N
      OBVIOUS
    <3> QED
      BY <1>t, <1>8, <2>6, <3>1
  <2>8. ASSUME NEW i \in 1 .. Len(stack') - 1
        PROVE  due2[stack'[i + 1].node] = due2[g2[stack'[i].node].kids[stack'[i].kid]]
    <3> DEFINE m == stack[i].node
               j == stack[i].kid
    <3>1. /\ i \in 1 .. N - 2 /\ i \in 1 .. N - 1 /\ i + 1 \in 1 .. N - 1
          /\ i \in 1 .. N /\ i + 1 \in 1 .. N /\ i # N
      BY <1>16, <2>6
    <3>2. FrameFits(i) /\ stack[i] \in Frames /\ i # Len(stack)
      BY <1>1, <1>2, <1>3, <3>1
    <3>3. m \in DOMAIN h /\ j \in Nat /\ j >= 1 /\ j <= Len(h[m].kids)
      BY <3>2 DEF FrameFits, Frames
    <3>4. h[m].kids \in Seq(DOMAIN h)
      BY <1>1, <3>3, HeapFacts
    <3>5. j \in DOMAIN h[m].kids /\ h[m].kids[j] \in DOMAIN h
      BY <3>3, <3>4
    <3>6. r.heap[m] = h[m] /\ m \in DOMAIN r.heap
      <4>1. m \in S
        BY <1>8, <3>1
      <4> QED
        BY <1>t, <1>13, <1>14, <3>3, <4>1
    <3>7. due2[g2[m].kids[j]] = due[h[m].kids[j]]
      BY <1>12, <2>5, <3>5, <3>6
    <3>8. due2[stack[i + 1].node] = due[stack[i + 1].node]
      <4>1. stack[i + 1].node \in DOMAIN h
        BY <1>1, <1>3, <3>1 DEF FrameFits
      <4> QED
        BY <1>12, <4>1
    <3>9. due[stack[i + 1].node] = due[h[m].kids[j]]
      BY <1>8, <3>1
    <3>10. stack'[i + 1].node = stack[i + 1].node /\ stack'[i].node = m /\ stack'[i].kid = j
      BY <2>6, <3>1
    <3> QED
      BY <3>7, <3>8, <3>9, <3>10
  <2>9. Walked(env, due2, T)'
    <3>1. Kept(h', env, due2, T)
      BY <2>2, <2>5
    <3>2. \A i \in 1 .. Len(stack') - 1 :
            due2[stack'[i + 1].node] = due2[h'[stack'[i].node].kids[stack'[i].kid]]
      BY <2>2, <2>8
    <3> QED
      BY <2>7, <3>1, <3>2 DEF Walked
  <2>10. due2[stack'[1].node] = v
    <3>1. 1 \in 1 .. N - 1 /\ 1 \in 1 .. N
      BY <1>16
    <3>2. stack[1].node \in DOMAIN h
      BY <1>1, <1>3, <3>1 DEF FrameFits
    <3> QED
      BY <1>7, <1>12, <2>6, <3>1, <3>2
  <2> QED
    BY <1>1, <2>2, <2>9, <2>10 DEF Walking
<1> QED
  BY <1>3, <1>15, <1>16

LEMMA StepMeans ==
  ASSUME WalkInv, [Next]_vars, NEW env, NEW v, MeansInv(env, v)
  PROVE  MeansInv(env, v)'
<1>1. /\ Returns(h', original, env, v)
      /\ \A i \in DOMAIN population :
           OnlyGuards(population[i].ops) => Means(h', population[i].root, env, v)
  BY DoneMeans
<1>2. CASE Sample
  <2>1. pc' = "mutate" /\ UNCHANGED <<original, population>>
    BY <1>2 DEF Sample
  <2>2. Means(h', candidate', env, v)
    BY <1>2, SampleMeans
  <2> QED
    BY <1>1, <2>1, <2>2 DEF MeansInv
<1>3. CASE Mutate
  <2>1. pc = "mutate" /\ pc' = "visit" /\ UNCHANGED <<original, population, ops>>
    BY <1>3 DEF Mutate
  <2>2. OnlyGuards(ops) => Walking(env, v)'
    BY <1>3, <2>1, MutateMeans DEF MeansInv
  <2> QED
    BY <1>1, <2>1, <2>2 DEF MeansInv, OnlyGuards
<1>4. CASE Visit
  <2>1. pc = "visit" /\ pc' = "visit" /\ UNCHANGED <<original, population, ops>>
    BY <1>4 DEF Visit
  <2>2. OnlyGuards(ops) => Walking(env, v)'
    BY <1>4, <2>1, VisitMeans DEF MeansInv
  <2> QED
    BY <1>1, <2>1, <2>2 DEF MeansInv, OnlyGuards
<1>5. CASE Leave
  <2>1. pc = "visit" /\ UNCHANGED <<original, population, ops>>
    BY <1>5 DEF Leave
  <2>2. OnlyGuards(ops) => ops[k] \in Guards
    <3>1. k \in DOMAIN ops
      BY <2>1 DEF WalkInv, WalkType
    <3> QED
      BY <3>1 DEF OnlyGuards, Range
  <2>3. OnlyGuards(ops) => /\ pc' = "mutate" => Means(h', candidate', env, v)
                           /\ pc' = "visit" => Walking(env, v)'
    BY <1>5, <2>1, <2>2, LeaveMeans DEF MeansInv
  <2> QED
    BY <1>1, <2>1, <2>3 DEF MeansInv, OnlyGuards
<1>6. CASE Collect
  BY <1>6, CollectMeans
<1>7. CASE UNCHANGED vars
  <2>1. Walking(env, v)' <=> Walking(env, v)
    BY <1>7 DEF vars, Walking, Walked
  <2> QED
    BY <1>7, <2>1 DEF vars, MeansInv
<1> QED
  BY <1>2, <1>3, <1>4, <1>5, <1>6, <1>7 DEF Next

LEMMA InitMeans ==
  ASSUME Init, NEW env \in Environments
  PROVE  \E v : MeansInv(env, v)
<1>1. WalkInv /\ population = << >> /\ pc = "sample"
  BY InitInv DEF Init
<1>2. h \in Heaps /\ original \in DOMAIN h
  BY <1>1 DEF WalkInv, WalkType
<1>3. PICK rank : Ranks(h, rank)
  BY <1>1 DEF WalkInv, Descends
<1> DEFINE negative == FALSE
<1>4. negative \in BOOLEAN
  OBVIOUS
<1> HIDE DEF negative
<1>5. PICK f : \A m \in DOMAIN h : f[m] = Evaluated(h[m], KidValues(h, f, m), env, negative)
  BY <1>2, <1>3, ValueEquation
<1>6. \A m \in DOMAIN h : f[m] \in Values
  BY <1>2, <1>3, <1>4, <1>5, EvaluationType
<1> DEFINE due == [m \in Nat |-> IF m \in DOMAIN h THEN f[m] ELSE None]
<1>7. DOMAIN h \subseteq Nat /\ \A m \in DOMAIN h : Kids(h, m) \subseteq DOMAIN h
  BY <1>2, HeapFacts
<1>8. due \in [Nat -> Values] /\ \A m \in DOMAIN h : due[m] = f[m]
  BY <1>6, <1>7, ValueFacts
<1> HIDE DEF due
<1>9. ASSUME NEW m \in DOMAIN h
      PROVE  due[m] = Due(h, env, due, m)
  <2>1. KidValues(h, due, m) = KidValues(h, f, m)
    <3>1. \A c \in Kids(h, m) : due[c] = f[c]
      BY <1>7, <1>8
    <3> QED
      BY <1>2, <3>1, KidValuesSame
  <2> QED
    BY <1>5, <1>8, <2>1 DEF Due, negative
<1>10. Part(h, due, DOMAIN h)
  BY <1>7, <1>8 DEF Part, Closed
<1>11. Returns(h, original, env, due[original])
  BY <1>2, <1>9, <1>10 DEF Returns
<1>12. DOMAIN population = {}
  BY <1>1
<1>13. MeansInv(env, due[original])
  BY <1>1, <1>11, <1>12 DEF MeansInv
<1> QED
  BY <1>13

AllMean == \A env \in Envs : \E v : MeansInv(env, v)

LEMMA EnvFacts == Envs \subseteq Environments
<1> SUFFICES ASSUME NEW env \in Envs PROVE env \in [Operators.Name -> Values]
  BY DEF Environments
<1>1. env \in [Operators.Name -> Values \ Errors]
  BY EnvAssumption
<1> HIDE DEF Values, Errors
<1> QED
  BY <1>1

LEMMA InvConserves == WalkInv /\ AllMean => Conservative
<1> SUFFICES ASSUME WalkInv, AllMean, NEW i \in DOMAIN population,
                    OnlyGuards(population[i].ops), NEW env \in Envs
             PROVE  \/ Value(h, original, env, FALSE) \in Errors
                    \/ Value(h, population[i].root, env, TRUE) = Value(h, original, env, FALSE)
  BY DEF Conservative, OnlyGuards, Guards, Range
<1>1. PICK v : MeansInv(env, v)
  BY DEF AllMean
<1>2. PICK rank : Ranks(h, rank)
  BY DEF WalkInv, Descends
<1>3. h \in Heaps /\ env \in Environments
  BY EnvFacts DEF WalkInv, WalkType
<1>4. Value(h, original, env, FALSE) = v
  <2>1. Returns(h, original, env, v)
    BY <1>1 DEF MeansInv
  <2> QED
    BY <1>2, <1>3, <2>1, ReturnsValue
<1>5. v \in Errors \/ Value(h, population[i].root, env, TRUE) = v
  <2>1. Means(h, population[i].root, env, v)
    BY <1>1 DEF MeansInv
  <2> QED
    BY <1>2, <1>3, <2>1, MeansValue
<1> QED
  BY <1>4, <1>5

(* With checks of one or both kinds, in any order, a candidate returns     *)
(* what the source returns without an exception and without an index from  *)
(* the end, for every source and all arguments.                            *)
THEOREM GuardsConserve == Spec => []Conservative
<1>1. Init => AllMean
  BY InitMeans, EnvFacts DEF AllMean
<1>2. WalkInv /\ AllMean /\ [Next]_vars => AllMean'
  <2> SUFFICES ASSUME WalkInv, AllMean, [Next]_vars, NEW env \in Envs
               PROVE  \E v : MeansInv(env, v)'
    BY DEF AllMean
  <2>1. PICK v : MeansInv(env, v)
    BY DEF AllMean
  <2>2. MeansInv(env, v)'
    BY <2>1, StepMeans
  <2> QED
    BY <2>2
<1> QED
  BY <1>1, <1>2, Walks, InvConserves, PTL DEF Spec

-----------------------------------------------------------------------------
(* What the guards are for (NullSafe, InBounds). A value is only known     *)
(* once a tree is evaluated, and a guarded tree is a graph: a node may     *)
(* stand behind a guard and, by another parent, in the guard itself. What  *)
(* is carried through the walks is therefore a certificate of the graph,   *)
(* three relations in which every member has a reason:                     *)
(*   m in S            m raises nothing of the kind;                       *)
(*   <<m, v, s>> in D  m does not either, where a test has let the         *)
(*                     evaluation in: v is no None, or a list with the     *)
(*                     index s;                                            *)
(*   <<m, v>> in T     m computes what v does, or 0 where v would use      *)
(*                     None: m is v, or v behind null checks.              *)
(* The kind is "null" or "bounds", or "len" for: there is no len() at all. *)

(* Where an exception of the kind starts.                                  *)
Access(kind) ==
  CASE kind = "null"   -> {"Attribute", "Subscript", "Len"}
    [] kind = "bounds" -> {"Subscript"}
    [] OTHER           -> {"Len"}

(* Children by their slots, and the tests that the guards are made of.     *)
Kid(g, m, j)     == g[m].kids[j]
Tests(g, q, val) == g[q].op = "Compare" /\ g[q].val = val
Zero(g, q)       == g[q].op = "Constant" /\ g[q].val = 0
NotNone(g, q)    == Tests(g, q, "IsNot") /\ g[Kid(g, q, 2)].op = "None"
Tame(g, q)       == g[q].op \notin {"Attribute", "Subscript"}

(* q is `len(v) > s and s >= 0`, or says so of nodes known as v and s.     *)
InList(g, T, q, v, s) ==
  LET a == Kid(g, q, 1)
      b == Kid(g, q, 2)
  IN  /\ g[q].op = "And" /\ Tests(g, a, "Gt") /\ Tests(g, b, "GtE")
      /\ g[Kid(g, a, 1)].op = "Len" /\ <<Kid(g, Kid(g, a, 1), 1), v>> \in T
      /\ <<Kid(g, a, 2), s>> \in T /\ <<Kid(g, b, 1), s>> \in T /\ Zero(g, Kid(g, b, 2))

(* Where q is true, v is no None, or s an index of the list v.             *)
Opens(kind, g, T, q, v, s) ==
  \/ kind = "null" /\ NotNone(g, q) /\ <<Kid(g, q, 1), v>> \in T /\ s = v
  \/ kind = "bounds" /\ InList(g, T, q, v, s)

(* m is a conditional expression whose test opens what it guards.          *)
Guarding(kind, g, S, D, T, m) ==
  /\ g[m].op = "IfExp" /\ Kid(g, m, 1) \in S /\ Kid(g, m, 3) \in S
  /\ \E v, s : <<Kid(g, m, 2), v, s>> \in D /\ Opens(kind, g, T, Kid(g, m, 1), v, s)

(* The reason for m to be in S: no access, and safe children, or a guard.  *)
JustS(kind, g, S, D, T, m) ==
  /\ g[m].op \notin Access(kind)
  /\ Kids(g, m) \subseteq S \/ Guarding(kind, g, S, D, T, m)

(* The reason for <<m, v, s>> to be in D: m is safe, or it accesses v      *)
(* (with the index s), or only its children are such.                      *)
JustD(kind, g, S, D, T, m, v, s) ==
  \/ m \in S
  \/ /\ g[m].op \in Access(kind) /\ Kids(g, m) \subseteq S /\ <<Kid(g, m, 1), v>> \in T
     /\ kind = "bounds" => <<Kid(g, m, 2), s>> \in T
  \/ /\ g[m].op \notin Access(kind)
     /\ \A c \in Kids(g, m) : c \in S \/ <<c, v, s>> \in D

(* The reason for <<m, v>> to be in T: m is v, or a null check of v's own  *)
(* object around what is known as v.                                       *)
JustT(kind, g, S, T, m, v) ==
  /\ v \in S /\ kind # "len"
  /\ \/ m = v
     \/ /\ kind = "bounds" /\ g[v].op = "Attribute" /\ g[m].op = "IfExp"
        /\ NotNone(g, Kid(g, m, 1)) /\ Kid(g, Kid(g, m, 1), 1) = Kid(g, v, 1)
        /\ Tame(g, Kid(g, v, 1)) /\ <<Kid(g, m, 2), v>> \in T /\ Zero(g, Kid(g, m, 3))

(* S, D and T are a certificate of g.                                      *)
Safe(kind, g, S, D, T) ==
  /\ \A m \in S : m \in DOMAIN g /\ JustS(kind, g, S, D, T, m)
  /\ \A m, v, s : <<m, v, s>> \in D =>
       {m, v, s} \subseteq DOMAIN g /\ JustD(kind, g, S, D, T, m, v, s)
  /\ \A m, v : <<m, v>> \in T => {m, v} \subseteq DOMAIN g /\ JustT(kind, g, S, T, m, v)

(* n has a certificate.                                                    *)
Has(kind, g, n) == \E S, D, T : Safe(kind, g, S, D, T) /\ n \in S

(* The exception of the kind, and the arguments of a function.             *)
Raised(kind) == IF kind = "null" THEN NoneError ELSE IndexError

Arguments == [Operators.Name -> Values \ Errors]

(* The children of a node are in its slots.                                *)
LEMMA SlotFacts ==
  ASSUME NEW g \in Heaps, NEW m \in DOMAIN g
  PROVE  /\ g[m] \in Nodes /\ g[m].kids \in Seq(DOMAIN g)
         /\ \A j \in DOMAIN g[m].kids : Kid(g, m, j) \in DOMAIN g /\ Kid(g, m, j) \in Kids(g, m)
         /\ \A c \in Kids(g, m) : \E j \in DOMAIN g[m].kids : c = Kid(g, m, j)
         /\ g[m].op \in {"Attribute", "Len", "Subscript", "Compare", "And", "IfExp"}
              => 1 \in DOMAIN g[m].kids
         /\ g[m].op \in {"Subscript", "Compare", "And", "IfExp"} => 2 \in DOMAIN g[m].kids
         /\ g[m].op = "IfExp" => 3 \in DOMAIN g[m].kids /\ DOMAIN g[m].kids = {1, 2, 3}
<1>1. g[m] \in Nodes /\ g[m].kids \in Seq(DOMAIN g)
  BY HeapFacts
<1>2. DOMAIN g[m].kids = 1 .. Len(g[m].kids) /\ Len(g[m].kids) \in Nat
  BY <1>1
<1>3. WellFormed(g[m])
  BY <1>1 DEF Nodes
<1>4. \A j \in DOMAIN g[m].kids : Kid(g, m, j) \in DOMAIN g /\ Kid(g, m, j) \in Kids(g, m)
  BY <1>1 DEF Kid, Kids
<1>5. \A c \in Kids(g, m) : \E j \in DOMAIN g[m].kids : c = Kid(g, m, j)
  BY DEF Kid, Kids
<1>6. /\ g[m].op \in {"Attribute", "Len"} => Len(g[m].kids) = 1
      /\ g[m].op \in {"Subscript", "Compare", "And"} => Len(g[m].kids) = 2
      /\ g[m].op = "IfExp" => Len(g[m].kids) = 3
  BY <1>3, ClassFacts DEF WellFormed
<1>7. 1 .. 3 = {1, 2, 3}
  OBVIOUS
<1>8. /\ g[m].op \in {"Attribute", "Len", "Subscript", "Compare", "And", "IfExp"}
           => 1 \in DOMAIN g[m].kids
      /\ g[m].op \in {"Subscript", "Compare", "And", "IfExp"} => 2 \in DOMAIN g[m].kids
  BY <1>2, <1>6
<1>9. g[m].op = "IfExp" => 3 \in DOMAIN g[m].kids /\ DOMAIN g[m].kids = {1, 2, 3}
  <2> SUFFICES ASSUME g[m].op = "IfExp"
               PROVE  3 \in DOMAIN g[m].kids /\ DOMAIN g[m].kids = {1, 2, 3}
    OBVIOUS
  <2>1. DOMAIN g[m].kids = 1 .. 3
    BY <1>2, <1>6
  <2> QED
    BY <1>7, <2>1
<1> QED
  BY <1>1, <1>4, <1>5, <1>8, <1>9

(* An exception of the kind comes from a child, or from an access.         *)
LEMMA ErrorFacts ==
  /\ NoneError \in Errors /\ IndexError \in Errors /\ TypeError \in Errors
  /\ NoneError # IndexError /\ NoneError # TypeError /\ IndexError # TypeError
  /\ \A x : IntV(x) \notin Errors /\ ListV(x) \notin Errors
  /\ None \notin Errors /\ Next_ \notin Errors
BY DEF Errors, NoneError, IndexError, TypeError, IntV, ListV, None, Next_

(* An access raises the exception only for the values it is about.         *)
LEMMA AccessValues ==
  ASSUME NEW v \in Values, NEW s \in Values, NEW val, NEW negative \in BOOLEAN
  PROVE  /\ Attribute(v) # IndexError /\ (Attribute(v) = NoneError => v = None)
         /\ Length(v) # IndexError /\ (Length(v) = NoneError => v = None)
         /\ Item(v, s, negative) = NoneError => v = None
         /\ Item(v, s, negative) = IndexError =>
              \A m, x : v = ListV(m) /\ s = IntV(x) => ~(0 <= x /\ x < m)
         /\ Arithmetic(val, v, s) \notin {NoneError, IndexError}
         /\ Comparison(val, v, s) \notin {NoneError, IndexError}
<1> USE DEF NoneError, IndexError, TypeError, IntV, ListV, None
<1>1. Attribute(v) # IndexError /\ (Attribute(v) = NoneError => v = None)
  BY DEF Attribute
<1>2. Length(v) # IndexError /\ (Length(v) = NoneError => v = None)
  BY DEF Length
<1>3. Item(v, s, negative) = NoneError => v = None
  BY DEF Item
<1>4. ASSUME Item(v, s, negative) = IndexError, NEW m, NEW x, v = ListV(m), s = IntV(x), 0 <= x, x < m
      PROVE  FALSE
  <2>1. m \in Int /\ x \in Int /\ v[1] = "list" /\ v[2] = m /\ s[1] = "int" /\ s[2] = x
    BY <1>4 DEF Values
  <2>2. x \in 0 .. m - 1
    BY <1>4, <2>1
  <2>3. Item(v, s, negative) = IntV(x + 1)
    BY <2>1, <2>2, <1>4 DEF Item
  <2> QED
    BY <1>4, <2>3
<1>5. Arithmetic(val, v, s) \notin {NoneError, IndexError}
  BY DEF Arithmetic
<1>6. Comparison(val, v, s) \notin {NoneError, IndexError}
  <2>1. \A b : Bool(b) \notin {NoneError, IndexError}
    BY DEF Bool
  <2>2. TypeError \notin {NoneError, IndexError}
    OBVIOUS
  <2> QED
    BY <2>1, <2>2, Zenon DEF Comparison
<1> QED
  BY <1>1, <1>2, <1>3, <1>4, <1>5, <1>6

(* What is no access raises only what a child of it raises, and not that   *)
(* of a branch that is not taken.                                          *)
LEMMA RaisedFrom ==
  ASSUME NEW kind \in {"null", "bounds"}, NEW v \in Nodes, NEW kid \in [DOMAIN v.kids -> Values],
         NEW env \in Arguments, NEW negative \in BOOLEAN,
         Evaluated(v, kid, env, negative) = Raised(kind), v.op \notin Access(kind)
  PROVE  \E j \in DOMAIN kid :
           /\ kid[j] = Raised(kind)
           /\ v.op = "IfExp" /\ j = 2 => kid[1] \notin Errors /\ Truth(kid[1])
<1> DEFINE returns == {j \in DOMAIN kid : kid[j] # Next_}
           bad == Raised(kind)
<1>1. /\ v.op \in DOMAIN Arity \cup {"FunctionDef"} /\ WellFormed(v)
      /\ DOMAIN kid = 1 .. Len(v.kids) /\ Len(v.kids) \in Nat
  BY DEF Nodes
<1>b. bad \in {NoneError, IndexError} /\ bad \in Errors
  BY ErrorFacts DEF Raised
<1>e. Evaluated(v, kid, env, negative) = bad
  OBVIOUS
<1>r. bad = Raised(kind)
  OBVIOUS
<1> HIDE DEF bad
<1>2. CASE v.op \in {"Name", "Constant", "None"}
  <2>1. v.op = "Name" => env[v.val] \notin Errors
    BY <1>1, ClassFacts DEF WellFormed, Arguments
  <2>2. IntV(v.val) \notin Errors /\ None \notin Errors
    BY ErrorFacts
  <2> QED
    BY <1>2, <1>b, <1>e, <2>1, <2>2 DEF Evaluated
<1>3. CASE v.op = "FunctionDef"
  <2>1. Evaluated(v, kid, env, negative) = IF returns = {} THEN None ELSE kid[First(returns)]
    BY <1>3 DEF Evaluated, First
  <2>2. returns # {} => First(returns) \in returns
    <3>1. returns \in SUBSET Nat
      BY <1>1
    <3> HIDE DEF returns
    <3> QED
      BY <3>1, FirstFacts
  <2> QED
    BY <1>3, <1>b, <1>e, <1>r, <2>1, <2>2, ErrorFacts
<1>4. CASE v.op \notin {"Name", "Constant", "None", "FunctionDef"}
  <2>1. 1 \in DOMAIN kid /\ kid[1] \in Values
    BY <1>1, <1>4, ClassFacts DEF WellFormed
  <2>2. v.op \in {"Subscript", "BinOp", "Compare", "And", "If", "IfExp"}
          => 2 \in DOMAIN kid /\ kid[2] \in Values
    BY <1>1, ClassFacts DEF WellFormed
  <2>3. v.op = "IfExp" => 3 \in DOMAIN kid /\ kid[3] \in Values
    BY <1>1, ClassFacts DEF WellFormed
  <2>4. v.op \in {"Attribute", "Len", "Return", "Subscript", "BinOp", "Compare", "And", "If", "IfExp"}
    BY <1>1, <1>4, ClassFacts
  <2>5. CASE kid[1] \in Errors
    <3>1. kid[1] = bad
      BY <1>4, <1>e, <2>5 DEF Evaluated
    <3> QED
      BY <1>r, <2>1, <3>1
  <2>6. CASE v.op \in {"Subscript", "BinOp", "Compare"} /\ kid[1] \notin Errors /\ kid[2] \in Errors
    <3>1. kid[2] = bad
      BY <1>4, <1>e, <2>6 DEF Evaluated
    <3> QED
      BY <1>r, <2>2, <2>6, <3>1
  <2>7. CASE v.op \in {"Attribute", "Len", "Subscript"} /\ kid[1] \notin Errors
              /\ (v.op = "Subscript" => kid[2] \notin Errors)
    <3>1. kind = "bounds" /\ v.op \in {"Attribute", "Len"} /\ bad = IndexError
      BY <1>r, <2>7 DEF Access, Raised
    <3>2. v.op = "Attribute" => bad = Attribute(kid[1])
      BY <1>e, <2>7 DEF Evaluated
    <3>3. v.op = "Len" => bad = Length(kid[1])
      BY <1>e, <2>7 DEF Evaluated
    <3> QED
      BY <2>1, <3>1, <3>2, <3>3, AccessValues
  <2>8. CASE v.op \in {"BinOp", "Compare"} /\ kid[1] \notin Errors /\ kid[2] \notin Errors
    <3>1. v.op = "BinOp" => bad = Arithmetic(v.val, kid[1], kid[2])
      BY <1>e, <2>8 DEF Evaluated
    <3>2. v.op = "Compare" => bad = Comparison(v.val, kid[1], kid[2])
      BY <1>e, <2>8 DEF Evaluated
    <3> QED
      BY <1>b, <2>1, <2>2, <2>8, <3>1, <3>2, AccessValues
  <2>9. CASE v.op = "Return" /\ kid[1] \notin Errors
    BY <1>b, <1>e, <2>9 DEF Evaluated
  <2>10. CASE v.op \in {"And", "If"} /\ kid[1] \notin Errors
    <3>1. bad = kid[1] \/ bad = kid[2] \/ bad = Next_
      BY <1>e, <2>10 DEF Evaluated
    <3> QED
      BY <1>b, <1>r, <2>2, <2>10, <3>1, ErrorFacts
  <2>11. CASE v.op = "IfExp" /\ kid[1] \notin Errors
    <3>1. bad = IF Truth(kid[1]) THEN kid[2] ELSE kid[3]
      BY <1>e, <2>11 DEF Evaluated
    <3>2. CASE Truth(kid[1])
      BY <1>r, <2>2, <2>11, <3>1, <3>2
    <3>3. CASE ~Truth(kid[1])
      <4>1. bad = kid[3] /\ 3 # 2
        BY <3>1, <3>3
      <4> QED
        BY <1>r, <2>3, <2>11, <4>1
    <3> QED
      BY <3>2, <3>3
  <2> QED
    BY <2>4, <2>5, <2>6, <2>7, <2>8, <2>9, <2>10, <2>11
<1> QED
  BY <1>2, <1>3, <1>4

-----------------------------------------------------------------------------
(* A certificate is right: what is in S does not raise the exception, for  *)
(* whatever arguments. By the least rank at which one of the three is      *)
(* wrong.                                                                  *)

(* f solves the equation of Value, with values. *)
Solves(g, env, negative, f) ==
  \A m \in DOMAIN g : /\ f[m] = Evaluated(g[m], KidValues(g, f, m), env, negative)
                      /\ f[m] \in Values

(* What the stand-ins of v have in common. *)
Common(g, f, v) ==
  IF g[v].op = "Attribute" /\ f[Kid(g, v, 1)] = None THEN IntV(0) ELSE f[v]

(* v can be accessed, with the index s.                                    *)
Open(kind, g, f, v, s) ==
  IF kind = "null" THEN Common(g, f, v) # None
  ELSE \E m, x : Common(g, f, v) = ListV(m) /\ Common(g, f, s) = IntV(x) /\ 0 <= x /\ x < m

(* The equation of a node, slot by slot.                                   *)
Solution(g, negative, f, m) ==
  LET a == f[Kid(g, m, 1)]
      b == f[Kid(g, m, 2)]
  IN  /\ g[m].op = "Constant" => f[m] = IntV(g[m].val)
      /\ g[m].op = "None" => f[m] = None
      /\ g[m].op \in {"Attribute", "Len", "Subscript", "Compare", "And", "IfExp"} =>
           a \in Values /\ (a \in Errors => f[m] = a)
      /\ g[m].op \in {"Subscript", "Compare"} =>
           b \in Values /\ (a \notin Errors /\ b \in Errors => f[m] = b)
      /\ g[m].op = "Attribute" /\ a \notin Errors => f[m] = Attribute(a)
      /\ g[m].op = "Len" /\ a \notin Errors => f[m] = Length(a)
      /\ g[m].op = "Subscript" /\ a \notin Errors /\ b \notin Errors => f[m] = Item(a, b, negative)
      /\ g[m].op = "Compare" /\ a \notin Errors /\ b \notin Errors
           => f[m] = Comparison(g[m].val, a, b)
      /\ g[m].op = "And" /\ a \notin Errors => f[m] = IF Truth(a) THEN b ELSE a
      /\ g[m].op = "IfExp" /\ a \notin Errors
           => f[m] = IF Truth(a) THEN b ELSE f[Kid(g, m, 3)]

(* A solution of the equation of Value solves it slot by slot.             *)
LEMMA SolvedFacts ==
  ASSUME NEW g \in Heaps, NEW env, NEW negative \in BOOLEAN, NEW f, Solves(g, env, negative, f),
         NEW m \in DOMAIN g
  PROVE  Solution(g, negative, f, m)
<1> DEFINE w == KidValues(g, f, m)
           v == g[m]
           x == f[m]
           a == f[Kid(g, m, 1)]
           b == f[Kid(g, m, 2)]
           c == f[Kid(g, m, 3)]
<1>1. x = Evaluated(v, w, env, negative)
  BY DEF Solves
<1>2. /\ v.op \in {"Attribute", "Len", "Subscript", "Compare", "And", "IfExp"} => w[1] = a /\ a \in Values
      /\ v.op \in {"Subscript", "Compare", "And", "IfExp"} => w[2] = b /\ b \in Values
      /\ v.op = "IfExp" => w[3] = c
  BY SlotFacts DEF KidValues, Kid, Solves
<1> HIDE DEF w, v, x, a, b, c
<1>3. v.op = "Constant" => x = IntV(v.val)
  BY <1>1 DEF Evaluated
<1>4. v.op = "None" => x = None
  BY <1>1 DEF Evaluated
<1>5. v.op \in {"Attribute", "Len", "Subscript", "Compare", "And", "IfExp"} =>
                  a \in Values /\ (a \in Errors => x = a)
  BY <1>1, <1>2 DEF Evaluated
<1>6. v.op \in {"Subscript", "Compare"} => b \in Values /\ (a \notin Errors /\ b \in Errors => x = b)
  BY <1>1, <1>2 DEF Evaluated
<1>7. /\ v.op = "Attribute" /\ a \notin Errors => x = Attribute(a)
      /\ v.op = "Len" /\ a \notin Errors => x = Length(a)
  BY <1>1, <1>2 DEF Evaluated
<1>8. /\ v.op = "Subscript" /\ a \notin Errors /\ b \notin Errors => x = Item(a, b, negative)
      /\ v.op = "Compare" /\ a \notin Errors /\ b \notin Errors => x = Comparison(v.val, a, b)
  BY <1>1, <1>2 DEF Evaluated
<1>9. /\ v.op = "And" /\ a \notin Errors => x = IF Truth(a) THEN b ELSE a
      /\ v.op = "IfExp" /\ a \notin Errors => x = IF Truth(a) THEN b ELSE c
  BY <1>1, <1>2 DEF Evaluated
<1> QED
  BY <1>3, <1>4, <1>5, <1>6, <1>7, <1>8, <1>9 DEF v, x, a, b, c, Solution

(* Truth values and comparisons of a test.                                 *)
LEMMA BoolFacts ==
  /\ \A b : Truth(Bool(b)) <=> b
  /\ ~Truth(IntV(0)) /\ ~Truth(None)
  /\ \A v, w : Comparison("IsNot", v, w) = Bool(v # w)
  /\ \A v \in Values, w \in Values, val \in {"Gt", "GtE"} :
       LET x == Comparison(val, v, w) IN
       x \notin Errors => /\ v = IntV(v[2]) /\ w = IntV(w[2]) /\ v[2] \in Int /\ w[2] \in Int
                          /\ val = "Gt" => x = Bool(v[2] > w[2])
                          /\ val = "GtE" => x = Bool(v[2] >= w[2])
  /\ \A v \in Values : Length(v) \notin Errors => v = ListV(v[2]) /\ Length(v) = IntV(v[2])
<1>1. \A b : Truth(Bool(b)) <=> b
  BY DEF Truth, Bool, IntV
<1>2. ~Truth(IntV(0)) /\ ~Truth(None)
  BY DEF Truth, IntV, None
<1>3. \A v, w : Comparison("IsNot", v, w) = Bool(v # w)
  BY DEF Comparison
<1>4. ASSUME NEW v \in Values, NEW w \in Values, NEW val \in {"Gt", "GtE"},
             Comparison(val, v, w) \notin Errors
      PROVE  /\ v = IntV(v[2]) /\ w = IntV(w[2]) /\ v[2] \in Int /\ w[2] \in Int
             /\ val = "Gt" => Comparison(val, v, w) = Bool(v[2] > w[2])
             /\ val = "GtE" => Comparison(val, v, w) = Bool(v[2] >= w[2])
  <2>1. v[1] = "int" /\ w[1] = "int"
    BY <1>4, ErrorFacts DEF Comparison
  <2>2. v = IntV(v[2]) /\ w = IntV(w[2]) /\ v[2] \in Int /\ w[2] \in Int
    BY <2>1 DEF Values, IntV
  <2> QED
    BY <2>1, <2>2, <1>4 DEF Comparison
<1>5. ASSUME NEW v \in Values, Length(v) \notin Errors
      PROVE  v = ListV(v[2]) /\ Length(v) = IntV(v[2])
  <2>1. v # None /\ v[1] = "list"
    BY <1>5, ErrorFacts DEF Length
  <2> QED
    BY <2>1 DEF Length, ListV, Values
<1> QED
  BY <1>1, <1>2, <1>3, <1>4, <1>5

(* A node known as v has v's value, or is 0 where v would raise.           *)
LEMMA TowerValues ==
  ASSUME NEW g \in Heaps, NEW rank, Ranks(g, rank), NEW env, NEW negative \in BOOLEAN,
         NEW f, Solves(g, env, negative, f), NEW kind, NEW S, NEW D, NEW T, Safe(kind, g, S, D, T)
  PROVE  \A m, v : <<m, v>> \in T => f[m] \in Errors \/ f[m] = Common(g, f, v)
<1> DEFINE Odd(m, v) == <<m, v>> \in T /\ f[m] \notin Errors /\ f[m] # Common(g, f, v)
           Bad == {rank[m] : m \in {x \in DOMAIN g : \E v : Odd(x, v)}}
<1>0. \A m, v : <<m, v>> \in T => m \in DOMAIN g /\ v \in DOMAIN g /\ JustT(kind, g, S, T, m, v)
  BY DEF Safe
<1>1. SUFFICES ASSUME Bad # {} PROVE FALSE
  <2>1. \A m, v : ~Odd(m, v)
    BY <1>0, <1>1
  <2> QED
    BY <2>1
<1>2. Bad \in SUBSET Nat
  BY DEF Ranks
<1>3. PICK r \in Bad : \A q \in Bad : r <= q
  <2> HIDE DEF Bad
  <2> QED
    BY <1>1, <1>2, LeastExists
<1>4. PICK m \in DOMAIN g : (\E v : Odd(m, v)) /\ r = rank[m]
  OBVIOUS
<1>v. PICK v : Odd(m, v)
  BY <1>4
<1>s. \A x \in DOMAIN g : Solution(g, negative, f, x)
  BY SolvedFacts
<1>5. v \in DOMAIN g /\ JustT(kind, g, S, T, m, v)
  BY <1>0, <1>v
<1>6. CASE m = v
  <2>1. g[v].op = "Attribute" /\ f[Kid(g, v, 1)] = None
    BY <1>v, <1>6 DEF Common
  <2>2. f[v] = NoneError
    BY <1>5, <1>s, <2>1, ErrorFacts DEF Attribute, Solution
  <2> QED
    BY <1>v, <1>6, <2>2, ErrorFacts
<1>7. CASE m # v
  <2> DEFINE q == Kid(g, m, 1)
             x == Kid(g, m, 2)
             z == Kid(g, m, 3)
             a == Kid(g, v, 1)
             o == Kid(g, q, 2)
  <2>1. /\ g[v].op = "Attribute" /\ g[m].op = "IfExp" /\ NotNone(g, q)
        /\ Kid(g, q, 1) = a /\ <<x, v>> \in T /\ Zero(g, z)
    BY <1>5, <1>7 DEF JustT
  <2>2. /\ q \in DOMAIN g /\ x \in DOMAIN g /\ z \in DOMAIN g /\ a \in DOMAIN g
        /\ x \in Kids(g, m)
    BY <1>5, <2>1, SlotFacts
  <2>3. g[q].op = "Compare" /\ g[q].val = "IsNot" /\ g[o].op = "None" /\ o \in DOMAIN g
    <3>1. g[q].op = "Compare" /\ g[q].val = "IsNot" /\ g[o].op = "None"
      BY <2>1 DEF NotNone, Tests
    <3> QED
      BY <2>2, <3>1, SlotFacts
  <2> HIDE DEF q, x, z, a, o
  <2>4. f[q] \notin Errors
    BY <1>v, <1>s, <2>1 DEF q, Solution
  <2>5. f[o] = None /\ f[a] \in Values /\ f[a] \notin Errors /\ f[q] = Bool(f[a] # None)
    <3>s. Solution(g, negative, f, o) /\ Solution(g, negative, f, q)
      BY <1>s, <2>2, <2>3
    <3>1. f[o] = None
      BY <2>3, <3>s DEF Solution
    <3>2. f[a] \notin Errors
      BY <2>1, <2>3, <2>4, <3>s DEF Solution
    <3>3. f[q] = Comparison("IsNot", f[a], f[o])
      BY <2>1, <2>3, <3>1, <3>2, <3>s, ErrorFacts DEF o, Solution
    <3> QED
      BY <2>1, <2>2, <3>1, <3>2, <3>3, BoolFacts DEF Solves
  <2>6. f[m] = IF f[a] # None THEN f[x] ELSE f[z]
    <3>1. f[m] = IF Truth(f[q]) THEN f[x] ELSE f[z]
      BY <1>s, <2>1, <2>4 DEF q, x, z, Solution
    <3> QED
      BY <2>5, <3>1, BoolFacts
  <2>7. f[z] = IntV(0)
    <3>1. Solution(g, negative, f, z)
      BY <1>s, <2>2
    <3> QED
      BY <2>1, <3>1 DEF Zero, Solution
  <2>8. CASE f[a] = None
    BY <1>v, <2>1, <2>6, <2>7, <2>8 DEF Common, a
  <2>9. CASE f[a] # None
    <3>1. rank[x] < rank[m] /\ rank[x] \in Nat /\ rank[m] \in Nat
      BY <2>2 DEF Ranks
    <3>2. Odd(x, v)
      BY <1>v, <2>1, <2>6, <2>9
    <3>3. rank[x] \in Bad
      BY <2>2, <3>2
    <3>4. r <= rank[x] /\ r = rank[m]
      <4> HIDE DEF Bad
      <4> QED
        BY <1>3, <1>4, <3>3
    <3> QED
      BY <3>1, <3>4
  <2> QED
    BY <2>8, <2>9
<1> QED
  BY <1>6, <1>7

(* A test that is true has opened what it is about.                        *)
LEMMA TestOpens ==
  ASSUME NEW g \in Heaps, NEW rank, Ranks(g, rank), NEW env, NEW negative \in BOOLEAN,
         NEW f, Solves(g, env, negative, f), NEW kind \in {"null", "bounds"},
         NEW S, NEW D, NEW T, Safe(kind, g, S, D, T),
         NEW q \in DOMAIN g, f[q] \notin Errors, Truth(f[q]), NEW v, NEW s, Opens(kind, g, T, q, v, s)
  PROVE  Open(kind, g, f, v, s)
<1>s. \A x \in DOMAIN g : Solution(g, negative, f, x) /\ f[x] \in Values
  BY SolvedFacts DEF Solves
<1>t. \A x, y : <<x, y>> \in T => f[x] \in Errors \/ f[x] = Common(g, f, y)
  BY TowerValues
<1> DEFINE a == Kid(g, q, 1)
           b == Kid(g, q, 2)
<1>1. CASE kind = "null"
  <2>1. /\ g[q].op = "Compare" /\ g[q].val = "IsNot" /\ g[b].op = "None" /\ <<a, v>> \in T
    BY <1>1 DEF Opens, NotNone, Tests
  <2>2. a \in DOMAIN g /\ b \in DOMAIN g
    BY <2>1, SlotFacts
  <2> HIDE DEF a, b
  <2>s. Solution(g, negative, f, b) /\ Solution(g, negative, f, q)
    BY <1>s, <2>2
  <2>3. f[b] = None
    BY <2>1, <2>s DEF Solution
  <2>4. f[a] \notin Errors
    BY <2>1, <2>s DEF Solution, a
  <2>5. f[q] = Comparison("IsNot", f[a], f[b])
    BY <2>1, <2>3, <2>4, <2>s, ErrorFacts DEF a, b, Solution
  <2>6. f[a] # None
    <3> DEFINE u == f[a] # None
    <3>1. f[q] = Bool(u)
      BY <2>3, <2>5, BoolFacts
    <3> HIDE DEF u
    <3>2. u
      BY <3>1, BoolFacts
    <3> QED
      BY <3>2 DEF u
  <2>7. f[a] = Common(g, f, v)
    BY <1>t, <2>1, <2>4
  <2> QED
    BY <1>1, <2>6, <2>7 DEF Open
<1>2. CASE kind = "bounds"
  <2> DEFINE l  == Kid(g, a, 1)
             l1 == Kid(g, l, 1)
             a2 == Kid(g, a, 2)
             b1 == Kid(g, b, 1)
             b2 == Kid(g, b, 2)
  <2>1. /\ g[q].op = "And" /\ g[a].op = "Compare" /\ g[a].val = "Gt"
        /\ g[b].op = "Compare" /\ g[b].val = "GtE" /\ g[l].op = "Len"
        /\ <<l1, v>> \in T /\ <<a2, s>> \in T /\ <<b1, s>> \in T
        /\ g[b2].op = "Constant" /\ g[b2].val = 0
    <3>1. InList(g, T, q, v, s)
      BY <1>2 DEF Opens
    <3> QED
      BY <3>1 DEF InList, Tests, Zero
  <2>2. a \in DOMAIN g /\ b \in DOMAIN g
    BY <2>1, SlotFacts
  <2>3. l \in DOMAIN g /\ a2 \in DOMAIN g /\ b1 \in DOMAIN g /\ b2 \in DOMAIN g
    BY <2>1, <2>2, SlotFacts
  <2>4. l1 \in DOMAIN g
    BY <2>1, <2>3, SlotFacts
  <2> HIDE DEF a, b, l, l1, a2, b1, b2
  <2>5. /\ Solution(g, negative, f, q) /\ Solution(g, negative, f, a) /\ Solution(g, negative, f, b)
        /\ Solution(g, negative, f, l) /\ Solution(g, negative, f, b2)
    BY <1>s, <2>2, <2>3
  <2>6. f[a] \notin Errors
    BY <2>1, <2>5 DEF Solution, a
  <2>7. f[q] = IF Truth(f[a]) THEN f[b] ELSE f[a]
    BY <2>1, <2>5, <2>6 DEF Solution, a, b
  <2>8. Truth(f[a]) /\ f[b] = f[q]
    BY <2>7
  <2>9. f[l] \notin Errors /\ f[a2] \notin Errors /\ f[a] = Comparison("Gt", f[l], f[a2])
    BY <2>1, <2>5, <2>6 DEF Solution, l, a2
  <2>10. f[b1] \notin Errors
    BY <2>1, <2>5, <2>8 DEF Solution, b1
  <2>11. f[b2] = IntV(0)
    BY <2>1, <2>5 DEF Solution
  <2>12. f[b] = Comparison("GtE", f[b1], IntV(0))
    BY <2>1, <2>5, <2>10, <2>11, ErrorFacts DEF Solution, b1, b2
  <2>13. f[l1] \notin Errors /\ f[l] = Length(f[l1])
    BY <2>1, <2>5, <2>9 DEF Solution, l1
  <2>14. /\ f[l1] = Common(g, f, v) /\ f[a2] = Common(g, f, s) /\ f[b1] = Common(g, f, s)
    BY <1>t, <2>1, <2>9, <2>10, <2>13
  <2>15. /\ f[l] \in Values /\ f[a2] \in Values /\ f[b1] \in Values /\ f[l1] \in Values
         /\ IntV(0) \in Values
    BY <1>s, <2>3, <2>4, ValueFacts
  <2>16. f[l1] = ListV(f[l1][2]) /\ f[l] = IntV(f[l1][2])
    BY <2>9, <2>13, <2>15, BoolFacts
  <2>17. /\ f[a2] = IntV(f[a2][2]) /\ f[l][2] \in Int /\ f[a2][2] \in Int
         /\ f[a] = Bool(f[l][2] > f[a2][2])
    <3> DEFINE x == f[l]
               y == f[a2]
               z == Comparison("Gt", x, y)
    <3>1. x \in Values /\ y \in Values /\ z \notin Errors /\ f[a] = z
      BY <2>6, <2>9, <2>15
    <3> HIDE DEF x, y
    <3>2. y = IntV(y[2]) /\ x[2] \in Int /\ y[2] \in Int /\ z = Bool(x[2] > y[2])
      BY <3>1, BoolFacts
    <3> QED
      BY <3>1, <3>2 DEF x, y
  <2>18. f[b] = Bool(f[a2][2] >= 0)
    <3> DEFINE x == f[b1]
               y == IntV(0)
               z == Comparison("GtE", x, y)
    <3>1. x \in Values /\ y \in Values /\ z \notin Errors /\ f[b] = z
      BY <2>8, <2>12, <2>15
    <3>2. y[2] = 0
      BY DEF IntV
    <3> HIDE DEF x, y
    <3>3. z = Bool(x[2] >= y[2])
      BY <3>1, BoolFacts
    <3>4. x = f[a2]
      BY <2>14 DEF x
    <3> QED
      BY <3>1, <3>2, <3>3, <3>4
  <2>19. f[l][2] > f[a2][2] /\ f[a2][2] >= 0
    <3> DEFINE u == f[l][2] > f[a2][2]
               w == f[a2][2] >= 0
    <3>1. Truth(Bool(u)) /\ Truth(Bool(w))
      BY <2>8, <2>17, <2>18
    <3> HIDE DEF u, w
    <3>2. u /\ w
      BY <3>1, BoolFacts
    <3> QED
      BY <3>2 DEF u, w
  <2>20. f[l][2] = f[l1][2]
    BY <2>16 DEF IntV
  <2> DEFINE m == f[l1][2]
             x == f[a2][2]
  <2>21. Common(g, f, v) = ListV(m) /\ Common(g, f, s) = IntV(x) /\ 0 <= x /\ x < m
    <3>1. x \in Int /\ m \in Int /\ m > x /\ x >= 0
      BY <2>17, <2>19, <2>20
    <3>2. Common(g, f, v) = ListV(m) /\ Common(g, f, s) = IntV(x)
      BY <2>14, <2>16, <2>17
    <3> QED
      BY <3>1, <3>2
  <2> HIDE DEF m, x
  <2> QED
    BY <1>2, <2>21 DEF Open
<1> QED
  BY <1>1, <1>2

LEMMA Sound ==
  ASSUME NEW g \in Heaps, NEW rank, Ranks(g, rank), NEW env \in Arguments,
         NEW negative \in BOOLEAN, NEW f, Solves(g, env, negative, f),
         NEW kind \in {"null", "bounds"}, NEW S, NEW D, NEW T, Safe(kind, g, S, D, T)
  PROVE  \A m \in S : f[m] # Raised(kind)
<1> DEFINE Claimed(m) == m \in S \/ \E v, s : <<m, v, s>> \in D /\ Open(kind, g, f, v, s)
           bad == Raised(kind)
           Bad == {rank[m] : m \in {x \in DOMAIN g : Claimed(x) /\ f[x] = bad}}
<1>d. /\ \A m \in S : m \in DOMAIN g /\ JustS(kind, g, S, D, T, m)
      /\ \A m, v, s : <<m, v, s>> \in D => m \in DOMAIN g /\ JustD(kind, g, S, D, T, m, v, s)
  BY DEF Safe
<1>0. SUFFICES ASSUME Bad # {} PROVE FALSE
  BY <1>d
<1>1. Bad \in SUBSET Nat
  BY DEF Ranks
<1>2. PICK r \in Bad : \A q \in Bad : r <= q
  <2> HIDE DEF Bad
  <2> QED
    BY <1>0, <1>1, LeastExists
<1>3. PICK m \in DOMAIN g : Claimed(m) /\ f[m] = bad /\ r = rank[m]
  OBVIOUS
<1>b. bad \in {NoneError, IndexError} /\ bad \in Errors
  BY ErrorFacts DEF Raised
<1>s. \A x \in DOMAIN g : Solution(g, negative, f, x) /\ f[x] \in Values
  BY SolvedFacts DEF Solves
<1>r. bad = Raised(kind)
  OBVIOUS
<1>4. \A c \in Kids(g, m) : Claimed(c) => f[c] # bad
  <2> SUFFICES ASSUME NEW c \in Kids(g, m), Claimed(c), f[c] = bad
               PROVE  FALSE
    OBVIOUS
  <2>1. c \in DOMAIN g /\ rank[c] < rank[m] /\ rank[c] \in Nat /\ rank[m] \in Nat
    BY HeapFacts DEF Ranks
  <2>2. rank[c] \in Bad
    BY <2>1
  <2>3. r <= rank[c] /\ r = rank[m]
    <3> HIDE DEF Bad
    <3> QED
      BY <1>2, <1>3, <2>2
  <2> QED
    BY <2>1, <2>3
<1> HIDE DEF Bad, bad
<1>5. g[m] \in Nodes /\ KidValues(g, f, m) \in [DOMAIN g[m].kids -> Values]
  BY SlotFacts DEF KidValues, Kid, Solves
<1>6. g[m].op \notin Access(kind) =>
        \E j \in DOMAIN g[m].kids :
          /\ f[Kid(g, m, j)] = bad
          /\ g[m].op = "IfExp" /\ j = 2 => f[Kid(g, m, 1)] \notin Errors /\ Truth(f[Kid(g, m, 1)])
  <2> SUFFICES ASSUME g[m].op \notin Access(kind)
               PROVE  \E j \in DOMAIN g[m].kids :
          /\ f[Kid(g, m, j)] = bad
          /\ g[m].op = "IfExp" /\ j = 2 => f[Kid(g, m, 1)] \notin Errors /\ Truth(f[Kid(g, m, 1)])
    OBVIOUS
  <2> DEFINE v == g[m]
             w == KidValues(g, f, m)
  <2>1. Evaluated(v, w, env, negative) = Raised(kind)
    BY <1>3, <1>r DEF Solves
  <2>2. v \in Nodes /\ w \in [DOMAIN v.kids -> Values] /\ v.op \notin Access(kind)
    BY <1>5
  <2>3. \A j \in DOMAIN v.kids : w[j] = f[Kid(g, m, j)]
    BY DEF KidValues, Kid
  <2>5. v.op = "IfExp" => w[1] = f[Kid(g, m, 1)]
    BY <2>3, SlotFacts
  <2> HIDE DEF v, w
  <2>4. PICK j \in DOMAIN w :
           /\ w[j] = Raised(kind)
           /\ v.op = "IfExp" /\ j = 2 => w[1] \notin Errors /\ Truth(w[1])
    BY <2>1, <2>2, RaisedFrom
  <2> QED
    BY <1>r, <2>2, <2>3, <2>4, <2>5 DEF v
<1>7. CASE m \in S
  <2>1. JustS(kind, g, S, D, T, m)
    BY <1>d, <1>7
  <2>2. PICK j \in DOMAIN g[m].kids :
          /\ f[Kid(g, m, j)] = bad
          /\ g[m].op = "IfExp" /\ j = 2 => f[Kid(g, m, 1)] \notin Errors /\ Truth(f[Kid(g, m, 1)])
    BY <1>6, <2>1 DEF JustS
  <2>3. Kid(g, m, j) \in Kids(g, m) /\ Kid(g, m, j) \in DOMAIN g
    BY SlotFacts
  <2>4. Kid(g, m, j) \notin S
    BY <1>4, <2>2, <2>3
  <2>5. Guarding(kind, g, S, D, T, m)
    BY <2>1, <2>3, <2>4 DEF JustS
  <2>6. g[m].op = "IfExp" /\ j = 2
    <3>1. g[m].op = "IfExp"
      BY <2>5 DEF Guarding
    <3>2. j \in {1, 2, 3}
      BY <3>1, SlotFacts
    <3> QED
      BY <2>4, <2>5, <3>1, <3>2 DEF Guarding
  <2>7. PICK v, s : <<Kid(g, m, 2), v, s>> \in D /\ Opens(kind, g, T, Kid(g, m, 1), v, s)
    BY <2>5 DEF Guarding
  <2>8. Kid(g, m, 1) \in DOMAIN g
    BY <2>6, SlotFacts
  <2>9. Open(kind, g, f, v, s)
    BY <2>2, <2>6, <2>7, <2>8, TestOpens
  <2>10. Claimed(Kid(g, m, 2))
    BY <2>7, <2>9
  <2> HIDE DEF Claimed
  <2> QED
    BY <1>4, <2>2, <2>3, <2>6, <2>10
<1>8. CASE m \notin S
  <2>1. PICK v, s : <<m, v, s>> \in D /\ Open(kind, g, f, v, s)
    BY <1>3, <1>8
  <2>2. JustD(kind, g, S, D, T, m, v, s)
    BY <1>d, <2>1
  <2>3. CASE /\ g[m].op \in Access(kind) /\ Kids(g, m) \subseteq S /\ <<Kid(g, m, 1), v>> \in T
             /\ kind = "bounds" => <<Kid(g, m, 2), s>> \in T
    <3> DEFINE a == Kid(g, m, 1)
               b == Kid(g, m, 2)
    <3>t. \A x, y : <<x, y>> \in T => f[x] \in Errors \/ f[x] = Common(g, f, y)
      BY TowerValues
    <3>1. CASE kind = "null"
      <4>1. g[m].op \in {"Attribute", "Subscript", "Len"} /\ bad = NoneError
        BY <1>r, <2>3, <3>1 DEF Access, Raised
      <4>2. a \in DOMAIN g /\ a \in S /\ f[a] # bad
        BY <1>4, <2>3, <4>1, SlotFacts
      <4>3. g[m].op = "Subscript" => b \in DOMAIN g /\ f[b] # bad
        BY <1>4, <2>3, <4>1, SlotFacts
      <4>4. f[a] \in Errors \/ f[a] # None
        BY <2>1, <2>3, <3>1, <3>t DEF Open
      <4>5. Solution(g, negative, f, m) /\ f[a] \in Values
        BY <1>s, <4>2
      <4>6. f[a] \notin Errors
        BY <1>3, <4>1, <4>2, <4>5 DEF Solution
      <4>7. f[m] = NoneError
        BY <1>3, <4>1
      <4> HIDE DEF a, b
      <4>8. CASE g[m].op = "Attribute"
        <5>1. f[m] = Attribute(f[a])
          BY <4>5, <4>6, <4>8 DEF Solution, a
        <5> QED
          BY <4>4, <4>5, <4>6, <4>7, <5>1, AccessValues
      <4>9. CASE g[m].op = "Len"
        <5>1. f[m] = Length(f[a])
          BY <4>5, <4>6, <4>9 DEF Solution, a
        <5> QED
          BY <4>4, <4>5, <4>6, <4>7, <5>1, AccessValues
      <4>10. CASE g[m].op = "Subscript"
        <5>1. f[b] \notin Errors
          BY <1>3, <4>1, <4>3, <4>5, <4>6, <4>10 DEF Solution, a, b
        <5>2. f[m] = Item(f[a], f[b], negative)
          BY <4>5, <4>6, <4>10, <5>1 DEF Solution, a, b
        <5>3. f[b] \in Values
          BY <1>s, <4>3, <4>10
        <5> QED
          BY <4>4, <4>5, <4>6, <4>7, <5>2, <5>3, AccessValues
      <4> QED
        BY <4>1, <4>8, <4>9, <4>10
    <3>2. CASE kind = "bounds"
      <4>1. g[m].op = "Subscript" /\ bad = IndexError /\ <<b, s>> \in T
        BY <1>r, <2>3, <3>2 DEF Access, Raised
      <4>2. a \in DOMAIN g /\ a \in S /\ f[a] # bad /\ b \in DOMAIN g /\ f[b] # bad
        BY <1>4, <2>3, <4>1, SlotFacts
      <4>3. Solution(g, negative, f, m) /\ f[a] \in Values /\ f[b] \in Values
        BY <1>s, <4>2
      <4>4. f[m] = IndexError
        BY <1>3, <4>1
      <4>5. <<a, v>> \in T
        BY <2>3
      <4> HIDE DEF a, b
      <4>6. f[a] \notin Errors
        BY <4>1, <4>2, <4>3, <4>4 DEF Solution, a
      <4>7. f[b] \notin Errors
        BY <4>1, <4>2, <4>3, <4>4, <4>6 DEF Solution, a, b
      <4>8. f[m] = Item(f[a], f[b], negative)
        BY <4>1, <4>3, <4>6, <4>7 DEF Solution, a, b
      <4>9. f[a] = Common(g, f, v) /\ f[b] = Common(g, f, s)
        BY <3>t, <4>1, <4>5, <4>6, <4>7
      <4>10. PICK n, x : f[a] = ListV(n) /\ f[b] = IntV(x) /\ 0 <= x /\ x < n
        BY <2>1, <3>2, <4>9 DEF Open
      <4> QED
        BY <4>3, <4>4, <4>8, <4>10, AccessValues
    <3> QED
      BY <3>1, <3>2
  <2>4. CASE /\ g[m].op \notin Access(kind)
             /\ \A c \in Kids(g, m) : c \in S \/ <<c, v, s>> \in D
    <3>1. PICK j \in DOMAIN g[m].kids : f[Kid(g, m, j)] = bad
      BY <1>6, <2>4
    <3>2. Kid(g, m, j) \in Kids(g, m)
      BY SlotFacts
    <3>3. Claimed(Kid(g, m, j))
      BY <2>1, <2>4, <3>2
    <3> HIDE DEF Claimed
    <3> QED
      BY <1>4, <3>1, <3>2, <3>3
  <2> QED
    BY <1>8, <2>2, <2>3, <2>4 DEF JustD
<1> QED
  BY <1>7, <1>8

-----------------------------------------------------------------------------
(* A certificate survives what does not matter to it. g2 has an image of   *)
(* each node of B, and a slot of the image holds the image of what was in  *)
(* the slot, or something that is known to be as good.                     *)

(* w can be taken for u where a certificate looks at it.                   *)
Alike(kind, u, w) ==
  /\ u.op = w.op /\ DOMAIN u.kids = DOMAIN w.kids
  /\ u.op = "Compare" /\ u.val = "IsNot" => w.val = u.val
  /\ kind = "bounds" /\ u.op = "Compare" /\ u.val \in {"Gt", "GtE"} => w.val = u.val
  /\ kind = "bounds" /\ u.op = "Constant" /\ u.val = 0 => w.val = u.val

(* What c is known to be holds of c2 as well.                              *)
Moves(B, to, S, D, T, S2, D2, T2, c, c2) ==
  /\ c \in S => c2 \in S2
  /\ \A v \in B : <<c, v>> \in T => <<c2, to[v]>> \in T2
  /\ \A v, s \in B : <<c, v, s>> \in D => <<c2, to[v], to[s]>> \in D2

(* The images of B in g2 are alike and have what their originals have;     *)
(* where a slot holds another node, it is in the place of an access and    *)
(* has the same.                                                           *)
Follows(kind, g, B, g2, to, S, D, T, S2, D2, T2) ==
  \A m \in B :
    /\ m \in DOMAIN g /\ to[m] \in DOMAIN g2 /\ Kids(g, m) \subseteq B
    /\ \A v : <<m, v>> \in T => v \in B
    /\ Alike(kind, g[m], g2[to[m]]) /\ Moves(B, to, S, D, T, S2, D2, T2, m, to[m])
    /\ \A j \in DOMAIN g[m].kids :
         \/ Kid(g2, to[m], j) = to[Kid(g, m, j)]
         \/ /\ ~Tame(g, Kid(g, m, j))
            /\ Moves(B, to, S, D, T, S2, D2, T2, Kid(g, m, j), Kid(g2, to[m], j))

(* What is in a slot has what was in it.                                   *)
SlotKept(B, g, g2, to, S, D, T, S2, D2, T2, m, j) ==
  LET c  == Kid(g, m, j)
      c2 == Kid(g2, to[m], j)
  IN  /\ c \in B /\ j \in DOMAIN g2[to[m]].kids
      /\ Tame(g, c) => c2 = to[c]
      /\ c \in S => c2 \in S2
      /\ \A v : <<c, v>> \in T => v \in B /\ <<c2, to[v]>> \in T2
      /\ \A v, s \in B : <<c, v, s>> \in D => <<c2, to[v], to[s]>> \in D2

LEMMA FollowFacts ==
  ASSUME NEW kind, NEW g \in Heaps, NEW B, NEW g2 \in Heaps, NEW to, NEW S, NEW D, NEW T,
         NEW S2, NEW D2, NEW T2, Follows(kind, g, B, g2, to, S, D, T, S2, D2, T2),
         NEW m \in B, NEW j \in DOMAIN g[m].kids
  PROVE  SlotKept(B, g, g2, to, S, D, T, S2, D2, T2, m, j)
<1> DEFINE c  == Kid(g, m, j)
           c2 == Kid(g2, to[m], j)
<1>1. m \in DOMAIN g /\ Kids(g, m) \subseteq B /\ DOMAIN g[m].kids = DOMAIN g2[to[m]].kids
  BY DEF Follows, Alike
<1>2. c \in B
  BY <1>1, SlotFacts
<1>3. c2 = to[c] \/ (~Tame(g, c) /\ Moves(B, to, S, D, T, S2, D2, T2, c, c2))
  BY DEF Follows
<1>4. Moves(B, to, S, D, T, S2, D2, T2, c, to[c]) /\ \A v : <<c, v>> \in T => v \in B
  BY <1>2 DEF Follows
<1> HIDE DEF c, c2
<1>5. Moves(B, to, S, D, T, S2, D2, T2, c, c2)
  BY <1>3, <1>4
<1>6. /\ c \in S => c2 \in S2
      /\ \A v : <<c, v>> \in T => v \in B /\ <<c2, to[v]>> \in T2
      /\ \A v, s \in B : <<c, v, s>> \in D => <<c2, to[v], to[s]>> \in D2
  BY <1>4, <1>5 DEF Moves
<1> QED
  BY <1>1, <1>2, <1>3, <1>6 DEF c, c2, SlotKept

(* Tests stay tests of the same nodes.                                     *)
LEMMA NotNoneFollows ==
  ASSUME NEW kind, NEW g \in Heaps, NEW B, NEW g2 \in Heaps, NEW to, NEW S, NEW D, NEW T,
         NEW S2, NEW D2, NEW T2, Follows(kind, g, B, g2, to, S, D, T, S2, D2, T2),
         NEW q \in B, NotNone(g, q)
  PROVE  /\ NotNone(g2, to[q]) /\ {1, 2} \subseteq DOMAIN g[q].kids /\ Tame(g, q)
<1>f. \A m \in B : \A j \in DOMAIN g[m].kids : SlotKept(B, g, g2, to, S, D, T, S2, D2, T2, m, j)
  BY FollowFacts
<1> DEFINE b == Kid(g, q, 2)
<1>1. g[q].op = "Compare" /\ g[q].val = "IsNot" /\ g[b].op = "None"
  BY DEF NotNone, Tests
<1>2. q \in DOMAIN g /\ Alike(kind, g[q], g2[to[q]])
  BY DEF Follows
<1>3. {1, 2} \subseteq DOMAIN g[q].kids
  BY <1>1, <1>2, SlotFacts
<1>4. b \in B /\ Kid(g2, to[q], 2) = to[b]
  BY <1>1, <1>3, <1>f DEF SlotKept, Tame
<1>5. Alike(kind, g[b], g2[to[b]])
  BY <1>4 DEF Follows
<1> HIDE DEF b
<1>6. g2[to[b]].op = "None" /\ g2[to[q]].op = "Compare" /\ g2[to[q]].val = "IsNot"
  BY <1>1, <1>2, <1>5 DEF Alike
<1> QED
  BY <1>1, <1>3, <1>4, <1>6 DEF NotNone, Tests, Tame

LEMMA OpensFollows ==
  ASSUME NEW kind, NEW g \in Heaps, NEW B, NEW g2 \in Heaps, NEW to, NEW S, NEW D, NEW T,
         NEW S2, NEW D2, NEW T2, Follows(kind, g, B, g2, to, S, D, T, S2, D2, T2),
         NEW q \in B, NEW v, NEW s, Opens(kind, g, T, q, v, s)
  PROVE  Tame(g, q) /\ v \in B /\ s \in B /\ Opens(kind, g2, T2, to[q], to[v], to[s])
<1>f. \A m \in B : \A j \in DOMAIN g[m].kids : SlotKept(B, g, g2, to, S, D, T, S2, D2, T2, m, j)
  BY FollowFacts
<1> DEFINE a == Kid(g, q, 1)
           b == Kid(g, q, 2)
<1>1. CASE kind = "null"
  <2>1. NotNone(g, q) /\ <<a, v>> \in T /\ s = v
    BY <1>1 DEF Opens
  <2>2. /\ NotNone(g2, to[q]) /\ {1, 2} \subseteq DOMAIN g[q].kids /\ Tame(g, q)
    BY <2>1, NotNoneFollows
  <2>3. v \in B /\ <<Kid(g2, to[q], 1), to[v]>> \in T2
    BY <2>1, <2>2, <1>f DEF SlotKept
  <2> QED
    BY <1>1, <2>1, <2>2, <2>3 DEF Opens
<1>2. CASE kind = "bounds"
  <2> DEFINE l  == Kid(g, a, 1)
             l1 == Kid(g, l, 1)
             a2 == Kid(g, a, 2)
             b1 == Kid(g, b, 1)
             b2 == Kid(g, b, 2)
  <2>1. /\ g[q].op = "And" /\ g[a].op = "Compare" /\ g[a].val = "Gt"
        /\ g[b].op = "Compare" /\ g[b].val = "GtE" /\ g[l].op = "Len"
        /\ <<l1, v>> \in T /\ <<a2, s>> \in T /\ <<b1, s>> \in T
        /\ g[b2].op = "Constant" /\ g[b2].val = 0
    <3>1. InList(g, T, q, v, s)
      BY <1>2 DEF Opens
    <3> QED
      BY <3>1 DEF InList, Tests, Zero
  <2>2. q \in DOMAIN g /\ {1, 2} \subseteq DOMAIN g[q].kids
    <3>1. q \in DOMAIN g
      BY DEF Follows
    <3> QED
      BY <2>1, <3>1, SlotFacts
  <2>3. /\ a \in B /\ b \in B /\ Kid(g2, to[q], 1) = to[a] /\ Kid(g2, to[q], 2) = to[b]
    BY <2>1, <2>2, <1>f DEF SlotKept, Tame
  <2> HIDE DEF a, b
  <2>4. /\ a \in DOMAIN g /\ b \in DOMAIN g /\ Alike(kind, g[q], g2[to[q]])
        /\ Alike(kind, g[a], g2[to[a]]) /\ Alike(kind, g[b], g2[to[b]])
    BY <2>3 DEF Follows
  <2>5. {1, 2} \subseteq DOMAIN g[a].kids /\ {1, 2} \subseteq DOMAIN g[b].kids
    BY <2>1, <2>4, SlotFacts
  <2>6. /\ l \in B /\ Kid(g2, to[a], 1) = to[l] /\ b2 \in B /\ Kid(g2, to[b], 2) = to[b2]
    BY <2>1, <2>3, <2>5, <1>f DEF SlotKept, Tame
  <2>7. s \in B /\ <<Kid(g2, to[a], 2), to[s]>> \in T2
    BY <2>1, <2>3, <2>5, <1>f DEF SlotKept
  <2>8. <<Kid(g2, to[b], 1), to[s]>> \in T2
    BY <2>1, <2>3, <2>5, <1>f DEF SlotKept
  <2> HIDE DEF l, b2
  <2>9. l \in DOMAIN g /\ Alike(kind, g[l], g2[to[l]]) /\ Alike(kind, g[b2], g2[to[b2]])
    BY <2>6 DEF Follows
  <2>10. 1 \in DOMAIN g[l].kids
    BY <2>1, <2>9, SlotFacts
  <2>11. v \in B /\ <<Kid(g2, to[l], 1), to[v]>> \in T2
    BY <2>1, <2>6, <2>10, <1>f DEF SlotKept
  <2>12. /\ g2[to[q]].op = "And" /\ g2[to[a]].op = "Compare" /\ g2[to[a]].val = "Gt"
         /\ g2[to[b]].op = "Compare" /\ g2[to[b]].val = "GtE" /\ g2[to[l]].op = "Len"
         /\ g2[to[b2]].op = "Constant" /\ g2[to[b2]].val = 0
    BY <1>2, <2>1, <2>4, <2>9 DEF Alike
  <2>13. InList(g2, T2, to[q], to[v], to[s])
    BY <2>3, <2>6, <2>7, <2>8, <2>11, <2>12 DEF InList, Tests, Zero
  <2> QED
    BY <1>2, <2>1, <2>7, <2>11, <2>13 DEF Opens, Tame
<1> QED
  BY <1>1, <1>2 DEF Opens

(* Each reason is kept.                                                    *)
LEMMA Carried ==
  ASSUME NEW kind, NEW g \in Heaps, NEW B, NEW g2 \in Heaps, NEW to, NEW S, NEW D, NEW T,
         NEW S2, NEW D2, NEW T2, Follows(kind, g, B, g2, to, S, D, T, S2, D2, T2),
         Safe(kind, g, S, D, T)
  PROVE  /\ \A m \in S \cap B : JustS(kind, g2, S2, D2, T2, to[m])
         /\ \A m, v, s \in B :
              <<m, v, s>> \in D => JustD(kind, g2, S2, D2, T2, to[m], to[v], to[s])
         /\ \A m, v \in B : <<m, v>> \in T => JustT(kind, g2, S2, T2, to[m], to[v])
<1>f. \A m \in B : \A j \in DOMAIN g[m].kids : SlotKept(B, g, g2, to, S, D, T, S2, D2, T2, m, j)
  BY FollowFacts
<1>1. ASSUME NEW m \in B
      PROVE  /\ m \in DOMAIN g /\ to[m] \in DOMAIN g2
             /\ Alike(kind, g[m], g2[to[m]]) /\ DOMAIN g[m].kids = DOMAIN g2[to[m]].kids
             /\ g2[to[m]].op = g[m].op /\ (m \in S => to[m] \in S2)
  BY DEF Follows, Alike, Moves
<1>2. ASSUME NEW m \in B, Kids(g, m) \subseteq S
      PROVE  Kids(g2, to[m]) \subseteq S2
  <2> SUFFICES ASSUME NEW c2 \in Kids(g2, to[m]) PROVE c2 \in S2
    OBVIOUS
  <2>1. PICK j \in DOMAIN g2[to[m]].kids : c2 = Kid(g2, to[m], j)
    BY DEF Kids, Kid
  <2>2. j \in DOMAIN g[m].kids
    BY <1>1
  <2>3. Kid(g, m, j) \in S
    BY <1>1, <1>2, <2>2, SlotFacts
  <2> QED
    BY <2>1, <2>2, <2>3, <1>f DEF SlotKept
<1>3. ASSUME NEW m \in B, m \in S
      PROVE  JustS(kind, g2, S2, D2, T2, to[m])
  <2>1. JustS(kind, g, S, D, T, m)
    BY <1>3 DEF Safe
  <2>2. CASE Kids(g, m) \subseteq S
    BY <1>1, <1>2, <2>1, <2>2 DEF JustS
  <2>3. CASE Guarding(kind, g, S, D, T, m)
    <3>1. g[m].op = "IfExp" /\ Kid(g, m, 1) \in S /\ Kid(g, m, 3) \in S
      BY <2>3 DEF Guarding
    <3>2. PICK v, s : <<Kid(g, m, 2), v, s>> \in D /\ Opens(kind, g, T, Kid(g, m, 1), v, s)
      BY <2>3 DEF Guarding
    <3>3. {1, 2, 3} \subseteq DOMAIN g[m].kids
      BY <1>1, <3>1, SlotFacts
    <3> DEFINE q == Kid(g, m, 1)
               q2 == Kid(g2, to[m], 1)
    <3>4. q \in B /\ q2 \in S2 /\ Kid(g2, to[m], 3) \in S2 /\ (Tame(g, q) => q2 = to[q])
      BY <3>1, <3>3, <1>f DEF SlotKept
    <3>5. Opens(kind, g, T, q, v, s)
      BY <3>2
    <3> HIDE DEF q, q2
    <3>6. Tame(g, q) /\ v \in B /\ s \in B /\ Opens(kind, g2, T2, to[q], to[v], to[s])
      BY <3>4, <3>5, OpensFollows
    <3>7. <<Kid(g2, to[m], 2), to[v], to[s]>> \in D2
      BY <3>2, <3>3, <3>6, <1>f DEF SlotKept
    <3>8. Guarding(kind, g2, S2, D2, T2, to[m])
      BY <1>1, <3>1, <3>4, <3>6, <3>7 DEF Guarding, q2
    <3> QED
      BY <1>1, <2>1, <3>8 DEF JustS
  <2> QED
    BY <2>1, <2>2, <2>3 DEF JustS
<1>4. ASSUME NEW m \in B, NEW v \in B, NEW s \in B, <<m, v, s>> \in D
      PROVE  JustD(kind, g2, S2, D2, T2, to[m], to[v], to[s])
  <2>1. JustD(kind, g, S, D, T, m, v, s)
    BY <1>4 DEF Safe
  <2>2. CASE m \in S
    BY <1>1, <2>2 DEF JustD
  <2>3. CASE /\ g[m].op \in Access(kind) /\ Kids(g, m) \subseteq S /\ <<Kid(g, m, 1), v>> \in T
             /\ kind = "bounds" => <<Kid(g, m, 2), s>> \in T
    <3>1. g[m].op \in {"Attribute", "Subscript", "Len"} /\ (kind = "bounds" => g[m].op = "Subscript")
      BY <2>3 DEF Access
    <3>2. 1 \in DOMAIN g[m].kids /\ (kind = "bounds" => 2 \in DOMAIN g[m].kids)
      BY <1>1, <3>1, SlotFacts
    <3>3. <<Kid(g2, to[m], 1), to[v]>> \in T2
      BY <2>3, <3>2, <1>f DEF SlotKept
    <3>4. kind = "bounds" => <<Kid(g2, to[m], 2), to[s]>> \in T2
      BY <2>3, <3>2, <1>f DEF SlotKept
    <3> QED
      BY <1>1, <1>2, <2>3, <3>3, <3>4 DEF JustD
  <2>4. CASE /\ g[m].op \notin Access(kind)
             /\ \A c \in Kids(g, m) : c \in S \/ <<c, v, s>> \in D
    <3>1. ASSUME NEW c2 \in Kids(g2, to[m])
          PROVE  c2 \in S2 \/ <<c2, to[v], to[s]>> \in D2
      <4>1. PICK j \in DOMAIN g2[to[m]].kids : c2 = Kid(g2, to[m], j)
        BY DEF Kids, Kid
      <4>2. j \in DOMAIN g[m].kids
        BY <1>1
      <4>3. Kid(g, m, j) \in S \/ <<Kid(g, m, j), v, s>> \in D
        BY <1>1, <2>4, <4>2, SlotFacts
      <4> QED
        BY <4>1, <4>2, <4>3, <1>f DEF SlotKept
    <3> QED
      BY <1>1, <2>4, <3>1 DEF JustD
  <2> QED
    BY <2>1, <2>2, <2>3, <2>4 DEF JustD
<1>5. ASSUME NEW m \in B, NEW v \in B, <<m, v>> \in T
      PROVE  JustT(kind, g2, S2, T2, to[m], to[v])
  <2>1. JustT(kind, g, S, T, m, v) /\ v \in S /\ kind # "len"
    BY <1>5 DEF Safe, JustT
  <2>2. to[v] \in S2
    BY <1>1, <2>1
  <2>3. CASE m = v
    BY <2>1, <2>2, <2>3 DEF JustT
  <2>4. CASE m # v
    <3> DEFINE q == Kid(g, m, 1)
               x == Kid(g, m, 2)
               z == Kid(g, m, 3)
               a == Kid(g, v, 1)
    <3>1. /\ kind = "bounds" /\ g[v].op = "Attribute" /\ g[m].op = "IfExp" /\ NotNone(g, q)
          /\ Kid(g, q, 1) = a /\ Tame(g, a) /\ <<x, v>> \in T /\ Zero(g, z)
      BY <2>1, <2>4 DEF JustT
    <3>2. {1, 2, 3} \subseteq DOMAIN g[m].kids /\ 1 \in DOMAIN g[v].kids
      BY <1>1, <3>1, SlotFacts
    <3>3. q \in B /\ (Tame(g, q) => Kid(g2, to[m], 1) = to[q])
      BY <3>2, <1>f DEF SlotKept
    <3>4. <<Kid(g2, to[m], 2), to[v]>> \in T2
      BY <3>1, <3>2, <1>f DEF SlotKept
    <3>5. z \in B /\ (Tame(g, z) => Kid(g2, to[m], 3) = to[z])
      BY <3>2, <1>f DEF SlotKept
    <3>6. a \in B /\ Kid(g2, to[v], 1) = to[a]
      BY <3>1, <3>2, <1>f DEF SlotKept
    <3> HIDE DEF z, x
    <3>7. NotNone(g2, to[q]) /\ 1 \in DOMAIN g[q].kids /\ Tame(g, q)
      BY <3>1, <3>3, NotNoneFollows
    <3>8. Kid(g2, to[q], 1) = to[a]
      BY <3>1, <3>3, <3>7, <1>f DEF SlotKept
    <3> HIDE DEF a, q
    <3>9. Tame(g2, to[a])
      BY <1>1, <3>1, <3>6 DEF Tame
    <3>10. Zero(g2, to[z]) /\ Tame(g, z)
      BY <1>1, <3>1, <3>5 DEF Zero, Alike, Tame
    <3> QED
      BY <1>1, <2>1, <2>2, <3>1, <3>3, <3>4, <3>5, <3>6, <3>7, <3>8, <3>9, <3>10 DEF JustT
  <2> QED
    BY <2>3, <2>4
<1> QED
  BY <1>3, <1>4, <1>5

(* The image of a certificate.                                             *)
CarriedS(B, to, S) == {to[m] : m \in S \cap B}
CarriedT(B, to, T) == {<<to[t[1]], to[t[2]]>> : t \in {t \in B \X B : t \in T}}
CarriedD(B, to, D) ==
  {<<to[d[1]], to[d[2]], to[d[3]]>> : d \in {d \in B \X B \X B : d \in D}}

(* A certificate goes with the graph it is about.                          *)
LEMMA CarriedSafe ==
  ASSUME NEW kind, NEW g \in Heaps, NEW B, NEW g2 \in Heaps, NEW to, NEW S, NEW D, NEW T,
         Safe(kind, g, S, D, T),
         Follows(kind, g, B, g2, to, S, D, T, CarriedS(B, to, S), CarriedD(B, to, D), CarriedT(B, to, T))
  PROVE  Safe(kind, g2, CarriedS(B, to, S), CarriedD(B, to, D), CarriedT(B, to, T))
<1> DEFINE S2 == CarriedS(B, to, S)
           D2 == CarriedD(B, to, D)
           T2 == CarriedT(B, to, T)
<1>1. \A x : x \in S2 => \E m \in S \cap B : x = to[m]
  BY DEF CarriedS
<1>2. \A x, y : <<x, y>> \in T2 =>
        \E t \in B \X B : t \in T /\ x = to[t[1]] /\ y = to[t[2]]
  BY DEF CarriedT
<1>3. \A x, y, z : <<x, y, z>> \in D2 =>
        \E d \in B \X B \X B : d \in D /\ x = to[d[1]] /\ y = to[d[2]] /\ z = to[d[3]]
  BY DEF CarriedD
<1>4. Follows(kind, g, B, g2, to, S, D, T, S2, D2, T2)
  OBVIOUS
<1> HIDE DEF S2, D2, T2
<1>5. \A m \in B : to[m] \in DOMAIN g2
  BY <1>4 DEF Follows
<1>6. /\ \A m \in S \cap B : JustS(kind, g2, S2, D2, T2, to[m])
      /\ \A m, v, s \in B :
           <<m, v, s>> \in D => JustD(kind, g2, S2, D2, T2, to[m], to[v], to[s])
      /\ \A m, v \in B : <<m, v>> \in T => JustT(kind, g2, S2, T2, to[m], to[v])
  BY <1>4, Carried
<1>7. Safe(kind, g2, S2, D2, T2)
  <2>1. ASSUME NEW x \in S2
        PROVE  x \in DOMAIN g2 /\ JustS(kind, g2, S2, D2, T2, x)
    BY <1>1, <1>5, <1>6
  <2>2. ASSUME NEW x, NEW y, NEW z, <<x, y, z>> \in D2
        PROVE  {x, y, z} \subseteq DOMAIN g2 /\ JustD(kind, g2, S2, D2, T2, x, y, z)
    <3>1. PICK d \in B \X B \X B : d \in D /\ x = to[d[1]] /\ y = to[d[2]] /\ z = to[d[3]]
      BY <1>3, <2>2
    <3>2. d[1] \in B /\ d[2] \in B /\ d[3] \in B /\ <<d[1], d[2], d[3]>> \in D
      BY <3>1
    <3>3. JustD(kind, g2, S2, D2, T2, to[d[1]], to[d[2]], to[d[3]])
      BY <1>6, <3>2
    <3> QED
      BY <1>5, <3>1, <3>2, <3>3
  <2>3. ASSUME NEW x, NEW y, <<x, y>> \in T2
        PROVE  {x, y} \subseteq DOMAIN g2 /\ JustT(kind, g2, S2, T2, x, y)
    <3>1. PICK t \in B \X B : t \in T /\ x = to[t[1]] /\ y = to[t[2]]
      BY <1>2, <2>3
    <3>2. t[1] \in B /\ t[2] \in B /\ <<t[1], t[2]>> \in T
      BY <3>1
    <3>3. JustT(kind, g2, S2, T2, to[t[1]], to[t[2]])
      BY <1>6, <3>2
    <3> QED
      BY <1>5, <3>1, <3>2, <3>3
  <2> QED
    BY <2>1, <2>2, <2>3, Zenon DEF Safe
<1> QED
  BY <1>7 DEF S2, D2, T2

(* A tower stays among the nodes found from its top.                       *)
LEMMA TowerStays ==
  ASSUME NEW kind, NEW g \in Heaps, NEW rank, Ranks(g, rank), NEW S, NEW D, NEW T,
         Safe(kind, g, S, D, T), NEW B, Closed(g, B)
  PROVE  \A m \in B : \A v : <<m, v>> \in T => v \in B
<1> DEFINE Odd(m) == m \in B /\ \E v : <<m, v>> \in T /\ v \notin B
           Bad == {rank[m] : m \in {x \in DOMAIN g : Odd(x)}}
<1>0. \A m, v : <<m, v>> \in T => m \in DOMAIN g /\ JustT(kind, g, S, T, m, v)
  BY DEF Safe
<1>1. SUFFICES ASSUME Bad # {} PROVE FALSE
  <2>1. \A m : ~Odd(m)
    BY <1>0, <1>1
  <2> QED
    BY <2>1
<1>2. Bad \in SUBSET Nat
  BY DEF Ranks
<1>3. PICK r \in Bad : \A q \in Bad : r <= q
  <2> HIDE DEF Bad
  <2> QED
    BY <1>1, <1>2, LeastExists
<1>4. PICK m \in DOMAIN g : Odd(m) /\ r = rank[m]
  OBVIOUS
<1>5. PICK v : <<m, v>> \in T /\ v \notin B
  BY <1>4
<1> DEFINE x == Kid(g, m, 2)
<1>6. g[m].op = "IfExp" /\ <<x, v>> \in T
  BY <1>0, <1>4, <1>5 DEF JustT
<1>7. x \in DOMAIN g /\ x \in Kids(g, m)
  BY <1>6, SlotFacts
<1>8. rank[x] < rank[m] /\ rank[x] \in Nat /\ rank[m] \in Nat
  BY <1>7 DEF Ranks
<1>9. Odd(x)
  BY <1>4, <1>5, <1>6, <1>7 DEF Closed
<1>10. rank[x] \in Bad
  BY <1>7, <1>9
<1>11. r <= rank[x] /\ r = rank[m]
  <2> HIDE DEF Bad
  <2> QED
    BY <1>3, <1>4, <1>10
<1> QED
  BY <1>8, <1>11

(* What is enough for a part of a graph to be followed by another.         *)
LEMMA PartFollows ==
  ASSUME NEW kind, NEW g \in Heaps, NEW rank, Ranks(g, rank), NEW B, Closed(g, B), B \subseteq DOMAIN g,
         NEW g2 \in Heaps, NEW to, NEW S, NEW D, NEW T, Safe(kind, g, S, D, T),
         \A m \in B :
           /\ to[m] \in DOMAIN g2 /\ g2[to[m]].op = g[m].op /\ g2[to[m]].val = g[m].val
           /\ DOMAIN g2[to[m]].kids = DOMAIN g[m].kids
           /\ \A j \in DOMAIN g[m].kids : g2[to[m]].kids[j] = to[g[m].kids[j]]
  PROVE  Safe(kind, g2, CarriedS(B, to, S), CarriedD(B, to, D), CarriedT(B, to, T))
<1> DEFINE S2 == CarriedS(B, to, S)
           D2 == CarriedD(B, to, D)
           T2 == CarriedT(B, to, T)
<1>1. \A m \in B : \A v : <<m, v>> \in T => v \in B
  BY TowerStays
<1>2. \A m \in B : m \in S => to[m] \in S2
  BY DEF CarriedS
<1>3. \A m, v \in B : <<m, v>> \in T => <<to[m], to[v]>> \in T2
  BY DEF CarriedT
<1>4. \A m, v, s \in B : <<m, v, s>> \in D => <<to[m], to[v], to[s]>> \in D2
  BY DEF CarriedD
<1> HIDE DEF S2, D2, T2
<1>5. ASSUME NEW m \in B
      PROVE  /\ m \in DOMAIN g /\ to[m] \in DOMAIN g2 /\ Kids(g, m) \subseteq B
             /\ \A v : <<m, v>> \in T => v \in B
             /\ Alike(kind, g[m], g2[to[m]]) /\ Moves(B, to, S, D, T, S2, D2, T2, m, to[m])
             /\ \A j \in DOMAIN g[m].kids : Kid(g2, to[m], j) = to[Kid(g, m, j)]
  <2>1. Alike(kind, g[m], g2[to[m]])
    BY DEF Alike
  <2>2. Moves(B, to, S, D, T, S2, D2, T2, m, to[m])
    BY <1>2, <1>3, <1>4 DEF Moves
  <2> QED
    BY <1>1, <2>1, <2>2 DEF Closed, Kid
<1>6. Follows(kind, g, B, g2, to, S, D, T, S2, D2, T2)
  BY <1>5 DEF Follows
<1> QED
  BY <1>6, CarriedSafe DEF S2, D2, T2

(* What is not changed keeps its certificate.                              *)
LEMMA StaysSafe ==
  ASSUME NEW kind, NEW g \in Heaps, NEW rank, Ranks(g, rank), NEW B, Closed(g, B), B \subseteq DOMAIN g,
         NEW g2 \in Heaps, B \subseteq DOMAIN g2, \A m \in B : g2[m] = g[m],
         NEW n \in B, Has(kind, g, n)
  PROVE  Has(kind, g2, n)
<1>1. PICK S, D, T : Safe(kind, g, S, D, T) /\ n \in S
  BY DEF Has
<1> DEFINE to == [m \in B |-> m]
<1>2. \A m \in B : to[m] = m
  OBVIOUS
<1>3. \A m \in B : \A j \in DOMAIN g[m].kids : g[m].kids[j] \in B
  BY DEF Closed, Kids
<1> HIDE DEF to
<1>4. \A m \in B :
           /\ to[m] \in DOMAIN g2 /\ g2[to[m]].op = g[m].op /\ g2[to[m]].val = g[m].val
           /\ DOMAIN g2[to[m]].kids = DOMAIN g[m].kids
           /\ \A j \in DOMAIN g[m].kids : g2[to[m]].kids[j] = to[g[m].kids[j]]
  BY <1>2, <1>3
<1>5. Safe(kind, g2, CarriedS(B, to, S), CarriedD(B, to, D), CarriedT(B, to, T))
  BY <1>1, <1>4, PartFollows
<1>6. n \in CarriedS(B, to, S)
  BY <1>1, <1>2 DEF CarriedS
<1> QED
  BY <1>5, <1>6 DEF Has

(* A copy has the nodes that are found from a node, in their places.       *)
LEMMA CopyPlaces ==
  ASSUME NEW g \in Heaps, NEW n \in DOMAIN g
  PROVE  LET R == Reach(g, n)
             c == DeepCopy(g, n)
         IN  /\ c.node = Len(g) + Place(R, n)
             /\ \A m \in R :
                  LET v == c.heap[Len(g) + Place(R, m)] IN
                  /\ Len(g) + Place(R, m) \in DOMAIN c.heap
                  /\ v.op = g[m].op /\ v.val = g[m].val /\ DOMAIN v.kids = DOMAIN g[m].kids
                  /\ \A j \in DOMAIN g[m].kids : v.kids[j] = Len(g) + Place(R, g[m].kids[j])
<1> DEFINE R == Reach(g, n)
           C == Cardinality(R)
           e == Copies(g, n)
           c == DeepCopy(g, n)
<1>1. /\ R \subseteq DOMAIN g /\ R \in SUBSET Nat /\ IsFiniteSet(R)
  <2>1. R \subseteq DOMAIN g
    BY HeapFacts, ReachFacts
  <2>2. R \in SUBSET Nat
    BY <2>1, HeapFacts
  <2>3. IsFiniteSet(R)
    BY <2>1, HeapFacts, FS_Subset
  <2> QED
    BY <2>1, <2>2, <2>3
<1>2. /\ \A x \in R : Place(R, x) \in 1 .. C
      /\ \A x, y \in R : Place(R, x) = Place(R, y) => x = y
  <2> HIDE DEF R
  <2> QED
    BY <1>1, PlaceIsBijection
<1>3. \A x \in R : Old(g, n, Place(R, x)) = x
  BY <1>2 DEF Old
<1>4. c.heap = g \o e /\ c.node = Len(g) + Place(R, n)
  BY DeepCopyIs
<1>5. e \in Seq(Nodes) /\ DOMAIN e = 1 .. C /\ g \in Seq(Nodes)
  <2>1. C \in Nat /\ e \in Seq(Nodes) /\ Len(e) = C
    BY CopiesFacts
  <2> HIDE DEF C, e
  <2> QED
    BY <2>1, HeapFacts
<1>6. ASSUME NEW m \in R
      PROVE  LET v == c.heap[Len(g) + Place(R, m)] IN
                  /\ Len(g) + Place(R, m) \in DOMAIN c.heap
                  /\ v.op = g[m].op /\ v.val = g[m].val /\ DOMAIN v.kids = DOMAIN g[m].kids
                  /\ \A j \in DOMAIN g[m].kids : v.kids[j] = Len(g) + Place(R, g[m].kids[j])
  <2> DEFINE i == Place(R, m)
             ks == [l \in DOMAIN g[m].kids |-> Len(g) + Place(R, g[m].kids[l])]
  <2>1. i \in DOMAIN e
    BY <1>2, <1>5
  <2>2. e[i] = [g[m] EXCEPT !.kids = ks]
    <3>1. i \in 1 .. C /\ Old(g, n, i) = m
      BY <1>2, <1>3
    <3> QED
      BY <3>1 DEF Copies, CopyOf
  <2>3. g[m] \in Nodes
    BY <1>1, HeapFacts
  <2>4. Len(g) + i \in DOMAIN (g \o e) /\ (g \o e)[Len(g) + i] = e[i]
    <3> HIDE DEF e, i, c, C
    <3>4. e \in Seq(Nodes) /\ g \in Seq(Nodes) /\ i \in DOMAIN e
      BY <1>5, <2>1
    <3>5. DOMAIN e = 1 .. Len(e)
      BY <3>4
    <3>0. e \in Seq(Nodes) /\ i \in 1 .. Len(e) /\ g \in Seq(Nodes)
      BY <3>4, <3>5
    <3>1. Len(g \o e) = Len(g) + Len(e) /\ (g \o e)[Len(g) + i] = e[i] /\ g \o e \in Seq(Nodes)
      BY <3>0, Concat
    <3>2. Len(g) \in Nat /\ Len(e) \in Nat /\ i \in 1 .. Len(e)
      BY <3>0
    <3> QED
      BY <3>1, <3>2
  <2> HIDE DEF e, i
  <2>5. e[i].op = g[m].op /\ e[i].val = g[m].val /\ e[i].kids = ks
    <3> HIDE DEF ks
    <3> QED
      BY <2>2, <2>3 DEF Nodes
  <2>6. DOMAIN ks = DOMAIN g[m].kids /\ \A j \in DOMAIN g[m].kids : ks[j] = Len(g) + Place(R, g[m].kids[j])
    OBVIOUS
  <2> HIDE DEF c, ks, R
  <2>7. Len(g) + i \in DOMAIN c.heap /\ c.heap[Len(g) + i] = e[i]
    BY <1>4, <2>4
  <2> QED
    BY <2>5, <2>6, <2>7 DEF i
<1> QED
  BY <1>4, <1>6

(* A copy is as safe as what is copied.                                    *)
LEMMA CopySafe ==
  ASSUME NEW kind, NEW g \in Heaps, NEW rank, Ranks(g, rank), NEW n \in DOMAIN g, Has(kind, g, n)
  PROVE  Has(kind, DeepCopy(g, n).heap, DeepCopy(g, n).node)
<1>1. PICK S, D, T : Safe(kind, g, S, D, T) /\ n \in S
  BY DEF Has
<1> DEFINE R == Reach(g, n)
           c == DeepCopy(g, n)
           g2 == c.heap
           to == [m \in R |-> Len(g) + Place(R, m)]
<1>2. R \subseteq DOMAIN g /\ n \in R /\ Closed(g, R)
  BY HeapFacts, ReachFacts
<1>3. g2 \in Heaps
  BY DeepCopyFacts
<1>4. /\ c.node = Len(g) + Place(R, n)
      /\ \A m \in R :
                  LET v == g2[Len(g) + Place(R, m)] IN
                  /\ Len(g) + Place(R, m) \in DOMAIN g2
                  /\ v.op = g[m].op /\ v.val = g[m].val /\ DOMAIN v.kids = DOMAIN g[m].kids
                  /\ \A j \in DOMAIN g[m].kids : v.kids[j] = Len(g) + Place(R, g[m].kids[j])
  BY CopyPlaces
<1>5. \A m \in R : to[m] = Len(g) + Place(R, m)
  OBVIOUS
<1>6. \A m \in R : \A j \in DOMAIN g[m].kids : g[m].kids[j] \in R
  BY <1>2 DEF Closed, Kids
<1> HIDE DEF R, c, to, g2
<1>7. \A m \in R :
           /\ to[m] \in DOMAIN g2 /\ g2[to[m]].op = g[m].op /\ g2[to[m]].val = g[m].val
           /\ DOMAIN g2[to[m]].kids = DOMAIN g[m].kids
           /\ \A j \in DOMAIN g[m].kids : g2[to[m]].kids[j] = to[g[m].kids[j]]
  BY <1>4, <1>5, <1>6
<1>8. Safe(kind, g2, CarriedS(R, to, S), CarriedD(R, to, D), CarriedT(R, to, T))
  BY <1>1, <1>2, <1>3, <1>7, PartFollows
<1>9. c.node \in CarriedS(R, to, S)
  <2>1. n \in S \cap R /\ c.node = to[n]
    BY <1>1, <1>2, <1>4, <1>5
  <2> QED
    BY <2>1 DEF CarriedS
<1>10. Has(kind, g2, c.node)
  BY <1>8, <1>9 DEF Has
<1> QED
  BY <1>10 DEF g2, c

-----------------------------------------------------------------------------
(* What is added to a graph, or put in the place of a node.                *)

(* c2 can be taken for c.                                                  *)
Covers(S, D, T, S2, D2, T2, c, c2) ==
  /\ c \in S => c2 \in S2
  /\ \A v : <<c, v>> \in T => <<c2, v>> \in T2
  /\ \A v, s : <<c, v, s>> \in D => <<c2, v, s>> \in D2

(* What was in g is alike in g2, and a slot holds what was in it or, in    *)
(* the place of an access, what can be taken for it.                       *)
Grows(kind, g, g2, S, D, T, S2, D2, T2) ==
  /\ S \subseteq S2 /\ D \subseteq D2 /\ T \subseteq T2
  /\ \A m \in DOMAIN g :
       /\ m \in DOMAIN g2 /\ Alike(kind, g[m], g2[m])
       /\ \A j \in DOMAIN g[m].kids :
            \/ Kid(g2, m, j) = Kid(g, m, j)
            \/ /\ ~Tame(g, Kid(g, m, j))
               /\ Covers(S, D, T, S2, D2, T2, Kid(g, m, j), Kid(g2, m, j))

(* What a certificate gains needs a reason, and what it has keeps one.     *)
LEMMA Grown ==
  ASSUME NEW kind, NEW g \in Heaps, NEW g2 \in Heaps, NEW S, NEW D, NEW T,
         NEW S2, NEW D2, NEW T2, Safe(kind, g, S, D, T), Grows(kind, g, g2, S, D, T, S2, D2, T2),
         \A m \in S2 : m \notin S => m \in DOMAIN g2 /\ JustS(kind, g2, S2, D2, T2, m),
         \A m, v, s : <<m, v, s>> \in D2 /\ <<m, v, s>> \notin D =>
           {m, v, s} \subseteq DOMAIN g2 /\ JustD(kind, g2, S2, D2, T2, m, v, s),
         \A m, v : <<m, v>> \in T2 /\ <<m, v>> \notin T =>
           {m, v} \subseteq DOMAIN g2 /\ JustT(kind, g2, S2, T2, m, v)
  PROVE  Safe(kind, g2, S2, D2, T2)
<1> DEFINE B == DOMAIN g
           to == [m \in B |-> m]
<1>1. \A m \in B : to[m] = m
  OBVIOUS
<1>2. /\ \A m \in S : m \in B
      /\ \A m, v : <<m, v>> \in T => m \in B /\ v \in B
      /\ \A m, v, s : <<m, v, s>> \in D => m \in B /\ v \in B /\ s \in B
  BY DEF Safe
<1>3. \A m \in B : m \in DOMAIN g2 /\ Kids(g, m) \subseteq B
  BY HeapFacts DEF Grows
<1>4. S \subseteq S2 /\ D \subseteq D2 /\ T \subseteq T2
  BY DEF Grows
<1>k. \A m \in B : \A j \in DOMAIN g[m].kids : Kid(g, m, j) \in B
  BY SlotFacts
<1>g. \A m \in B :
       /\ Alike(kind, g[m], g2[m])
       /\ \A j \in DOMAIN g[m].kids :
            \/ Kid(g2, m, j) = Kid(g, m, j)
            \/ /\ ~Tame(g, Kid(g, m, j))
               /\ Covers(S, D, T, S2, D2, T2, Kid(g, m, j), Kid(g2, m, j))
  BY DEF Grows
<1> HIDE DEF B, to
<1>5. \A c, c2 : Covers(S, D, T, S2, D2, T2, c, c2) => Moves(B, to, S, D, T, S2, D2, T2, c, c2)
  BY <1>1 DEF Covers, Moves
<1>6. ASSUME NEW m \in B
      PROVE  /\ m \in DOMAIN g /\ to[m] \in DOMAIN g2 /\ Kids(g, m) \subseteq B
             /\ \A v : <<m, v>> \in T => v \in B
             /\ Alike(kind, g[m], g2[to[m]]) /\ Moves(B, to, S, D, T, S2, D2, T2, m, to[m])
             /\ \A j \in DOMAIN g[m].kids :
                  \/ Kid(g2, to[m], j) = to[Kid(g, m, j)]
                  \/ /\ ~Tame(g, Kid(g, m, j))
                     /\ Moves(B, to, S, D, T, S2, D2, T2, Kid(g, m, j), Kid(g2, to[m], j))
  <2>1. to[m] = m
    BY <1>1
  <2>2. Moves(B, to, S, D, T, S2, D2, T2, m, m)
    BY <1>1, <1>4 DEF Moves
  <2>3. ASSUME NEW j \in DOMAIN g[m].kids
        PROVE  \/ Kid(g2, m, j) = to[Kid(g, m, j)]
               \/ /\ ~Tame(g, Kid(g, m, j))
                  /\ Moves(B, to, S, D, T, S2, D2, T2, Kid(g, m, j), Kid(g2, m, j))
    <3>1. to[Kid(g, m, j)] = Kid(g, m, j)
      BY <1>1, <1>k
    <3> QED
      BY <1>5, <1>g, <3>1
  <2>4. m \in DOMAIN g
    BY DEF B
  <2> QED
    BY <1>2, <1>3, <1>g, <2>1, <2>2, <2>3, <2>4
<1>7. Follows(kind, g, B, g2, to, S, D, T, S2, D2, T2)
  BY <1>6 DEF Follows
<1>8. /\ \A m \in S \cap B : JustS(kind, g2, S2, D2, T2, to[m])
      /\ \A m, v, s \in B :
           <<m, v, s>> \in D => JustD(kind, g2, S2, D2, T2, to[m], to[v], to[s])
      /\ \A m, v \in B : <<m, v>> \in T => JustT(kind, g2, S2, T2, to[m], to[v])
  BY <1>7, Carried
<1>9. ASSUME NEW m \in S2
      PROVE  m \in DOMAIN g2 /\ JustS(kind, g2, S2, D2, T2, m)
  BY <1>1, <1>2, <1>3, <1>8
<1>10. ASSUME NEW m, NEW v, NEW s, <<m, v, s>> \in D2
       PROVE  {m, v, s} \subseteq DOMAIN g2 /\ JustD(kind, g2, S2, D2, T2, m, v, s)
  <2>1. CASE <<m, v, s>> \in D
    <3>1. m \in B /\ v \in B /\ s \in B /\ to[m] = m /\ to[v] = v /\ to[s] = s
      BY <1>1, <1>2, <2>1
    <3>2. JustD(kind, g2, S2, D2, T2, to[m], to[v], to[s])
      BY <1>8, <2>1, <3>1
    <3> QED
      BY <1>3, <3>1, <3>2
  <2>2. CASE <<m, v, s>> \notin D
    BY <1>10, <2>2
  <2> QED
    BY <2>1, <2>2
<1>11. ASSUME NEW m, NEW v, <<m, v>> \in T2
       PROVE  {m, v} \subseteq DOMAIN g2 /\ JustT(kind, g2, S2, T2, m, v)
  <2>1. CASE <<m, v>> \in T
    <3>1. m \in B /\ v \in B /\ to[m] = m /\ to[v] = v
      BY <1>1, <1>2, <2>1
    <3>2. JustT(kind, g2, S2, T2, to[m], to[v])
      BY <1>8, <2>1, <3>1
    <3> QED
      BY <1>3, <3>1, <3>2
  <2>2. CASE <<m, v>> \notin T
    BY <1>11, <2>2
  <2> QED
    BY <2>1, <2>2
<1> QED
  BY <1>9, <1>10, <1>11, Zenon DEF Safe

(* A node is put in the place of one that it can be taken for.             *)
LEMMA PutSafe ==
  ASSUME NEW kind, NEW g \in Heaps, NEW S, NEW D, NEW T, Safe(kind, g, S, D, T),
         NEW p \in DOMAIN g, NEW i \in DOMAIN g[p].kids, NEW x \in DOMAIN g,
         ~Tame(g, Kid(g, p, i)), Covers(S, D, T, S, D, T, Kid(g, p, i), x)
  PROVE  Safe(kind, Put(g, p, i, x), S, D, T)
<1> DEFINE g2 == Put(g, p, i, x)
           ks == [g[p].kids EXCEPT ![i] = x]
<1>1. /\ g \in Seq(Nodes) /\ DOMAIN g = 1 .. Len(g) /\ g[p] \in Nodes /\ g[p].kids \in Seq(DOMAIN g)
  BY HeapFacts
<1>2. g2 \in Heaps /\ \A m \in DOMAIN g : m # p => g2[m] = g[m]
  <2>1. i \in Nat
    BY <1>1
  <2> QED
    BY <2>1, Relink DEF Put
<1>3. DOMAIN g2 = DOMAIN g /\ g2[p] = [g[p] EXCEPT !.kids = ks]
  BY <1>1 DEF Put
<1>4. DOMAIN ks = DOMAIN g[p].kids /\ ks[i] = x /\ \A j \in DOMAIN g[p].kids : j # i => ks[j] = g[p].kids[j]
  OBVIOUS
<1> HIDE DEF g2, ks
<1>5. g2[p].op = g[p].op /\ g2[p].val = g[p].val /\ g2[p].kids = ks
  BY <1>1, <1>3 DEF Nodes
<1>6. Grows(kind, g, g2, S, D, T, S, D, T)
  <2> SUFFICES ASSUME NEW m \in DOMAIN g
               PROVE  /\ m \in DOMAIN g2 /\ Alike(kind, g[m], g2[m])
                      /\ \A j \in DOMAIN g[m].kids :
                          \/ Kid(g2, m, j) = Kid(g, m, j)
                          \/ /\ ~Tame(g, Kid(g, m, j))
                             /\ Covers(S, D, T, S, D, T, Kid(g, m, j), Kid(g2, m, j))
    BY DEF Grows
  <2>1. CASE m # p
    BY <1>2, <1>3, <2>1 DEF Kid, Alike
  <2>2. CASE m = p
    <3>1. Alike(kind, g[m], g2[m])
      BY <1>4, <1>5, <2>2 DEF Alike
    <3>2. ASSUME NEW j \in DOMAIN g[m].kids
          PROVE \/ Kid(g2, m, j) = Kid(g, m, j)
                \/ /\ ~Tame(g, Kid(g, m, j))
                   /\ Covers(S, D, T, S, D, T, Kid(g, m, j), Kid(g2, m, j))
      <4>1. CASE j = i
        <5>1. Kid(g2, p, i) = x
          BY <1>4, <1>5 DEF Kid
        <5> QED
          BY <2>2, <4>1, <5>1
      <4>2. CASE j # i
        BY <1>4, <1>5, <2>2, <4>2 DEF Kid
      <4> QED
        BY <4>1, <4>2
    <3> QED
      BY <1>3, <2>2, <3>1, <3>2
  <2> QED
    BY <2>1, <2>2
<1>7. Safe(kind, g2, S, D, T)
  BY <1>2, <1>6, Grown
<1> QED
  BY <1>7 DEF g2

(* A value that no certificate looks at is changed.                        *)
LEMMA ValueSafe ==
  ASSUME NEW kind, NEW g \in Heaps, NEW g2 \in Heaps, NEW S, NEW D, NEW T, Safe(kind, g, S, D, T),
         \A m \in DOMAIN g : m \in DOMAIN g2 /\ Alike(kind, g[m], g2[m]) /\ g2[m].kids = g[m].kids
  PROVE  Safe(kind, g2, S, D, T)
<1>1. Grows(kind, g, g2, S, D, T, S, D, T)
  BY DEF Grows, Kid
<1> QED
  BY <1>1, Grown

(* Nodes are added.                                                        *)
LEMMA AddedGrows ==
  ASSUME NEW kind, NEW g \in Heaps, NEW g2, NEW S, NEW D, NEW T,
         NEW S2, NEW D2, NEW T2, S \subseteq S2, D \subseteq D2, T \subseteq T2,
         \A m \in DOMAIN g : m \in DOMAIN g2 /\ g2[m] = g[m]
  PROVE  Grows(kind, g, g2, S, D, T, S2, D2, T2)
BY DEF Grows, Kid, Alike

-----------------------------------------------------------------------------
(* The shape of what the visit methods add for a guard.                    *)

(* Nodes are added to h, all of N among them.                              *)
Gains(g2, N) ==
  /\ g2 \in Heaps /\ N \subseteq DOMAIN g2 /\ N \cap DOMAIN h = {}
  /\ \A m \in DOMAIN h : m \in DOMAIN g2 /\ g2[m] = h[m]

(* The conditional expression at y: the test q, n, and 0.                  *)
Guarded(g2, n, N, y, q) ==
  LET z == Kid(g2, y, 3)
  IN  /\ {q, z, y} \subseteq N /\ g2[y].op = "IfExp" /\ Kids(g2, y) = {q, n, z}
      /\ Kid(g2, y, 1) = q /\ Kid(g2, y, 2) = n /\ Zero(g2, z)

(* A null check of n, and a bounds check of n.                             *)
NullShape(g2, n, N, y, q) ==
  /\ Gains(g2, N) /\ Guarded(g2, n, N, y, q) /\ NotNone(g2, q) /\ Kid(g2, q, 1) = Kid(h, n, 1)
  /\ \A x \in N : x # y => g2[x].op \in {"None", "Compare", "Constant"}
                           /\ Kids(g2, x) \subseteq N \cup {Kid(h, n, 1)}

BoundsShape(g2, n, N, y, q) ==
  /\ Gains(g2, N) /\ Guarded(g2, n, N, y, q)
  /\ InList(g2, {<<Kid(h, n, j), Kid(h, n, j)>> : j \in {1, 2}}, q, Kid(h, n, 1), Kid(h, n, 2))
  /\ \A x \in N : x # y =>
       /\ g2[x].op \in {"Len", "Compare", "Constant", "And"}
       /\ Kids(g2, x) \subseteq N \cup {Kid(h, n, 1), Kid(h, n, 2)}
       /\ g2[x].op = "Len" => Kids(g2, x) = {Kid(h, n, 1)} /\ Kid(g2, x, 1) = Kid(h, n, 1)

(* Nodes as they are made, and their children.                             *)
LEMMA NodeParts ==
  \A op, val, kids : Node(op, val, kids).op = op /\ Node(op, val, kids).kids = kids
BY DEF Node

LEMMA NilShape == ASSUME NEW g, NEW m, g[m] = Nil PROVE Kids(g, m) = {} /\ g[m].op = "None"
<1>1. Kids(g, m) = KidsOf(g[m])
  BY DEF Kids, KidsOf
<1>2. Kids(g, m) = {}
  BY <1>1, NilNode
<1>3. Nil.op = "None"
  BY DEF Nil, Leaf
<1> QED
  BY <1>2, <1>3

LEMMA ZeroShape == ASSUME NEW g, NEW m, g[m] = Constant(0) PROVE Kids(g, m) = {} /\ Zero(g, m)
<1>1. Kids(g, m) = KidsOf(g[m])
  BY DEF Kids, KidsOf
<1>2. Kids(g, m) = {}
  <2>1. 0 \in Int
    OBVIOUS
  <2> QED
    BY <1>1, <2>1, ConstantNode
<1> QED
  BY <1>2 DEF Constant, Leaf, Zero

LEMMA OneShape ==
  ASSUME NEW g, NEW m, NEW a \in Nat, g[m] = Plain("Len", <<a>>)
  PROVE  g[m].op = "Len" /\ Kids(g, m) = {a} /\ Kid(g, m, 1) = a
<1> DEFINE kids == <<a>>
<1>1. KidsOf(Node("Len", "", kids)) = {a}
  BY OneKid DEF Plain
<1>2. kids[1] = a /\ g[m] = Node("Len", "", kids)
  BY DEF Plain
<1> HIDE DEF kids
<1>3. Kids(g, m) = KidsOf(g[m])
  BY DEF Kids, KidsOf
<1>4. g[m].op = "Len" /\ g[m].kids = kids
  <2> DEFINE u == g[m]
  <2>1. u = Node("Len", "", kids)
    BY <1>2
  <2> HIDE DEF u
  <2>2. u.op = "Len" /\ u.kids = kids
    BY <2>1, NodeParts, ZenonT(40)
  <2> QED
    BY <2>2 DEF u
<1> QED
  BY <1>1, <1>2, <1>3, <1>4 DEF Kid

LEMMA AndShape ==
  ASSUME NEW g, NEW m, NEW a \in Nat, NEW b \in Nat, g[m] = Plain("And", <<a, b>>)
  PROVE  g[m].op = "And" /\ Kids(g, m) = {a, b} /\ Kid(g, m, 1) = a /\ Kid(g, m, 2) = b
<1> DEFINE kids == <<a, b>>
<1>1. KidsOf(Node("And", "", kids)) = {a, b}
  BY TwoKids DEF Plain
<1>2. kids[1] = a /\ kids[2] = b /\ g[m] = Node("And", "", kids)
  BY DEF Plain
<1> HIDE DEF kids
<1>3. Kids(g, m) = KidsOf(g[m])
  BY DEF Kids, KidsOf
<1>4. g[m].op = "And" /\ g[m].kids = kids
  <2> DEFINE u == g[m]
  <2>1. u = Node("And", "", kids)
    BY <1>2
  <2> HIDE DEF u
  <2>2. u.op = "And" /\ u.kids = kids
    BY <2>1, NodeParts, ZenonT(40)
  <2> QED
    BY <2>2 DEF u
<1> QED
  BY <1>1, <1>2, <1>3, <1>4 DEF Kid

LEMMA CompareShape ==
  ASSUME NEW g, NEW m, NEW val \in {"IsNot", "Gt", "GtE"}, NEW a \in Nat, NEW b \in Nat,
         g[m] = Node("Compare", val, <<a, b>>)
  PROVE  Tests(g, m, val) /\ Kids(g, m) = {a, b} /\ Kid(g, m, 1) = a /\ Kid(g, m, 2) = b
<1> DEFINE kids == <<a, b>>
<1>1. KidsOf(Node("Compare", val, kids)) = {a, b}
  BY ClassFacts, CompareNode
<1>2. kids[1] = a /\ kids[2] = b /\ g[m] = Node("Compare", val, kids)
  OBVIOUS
<1> HIDE DEF kids
<1> QED
  BY <1>1, <1>2 DEF Node, Kid, Kids, KidsOf, Tests

LEMMA IfExpShape ==
  ASSUME NEW g, NEW m, NEW a \in Nat, NEW b \in Nat, NEW c \in Nat, g[m] = Plain("IfExp", <<a, b, c>>)
  PROVE  /\ g[m].op = "IfExp" /\ Kids(g, m) = {a, b, c}
         /\ Kid(g, m, 1) = a /\ Kid(g, m, 2) = b /\ Kid(g, m, 3) = c
<1> DEFINE kids == <<a, b, c>>
<1>1. KidsOf(Node("IfExp", "", kids)) = {a, b, c}
  BY IfExpNode DEF Plain
<1>2. kids[1] = a /\ kids[2] = b /\ kids[3] = c /\ g[m] = Node("IfExp", "", kids)
  BY DEF Plain
<1> HIDE DEF kids
<1>3. Kids(g, m) = KidsOf(g[m])
  BY DEF Kids, KidsOf
<1>4. g[m].op = "IfExp" /\ g[m].kids = kids
  <2> DEFINE u == g[m]
  <2>1. u = Node("IfExp", "", kids)
    BY <1>2
  <2> HIDE DEF u
  <2>2. u.op = "IfExp" /\ u.kids = kids
    BY <2>1, NodeParts, ZenonT(40)
  <2> QED
    BY <2>2 DEF u
<1> QED
  BY <1>1, <1>2, <1>3, <1>4 DEF Kid

(* Where the nodes of a guard come to be.                                  *)
LEMMA Placed ==
  ASSUME NEW g \in Seq(Nodes), NEW e \in Seq(Nodes), NEW E \in Nat, DOMAIN e = 1 .. E
  PROVE  /\ DOMAIN (g \o e) = 1 .. Len(g) + E
         /\ \A m \in DOMAIN g : m \in DOMAIN (g \o e) /\ (g \o e)[m] = g[m]
         /\ \A j \in 1 .. E : (g \o e)[Len(g) + j] = e[j]
<1>1. /\ Len(e) = E /\ Len(g) \in Nat /\ DOMAIN g = 1 .. Len(g)
  OBVIOUS
<1>2. g \o e \in Seq(Nodes) /\ Len(g \o e) = Len(g) + Len(e)
  BY Concat
<1>3. DOMAIN (g \o e) = 1 .. Len(g) + E
  <2> DEFINE w == g \o e
  <2> HIDE DEF w
  <2>1. DOMAIN w = 1 .. Len(w)
    BY <1>2 DEF w
  <2> QED
    BY <1>1, <1>2, <2>1 DEF w
<1> QED
  BY <1>1, <1>3, Concat

(* The visit methods make guards of these shapes.                          *)
LEMMA NullGuardShape ==
  ASSUME h \in Heaps, NEW n \in DOMAIN h, h[n].op \in {"Attribute", "Subscript"},
         NEW r \in NullGuard(n)
  PROVE  \E N, q : r.node \in N /\ NullShape(r.heap, n, N, r.node, q)
<1> DEFINE L == Len(h)
           a == h[n].kids[1]
           e == <<Nil, Node("Compare", "IsNot", <<a, L + 1>>),
                  Constant(0), Plain("IfExp", <<L + 2, n, L + 3>>)>>
           N == {L + 1, L + 2, L + 3, L + 4}
           g2 == r.heap
<1>1. g2 \in Heaps
  BY NullGuardFits DEF Fits
<1>2. /\ L \in Nat /\ DOMAIN h = 1 .. L /\ n \in Nat /\ a \in DOMAIN h /\ h \in Seq(Nodes)
  <2>1. a = Kid(h, n, 1)
    BY DEF Kid
  <2> QED
    BY <2>1, HeapFacts, SlotFacts
<1>3. r = [heap |-> h \o e, node |-> L + 4]
  BY DEF NullGuard, Result, Added, New
<1>a. a = Kid(h, n, 1)
  BY DEF Kid
<1> HIDE DEF L, a
<1>4. /\ e \in Seq(Nodes) /\ Len(e) = 4 /\ DOMAIN e = 1 .. 4
      /\ e[1] = Nil /\ e[2] = Node("Compare", "IsNot", <<a, L + 1>>)
      /\ e[3] = Constant(0) /\ e[4] = Plain("IfExp", <<L + 2, n, L + 3>>)
  <2>1. /\ Nil \in Nodes /\ Node("Compare", "IsNot", <<a, L + 1>>) \in Nodes
        /\ Constant(0) \in Nodes /\ Plain("IfExp", <<L + 2, n, L + 3>>) \in Nodes
    BY <1>2, ClassFacts, NilNode, CompareNode, ConstantNode, IfExpNode
  <2> QED
    BY <2>1
<1> HIDE DEF e
<1>5. g2 = h \o e /\ r.node = L + 4
  BY <1>3
<1> HIDE DEF g2
<1>b. L = Len(h)
  BY DEF L
<1>6. /\ DOMAIN g2 = 1 .. L + 4 /\ \A m \in DOMAIN h : m \in DOMAIN g2 /\ g2[m] = h[m]
      /\ \A j \in 1 .. 4 : g2[L + j] = e[j]
  <2>1. h \in Seq(Nodes) /\ e \in Seq(Nodes) /\ 4 \in Nat /\ DOMAIN e = 1 .. 4
    BY <1>2, <1>4
  <2>2. /\ DOMAIN (h \o e) = 1 .. Len(h) + 4
        /\ \A m \in DOMAIN h : m \in DOMAIN (h \o e) /\ (h \o e)[m] = h[m]
        /\ \A j \in 1 .. 4 : (h \o e)[Len(h) + j] = e[j]
    BY <2>1, Placed
  <2> QED
    BY <1>5, <1>b, <2>2
<1>7. /\ \A m \in DOMAIN h : m \in DOMAIN g2 /\ g2[m] = h[m]
      /\ g2[L + 1] = e[1] /\ g2[L + 2] = e[2] /\ g2[L + 3] = e[3] /\ g2[L + 4] = e[4]
  <2>1. {1, 2, 3, 4} \subseteq 1 .. 4
    OBVIOUS
  <2> QED
    BY <1>2, <1>6, <2>1
<1>8. N \subseteq DOMAIN g2
  BY <1>2, <1>6
<1>9. /\ g2[L + 1].op = "None" /\ Kids(g2, L + 1) = {}
      /\ g2[L + 2].op = "Compare" /\ g2[L + 2].val = "IsNot" /\ Kids(g2, L + 2) = {a, L + 1}
      /\ Kid(g2, L + 2, 1) = a /\ Kid(g2, L + 2, 2) = L + 1
      /\ g2[L + 3].op = "Constant" /\ g2[L + 3].val = 0 /\ Kids(g2, L + 3) = {}
      /\ g2[L + 4].op = "IfExp" /\ Kids(g2, L + 4) = {L + 2, n, L + 3}
      /\ Kid(g2, L + 4, 1) = L + 2 /\ Kid(g2, L + 4, 2) = n /\ Kid(g2, L + 4, 3) = L + 3
  <2>0. L + 1 \in Nat /\ L + 2 \in Nat /\ L + 3 \in Nat /\ a \in Nat /\ n \in Nat
    BY <1>2
  <2>1. g2[L + 1].op = "None" /\ Kids(g2, L + 1) = {}
    BY <1>4, <1>7, NilShape
  <2>2. /\ Tests(g2, L + 2, "IsNot") /\ Kids(g2, L + 2) = {a, L + 1}
        /\ Kid(g2, L + 2, 1) = a /\ Kid(g2, L + 2, 2) = L + 1
    <3>1. g2[L + 2] = Node("Compare", "IsNot", <<a, L + 1>>)
      BY <1>4, <1>7
    <3> QED
      BY <2>0, <3>1, CompareShape
  <2>3. Zero(g2, L + 3) /\ Kids(g2, L + 3) = {}
    BY <1>4, <1>7, ZeroShape
  <2>4. /\ g2[L + 4].op = "IfExp" /\ Kids(g2, L + 4) = {L + 2, n, L + 3}
        /\ Kid(g2, L + 4, 1) = L + 2 /\ Kid(g2, L + 4, 2) = n /\ Kid(g2, L + 4, 3) = L + 3
    <3>1. g2[L + 4] = Plain("IfExp", <<L + 2, n, L + 3>>)
      BY <1>4, <1>7
    <3> QED
      BY <2>0, <3>1, IfExpShape
  <2> QED
    BY <2>1, <2>2, <2>3, <2>4 DEF Zero, Tests
<1>n. N \cap DOMAIN h = {}
  BY <1>2
<1>10. Gains(g2, N) /\ Guarded(g2, n, N, L + 4, L + 2) /\ NotNone(g2, L + 2)
  BY <1>1, <1>7, <1>8, <1>9, <1>n DEF Gains, Guarded, NotNone, Tests, Zero
<1>11. \A x \in N : x # L + 4 => g2[x].op \in {"None", "Compare", "Constant"}
                                 /\ Kids(g2, x) \subseteq N \cup {a}
  BY <1>9
<1>12. NullShape(g2, n, N, L + 4, L + 2) /\ L + 4 \in N
  <2> HIDE DEF N
  <2>1. NullShape(g2, n, N, L + 4, L + 2)
    BY <1>9, <1>10, <1>11, <1>a DEF NullShape
  <2>2. L + 4 \in N
    BY DEF N
  <2> QED
    BY <2>1, <2>2
<1> HIDE DEF N
<1> QED
  BY <1>5, <1>12 DEF g2

LEMMA BoundsGuardShape ==
  ASSUME h \in Heaps, NEW n \in DOMAIN h, h[n].op = "Subscript", NEW r \in BoundsGuard(n)
  PROVE  \E N, q : r.node \in N /\ BoundsShape(r.heap, n, N, r.node, q)
<1> DEFINE L == Len(h)
           a == h[n].kids[1]
           b == h[n].kids[2]
           above == Node("Compare", "Gt", <<L + 1, b>>)
           below == Node("Compare", "GtE", <<b, L + 3>>)
           e == <<Plain("Len", <<a>>), above, Constant(0), below,
                  Plain("And", <<L + 2, L + 4>>), Constant(0),
                  Plain("IfExp", <<L + 5, n, L + 6>>)>>
           N == {L + 1, L + 2, L + 3, L + 4, L + 5, L + 6, L + 7}
           g2 == r.heap
<1>1. g2 \in Heaps
  BY BoundsGuardFits DEF Fits
<1>2. /\ L \in Nat /\ DOMAIN h = 1 .. L /\ n \in Nat /\ a \in DOMAIN h /\ b \in DOMAIN h
      /\ h \in Seq(Nodes)
  <2>1. a = Kid(h, n, 1) /\ b = Kid(h, n, 2)
    BY DEF Kid
  <2> QED
    BY <2>1, HeapFacts, SlotFacts, SMTT(30)
<1>3. r = [heap |-> h \o e, node |-> L + 7]
  BY DEF BoundsGuard, Result, Added, New
<1>a. a = Kid(h, n, 1) /\ b = Kid(h, n, 2)
  BY DEF Kid
<1> HIDE DEF L, a, b
<1>4. /\ e \in Seq(Nodes) /\ Len(e) = 7 /\ DOMAIN e = 1 .. 7
      /\ e[1] = Plain("Len", <<a>>) /\ e[2] = above /\ e[3] = Constant(0) /\ e[4] = below
      /\ e[5] = Plain("And", <<L + 2, L + 4>>) /\ e[6] = Constant(0)
      /\ e[7] = Plain("IfExp", <<L + 5, n, L + 6>>)
  <2>1. /\ Plain("Len", <<a>>) \in Nodes /\ above \in Nodes /\ Constant(0) \in Nodes
        /\ below \in Nodes
    BY <1>2, ClassFacts, OneKid, CompareNode, ConstantNode
  <2>2. Plain("And", <<L + 2, L + 4>>) \in Nodes /\ Plain("IfExp", <<L + 5, n, L + 6>>) \in Nodes
    BY <1>2, TwoKids, IfExpNode, SMTT(30)
  <2> HIDE DEF above, below
  <2> QED
    BY <2>1, <2>2
<1> HIDE DEF e
<1>5. g2 = h \o e /\ r.node = L + 7
  BY <1>3
<1> HIDE DEF g2
<1>b. L = Len(h)
  BY DEF L
<1>6. /\ DOMAIN g2 = 1 .. L + 7 /\ \A m \in DOMAIN h : m \in DOMAIN g2 /\ g2[m] = h[m]
      /\ \A j \in 1 .. 7 : g2[L + j] = e[j]
  <2>1. h \in Seq(Nodes) /\ e \in Seq(Nodes) /\ 7 \in Nat /\ DOMAIN e = 1 .. 7
    BY <1>2, <1>4
  <2>2. /\ DOMAIN (h \o e) = 1 .. Len(h) + 7
        /\ \A m \in DOMAIN h : m \in DOMAIN (h \o e) /\ (h \o e)[m] = h[m]
        /\ \A j \in 1 .. 7 : (h \o e)[Len(h) + j] = e[j]
    BY <2>1, Placed
  <2> QED
    BY <1>5, <1>b, <2>2
<1>7. /\ \A m \in DOMAIN h : m \in DOMAIN g2 /\ g2[m] = h[m]
      /\ g2[L + 1] = e[1] /\ g2[L + 2] = e[2] /\ g2[L + 3] = e[3] /\ g2[L + 4] = e[4]
      /\ g2[L + 5] = e[5] /\ g2[L + 6] = e[6] /\ g2[L + 7] = e[7]
  <2>1. {1, 2, 3, 4, 5, 6, 7} \subseteq 1 .. 7
    OBVIOUS
  <2> QED
    BY <1>2, <1>6, <2>1
<1>8. N \subseteq DOMAIN g2
  <2>1. \A x \in N : x \in 1 .. L + 7
    BY <1>2
  <2> QED
    BY <1>6, <2>1
<1>9. /\ g2[L + 1].op = "Len" /\ Kids(g2, L + 1) = {a} /\ Kid(g2, L + 1, 1) = a
      /\ Tests(g2, L + 2, "Gt") /\ Kids(g2, L + 2) = {L + 1, b}
      /\ Kid(g2, L + 2, 1) = L + 1 /\ Kid(g2, L + 2, 2) = b
      /\ Zero(g2, L + 3) /\ Kids(g2, L + 3) = {}
      /\ Tests(g2, L + 4, "GtE") /\ Kids(g2, L + 4) = {b, L + 3}
      /\ Kid(g2, L + 4, 1) = b /\ Kid(g2, L + 4, 2) = L + 3
      /\ g2[L + 5].op = "And" /\ Kids(g2, L + 5) = {L + 2, L + 4}
      /\ Kid(g2, L + 5, 1) = L + 2 /\ Kid(g2, L + 5, 2) = L + 4
      /\ Zero(g2, L + 6) /\ Kids(g2, L + 6) = {}
      /\ g2[L + 7].op = "IfExp" /\ Kids(g2, L + 7) = {L + 5, n, L + 6}
      /\ Kid(g2, L + 7, 1) = L + 5 /\ Kid(g2, L + 7, 2) = n /\ Kid(g2, L + 7, 3) = L + 6
  <2>0. /\ L + 1 \in Nat /\ L + 2 \in Nat /\ L + 3 \in Nat /\ L + 4 \in Nat /\ L + 5 \in Nat
        /\ L + 6 \in Nat /\ a \in Nat /\ b \in Nat /\ n \in Nat
    BY <1>2
  <2>1. g2[L + 1].op = "Len" /\ Kids(g2, L + 1) = {a} /\ Kid(g2, L + 1, 1) = a
    <3>1. g2[L + 1] = Plain("Len", <<a>>)
      BY <1>4, <1>7
    <3> QED
      BY <2>0, <3>1, OneShape
  <2>2. /\ Tests(g2, L + 2, "Gt") /\ Kids(g2, L + 2) = {L + 1, b}
        /\ Kid(g2, L + 2, 1) = L + 1 /\ Kid(g2, L + 2, 2) = b
    <3>1. g2[L + 2] = Node("Compare", "Gt", <<L + 1, b>>)
      BY <1>4, <1>7
    <3> QED
      BY <2>0, <3>1, CompareShape
  <2>3. Zero(g2, L + 3) /\ Kids(g2, L + 3) = {} /\ Zero(g2, L + 6) /\ Kids(g2, L + 6) = {}
    BY <1>4, <1>7, ZeroShape
  <2>4. /\ Tests(g2, L + 4, "GtE") /\ Kids(g2, L + 4) = {b, L + 3}
        /\ Kid(g2, L + 4, 1) = b /\ Kid(g2, L + 4, 2) = L + 3
    <3>1. g2[L + 4] = Node("Compare", "GtE", <<b, L + 3>>)
      BY <1>4, <1>7
    <3>2. "GtE" \in {"IsNot", "Gt", "GtE"} /\ b \in Nat /\ L + 3 \in Nat
      BY <2>0
    <3> QED
      BY <3>1, <3>2, CompareShape
  <2>5. /\ g2[L + 5].op = "And" /\ Kids(g2, L + 5) = {L + 2, L + 4}
        /\ Kid(g2, L + 5, 1) = L + 2 /\ Kid(g2, L + 5, 2) = L + 4
    <3>1. g2[L + 5] = Plain("And", <<L + 2, L + 4>>)
      BY <1>4, <1>7
    <3> QED
      BY <2>0, <3>1, AndShape
  <2>6. /\ g2[L + 7].op = "IfExp" /\ Kids(g2, L + 7) = {L + 5, n, L + 6}
        /\ Kid(g2, L + 7, 1) = L + 5 /\ Kid(g2, L + 7, 2) = n /\ Kid(g2, L + 7, 3) = L + 6
    <3>1. g2[L + 7] = Plain("IfExp", <<L + 5, n, L + 6>>)
      BY <1>4, <1>7
    <3> QED
      BY <2>0, <3>1, IfExpShape
  <2> QED
    BY <2>1, <2>2, <2>3, <2>4, <2>5, <2>6
<1>n. N \cap DOMAIN h = {}
  <2>1. \A x \in N : x \notin 1 .. L
    BY <1>2
  <2> QED
    BY <1>2, <2>1
<1>10. Gains(g2, N) /\ Guarded(g2, n, N, L + 7, L + 5)
  BY <1>1, <1>7, <1>8, <1>9, <1>n DEF Gains, Guarded
<1>11. \A x \in N : x # L + 7 =>
         /\ g2[x].op \in {"Len", "Compare", "Constant", "And"}
         /\ Kids(g2, x) \subseteq N \cup {a, b}
         /\ g2[x].op = "Len" => Kids(g2, x) = {a} /\ Kid(g2, x, 1) = a
  BY <1>9 DEF Tests, Zero
<1>12. InList(g2, {<<Kid(h, n, j), Kid(h, n, j)>> : j \in {1, 2}}, L + 5, a, b)
  <2> DEFINE T == {<<Kid(h, n, j), Kid(h, n, j)>> : j \in {1, 2}}
  <2>1. <<a, a>> \in T /\ <<b, b>> \in T
    BY <1>a
  <2> HIDE DEF T
  <2>2. InList(g2, T, L + 5, a, b)
    BY <1>9, <2>1 DEF InList
  <2> QED
    BY <2>2 DEF T
<1>13. BoundsShape(g2, n, N, L + 7, L + 5) /\ L + 7 \in N
  <2>2. L + 7 \in N
    BY DEF N
  <2> HIDE DEF N
  <2>1. BoundsShape(g2, n, N, L + 7, L + 5)
    BY <1>10, <1>11, <1>12, <1>a DEF BoundsShape
  <2> QED
    BY <2>1, <2>2
<1> HIDE DEF N
<1> QED
  BY <1>5, <1>13 DEF g2

-----------------------------------------------------------------------------
(* What a certificate gains by a guard.                                    *)

(* The nodes of a guard get the contexts of the node they guard.           *)
Contexts(dom, N, n, D) == {d \in dom \X dom \X dom : d[1] \in N /\ <<n, d[2], d[3]>> \in D}

LEMMA ContextFacts ==
  ASSUME NEW n, NEW N, NEW dom, NEW D, N \subseteq dom,
         \A v, s : <<n, v, s>> \in D => v \in dom /\ s \in dom
  PROVE  \A m, v, s : <<m, v, s>> \in Contexts(dom, N, n, D) <=> m \in N /\ <<n, v, s>> \in D
<1> SUFFICES ASSUME NEW m, NEW v, NEW s
             PROVE  <<m, v, s>> \in Contexts(dom, N, n, D) <=> m \in N /\ <<n, v, s>> \in D
  OBVIOUS
<1>2. ASSUME <<m, v, s>> \in Contexts(dom, N, n, D) PROVE m \in N /\ <<n, v, s>> \in D
  BY <1>2 DEF Contexts
<1>3. ASSUME m \in N, <<n, v, s>> \in D PROVE <<m, v, s>> \in Contexts(dom, N, n, D)
  <2>1. m \in dom /\ v \in dom /\ s \in dom
    BY <1>3
  <2>2. <<m, v, s>> \in dom \X dom \X dom
    BY <2>1
  <2> QED
    BY <1>3, <2>2 DEF Contexts
<1> QED
  BY <1>2, <1>3

(* There is a certificate with all of S in which y can be taken for n.     *)
Renewed(kind, g, n, y, S) ==
  \E S2, D2, T2 : /\ Safe(kind, g, S2, D2, T2) /\ S \subseteq S2
                  /\ Covers(S2, D2, T2, S2, D2, T2, n, y)

(* A visit of another mutation: what it adds is as safe as n.              *)
LEMMA GuardAdded ==
  ASSUME NEW kind, h \in Heaps, NEW n \in DOMAIN h, h[n].op \in {"Attribute", "Subscript"},
         NEW g2, NEW N, Gains(g2, N), NEW y \in N,
         NEW S, NEW D, NEW T, Safe(kind, h, S, D, T), NEW T2, T \subseteq T2,
         \A m, v : <<m, v>> \in T2 /\ <<m, v>> \notin T =>
           {m, v} \subseteq DOMAIN g2 /\ \A S2 : S \subseteq S2 => JustT(kind, g2, S2, T2, m, v),
         \A v : <<n, v>> \in T2 => <<y, v>> \in T2,
         \A x \in N :
           /\ Kids(g2, x) \subseteq N \cup {n} \cup Kids(h, n)
           /\ \/ g2[x].op \notin Access(kind)
              \/ /\ kind = "null" /\ g2[x].op = "Len" /\ h[n].op = "Subscript"
                 /\ Kids(g2, x) \subseteq Kids(h, n) /\ Kid(g2, x, 1) = Kid(h, n, 1)
  PROVE  Renewed(kind, g2, n, y, S)
<1> DEFINE S2 == S \cup (IF n \in S THEN N ELSE {})
           E  == Contexts(DOMAIN g2, N, n, D)
           D2 == D \cup E
<1>1. /\ g2 \in Heaps /\ N \subseteq DOMAIN g2
      /\ \A m \in DOMAIN h : m \in DOMAIN g2 /\ g2[m] = h[m]
  BY DEF Gains
<1>n. n \notin N
  BY DEF Gains
<1>d. \A v, s : <<n, v, s>> \in D => v \in DOMAIN g2 /\ s \in DOMAIN g2
  BY <1>1 DEF Safe
<1>2. \A m, v, s : <<m, v, s>> \in E <=> m \in N /\ <<n, v, s>> \in D
  BY <1>1, <1>d, ContextFacts
<1>3. \A m, v, s : <<m, v, s>> \in D2 <=> <<m, v, s>> \in D \/ (m \in N /\ <<n, v, s>> \in D)
  BY <1>2
<1>4. S \subseteq S2 /\ D \subseteq D2 /\ \A m : m \in S2 <=> m \in S \/ (n \in S /\ m \in N)
  OBVIOUS
<1> HIDE DEF S2, D2, E
<1>5. n \in S => h[n].op \notin Access(kind) /\ Kids(h, n) \subseteq S
  BY DEF Safe, JustS, Guarding
<1>6. ASSUME NEW m \in S2, m \notin S
      PROVE  m \in DOMAIN g2 /\ JustS(kind, g2, S2, D2, T2, m)
  <2>1. n \in S /\ m \in N
    BY <1>4, <1>6
  <2>2. g2[m].op \notin Access(kind)
    BY <1>5, <2>1 DEF Access
  <2>3. Kids(g2, m) \subseteq S2
    BY <1>4, <1>5, <2>1
  <2> QED
    BY <1>1, <2>1, <2>2, <2>3 DEF JustS
<1>7. ASSUME NEW m, NEW v, NEW s, <<m, v, s>> \in D2, <<m, v, s>> \notin D
      PROVE  {m, v, s} \subseteq DOMAIN g2 /\ JustD(kind, g2, S2, D2, T2, m, v, s)
  <2>1. m \in N /\ <<n, v, s>> \in D
    BY <1>3, <1>7
  <2>2. {m, v, s} \subseteq DOMAIN g2
    BY <1>1, <1>d, <2>1
  <2>3. JustD(kind, h, S, D, T, n, v, s)
    BY <2>1 DEF Safe
  <2>4. CASE n \in S
    BY <1>4, <2>1, <2>2, <2>4 DEF JustD
  <2>5. CASE g2[m].op \notin Access(kind) /\ \A c \in Kids(h, n) : c \in S \/ <<c, v, s>> \in D
    <3>1. \A c \in Kids(g2, m) : c \in S2 \/ <<c, v, s>> \in D2
      BY <1>3, <1>4, <2>1, <2>5
    <3> QED
      BY <2>2, <2>5, <3>1 DEF JustD
  <2>6. CASE /\ g2[m].op \in Access(kind) /\ n \notin S
    <3>1. /\ kind = "null" /\ g2[m].op = "Len" /\ h[n].op = "Subscript"
          /\ Kids(g2, m) \subseteq Kids(h, n) /\ Kid(g2, m, 1) = Kid(h, n, 1)
      BY <2>1, <2>6
    <3>2. h[n].op \in Access(kind)
      BY <3>1 DEF Access
    <3>3. Kids(h, n) \subseteq S /\ <<Kid(h, n, 1), v>> \in T
      BY <2>3, <2>6, <3>2 DEF JustD
    <3>4. Kids(g2, m) \subseteq S2 /\ <<Kid(g2, m, 1), v>> \in T2 /\ kind # "bounds"
      BY <1>4, <3>1, <3>3
    <3> QED
      BY <2>2, <2>6, <3>4 DEF JustD
  <2>7. n \notin S => \A c \in Kids(h, n) : c \in S \/ <<c, v, s>> \in D
    BY <2>3 DEF JustD
  <2> QED
    BY <2>2, <2>4, <2>5, <2>6, <2>7
<1>8. ASSUME NEW m, NEW v, <<m, v>> \in T2, <<m, v>> \notin T
      PROVE  {m, v} \subseteq DOMAIN g2 /\ JustT(kind, g2, S2, T2, m, v)
  BY <1>4, <1>8
<1>9. Grows(kind, h, g2, S, D, T, S2, D2, T2)
  BY <1>1, <1>4, AddedGrows
<1>10. Safe(kind, g2, S2, D2, T2)
  BY <1>1, <1>6, <1>7, <1>8, <1>9, Grown
<1>11. Covers(S2, D2, T2, S2, D2, T2, n, y)
  BY <1>3, <1>4, <1>n DEF Covers
<1> QED
  BY <1>4, <1>10, <1>11 DEF Renewed

(* A visit of the guarding mutation: n is opened by the test of its guard. *)
LEMMA GuardBuilt ==
  ASSUME NEW kind \in {"null", "bounds"}, h \in Heaps, NEW n \in DOMAIN h,
         h[n].op \in {"Attribute", "Subscript"}, h[n].op \in Access(kind),
         NEW g2, NEW N, Gains(g2, N), NEW y \in N, NEW q, Guarded(g2, n, N, y, q),
         NEW S, NEW D, NEW T, Safe(kind, h, S, D, T), Kids(h, n) \subseteq S,
         NEW a, NEW b, a = Kid(h, n, 1), b = IF kind = "null" THEN a ELSE Kid(h, n, 2),
         Opens(kind, g2, {<<a, a>>, <<b, b>>}, q, a, b),
         \A x \in N : /\ g2[x].op \notin Access(kind)
                      /\ x # y => Kids(g2, x) \subseteq N \cup Kids(h, n)
  PROVE  Renewed(kind, g2, n, y, S \cup {y})
<1> DEFINE S2 == S \cup N
           E  == Contexts(DOMAIN g2, {y}, n, D)
           D2 == D \cup {<<n, a, b>>, <<y, a, b>>} \cup E
           T2 == T \cup {<<a, a>>, <<b, b>>}
<1>1. /\ g2 \in Heaps /\ N \subseteq DOMAIN g2
      /\ \A m \in DOMAIN h : m \in DOMAIN g2 /\ g2[m] = h[m]
  BY DEF Gains
<1>d. \A v, s : <<n, v, s>> \in D => v \in DOMAIN g2 /\ s \in DOMAIN g2
  BY <1>1 DEF Safe
<1>2. \A m, v, s : <<m, v, s>> \in E <=> m = y /\ <<n, v, s>> \in D
  <2> DEFINE Y == {y}
  <2>1. Y \subseteq DOMAIN g2
    BY <1>1
  <2>2. \A m : m \in Y <=> m = y
    OBVIOUS
  <2>3. E = Contexts(DOMAIN g2, Y, n, D)
    OBVIOUS
  <2> HIDE DEF E, Y
  <2>4. \A m, v, s : <<m, v, s>> \in E <=> m \in Y /\ <<n, v, s>> \in D
    BY <1>d, <2>1, <2>3, ContextFacts
  <2> QED
    BY <2>2, <2>4
<1>3. \A m, v, s : <<m, v, s>> \in D2 <=>
        <<m, v, s>> \in D \/ (m \in {n, y} /\ v = a /\ s = b) \/ (m = y /\ <<n, v, s>> \in D)
  BY <1>2
<1>4. \A m, v : <<m, v>> \in T2 <=> <<m, v>> \in T \/ (m = a /\ v = a) \/ (m = b /\ v = b)
  OBVIOUS
<1>5. S \subseteq S2 /\ N \subseteq S2 /\ D \subseteq D2 /\ T \subseteq T2
  OBVIOUS
<1>6. /\ a \in Kids(h, n) /\ b \in Kids(h, n) /\ a \in DOMAIN h /\ b \in DOMAIN h
  BY SlotFacts DEF Access
<1>7. a \in S /\ b \in S /\ a \in DOMAIN g2 /\ b \in DOMAIN g2 /\ n \in DOMAIN g2
  BY <1>1, <1>6
<1>8. Opens(kind, g2, T2, q, a, b)
  BY <1>4 DEF Opens, InList
<1>m. \A m \in S2 : m \in S \/ m \in N
  OBVIOUS
<1> HIDE DEF S2, D2, T2, E
<1>9. ASSUME NEW m \in S2, m \notin S
      PROVE  m \in DOMAIN g2 /\ JustS(kind, g2, S2, D2, T2, m)
  <2>1. m \in N /\ m \in DOMAIN g2 /\ g2[m].op \notin Access(kind)
    BY <1>1, <1>9, <1>m
  <2>2. CASE m # y
    <3>1. Kids(g2, m) \subseteq S2
      BY <1>5, <2>1, <2>2
    <3> QED
      BY <2>1, <3>1 DEF JustS
  <2>3. CASE m = y
    <3>1. <<Kid(g2, y, 2), a, b>> \in D2 /\ Opens(kind, g2, T2, Kid(g2, y, 1), a, b)
      BY <1>3, <1>8 DEF Guarded
    <3>2. g2[y].op = "IfExp" /\ Kid(g2, y, 1) \in S2 /\ Kid(g2, y, 3) \in S2
      BY <1>5 DEF Guarded
    <3>3. Guarding(kind, g2, S2, D2, T2, y)
      BY <3>1, <3>2 DEF Guarding
    <3> QED
      BY <2>1, <2>3, <3>3 DEF JustS
  <2> QED
    BY <2>2, <2>3
<1>10. ASSUME NEW m, NEW v, NEW s, <<m, v, s>> \in D2, <<m, v, s>> \notin D
       PROVE  {m, v, s} \subseteq DOMAIN g2 /\ JustD(kind, g2, S2, D2, T2, m, v, s)
  <2>1. CASE m = n /\ v = a /\ s = b
    <3>1. {m, v, s} \subseteq DOMAIN g2
      BY <1>7, <2>1
    <3>2. g2[n] = h[n] /\ Kids(g2, n) = Kids(h, n) /\ Kid(g2, n, 1) = a
          /\ (kind = "bounds" => Kid(g2, n, 2) = b)
      BY <1>1 DEF Kids, Kid
    <3>3. <<a, a>> \in T2 /\ <<b, b>> \in T2 /\ Kids(g2, n) \subseteq S2
      BY <1>4, <1>5, <3>2
    <3>4. JustD(kind, g2, S2, D2, T2, n, a, b)
      BY <3>2, <3>3 DEF JustD
    <3> QED
      BY <2>1, <3>1, <3>4
  <2>3. CASE m = y /\ v = a /\ s = b
    <3>1. m \in S2
      BY <1>5, <2>3
    <3> QED
      BY <1>1, <1>7, <2>3, <3>1 DEF JustD
  <2>2. CASE m = y /\ <<n, v, s>> \in D
    <3>1. m \in S2
      BY <1>5, <2>2
    <3> QED
      BY <1>1, <1>d, <2>2, <3>1 DEF JustD
  <2> QED
    BY <1>3, <1>10, <2>1, <2>2, <2>3
<1>11. ASSUME NEW m, NEW v, <<m, v>> \in T2, <<m, v>> \notin T
       PROVE  {m, v} \subseteq DOMAIN g2 /\ JustT(kind, g2, S2, T2, m, v)
  <2>1. m = v /\ m \in S /\ m \in DOMAIN g2
    BY <1>4, <1>7, <1>11
  <2> QED
    BY <1>5, <2>1 DEF JustT
<1>12. Grows(kind, h, g2, S, D, T, S2, D2, T2)
  BY <1>1, <1>5, AddedGrows
<1>13. Safe(kind, g2, S2, D2, T2)
  BY <1>1, <1>9, <1>10, <1>11, <1>12, Grown
<1>14. \A v : <<n, v>> \notin T
  <2> SUFFICES ASSUME NEW v, <<n, v>> \in T PROVE FALSE
    OBVIOUS
  <2>1. JustT(kind, h, S, T, n, v)
    BY DEF Safe
  <2>2. n = v /\ n \in S
    BY <2>1 DEF JustT, Access
  <2>3. JustS(kind, h, S, D, T, n)
    BY <2>2 DEF Safe
  <2> QED
    BY <2>3 DEF JustS
<1>16. n \notin S
  BY DEF Safe, JustS
<1>15. Covers(S2, D2, T2, S2, D2, T2, n, y)
  BY <1>3, <1>4, <1>5, <1>7, <1>14, <1>16 DEF Covers
<1>17. S \cup {y} \subseteq S2
  BY <1>5
<1> QED
  BY <1>13, <1>15, <1>17 DEF Renewed

-----------------------------------------------------------------------------
(* What a certificate makes of an early return.                            *)

(* Only a function gets other children.                                    *)
Prepends(g, g2, N) ==
  \A m \in DOMAIN g :
    /\ m \in DOMAIN g2 /\ g2[m].op = g[m].op /\ g2[m].val = g[m].val
    /\ g[m].op # "FunctionDef" => g2[m].kids = g[m].kids
    /\ Kids(g2, m) \subseteq Kids(g, m) \cup N

LEMMA NotNonePrepends ==
  ASSUME NEW g \in Heaps, NEW g2, NEW N, Prepends(g, g2, N), NEW q \in DOMAIN g, NotNone(g, q)
  PROVE  NotNone(g2, q) /\ Kid(g2, q, 1) = Kid(g, q, 1)
<1>1. g[q].op = "Compare" /\ g[q].val = "IsNot" /\ g[Kid(g, q, 2)].op = "None"
  BY DEF NotNone, Tests
<1>2. Kid(g, q, 2) \in DOMAIN g
  BY <1>1, SlotFacts
<1>3. Kid(g2, q, 2) = Kid(g, q, 2) /\ Kid(g2, q, 1) = Kid(g, q, 1)
  BY <1>1 DEF Prepends, Kid
<1> QED
  BY <1>1, <1>2, <1>3 DEF Prepends, NotNone, Tests

LEMMA OpensPrepends ==
  ASSUME NEW kind, NEW g \in Heaps, NEW g2, NEW N, Prepends(g, g2, N), NEW T,
         NEW q \in DOMAIN g, NEW v, NEW s, Opens(kind, g, T, q, v, s)
  PROVE  Opens(kind, g2, T, q, v, s)
<1>1. CASE kind = "null" /\ NotNone(g, q) /\ <<Kid(g, q, 1), v>> \in T /\ s = v
  BY <1>1, NotNonePrepends DEF Opens
<1>2. CASE kind = "bounds" /\ InList(g, T, q, v, s)
  <2> DEFINE a == Kid(g, q, 1)
             b == Kid(g, q, 2)
             l == Kid(g, a, 1)
             z == Kid(g, b, 2)
  <2>1. /\ g[q].op = "And" /\ Tests(g, a, "Gt") /\ Tests(g, b, "GtE") /\ g[l].op = "Len"
        /\ <<Kid(g, l, 1), v>> \in T /\ <<Kid(g, a, 2), s>> \in T /\ <<Kid(g, b, 1), s>> \in T
        /\ Zero(g, z)
    BY <1>2 DEF InList
  <2>2. a \in DOMAIN g /\ b \in DOMAIN g
    BY <2>1, SlotFacts
  <2> HIDE DEF a, b
  <2>3. l \in DOMAIN g /\ z \in DOMAIN g
    BY <2>1, <2>2, SlotFacts DEF Tests
  <2>4. /\ Kid(g2, q, 1) = a /\ Kid(g2, q, 2) = b
    BY <2>1 DEF Prepends, Kid, a, b
  <2>5. /\ Kid(g2, a, 1) = l /\ Kid(g2, b, 2) = z /\ Kid(g2, a, 2) = Kid(g, a, 2)
        /\ Kid(g2, b, 1) = Kid(g, b, 1)
    BY <2>1, <2>2 DEF Prepends, Kid, Tests
  <2> HIDE DEF l, z
  <2>6. Kid(g2, l, 1) = Kid(g, l, 1)
    BY <2>1, <2>3 DEF Prepends, Kid
  <2>7. /\ g2[q].op = "And" /\ Tests(g2, a, "Gt") /\ Tests(g2, b, "GtE") /\ g2[l].op = "Len"
        /\ Zero(g2, z)
    BY <2>1, <2>2, <2>3 DEF Prepends, Tests, Zero
  <2>8. InList(g2, T, q, v, s)
    BY <2>1, <2>4, <2>5, <2>6, <2>7 DEF InList
  <2> QED
    BY <1>2, <2>8 DEF Opens
<1> QED
  BY <1>1, <1>2 DEF Opens

(* A safe statement before the others keeps a certificate.                 *)
LEMMA PrependSafe ==
  ASSUME NEW kind, NEW g \in Heaps, NEW g2, NEW N, Prepends(g, g2, N),
         NEW S, NEW D, NEW T, Safe(kind, g, S, D, T),
         \A x \in N : x \in DOMAIN g2 /\ g2[x].op \notin Access(kind) /\ Kids(g2, x) \subseteq N
  PROVE  Safe(kind, g2, S \cup N, D, T)
<1> DEFINE S2 == S \cup N
<1>1. \A m \in DOMAIN g :
        /\ m \in DOMAIN g2 /\ g2[m].op = g[m].op /\ g2[m].val = g[m].val
        /\ g[m].op # "FunctionDef" => g2[m].kids = g[m].kids
        /\ Kids(g2, m) \subseteq Kids(g, m) \cup N
  BY DEF Prepends
<1>2. S \subseteq S2 /\ N \subseteq S2 /\ \A m \in S2 : m \in S \/ m \in N
  OBVIOUS
<1>3. /\ \A m \in S : m \in DOMAIN g /\ JustS(kind, g, S, D, T, m)
      /\ \A m, v, s : <<m, v, s>> \in D =>
            {m, v, s} \subseteq DOMAIN g /\ JustD(kind, g, S, D, T, m, v, s)
      /\ \A m, v : <<m, v>> \in T => {m, v} \subseteq DOMAIN g /\ JustT(kind, g, S, T, m, v)
  BY DEF Safe
<1> HIDE DEF S2
<1>4. ASSUME NEW m \in DOMAIN g, g[m].op # "FunctionDef"
      PROVE  Kids(g2, m) = Kids(g, m) /\ \A j : Kid(g2, m, j) = Kid(g, m, j)
  BY <1>1, <1>4 DEF Kids, Kid
<1>5. ASSUME NEW m \in S2
      PROVE  m \in DOMAIN g2 /\ JustS(kind, g2, S2, D, T, m)
  <2>1. CASE m \in N
    BY <1>2, <2>1 DEF JustS
  <2>2. CASE m \in S
    <3>1. m \in DOMAIN g /\ m \in DOMAIN g2 /\ g2[m].op \notin Access(kind)
      BY <1>1, <1>3, <2>2 DEF JustS
    <3>2. CASE Kids(g, m) \subseteq S
      <4>1. Kids(g2, m) \subseteq S2
        BY <1>1, <1>2, <3>1, <3>2
      <4> QED
        BY <3>1, <4>1 DEF JustS
    <3>3. CASE Guarding(kind, g, S, D, T, m)
      <4>1. g[m].op = "IfExp" /\ Kid(g, m, 1) \in S /\ Kid(g, m, 3) \in S
        BY <3>3 DEF Guarding
      <4>2. PICK v, s : <<Kid(g, m, 2), v, s>> \in D /\ Opens(kind, g, T, Kid(g, m, 1), v, s)
        BY <3>3 DEF Guarding
      <4>3. Kid(g, m, 1) \in DOMAIN g
        BY <1>3, <4>1
      <4>4. Opens(kind, g2, T, Kid(g, m, 1), v, s)
        BY <4>2, <4>3, OpensPrepends
      <4>5. Guarding(kind, g2, S2, D, T, m)
        BY <1>1, <1>2, <1>4, <3>1, <4>1, <4>2, <4>4 DEF Guarding
      <4> QED
        BY <3>1, <4>5 DEF JustS
    <3> QED
      BY <1>3, <2>2, <3>2, <3>3 DEF JustS
  <2> QED
    BY <1>2, <2>1, <2>2
<1>6. ASSUME NEW m, NEW v, NEW s, <<m, v, s>> \in D
      PROVE  {m, v, s} \subseteq DOMAIN g2 /\ JustD(kind, g2, S2, D, T, m, v, s)
  <2>1. m \in DOMAIN g /\ JustD(kind, g, S, D, T, m, v, s) /\ {m, v, s} \subseteq DOMAIN g2
    BY <1>1, <1>3, <1>6
  <2>2. CASE m \in S
    BY <1>2, <2>1, <2>2 DEF JustD
  <2>3. CASE /\ g[m].op \in Access(kind) /\ Kids(g, m) \subseteq S /\ <<Kid(g, m, 1), v>> \in T
             /\ kind = "bounds" => <<Kid(g, m, 2), s>> \in T
    <3>1. g[m].op # "FunctionDef"
      BY <2>3 DEF Access
    <3>2. /\ g2[m].op \in Access(kind) /\ Kids(g2, m) \subseteq S2 /\ <<Kid(g2, m, 1), v>> \in T
          /\ kind = "bounds" => <<Kid(g2, m, 2), s>> \in T
      BY <1>1, <1>2, <1>4, <2>1, <2>3, <3>1
    <3> QED
      BY <2>1, <3>2 DEF JustD
  <2>4. CASE g[m].op \notin Access(kind) /\ \A c \in Kids(g, m) : c \in S \/ <<c, v, s>> \in D
    <3>1. g2[m].op \notin Access(kind) /\ \A c \in Kids(g2, m) : c \in S2 \/ <<c, v, s>> \in D
      BY <1>1, <1>2, <2>1, <2>4
    <3> QED
      BY <2>1, <3>1 DEF JustD
  <2> QED
    BY <2>1, <2>2, <2>3, <2>4 DEF JustD
<1>7. ASSUME NEW m, NEW v, <<m, v>> \in T
      PROVE  {m, v} \subseteq DOMAIN g2 /\ JustT(kind, g2, S2, T, m, v)
  <2>1. m \in DOMAIN g /\ v \in DOMAIN g /\ JustT(kind, g, S, T, m, v) /\ {m, v} \subseteq DOMAIN g2
    BY <1>1, <1>3, <1>7
  <2>2. v \in S2 /\ kind # "len"
    BY <1>2, <2>1 DEF JustT
  <2>3. CASE m = v
    BY <2>1, <2>2, <2>3 DEF JustT
  <2>4. CASE m # v
    <3> DEFINE q == Kid(g, m, 1)
               z == Kid(g, m, 3)
               a == Kid(g, v, 1)
    <3>1. /\ kind = "bounds" /\ g[v].op = "Attribute" /\ g[m].op = "IfExp" /\ NotNone(g, q)
          /\ Kid(g, q, 1) = a /\ Tame(g, a) /\ <<Kid(g, m, 2), v>> \in T /\ Zero(g, z)
      BY <2>1, <2>4 DEF JustT
    <3>2. q \in DOMAIN g /\ z \in DOMAIN g /\ a \in DOMAIN g
      BY <2>1, <3>1, SlotFacts
    <3>3. Kid(g2, m, 1) = q /\ Kid(g2, m, 3) = z /\ Kid(g2, v, 1) = a /\ Kid(g2, m, 2) = Kid(g, m, 2)
      BY <1>4, <2>1, <3>1
    <3> HIDE DEF q, z, a
    <3>4. NotNone(g2, q) /\ Kid(g2, q, 1) = a
      BY <3>1, <3>2, NotNonePrepends
    <3>5. Tame(g2, a) /\ Zero(g2, z) /\ g2[v].op = "Attribute" /\ g2[m].op = "IfExp"
      BY <1>1, <2>1, <3>1, <3>2 DEF Tame, Zero
    <3> QED
      BY <2>1, <2>2, <3>1, <3>3, <3>4, <3>5 DEF JustT
  <2> QED
    BY <2>3, <2>4
<1>8. Safe(kind, g2, S2, D, T)
  BY <1>5, <1>6, <1>7, Zenon DEF Safe
<1> QED
  BY <1>8 DEF S2

(* The early return is such a statement.                                   *)
LEMMA EarlyReturnPrepends ==
  ASSUME h \in Heaps, NEW n \in DOMAIN h, h[n].op = "FunctionDef", NEW r \in EarlyReturn(n)
  PROVE  \E N : /\ Prepends(h, r.heap, N) /\ r.node = n
                /\ \A x \in N : /\ x \in DOMAIN r.heap /\ Kids(r.heap, x) \subseteq N
                                /\ r.heap[x].op \in {"Name", "None", "Compare", "Constant", "Return", "If"}
<1> DEFINE L == Len(h)
           e == <<Name("data"), Nil, Node("Compare", "Is", <<L + 1, L + 2>>), Constant(-1),
                  Plain("Return", <<L + 4>>), Plain("If", <<L + 3, L + 5>>)>>
           f == h \o e
           s == h[n].kids
           N == {L + 1, L + 2, L + 3, L + 4, L + 5, L + 6}
           g2 == r.heap
<1>1. L \in Nat /\ DOMAIN h = 1 .. L /\ h[n] \in Nodes /\ s \in Seq(DOMAIN h) /\ h \in Seq(Nodes)
  BY HeapFacts
<1>2. r.heap = [f EXCEPT ![n].kids = <<L + 6>> \o @] /\ r.node = n
  <2>1. r = [heap |-> [f EXCEPT ![n].kids = <<L + 6>> \o @], node |-> n]
    BY DEF EarlyReturn, Result, Added, New
  <2> HIDE DEF f
  <2> QED
    BY <2>1
<1>b. L = Len(h)
  OBVIOUS
<1> HIDE DEF L
<1>3. /\ L + 1 \in Nat /\ L + 2 \in Nat /\ L + 3 \in Nat /\ L + 4 \in Nat /\ L + 5 \in Nat /\ L + 6 \in Nat
  BY <1>1
<1>4. /\ Name("data") \in Nodes /\ KidsOf(Name("data")) = {}
      /\ Nil \in Nodes /\ KidsOf(Nil) = {}
      /\ Constant(-1) \in Nodes /\ KidsOf(Constant(-1)) = {}
      /\ Node("Compare", "Is", <<L + 1, L + 2>>) \in Nodes
      /\ KidsOf(Node("Compare", "Is", <<L + 1, L + 2>>)) = {L + 1, L + 2}
      /\ Plain("Return", <<L + 4>>) \in Nodes /\ KidsOf(Plain("Return", <<L + 4>>)) = {L + 4}
      /\ Plain("If", <<L + 3, L + 5>>) \in Nodes
      /\ KidsOf(Plain("If", <<L + 3, L + 5>>)) = {L + 3, L + 5}
  <2>1. -1 \in Int
    OBVIOUS
  <2> QED
    BY <1>3, <2>1, ClassFacts, DataNode, NilNode, CompareNode, ConstantNode, OneKid, TwoKids, SMTT(30)
<1>5. /\ Name("data").op = "Name" /\ Nil.op = "None" /\ Constant(-1).op = "Constant"
      /\ Node("Compare", "Is", <<L + 1, L + 2>>).op = "Compare"
      /\ Plain("Return", <<L + 4>>).op = "Return" /\ Plain("If", <<L + 3, L + 5>>).op = "If"
  <2>1. Name("data").op = "Name" /\ Nil.op = "None" /\ Constant(-1).op = "Constant"
    BY DEF Name, Nil, Constant, Leaf
  <2>2. \A u : Node("Compare", "Is", u).op = "Compare"
    BY NodeParts
  <2>3. \A u : Plain("Return", u).op = "Return" /\ Plain("If", u).op = "If"
    BY NodeParts DEF Plain
  <2> QED
    BY <2>1, <2>2, <2>3
<1>6. /\ e \in Seq(Nodes) /\ DOMAIN e = 1 .. 6
      /\ \A j \in 1 .. 6 : e[j].op \in {"Name", "None", "Compare", "Constant", "Return", "If"}
      /\ KidsOf(e[1]) = {} /\ KidsOf(e[2]) = {} /\ KidsOf(e[3]) = {L + 1, L + 2}
      /\ KidsOf(e[4]) = {} /\ KidsOf(e[5]) = {L + 4} /\ KidsOf(e[6]) = {L + 3, L + 5}
  <2>1. e \in Seq(Nodes) /\ DOMAIN e = 1 .. 6
    BY <1>4
  <2>2. /\ e[1] = Name("data") /\ e[2] = Nil /\ e[3] = Node("Compare", "Is", <<L + 1, L + 2>>)
        /\ e[4] = Constant(-1) /\ e[5] = Plain("Return", <<L + 4>>)
        /\ e[6] = Plain("If", <<L + 3, L + 5>>)
    OBVIOUS
  <2> HIDE DEF e
  <2>3. \A j \in 1 .. 6 : j = 1 \/ j = 2 \/ j = 3 \/ j = 4 \/ j = 5 \/ j = 6
    OBVIOUS
  <2>4. \A j \in 1 .. 6 : e[j].op \in {"Name", "None", "Compare", "Constant", "Return", "If"}
    BY <1>5, <2>2, <2>3
  <2>5. /\ KidsOf(e[1]) = {} /\ KidsOf(e[2]) = {} /\ KidsOf(e[3]) = {L + 1, L + 2}
        /\ KidsOf(e[4]) = {} /\ KidsOf(e[5]) = {L + 4} /\ KidsOf(e[6]) = {L + 3, L + 5}
    BY <1>4, <2>2
  <2> QED
    BY <2>1, <2>4, <2>5
<1> HIDE DEF e
<1>7. /\ DOMAIN f = 1 .. L + 6 /\ \A m \in DOMAIN h : m \in DOMAIN f /\ f[m] = h[m]
      /\ \A j \in 1 .. 6 : f[L + j] = e[j]
  <2>1. /\ DOMAIN (h \o e) = 1 .. Len(h) + 6
        /\ \A m \in DOMAIN h : m \in DOMAIN (h \o e) /\ (h \o e)[m] = h[m]
        /\ \A j \in 1 .. 6 : (h \o e)[Len(h) + j] = e[j]
    <3>1. 6 \in Nat
      OBVIOUS
    <3> QED
      BY <1>1, <1>6, <3>1, Placed
  <2> QED
    BY <1>b, <2>1
<1> HIDE DEF f
<1>8. /\ DOMAIN g2 = DOMAIN f /\ \A m \in DOMAIN f : m # n => g2[m] = f[m]
      /\ g2[n] = [h[n] EXCEPT !.kids = <<L + 6>> \o s]
  BY <1>2, <1>7
<1>9. g2[n].op = h[n].op /\ g2[n].val = h[n].val /\ g2[n].kids = <<L + 6>> \o s
  BY <1>1, <1>8 DEF Nodes
<1> HIDE DEF g2
<1>10. Kids(g2, n) \subseteq Kids(h, n) \cup {L + 6}
  <2> DEFINE t == <<L + 6>> \o s
  <2>1. \A j \in DOMAIN t : t[j] = L + 6 \/ \E i \in DOMAIN s : t[j] = s[i]
    <3>1. s \in Seq(Nat) /\ L + 6 \in Nat
      BY <1>1, <1>3
    <3> HIDE DEF s
    <3>2. /\ DOMAIN t = 1 .. Len(s) + 1 /\ DOMAIN s = 1 .. Len(s) /\ Len(s) \in Nat /\ t[1] = L + 6
          /\ \A j \in 2 .. Len(s) + 1 : t[j] = s[j - 1] /\ j - 1 \in DOMAIN s
      BY <3>1
    <3> HIDE DEF t
    <3>3. \A j \in 1 .. Len(s) + 1 : j = 1 \/ j \in 2 .. Len(s) + 1
      BY <3>2
    <3> QED
      BY <3>2, <3>3
  <2> HIDE DEF t
  <2>2. g2[n].kids = t
    BY <1>9 DEF t
  <2> QED
    BY <2>1, <2>2 DEF Kids
<1>11. /\ \A m \in DOMAIN h : m \in DOMAIN g2 /\ (m # n => g2[m] = h[m])
       /\ \A j \in 1 .. 6 : L + j \in DOMAIN g2 /\ g2[L + j] = e[j]
  <2>1. \A j \in 1 .. 6 : L + j \in 1 .. L + 6 /\ L + j # n
    BY <1>1
  <2> QED
    BY <1>7, <1>8, <2>1
<1>12. Prepends(h, g2, N)
  <2> SUFFICES ASSUME NEW m \in DOMAIN h
               PROVE  /\ m \in DOMAIN g2 /\ g2[m].op = h[m].op /\ g2[m].val = h[m].val
                      /\ h[m].op # "FunctionDef" => g2[m].kids = h[m].kids
                      /\ Kids(g2, m) \subseteq Kids(h, m) \cup N
    BY DEF Prepends
  <2>1. CASE m = n
    <3>1. L + 6 \in N
      OBVIOUS
    <3> HIDE DEF N
    <3> QED
      BY <1>9, <1>10, <1>11, <2>1, <3>1
  <2>2. CASE m # n
    <3>1. g2[m] = h[m] /\ m \in DOMAIN g2
      BY <1>11, <2>2
    <3> QED
      BY <3>1 DEF Kids
  <2> QED
    BY <2>1, <2>2
<1>13. ASSUME NEW x \in N
       PROVE  /\ x \in DOMAIN g2 /\ Kids(g2, x) \subseteq N
              /\ g2[x].op \in {"Name", "None", "Compare", "Constant", "Return", "If"}
  <2>1. PICK j \in 1 .. 6 : x = L + j
    <3>1. {1, 2, 3, 4, 5, 6} \subseteq 1 .. 6
      OBVIOUS
    <3> QED
      BY <3>1
  <2>2. x \in DOMAIN g2 /\ g2[x] = e[j]
    BY <1>11, <2>1
  <2>3. Kids(g2, x) = KidsOf(e[j])
    BY <2>2 DEF Kids, KidsOf
  <2>4. j = 1 \/ j = 2 \/ j = 3 \/ j = 4 \/ j = 5 \/ j = 6
    OBVIOUS
  <2>5. KidsOf(e[j]) \subseteq N
    BY <1>6, <2>4
  <2> HIDE DEF N
  <2> QED
    BY <1>6, <2>2, <2>3, <2>5
<1> HIDE DEF N
<1>14. Prepends(h, r.heap, N) /\ r.node = n
  BY <1>2, <1>12 DEF g2
<1> QED
  BY <1>13, <1>14 DEF g2

-----------------------------------------------------------------------------
(* What a visit method does to a certificate, whichever method it is.      *)

(* The mutation that guards against the exception.                         *)
GuardOf(kind) == IF kind = "null" THEN "insert_null_check" ELSE "insert_bounds_check"

(* The mutations that leave a certificate of the kind alone.               *)
Harmless(kind, op) ==
  CASE kind = "null"   -> op # "insert_null_check"
    [] kind = "bounds" -> op \notin {"insert_bounds_check", "replace_literal", "swap_comparison"}
    [] OTHER           -> op # "insert_bounds_check"

(* A null check in a certificate for bounds, or for there being no len().  *)
LEMMA NullGuardVisit ==
  ASSUME NEW kind \in {"bounds", "len"}, h \in Heaps, NEW n \in DOMAIN h,
         h[n].op \in {"Attribute", "Subscript"}, NEW r \in NullGuard(n),
         NEW S, NEW D, NEW T, Safe(kind, h, S, D, T), kind = "bounds" => \A c \in Kids(h, n) : Tame(h, c)
  PROVE  Renewed(kind, r.heap, n, r.node, S)
<1> DEFINE g2 == r.heap
           y  == r.node
           a  == Kid(h, n, 1)
           T2 == T \cup (IF <<n, n>> \in T THEN {<<y, n>>} ELSE {})
<1>1. PICK N, q : y \in N /\ NullShape(g2, n, N, y, q)
  BY NullGuardShape
<1>2. /\ Gains(g2, N) /\ Guarded(g2, n, N, y, q) /\ NotNone(g2, q) /\ Kid(g2, q, 1) = a
      /\ \A x \in N : x # y => g2[x].op \in {"None", "Compare", "Constant"}
                               /\ Kids(g2, x) \subseteq N \cup {a}
  BY <1>1 DEF NullShape
<1>3. /\ N \subseteq DOMAIN g2 /\ \A m \in DOMAIN h : m \in DOMAIN g2 /\ g2[m] = h[m]
  BY <1>2 DEF Gains
<1>4. a \in Kids(h, n) /\ a \in DOMAIN h
  BY SlotFacts
<1>5. \A v : <<n, v>> \in T => v = n /\ kind = "bounds" /\ h[n].op = "Attribute"
  <2> SUFFICES ASSUME NEW v, <<n, v>> \in T PROVE v = n /\ kind = "bounds" /\ h[n].op = "Attribute"
    OBVIOUS
  <2>1. JustT(kind, h, S, T, n, v)
    BY DEF Safe
  <2>2. v = n /\ n \in S /\ kind = "bounds"
    BY <2>1 DEF JustT
  <2>3. JustS(kind, h, S, D, T, n)
    BY <2>2 DEF Safe
  <2> QED
    BY <2>2, <2>3 DEF JustS, Access
<1>6. T \subseteq T2 /\ \A m, v : <<m, v>> \in T2 /\ <<m, v>> \notin T => m = y /\ v = n /\ <<n, n>> \in T
  OBVIOUS
<1>y. y # n
  BY <1>1, <1>2 DEF Gains
<1>7. \A v : <<n, v>> \in T2 => <<y, v>> \in T2
  BY <1>5, <1>y
<1> HIDE DEF T2
<1>8. ASSUME NEW m, NEW v, <<m, v>> \in T2, <<m, v>> \notin T
      PROVE  {m, v} \subseteq DOMAIN g2 /\ \A S2 : S \subseteq S2 => JustT(kind, g2, S2, T2, m, v)
  <2>1. m = y /\ v = n /\ <<n, n>> \in T /\ kind = "bounds" /\ h[n].op = "Attribute"
    BY <1>5, <1>6, <1>8
  <2>2. m \in DOMAIN g2 /\ v \in DOMAIN g2 /\ g2[n] = h[n] /\ Kid(g2, n, 1) = a
    BY <1>1, <1>3, <2>1 DEF Kid
  <2>3. n \in S
    <3>1. JustT(kind, h, S, T, n, n)
      BY <2>1 DEF Safe
    <3> QED
      BY <3>1 DEF JustT
  <2>4. /\ g2[y].op = "IfExp" /\ Kid(g2, y, 1) = q /\ Kid(g2, y, 2) = n /\ Zero(g2, Kid(g2, y, 3))
    BY <1>2 DEF Guarded
  <2>5. Tame(g2, a)
    BY <1>3, <1>4, <2>1 DEF Tame
  <2>6. <<Kid(g2, y, 2), n>> \in T2
    BY <1>6, <2>1, <2>4
  <2> HIDE DEF a
  <2>7. ASSUME NEW S2, S \subseteq S2 PROVE JustT(kind, g2, S2, T2, y, n)
    BY <1>2, <2>1, <2>2, <2>3, <2>4, <2>5, <2>6, <2>7 DEF JustT
  <2> QED
    BY <2>1, <2>2, <2>7
<1>9. ASSUME NEW x \in N
      PROVE  /\ Kids(g2, x) \subseteq N \cup {n} \cup Kids(h, n)
             /\ g2[x].op \notin Access(kind)
  <2>1. CASE x # y
    BY <1>2, <1>4, <2>1 DEF Access
  <2>2. CASE x = y
    BY <1>2, <2>2 DEF Access, Guarded
  <2> QED
    BY <2>1, <2>2
<1> HIDE DEF g2, y
<1>10. Renewed(kind, g2, n, y, S)
  BY <1>1, <1>2, <1>6, <1>7, <1>8, <1>9, GuardAdded
<1> QED
  BY <1>10 DEF g2, y

(* A bounds check in a certificate for None.                               *)
LEMMA BoundsGuardVisit ==
  ASSUME h \in Heaps, NEW n \in DOMAIN h, h[n].op = "Subscript", NEW r \in BoundsGuard(n),
         NEW S, NEW D, NEW T, Safe("null", h, S, D, T)
  PROVE  Renewed("null", r.heap, n, r.node, S)
<1> DEFINE g2 == r.heap
           y  == r.node
           a  == Kid(h, n, 1)
           b  == Kid(h, n, 2)
           kind == "null"
<1>1. PICK N, q : y \in N /\ BoundsShape(g2, n, N, y, q)
  BY BoundsGuardShape
<1>2. /\ Gains(g2, N) /\ Guarded(g2, n, N, y, q)
      /\ \A x \in N : x # y =>
           /\ g2[x].op \in {"Len", "Compare", "Constant", "And"}
           /\ Kids(g2, x) \subseteq N \cup {a, b}
           /\ g2[x].op = "Len" => Kids(g2, x) = {a} /\ Kid(g2, x, 1) = a
  BY <1>1 DEF BoundsShape
<1>3. a \in Kids(h, n) /\ b \in Kids(h, n)
  BY SlotFacts
<1>4. \A v : <<n, v>> \notin T
  <2> SUFFICES ASSUME NEW v, <<n, v>> \in T PROVE FALSE
    OBVIOUS
  <2>1. JustT("null", h, S, T, n, v)
    BY DEF Safe
  <2>2. n \in S
    BY <2>1 DEF JustT
  <2>3. JustS("null", h, S, D, T, n)
    BY <2>2 DEF Safe
  <2> QED
    BY <2>3 DEF JustS, Access
<1>5. ASSUME NEW x \in N
      PROVE  /\ Kids(g2, x) \subseteq N \cup {n} \cup Kids(h, n)
             /\ \/ g2[x].op \notin Access(kind)
                \/ /\ kind = "null" /\ g2[x].op = "Len" /\ h[n].op = "Subscript"
                   /\ Kids(g2, x) \subseteq Kids(h, n) /\ Kid(g2, x, 1) = Kid(h, n, 1)
  <2>1. CASE x # y
    BY <1>2, <1>3, <2>1 DEF Access
  <2>2. CASE x = y
    BY <1>2, <2>2 DEF Access, Guarded
  <2> QED
    BY <2>1, <2>2
<1>6. kind = "null"
  OBVIOUS
<1> HIDE DEF g2, y, kind
<1>7. /\ \A m, v : <<m, v>> \in T /\ <<m, v>> \notin T =>
             {m, v} \subseteq DOMAIN g2 /\ \A S2 : S \subseteq S2 => JustT(kind, g2, S2, T, m, v)
      /\ \A v : <<n, v>> \in T => <<y, v>> \in T
      /\ T \subseteq T
  BY <1>4
<1>8. Safe(kind, h, S, D, T) /\ h[n].op \in {"Attribute", "Subscript"}
  BY <1>6
<1>9. Renewed(kind, g2, n, y, S)
  BY <1>1, <1>2, <1>5, <1>7, <1>8, GuardAdded
<1> QED
  BY <1>6, <1>9 DEF g2, y

(* A literal or a comparison that no certificate depends on is changed.    *)
LEMMA SwapKept ==
  ASSUME NEW kind, h \in Heaps, NEW n \in DOMAIN h, NEW val,
         [h EXCEPT ![n].val = val] \in Heaps,
         h[n].op = "Compare" => kind # "bounds" /\ (h[n].val = "IsNot" => val = "IsNot"),
         h[n].op = "Constant" => kind # "bounds",
         NEW S, NEW D, NEW T, Safe(kind, h, S, D, T)
  PROVE  Safe(kind, [h EXCEPT ![n].val = val], S, D, T)
<1> DEFINE g2 == [h EXCEPT ![n].val = val]
<1>1. h[n] \in Nodes
  BY HeapFacts
<1>2. /\ DOMAIN g2 = DOMAIN h /\ \A m \in DOMAIN h : m # n => g2[m] = h[m]
      /\ g2[n] = [h[n] EXCEPT !.val = val]
  OBVIOUS
<1> HIDE DEF g2
<1>3. g2[n].op = h[n].op /\ g2[n].kids = h[n].kids /\ g2[n].val = val
  BY <1>1, <1>2 DEF Nodes
<1>4. ASSUME NEW m \in DOMAIN h
      PROVE  m \in DOMAIN g2 /\ Alike(kind, h[m], g2[m]) /\ g2[m].kids = h[m].kids
  <2>1. CASE m = n
    BY <1>2, <1>3, <2>1 DEF Alike
  <2>2. CASE m # n
    BY <1>2, <2>2 DEF Alike
  <2> QED
    BY <2>1, <2>2
<1>5. g2 \in Heaps
  BY DEF g2
<1>6. Safe(kind, g2, S, D, T)
  BY <1>4, <1>5, ValueSafe
<1> QED
  BY <1>6 DEF g2

(* A visit that leaves the guards alone: the certificate is renewed, and   *)
(* what comes out of the visit can be taken for the node.                  *)
LEMMA VisitSafe ==
  ASSUME NEW kind \in {"null", "bounds", "len"}, h \in Heaps, NEW n \in DOMAIN h, NEW op,
         NEW r \in Visited(op, n), NEW S, NEW D, NEW T, Safe(kind, h, S, D, T), Harmless(kind, op),
         kind = "bounds" /\ op = "insert_null_check" => \A c \in Kids(h, n) : Tame(h, c)
  PROVE  Renewed(kind, r.heap, n, r.node, S)
<1>0. Renewed(kind, h, n, n, S)
  BY DEF Covers, Renewed
<1>1. CASE op = "insert_null_check" /\ h[n].op \in {"Attribute", "Subscript"}
  <2>1. r \in NullGuard(n) /\ kind \in {"bounds", "len"}
    BY <1>1 DEF Visited, Harmless
  <2> QED
    BY <1>1, <2>1, NullGuardVisit
<1>2. CASE op = "insert_bounds_check" /\ h[n].op = "Subscript"
  <2>1. r \in BoundsGuard(n) /\ kind = "null"
    BY <1>2 DEF Visited, Harmless
  <2> QED
    BY <1>2, <2>1, BoundsGuardVisit
<1>3. CASE op = "add_early_return" /\ h[n].op = "FunctionDef"
  <2>1. r \in EarlyReturn(n)
    BY <1>3 DEF Visited
  <2>2. PICK N : /\ Prepends(h, r.heap, N) /\ r.node = n
                 /\ \A x \in N : /\ x \in DOMAIN r.heap /\ Kids(r.heap, x) \subseteq N
                                 /\ r.heap[x].op \in {"Name", "None", "Compare", "Constant", "Return", "If"}
    BY <1>3, <2>1, EarlyReturnPrepends
  <2>3. \A x \in N : x \in DOMAIN r.heap /\ r.heap[x].op \notin Access(kind) /\ Kids(r.heap, x) \subseteq N
    BY <2>2 DEF Access
  <2>4. Safe(kind, r.heap, S \cup N, D, T)
    BY <2>2, <2>3, PrependSafe
  <2>5. Covers(S \cup N, D, T, S \cup N, D, T, n, r.node) /\ S \subseteq S \cup N
    BY <2>2 DEF Covers
  <2> QED
    BY <2>4, <2>5 DEF Renewed
<1>4. CASE \/ op = "swap_operator" /\ h[n].op = "BinOp"
           \/ op = "swap_comparison" /\ h[n].op = "Compare"
           \/ op = "replace_literal" /\ h[n].op = "Constant"
  <2>1. r.heap \in Heaps
    BY VisitedFits DEF Fits
  <2>2. CASE r = [heap |-> h, node |-> n]
    <3>1. r.heap = h /\ r.node = n
      BY <2>2
    <3> QED
      BY <1>0, <3>1
  <2>3. ASSUME NEW val, r = [heap |-> [h EXCEPT ![n].val = val], node |-> n],
               h[n].op = "Compare" => kind # "bounds" /\ (h[n].val = "IsNot" => val = "IsNot"),
               h[n].op = "Constant" => kind # "bounds"
        PROVE  Renewed(kind, r.heap, n, r.node, S)
    <3> DEFINE w == [h EXCEPT ![n].val = val]
    <3>1. r.heap = w /\ r.node = n
      <4> HIDE DEF w
      <4>1. r = [heap |-> w, node |-> n]
        BY <2>3 DEF w
      <4> QED
        BY <4>1
    <3>2. w \in Heaps
      BY <2>1, <3>1
    <3>3. Safe(kind, w, S, D, T)
      BY <2>3, <3>2, SwapKept
    <3> QED
      BY <3>1, <3>3 DEF Renewed, Covers
  <2>4. CASE op = "swap_operator" /\ h[n].op = "BinOp"
    <3>1. r \in Swapped(OperatorSwap, n)
      BY <2>4 DEF Visited
    <3>2. r = [heap |-> h, node |-> n] \/ \E val : r = [heap |-> [h EXCEPT ![n].val = val], node |-> n]
      BY <3>1 DEF Swapped, Result
    <3> QED
      BY <2>2, <2>3, <2>4, <3>2
  <2>5. CASE op = "swap_comparison" /\ h[n].op = "Compare"
    <3>1. r \in Swapped(ComparisonSwap, n) /\ kind # "bounds"
      BY <2>5 DEF Visited, Harmless
    <3>2. "IsNot" \notin DOMAIN ComparisonSwap
      BY DEF ComparisonSwap
    <3>3. \/ r = [heap |-> h, node |-> n]
          \/ \E val : /\ r = [heap |-> [h EXCEPT ![n].val = val], node |-> n]
                      /\ h[n].val # "IsNot"
      BY <3>1, <3>2 DEF Swapped, Result
    <3> QED
      BY <2>2, <2>3, <2>5, <3>1, <3>3
  <2>6. CASE op = "replace_literal" /\ h[n].op = "Constant"
    <3>1. r \in Literal(n) /\ kind # "bounds"
      BY <2>6 DEF Visited, Harmless
    <3>2. \E val : r = [heap |-> [h EXCEPT ![n].val = val], node |-> n]
      BY <3>1 DEF Literal, Result
    <3> QED
      BY <2>3, <2>6, <3>1, <3>2
  <2> QED
    BY <1>4, <2>4, <2>5, <2>6
<1>5. CASE /\ ~(op = "insert_null_check" /\ h[n].op \in {"Attribute", "Subscript"})
           /\ ~(op = "insert_bounds_check" /\ h[n].op = "Subscript")
           /\ ~(op = "add_early_return" /\ h[n].op = "FunctionDef")
           /\ ~(op = "swap_operator" /\ h[n].op = "BinOp")
           /\ ~(op = "swap_comparison" /\ h[n].op = "Compare")
           /\ ~(op = "replace_literal" /\ h[n].op = "Constant")
  <2>1. r = [heap |-> h, node |-> n]
    BY <1>5 DEF Visited, Result
  <2>2. r.heap = h /\ r.node = n
    BY <2>1
  <2> QED
    BY <1>0, <2>2
<1> QED
  BY <1>1, <1>2, <1>3, <1>4, <1>5

(* A visit of the guarding mutation: if the children are safe, what comes  *)
(* out of the visit is safe, whatever the node is.                         *)
LEMMA BuildSafe ==
  ASSUME NEW kind \in {"null", "bounds"}, h \in Heaps, NEW n \in DOMAIN h,
         NEW r \in Visited(GuardOf(kind), n), NEW S, NEW D, NEW T, Safe(kind, h, S, D, T),
         Kids(h, n) \subseteq S, kind = "null" => h[n].op # "Len"
  PROVE  Renewed(kind, r.heap, n, r.node, S \cup {r.node})
<1> DEFINE g2 == r.heap
           y  == r.node
           a  == Kid(h, n, 1)
           b  == IF kind = "null" THEN a ELSE Kid(h, n, 2)
<1>1. CASE kind = "null" /\ h[n].op \in {"Attribute", "Subscript"}
  <2>1. r \in NullGuard(n)
    BY <1>1 DEF Visited, GuardOf
  <2>2. PICK N, q : y \in N /\ NullShape(g2, n, N, y, q)
    BY <1>1, <2>1, NullGuardShape
  <2>3. /\ Gains(g2, N) /\ Guarded(g2, n, N, y, q) /\ NotNone(g2, q) /\ Kid(g2, q, 1) = a
        /\ \A x \in N : x # y => g2[x].op \in {"None", "Compare", "Constant"}
                                 /\ Kids(g2, x) \subseteq N \cup {a}
    BY <2>2 DEF NullShape
  <2>4. a \in Kids(h, n)
    BY <1>1, SlotFacts
  <2>5. \A x \in N : /\ g2[x].op \notin Access(kind)
                     /\ x # y => Kids(g2, x) \subseteq N \cup Kids(h, n)
    BY <1>1, <2>3, <2>4 DEF Access, Guarded
  <2>6. Opens(kind, g2, {<<a, a>>, <<b, b>>}, q, a, b)
    BY <1>1, <2>3 DEF Opens
  <2>7. h[n].op \in Access(kind)
    BY <1>1 DEF Access
  <2>8. a = Kid(h, n, 1) /\ b = IF kind = "null" THEN a ELSE Kid(h, n, 2)
    OBVIOUS
  <2> HIDE DEF g2, y, a, b
  <2>9. Renewed(kind, g2, n, y, S \cup {y})
    BY <1>1, <2>2, <2>3, <2>5, <2>6, <2>7, <2>8, GuardBuilt
  <2> QED
    BY <2>9 DEF g2, y
<1>2. CASE kind = "bounds" /\ h[n].op = "Subscript"
  <2>1. r \in BoundsGuard(n)
    BY <1>2 DEF Visited, GuardOf
  <2>2. PICK N, q : y \in N /\ BoundsShape(g2, n, N, y, q)
    BY <1>2, <2>1, BoundsGuardShape
  <2>3. /\ Gains(g2, N) /\ Guarded(g2, n, N, y, q)
        /\ InList(g2, {<<Kid(h, n, j), Kid(h, n, j)>> : j \in {1, 2}}, q, a, b)
        /\ \A x \in N : x # y =>
             /\ g2[x].op \in {"Len", "Compare", "Constant", "And"}
             /\ Kids(g2, x) \subseteq N \cup {a, b}
    BY <1>2, <2>2 DEF BoundsShape
  <2>4. a \in Kids(h, n) /\ b \in Kids(h, n)
    BY <1>2, SlotFacts
  <2>5. \A x \in N : /\ g2[x].op \notin Access(kind)
                     /\ x # y => Kids(g2, x) \subseteq N \cup Kids(h, n)
    BY <1>2, <2>3, <2>4 DEF Access, Guarded
  <2>6. Opens(kind, g2, {<<a, a>>, <<b, b>>}, q, a, b)
    <3>1. {<<Kid(h, n, j), Kid(h, n, j)>> : j \in {1, 2}} = {<<a, a>>, <<b, b>>}
      BY <1>2
    <3> HIDE DEF a, b
    <3> QED
      BY <1>2, <2>3, <3>1 DEF Opens
  <2>7. h[n].op \in Access(kind) /\ h[n].op \in {"Attribute", "Subscript"}
    BY <1>2 DEF Access
  <2>8. a = Kid(h, n, 1) /\ b = IF kind = "null" THEN a ELSE Kid(h, n, 2)
    OBVIOUS
  <2> HIDE DEF g2, y, a, b
  <2>9. Renewed(kind, g2, n, y, S \cup {y})
    BY <1>2, <2>2, <2>3, <2>5, <2>6, <2>7, <2>8, GuardBuilt
  <2> QED
    BY <2>9 DEF g2, y
<1>3. CASE /\ ~(kind = "null" /\ h[n].op \in {"Attribute", "Subscript"})
           /\ ~(kind = "bounds" /\ h[n].op = "Subscript")
  <2>1. r = [heap |-> h, node |-> n]
    BY <1>3 DEF Visited, Result, GuardOf
  <2>2. h[n].op \notin Access(kind)
    BY <1>3 DEF Access
  <2> DEFINE S2 == S \cup {n}
  <2>3. S \subseteq S2 /\ n \in S2 /\ \A m \in S2 : m \in S \/ m = n
    OBVIOUS
  <2> HIDE DEF S2
  <2>4. Grows(kind, h, h, S, D, T, S2, D, T)
    BY <2>3, AddedGrows
  <2>5. JustS(kind, h, S2, D, T, n)
    BY <2>2, <2>3 DEF JustS
  <2>6. Safe(kind, h, S2, D, T)
    BY <2>3, <2>4, <2>5, Grown
  <2>7. Covers(S2, D, T, S2, D, T, n, n)
    BY <2>3 DEF Covers
  <2> QED
    <3>1. r.heap = h /\ r.node = n
      BY <2>1
    <3>2. S \cup {n} \subseteq S2
      BY <2>3
    <3> QED
      BY <2>6, <2>7, <3>1, <3>2 DEF Renewed
<1> QED
  BY <1>1, <1>2, <1>3

-----------------------------------------------------------------------------
(* The walk: what takes the place of a node, and where.                    *)

(* The mutation of a visit that is of no other kind takes no node's place. *)
LEMMA VisitTakes ==
  ASSUME h \in Heaps, NEW n \in DOMAIN h, NEW op, NEW r \in Visited(op, n)
  PROVE  /\ r.node = n \/ ~Tame(r.heap, n)
         /\ op = "insert_null_check" => Tame(r.heap, r.node)
<1>0. Fits(r, n)
  BY VisitedFits
<1>1. CASE op = "insert_null_check" /\ h[n].op \in {"Attribute", "Subscript"}
  <2>1. r \in NullGuard(n)
    BY <1>1 DEF Visited
  <2>2. PICK N, q : r.node \in N /\ NullShape(r.heap, n, N, r.node, q)
    BY <1>1, <2>1, NullGuardShape
  <2>3. r.heap[n] = h[n] /\ r.heap[r.node].op = "IfExp"
    BY <2>2 DEF NullShape, Gains, Guarded
  <2> QED
    BY <1>1, <2>3 DEF Tame
<1>2. CASE op = "insert_bounds_check" /\ h[n].op = "Subscript"
  <2>1. r \in BoundsGuard(n)
    BY <1>2 DEF Visited
  <2>2. PICK N, q : r.node \in N /\ BoundsShape(r.heap, n, N, r.node, q)
    BY <1>2, <2>1, BoundsGuardShape
  <2>3. r.heap[n] = h[n]
    BY <2>2 DEF BoundsShape, Gains
  <2> QED
    BY <1>2, <2>3 DEF Tame
<1>3. CASE op = "insert_null_check" /\ h[n].op \notin {"Attribute", "Subscript"}
  <2>1. r = [heap |-> h, node |-> n]
    BY <1>3 DEF Visited, Result
  <2>2. r.heap = h /\ r.node = n
    BY <2>1
  <2> QED
    BY <1>3, <2>2 DEF Tame
<1>4. CASE /\ op # "insert_null_check"
           /\ ~(op = "insert_bounds_check" /\ h[n].op = "Subscript")
  <2>1. CASE op = "add_early_return" /\ h[n].op = "FunctionDef"
    <3>1. r \in EarlyReturn(n)
      BY <2>1 DEF Visited
    <3> QED
      BY <1>4, <2>1, <3>1, EarlyReturnPrepends
  <2>2. CASE ~(op = "add_early_return" /\ h[n].op = "FunctionDef")
    <3>1. \/ r \in Swapped(OperatorSwap, n)
          \/ r \in Swapped(ComparisonSwap, n)
          \/ r \in Literal(n)
          \/ r \in Result(h, n)
      BY <1>4, <2>2 DEF Visited
    <3>2. r.node = n
      BY <3>1 DEF Swapped, Literal, Result
    <3> QED
      BY <1>4, <3>2
  <2> QED
    BY <2>1, <2>2
<1> QED
  BY <1>1, <1>2, <1>3, <1>4

(* No node is visited inside of a visit of its own.                        *)
LEMMA Deep ==
  ASSUME WalkInv, NEW i \in DOMAIN stack, NEW j \in DOMAIN stack, i < j
  PROVE  stack[i].node # stack[j].node
<1>1. h \in Heaps /\ stack \in Seq(Frames) /\ \A l \in DOMAIN stack : FrameFits(l)
  BY DEF WalkInv, WalkType
<1>2. PICK rank : Descends(rank)
  BY DEF WalkInv
<1>3. PICK N \in Nat : N = Len(stack) /\ DOMAIN stack = 1 .. N
  BY <1>1
<1> DEFINE R(l) == rank[stack[l].node]
<1>4. \A l \in 1 .. N : R(l) \in Nat
  BY <1>1, <1>2, <1>3 DEF Descends, Ranks, FrameFits
<1>5. \A l \in 1 .. N - 1 : R(l + 1) < R(l)
  BY <1>2, <1>3 DEF Descends
<1> HIDE DEF R
<1> DEFINE Bad == {l \in 1 .. N : i < l /\ ~(R(l) < R(i))}
<1>6. Bad = {}
  <2> SUFFICES ASSUME Bad # {} PROVE FALSE
    OBVIOUS
  <2>1. PICK l \in Bad : \A m \in Bad : l <= m
    <3>1. Bad \in SUBSET Nat
      OBVIOUS
    <3> HIDE DEF Bad
    <3> QED
      BY <3>1, LeastExists
  <2>2. l \in 1 .. N /\ i < l /\ ~(R(l) < R(i)) /\ i \in 1 .. N
    BY <1>3
  <2>3. l - 1 \in 1 .. N - 1 /\ l - 1 \in 1 .. N /\ (l - 1) + 1 = l
    BY <2>2
  <2>4. R(l) < R(l - 1)
    BY <1>5, <2>3
  <2>5. CASE l - 1 = i
    BY <2>2, <2>4, <2>5
  <2>6. CASE l - 1 # i
    <3>1. i < l - 1 /\ l - 1 \notin Bad
      BY <2>1, <2>2, <2>6
    <3>2. R(l - 1) < R(i)
      BY <2>3, <3>1
    <3> QED
      BY <1>4, <2>2, <2>3, <2>4, <3>2
  <2> QED
    BY <2>5, <2>6
<1>7. R(j) < R(i)
  BY <1>3, <1>6
<1> QED
  BY <1>3, <1>4, <1>7 DEF R

(* The node of a visit is the child that the visit below is at.            *)
Threads ==
  \A i \in 1 .. Len(stack) - 1 : stack[i + 1].node = Kid(h, stack[i].node, stack[i].kid)

(* The node of the innermost visit.                                        *)
Top == stack[Len(stack)].node

LeftRoot(r) ==
  /\ Len(stack) = 1 /\ stack[1].node = Top /\ pc' = "mutate"
  /\ h' = r.heap /\ candidate' = r.node /\ k' = k + 1 /\ stack' = << >>

(* A child of a visit under way that is done is the one that was done      *)
(* last, or was done before and is as it was.                              *)
LeftChild(r, p) ==
  /\ p \in Frames /\ p.node \in DOMAIN h /\ p.node # Top
  /\ p.kid \in DOMAIN h[p.node].kids /\ Kid(h, p.node, p.kid) = Top
  /\ h' = Put(r.heap, p.node, p.kid, r.node) /\ pc' = "visit" /\ k' = k
  /\ 1 \in DOMAIN stack' /\ stack' # << >>
  /\ \A i \in DOMAIN stack' : i \in DOMAIN stack /\ stack'[i].node = stack[i].node
  /\ \A i \in DOMAIN stack' : \A j \in 1 .. stack'[i].kid - 1 :
       \/ Kid(h', stack'[i].node, j) = r.node
       \/ /\ j \in 1 .. stack[i].kid - 1 /\ Kid(h, stack[i].node, j) \in DOMAIN h
          /\ Kid(h', stack'[i].node, j) = Kid(h, stack[i].node, j)
  /\ Threads'

(* What the end of a visit does.                                           *)
Left(r) == LeftRoot(r) \/ \E p : LeftChild(r, p)

(* A child is put in its slot.                                             *)
LEMMA PutKids ==
  ASSUME NEW g \in Heaps, NEW p \in DOMAIN g, NEW i \in DOMAIN g[p].kids, NEW x
  PROVE  /\ \A m \in DOMAIN g : m # p => Put(g, p, i, x)[m] = g[m]
         /\ Kid(Put(g, p, i, x), p, i) = x
         /\ \A j \in DOMAIN g[p].kids : j # i => Kid(Put(g, p, i, x), p, j) = Kid(g, p, j)
         /\ \A m \in DOMAIN g : Put(g, p, i, x)[m].op = g[m].op
         /\ DOMAIN Put(g, p, i, x) = DOMAIN g
<1> DEFINE ks == [g[p].kids EXCEPT ![i] = x]
           g2 == Put(g, p, i, x)
<1>1. g[p] \in Nodes
  BY HeapFacts
<1>2. /\ \A m \in DOMAIN g : m # p => g2[m] = g[m]
      /\ g2[p] = [g[p] EXCEPT !.kids = ks] /\ DOMAIN g2 = DOMAIN g
  BY DEF Put
<1>3. g2[p].kids = ks /\ g2[p].op = g[p].op
  BY <1>1, <1>2 DEF Nodes
<1>4. ks[i] = x /\ \A j \in DOMAIN g[p].kids : j # i => ks[j] = g[p].kids[j]
  OBVIOUS
<1> HIDE DEF ks, g2
<1> QED
  BY <1>2, <1>3, <1>4 DEF Kid, g2

LEMMA LeaveLeft ==
  ASSUME WalkInv, Threads, Leave
  PROVE  \E r \in Visited(ops[k], Top) : Left(r)
<1>1. /\ pc = "visit" /\ h \in Heaps /\ stack \in Seq(Frames) /\ stack # << >>
      /\ \A i \in DOMAIN stack : FrameFits(i)
  BY DEF WalkInv, WalkType, Leave
<1>2. PICK N \in Nat : N = Len(stack)
  BY <1>1
<1>3. N >= 1 /\ DOMAIN stack = 1 .. N /\ N \in DOMAIN stack /\ \A i \in 1 .. N : stack[i] \in Frames
  BY <1>1, <1>2, TopExists
<1> DEFINE n    == stack[N].node
           rest == Front(stack)
<1>4. n \in DOMAIN h /\ n = Top
  BY <1>1, <1>2, <1>3 DEF FrameFits, Top
<1>5. PICK r \in Visited(ops[k], n) :
        IF rest = << >>
          THEN h' = r.heap /\ candidate' = r.node /\ k' = k + 1 /\ pc' = "mutate" /\ stack' = << >>
          ELSE /\ h' = [r.heap EXCEPT ![Last(rest).node].kids[Last(rest).kid] = r.node]
               /\ stack' = [rest EXCEPT ![Len(rest)].kid = @ + 1]
               /\ UNCHANGED <<candidate, k, pc>>
  BY <1>2 DEF Leave, Last
<1>6. /\ rest \in Seq(Frames) /\ Len(rest) = N - 1 /\ DOMAIN rest = 1 .. N - 1
      /\ \A i \in 1 .. N - 1 : rest[i] = stack[i]
  BY <1>1, <1>2, <1>3 DEF Front
<1> HIDE DEF n, rest
<1>11. Fits(r, n)
  BY <1>1, <1>4, VisitedFits
<1>15. CASE N = 1
  <2>1. rest = << >>
    BY <1>6, <1>15
  <2>2. LeftRoot(r)
    BY <1>2, <1>4, <1>5, <1>15, <2>1 DEF LeftRoot, n
  <2> QED
    BY <1>4, <2>2 DEF Left
<1>16. CASE N >= 2
  <2> DEFINE p  == stack[N - 1]
             g2 == Put(r.heap, p.node, p.kid, r.node)
  <2>1. rest # << >> /\ Last(rest) = p /\ N - 1 \in 1 .. N - 1 /\ N - 1 \in 1 .. N
    BY <1>6, <1>16 DEF Last
  <2>2. h' = g2 /\ stack' = [rest EXCEPT ![N - 1].kid = @ + 1] /\ pc' = pc /\ k' = k
    BY <1>5, <1>6, <2>1 DEF Put
  <2>3. /\ p \in Frames /\ p.node \in DOMAIN h /\ p.kid \in DOMAIN h[p.node].kids
        /\ Kid(h, p.node, p.kid) = n
    <3>1. p \in Frames /\ FrameFits(N - 1) /\ N - 1 # Len(stack)
      BY <1>1, <1>2, <1>3, <2>1
    <3>2. p.node \in DOMAIN h /\ p.kid \in Nat /\ p.kid >= 1 /\ p.kid <= Len(h[p.node].kids)
      BY <3>1 DEF FrameFits, Frames
    <3>3. h[p.node].kids \in Seq(DOMAIN h)
      BY <1>1, <3>2, HeapFacts
    <3>4. p.kid \in DOMAIN h[p.node].kids
      BY <3>2, <3>3
    <3>5. Kid(h, p.node, p.kid) = n
      <4>1. (N - 1) + 1 = N /\ N - 1 \in 1 .. Len(stack) - 1
        BY <1>2, <2>1
      <4> QED
        BY <4>1 DEF n, Threads
    <3> QED
      BY <3>1, <3>2, <3>4, <3>5
  <2>4. \A i, j \in 1 .. N : i < j => stack[i].node # stack[j].node
    BY <1>3, Deep
  <2>5. p.node # n /\ \A i \in 1 .. N - 2 : stack[i].node # n /\ stack[i].node # p.node
    <3>1. N - 1 < N /\ N \in 1 .. N
      BY <1>3
    <3>2. \A i \in 1 .. N - 2 : i \in 1 .. N /\ i < N /\ i < N - 1
      OBVIOUS
    <3> QED
      BY <2>1, <2>4, <3>1, <3>2 DEF n
  <2>6. /\ DOMAIN stack' = 1 .. N - 1 /\ Len(stack') = N - 1
        /\ \A i \in 1 .. N - 1 : stack'[i].node = stack[i].node
        /\ \A i \in 1 .. N - 2 : stack'[i].kid = stack[i].kid
        /\ stack'[N - 1].kid = p.kid + 1
    <3>1. \A i \in 1 .. N - 1 : rest[i] \in Frames
      BY <1>6
    <3> DEFINE t == [rest EXCEPT ![N - 1].kid = @ + 1]
    <3>2. /\ DOMAIN t = 1 .. N - 1 /\ Len(t) = N - 1
          /\ \A i \in 1 .. N - 1 : i # N - 1 => t[i] = rest[i]
          /\ t[N - 1] = [rest[N - 1] EXCEPT !.kid = @ + 1]
      BY <1>6, <2>1
    <3>3. t[N - 1].node = rest[N - 1].node /\ t[N - 1].kid = p.kid + 1
      BY <1>6, <2>1, <3>1, <3>2 DEF Frames
    <3>4. stack' = t
      BY <2>2
    <3> HIDE DEF t
    <3>5. \A i \in 1 .. N - 2 : i \in 1 .. N - 1 /\ i # N - 1
      OBVIOUS
    <3> QED
      BY <1>6, <3>2, <3>3, <3>4, <3>5
  <2>7. \A m \in DOMAIN h : m # n => m \in DOMAIN r.heap /\ r.heap[m] = h[m]
    <3>1. r.heap \in Heaps /\ Len(r.heap) >= Len(h) /\ \A m \in DOMAIN h : m # n => r.heap[m] = h[m]
      BY <1>11 DEF Fits
    <3>2. DOMAIN h \subseteq DOMAIN r.heap
      BY <1>1, <3>1, HeapFacts
    <3> QED
      BY <3>1, <3>2
  <2> HIDE DEF p
  <2>8. r.heap \in Heaps /\ p.node \in DOMAIN r.heap /\ p.kid \in DOMAIN r.heap[p.node].kids
    BY <1>11, <2>3, <2>5, <2>7 DEF Fits
  <2>9. /\ \A m \in DOMAIN r.heap : m # p.node => g2[m] = r.heap[m]
        /\ Kid(g2, p.node, p.kid) = r.node
        /\ \A j \in DOMAIN r.heap[p.node].kids : j # p.kid => Kid(g2, p.node, j) = Kid(r.heap, p.node, j)
    BY <2>8, PutKids
  <2> HIDE DEF g2
  <2>10. ASSUME NEW i \in 1 .. N - 1, NEW j \in 1 .. stack[i].kid
         PROVE  /\ stack[i].node \in DOMAIN h /\ j \in DOMAIN h[stack[i].node].kids
                /\ Kid(h, stack[i].node, j) \in DOMAIN h /\ stack[i].kid \in Nat /\ stack[i].kid >= 1
    <3>1. i \in DOMAIN stack /\ i # Len(stack)
      BY <1>2, <1>3
    <3>2. FrameFits(i) /\ stack[i] \in Frames
      BY <1>1, <1>3, <3>1
    <3>3. /\ stack[i].node \in DOMAIN h /\ stack[i].kid \in Nat /\ stack[i].kid >= 1
          /\ stack[i].kid <= Len(h[stack[i].node].kids)
      BY <3>1, <3>2 DEF FrameFits, Frames
    <3>4. h[stack[i].node].kids \in Seq(DOMAIN h)
      BY <1>1, <3>3, HeapFacts
    <3>5. j \in DOMAIN h[stack[i].node].kids
      BY <3>3, <3>4
    <3> QED
      BY <3>3, <3>4, <3>5 DEF Kid
  <2>11. ASSUME NEW i \in 1 .. N - 1, NEW j \in 1 .. stack[i].kid, i # N - 1 \/ j # p.kid
         PROVE  Kid(h', stack[i].node, j) = Kid(h, stack[i].node, j)
    <3>1. stack[i].node \in DOMAIN h /\ j \in DOMAIN h[stack[i].node].kids
      BY <2>10
    <3>2. CASE i # N - 1
      <4>1. i \in 1 .. N - 2
        BY <3>2
      <4> QED
        BY <2>2, <2>5, <2>7, <2>9, <3>1, <4>1 DEF Kid
    <3>3. CASE i = N - 1
      <4>1. j # p.kid /\ stack[i].node = p.node
        BY <2>11, <3>3 DEF p
      <4>2. r.heap[p.node] = h[p.node]
        BY <2>3, <2>5, <2>7
      <4> QED
        BY <2>2, <2>9, <3>1, <4>1, <4>2 DEF Kid
    <3> QED
      BY <3>2, <3>3
  <2>12. ASSUME NEW i \in 1 .. N - 1, NEW j \in 1 .. stack'[i].kid - 1
         PROVE  \/ Kid(h', stack'[i].node, j) = r.node
                \/ /\ j \in 1 .. stack[i].kid - 1 /\ Kid(h, stack[i].node, j) \in DOMAIN h
                   /\ Kid(h', stack'[i].node, j) = Kid(h, stack[i].node, j)
    <3>0. stack'[i].node = stack[i].node
      BY <2>6
    <3>1. CASE i # N - 1
      <4>1. i \in 1 .. N - 2 /\ stack'[i].kid = stack[i].kid
        BY <2>6, <3>1
      <4>2. stack[i].kid \in Nat
        <5>1. i \in 1 .. N
          OBVIOUS
        <5> QED
          BY <1>3, <5>1 DEF Frames
      <4>3. j \in 1 .. stack[i].kid
        BY <4>1, <4>2
      <4> QED
        BY <2>10, <2>11, <3>0, <3>1, <4>1, <4>3
    <3>2. CASE i = N - 1
      <4>1. stack'[i].kid = stack[i].kid + 1 /\ p = stack[i] /\ p.kid \in Nat
        BY <2>3, <2>6, <3>2 DEF p, Frames
      <4>2. j \in 1 .. stack[i].kid
        BY <4>1
      <4>3. CASE j = p.kid
        BY <2>2, <2>9, <3>0, <4>1, <4>3
      <4>4. CASE j # p.kid
        <5>1. j \in 1 .. stack[i].kid - 1
          BY <4>1, <4>2, <4>4
        <5> QED
          BY <2>10, <2>11, <3>0, <4>2, <4>4, <5>1
      <4> QED
        BY <4>3, <4>4
    <3> QED
      BY <3>1, <3>2
  <2>13. Threads'
    <3> SUFFICES ASSUME NEW i \in 1 .. N - 2
                 PROVE  stack'[i + 1].node = Kid(h', stack'[i].node, stack'[i].kid)
      BY <2>6 DEF Threads
    <3>1. i \in 1 .. N - 1 /\ i + 1 \in 1 .. N - 1 /\ i # N - 1 /\ i \in 1 .. Len(stack) - 1
      BY <1>2
    <3>2. stack[i].kid \in Nat /\ stack[i].kid >= 1 /\ stack[i].kid \in 1 .. stack[i].kid
      <4>1. i \in 1 .. N
        OBVIOUS
      <4>2. FrameFits(i) /\ stack[i] \in Frames
        BY <1>1, <1>3, <4>1
      <4> QED
        BY <4>2 DEF FrameFits, Frames
    <3>3. Kid(h', stack[i].node, stack[i].kid) = Kid(h, stack[i].node, stack[i].kid)
      BY <2>11, <3>1, <3>2
    <3> QED
      BY <2>6, <3>1, <3>3 DEF Threads
  <2>14. 1 \in DOMAIN stack' /\ stack' # << >> /\ \A i \in DOMAIN stack' : i \in DOMAIN stack
    BY <1>3, <1>16, <2>6
  <2>15. LeftChild(r, p)
    <3>1. h' = Put(r.heap, p.node, p.kid, r.node) /\ pc' = "visit" /\ k' = k
      BY <1>1, <2>2 DEF g2
    <3>2. \A i \in DOMAIN stack' : stack'[i].node = stack[i].node
      BY <2>6
    <3>3. \A i \in DOMAIN stack' : \A j \in 1 .. stack'[i].kid - 1 :
            \/ Kid(h', stack'[i].node, j) = r.node
            \/ /\ j \in 1 .. stack[i].kid - 1 /\ Kid(h, stack[i].node, j) \in DOMAIN h
               /\ Kid(h', stack'[i].node, j) = Kid(h, stack[i].node, j)
      BY <2>6, <2>12
    <3> QED
      BY <1>4, <2>3, <2>5, <2>13, <2>14, <3>1, <3>2, <3>3 DEF LeftChild
  <2> QED
    BY <1>4, <2>15 DEF Left
<1> QED
  BY <1>3, <1>15, <1>16

(* A visit that ends has been at all of the children.                      *)
LEMMA TopDone ==
  ASSUME WalkInv, Leave
  PROVE  /\ pc = "visit" /\ h \in Heaps /\ Top \in DOMAIN h /\ Len(stack) \in DOMAIN stack
         /\ 1 \in DOMAIN stack /\ k \in DOMAIN ops
         /\ \A c \in Kids(h, Top) :
              \E j \in 1 .. stack[Len(stack)].kid - 1 : c = Kid(h, stack[Len(stack)].node, j)
<1>1. /\ pc = "visit" /\ h \in Heaps /\ stack \in Seq(Frames) /\ stack # << >>
      /\ \A i \in DOMAIN stack : FrameFits(i)
  BY DEF WalkInv, WalkType, Leave
<1>2. PICK N \in Nat : N = Len(stack)
  BY <1>1
<1>3. N >= 1 /\ DOMAIN stack = 1 .. N /\ N \in DOMAIN stack /\ \A i \in 1 .. N : stack[i] \in Frames
  BY <1>1, <1>2, TopExists
<1> DEFINE f == stack[N]
<1>4. f.node \in DOMAIN h /\ f.node = Top /\ f \in Frames
  BY <1>1, <1>2, <1>3 DEF FrameFits, Top
<1>5. f.kid > Len(h[f.node].kids) /\ f.kid \in Nat
  BY <1>2, <1>4 DEF Leave, Last, Frames
<1> HIDE DEF f
<1>6. ASSUME NEW c \in Kids(h, f.node)
      PROVE  \E j \in 1 .. f.kid - 1 : c = Kid(h, f.node, j)
  <2>1. PICK j \in DOMAIN h[f.node].kids : c = Kid(h, f.node, j)
    BY <1>1, <1>4, SlotFacts
  <2>2. j \in 1 .. Len(h[f.node].kids) /\ Len(h[f.node].kids) \in Nat
    <3>1. h[f.node].kids \in Seq(DOMAIN h)
      BY <1>1, <1>4, HeapFacts
    <3> QED
      BY <3>1
  <2> QED
    BY <1>5, <2>1, <2>2
<1>7. k \in DOMAIN ops
  BY <1>1 DEF WalkInv, WalkType
<1> QED
  BY <1>1, <1>2, <1>3, <1>4, <1>6, <1>7 DEF f

(* What takes the place of a node in its parent.                           *)
PutBack(kind, r, S) ==
  \E S2, D2, T2 : /\ Safe(kind, h', S2, D2, T2) /\ S \subseteq S2
                  /\ Top \in S => r.node \in S2

(* The node is in place in its parent, and nothing is less safe.           *)
LEMMA PlaceSafe ==
  ASSUME WalkInv, NEW op, NEW r \in Visited(op, Top), Top \in DOMAIN h, h \in Heaps,
         NEW p, LeftChild(r, p), NEW kind, NEW S, Renewed(kind, r.heap, Top, r.node, S)
  PROVE  PutBack(kind, r, S)
<1> DEFINE n == Top
           g == r.heap
           x == r.node
           q == p.node
           i == p.kid
<1>1. PICK S2, D2, T2 : /\ Safe(kind, g, S2, D2, T2) /\ S \subseteq S2
                        /\ Covers(S2, D2, T2, S2, D2, T2, n, x)
  BY DEF Renewed
<1>2. Fits(r, n)
  BY VisitedFits
<1>3. x = n \/ ~Tame(g, n)
  BY VisitTakes
<1>4. q \in DOMAIN h /\ q # n /\ i \in DOMAIN h[q].kids /\ Kid(h, q, i) = n /\ h' = Put(g, q, i, x)
  BY DEF LeftChild
<1>5. g \in Heaps /\ g[q] = h[q] /\ q \in DOMAIN g /\ x \in DOMAIN g
  <2>1. g \in Heaps /\ Len(g) >= Len(h) /\ x \in {n} \cup (Len(h) + 1 .. Len(g)) /\ g[q] = h[q]
    BY <1>2, <1>4 DEF Fits
  <2> HIDE DEF g, x, n, q
  <2>2. DOMAIN h = 1 .. Len(h) /\ DOMAIN g = 1 .. Len(g) /\ Len(h) \in Nat /\ Len(g) \in Nat
    BY <2>1, HeapFacts
  <2> QED
    BY <1>4, <2>1, <2>2 DEF n
<1>n. n \in S2 => x \in S2
  BY <1>1 DEF Covers
<1> HIDE DEF g, x, q, i, n
<1>6. i \in DOMAIN g[q].kids /\ Kid(g, q, i) = n
  BY <1>4, <1>5 DEF Kid
<1>7. CASE x = n
  <2>1. g[q] \in Nodes /\ g[q].kids \in Seq(DOMAIN g) /\ g \in Seq(Nodes)
    BY <1>5, HeapFacts
  <2> DEFINE ks == [g[q].kids EXCEPT ![i] = n]
  <2>2. ks = g[q].kids
    BY <1>6, <2>1 DEF Kid
  <2>3. Put(g, q, i, n) = [g EXCEPT ![q] = [g[q] EXCEPT !.kids = ks]]
    BY DEF Put
  <2> HIDE DEF ks
  <2>4. [g[q] EXCEPT !.kids = ks] = g[q]
    BY <2>1, <2>2 DEF Nodes
  <2>5. Put(g, q, i, n) = g
    BY <2>1, <2>3, <2>4
  <2> QED
    BY <1>1, <1>4, <1>7, <1>n, <2>5 DEF PutBack, g, n, x
<1>8. CASE ~Tame(g, n)
  <2>1. Safe(kind, Put(g, q, i, x), S2, D2, T2)
    BY <1>1, <1>5, <1>6, <1>8, PutSafe
  <2> QED
    BY <1>1, <1>4, <1>n, <2>1 DEF PutBack, n, x
<1> QED
  BY <1>3, <1>7, <1>8

-----------------------------------------------------------------------------
(* The stages of the proof, at a mutation.                                 *)

(* The children that are done are safe.                                    *)
Building(kind) ==
  \E S, D, T :
    /\ Safe(kind, h, S, D, T)
    /\ \A i \in DOMAIN stack : \A j \in 1 .. stack[i].kid - 1 : Kid(h, stack[i].node, j) \in S

(* The tree that is walked is safe.                                        *)
SafeWalk(kind) == Has(kind, h, stack[1].node)

(* All that is visited has no len().                                       *)
LenWalking ==
  \E S, D, T : Safe("len", h, S, D, T) /\ \A i \in DOMAIN stack : stack[i].node \in S

(* A walk for null checks leaves no access behind without one.             *)
TameDone ==
  pc = "visit" /\ ops[k] = "insert_null_check" =>
    \A i \in DOMAIN stack : \A j \in 1 .. stack[i].kid - 1 : Tame(h, Kid(h, stack[i].node, j))

LEMMA LeaveTame ==
  ASSUME WalkInv, Threads, TameDone, Leave
  PROVE  TameDone'
<1> SUFFICES ASSUME pc' = "visit", ops'[k'] = "insert_null_check",
                    NEW i \in DOMAIN stack', NEW j \in 1 .. stack'[i].kid - 1
             PROVE  Tame(h', Kid(h', stack'[i].node, j))
  BY DEF TameDone
<1>1. PICK r \in Visited(ops[k], Top) : Left(r)
  BY LeaveLeft
<1>2. pc = "visit" /\ h \in Heaps /\ Top \in DOMAIN h /\ ops' = ops
  BY TopDone DEF Leave
<1>3. PICK p : LeftChild(r, p)
  BY <1>1 DEF Left, LeftRoot
<1>4. ops[k] = "insert_null_check" /\ i \in DOMAIN stack
  BY <1>2, <1>3 DEF LeftChild
<1>5. Fits(r, Top) /\ Tame(r.heap, r.node)
  BY <1>1, <1>2, <1>4, VisitedFits, VisitTakes
<1> DEFINE n == Top
           g == r.heap
           x == r.node
<1>6. g \in Heaps /\ DOMAIN h \subseteq DOMAIN g /\ x \in DOMAIN g
      /\ \A m \in DOMAIN h : g[m].op = h[m].op
  <2>1. g \in Heaps /\ Len(g) >= Len(h) /\ x \in {n} \cup (Len(h) + 1 .. Len(g))
        /\ \A m \in DOMAIN h : m # n => g[m] = h[m]
    BY <1>5 DEF Fits
  <2>2. g[n].op = h[n].op
    <3>1. CASE h[n].op \in {"Attribute", "Subscript"}
      <4>1. r \in NullGuard(n)
        BY <1>1, <1>4, <3>1 DEF Visited
      <4>2. \E N, q : r.node \in N /\ NullShape(r.heap, n, N, r.node, q)
        BY <1>2, <3>1, <4>1, NullGuardShape
      <4> QED
        BY <1>2, <4>2 DEF NullShape, Gains
    <3>2. CASE h[n].op \notin {"Attribute", "Subscript"}
      <4>1. r = [heap |-> h, node |-> n]
        BY <1>1, <1>4, <3>2 DEF Visited, Result
      <4> QED
        BY <4>1
    <3> QED
      BY <3>1, <3>2
  <2> HIDE DEF g, x, n
  <2>3. DOMAIN h = 1 .. Len(h) /\ DOMAIN g = 1 .. Len(g) /\ Len(h) \in Nat /\ Len(g) \in Nat
    BY <1>2, <2>1, HeapFacts
  <2> QED
    BY <1>2, <2>1, <2>2, <2>3 DEF n
<1>7. \A m \in DOMAIN g : h'[m].op = g[m].op
  <2>1. p.node \in DOMAIN h /\ p.node # n /\ p.kid \in DOMAIN h[p.node].kids
        /\ h' = Put(g, p.node, p.kid, x)
    BY <1>3 DEF LeftChild
  <2>2. g[p.node] = h[p.node] /\ p.node \in DOMAIN g
    BY <1>5, <1>6, <2>1 DEF Fits
  <2> HIDE DEF g, x, n
  <2> QED
    BY <1>6, <2>1, <2>2, PutKids
<1>8. CASE Kid(h', stack'[i].node, j) = x
  BY <1>5, <1>6, <1>7, <1>8 DEF Tame
<1>9. CASE /\ j \in 1 .. stack[i].kid - 1 /\ Kid(h, stack[i].node, j) \in DOMAIN h
           /\ Kid(h', stack'[i].node, j) = Kid(h, stack[i].node, j)
  <2>1. Tame(h, Kid(h, stack[i].node, j))
    BY <1>2, <1>4, <1>9 DEF TameDone
  <2> QED
    BY <1>6, <1>7, <1>9, <2>1 DEF Tame
<1> QED
  BY <1>3, <1>8, <1>9 DEF LeftChild

(* The tree stays safe through the end of a visit of a later mutation.     *)
LEMMA LeaveSafe ==
  ASSUME WalkInv, Threads, TameDone, Leave, NEW kind \in {"null", "bounds"},
         SafeWalk(kind), Harmless(kind, ops[k])
  PROVE  /\ pc' = "mutate" => Has(kind, h', candidate')
         /\ pc' = "visit" => SafeWalk(kind)'
<1>1. PICK r \in Visited(ops[k], Top) : Left(r)
  BY LeaveLeft
<1>2. /\ pc = "visit" /\ h \in Heaps /\ Top \in DOMAIN h /\ Len(stack) \in DOMAIN stack
      /\ \A c \in Kids(h, Top) :
           \E j \in 1 .. stack[Len(stack)].kid - 1 : c = Kid(h, stack[Len(stack)].node, j)
  BY TopDone
<1>3. PICK S, D, T : Safe(kind, h, S, D, T) /\ stack[1].node \in S
  BY DEF SafeWalk, Has
<1>4. kind = "bounds" /\ ops[k] = "insert_null_check" => \A c \in Kids(h, Top) : Tame(h, c)
  BY <1>2 DEF TameDone
<1> DEFINE op == ops[k]
<1>5. Renewed(kind, r.heap, Top, r.node, S)
  <2>1. r \in Visited(op, Top) /\ Harmless(kind, op)
        /\ (kind = "bounds" /\ op = "insert_null_check" => \A c \in Kids(h, Top) : Tame(h, c))
    BY <1>1, <1>4
  <2> HIDE DEF op
  <2> QED
    BY <1>2, <1>3, <2>1, VisitSafe
<1>6. CASE LeftRoot(r)
  <2>1. Top \in S /\ h' = r.heap /\ candidate' = r.node /\ pc' = "mutate"
    BY <1>3, <1>6 DEF LeftRoot
  <2>2. Has(kind, r.heap, r.node)
    BY <1>5, <2>1 DEF Renewed, Covers, Has
  <2> QED
    BY <2>1, <2>2
<1>7. ASSUME NEW p, LeftChild(r, p)
      PROVE  pc' = "visit" /\ SafeWalk(kind)'
  <2>1. PutBack(kind, r, S)
    <3>1. r \in Visited(op, Top)
      BY <1>1
    <3> HIDE DEF op
    <3> QED
      BY <1>2, <1>5, <1>7, <3>1, PlaceSafe
  <2>2. stack'[1].node = stack[1].node /\ pc' = "visit"
    BY <1>7 DEF LeftChild
  <2> QED
    BY <1>3, <2>1, <2>2 DEF PutBack, SafeWalk, Has
<1> QED
  BY <1>1, <1>6, <1>7 DEF Left

(* No visit before the null checks brings a len() in.                      *)
LEMMA LeaveLen ==
  ASSUME WalkInv, Threads, Leave, LenWalking, ops[k] # "insert_bounds_check"
  PROVE  /\ pc' = "mutate" => Has("len", h', candidate')
         /\ pc' = "visit" => LenWalking'
<1>1. PICK r \in Visited(ops[k], Top) : Left(r)
  BY LeaveLeft
<1>2. pc = "visit" /\ h \in Heaps /\ Top \in DOMAIN h /\ Len(stack) \in DOMAIN stack
  BY TopDone
<1>3. PICK S, D, T : Safe("len", h, S, D, T) /\ \A i \in DOMAIN stack : stack[i].node \in S
  BY DEF LenWalking
<1> DEFINE op == ops[k]
<1>4. Harmless("len", op) /\ r \in Visited(op, Top) /\ Top \in S
  BY <1>1, <1>2, <1>3 DEF Harmless, Top
<1> HIDE DEF op
<1>5. Renewed("len", r.heap, Top, r.node, S)
  BY <1>2, <1>3, <1>4, VisitSafe
<1>6. CASE LeftRoot(r)
  <2>1. h' = r.heap /\ candidate' = r.node /\ pc' = "mutate"
    BY <1>6 DEF LeftRoot
  <2>2. Has("len", r.heap, r.node)
    BY <1>4, <1>5 DEF Renewed, Covers, Has
  <2> QED
    BY <2>1, <2>2
<1>7. ASSUME NEW p, LeftChild(r, p)
      PROVE  pc' = "visit" /\ LenWalking'
  <2>1. PutBack("len", r, S)
    BY <1>2, <1>4, <1>5, <1>7, PlaceSafe
  <2>2. PICK S2, D2, T2 : Safe("len", h', S2, D2, T2) /\ S \subseteq S2
    BY <2>1 DEF PutBack
  <2>3. /\ \A i \in DOMAIN stack' : i \in DOMAIN stack /\ stack'[i].node = stack[i].node
        /\ pc' = "visit"
    BY <1>7 DEF LeftChild
  <2>4. \A i \in DOMAIN stack' : stack'[i].node \in S2
    BY <1>3, <2>2, <2>3
  <2> QED
    BY <2>2, <2>3, <2>4 DEF LenWalking
<1> QED
  BY <1>1, <1>6, <1>7 DEF Left

(* The guarding mutation adds the node of the visit to what is safe.       *)
LEMMA LeaveBuild ==
  ASSUME WalkInv, Threads, Leave, NEW kind \in {"null", "bounds"}, Building(kind),
         ops[k] = GuardOf(kind), kind = "null" => LenWalking
  PROVE  /\ pc' = "mutate" => Has(kind, h', candidate')
         /\ pc' = "visit" => Building(kind)'
<1>1. PICK r \in Visited(GuardOf(kind), Top) : Left(r)
  BY LeaveLeft
<1>2. /\ pc = "visit" /\ h \in Heaps /\ Top \in DOMAIN h /\ Len(stack) \in DOMAIN stack
      /\ \A c \in Kids(h, Top) :
           \E j \in 1 .. stack[Len(stack)].kid - 1 : c = Kid(h, stack[Len(stack)].node, j)
  BY TopDone
<1>3. PICK S, D, T :
        /\ Safe(kind, h, S, D, T)
        /\ \A i \in DOMAIN stack : \A j \in 1 .. stack[i].kid - 1 : Kid(h, stack[i].node, j) \in S
  BY DEF Building
<1>4. Kids(h, Top) \subseteq S
  BY <1>2, <1>3
<1>5. kind = "null" => h[Top].op # "Len"
  <2> SUFFICES ASSUME kind = "null" PROVE h[Top].op # "Len"
    OBVIOUS
  <2>1. PICK S2, D2, T2 : Safe("len", h, S2, D2, T2) /\ \A i \in DOMAIN stack : stack[i].node \in S2
    BY DEF LenWalking
  <2>2. Top \in S2
    BY <1>2, <2>1 DEF Top
  <2> QED
    BY <2>1, <2>2 DEF Safe, JustS, Access
<1> DEFINE op == GuardOf(kind)
           S1 == S \cup {r.node}
<1>6. Renewed(kind, r.heap, Top, r.node, S1)
  BY <1>1, <1>2, <1>3, <1>4, <1>5, BuildSafe
<1>7. S \subseteq S1 /\ r.node \in S1 /\ r \in Visited(op, Top)
  BY <1>1
<1> HIDE DEF op, S1
<1>8. CASE LeftRoot(r)
  <2>1. h' = r.heap /\ candidate' = r.node /\ pc' = "mutate"
    BY <1>8 DEF LeftRoot
  <2>2. Has(kind, r.heap, r.node)
    BY <1>6, <1>7 DEF Renewed, Has
  <2> QED
    BY <2>1, <2>2
<1>9. ASSUME NEW p, LeftChild(r, p)
      PROVE  pc' = "visit" /\ Building(kind)'
  <2>1. PutBack(kind, r, S1)
    BY <1>2, <1>6, <1>7, <1>9, PlaceSafe
  <2>2. PICK S2, D2, T2 : Safe(kind, h', S2, D2, T2) /\ S1 \subseteq S2
    BY <2>1 DEF PutBack
  <2>3. S \subseteq S2 /\ r.node \in S2
    BY <1>7, <2>2
  <2>4. ASSUME NEW i \in DOMAIN stack', NEW j \in 1 .. stack'[i].kid - 1
        PROVE  Kid(h', stack'[i].node, j) \in S2
    <3>1. \/ Kid(h', stack'[i].node, j) = r.node
          \/ /\ j \in 1 .. stack[i].kid - 1 /\ i \in DOMAIN stack
             /\ Kid(h', stack'[i].node, j) = Kid(h, stack[i].node, j)
      BY <1>9 DEF LeftChild
    <3> QED
      BY <1>3, <2>3, <3>1
  <2>5. pc' = "visit"
    BY <1>9 DEF LeftChild
  <2> QED
    BY <2>2, <2>4, <2>5 DEF Building
<1> QED
  BY <1>1, <1>8, <1>9 DEF Left

(* A visit of a child.                                                     *)
LEMMA VisitDown ==
  ASSUME WalkInv, Visit
  PROVE  /\ h \in Heaps /\ h' = h /\ pc = "visit" /\ pc' = "visit" /\ ops' = ops /\ k' = k
         /\ Len(stack) \in DOMAIN stack /\ 1 \in DOMAIN stack
         /\ Len(stack') = Len(stack) + 1 /\ DOMAIN stack = 1 .. Len(stack) /\ DOMAIN stack' = 1 .. Len(stack')
         /\ \A i \in DOMAIN stack : i \in DOMAIN stack' /\ stack'[i] = stack[i]
         /\ stack'[Len(stack')].kid = 1
         /\ stack'[Len(stack')].node = Kid(h, Top, stack[Len(stack)].kid)
         /\ Kid(h, Top, stack[Len(stack)].kid) \in Kids(h, Top)
         /\ \A i \in DOMAIN stack' : i \in DOMAIN stack \/ i = Len(stack')
<1>1. /\ h \in Heaps /\ stack \in Seq(Frames) /\ stack # << >> /\ \A i \in DOMAIN stack : FrameFits(i)
      /\ pc = "visit" /\ pc' = "visit" /\ ops' = ops /\ k' = k
  BY DEF WalkInv, WalkType, Visit
<1>2. PICK N \in Nat : N = Len(stack)
  BY <1>1
<1> DEFINE f == stack[N]
           node == h[f.node].kids[f.kid]
<1>3. N >= 1 /\ DOMAIN stack = 1 .. N /\ \A i \in 1 .. N : stack[i] \in Frames
  BY <1>1, <1>2, TopExists
<1>4. f.kid <= Len(h[f.node].kids) /\ stack' = Append(stack, [node |-> node, kid |-> 1]) /\ h' = h
  BY <1>2 DEF Visit, Last
<1>5. f.node \in DOMAIN h /\ f.kid \in Nat /\ f.kid >= 1 /\ f.node = Top
  BY <1>1, <1>2, <1>3 DEF FrameFits, Frames, Top
<1>6. node \in Kids(h, f.node) /\ node \in Nat
  <2>1. h[f.node].kids \in Seq(DOMAIN h) /\ DOMAIN h \subseteq Nat
    BY <1>1, <1>5, HeapFacts
  <2>2. f.kid \in DOMAIN h[f.node].kids
    BY <1>4, <1>5, <2>1
  <2> QED
    BY <2>1, <2>2 DEF Kids
<1> DEFINE g == [node |-> node, kid |-> 1]
<1>7. g \in Frames /\ g.node = node /\ g.kid = 1
  BY <1>6 DEF Frames
<1>k. node = Kid(h, Top, f.kid)
  BY <1>5 DEF Kid
<1> HIDE DEF node, g
<1>8. /\ Len(stack') = N + 1 /\ DOMAIN stack' = 1 .. N + 1 /\ stack'[N + 1] = g
      /\ \A i \in 1 .. N : stack'[i] = stack[i]
  BY <1>1, <1>2, <1>4, <1>7 DEF g
<1>9. \A i \in 1 .. N + 1 : i \in 1 .. N \/ i = N + 1
  BY <1>3
<1> QED
  BY <1>1, <1>2, <1>3, <1>4, <1>5, <1>6, <1>7, <1>8, <1>9, <1>k

LEMMA VisitThreads ==
  ASSUME WalkInv, Visit, Threads
  PROVE  Threads'
<1>1. /\ h' = h /\ Len(stack') = Len(stack) + 1 /\ DOMAIN stack = 1 .. Len(stack)
      /\ Len(stack) \in DOMAIN stack
      /\ \A i \in DOMAIN stack : stack'[i] = stack[i]
      /\ stack'[Len(stack')].node = Kid(h, Top, stack[Len(stack)].kid)
  BY VisitDown
<1>s. stack \in Seq(Frames)
  BY DEF WalkInv, WalkType
<1>2. PICK N \in Nat : N = Len(stack)
  BY <1>s
<1> SUFFICES ASSUME NEW i \in 1 .. N
             PROVE  stack'[i + 1].node = Kid(h', stack'[i].node, stack'[i].kid)
  BY <1>1, <1>2 DEF Threads
<1>3. CASE i = N
  BY <1>1, <1>2, <1>3 DEF Top
<1>4. CASE i # N
  <2>1. i \in 1 .. N - 1 /\ i \in 1 .. N /\ i + 1 \in 1 .. N
    BY <1>4
  <2> QED
    BY <1>1, <1>2, <2>1 DEF Threads
<1> QED
  BY <1>3, <1>4

(* What is known of the children that are done stays.                      *)
LEMMA VisitSame ==
  ASSUME WalkInv, Visit, NEW kind
  PROVE  /\ TameDone => TameDone'
         /\ Building(kind) => Building(kind)'
         /\ SafeWalk(kind) => SafeWalk(kind)'
         /\ LenWalking => LenWalking'
<1>1. /\ h' = h /\ pc = "visit" /\ pc' = "visit" /\ ops' = ops /\ k' = k
      /\ Len(stack) \in DOMAIN stack /\ 1 \in DOMAIN stack
      /\ \A i \in DOMAIN stack : stack'[i] = stack[i]
      /\ stack'[Len(stack')].kid = 1
      /\ stack'[Len(stack')].node \in Kids(h, Top)
      /\ \A i \in DOMAIN stack' : i \in DOMAIN stack \/ i = Len(stack')
  BY VisitDown
<1>2. \A i \in DOMAIN stack' : \A j \in 1 .. stack'[i].kid - 1 : i \in DOMAIN stack
  BY <1>1
<1>3. TameDone => TameDone'
  BY <1>1, <1>2 DEF TameDone
<1>4. ASSUME Building(kind) PROVE Building(kind)'
  <2>1. PICK S, D, T :
          /\ Safe(kind, h, S, D, T)
          /\ \A i \in DOMAIN stack : \A j \in 1 .. stack[i].kid - 1 : Kid(h, stack[i].node, j) \in S
    BY <1>4 DEF Building
  <2>2. \A i \in DOMAIN stack' : \A j \in 1 .. stack'[i].kid - 1 : Kid(h', stack'[i].node, j) \in S
    BY <1>1, <1>2, <2>1
  <2> QED
    BY <1>1, <2>1, <2>2 DEF Building
<1>5. SafeWalk(kind) => SafeWalk(kind)'
  BY <1>1 DEF SafeWalk
<1>6. ASSUME LenWalking PROVE LenWalking'
  <2>1. PICK S, D, T : Safe("len", h, S, D, T) /\ \A i \in DOMAIN stack : stack[i].node \in S
    BY <1>6 DEF LenWalking
  <2>2. Top \in S
    BY <1>1, <2>1 DEF Top
  <2>3. Kids(h, Top) \subseteq S
    BY <2>1, <2>2 DEF Safe, JustS, Guarding, Opens
  <2>4. \A i \in DOMAIN stack' : stack'[i].node \in S
    BY <1>1, <2>1, <2>3
  <2> QED
    BY <1>1, <2>1, <2>4 DEF LenWalking
<1> QED
  BY <1>3, <1>4, <1>5, <1>6

-----------------------------------------------------------------------------
(* The invariant of a population with guards.                              *)

(* A candidate is mutated once or twice, in two ways.                      *)
Distinct(s) == Len(s) <= 2 /\ \A i, j \in DOMAIN s : i # j => s[i] # s[j]

(* The mutation at j guards, and what comes with it leaves the guards be.  *)
Checked(kind, s, j) ==
  /\ j \in DOMAIN s /\ s[j] = GuardOf(kind)
  /\ kind = "null" => \A i \in DOMAIN s : i < j => s[i] # "insert_bounds_check"
  /\ kind = "bounds" =>
       \A i \in DOMAIN s : i > j => s[i] \notin {"replace_literal", "swap_comparison"}

(* What is known of the candidate before the guarding mutation at j,       *)
(* during it and after it.                                                 *)
Stage(kind, j) ==
  /\ kind = "null" /\ k <= j => /\ pc = "mutate" => Has("len", h, candidate)
                                /\ pc = "visit" => LenWalking
  /\ pc = "mutate" /\ k > j => Has(kind, h, candidate)
  /\ pc = "visit" /\ k = j => Building(kind)
  /\ pc = "visit" /\ k > j => SafeWalk(kind)

(* What is known of a candidate that is done.                              *)
CandidateSafe(g, kind, c) ==
  Distinct(c.ops) /\ \A j : Checked(kind, c.ops, j) => Has(kind, g, c.root)

(* The invariant: it is a part of the proofs beside WalkInv.               *)
SafeInv(kind) ==
  /\ Threads /\ TameDone /\ Distinct(ops)
  /\ kind = "null" => Has("len", h, original)
  /\ \A i \in DOMAIN population : CandidateSafe(h, kind, population[i])
  /\ \A j : Checked(kind, ops, j) => Stage(kind, j)

(* What is done stays safe.                                                *)
LEMMA DoneSafe ==
  ASSUME WalkInv, [Next]_vars, NEW kind, SafeInv(kind)
  PROVE  /\ kind = "null" => Has("len", h', original)
         /\ \A i \in DOMAIN population : CandidateSafe(h', kind, population[i])
<1>1. PICK base \in Nat : Apart(base)
  BY DEF WalkInv
<1> DEFINE B == 1 .. base
<1>2. /\ Closed(h, B) /\ B \subseteq DOMAIN h' /\ \A m \in B : h'[m] = h[m]
      /\ original \in B
  BY <1>1, DoneStays
<1>3. h \in Heaps /\ h' \in Heaps
  BY NextInv DEF WalkInv, WalkType
<1>4. B \subseteq DOMAIN h
  <2>1. DOMAIN h = 1 .. Len(h) /\ Len(h) \in Nat
    BY <1>3, HeapFacts
  <2> QED
    BY <1>1, <2>1 DEF Apart
<1>5. PICK rank : Ranks(h, rank)
  BY DEF WalkInv, Descends
<1> HIDE DEF B
<1>6. ASSUME NEW x, NEW n \in B, Has(x, h, n) PROVE Has(x, h', n)
  <2> DEFINE g2 == h'
  <2>1. g2 \in Heaps /\ B \subseteq DOMAIN g2 /\ \A m \in B : g2[m] = h[m]
    BY <1>2, <1>3
  <2> HIDE DEF g2
  <2>2. Has(x, g2, n)
    BY <1>2, <1>3, <1>4, <1>5, <1>6, <2>1, StaysSafe
  <2> QED
    BY <2>2 DEF g2
<1>7. kind = "null" => Has("len", h', original)
  BY <1>2, <1>6 DEF SafeInv
<1>8. ASSUME NEW i \in DOMAIN population PROVE CandidateSafe(h', kind, population[i])
  <2>1. population[i].root \in B
    BY <1>1 DEF Apart, B
  <2> QED
    BY <1>6, <2>1 DEF SafeInv, CandidateSafe
<1> QED
  BY <1>7, <1>8

(* The steps of the invariant, one by one.                                 *)
LEMMA SampleSafe ==
  ASSUME WalkInv, Sample, NEW kind, SafeInv(kind)
  PROVE  SafeInv(kind)'
<1>1. /\ pc = "sample" /\ k' = 1 /\ pc' = "mutate" /\ UNCHANGED <<original, population, stack>>
      /\ h' = DeepCopy(h, original).heap /\ candidate' = DeepCopy(h, original).node
  BY DEF Sample, Copied
<1>2. h \in Heaps /\ original \in DOMAIN h /\ stack = << >>
  BY <1>1 DEF WalkInv, WalkType
<1>3. PICK rank : Ranks(h, rank)
  BY DEF WalkInv, Descends
<1>4. kind = "null" => Has("len", h', candidate')
  BY <1>1, <1>2, <1>3, CopySafe DEF SafeInv
<1>5. Distinct(ops')
  <2>1. \/ \E op \in MUTATION_OPS : ops' = <<op>>
        \/ \E op, op2 \in MUTATION_OPS : op # op2 /\ ops' = <<op, op2>>
    BY DEF Sample
  <2>2. ASSUME NEW op, ops' = <<op>> PROVE Distinct(ops')
    <3>1. Len(ops') = 1 /\ DOMAIN ops' = {1}
      BY <2>2
    <3> QED
      BY <3>1 DEF Distinct
  <2>3. ASSUME NEW op, NEW op2, op # op2, ops' = <<op, op2>> PROVE Distinct(ops')
    <3>1. Len(ops') = 2 /\ DOMAIN ops' = {1, 2} /\ ops'[1] # ops'[2]
      BY <2>3
    <3> QED
      BY <3>1 DEF Distinct
  <2> QED
    BY <2>1, <2>2, <2>3
<1>6. Threads' /\ TameDone'
  BY <1>1, <1>2 DEF Threads, TameDone
<1>7. ASSUME NEW j, Checked(kind, ops', j) PROVE Stage(kind, j)'
  <2>1. j >= 1 /\ j \in Nat
    <3>1. ops' \in Seq(MUTATION_OPS)
      BY NextInv DEF Next, WalkInv, WalkType
    <3> QED
      BY <1>7, <3>1 DEF Checked
  <2> QED
    BY <1>1, <1>4, <2>1 DEF Stage
<1>8. /\ kind = "null" => Has("len", h', original)
      /\ \A i \in DOMAIN population : CandidateSafe(h', kind, population[i])
  BY DoneSafe DEF Next
<1> QED
  BY <1>1, <1>5, <1>6, <1>7, <1>8 DEF SafeInv

LEMMA MutateSafe ==
  ASSUME WalkInv, Mutate, NEW kind, SafeInv(kind)
  PROVE  SafeInv(kind)'
<1> DEFINE root == DeepCopy(h, candidate).node
<1>1. /\ pc = "mutate" /\ pc' = "visit" /\ UNCHANGED <<original, population, ops, k>>
      /\ h' = DeepCopy(h, candidate).heap /\ stack' = <<[node |-> root, kid |-> 1]>>
  BY DEF Mutate, Copied
<1>2. h \in Heaps /\ candidate \in DOMAIN h /\ ops \in Seq(MUTATION_OPS) /\ k \in 1 .. Len(ops) + 1
  BY DEF WalkInv, WalkType
<1>3. PICK rank : Ranks(h, rank)
  BY DEF WalkInv, Descends
<1>4. \A x : Has(x, h, candidate) => Has(x, h', root)
  BY <1>1, <1>2, <1>3, CopySafe
<1> HIDE DEF root
<1>5. /\ DOMAIN stack' = {1} /\ stack'[1].node = root /\ 1 .. Len(stack') - 1 = {}
      /\ 1 .. stack'[1].kid - 1 = {}
  BY <1>1
<1>6. Threads' /\ TameDone'
  BY <1>5 DEF Threads, TameDone
<1>7. Building(kind)'
  <2>1. Safe(kind, h', {}, {}, {})
    BY DEF Safe
  <2>2. \A i \in DOMAIN stack' : \A j \in 1 .. stack'[i].kid - 1 : Kid(h', stack'[i].node, j) \in {}
    BY <1>5
  <2> QED
    BY <2>1, <2>2 DEF Building
<1>8. Has("len", h', root) => LenWalking'
  BY <1>5 DEF Has, LenWalking
<1>9. Has(kind, h', root) => SafeWalk(kind)'
  BY <1>5 DEF SafeWalk
<1>10. ASSUME NEW j, Checked(kind, ops', j) PROVE Stage(kind, j)'
  <2>1. Stage(kind, j)
    BY <1>1, <1>10 DEF SafeInv
  <2> QED
    BY <1>1, <1>4, <1>7, <1>8, <1>9, <2>1 DEF Stage
<1>11. /\ kind = "null" => Has("len", h', original)
       /\ \A i \in DOMAIN population : CandidateSafe(h', kind, population[i])
  BY DoneSafe DEF Next
<1> QED
  BY <1>1, <1>6, <1>10, <1>11 DEF SafeInv

LEMMA VisitSafeInv ==
  ASSUME WalkInv, Visit, NEW kind, SafeInv(kind)
  PROVE  SafeInv(kind)'
<1>1. /\ pc = "visit" /\ pc' = "visit" /\ UNCHANGED <<h, original, population, candidate, ops, k>>
  BY DEF Visit
<1>2. Threads'
  BY VisitThreads DEF SafeInv
<1>3. /\ TameDone' /\ (Building(kind) => Building(kind)')
      /\ (SafeWalk(kind) => SafeWalk(kind)') /\ (LenWalking => LenWalking')
  BY VisitSame DEF SafeInv
<1>4. ASSUME NEW j, Checked(kind, ops', j) PROVE Stage(kind, j)'
  <2>1. Stage(kind, j)
    BY <1>1, <1>4 DEF SafeInv
  <2> QED
    BY <1>1, <1>3, <2>1 DEF Stage
<1> QED
  BY <1>1, <1>2, <1>3, <1>4 DEF SafeInv

LEMMA LeaveSafeInv ==
  ASSUME WalkInv, Leave, NEW kind \in {"null", "bounds"}, SafeInv(kind)
  PROVE  SafeInv(kind)'
<1>1. pc = "visit" /\ UNCHANGED <<original, population, ops>> /\ k \in DOMAIN ops
      /\ Threads /\ TameDone /\ Distinct(ops)
  BY TopDone DEF Leave, SafeInv
<1>2. ops \in Seq(MUTATION_OPS) /\ k \in Nat /\ Len(ops) \in Nat
  BY DEF WalkInv, WalkType
<1>3. \/ pc' = "mutate" /\ k' = k + 1 /\ stack' = << >>
      \/ pc' = "visit" /\ k' = k /\ Threads'
  BY <1>1, LeaveLeft DEF Left, LeftRoot, LeftChild
<1>4. Threads'
  BY <1>3 DEF Threads
<1>5. TameDone'
  BY <1>1, LeaveTame
<1>6. ASSUME NEW j, Checked(kind, ops', j) PROVE Stage(kind, j)'
  <2>1. Stage(kind, j) /\ Checked(kind, ops, j) /\ j \in DOMAIN ops /\ j \in Nat
    BY <1>1, <1>2, <1>6 DEF SafeInv, Checked
  <2>2. kind = "null" /\ k <= j => /\ pc' = "mutate" => Has("len", h', candidate')
                                   /\ pc' = "visit" => LenWalking'
    <3> SUFFICES ASSUME kind = "null", k <= j
                 PROVE  /\ pc' = "mutate" => Has("len", h', candidate')
                        /\ pc' = "visit" => LenWalking'
      OBVIOUS
    <3>1. LenWalking
      BY <1>1, <2>1 DEF Stage
    <3>2. CASE k = j
      <4>1. ops[k] # "insert_bounds_check"
        BY <2>1, <3>2 DEF Checked, GuardOf
      <4> QED
        BY <1>1, <3>1, <4>1, LeaveLen
    <3>3. CASE k # j
      <4>1. k < j
        BY <1>2, <2>1, <3>3
      <4>2. ops[k] # "insert_bounds_check"
        BY <1>1, <2>1, <4>1 DEF Checked
      <4> QED
        BY <1>1, <3>1, <4>2, LeaveLen
    <3> QED
      BY <3>2, <3>3
  <2>3. k = j => /\ pc' = "mutate" => Has(kind, h', candidate')
                 /\ pc' = "visit" => Building(kind)'
    <3> SUFFICES ASSUME k = j
                 PROVE  /\ pc' = "mutate" => Has(kind, h', candidate')
                        /\ pc' = "visit" => Building(kind)'
      OBVIOUS
    <3>1. ops[k] = GuardOf(kind) /\ Building(kind) /\ (kind = "null" => LenWalking)
      BY <1>1, <1>2, <2>1 DEF Checked, Stage
    <3> QED
      BY <1>1, <3>1, LeaveBuild
  <2>4. k > j => /\ pc' = "mutate" => Has(kind, h', candidate')
                 /\ pc' = "visit" => SafeWalk(kind)'
    <3> SUFFICES ASSUME k > j
                 PROVE  /\ pc' = "mutate" => Has(kind, h', candidate')
                        /\ pc' = "visit" => SafeWalk(kind)'
      OBVIOUS
    <3>1. SafeWalk(kind)
      BY <1>1, <2>1 DEF Stage
    <3>2. k # j /\ ops[k] # ops[j] /\ ops[j] = GuardOf(kind)
      BY <1>1, <1>2, <2>1 DEF Distinct, Checked
    <3>3. kind = "bounds" => ops[k] \notin {"replace_literal", "swap_comparison"}
      BY <1>1, <2>1 DEF Checked
    <3>4. Harmless(kind, ops[k])
      BY <3>2, <3>3 DEF Harmless, GuardOf
    <3> QED
      BY <1>1, <3>1, <3>4, LeaveSafe
  <2>5. CASE pc' = "mutate" /\ k' = k + 1
    <3>1. k' <= j => k <= j
      BY <1>2, <2>1, <2>5
    <3>2. k' > j => k = j \/ k > j
      BY <1>2, <2>1, <2>5
    <3> QED
      BY <2>2, <2>3, <2>4, <2>5, <3>1, <3>2 DEF Stage
  <2>6. CASE pc' = "visit" /\ k' = k
    BY <2>2, <2>3, <2>4, <2>6 DEF Stage
  <2> QED
    BY <1>3, <2>5, <2>6
<1>7. /\ kind = "null" => Has("len", h', original)
      /\ \A i \in DOMAIN population : CandidateSafe(h', kind, population[i])
  BY DoneSafe DEF Next
<1> QED
  BY <1>1, <1>4, <1>5, <1>6, <1>7 DEF SafeInv

LEMMA CollectSafe ==
  ASSUME WalkInv, Collect, NEW kind, SafeInv(kind)
  PROVE  SafeInv(kind)'
<1>1. /\ pc = "mutate" /\ pc' = "sample" /\ k > Len(ops)
      /\ population' = Append(population, [root |-> candidate, ops |-> ops])
      /\ UNCHANGED <<h, original, size, candidate, ops, k, stack>>
  BY DEF Collect
<1>2. population \in Seq(Candidates) /\ ops \in Seq(MUTATION_OPS) /\ k \in Nat
  BY DEF WalkInv, WalkType
<1> DEFINE c == [root |-> candidate, ops |-> ops]
<1>3. \A i \in DOMAIN population' :
        (i \in DOMAIN population /\ population'[i] = population[i]) \/ population'[i] = c
  BY <1>1, <1>2
<1>4. c.root = candidate /\ c.ops = ops
  OBVIOUS
<1> HIDE DEF c
<1>5. CandidateSafe(h, kind, c)
  <2> SUFFICES ASSUME NEW j, Checked(kind, ops, j) PROVE Has(kind, h, candidate)
    BY <1>4 DEF CandidateSafe, SafeInv
  <2>1. k > j
    BY <1>1, <1>2 DEF Checked
  <2> QED
    BY <1>1, <2>1 DEF SafeInv, Stage
<1>6. \A i \in DOMAIN population' : CandidateSafe(h', kind, population'[i])
  BY <1>1, <1>3, <1>5 DEF SafeInv
<1>7. Threads' /\ TameDone'
  BY <1>1 DEF Threads, TameDone, SafeInv
<1>8. \A j : Stage(kind, j)'
  BY <1>1 DEF Stage
<1> QED
  BY <1>1, <1>6, <1>7, <1>8 DEF SafeInv

LEMMA StepSafe ==
  ASSUME WalkInv, [Next]_vars, NEW kind \in {"null", "bounds"}, SafeInv(kind)
  PROVE  SafeInv(kind)'
<1>1. CASE UNCHANGED vars
  <2>1. /\ Threads' = Threads /\ TameDone' = TameDone
        /\ \A j : Stage(kind, j)' <=> Stage(kind, j)
    BY <1>1 DEF vars, Threads, TameDone, Stage, LenWalking, Building, SafeWalk
  <2> QED
    BY <1>1, <2>1 DEF vars, SafeInv
<1> QED
  BY <1>1, SampleSafe, MutateSafe, VisitSafeInv, LeaveSafeInv, CollectSafe DEF Next

-----------------------------------------------------------------------------
(* The theorems.                                                           *)

(* A source without len() is safe from the start, until the null checks.   *)
LEMMA InitSafe ==
  ASSUME Init, NEW kind \in {"null", "bounds"}, kind = "null" => LenFree
  PROVE  SafeInv(kind)
<1>1. population = << >> /\ ops = << >> /\ stack = << >> /\ pc = "sample" /\ h \in Heaps /\ original \in DOMAIN h
  BY InitInv DEF Init, WalkInv, WalkType
<1>2. kind = "null" => Has("len", h, original)
  <2> SUFFICES ASSUME LenFree PROVE Has("len", h, original)
    OBVIOUS
  <2>1. \A n \in DOMAIN h : h[n].op # "Len" /\ Kids(h, n) \subseteq DOMAIN h
    BY <1>1, HeapFacts DEF Init, LenFree
  <2>2. Safe("len", h, DOMAIN h, {}, {})
    BY <2>1 DEF Safe, JustS, Access
  <2> QED
    BY <1>1, <2>2 DEF Has
<1>3. DOMAIN population = {} /\ DOMAIN ops = {} /\ Len(ops) = 0 /\ 1 .. Len(stack) - 1 = {}
  BY <1>1
<1>4. Threads /\ TameDone /\ Distinct(ops)
  BY <1>1, <1>3 DEF Threads, TameDone, Distinct
<1>5. \A j : ~Checked(kind, ops, j)
  BY <1>3 DEF Checked
<1> QED
  BY <1>2, <1>3, <1>4, <1>5 DEF SafeInv

(* What has a certificate does not raise the exception for any arguments.  *)
LEMMA SafeValue ==
  ASSUME WalkInv, NEW kind \in {"null", "bounds"}, NEW n, Has(kind, h, n), NEW env \in Envs
  PROVE  Value(h, n, env, TRUE) # Raised(kind)
<1>1. h \in Heaps
  BY DEF WalkInv, WalkType
<1>2. PICK rank : Ranks(h, rank)
  BY DEF WalkInv, Descends
<1> DEFINE negative == TRUE
<1>3. negative \in BOOLEAN
  OBVIOUS
<1> HIDE DEF negative
<1>4. PICK f : /\ \A m : Value(h, m, env, negative) = f[m]
               /\ \A m \in DOMAIN h : f[m] = Evaluated(h[m], KidValues(h, f, m), env, negative)
  BY <1>1, <1>2, ValueEquation
<1>5. env \in Arguments /\ env \in Environments
  BY EnvAssumption, EnvFacts DEF Arguments
<1>6. \A m \in DOMAIN h : f[m] \in Values
  BY <1>1, <1>2, <1>3, <1>4, <1>5, EvaluationType
<1>7. Solves(h, env, negative, f)
  BY <1>4, <1>6 DEF Solves
<1>8. PICK S, D, T : Safe(kind, h, S, D, T) /\ n \in S
  BY DEF Has
<1> DEFINE g == h
<1>9. g \in Heaps /\ Ranks(g, rank) /\ Solves(g, env, negative, f) /\ Safe(kind, g, S, D, T)
  BY <1>1, <1>2, <1>7, <1>8
<1> HIDE DEF g
<1>10. \A m \in S : f[m] # Raised(kind)
  BY <1>3, <1>5, <1>9, Sound
<1> QED
  BY <1>4, <1>8, <1>10 DEF negative

LEMMA InvNull == WalkInv /\ SafeInv("null") => NullSafe
<1> SUFFICES ASSUME WalkInv, SafeInv("null"), NEW c \in Range(population),
                    Does(c, "insert_null_check"),
                    ~DoesAfter(c, "insert_bounds_check", "insert_null_check"), NEW env \in Envs
             PROVE  Value(h, c.root, env, TRUE) # NoneError
  BY DEF NullSafe
<1>1. Distinct(c.ops) /\ (\A j : Checked("null", c.ops, j) => Has("null", h, c.root)) /\ c \in Candidates
  <2>1. population \in Seq(Candidates)
    BY DEF WalkInv, WalkType
  <2>2. PICK i \in DOMAIN population : c = population[i]
    BY DEF Range
  <2>3. c \in Candidates
    BY <2>1, <2>2
  <2> QED
    BY <2>2, <2>3 DEF SafeInv, CandidateSafe
<1> DEFINE s == c.ops
<1>2. s \in Seq(MUTATION_OPS) /\ Len(s) <= 2
  BY <1>1 DEF Candidates, Distinct
<1>3. PICK j \in DOMAIN s : s[j] = "insert_null_check"
  BY DEF Does, Range
<1>4. s # <<"insert_bounds_check", "insert_null_check">>
  BY DEF DoesAfter
<1> HIDE DEF s
<1>d. \A i \in DOMAIN s : i = 1 \/ (i = 2 /\ Len(s) = 2)
  <2>1. DOMAIN s = 1 .. Len(s) /\ Len(s) \in Nat
    BY <1>2
  <2> QED
    BY <1>2, <2>1
<1>5. ASSUME NEW i \in DOMAIN s, i < j PROVE s[i] # "insert_bounds_check"
  <2>1. i = 1 /\ j = 2 /\ Len(s) = 2
    BY <1>3, <1>5, <1>d
  <2>2. s = <<s[1], s[2]>>
    BY <1>2, <2>1
  <2> QED
    BY <1>3, <1>4, <2>1, <2>2
<1>6. Checked("null", s, j)
  BY <1>3, <1>5 DEF Checked, GuardOf
<1>7. Has("null", h, c.root)
  BY <1>1, <1>6 DEF s
<1> QED
  BY <1>7, SafeValue DEF Raised

LEMMA InvBounds == WalkInv /\ SafeInv("bounds") => InBounds
<1> SUFFICES ASSUME WalkInv, SafeInv("bounds"), NEW c \in Range(population),
                    Does(c, "insert_bounds_check"),
                    ~DoesAfter(c, "insert_bounds_check", "replace_literal"),
                    ~DoesAfter(c, "insert_bounds_check", "swap_comparison"), NEW env \in Envs
             PROVE  Value(h, c.root, env, TRUE) # IndexError
  BY DEF InBounds
<1>1. Distinct(c.ops) /\ (\A j : Checked("bounds", c.ops, j) => Has("bounds", h, c.root)) /\ c \in Candidates
  <2>1. population \in Seq(Candidates)
    BY DEF WalkInv, WalkType
  <2>2. PICK i \in DOMAIN population : c = population[i]
    BY DEF Range
  <2>3. c \in Candidates
    BY <2>1, <2>2
  <2> QED
    BY <2>2, <2>3 DEF SafeInv, CandidateSafe
<1> DEFINE s == c.ops
<1>2. s \in Seq(MUTATION_OPS) /\ Len(s) <= 2
  BY <1>1 DEF Candidates, Distinct
<1>3. PICK j \in DOMAIN s : s[j] = "insert_bounds_check"
  BY DEF Does, Range
<1>4. /\ s # <<"insert_bounds_check", "replace_literal">>
      /\ s # <<"insert_bounds_check", "swap_comparison">>
  BY DEF DoesAfter
<1> HIDE DEF s
<1>d. \A i \in DOMAIN s : i = 1 \/ (i = 2 /\ Len(s) = 2)
  <2>1. DOMAIN s = 1 .. Len(s) /\ Len(s) \in Nat
    BY <1>2
  <2> QED
    BY <1>2, <2>1
<1>5. ASSUME NEW i \in DOMAIN s, i > j PROVE s[i] \notin {"replace_literal", "swap_comparison"}
  <2>1. i = 2 /\ j = 1 /\ Len(s) = 2
    BY <1>3, <1>5, <1>d
  <2>2. s = <<s[1], s[2]>>
    BY <1>2, <2>1
  <2> QED
    BY <1>3, <1>4, <2>1, <2>2
<1>6. Checked("bounds", s, j)
  BY <1>3, <1>5 DEF Checked, GuardOf
<1>7. Has("bounds", h, c.root)
  BY <1>1, <1>6 DEF s
<1> QED
  BY <1>7, SafeValue DEF Raised

(* A candidate with null checks never uses None as an object, for whatever *)
(* source without a len() of its own, mutated before them (but for bounds  *)
(* checks) and after them in any way.                                      *)
THEOREM NullChecked ==
  ASSUME LenFree
  PROVE  Spec => []NullSafe
<1>1. Init => SafeInv("null")
  BY InitSafe
<1>2. WalkInv /\ SafeInv("null") /\ [Next]_vars => SafeInv("null")'
  BY StepSafe
<1> QED
  BY <1>1, <1>2, Walks, InvNull, PTL DEF Spec

(* No index of a candidate with bounds checks is out of bounds, for        *)
(* whatever source, mutated before them or, but for the literals and       *)
(* comparisons the checks are made of, after them.                         *)
THEOREM BoundsChecked == Spec => []InBounds
<1>1. Init => SafeInv("bounds")
  BY InitSafe
<1>2. WalkInv /\ SafeInv("bounds") /\ [Next]_vars => SafeInv("bounds")'
  BY StepSafe
<1> QED
  BY <1>1, <1>2, Walks, InvBounds, PTL DEF Spec
=============================================================================
