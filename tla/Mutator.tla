------------------------------- MODULE Mutator -------------------------------
(***************************************************************************)
(* healing/mutator.py: ASTMutator, which makes a population of candidates  *)
(* from one syntax tree by one or two mutations each.                      *)
(*                                                                         *)
(* A mutation is a NodeTransformer: it walks the tree in place, depth      *)
(* first, and its visit method may change a node, or put another one in    *)
(* its place, once the children of the node are done. The guards it        *)
(* inserts hold the guarded node and its operands together, so that from   *)
(* the first of them on the tree is a graph, in which a node is visited    *)
(* once for each path that leads to it.                                    *)
(***************************************************************************)
EXTENDS PyExpr

CONSTANTS
  Requests   (* The calls of generate_population: the parsed source, a heap *)
             (* whose last node is the root, and the size asked for.        *)

VARIABLES
  h,            (* All nodes.                                               *)
  original,     (* original_ast.                                            *)
  size,
  population,   (* [root, ops] of the candidates that are done.             *)
  candidate,
  ops, k,       (* The mutations of the candidate, and the one that is next.*)
  stack,        (* The visits under way: a node, and the child it is at.    *)
  pc            (* "sample", "mutate" or "visit".                           *)

vars == <<h, original, size, population, candidate, ops, k, stack, pc>>

MUTATION_OPS == {"swap_operator", "insert_null_check", "insert_bounds_check",
                 "replace_literal", "swap_comparison", "add_early_return"}

(* ast.parse returns a tree, here with every node behind its children.     *)
ASSUME RequestAssumption ==
  \A r \in Requests :
    /\ r.size \in Nat /\ r.heap \in Seq(Range(r.heap)) /\ Len(r.heap) > 0
    /\ \A n \in DOMAIN r.heap :
         LET v == r.heap[n] IN
         /\ v = Node(v.op, v.val, v.kids) /\ WellFormed(v)
         /\ v.op \in DOMAIN Arity \cup {"FunctionDef"}
         /\ v.op \notin DOMAIN Operators => v.val = ""
         /\ v.kids \in Seq(1 .. n - 1)

(* Nodes have what their class asks for, no node is found from itself, and *)
(* so every candidate is a program of the language PyExpr.                 *)
TypeOK ==
  /\ \A n \in DOMAIN h : Kids(h, n) \subseteq DOMAIN h /\ WellFormed(h[n])
  /\ {original, candidate} \subseteq DOMAIN h
  /\ Len(population) <= size /\ \A c \in Range(population) : c.root \in DOMAIN h
  /\ Range(ops) \subseteq MUTATION_OPS /\ k \in 1 .. Len(ops) + 1
  /\ \A f \in Range(stack) : f.node \in DOMAIN h /\ f.kid \in 1 .. Len(h[f.node].kids) + 1
  /\ pc \in {"sample", "mutate", "visit"}
  /\ pc = "mutate" => Acyclic(h, candidate)

Init ==
  /\ \E r \in Requests : h = r.heap /\ original = Len(h) /\ size = r.size
  /\ population = << >> /\ candidate = original
  /\ ops = << >> /\ k = 1 /\ stack = << >> /\ pc = "sample"

-----------------------------------------------------------------------------
(* The visit methods: the heap and the node that takes the place of n,     *)
(* with every choice random.choice may make.                               *)

Result(heap, n) == {[heap |-> heap, node |-> n]}
Added(nodes)    == h \o nodes
New(j)          == Len(h) + j

(* Mutated: the guard is written over the node it guards.                  *)
NullGuardInPlace(n) ==
  Result([Added(<<Nil, Node("Compare", "IsNot", <<h[n].kids[1], New(1)>>), Constant(0)>>)
            EXCEPT ![n] = Plain("IfExp", <<New(2), n, New(3)>>)], n)

(* Mutated: the test is the wrong way round.                               *)
NullGuardIs(n) ==
  Result(Added(<<
    Nil, Node("Compare", "Is", <<h[n].kids[1], New(1)>>),
    Constant(0), Plain("IfExp", <<New(2), n, New(3)>>)>>), New(4))

(* v.attr if v is not None else 0, and the same for a subscript.           *)
NullGuard(n) ==
  Result(Added(<<
    Nil, Node("Compare", "IsNot", <<h[n].kids[1], New(1)>>),
    Constant(0), Plain("IfExp", <<New(2), n, New(3)>>)>>), New(4))

(* Mutated: an index equal to the length is let through.                   *)
BoundsGuardGtE(n) ==
  Result(Added(<<
    Plain("Len", <<h[n].kids[1]>>),
    Node("Compare", "GtE", <<New(1), h[n].kids[2]>>),
    Constant(0), Node("Compare", "GtE", <<h[n].kids[2], New(3)>>),
    Plain("And", <<New(2), New(4)>>),
    Constant(0), Plain("IfExp", <<New(5), n, New(6)>>)>>), New(7))

(* Mutated: index 0 is taken for one that is out of bounds.                *)
BoundsGuardGt(n) ==
  Result(Added(<<
    Plain("Len", <<h[n].kids[1]>>),
    Node("Compare", "Gt", <<New(1), h[n].kids[2]>>),
    Constant(0), Node("Compare", "Gt", <<h[n].kids[2], New(3)>>),
    Plain("And", <<New(2), New(4)>>),
    Constant(0), Plain("IfExp", <<New(5), n, New(6)>>)>>), New(7))

(* v[s] if len(v) > s and s >= 0 else 0.                                   *)
BoundsGuard(n) ==
  Result(Added(<<
    Plain("Len", <<h[n].kids[1]>>),
    Node("Compare", "Gt", <<New(1), h[n].kids[2]>>),
    Constant(0), Node("Compare", "GtE", <<h[n].kids[2], New(3)>>),
    Plain("And", <<New(2), New(4)>>),
    Constant(0), Plain("IfExp", <<New(5), n, New(6)>>)>>), New(7))

(* if data is None: return -1, at the start of the body.                   *)
EarlyReturn(n) ==
  Result([Added(<<
    Name("data"), Nil, Node("Compare", "Is", <<New(1), New(2)>>),
    Constant(-1), Plain("Return", <<New(4)>>), Plain("If", <<New(3), New(5)>>)>>)
      EXCEPT ![n].kids = <<New(6)>> \o @], n)

OperatorSwap   == [Add |-> "Sub", Sub |-> "Add", Mult |-> "Div", Div |-> "Mult"]
ComparisonSwap == [Lt |-> "LtE", Gt |-> "GtE", LtE |-> "Lt", GtE |-> "Gt",
                   Eq |-> "NotEq", NotEq |-> "Eq"]

Swapped(swap_map, n) ==
  Result(IF h[n].val \in DOMAIN swap_map THEN [h EXCEPT ![n].val = swap_map[@]] ELSE h, n)

Literal(n) ==
  UNION {Result([h EXCEPT ![n].val = v], n) : v \in {h[n].val - 1, h[n].val + 1, 0}}

Visited(op, n) ==
  CASE op = "insert_null_check" /\ h[n].op \in {"Attribute", "Subscript"} -> NullGuard(n)
    [] op = "insert_bounds_check" /\ h[n].op = "Subscript"   -> BoundsGuard(n)
    [] op = "add_early_return"    /\ h[n].op = "FunctionDef" -> EarlyReturn(n)
    [] op = "swap_operator"       /\ h[n].op = "BinOp"   -> Swapped(OperatorSwap, n)
    [] op = "swap_comparison"     /\ h[n].op = "Compare" -> Swapped(ComparisonSwap, n)
    [] op = "replace_literal"     /\ h[n].op = "Constant" -> Literal(n)
    [] OTHER -> Result(h, n)

-----------------------------------------------------------------------------
(* generate_population.                                                    *)

(* Mutated: the tree itself instead of a copy.                             *)
CopiedNot(n) == [heap |-> h, node |-> n]

Copied(n) == DeepCopy(h, n)

Sample ==
  /\ pc = "sample" /\ Len(population) < size
  /\ \/ \E op \in MUTATION_OPS : ops' = <<op>>
     \/ \E op, op2 \in MUTATION_OPS : op # op2 /\ ops' = <<op, op2>>
  /\ h' = Copied(original).heap /\ candidate' = Copied(original).node
  /\ k' = 1 /\ pc' = "mutate"
  /\ UNCHANGED <<original, size, population, stack>>

(* mutate walks a copy of the candidate.                                   *)
Mutate ==
  /\ pc = "mutate" /\ k <= Len(ops)
  /\ h' = Copied(candidate).heap
  /\ stack' = <<[node |-> Copied(candidate).node, kid |-> 1]>>
  /\ pc' = "visit"
  /\ UNCHANGED <<original, size, population, candidate, ops, k>>

Visit ==
  /\ pc = "visit"
  /\ LET f == Last(stack) IN
       /\ f.kid <= Len(h[f.node].kids)
       /\ stack' = Append(stack, [node |-> h[f.node].kids[f.kid], kid |-> 1])
  /\ UNCHANGED <<h, original, size, population, candidate, ops, k, pc>>

(* The children of a node are done; what its visit method returns takes    *)
(* its place in the parent it was visited from, and in no other.           *)
Leave ==
  /\ pc = "visit" /\ Last(stack).kid > Len(h[Last(stack).node].kids)
  /\ LET rest == Front(stack) IN
     \E r \in Visited(ops[k], Last(stack).node) :
       IF rest = << >>
         THEN h' = r.heap /\ candidate' = r.node /\ k' = k + 1 /\ pc' = "mutate" /\ stack' = << >>
         ELSE LET p == Last(rest) IN
              /\ h' = [r.heap EXCEPT ![p.node].kids[p.kid] = r.node]
              /\ stack' = [rest EXCEPT ![Len(rest)].kid = @ + 1]
              /\ UNCHANGED <<candidate, k, pc>>
  /\ UNCHANGED <<original, size, population, ops>>

Collect ==
  /\ pc = "mutate" /\ k > Len(ops)
  /\ population' = Append(population, [root |-> candidate, ops |-> ops])
  /\ pc' = "sample"
  /\ UNCHANGED <<h, original, size, candidate, ops, k, stack>>

Next == Sample \/ Mutate \/ Visit \/ Leave \/ Collect

Spec == Init /\ [][Next]_vars

-----------------------------------------------------------------------------
(* Properties.                                                             *)

(* Whatever is walked and changed in place, the source and the candidates  *)
(* that are done stay as they are: mutate and generate_population copy.    *)
FinishedKept ==
  [][\A r \in {original} \cup {c.root : c \in Range(population)} :
       \A n \in Reach(h, r) : h'[n] = h[n]]_vars

CONSTANT Envs   (* The arguments a candidate is tried with: a value for     *)
                (* each name that is no exception.                          *)

ASSUME EnvAssumption == Envs \subseteq [Operators.Name -> Values \ Errors]

Does(c, op)           == op \in Range(c.ops)
DoesAfter(c, op, op2) == c.ops = <<op, op2>>

(* The checks are put at attributes and subscripts. A len(v) of the source *)
(* stays as it is, and may use None as an object: NullSafe is for sources  *)
(* without one.                                                            *)
LenFree == \A r \in Requests : \A n \in DOMAIN r.heap : r.heap[n].op # "Len"

(* "Find variable loads/attributes and insert non-None/NULL validation     *)
(* guards" (line 45): a candidate with null checks never uses None as an   *)
(* object, whatever was mutated before or after, however often a shared    *)
(* node was visited. A bounds check that was there first is an exception:  *)
(* its len(v) is outside of the guard.                                     *)
NullSafe ==
  \A c \in Range(population) :
    Does(c, "insert_null_check") /\ ~DoesAfter(c, "insert_bounds_check", "insert_null_check") =>
      \A e \in Envs : Value(h, c.root, e, TRUE) # NoneError

(* "Safeguard subscript access to stay within length" (line 100): no index *)
(* is out of bounds in a candidate with bounds checks, unless the literals *)
(* or the comparisons of the checks were mutated after them.               *)
InBounds ==
  \A c \in Range(population) :
    Does(c, "insert_bounds_check")
    /\ ~DoesAfter(c, "insert_bounds_check", "replace_literal")
    /\ ~DoesAfter(c, "insert_bounds_check", "swap_comparison") =>
      \A e \in Envs : Value(h, c.root, e, TRUE) # IndexError

(* Guards change nothing where nothing was wrong: with checks of one or    *)
(* both kinds, in any order, a candidate returns what the source returns   *)
(* without an exception and without an index from the end. Indices are     *)
(* numbers in PyExpr: the guard of a slice would compare it with a length. *)
Conservative ==
  \A c \in Range(population) :
    Range(c.ops) \subseteq {"insert_null_check", "insert_bounds_check"} =>
      \A e \in Envs :
        LET due == Value(h, original, e, FALSE) IN
          due \in Errors \/ Value(h, c.root, e, TRUE) = due
=============================================================================
