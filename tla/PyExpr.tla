------------------------------- MODULE PyExpr -------------------------------
(***************************************************************************)
(* Syntax graphs of Python as the ast module builds them, and what Python  *)
(* computes for them. None of it is code of the repository: it is what     *)
(* healing/mutator.py relies on, reduced to the nodes it handles, and the  *)
(* reference its mutations are held against.                               *)
(*                                                                         *)
(* A heap is a sequence of nodes, a node is known by its place in it, and  *)
(* nothing forbids that two nodes have a child in common. A comparison has *)
(* one operator, a call is one of len, and a Constant that is no number is *)
(* None.                                                                   *)
(***************************************************************************)
EXTENDS Integers, Sequences, FiniteSets, SequencesExt

Operators == [
  Name |-> {"data", "i"}, BinOp |-> {"Add", "Sub", "Mult", "Div"}, Constant |-> Int,
  Compare |-> {"Lt", "Gt", "LtE", "GtE", "Eq", "NotEq", "Is", "IsNot"}]

(* How many children a class asks for; a function has any number.          *)
Arity == [
  Name |-> 0, Constant |-> 0, None |-> 0, Attribute |-> 1, Len |-> 1, Return |-> 1,
  Subscript |-> 2, BinOp |-> 2, Compare |-> 2, And |-> 2, If |-> 2, IfExp |-> 3]

WellFormed(v) ==
  /\ v.op \in DOMAIN Operators => v.val \in Operators[v.op]
  /\ v.op \in DOMAIN Arity => Len(v.kids) = Arity[v.op]

Leaf(op, val)       == [op |-> op, val |-> val, kids |-> << >>]
Node(op, val, kids) == [op |-> op, val |-> val, kids |-> kids]
Name(id)            == Leaf("Name", id)
Constant(v)         == Leaf("Constant", v)
Nil                 == Leaf("None", "")
Plain(op, kids)     == Node(op, "", kids)

Kids(h, n) == {h[n].kids[j] : j \in DOMAIN h[n].kids}

(* The nodes that are found from n, itself included.                       *)
Reach(h, n) ==
  LET closed[S \in SUBSET DOMAIN h] ==
        LET more == S \cup UNION {Kids(h, m) : m \in S}
        IN  IF more = S THEN S ELSE closed[more]
  IN  closed[{n}]

Acyclic(h, n) ==
  \A m \in Reach(h, n) : \A c \in Kids(h, m) : m \notin Reach(h, c)

(* copy.deepcopy: what is shared is shared in the copy.                    *)
DeepCopy(h, n) ==
  LET R      == Reach(h, n)
      new(m) == Cardinality({x \in R : x <= m})
      old(j) == CHOOSE m \in R : new(m) = j
      copy   == [j \in 1 .. Cardinality(R) |->
                   [h[old(j)] EXCEPT !.kids = [l \in DOMAIN @ |-> Len(h) + new(@[l])]]]
  IN  [heap |-> h \o copy, node |-> Len(h) + new(n)]

-----------------------------------------------------------------------------
(* Values: a list of m elements, 1 to m; an object with one attribute,     *)
(* which is None or such a list; and the exceptions.                       *)
IntV(v)   == <<"int", v>>
None      == <<"None", 0>>
ListV(m)  == <<"list", m>>
ObjV(m)   == <<"object", m>>     \* its attribute is None if m < 0
Next_     == <<"next", 0>>       \* a statement that does not return
NoneError == <<"!None", 0>>      \* an operation on None that needs an object
IndexError == <<"!Index", 0>>
TypeError  == <<"!Type", 0>>

Errors   == {NoneError, IndexError, TypeError}
Values   == {"int", "None", "list", "object", "next", "!None", "!Index", "!Type"} \X Int
Bool(b)  == IntV(IF b THEN 1 ELSE 0)
Truth(v) == v[1] = "object" \/ (v[1] # "None" /\ v[2] # 0)

Attribute(v) ==
  IF v = None THEN NoneError
  ELSE IF v[1] # "object" THEN TypeError
  ELSE IF v[2] < 0 THEN None ELSE ListV(v[2])

(* Without `negative` an index from the end counts as an error.            *)
Item(v, s, negative) ==
  IF v = None THEN NoneError
  ELSE IF v[1] # "list" \/ s[1] # "int" THEN TypeError
  ELSE IF s[2] \in 0 .. v[2] - 1 THEN IntV(s[2] + 1)
  ELSE IF negative /\ s[2] \in -v[2] .. -1 THEN IntV(s[2] + v[2] + 1)
  ELSE IndexError

Length(v) ==
  IF v = None THEN NoneError ELSE IF v[1] = "list" THEN IntV(v[2]) ELSE TypeError

Arithmetic(op, v, w) ==
  IF v[1] # "int" \/ w[1] # "int" \/ op \in {"Mult", "Div"} THEN TypeError
  ELSE IntV(IF op = "Add" THEN v[2] + w[2] ELSE v[2] - w[2])

Comparison(op, v, w) ==
  CASE op = "Is"    -> Bool(v = w)
    [] op = "IsNot" -> Bool(v # w)
    [] op = "Eq"    -> Bool(v = w)
    [] op = "NotEq" -> Bool(v # w)
    [] OTHER ->
         IF v[1] # "int" \/ w[1] # "int" THEN TypeError
         ELSE Bool(CASE op = "Lt"  -> v[2] < w[2]  [] op = "Gt"  -> v[2] > w[2]
                     [] op = "LtE" -> v[2] <= w[2] [] op = "GtE" -> v[2] >= w[2])

(* What a node computes, given what its children do. An exception of the  *)
(* first child, or of the second operand, goes through; a function returns *)
(* what its first statement that returns does, or None.                    *)
Evaluated(v, kid, env, negative) ==
  LET op      == v.op
      first   == kid[1]
      second  == kid[2]
      returns == {j \in DOMAIN kid : kid[j] # Next_}
  IN CASE op = "Name"     -> env[v.val]
       [] op = "Constant" -> IntV(v.val)
       [] op = "None"     -> None
       [] op = "FunctionDef" ->
            IF returns = {} THEN None
            ELSE kid[CHOOSE j \in returns : \A l \in returns : j <= l]
       [] OTHER ->
            IF first \in Errors THEN first
            ELSE IF op \in {"Subscript", "BinOp", "Compare"} /\ second \in Errors THEN second
            ELSE CASE op = "Attribute" -> Attribute(first)
                   [] op = "Len"       -> Length(first)
                   [] op = "Return"    -> first
                   [] op = "Subscript" -> Item(first, second, negative)
                   [] op = "BinOp"     -> Arithmetic(v.val, first, second)
                   [] op = "Compare"   -> Comparison(v.val, first, second)
                   [] op = "And"       -> IF Truth(first) THEN second ELSE first
                   [] op = "IfExp"     -> IF Truth(first) THEN second ELSE kid[3]
                   [] op = "If"        -> IF Truth(first) THEN second ELSE Next_

(* What a function at n returns, or the exception it raises.               *)
Value(h, n, env, negative) ==
  LET ev[m \in DOMAIN h] ==
        Evaluated(h[m], [j \in DOMAIN h[m].kids |-> ev[h[m].kids[j]]], env, negative)
  IN  ev[n]
=============================================================================
