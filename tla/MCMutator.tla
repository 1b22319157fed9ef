----------------------------- MODULE MCMutator ------------------------------
EXTENDS Mutator

(* def process(data, i): return <the last node of body>                    *)
Function(body) ==
  body \o <<Plain("Return", <<Len(body)>>), Plain("FunctionDef", <<Len(body) + 1>>)>>

Sub(m, n)      == Plain("Subscript", <<m, n>>)
Add(m, n)      == Node("BinOp", "Add", <<m, n>>)
Less(m, n)     == Node("Compare", "Lt", <<m, n>>)
Attr(m)        == Plain("Attribute", <<m>>)
Data           == Name("data")
Index          == Name("i")

(* data[i + 1]                                                             *)
MCShifted  == Function(<<Data, Index, Constant(1), Add(2, 3), Sub(1, 4)>>)
(* data.items[i]                                                           *)
MCItems    == Function(<<Data, Attr(1), Index, Sub(2, 3)>>)
(* data[data[i]]                                                           *)
MCNested   == Function(<<Data, Data, Index, Sub(2, 3), Sub(1, 4)>>)
(* data[i] < 2                                                             *)
MCCompared == Function(<<Data, Index, Sub(1, 2), Constant(2), Less(3, 4)>>)

MCRequests ==
  {[heap |-> f, size |-> 1] : f \in {MCShifted, MCItems, MCNested, MCCompared}}
  \cup {[heap |-> Function(<<Data, Constant(0), Sub(1, 2)>>), size |-> 2]}

MCEnvs ==
  [data : {None, ObjV(-1)} \cup {ListV(m) : m \in 0 .. 2} \cup {ObjV(m) : m \in 0 .. 2},
   i : {IntV(v) : v \in -2 .. 3}]
=============================================================================
