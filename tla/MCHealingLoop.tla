--------------------------- MODULE MCHealingLoop ----------------------------
EXTENDS HealingLoop
CONSTANTS a1, a2, a3

E(op, a) == [op |-> op, addr |-> a]

(* The nine operations of healing_loop (lines 160-170).                    *)
MCScript ==
  <<E("malloc", a1), E("malloc", a2), E("write", a1), E("free", a1), E("write", a1),
    E("free", a2), E("free", a2), E("malloc", a3), E("write", a3)>>

(* With them, every list of up to four operations on two addresses and of  *)
(* up to six on one.                                                       *)
Lists(n, A) == UNION {[1 .. m -> [op : Operations, addr : A]] : m \in 0 .. n}

MCEventLists == Lists(4, {a1, a2}) \cup Lists(6, {a1}) \cup {MCScript}
=============================================================================
