-------------------------- MODULE MCFaultDetector --------------------------
EXTENDS FaultDetector, TLC
CONSTANTS p1, p2, t1, t2, t3, a1, a2

(* Two threads of one process.                                             *)
MCOneProcess == t1 :> p1 @@ t2 :> p1
MCOneHeap    == p1 :> {a1, a2}

(* Two threads of one process and one of another, with heaps apart.        *)
MCTwoAndOne  == MCOneProcess @@ t3 :> p2
MCHeapsApart == p1 :> {a1} @@ p2 :> {a2}

(* Two processes of one thread each, with blocks at the same address.      *)
MCApart      == t1 :> p1 @@ t3 :> p2
MCSameHeap   == p1 :> {a1} @@ p2 :> {a1}
=============================================================================
