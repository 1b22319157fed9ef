------------------------------ MODULE HotSwap -------------------------------
(***************************************************************************)
(* What a hot-swap injector promises, with nothing of ptrace in it: the    *)
(* target is held, its function is redirected in one step or not at all,   *)
(* and when it is let go it runs with its own registers and code and the   *)
(* injector reports what happened. While the target is held the injector   *)
(* may use its registers and code as scratch space. The one thing it       *)
(* cannot take back is a word that was written in part: the code is torn,  *)
(* redirected or not, and that is reported as a failure.                   *)
(***************************************************************************)

VARIABLES
  phase,    (* "free", "held", "over" or "gone".                            *)
  scratch,  (* Are the registers or the code borrowed?                      *)
  hooked,   (* Is the faulty function redirected to the whole patch?        *)
  torn,     (* Was a word of the code written in part?                      *)
  result    (* What has been reported: "none", "success" or "failure".      *)

hotSwap == <<phase, scratch, hooked, torn, result>>

Init ==
  /\ phase = "free" /\ result = "none"
  /\ scratch = FALSE /\ hooked = FALSE /\ torn = FALSE

Hold ==
  /\ phase = "free" /\ phase' = "held"
  /\ UNCHANGED <<scratch, hooked, torn, result>>

(* Borrow or give back registers and code; where the code is torn, that    *)
(* may remove a part of the redirection.                                   *)
Use ==
  /\ phase = "held" /\ scratch' \in BOOLEAN
  /\ UNCHANGED hooked \/ (torn /\ ~hooked')
  /\ UNCHANGED <<phase, torn, result>>

Redirect ==
  /\ phase = "held" /\ ~torn /\ hooked' = TRUE
  /\ UNCHANGED <<phase, scratch, torn, result>>

Tear ==
  /\ phase = "held" /\ torn' = TRUE
  /\ scratch' \in BOOLEAN /\ hooked' \in BOOLEAN
  /\ UNCHANGED <<phase, result>>

(* The target may run again only when nothing of it is borrowed.           *)
Release ==
  /\ phase = "held" /\ ~scratch /\ phase' = "over"
  /\ result' = IF hooked /\ ~torn THEN "success" ELSE "failure"
  /\ UNCHANGED <<scratch, hooked, torn>>

Refuse ==
  /\ phase = "free" /\ phase' = "over" /\ result' = "failure"
  /\ UNCHANGED <<scratch, hooked, torn>>

(* The target dies, or the injector does: nothing is promised any more.    *)
Die ==
  /\ phase' = "gone" /\ result' = "none"
  /\ scratch' = FALSE /\ hooked' = FALSE /\ torn' = FALSE

Next == Hold \/ Use \/ Redirect \/ Tear \/ Release \/ Refuse \/ Die

Spec == Init /\ [][Next]_hotSwap
=============================================================================
