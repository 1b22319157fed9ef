------------------------------ MODULE JmpRel32 ------------------------------
(***************************************************************************)
(* The x86-64 instruction both injectors write over the entry of the       *)
(* faulty function: opcode E9 and a 32-bit signed displacement, counted    *)
(* from the end of the instruction. The injectors compute the displacement *)
(* in 64 bits and keep the low 32.                                         *)
(***************************************************************************)
EXTENDS Integers

CONSTANT RelMod   (* The number of displacements: 2^32 in the code.         *)

ASSUME RelAssumption == RelMod \in Nat /\ RelMod > 0 /\ RelMod % 2 = 0

JmpLen == 5
Half   == RelMod \div 2

(* Mutated: counted from the start of the instruction.                     *)
DisplacementFromStart(from, to) == (to - from) % RelMod

(* What the injectors store in the four operand bytes.                     *)
Displacement(from, to) == (to - from - JmpLen) % RelMod

(* Where the processor goes: the stored value, read as a signed number.    *)
SignExtend(d)   == IF d < Half THEN d ELSE d - RelMod
LandsAt(from, d) == from + JmpLen + SignExtend(d)

(* The distances the instruction can express.                              *)
Reachable(from, to) == to - from - JmpLen \in -Half .. Half - 1
=============================================================================
