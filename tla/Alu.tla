-------------------------------- MODULE Alu ---------------------------------
(***************************************************************************)
(* The units of the execute stage (pipe.c): Arithmetic, and the operations *)
(* that work bit by bit.                                                   *)
(***************************************************************************)
EXTENDS Arithmetic, Bitwise

Computed(fn, a, b, imm) ==
  CASE fn = "and" -> a & b
    [] fn = "or" -> a | b
    [] fn = "nor" -> Size - 1 - (a | b)
    [] fn = "xor" -> a ^^ b
    [] fn = "andi" -> a & imm
    [] fn = "ori" -> a | imm
    [] fn = "xori" -> a ^^ imm
    [] OTHER -> Calculated(fn, a, b, imm)
=============================================================================
