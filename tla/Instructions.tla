---------------------------- MODULE Instructions -----------------------------
(***************************************************************************)
(* The MIPS instructions as the simulator classes them in mips.h and       *)
(* pipe_stage_decode: the fields of an instruction, and the functions of   *)
(* the units that compute.  The units are constants, so that what is said  *)
(* of the pipeline holds whatever they compute; module Alu gives them the  *)
(* definitions of the execute stage.                                       *)
(*                                                                         *)
(* One type of words stands for values, addresses of bytes and program     *)
(* counters.  Memory is accessed by words, of which loads and stores of    *)
(* bytes and halves take and replace a part.  Immediates are the words     *)
(* decode makes of them: extended, or the offset or target of a jump.      *)
(***************************************************************************)
EXTENDS Integers

CONSTANTS
  WordSize,  \* the number of machine words, 2^32
  WordBytes, \* the bytes of a word, 4
  Regs,      \* the registers
  Fns,       \* names of the operations of the units
  Result,    \* what the adder, shifter and logic unit computes
  Product,   \* what the multiplier and divider leaves in HI and LO
  Taken,     \* whether a conditional branch is taken
  Part,      \* what is loaded from a word at an address in it
  Patched,   \* a word with a value stored at an address in it
  ExitCode   \* the system call that stops the machine, 0xA

Words == 0 .. WordSize - 1
HiLo == [hi : Words, lo : Words]

\* The word of memory that holds the byte at an address: address & ~3.
WordOf(address) == address \div WordBytes
WordAddresses == {WordOf(address) : address \in Words}

\* The result register of linking branches and the argument registers of syscall.
Link == 31
V0 == 2
V1 == 3

\* "other" is every opcode that pipe_stage_decode does not know.
Ops == {"alu", "imm", "muldiv", "mfhi", "mflo", "mthi", "mtlo", "jr", "syscall",
        "brspec", "branch", "j", "jal", "load", "store", "other"}

\* The fields of an instruction.
Instrs ==
  [op : Ops, fn : Fns, rs : Regs, rt : Regs, rd : Regs, imm : Words, link : BOOLEAN]

ASSUME InstructionsAssumption ==
  /\ WordSize \in Nat \ {0}
  /\ WordBytes \in Nat \ {0}
  /\ Regs \subseteq Nat
  /\ {0, V0, V1, Link} \subseteq Regs
  /\ Result \in [Fns \X Words \X Words \X Words -> Words]
  /\ Product \in [Fns \X Words \X Words -> HiLo]
  /\ Taken \in [Fns \X Words \X Words -> BOOLEAN]
  /\ Part \in [Fns \X Words \X Words -> Words]
  /\ Patched \in [Fns \X Words \X Words \X Words -> Words]
  /\ ExitCode \in Words

\* Word arithmetic wraps around.
Plus(a, b) == (a + b) % WordSize

\* The address of the instruction that follows the one at pc.
Following(pc) == Plus(pc, WordBytes)
=============================================================================
