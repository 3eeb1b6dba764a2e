----------------------------- MODULE MCPipeline ------------------------------
(***************************************************************************)
(* Pipeline with words of four bits and four instructions in memory, which *)
(* the PC runs through again and again until an exit.                      *)
(***************************************************************************)
EXTENDS PipelineRefinement, Alu

MCFns == {"", "addu", "addiu", "mult", "beq", "bltzal", "lw", "lb", "sw", "sh"}
MCResult == [x \in MCFns \X Words \X Words \X Words |-> Computed(x[1], x[2], x[3], x[4])]
MCProduct == [x \in MCFns \X Words \X Words |-> Multiplied(x[1], x[2], x[3])]
MCTaken == [x \in MCFns \X Words \X Words |-> Branches(x[1], x[2], x[3])]
MCPart == [x \in MCFns \X Words \X Words |-> PartOf(x[1], x[2], x[3])]
MCPatched == [x \in MCFns \X Words \X Words \X Words |-> Patch(x[1], x[2], x[3], x[4])]
MCLatency == [fn \in MCFns |-> IF fn = "mult" THEN 2 ELSE 0]

MCRegs == {0, 2, 3, 31}
MCInitialRegs == {[r \in MCRegs |-> CASE r = 0 -> 5 [] r = 2 -> 2 [] r = 3 -> 9 [] r = 31 -> 7]}
MCInitialHiLo == [hi |-> 1, lo |-> 2]
MCInitialMemory == [a \in WordAddresses |-> 13 - 3 * a]

Ins(op, fn, rs, rt, rd, imm) ==
  [op |-> op, fn |-> fn, rs |-> rs, rt |-> rt, rd |-> rd, imm |-> imm, link |-> fn = "bltzal"]

ADDU == Ins("alu", "addu", 2, 3, 2, 0)
ADDIU == Ins("imm", "addiu", 2, 3, 0, 3)
MULT == Ins("muldiv", "mult", 2, 3, 0, 0)
MFLO == Ins("mflo", "", 0, 0, 3, 0)
MTLO == Ins("mtlo", "", 2, 0, 3, 0)
LW == Ins("load", "lw", 0, 2, 0, 4)
LB == Ins("load", "lb", 3, 2, 0, 0)
SW == Ins("store", "sw", 3, 2, 0, 4)
SH == Ins("store", "sh", 3, 2, 0, 1)
BEQ == Ins("branch", "beq", 2, 3, 0, 4)
BLTZAL == Ins("brspec", "bltzal", 2, 0, 0, 4)
JAL == Ins("jal", "", 0, 0, 0, 8)
J == Ins("j", "", 0, 0, 0, 0)
JR == Ins("jr", "", 31, 0, 0, 0)
SYSCALL == Ins("syscall", "", 0, 0, 0, 0)

\* Three instructions of any kind and a system call.
MCPrograms ==
  {p \in [WordAddresses -> {ADDU, ADDIU, MULT, MFLO, MTLO, LB, SH, BEQ, BLTZAL, JAL, JR, SYSCALL}] :
     p[3] = SYSCALL}
=============================================================================
