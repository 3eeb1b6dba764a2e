------------------------------- MODULE MCShell --------------------------------
(***************************************************************************)
(* Shell with a few programs, `run 1' and `run 2', and a register that the *)
(* programs read and write set between any two cycles.                     *)
(***************************************************************************)
EXTENDS MCPipeline, Shell

MCRunLengths == {1, 2}
MCInputs == {<<2, 2>>}
MCHiLoInputs == {3}

ShellPrograms ==
  {p \in [WordAddresses -> {LW, ADDU, MULT, MFLO, SH, LB, BEQ, SYSCALL, J}] :
     /\ <<p[0], p[1]>> \in {<<LW, ADDU>>, <<MULT, MFLO>>, <<SH, LB>>, <<MULT, BEQ>>}
     /\ p[2] = SYSCALL /\ p[3] = J}
=============================================================================
