----------------------------- MODULE MCComputer ------------------------------
(***************************************************************************)
(* Simulator with eight instructions in memory in blocks of two, and units  *)
(* that compute little.  The queue holds two blocks, as in the code.       *)
(***************************************************************************)
EXTENDS ComputerRefinement, TLC

MCFns == {"add", "beq", "lw", "sw", "mult"}
MCResult == [x \in MCFns \X Words \X Words \X Words |-> (x[2] + x[3] + x[4]) % WordSize]
MCProduct == [x \in MCFns \X Words \X Words |-> [hi |-> 0, lo |-> (x[2] * x[3]) % WordSize]]
MCTaken == [x \in MCFns \X Words \X Words |-> x[2] = x[3]]
MCPart == [x \in MCFns \X Words \X Words |-> x[2]]
MCPatched == [x \in MCFns \X Words \X Words \X Words |-> x[3]]
MCLatency == [fn \in MCFns |-> IF fn = "mult" THEN 2 ELSE 0]

MCRegs == {0, 2, 3, 31}
MCInitialRegs == {[r \in MCRegs |-> IF r = 2 THEN 2 ELSE 0]}
MCInitialHiLo == [hi |-> 0, lo |-> 0]
MCInitialMemory == [a \in WordAddresses |-> a]
MCBlockNumber == [b \in {"ir", "d"} \X (0 .. 3) |-> IF b[1] = "ir" THEN 131072 + b[2] ELSE 8388608 + b[2]]

Ins(op, fn, rs, rt, rd, imm) ==
  [op |-> op, fn |-> fn, rs |-> rs, rt |-> rt, rd |-> rd, imm |-> imm, link |-> FALSE]

ADD == Ins("alu", "add", 2, 3, 3, 0)
MULT == Ins("muldiv", "mult", 2, 3, 0, 0)
MFLO == Ins("mflo", "add", 0, 0, 3, 0)
LW(a) == Ins("load", "lw", 0, 3, 0, a)
SW(a) == Ins("store", "sw", 0, 3, 0, a)
BEQ(rs, rt, a) == Ins("branch", "beq", rs, rt, 0, a)
NOP == Ins("other", "add", 0, 0, 0, 0)
SYSCALL == Ins("syscall", "add", 0, 0, 0, 0)

Program(instrs) ==
  [a \in WordAddresses |-> IF a \in DOMAIN instrs THEN instrs[a] ELSE SYSCALL]

\* A branch back, behind which the fetch stage has missed a block that the program needs
\* the second time.
Loop == [a \in 0 .. 4 |-> NOP] @@ 5 :> ADD @@ 6 :> BEQ(3, 2, 30)

MCPrograms ==
  {Program(0 :> LW(0) @@ 1 :> SW(8) @@ 2 :> MULT @@ 3 :> MFLO), Program(Loop)}

\* A branch behind which the fetch stage has missed a block of the wrong path; where it
\* leads, a load and a fetch miss as well.
MCMisses == {Program([a \in 0 .. 5 |-> ADD] @@ 6 :> BEQ(0, 0, 15) @@ 22 :> LW(0))}

\* The clock is bounded, at more cycles than the programs take.
MaxCycles == 400
InTime == stat_cycles < MaxCycles

\* `run 1' and go; register 2 set to a value for which the branch back is not taken again,
\* and LO to 0, between any two cycles.
MCRunLengths == {1}
MCInputs == {<<3, 9>>}
MCHiLoInputs == {0}
MCNone == {}

\* Only a machine that has stopped takes no step; any other deadlock is an error.
Rests == (Stopped \/ ~InTime) /\ UNCHANGED sessionVars

MCNext == (InTime /\ SessionNext) \/ Rests

MCSpec == SessionInit /\ [][MCNext]_sessionVars /\ WF_stage(InTime /\ Running)
=============================================================================
