----------------------------- MODULE Simulator ------------------------------
(***************************************************************************)
(* The whole program: the commands of shell.c run Computer and set its     *)
(* registers, as Shell does with Pipeline.  The prompt returns whatever is *)
(* in the queue, on the buses and in the banks, and no command touches it. *)
(***************************************************************************)
EXTENDS Computer

CONSTANTS RunLengths, Inputs, HiLoInputs  \* as in Shell

ASSUME SimulatorAssumption ==
  /\ RunLengths \subseteq Nat
  /\ Inputs \subseteq Regs \X Words
  /\ HiLoInputs \subseteq Words

VARIABLE left  \* the cycles that the command has still to run, 0 at the prompt

sessionVars == <<vars, left>>

Commands == INSTANCE Shell WITH queue <- LastWords

SessionInit == Init /\ left = 0

\* A command is read between two cycles.
Command ==
  /\ UNCHANGED controller
  /\ \/ \E n \in RunLengths : Commands!Run(n)
     \/ Commands!Go
     \/ \E input \in Inputs : Commands!Input(input[1], input[2])
     \/ \E half \in {"hi", "lo"}, v \in HiLoInputs : Commands!InputHiLo(half, v)

\* A call of the cycle that run or go is in.
Cycle ==
  /\ left # 0
  /\ Next
  /\ left' = IF stage = "recover" THEN Commands!LeftAfter ELSE left

SessionNext == Command \/ Cycle

SessionSpec == SessionInit /\ [][SessionNext]_sessionVars

\* A command goes on until it returns.  Each call changes stage, and one is possible until
\* the machine has stopped, so this is weak fairness of Cycle.
Running == left # 0 /\ Turn
SessionFairness == WF_stage(Running)

=============================================================================
