-------------------------------- MODULE Shell ---------------------------------
(***************************************************************************)
(* shell.c: the commands that run the pipeline and set its registers.  A   *)
(* command is read when the one before has returned, so between two cycles *)
(* of the pipeline.  rdump, mdump and help only print, quit ends it all.   *)
(***************************************************************************)
EXTENDS PipelineRefinement

CONSTANTS
  RunLengths,  \* the numbers of cycles given to `run'
  Inputs,      \* the registers and values given to `input'
  HiLoInputs   \* the values given to `high' and `low'

ASSUME ShellAssumption ==
  /\ RunLengths \subseteq Nat
  /\ Inputs \subseteq Regs \X Words
  /\ HiLoInputs \subseteq Words

VARIABLE left  \* the cycles that the command has still to run, 0 at the prompt

shellVars == <<vars, left>>

Unbounded == -1

\* initialize
ShellInit == Init /\ left = 0

\* run and go
Run(n) == left = 0 /\ RUN_BIT /\ left' = n /\ UNCHANGED vars
Go == Run(Unbounded)

\* The commands that set registers do so in the register file, whatever the slots hold.
Input(r, v) ==
  /\ left = 0
  /\ REGS' = [REGS EXCEPT ![r] = v]
  /\ UNCHANGED <<program, stage, slots, HILO, PC, memory, branch_recover, stalls, latest, queue,
                 RUN_BIT, aborted, left>>

\* `high' or `low'
InputHiLo(half, v) ==
  /\ left = 0
  /\ HILO' = [HILO EXCEPT ![half] = v]
  /\ UNCHANGED <<program, stage, slots, REGS, PC, memory, branch_recover, stalls, latest, queue,
                 RUN_BIT, aborted, left>>

\* The loops of run and go after a cycle.
LeftAfter ==
  IF ~RUN_BIT THEN 0 ELSE IF left = Unbounded THEN left ELSE left - 1

\* A step of the cycle that run or go is in.
Cycle ==
  /\ left # 0
  /\ Next
  /\ left' = IF stage = "recover" THEN LeftAfter ELSE left

ShellNext ==
  \/ \E n \in RunLengths : Run(n)
  \/ Go
  \/ \E input \in Inputs : Input(input[1], input[2])
  \/ \E half \in {"hi", "lo"}, v \in HiLoInputs : InputHiLo(half, v)
  \/ Cycle

ShellSpec == ShellInit /\ [][ShellNext]_shellVars

\* The memory or the fetch stage of a cycle waits for words of a block.
Awaited(b) ==
  /\ left # 0 /\ queue[b] > 0
  /\ \/ mem_op # NoOp /\ b = BlockOf("d", mem_op.mem_addr)
     \/ b = BlockOf("ir", PC)

\* A command goes on until it returns; the user need never give one.  The controller
\* serves a block that is waited for all the time: the stages soon ask for no other, and
\* then the queue drains (WaitIsBounded).  A block that the fetch stage has turned away
\* from may be overtaken for ever.
ShellFairness ==
  /\ WF_shellVars(Cycle)
  /\ \A b \in Blocks :
       []<>(~Awaited(b)) \/ []<><<Cycle /\ MemCycle /\ Serve(b)>>_shellVars

FairShellSpec == ShellSpec /\ ShellFairness

-----------------------------------------------------------------------------
\* The invariant of the pipeline holds whatever the user does between two cycles, and
\* the prompt returns between two cycles only (run, go).
ShellIndInv ==
  /\ IndInv
  /\ left \in Nat \cup {Unbounded}
  /\ left = 0 => stage = "wb"

\* Stopping between any two cycles, setting registers there and going on never shows,
\* but for the registers set (get_command): an instruction that has executed is never
\* affected, the next one finds the new value.  The value is lost if an instruction
\* that has executed has still to write the register.
SessionImplementsIsa ==
  /\ Machine!Init
  /\ [][IF left = 0 THEN Machine!UserSets ELSE Machine!Next]_(Machine!vars)

\* Under go every op that enters the pipeline leaves it and another follows until the
\* program ends: no stall lasts for ever, whatever the misses, the stops before and the
\* registers set (pipe_stage_mem, pipe_stage_fetch, pipe_stage_execute).
GoProgresses ==
  left = Unbounded ~> ((stage = "wb" /\ wb_op # NoOp) \/ left = 0 \/ aborted)
=============================================================================
