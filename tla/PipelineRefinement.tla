------------------------- MODULE PipelineRefinement --------------------------
(***************************************************************************)
(* The correctness of Pipeline: it implements Isa, one instruction at a    *)
(* time.  An instruction counts as done from its execute stage on, when it *)
(* can no longer be squashed.  So the state of Isa is that of the pipeline *)
(* with the results of the ops in the memory and write-back slots, except  *)
(* for those behind the exit.                                              *)
(***************************************************************************)
EXTENDS Pipeline

Halted == -1

\* The program has ended: its exit has left the execute stage.
Ended == ~RUN_BIT \/ Exits(wb_op) \/ Exits(mem_op)

\* The op in the memory slot is not behind an exit.
MemOpCounts == RUN_BIT /\ ~Exits(wb_op)

RegsView ==
  IF MemOpCounts /\ mem_op # NoOp THEN Written(Written(REGS, wb_op), Loaded(mem_op))
  ELSE IF RUN_BIT THEN Written(REGS, wb_op)
  ELSE REGS

MemoryView == IF MemOpCounts THEN Stored(mem_op) ELSE memory

\* The address of the first instruction that has not executed.
NextPC ==
  IF branch_recover.flush > 0 THEN branch_recover.dest
  ELSE IF execute_op # NoOp THEN execute_op.pc
  ELSE IF decode_op # NoOp THEN decode_op.pc
  ELSE PC

NextView == IF Ended THEN Halted ELSE NextPC

Machine == INSTANCE Isa WITH
  next <- NextView, regs <- RegsView, hilo <- HILO, memory <- MemoryView

\* Bypassing, stalls, squashing and misses never show: the registers, HI and LO and
\* the memory are those of a machine that executes one instruction after the other
\* (pipe_cycle, pipe_stage_execute).
ImplementsIsa == Machine!Spec

-----------------------------------------------------------------------------
TypeOK ==
  /\ program \in [WordAddresses -> Instrs]
  /\ stage \in {"wb", "mem", "execute", "decode", "fetch", "mem_cycle", "recover"}
  /\ {decode_op, execute_op, mem_op, wb_op} \subseteq PipeOps \cup {NoOp}
  /\ REGS \in [Regs -> Words]
  /\ HILO \in HiLo
  /\ PC \in Words
  /\ memory \in [WordAddresses -> Words]
  /\ branch_recover \in [flush : {0, 3}, dest : Words]
  /\ {multiplier_stall, instruction_stall, mem_stall} \subseteq Nat
  /\ latest \in [{"ir", "d"} -> Blocks \cup {NoBlock}]
  /\ queue \in [Blocks -> 0 .. BlockWords]
  /\ RUN_BIT \in BOOLEAN
  /\ aborted \in BOOLEAN

\* The slots and the PC hold consecutive instructions, up to the end of a cycle in
\* which a branch was taken (pipe_recover) and until the program ends.
InOrder ==
  ~Ended /\ branch_recover.flush = 0 =>
    /\ decode_op # NoOp => PC = Following(decode_op.pc)
    /\ execute_op # NoOp =>
         Following(execute_op.pc) = IF decode_op # NoOp THEN decode_op.pc ELSE PC

\* The op at the input of a stage is as the stages before left it.
OpsInStage ==
  /\ decode_op # NoOp => decode_op = Fetched(decode_op.pc)
  /\ execute_op # NoOp => execute_op = Decoded(Fetched(execute_op.pc))
  /\ \A op \in {mem_op, wb_op} : op # NoOp => op.dst = Dst(op.ins)

\* A stage finds its output slot empty, so that no op is lost (pipe.h:66-68), and
\* the recovery is of this cycle.
SlotsFree ==
  /\ stage = "mem" => wb_op = NoOp
  /\ branch_recover.flush > 0 => stage \notin {"wb", "mem", "execute"}

IndInv == TypeOK /\ InOrder /\ OpsInStage /\ SlotsFree

-----------------------------------------------------------------------------
\* After the exit the fetch stage moves the PC on by one instruction, and nothing else
\* moves it (pipe_stage_wb, pipe.c:131).
StopsBehindExit ==
  [][~RUN_BIT => PC' = IF stage = "fetch" THEN Following(PC) ELSE PC]_vars
=============================================================================
