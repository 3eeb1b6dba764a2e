------------------------------ MODULE Computer -------------------------------
(***************************************************************************)
(* cycle() with the pipeline of pipe.c on the controller of mem_ctrl.c:    *)
(* the stages put the words of the blocks they miss in the MSHR queue, and *)
(* probe it for the last word of the block they wait for; mem_cycle serves *)
(* it.  The stages are those of Pipeline and the cycle is MemCtrl's.  What *)
(* each of the two assumes of the other is the real thing here.            *)
(***************************************************************************)
EXTENDS Instructions, FiniteSets

CONSTANTS
  Programs, InitialRegs, InitialHiLo, InitialMemory, NoOp, NoBlock, Latency, L2Stall,
  MemoryStall, BlockWords, MshrSize,           \* as in Pipeline
  NumBanks, BlocksPerRow, Step, CmdLen, DataLen, \* as in MemCtrl
  BlockNumber   \* the number of each block of instructions and of data, address \div 32

VARIABLES
  program, stage, decode_op, execute_op, mem_op, wb_op, REGS, HILO, PC, memory,
  branch_recover, multiplier_stall, instruction_stall, mem_stall, latest, RUN_BIT,
  aborted,    \* in_mshr's assertion has failed: the queue is full
  mshr, row_buffer, busy, stat_cycles,
  failed      \* an assertion about the busy sets has failed

controller == <<mshr, row_buffer, busy, stat_cycles, failed>>
slots == <<decode_op, execute_op, mem_op, wb_op>>
stalls == <<multiplier_stall, instruction_stall, mem_stall>>
vars == <<program, stage, slots, REGS, HILO, PC, memory, branch_recover, stalls,
          latest, RUN_BIT, aborted, controller>>

\* RUN_BIT as go() sees it, between two cycles.
RunBit == stage \in {"wb", "recover"} => RUN_BIT

Controller == INSTANCE MemCtrlProofs WITH
  Blocks <- {BlockNumber[b] : b \in DOMAIN BlockNumber}, run_bit <- RunBit, aborted <- failed

\* Mutant: the pipeline probes for the first word of a block.
FirstWords ==
  [b \in DOMAIN BlockNumber |-> IF Controller!Probe(mshr, BlockNumber[b], 1) THEN 1 ELSE 0]

\* What the pipeline sees of the queue: whether the last word of a block is in it.
LastWords ==
  [b \in DOMAIN BlockNumber |->
     IF Controller!Probe(mshr, BlockNumber[b], BlockWords) THEN 1 ELSE 0]

Stages == INSTANCE Pipeline WITH queue <- LastWords

\* Different blocks have different numbers.
ASSUME ComputerAssumption ==
  /\ Programs \subseteq [WordAddresses -> Instrs]
  /\ InitialRegs \subseteq [Regs -> Words]
  /\ InitialHiLo \in HiLo
  /\ InitialMemory \in [WordAddresses -> Words]
  /\ NoOp \notin Stages!PipeOps
  /\ NoBlock \notin Stages!Blocks
  /\ Latency \in [Fns -> Nat]
  /\ {L2Stall, MemoryStall} \subseteq Nat
  /\ BlockNumber \in [Stages!Blocks -> Nat]
  /\ \A b, c \in Stages!Blocks : BlockNumber[b] = BlockNumber[c] => b = c
  /\ {BlockWords, MshrSize, NumBanks, BlocksPerRow} \subseteq Nat \ {0}
  /\ {Step, CmdLen, DataLen} \subseteq Nat \ {0}
  /\ CmdLen < Step
  /\ CmdLen <= DataLen

\* mshr comes first as both parts look at it.
Init ==
  /\ mshr = << >>
  /\ Stages!Init
  /\ Controller!Init

-----------------------------------------------------------------------------
(* A call in which nothing is put in the queue or taken out.               *)

WriteBack == Stages!WriteBack
Mem == Stages!MemWaits \/ Stages!MemPasses
Execute == Stages!ExecuteWaits \/ Stages!Execute
Decode == Stages!Decode
Fetch == Stages!FetchWaits \/ Stages!FetchStops \/ Stages!Fetch
Recover == Stages!Recover

StageWorks ==
  /\ ~failed
  /\ UNCHANGED controller
  /\ WriteBack \/ Mem \/ Execute \/ Decode \/ Fetch \/ Recover

-----------------------------------------------------------------------------
(* The queue.                                                              *)

\* The calls of in_mshr for the words of a block, which abort the program if the queue has
\* not got room for them.
Request(b) ==
  \/ /\ ~Controller!EnqueueFails(mshr)
     /\ mshr' = Controller!Enqueued(mshr, BlockNumber[b])
     /\ UNCHANGED aborted
  \/ /\ Controller!EnqueueFails(mshr)
     /\ aborted' = TRUE
     /\ UNCHANGED mshr

\* transfer_mem_hier: the block is in the L2 cache, or requested from memory.  A stage
\* that is not stalled has not found it in the queue.
Transfer(cache, address, stall) ==
  /\ latest' = [latest EXCEPT ![cache] = Stages!BlockOf(cache, address)]
  /\ \/ stall' = L2Stall /\ UNCHANGED <<mshr, aborted>>
     \/ stall' = MemoryStall /\ Request(Stages!BlockOf(cache, address))

\* pipe_stage_mem does not find the block in the data cache.
MemMisses ==
  /\ ~failed
  /\ Stages!Calls("mem", "execute")
  /\ mem_op # NoOp /\ Stages!MemStall = 0
  /\ Stages!IsMem(mem_op) /\ Stages!MayMiss("d", mem_op.mem_addr)
  /\ Transfer("d", mem_op.mem_addr, mem_stall)
  /\ UNCHANGED <<program, slots, REGS, HILO, PC, memory, branch_recover, multiplier_stall,
                 instruction_stall, RUN_BIT, row_buffer, busy, stat_cycles, failed>>

\* pipe_stage_fetch does not find the block in the instruction cache.
FetchMisses ==
  /\ ~failed
  /\ Stages!Calls("fetch", "mem_cycle")
  /\ decode_op = NoOp /\ RUN_BIT /\ Stages!FetchStall = 0
  /\ Stages!MayMiss("ir", PC)
  /\ Transfer("ir", PC, instruction_stall)
  /\ UNCHANGED <<program, slots, REGS, HILO, PC, memory, branch_recover, multiplier_stall,
                 mem_stall, RUN_BIT, row_buffer, busy, stat_cycles, failed>>

\* mem_cycle, and the clock of cycle(), which nothing reads before the next call of
\* mem_cycle.
MemCycle ==
  /\ Stages!Calls("mem_cycle", "recover")
  /\ UNCHANGED <<program, slots, REGS, HILO, PC, memory, branch_recover, stalls, latest,
                 RUN_BIT, aborted>>
  /\ Controller!Cycle(RUN_BIT)

\* The call that comes after each call.
Successor ==
  [wb |-> "mem", mem |-> "execute", execute |-> "decode", decode |-> "fetch",
   fetch |-> "mem_cycle", mem_cycle |-> "recover", recover |-> "wb"]

Next == StageWorks \/ MemMisses \/ FetchMisses \/ MemCycle

\* cycle() makes its calls one after the other as long as RUN_BIT is set.
Stopped == (stage = "wb" /\ ~RUN_BIT) \/ aborted \/ failed
Turn == ~Stopped /\ stage' = Successor[stage]
=============================================================================
