------------------------------ MODULE Pipeline -------------------------------
(***************************************************************************)
(* pipe.c: the five stages, which pipe_cycle calls from the last to the    *)
(* first, then mem_cycle, then the recovery after a branch.  Variable      *)
(* `stage' is the call that comes next.  A slot holds the instruction at   *)
(* the input of a stage, or NoOp for NULL.                                 *)
(*                                                                         *)
(* The caches are represented by the time they cost.  DataProofs           *)
(* shows that they serve loads as one memory does, so that `memory' is     *)
(* what the data cache and main memory hold together.  Of each L1 cache    *)
(* only the block it was given last is known to be in it: another block    *)
(* may hit or miss.  Of the controller's queue it matters how many words   *)
(* of a block are still in it: they leave one per cycle, the last one last *)
(* (shown of MemCtrl), at times that are not predicted.                    *)
(***************************************************************************)
EXTENDS Instructions, FiniteSets

CONSTANTS
  Programs, InitialRegs, InitialHiLo, InitialMemory,  \* what load_program and `input' leave
  NoOp,         \* an empty slot
  NoBlock,      \* before the first transfer
  Latency,      \* of the operations of the multiplier and divider: 4 and 32
  L2Stall,      \* the stall of a hit in the L2 cache, 15 + 1
  MemoryStall,  \* the stall of a request to memory, beyond its time in the queue: 10 + 1
  BlockWords,   \* the words of a block, 8
  MshrSize      \* the entries of the queue, 16

\* Instructions and data lie in different regions of the memory.
Blocks == {"ir", "d"} \X {word \div BlockWords : word \in WordAddresses}
BlockOf(cache, address) == <<cache, WordOf(address) \div BlockWords>>

\* A Pipe_Op.  Register -1 means none.
OptionalRegs == Regs \cup {-1}
PipeOps ==
  [pc : Words, ins : Instrs, src1 : OptionalRegs, src2 : OptionalRegs, dst : OptionalRegs,
   val1 : Words, val2 : Words, dst_value : Words, mem_addr : Words, mem_value : Words,
   taken : BOOLEAN, dest : Words]

ASSUME PipelineAssumption ==
  /\ Programs \subseteq [WordAddresses -> Instrs]
  /\ InitialRegs \subseteq [Regs -> Words]
  /\ InitialHiLo \in HiLo
  /\ InitialMemory \in [WordAddresses -> Words]
  /\ NoOp \notin PipeOps
  /\ NoBlock \notin Blocks
  /\ Latency \in [Fns -> Nat]
  /\ L2Stall \in Nat
  /\ MemoryStall \in Nat
  /\ BlockWords \in Nat \ {0}
  /\ MshrSize \in Nat

VARIABLES
  program,                              \* the contents of the text segment
  stage,                                \* the next call of pipe_cycle
  decode_op, execute_op, mem_op, wb_op, \* the slots
  REGS, HILO, PC, memory,
  branch_recover,                       \* branch_flush and branch_dest; flush 0 for no recovery
  multiplier_stall, instruction_stall, mem_stall,
  latest,                               \* the block each L1 cache was given last
  queue,                                \* the words of each block in the MSHR queue
  RUN_BIT,
  aborted                               \* an assertion of the C code has failed

slots == <<decode_op, execute_op, mem_op, wb_op>>
stalls == <<multiplier_stall, instruction_stall, mem_stall>>
vars == <<program, stage, slots, REGS, HILO, PC, memory, branch_recover, stalls,
          latest, queue, RUN_BIT, aborted>>

NoRecovery == [flush |-> 0, dest |-> 0]

Init ==
  /\ program \in Programs
  /\ stage = "wb"
  /\ decode_op = NoOp /\ execute_op = NoOp /\ mem_op = NoOp /\ wb_op = NoOp
  /\ REGS \in InitialRegs
  /\ HILO = InitialHiLo
  /\ PC = 0
  /\ memory = InitialMemory
  /\ branch_recover = NoRecovery
  /\ multiplier_stall = 0 /\ instruction_stall = 0 /\ mem_stall = 0
  /\ latest = [c \in {"ir", "d"} |-> NoBlock]
  /\ queue = [b \in Blocks |-> 0]
  /\ RUN_BIT = TRUE
  /\ aborted = FALSE

\* pipe_cycle calls `from', and then `to'.
Calls(from, to) == stage = from /\ stage' = to /\ ~aborted

Ticked(stall) == IF stall > 0 THEN stall - 1 ELSE 0

-----------------------------------------------------------------------------
(* The caches and the queue.                                               *)

\* probe_mshr of the last word of the block.
Probe(cache, address) == queue[BlockOf(cache, address)] > 0

\* Mutant: a stall does not go down.
StallKept(stall, cache, address) == stall + (IF Probe(cache, address) THEN 1 ELSE 0)

\* Mutant: a stall does not wait for the block.
StallTicks(stall, cache, address) == Ticked(stall)

\* What a stall is after a cycle: it does not go down while the block is waited for.
StallAfter(stall, cache, address) ==
  Ticked(stall) + (IF Probe(cache, address) THEN 1 ELSE 0)

\* find_block_position fails.
MayMiss(cache, address) == latest[cache] # BlockOf(cache, address)

QueueLength == Cardinality({e \in Blocks \X (1 .. BlockWords) : e[2] <= queue[e[1]]})

\* The calls of in_mshr for the words of a block, which abort the program if the queue has
\* not got room for them.
Request(b) ==
  \/ /\ QueueLength + BlockWords <= MshrSize
     /\ queue' = [queue EXCEPT ![b] = BlockWords]
     /\ UNCHANGED aborted
  \/ /\ QueueLength + BlockWords > MshrSize
     /\ aborted' = TRUE
     /\ UNCHANGED queue

\* transfer_mem_hier: the block is in the L2 cache, or requested from memory.  A stage
\* that is not stalled has not found it in the queue.
Transfer(cache, address, stall) ==
  /\ latest' = [latest EXCEPT ![cache] = BlockOf(cache, address)]
  /\ \/ stall' = L2Stall /\ UNCHANGED <<queue, aborted>>
     \/ stall' = MemoryStall /\ Request(BlockOf(cache, address))

\* finish_request: a word leaves the queue.
Serve(b) ==
  /\ queue[b] > 0
  /\ queue' = [queue EXCEPT ![b] = @ - 1]

\* mem_cycle
MemCycle ==
  /\ Calls("mem_cycle", "recover")
  /\ (\E b \in Blocks : Serve(b)) \/ UNCHANGED queue
  /\ UNCHANGED <<program, slots, REGS, HILO, PC, memory, branch_recover, stalls, latest,
                 RUN_BIT, aborted>>

-----------------------------------------------------------------------------
(* Write-back.                                                             *)

\* The registers with the result of op.
Written(registers, op) ==
  IF op = NoOp \/ op.dst \in {-1, 0} THEN registers
  ELSE [registers EXCEPT ![op.dst] = op.dst_value]

\* A system call that ends the program.
Exits(op) == op # NoOp /\ op.ins.op = "syscall" /\ op.val1 = ExitCode

\* pipe_stage_wb.  go() calls pipe_cycle while RUN_BIT is set.
WriteBack ==
  /\ Calls("wb", "mem")
  /\ RUN_BIT
  /\ wb_op' = NoOp
  /\ REGS' = Written(REGS, wb_op)
  /\ RUN_BIT' = ~Exits(wb_op)
  /\ PC' = IF Exits(wb_op) THEN wb_op.pc ELSE PC
  /\ UNCHANGED <<program, decode_op, execute_op, mem_op, HILO, memory, branch_recover, stalls,
                 latest, queue, aborted>>

-----------------------------------------------------------------------------
(* Memory.                                                                 *)

IsMem(op) == op.ins.op \in {"load", "store"}

\* An op that does not access memory has address 0, and is stalled by a request for it.
MemStall ==
  IF mem_op = NoOp THEN Ticked(mem_stall) ELSE StallAfter(mem_stall, "d", mem_op.mem_addr)

\* pipe_stage_mem has nothing to do, or is stalled.
MemWaits ==
  /\ Calls("mem", "execute")
  /\ mem_op = NoOp \/ MemStall > 0
  /\ mem_stall' = MemStall
  /\ UNCHANGED <<program, slots, REGS, HILO, PC, memory, branch_recover, multiplier_stall,
                 instruction_stall, latest, queue, RUN_BIT, aborted>>

\* pipe_stage_mem does not find the block in the data cache.
MemMisses ==
  /\ Calls("mem", "execute")
  /\ mem_op # NoOp /\ MemStall = 0
  /\ IsMem(mem_op) /\ MayMiss("d", mem_op.mem_addr)
  /\ Transfer("d", mem_op.mem_addr, mem_stall)
  /\ UNCHANGED <<program, slots, REGS, HILO, PC, memory, branch_recover, multiplier_stall,
                 instruction_stall, RUN_BIT>>

\* The op with what it has loaded from a word.
Loaded(op) ==
  IF op.ins.op = "load"
  THEN [op EXCEPT !.dst_value = Part[op.ins.fn, memory[WordOf(op.mem_addr)], op.mem_addr]]
  ELSE op

\* The memory with what op stores to a word, of which SB and SH read the rest in
\* the same cycle.
Stored(op) ==
  IF op # NoOp /\ op.ins.op = "store"
  THEN [memory EXCEPT ![WordOf(op.mem_addr)] =
          Patched[op.ins.fn, @, op.mem_value, op.mem_addr]]
  ELSE memory

\* pipe_stage_mem does its work: the block is in the data cache, or not needed.
MemPasses ==
  /\ Calls("mem", "execute")
  /\ mem_op # NoOp /\ MemStall = 0
  /\ mem_stall' = 0
  /\ memory' = Stored(mem_op)
  /\ wb_op' = Loaded(mem_op)
  /\ mem_op' = NoOp
  /\ UNCHANGED <<program, decode_op, execute_op, REGS, HILO, PC, branch_recover,
                 multiplier_stall, instruction_stall, latest, queue, RUN_BIT, aborted>>

-----------------------------------------------------------------------------
(* Execute.                                                                *)

\* Mutant: no bypass from the write-back slot.
OperandFromFile(r) == IF r \in {-1, 0} THEN 0 ELSE REGS[r]

\* The value of a source register.  The op in front has left the memory stage, or
\* execute waits: the bypass from mem_op, and the stall for a load in it, which the
\* code has too, are never used.
Operand(r) ==
  IF r \in {-1, 0} THEN 0
  ELSE IF wb_op # NoOp /\ wb_op.dst = r THEN wb_op.dst_value
  ELSE REGS[r]

\* An instruction that has to wait for the multiplier.
NeedsHiLo(op) == op # NoOp /\ op.ins.op \in {"mfhi", "mflo", "mthi", "mtlo"}

\* pipe_stage_execute has nothing to do, or is stalled.
ExecuteWaits ==
  /\ Calls("execute", "decode")
  /\ \/ mem_op # NoOp \/ execute_op = NoOp
     \/ NeedsHiLo(execute_op) /\ Ticked(multiplier_stall) > 0
  /\ multiplier_stall' = Ticked(multiplier_stall)
  /\ UNCHANGED <<program, slots, REGS, HILO, PC, memory, branch_recover, instruction_stall,
                 mem_stall, latest, queue, RUN_BIT, aborted>>

\* reg_dst_value after the execute stage, for operands a and b.
Value(op, a, b) ==
  IF op.ins.op \in {"alu", "imm"} THEN Result[op.ins.fn, a, b, op.ins.imm]
  ELSE IF op.ins.op = "mfhi" THEN HILO.hi
  ELSE IF op.ins.op = "mflo" THEN HILO.lo
  ELSE IF op.ins.op = "jr" THEN Following(op.pc)
  ELSE op.dst_value

\* HI and LO after the execute stage.
HiLoAfter(op, a, b) ==
  IF op.ins.op = "muldiv" THEN Product[op.ins.fn, a, b]
  ELSE IF op.ins.op = "mthi" THEN [HILO EXCEPT !.hi = a]
  ELSE IF op.ins.op = "mtlo" THEN [HILO EXCEPT !.lo = a]
  ELSE HILO

\* Whether the pipeline has to be redirected: jumps know since decode.
Redirects(op, a, b) ==
  \/ op.ins.op = "jr"
  \/ op.ins.op \in {"branch", "brspec"} /\ Taken[op.ins.fn, a, b]
  \/ op.ins.op \in {"j", "jal"} /\ op.taken

\* The op as the execute stage leaves it.
Executed(op, a, b) ==
  [op EXCEPT
    !.val1 = a, !.val2 = b,
    !.dst_value = Value(op, a, b),
    !.mem_addr = IF IsMem(op) THEN Plus(a, op.ins.imm) ELSE @,
    !.mem_value = IF op.ins.op = "store" THEN b ELSE @,
    !.taken = Redirects(op, a, b),
    !.dest = IF op.ins.op = "jr" THEN a ELSE @]

\* pipe_recover
PipeRecover(flush, dest) ==
  branch_recover' = IF branch_recover.flush > 0 THEN branch_recover
                    ELSE [flush |-> flush, dest |-> dest]

\* pipe_stage_execute does its work.
Execute ==
  /\ Calls("execute", "decode")
  /\ mem_op = NoOp /\ execute_op # NoOp
  /\ NeedsHiLo(execute_op) => Ticked(multiplier_stall) = 0
  /\ LET a == Operand(execute_op.src1)
         b == Operand(execute_op.src2)
         op == Executed(execute_op, a, b)
     IN  /\ mem_op' = op
         /\ HILO' = HiLoAfter(op, a, b)
         /\ IF op.taken THEN PipeRecover(3, op.dest) ELSE UNCHANGED branch_recover
  /\ execute_op' = NoOp
  /\ multiplier_stall' = IF execute_op.ins.op = "muldiv" THEN Latency[execute_op.ins.fn]
                         ELSE Ticked(multiplier_stall)
  /\ UNCHANGED <<program, decode_op, wb_op, REGS, PC, memory, instruction_stall, mem_stall,
                 latest, queue, RUN_BIT, aborted>>

-----------------------------------------------------------------------------
(* Decode.                                                                 *)

IsSpecial(i) ==
  i.op \in {"alu", "muldiv", "mfhi", "mflo", "mthi", "mtlo", "jr"}

Src1(i) ==
  IF i.op \in {"j", "jal", "other"} THEN -1 ELSE IF i.op = "syscall" THEN V0 ELSE i.rs

Src2(i) ==
  IF i.op \in {"j", "jal", "imm", "load", "other"} THEN -1
  ELSE IF i.op = "syscall" THEN V1 ELSE i.rt

\* Instructions with a result that decode knows.
Links(i) == i.op = "jal" \/ (i.op = "brspec" /\ i.link)

Dst(i) ==
  IF IsSpecial(i) \/ i.op = "syscall" THEN i.rd
  ELSE IF i.op \in {"imm", "load"} THEN i.rt
  ELSE IF Links(i) THEN Link
  ELSE -1

\* The destination of a jump or branch, but for JR and JALR.
Destination(op) ==
  IF op.ins.op \in {"j", "jal"} THEN op.ins.imm
  ELSE IF op.ins.op \in {"branch", "brspec"} THEN Plus(Following(op.pc), op.ins.imm)
  ELSE op.dest

\* The op as the decode stage leaves it.
Decoded(op) ==
  [op EXCEPT
    !.src1 = Src1(op.ins), !.src2 = Src2(op.ins), !.dst = Dst(op.ins),
    !.dst_value = IF Links(op.ins) THEN Following(op.pc) ELSE @,
    !.taken = op.ins.op \in {"j", "jal"},
    !.dest = Destination(op)]

\* pipe_stage_decode
Decode ==
  /\ Calls("decode", "fetch")
  /\ IF execute_op = NoOp /\ decode_op # NoOp
     THEN execute_op' = Decoded(decode_op) /\ decode_op' = NoOp
     ELSE UNCHANGED <<execute_op, decode_op>>
  /\ UNCHANGED <<program, mem_op, wb_op, REGS, HILO, PC, memory, branch_recover, stalls,
                 latest, queue, RUN_BIT, aborted>>

-----------------------------------------------------------------------------
(* Fetch.                                                                  *)

FetchStall == StallAfter(instruction_stall, "ir", PC)

\* pipe_stage_fetch waits for the decode stage, or is stalled.
FetchWaits ==
  /\ Calls("fetch", "mem_cycle")
  /\ decode_op # NoOp \/ (RUN_BIT /\ FetchStall > 0)
  /\ instruction_stall' = FetchStall
  /\ UNCHANGED <<program, slots, REGS, HILO, PC, memory, branch_recover, multiplier_stall,
                 mem_stall, latest, queue, RUN_BIT, aborted>>

\* pipe_stage_fetch corrects the PC of the last cycle.
FetchStops ==
  /\ Calls("fetch", "mem_cycle")
  /\ decode_op = NoOp /\ ~RUN_BIT
  /\ PC' = Following(PC)
  /\ instruction_stall' = FetchStall
  /\ UNCHANGED <<program, slots, REGS, HILO, memory, branch_recover, multiplier_stall,
                 mem_stall, latest, queue, RUN_BIT, aborted>>

\* pipe_stage_fetch does not find the block in the instruction cache.
FetchMisses ==
  /\ Calls("fetch", "mem_cycle")
  /\ decode_op = NoOp /\ RUN_BIT /\ FetchStall = 0
  /\ MayMiss("ir", PC)
  /\ Transfer("ir", PC, instruction_stall)
  /\ UNCHANGED <<program, slots, REGS, HILO, PC, memory, branch_recover, multiplier_stall,
                 mem_stall, RUN_BIT>>

\* A new op.
Fetched(pc) ==
  [pc |-> pc, ins |-> program[WordOf(pc)], src1 |-> -1, src2 |-> -1, dst |-> -1, val1 |-> 0, val2 |-> 0,
   dst_value |-> 0, mem_addr |-> 0, mem_value |-> 0, taken |-> FALSE, dest |-> 0]

\* pipe_stage_fetch finds the instruction.
Fetch ==
  /\ Calls("fetch", "mem_cycle")
  /\ decode_op = NoOp /\ RUN_BIT /\ FetchStall = 0
  /\ instruction_stall' = 0
  /\ decode_op' = Fetched(PC)
  /\ PC' = Following(PC)
  /\ UNCHANGED <<program, execute_op, mem_op, wb_op, REGS, HILO, memory, branch_recover,
                 multiplier_stall, mem_stall, latest, queue, RUN_BIT, aborted>>

-----------------------------------------------------------------------------
(* The end of the cycle.                                                   *)

\* Mutant: one stage too few is flushed.
KeptTooLong(op, flushed) == IF branch_recover.flush > flushed THEN NoOp ELSE op

\* A slot after a recovery that flushes it if it flushes `flushed' stages or more.
Kept(op, flushed) == IF branch_recover.flush >= flushed THEN NoOp ELSE op

\* The recovery at the end of pipe_cycle.
Recover ==
  /\ Calls("recover", "wb")
  /\ PC' = IF branch_recover.flush > 0 THEN branch_recover.dest ELSE PC
  /\ decode_op' = Kept(decode_op, 2)
  /\ execute_op' = Kept(execute_op, 3)
  /\ mem_op' = Kept(mem_op, 4)
  /\ wb_op' = Kept(wb_op, 5)
  /\ branch_recover' = NoRecovery
  /\ UNCHANGED <<program, REGS, HILO, memory, stalls, latest, queue, RUN_BIT, aborted>>

Next ==
  \/ WriteBack
  \/ MemWaits \/ MemMisses \/ MemPasses
  \/ ExecuteWaits \/ Execute
  \/ Decode
  \/ FetchWaits \/ FetchStops \/ FetchMisses \/ Fetch
  \/ MemCycle
  \/ Recover

Spec == Init /\ [][Next]_vars
=============================================================================
