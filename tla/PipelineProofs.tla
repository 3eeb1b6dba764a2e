--------------------------- MODULE PipelineProofs ----------------------------
(***************************************************************************)
(* Proofs that the pipeline implements Isa, for any program, any functions *)
(* of the units, any latencies and any hits and misses.                    *)
(***************************************************************************)
EXTENDS PipelineRefinement, TLAPS

LEMMA PlusType == \A a, b \in Words : Plus(a, b) \in Words
BY InstructionsAssumption DEF Plus, Words

LEMMA FollowingType == \A a \in Words : Following(a) \in Words
BY InstructionsAssumption DEF Following, Plus, Words

LEMMA UnitTypes ==
  ASSUME NEW fn \in Fns, NEW a \in Words, NEW b \in Words, NEW i \in Words
  PROVE  /\ Result[fn, a, b, i] \in Words
         /\ Product[fn, a, b] \in HiLo
         /\ Taken[fn, a, b] \in BOOLEAN
         /\ Part[fn, a, b] \in Words
         /\ Patched[fn, a, b, i] \in Words
BY InstructionsAssumption

LEMMA WordOfType == \A a \in Words : WordOf(a) \in WordAddresses
BY DEF WordAddresses

\* The words used as values where there is none.
LEMMA ZeroIsWord == 0 \in Words
BY InstructionsAssumption DEF Words

LEMMA InstrFields ==
  ASSUME NEW i \in Instrs
  PROVE  /\ i.op \in Ops /\ i.fn \in Fns /\ i.rs \in Regs /\ i.rt \in Regs /\ i.rd \in Regs
         /\ i.imm \in Words /\ i.link \in BOOLEAN
BY DEF Instrs

LEMMA SourceTypes ==
  ASSUME NEW i \in Instrs
  PROVE  Src1(i) \in OptionalRegs /\ Src2(i) \in OptionalRegs /\ Dst(i) \in OptionalRegs
BY InstrFields, InstructionsAssumption
DEF Src1, Src2, Dst, OptionalRegs, Link, V0, V1, IsSpecial, Links

LEMMA FetchedType ==
  ASSUME program \in [WordAddresses -> Instrs], NEW pc \in Words
  PROVE  Fetched(pc) \in PipeOps
BY ZeroIsWord, WordOfType DEF Fetched, PipeOps, OptionalRegs

LEMMA DecodedType ==
  ASSUME NEW op \in PipeOps
  PROVE  Decoded(op) \in PipeOps
<1>1. op.ins \in Instrs /\ op.pc \in Words
  BY DEF PipeOps
<1>2. /\ Src1(op.ins) \in OptionalRegs /\ Src2(op.ins) \in OptionalRegs
      /\ Dst(op.ins) \in OptionalRegs
  BY <1>1, SourceTypes
<1>3. Following(op.pc) \in Words /\ op.ins.imm \in Words
  BY <1>1, FollowingType, InstrFields
<1>4. Plus(Following(op.pc), op.ins.imm) \in Words
  BY <1>3, PlusType
<1>5. op.dest \in Words /\ op.dst_value \in Words
  BY DEF PipeOps
<1>6. Destination(op) \in Words
  BY <1>3, <1>4, <1>5 DEF Destination
<1>7. (IF Links(op.ins) THEN Following(op.pc) ELSE op.dst_value) \in Words
  BY <1>3, <1>5
<1>8. (op.ins.op \in {"j", "jal"}) \in BOOLEAN
  OBVIOUS
<1> DEFINE dv == IF Links(op.ins) THEN Following(op.pc) ELSE op.dst_value
           tk == op.ins.op \in {"j", "jal"}
<1>9. Decoded(op) = [op EXCEPT !.src1 = Src1(op.ins), !.src2 = Src2(op.ins), !.dst = Dst(op.ins),
                       !.dst_value = dv, !.taken = tk, !.dest = Destination(op)]
  BY DEF Decoded
<1>10. dv \in Words /\ tk \in BOOLEAN
  BY <1>7, <1>8
<1> HIDE DEF dv, tk
<1> QED
  BY <1>2, <1>6, <1>9, <1>10 DEF PipeOps

\* What an op holds when it comes to the execute stage.
LEMMA DecodedFields ==
  ASSUME program \in [WordAddresses -> Instrs], NEW pc \in Words, NEW op, op = Decoded(Fetched(pc))
  PROVE  /\ op.pc = pc /\ op.ins = program[WordOf(pc)] /\ op.ins \in Instrs
         /\ op.src1 = Src1(op.ins) /\ op.src2 = Src2(op.ins) /\ op.dst = Dst(op.ins)
         /\ op.dst_value = IF Links(op.ins) THEN Following(pc) ELSE 0
         /\ op.ins.op \in {"j", "jal"} => op.taken /\ op.dest = op.ins.imm
         /\ op.ins.op \in {"branch", "brspec"} => op.dest = Plus(Following(pc), op.ins.imm)
<1> DEFINE f == Fetched(pc)
<1>1. f.pc = pc /\ f.ins = program[WordOf(pc)] /\ f.ins \in Instrs /\ f.dst_value = 0
  BY WordOfType DEF Fetched
<1>2. f \in PipeOps
  BY FetchedType
<1> HIDE DEF f
<1>3. /\ op.pc = f.pc /\ op.ins = f.ins
      /\ op.src1 = Src1(f.ins) /\ op.src2 = Src2(f.ins) /\ op.dst = Dst(f.ins)
      /\ op.dst_value = IF Links(f.ins) THEN Following(f.pc) ELSE f.dst_value
      /\ op.dest = Destination(f)
  BY <1>2 DEF Decoded, PipeOps, f
<1>4. op.ins.op \in {"j", "jal"} => op.taken
  BY <1>2 DEF Decoded, PipeOps, f
<1>5. f.ins.op \in {"j", "jal"} => Destination(f) = f.ins.imm
  BY DEF Destination
<1>6. f.ins.op \in {"branch", "brspec"} => Destination(f) = Plus(Following(f.pc), f.ins.imm)
  BY DEF Destination
<1> QED
  BY <1>1, <1>3, <1>4, <1>5, <1>6

LEMMA ValueType ==
  ASSUME HILO \in HiLo, NEW op \in PipeOps, NEW a \in Words, NEW b \in Words
  PROVE  Value(op, a, b) \in Words /\ HiLoAfter(op, a, b) \in HiLo
<1>1. op.ins \in Instrs /\ op.pc \in Words /\ op.dst_value \in Words
  BY DEF PipeOps
<1>2. /\ Result[op.ins.fn, a, b, op.ins.imm] \in Words
      /\ Product[op.ins.fn, a, b] \in HiLo
      /\ Following(op.pc) \in Words
  BY <1>1, InstrFields, UnitTypes, FollowingType
<1>3. HILO.hi \in Words /\ HILO.lo \in Words
  BY DEF HiLo
<1>4. [HILO EXCEPT !.hi = a] \in HiLo /\ [HILO EXCEPT !.lo = a] \in HiLo
  BY DEF HiLo
<1> QED
  BY <1>1, <1>2, <1>3, <1>4 DEF Value, HiLoAfter

\* What the execute stage changes in an op.
LEMMA ExecutedFields ==
  ASSUME HILO \in HiLo, NEW op \in PipeOps, NEW a \in Words, NEW b \in Words,
         NEW x, x = Executed(op, a, b)
  PROVE  /\ x \in PipeOps
         /\ x.pc = op.pc /\ x.ins = op.ins /\ x.dst = op.dst
         /\ x.val1 = a /\ x.dst_value = Value(op, a, b)
         /\ IsMem(op) => x.mem_addr = Plus(a, op.ins.imm)
         /\ op.ins.op = "store" => x.mem_value = b
         /\ x.taken = Redirects(op, a, b)
         /\ x.dest = IF op.ins.op = "jr" THEN a ELSE op.dest
<1> DEFINE ma == IF IsMem(op) THEN Plus(a, op.ins.imm) ELSE op.mem_addr
           mv == IF op.ins.op = "store" THEN b ELSE op.mem_value
           de == IF op.ins.op = "jr" THEN a ELSE op.dest
           tk == Redirects(op, a, b)
           dv == Value(op, a, b)
<1>1. x = [op EXCEPT !.val1 = a, !.val2 = b, !.dst_value = dv, !.mem_addr = ma,
             !.mem_value = mv, !.taken = tk, !.dest = de]
  BY DEF Executed
<1>2. op.ins \in Instrs
  BY DEF PipeOps
<1>3. Plus(a, op.ins.imm) \in Words
  BY <1>2, InstrFields, PlusType
<1>4. ma \in Words /\ mv \in Words /\ de \in Words
  BY <1>3 DEF PipeOps
<1>5. tk \in BOOLEAN
  BY DEF Redirects
<1>6. dv \in Words
  BY ValueType
<1> HIDE DEF ma, mv, de, tk, dv
<1>7. x.pc = op.pc /\ x.ins = op.ins /\ x.dst = op.dst
      /\ x.val1 = a /\ x.dst_value = dv /\ x.mem_addr = ma /\ x.mem_value = mv /\ x.dest = de
  BY <1>1 DEF PipeOps
<1>8. x.taken = tk
  BY <1>1, <1>5 DEF PipeOps
<1>9. x \in PipeOps
  <2>1. x = [pc |-> op.pc, ins |-> op.ins, src1 |-> op.src1, src2 |-> op.src2, dst |-> op.dst,
             val1 |-> a, val2 |-> b, dst_value |-> dv, mem_addr |-> ma, mem_value |-> mv,
             taken |-> tk, dest |-> de]
    BY <1>1 DEF PipeOps
  <2>2. /\ op.pc \in Words /\ op.ins \in Instrs /\ op.src1 \in OptionalRegs
        /\ op.src2 \in OptionalRegs /\ op.dst \in OptionalRegs
    BY DEF PipeOps
  <2> QED
    BY ONLY <2>1, <2>2, <1>4, <1>5, <1>6, a \in Words, b \in Words DEF PipeOps
<1> QED
  BY <1>7, <1>8, <1>9 DEF ma, mv, de, tk, dv

-----------------------------------------------------------------------------
(* The inductive invariant.                                                *)

LEMMA BlockOfType ==
  \A c \in {"ir", "d"}, a \in Words : BlockOf(c, a) \in Blocks
BY WordOfType DEF BlockOf, Blocks

LEMMA StallType ==
  \A n \in Nat : \A c, a : Ticked(n) \in Nat /\ StallAfter(n, c, a) \in Nat
BY DEF Ticked, StallAfter

LEMMA WrittenType ==
  ASSUME NEW registers \in [Regs -> Words], NEW op \in PipeOps \cup {NoOp}
  PROVE  Written(registers, op) \in [Regs -> Words]
<1>1. CASE op = NoOp \/ op.dst \in {-1, 0}
  BY <1>1 DEF Written
<1>2. CASE op # NoOp /\ op.dst \notin {-1, 0}
  <2>1. op.dst \in Regs /\ op.dst # 0 /\ op.dst_value \in Words
    BY <1>2 DEF PipeOps, OptionalRegs
  <2>2. Written(registers, op) = [registers EXCEPT ![op.dst] = op.dst_value]
    BY <1>2 DEF Written
  <2> QED
    BY <2>1, <2>2
<1> QED
  BY <1>1, <1>2

LEMMA LoadedFields ==
  ASSUME memory \in [WordAddresses -> Words], NEW op \in PipeOps
  PROVE  /\ Loaded(op) \in PipeOps
         /\ Loaded(op).ins = op.ins /\ Loaded(op).dst = op.dst /\ Loaded(op).pc = op.pc
         /\ Loaded(op).val1 = op.val1
<1>1. op.mem_addr \in Words /\ op.ins.fn \in Fns
  BY InstrFields DEF PipeOps
<1>2. Part[op.ins.fn, memory[WordOf(op.mem_addr)], op.mem_addr] \in Words
  BY <1>1, WordOfType, UnitTypes
<1> QED
  BY <1>2 DEF Loaded, PipeOps

LEMMA StoredType ==
  ASSUME memory \in [WordAddresses -> Words], NEW op \in PipeOps \cup {NoOp}
  PROVE  Stored(op) \in [WordAddresses -> Words]
<1>1. CASE op = NoOp
  BY <1>1 DEF Stored
<1>2. CASE op \in PipeOps
  <2>1. op.mem_addr \in Words /\ op.mem_value \in Words /\ op.ins.fn \in Fns
    BY <1>2, InstrFields DEF PipeOps
  <2>2. Patched[op.ins.fn, memory[WordOf(op.mem_addr)], op.mem_value, op.mem_addr] \in Words
    BY <2>1, WordOfType, UnitTypes
  <2> QED
    BY <2>2 DEF Stored
<1> QED
  BY <1>1, <1>2

LEMMA OperandType ==
  ASSUME TypeOK, NEW r \in OptionalRegs
  PROVE  Operand(r) \in Words
BY ZeroIsWord DEF Operand, TypeOK, OptionalRegs, PipeOps

LEMMA InitInvariant == Init => IndInv
<1> SUFFICES ASSUME Init PROVE IndInv
  OBVIOUS
<1>1. TypeOK
  <2>1. program \in [WordAddresses -> Instrs] /\ REGS \in [Regs -> Words]
    BY PipelineAssumption DEF Init
  <2>2. {decode_op, execute_op, mem_op, wb_op} \subseteq PipeOps \cup {NoOp}
    BY DEF Init
  <2>3. HILO \in HiLo /\ PC \in Words /\ memory \in [WordAddresses -> Words]
    BY PipelineAssumption, ZeroIsWord DEF Init
  <2>4. branch_recover \in [flush : {0, 3}, dest : Words]
    BY ZeroIsWord DEF Init, NoRecovery
  <2>5. {multiplier_stall, instruction_stall, mem_stall} \subseteq Nat
    BY DEF Init
  <2>6. latest \in [{"ir", "d"} -> Blocks \cup {NoBlock}] /\ queue \in [Blocks -> 0 .. BlockWords]
    BY PipelineAssumption DEF Init
  <2> QED
    BY <2>1, <2>2, <2>3, <2>4, <2>5, <2>6 DEF Init, TypeOK
<1>2. InOrder /\ OpsInStage /\ SlotsFree
  BY PipelineAssumption DEF Init, InOrder, OpsInStage, SlotsFree, NoRecovery
<1> QED
  BY <1>1, <1>2 DEF IndInv

\* What the invariant says of all but the stalls, the caches and the queue.
Core == <<program, slots, REGS, HILO, PC, memory, branch_recover, RUN_BIT>>

\* A transfer keeps the types.
LEMMA TransferType ==
  ASSUME TypeOK, NEW c \in {"ir", "d"}, NEW a \in Words,
         Transfer(c, a, mem_stall) \/ Transfer(c, a, instruction_stall)
  PROVE  /\ latest' \in [{"ir", "d"} -> Blocks \cup {NoBlock}]
         /\ queue' \in [Blocks -> 0 .. BlockWords]
         /\ aborted' \in BOOLEAN
<1>1. BlockOf(c, a) \in Blocks
  BY BlockOfType
<1>2. BlockWords \in 0 .. BlockWords
  BY PipelineAssumption
<1>3. latest' = [latest EXCEPT ![c] = BlockOf(c, a)]
  BY DEF Transfer
<1>4. queue' = queue \/ queue' = [queue EXCEPT ![BlockOf(c, a)] = BlockWords]
  BY DEF Transfer, Request
<1>5. aborted' = aborted \/ aborted' = TRUE
  BY DEF Transfer, Request
<1>6. latest' \in [{"ir", "d"} -> Blocks \cup {NoBlock}]
  BY <1>1, <1>3 DEF TypeOK
<1>7. queue' \in [Blocks -> 0 .. BlockWords]
  BY <1>1, <1>2, <1>4 DEF TypeOK
<1>8. aborted' \in BOOLEAN
  <2>1. aborted \in BOOLEAN
    BY DEF TypeOK
  <2> QED
    BY <1>5, <2>1, Zenon
<1> QED
  BY <1>6, <1>7, <1>8

LEMMA DataTransferStall ==
  ASSUME TypeOK, NEW a, Transfer("d", a, mem_stall)
  PROVE  mem_stall' \in Nat
BY PipelineAssumption DEF Transfer

LEMMA InstructionTransferStall ==
  ASSUME TypeOK, NEW a, Transfer("ir", a, instruction_stall)
  PROVE  instruction_stall' \in Nat
BY PipelineAssumption DEF Transfer

\* Steps in which no op moves.
LEMMA WaitingSteps ==
  ASSUME IndInv,
         MemWaits \/ MemMisses \/ ExecuteWaits \/ FetchWaits \/ FetchMisses \/ MemCycle
  PROVE  IndInv' /\ UNCHANGED Core
<1> USE DEF IndInv
<1>1. CASE MemWaits
  <2>1. MemStall \in Nat
    BY StallType DEF MemStall, TypeOK
  <2>2. TypeOK'
    BY <1>1, <2>1 DEF MemWaits, Calls, TypeOK, slots
  <2> QED
    BY <1>1, <2>2 DEF MemWaits, Calls, Core, slots, InOrder, OpsInStage, SlotsFree, Ended, Fetched
<1>2. CASE MemMisses
  <2>1. mem_op.mem_addr \in Words
    BY <1>2 DEF MemMisses, TypeOK, PipeOps
  <2>2. TypeOK'
    BY <1>2, <2>1, TransferType, DataTransferStall DEF MemMisses, Calls, TypeOK, slots
  <2> QED
    BY <1>2, <2>2 DEF MemMisses, Calls, Core, slots, InOrder, OpsInStage, SlotsFree, Ended, Fetched
<1>3. CASE ExecuteWaits
  <2>1. TypeOK'
    BY <1>3, StallType DEF ExecuteWaits, Calls, TypeOK, slots
  <2> QED
    BY <1>3, <2>1 DEF ExecuteWaits, Calls, Core, slots, InOrder, OpsInStage, SlotsFree, Ended, Fetched
<1>4. CASE FetchWaits
  <2>1. FetchStall \in Nat
    BY StallType DEF FetchStall, TypeOK
  <2>2. TypeOK'
    BY <1>4, <2>1 DEF FetchWaits, Calls, TypeOK, slots
  <2> QED
    BY <1>4, <2>2 DEF FetchWaits, Calls, Core, slots, InOrder, OpsInStage, SlotsFree, Ended, Fetched
<1>5. CASE FetchMisses
  <2>1. PC \in Words
    BY DEF TypeOK
  <2>2. TypeOK'
    BY <1>5, <2>1, TransferType, InstructionTransferStall DEF FetchMisses, Calls, TypeOK, slots
  <2> QED
    BY <1>5, <2>2 DEF FetchMisses, Calls, Core, slots, InOrder, OpsInStage, SlotsFree, Ended, Fetched
<1>6. CASE MemCycle
  <2>1. queue' \in [Blocks -> 0 .. BlockWords]
    <3>1. CASE \E b \in Blocks : Serve(b)
      <4>1. PICK b \in Blocks : Serve(b)
        BY <3>1
      <4>2. queue[b] - 1 \in 0 .. BlockWords
        BY <4>1, PipelineAssumption DEF Serve, TypeOK
      <4> QED
        BY <4>1, <4>2 DEF Serve, TypeOK
    <3> QED
      BY <1>6, <3>1 DEF MemCycle, TypeOK
  <2>2. TypeOK'
    BY <1>6, <2>1 DEF MemCycle, Calls, TypeOK, slots, stalls
  <2> QED
    BY <1>6, <2>2 DEF MemCycle, Calls, Core, slots, InOrder, OpsInStage, SlotsFree, Ended, Fetched
<1> QED
  BY <1>1, <1>2, <1>3, <1>4, <1>5, <1>6

LEMMA WriteBackInvariant ==
  ASSUME IndInv, WriteBack
  PROVE  IndInv'
<1> USE DEF IndInv
<1>1. /\ stage = "wb" /\ stage' = "mem" /\ RUN_BIT /\ wb_op' = NoOp
      /\ REGS' = Written(REGS, wb_op) /\ RUN_BIT' = ~Exits(wb_op)
      /\ PC' = IF Exits(wb_op) THEN wb_op.pc ELSE PC
      /\ UNCHANGED <<program, decode_op, execute_op, mem_op, HILO, memory, branch_recover, aborted>>
      /\ UNCHANGED <<multiplier_stall, instruction_stall, mem_stall, latest, queue>>
  BY DEF WriteBack, Calls, stalls
<1>2. REGS' \in [Regs -> Words]
  BY <1>1, WrittenType DEF TypeOK
<1>3. PC' \in Words
  BY <1>1 DEF TypeOK, Exits, PipeOps
<1>4. RUN_BIT' \in BOOLEAN
  BY <1>1 DEF Exits
<1>5. TypeOK'
  BY <1>1, <1>2, <1>3, <1>4 DEF TypeOK
<1>6. InOrder'
  BY <1>1 DEF InOrder, Ended, Exits
<1>7. OpsInStage'
  BY <1>1 DEF OpsInStage, Fetched
<1>8. SlotsFree'
  BY <1>1, <1>2 DEF SlotsFree
<1> QED
  BY <1>5, <1>6, <1>7, <1>8

LEMMA MemPassesInvariant ==
  ASSUME IndInv, MemPasses
  PROVE  IndInv'
<1> USE DEF IndInv
<1>1. /\ stage = "mem" /\ stage' = "execute" /\ mem_op # NoOp /\ mem_op' = NoOp
      /\ mem_stall' = 0 /\ memory' = Stored(mem_op) /\ wb_op' = Loaded(mem_op)
      /\ UNCHANGED <<program, decode_op, execute_op, REGS, HILO, PC, branch_recover, RUN_BIT>>
      /\ UNCHANGED <<multiplier_stall, instruction_stall, latest, queue, aborted>>
  BY DEF MemPasses, Calls
<1>2. mem_op \in PipeOps
  BY <1>1 DEF TypeOK
<1>3. wb_op' \in PipeOps /\ wb_op'.ins = mem_op.ins /\ wb_op'.dst = mem_op.dst /\ wb_op'.val1 = mem_op.val1
  BY <1>1, <1>2, LoadedFields DEF TypeOK
<1>4. memory' \in [WordAddresses -> Words]
  BY <1>1, <1>2, StoredType DEF TypeOK
<1>5. wb_op' # NoOp
  BY <1>3, PipelineAssumption
<1>6. TypeOK'
  BY <1>1, <1>3, <1>4 DEF TypeOK
<1>7. InOrder'
  <2>1. Exits(mem_op) => Exits(wb_op')
    BY <1>3, <1>5 DEF Exits
  <2>2. Ended => Ended'
    BY <1>1, <2>1 DEF Ended, Exits, SlotsFree
  <2> QED
    BY <1>1, <2>2 DEF InOrder
<1>8. OpsInStage'
  BY <1>1, <1>3 DEF OpsInStage, Fetched
<1>9. SlotsFree'
  BY <1>1 DEF SlotsFree
<1> QED
  BY <1>6, <1>7, <1>8, <1>9

\* The op in the execute stage and its operands.
LEMMA ExecuteOperands ==
  ASSUME IndInv, Execute
  PROVE  /\ execute_op \in PipeOps
         /\ execute_op = Decoded(Fetched(execute_op.pc)) /\ execute_op.pc \in Words
         /\ Operand(execute_op.src1) \in Words /\ Operand(execute_op.src2) \in Words
<1>1. execute_op \in PipeOps
  BY DEF Execute, IndInv, TypeOK
<1>2. execute_op.src1 \in OptionalRegs /\ execute_op.src2 \in OptionalRegs /\ execute_op.pc \in Words
  BY <1>1 DEF PipeOps
<1> QED
  BY <1>1, <1>2, OperandType DEF IndInv, Execute, OpsInStage

LEMMA ExecuteInvariant ==
  ASSUME IndInv, Execute
  PROVE  IndInv'
<1> USE DEF IndInv
<1> DEFINE a == Operand(execute_op.src1)
           b == Operand(execute_op.src2)
<1>1. /\ stage = "execute" /\ stage' = "decode" /\ mem_op = NoOp /\ execute_op # NoOp
      /\ mem_op' = Executed(execute_op, a, b) /\ execute_op' = NoOp
      /\ HILO' = HiLoAfter(mem_op', a, b)
      /\ mem_op'.taken => PipeRecover(3, mem_op'.dest)
      /\ ~mem_op'.taken => branch_recover' = branch_recover
      /\ multiplier_stall' = IF execute_op.ins.op = "muldiv" THEN Latency[execute_op.ins.fn]
                             ELSE Ticked(multiplier_stall)
      /\ UNCHANGED <<program, decode_op, wb_op, REGS, PC, memory, RUN_BIT>>
      /\ UNCHANGED <<instruction_stall, mem_stall, latest, queue, aborted>>
  BY DEF Execute, Calls
<1>2. /\ execute_op \in PipeOps /\ a \in Words /\ b \in Words
  BY ExecuteOperands
<1> HIDE DEF a, b
<1>3. mem_op' \in PipeOps /\ mem_op'.ins = execute_op.ins /\ mem_op'.dst = execute_op.dst
  <2>1. HILO \in HiLo
    BY DEF TypeOK
  <2>2. mem_op' = Executed(execute_op, a, b)
    BY <1>1
  <2> QED
    BY <1>2, <2>1, <2>2, ExecutedFields
<1>4. HILO' \in HiLo
  BY <1>1, <1>2, <1>3, ValueType DEF TypeOK
<1>5. branch_recover.flush = 0
  BY <1>1 DEF SlotsFree, TypeOK
<1>6. branch_recover' \in [flush : {0, 3}, dest : Words] /\ (branch_recover'.flush = 0 => branch_recover' = branch_recover)
  BY <1>1, <1>3, <1>5 DEF PipeRecover, TypeOK, PipeOps
<1>7. multiplier_stall' \in Nat
  <2>1. execute_op.ins \in Instrs
    BY <1>2 DEF PipeOps
  <2>2. Latency[execute_op.ins.fn] \in Nat
    BY <2>1, InstrFields, PipelineAssumption
  <2> QED
    BY <1>1, <2>2, StallType DEF TypeOK
<1>8. TypeOK'
  BY <1>1, <1>3, <1>4, <1>6, <1>7 DEF TypeOK
<1>9. InOrder'
  <2>1. Ended => Ended'
    BY <1>1 DEF Ended, Exits
  <2> QED
    BY <1>1, <1>6, <2>1 DEF InOrder
<1>10. OpsInStage'
  <2>1. execute_op.dst = Dst(execute_op.ins)
    BY ExecuteOperands, DecodedFields DEF TypeOK
  <2> QED
    BY <1>1, <1>3, <2>1 DEF OpsInStage, Fetched
<1>11. SlotsFree'
  BY <1>1, <1>6 DEF SlotsFree
<1> QED
  BY <1>8, <1>9, <1>10, <1>11

LEMMA DecodeInvariant ==
  ASSUME IndInv, Decode
  PROVE  IndInv'
<1> USE DEF IndInv
<1>1. /\ stage = "decode" /\ stage' = "fetch"
      /\ UNCHANGED <<program, mem_op, wb_op, REGS, HILO, PC, memory, branch_recover, RUN_BIT>>
      /\ UNCHANGED <<multiplier_stall, instruction_stall, mem_stall, latest, queue, aborted>>
  BY DEF Decode, Calls, stalls
<1>2. CASE execute_op = NoOp /\ decode_op # NoOp
  <2>1. execute_op' = Decoded(decode_op) /\ decode_op' = NoOp
    BY <1>2 DEF Decode
  <2>2. decode_op \in PipeOps /\ decode_op = Fetched(decode_op.pc) /\ decode_op.pc \in Words
    BY <1>2 DEF TypeOK, OpsInStage, PipeOps
  <2>3. execute_op' \in PipeOps
    BY <2>1, <2>2, DecodedType
  <2>4. execute_op'.pc = decode_op.pc
    BY <2>1, <2>2, DecodedFields DEF TypeOK
  <2>5. TypeOK'
    BY <1>1, <2>1, <2>3 DEF TypeOK
  <2>6. InOrder'
    BY <1>1, <1>2, <2>1, <2>4 DEF InOrder, Ended, Exits
  <2>7. OpsInStage'
    <3>1. execute_op' = Decoded(Fetched(decode_op.pc))
      BY <2>1, <2>2
    <3>2. Decoded(Fetched(execute_op.pc))' = Decoded(Fetched(decode_op.pc))
      BY <1>1, <2>4 DEF Fetched, Decoded, Destination
    <3> QED
      BY <1>1, <2>1, <3>1, <3>2 DEF OpsInStage
  <2>8. SlotsFree'
    BY <1>1 DEF SlotsFree
  <2> QED
    BY <2>5, <2>6, <2>7, <2>8
<1>3. CASE ~(execute_op = NoOp /\ decode_op # NoOp)
  <2>1. UNCHANGED <<execute_op, decode_op>>
    BY <1>3 DEF Decode
  <2> QED
    BY <1>1, <2>1 DEF TypeOK, InOrder, OpsInStage, SlotsFree, Ended, Exits, Fetched, Decoded, Destination
<1> QED
  BY <1>2, <1>3

LEMMA FetchStopsInvariant ==
  ASSUME IndInv, FetchStops
  PROVE  IndInv'
<1> USE DEF IndInv
<1>1. FetchStall \in Nat
  BY StallType DEF FetchStall, TypeOK
<1>2. PC' \in Words
  BY FollowingType DEF FetchStops, TypeOK
<1>3. TypeOK'
  BY <1>1, <1>2 DEF FetchStops, Calls, TypeOK, slots
<1> QED
  BY <1>3 DEF FetchStops, Calls, slots, InOrder, OpsInStage, SlotsFree, Ended, Fetched

LEMMA FetchInvariant ==
  ASSUME IndInv, Fetch
  PROVE  IndInv'
<1> USE DEF IndInv
<1>1. /\ stage = "fetch" /\ stage' = "mem_cycle" /\ decode_op = NoOp
      /\ instruction_stall' = 0 /\ decode_op' = Fetched(PC) /\ PC' = Following(PC)
      /\ UNCHANGED <<program, execute_op, mem_op, wb_op, REGS, HILO, memory, branch_recover, RUN_BIT>>
      /\ UNCHANGED <<multiplier_stall, mem_stall, latest, queue, aborted>>
  BY DEF Fetch, Calls
<1>2. PC \in Words /\ PC' \in Words
  BY <1>1, FollowingType DEF TypeOK
<1>3. decode_op' \in PipeOps /\ decode_op'.pc = PC
  <2>1. decode_op' \in PipeOps
    BY <1>1, <1>2, FetchedType DEF TypeOK
  <2>2. Fetched(PC).pc = PC
    BY DEF Fetched
  <2> QED
    BY <1>1, <2>1, <2>2
<1>4. decode_op' # NoOp
  BY <1>3, PipelineAssumption
<1>5. TypeOK'
  BY <1>1, <1>2, <1>3 DEF TypeOK
<1>6. InOrder'
  BY <1>1, <1>3, <1>4 DEF InOrder, Ended, Exits
<1>7. OpsInStage'
  BY <1>1, <1>3 DEF OpsInStage, Fetched, Decoded, Destination
<1>8. SlotsFree'
  BY <1>1 DEF SlotsFree
<1> QED
  BY <1>5, <1>6, <1>7, <1>8

LEMMA RecoverInvariant ==
  ASSUME IndInv, Recover
  PROVE  /\ IndInv'
         /\ mem_op' = mem_op /\ wb_op' = wb_op
<1> USE DEF IndInv
<1>1. /\ stage = "recover" /\ stage' = "wb" /\ branch_recover' = NoRecovery
      /\ PC' = IF branch_recover.flush > 0 THEN branch_recover.dest ELSE PC
      /\ UNCHANGED <<program, REGS, HILO, memory, RUN_BIT>>
      /\ UNCHANGED <<multiplier_stall, instruction_stall, mem_stall, latest, queue, aborted>>
  BY DEF Recover, Calls, stalls
<1>2. branch_recover.flush \in {0, 3} /\ branch_recover.dest \in Words
  BY DEF TypeOK
<1>3. mem_op' = mem_op /\ wb_op' = wb_op
  BY <1>2 DEF Recover, Kept
<1>4. IF branch_recover.flush = 3 THEN decode_op' = NoOp /\ execute_op' = NoOp
      ELSE decode_op' = decode_op /\ execute_op' = execute_op
  BY <1>2 DEF Recover, Kept
<1>5. branch_recover' \in [flush : {0, 3}, dest : Words] /\ branch_recover'.flush = 0
  BY <1>1, ZeroIsWord DEF NoRecovery
<1>6. TypeOK'
  BY <1>1, <1>2, <1>3, <1>4, <1>5 DEF TypeOK
<1>7. InOrder'
  BY <1>1, <1>2, <1>3, <1>4 DEF InOrder, Ended, Exits
<1>8. OpsInStage'
  <2>1. \A op \in {mem_op, wb_op} : op # NoOp => op.dst = Dst(op.ins)
    BY DEF OpsInStage
  <2>2. /\ decode_op' # NoOp => decode_op' = Fetched(decode_op'.pc)
        /\ execute_op' # NoOp => execute_op' = Decoded(Fetched(execute_op'.pc))
    BY <1>4 DEF OpsInStage
  <2> QED
    BY <2>1, <2>2, <1>1, <1>3 DEF OpsInStage, Fetched, Decoded, Destination
<1>9. SlotsFree'
  BY <1>1, <1>3, <1>5 DEF SlotsFree
<1> QED
  BY <1>3, <1>6, <1>7, <1>8, <1>9

LEMMA NextInvariant == IndInv /\ [Next]_vars => IndInv'
<1> SUFFICES ASSUME IndInv, [Next]_vars PROVE IndInv'
  OBVIOUS
<1>1. CASE UNCHANGED vars
  BY <1>1 DEF vars, slots, stalls, IndInv, TypeOK, InOrder, OpsInStage, SlotsFree, Ended, Exits,
     Fetched, Decoded, Destination
<1> QED
  BY <1>1, WaitingSteps, WriteBackInvariant, MemPassesInvariant, ExecuteInvariant, DecodeInvariant,
     FetchStopsInvariant, FetchInvariant, RecoverInvariant DEF Next

\* The slots hold consecutive instructions as the stages before left them, and an op
\* is never put into a slot that is taken.
THEOREM InvariantHolds == Spec => []IndInv
BY InitInvariant, NextInvariant, PTL DEF Spec

\* The state stays well-typed whatever the program and the units.
THEOREM PipelineTyped == Spec => []TypeOK
BY InvariantHolds, PTL DEF IndInv

-----------------------------------------------------------------------------
(* The refinement.                                                         *)

LEMMA InitRefines == Init => Machine!Init
<1> SUFFICES ASSUME Init PROVE Machine!Init
  OBVIOUS
<1>1. RegsView = REGS /\ MemoryView = memory
  BY DEF Init, RegsView, MemoryView, Written, Stored
<1>2. NextView = 0
  BY DEF Init, NextView, Ended, Exits, NextPC, NoRecovery
<1> QED
  BY <1>1, <1>2 DEF Init, Machine!Init

\* Steps in which no op moves change nothing that Isa sees.
LEMMA CoreStutters == UNCHANGED Core => UNCHANGED Machine!vars
BY DEF Core, slots, Machine!vars, NextView, Ended, Exits, NextPC, RegsView, MemOpCounts, Written,
       Loaded, MemoryView, Stored

LEMMA WriteBackStutters ==
  ASSUME IndInv, WriteBack
  PROVE  UNCHANGED Machine!vars
<1>1. /\ RUN_BIT /\ wb_op' = NoOp /\ REGS' = Written(REGS, wb_op) /\ RUN_BIT' = ~Exits(wb_op)
      /\ PC' = IF Exits(wb_op) THEN wb_op.pc ELSE PC
      /\ UNCHANGED <<program, decode_op, execute_op, mem_op, HILO, memory, branch_recover>>
  BY DEF WriteBack
<1>2. ~Exits(wb_op)'
  BY <1>1 DEF Exits
<1>3. Exits(mem_op)' = Exits(mem_op)
  BY <1>1 DEF Exits
<1>4. NextView' = NextView
  BY <1>1, <1>2, <1>3 DEF NextView, Ended, NextPC
<1>5. RegsView' = RegsView
  <2>1. Loaded(mem_op)' = Loaded(mem_op)
    BY <1>1 DEF Loaded
  <2> QED
    BY <1>1, <1>2, <2>1 DEF RegsView, MemOpCounts, Written
<1>6. MemoryView' = MemoryView
  BY <1>1, <1>2 DEF MemoryView, MemOpCounts, Stored
<1> QED
  BY <1>1, <1>4, <1>5, <1>6 DEF Machine!vars

\* The memory stage does what Isa has done already, unless the program has ended.
LEMMA MemPassesRefines ==
  ASSUME IndInv, MemPasses
  PROVE  [Machine!Next]_(Machine!vars)
<1>1. /\ wb_op = NoOp /\ mem_op # NoOp /\ mem_op' = NoOp
      /\ memory' = Stored(mem_op) /\ wb_op' = Loaded(mem_op)
      /\ UNCHANGED <<program, decode_op, execute_op, REGS, HILO, PC, branch_recover, RUN_BIT>>
  BY DEF MemPasses, Calls, IndInv, SlotsFree
<1>2. mem_op \in PipeOps
  BY <1>1 DEF IndInv, TypeOK
<1>3. wb_op' \in PipeOps /\ wb_op'.ins = mem_op.ins /\ wb_op'.val1 = mem_op.val1
  BY <1>1, <1>2, LoadedFields DEF IndInv, TypeOK
<1>4. wb_op' # NoOp
  BY <1>3, PipelineAssumption
<1>5. Exits(wb_op)' = Exits(mem_op) /\ ~Exits(wb_op) /\ ~Exits(mem_op)'
  BY <1>1, <1>3, <1>4 DEF Exits
<1>6. NextView' = NextView
  BY <1>1, <1>5 DEF NextView, Ended, NextPC
<1>7. CASE RUN_BIT
  <2>1. RegsView = Written(REGS, Loaded(mem_op))
    BY <1>1, <1>5, <1>7 DEF RegsView, MemOpCounts, Written
  <2>2. RegsView' = Written(REGS, wb_op)'
    BY <1>1, <1>5, <1>7 DEF RegsView
  <2>3. RegsView' = RegsView
    BY <1>1, <2>1, <2>2 DEF Written
  <2>4. MemoryView = Stored(mem_op)
    BY <1>5, <1>7 DEF MemoryView, MemOpCounts
  <2>5. MemoryView' = memory'
    BY <1>1 DEF MemoryView, Stored
  <2> QED
    BY <1>1, <1>6, <2>3, <2>4, <2>5 DEF Machine!vars
<1>8. CASE ~RUN_BIT
  <2>1. RegsView' = RegsView /\ MemoryView = memory /\ MemoryView' = memory'
    BY <1>1, <1>8 DEF RegsView, MemoryView, MemOpCounts
  <2>2. NextView = Halted
    BY <1>8 DEF NextView, Ended
  <2>3. CASE mem_op.ins.op = "store"
    <3> DEFINE x == WordOf(mem_op.mem_addr)
               v == Patched[mem_op.ins.fn, memory[x], mem_op.mem_value, mem_op.mem_addr]
    <3>1. x \in WordAddresses /\ v \in Words
      <4>1. mem_op.mem_addr \in Words /\ mem_op.mem_value \in Words /\ mem_op.ins.fn \in Fns
        BY <1>2, InstrFields DEF PipeOps
      <4>2. memory[x] \in Words
        BY <4>1, WordOfType DEF IndInv, TypeOK
      <4> QED
        BY <4>1, <4>2, WordOfType, UnitTypes
    <3>2. memory' = [memory EXCEPT ![x] = v]
      BY <1>1, <2>3 DEF Stored
    <3> HIDE DEF x, v
    <3>3. \E y \in WordAddresses, u \in Words : MemoryView' = [MemoryView EXCEPT ![y] = u]
      BY <2>1, <3>1, <3>2
    <3>4. Machine!Trace
      BY <1>1, <1>6, <2>1, <2>2, <3>3
      DEF Machine!Trace, Machine!Halted, Halted, Machine!Words, Words,
          Machine!WordAddresses, WordAddresses, Machine!WordOf, WordOf
    <3> QED
      BY <3>4 DEF Machine!Next
  <2>4. CASE mem_op.ins.op # "store"
    BY <1>1, <1>6, <2>1, <2>4 DEF Stored, Machine!vars
  <2> QED
    BY <2>3, <2>4
<1> QED
  BY <1>7, <1>8

LEMMA DecodeStutters ==
  ASSUME IndInv, Decode
  PROVE  UNCHANGED Machine!vars
<1>1. UNCHANGED <<program, mem_op, wb_op, REGS, HILO, PC, memory, branch_recover, RUN_BIT>>
  BY DEF Decode
<1>2. NextPC' = NextPC
  <2>1. CASE execute_op = NoOp /\ decode_op # NoOp
    <3>1. execute_op' = Decoded(decode_op) /\ decode_op' = NoOp
      BY <2>1 DEF Decode
    <3>2. decode_op \in PipeOps
      BY <2>1 DEF IndInv, TypeOK
    <3>3. execute_op' # NoOp
      BY <3>1, <3>2, DecodedType, PipelineAssumption
    <3>4. execute_op'.pc = decode_op.pc
      BY <3>1, <3>2 DEF Decoded, PipeOps
    <3> QED
      BY <1>1, <2>1, <3>1, <3>3, <3>4 DEF NextPC
  <2>2. CASE ~(execute_op = NoOp /\ decode_op # NoOp)
    BY <1>1, <2>2 DEF Decode, NextPC
  <2> QED
    BY <2>1, <2>2
<1> QED
  BY <1>1, <1>2 DEF Machine!vars, NextView, Ended, Exits, RegsView, MemOpCounts, Written,
     Loaded, MemoryView, Stored

LEMMA FetchStutters ==
  ASSUME IndInv, Fetch \/ FetchStops
  PROVE  UNCHANGED Machine!vars
<1>1. UNCHANGED <<program, execute_op, mem_op, wb_op, REGS, HILO, memory, branch_recover, RUN_BIT>>
  BY DEF Fetch, FetchStops, slots
<1>2. NextView' = NextView
  <2>1. CASE Fetch
    <3>1. decode_op = NoOp /\ decode_op' = Fetched(PC)
      BY <2>1 DEF Fetch
    <3>2. decode_op' \in PipeOps
      BY <3>1, FetchedType DEF IndInv, TypeOK
    <3>3. decode_op' # NoOp /\ decode_op'.pc = PC
      BY <3>1, <3>2, PipelineAssumption DEF Fetched
    <3>4. branch_recover.flush > 0 \/ execute_op # NoOp \/ NextPC = PC
      BY <3>1 DEF NextPC
    <3>5. NextPC' = NextPC
      BY <1>1, <3>1, <3>3 DEF NextPC
    <3> QED
      BY <1>1, <3>5 DEF NextView, Ended, Exits
  <2>2. CASE FetchStops
    BY <1>1, <2>2 DEF FetchStops, NextView, Ended
  <2> QED
    BY <2>1, <2>2
<1> QED
  BY <1>1, <1>2 DEF Machine!vars, RegsView, MemOpCounts, Exits, Written, Loaded, MemoryView, Stored

LEMMA RecoverStutters ==
  ASSUME IndInv, Recover
  PROVE  UNCHANGED Machine!vars
<1>1. /\ UNCHANGED <<program, REGS, HILO, memory, RUN_BIT>>
      /\ branch_recover'.flush = 0
      /\ PC' = IF branch_recover.flush > 0 THEN branch_recover.dest ELSE PC
  BY DEF Recover, NoRecovery
<1>2. mem_op' = mem_op /\ wb_op' = wb_op
  BY RecoverInvariant
<1>3. branch_recover.flush \in {0, 3}
  BY DEF IndInv, TypeOK
<1>4. IF branch_recover.flush = 3 THEN decode_op' = NoOp /\ execute_op' = NoOp
      ELSE decode_op' = decode_op /\ execute_op' = execute_op
  BY <1>3 DEF Recover, Kept
<1>5. NextPC' = NextPC
  BY <1>1, <1>3, <1>4 DEF NextPC
<1> QED
  BY <1>1, <1>2, <1>5 DEF Machine!vars, NextView, Ended, Exits, RegsView, MemOpCounts, Written,
     Loaded, MemoryView, Stored

\* The execute stage after the end of the program.
LEMMA ExecuteBehindExit ==
  ASSUME IndInv, Execute, Ended
  PROVE  [Machine!Next]_(Machine!vars)
<1>1. mem_op = NoOp /\ UNCHANGED <<program, wb_op, REGS, memory, RUN_BIT>>
  BY DEF Execute
<1>2. ~RUN_BIT \/ Exits(wb_op)
  BY <1>1 DEF Ended, Exits
<1>3. Exits(wb_op)' = Exits(wb_op)
  BY <1>1 DEF Exits
<1>4. NextView = Halted /\ NextView' = Halted
  BY <1>1, <1>2, <1>3 DEF NextView, Ended
<1>5. RegsView' = RegsView
  BY <1>1, <1>2, <1>3 DEF RegsView, MemOpCounts, Written
<1>6. MemoryView' = MemoryView
  BY <1>1, <1>2, <1>3 DEF MemoryView, MemOpCounts, Stored
<1>7. HILO' \in HiLo
  BY ExecuteInvariant DEF IndInv, TypeOK
<1>8. Machine!Trace
  BY <1>1, <1>4, <1>5, <1>6, <1>7
  DEF Machine!Trace, Machine!Halted, Halted, Machine!HiLo, HiLo, Machine!Words, Words
<1> QED
  BY <1>8 DEF Machine!Next

\* The operands are the registers as Isa has them: what the older ops write is in the
\* register file or in the write-back slot.
LEMMA OperandView ==
  ASSUME IndInv, mem_op = NoOp, ~Ended, NEW r \in Regs
  PROVE  Operand(r) = Machine!Read(r)
<1> USE DEF Machine!Read
<1>1. RegsView = Written(REGS, wb_op)
  BY DEF RegsView, Ended
<1>3. r # -1
  BY InstructionsAssumption
<1>4. CASE r = 0
  BY <1>4 DEF Operand
<1>5. CASE r # 0
  <2>1. REGS \in [Regs -> Words]
    BY DEF IndInv, TypeOK
  <2>2. CASE wb_op # NoOp /\ wb_op.dst = r
    BY <1>1, <1>3, <1>5, <2>1, <2>2 DEF Operand, Written
  <2>3. CASE ~(wb_op # NoOp /\ wb_op.dst = r)
    BY <1>1, <1>3, <1>5, <2>1, <2>3 DEF Operand, Written
  <2> QED
    BY <2>2, <2>3
<1> QED
  BY <1>4, <1>5

\* What instruction i loads from an address, and the memory with b stored to it.
FromMemory(i, address) == Part[i.fn, memory[WordOf(address)], address]
ToMemory(i, address, b) ==
  [memory EXCEPT ![WordOf(address)] = Patched[i.fn, @, b, address]]

\* The views before and after the execute stage has done its work, for instruction i
\* and operands a and b.
LEMMA ExecuteView ==
  ASSUME IndInv, Execute, ~Ended,
         NEW i, i = execute_op.ins,
         NEW a, a = Operand(execute_op.src1),
         NEW b, b = Operand(execute_op.src2)
  PROVE  /\ program' = program /\ i = program[WordOf(NextView)] /\ NextView \in Words
         /\ MemoryView = memory
         /\ HILO' = HiLoAfter(execute_op, a, b)
         /\ RegsView' = IF Dst(i) \in {-1, 0} THEN RegsView
                        ELSE [RegsView EXCEPT ![Dst(i)] =
                                IF i.op = "load" THEN FromMemory(i, Plus(a, i.imm))
                                ELSE Value(execute_op, a, b)]
         /\ MemoryView' = IF i.op = "store" THEN ToMemory(i, Plus(a, i.imm), b) ELSE memory
         /\ NextView' = IF i.op = "syscall" /\ a = ExitCode THEN Halted
                        ELSE IF Redirects(execute_op, a, b)
                        THEN IF i.op = "jr" THEN a ELSE execute_op.dest
                        ELSE Following(NextView)
<1> DEFINE x == Executed(execute_op, a, b)
<1>1. /\ stage = "execute" /\ mem_op = NoOp /\ execute_op # NoOp
      /\ mem_op' = x /\ execute_op' = NoOp
      /\ HILO' = HiLoAfter(x, a, b)
      /\ x.taken => PipeRecover(3, x.dest)
      /\ ~x.taken => branch_recover' = branch_recover
      /\ UNCHANGED <<program, decode_op, wb_op, REGS, PC, memory, RUN_BIT>>
  BY DEF Execute, Calls
<1>2. /\ execute_op \in PipeOps /\ execute_op.pc \in Words /\ a \in Words /\ b \in Words
      /\ execute_op = Decoded(Fetched(execute_op.pc))
  BY ExecuteOperands
<1>3. HILO \in HiLo /\ program \in [WordAddresses -> Instrs]
  BY DEF IndInv, TypeOK
<1>4. execute_op.dst = Dst(i) /\ i = program[WordOf(execute_op.pc)]
  BY <1>2, <1>3, DecodedFields
<1>5. /\ x \in PipeOps /\ x.ins = i /\ x.dst = Dst(i) /\ x.val1 = a
      /\ x.dst_value = Value(execute_op, a, b)
      /\ i.op \in {"load", "store"} => x.mem_addr = Plus(a, i.imm)
      /\ i.op = "store" => x.mem_value = b
      /\ x.taken = Redirects(execute_op, a, b)
      /\ x.dest = IF i.op = "jr" THEN a ELSE execute_op.dest
  <2>1. /\ x = Executed(execute_op, a, b) /\ HILO \in HiLo
        /\ execute_op \in PipeOps /\ a \in Words /\ b \in Words
    BY <1>2, <1>3
  <2> HIDE DEF x
  <2>2. /\ x \in PipeOps /\ x.ins = execute_op.ins /\ x.dst = execute_op.dst /\ x.val1 = a
        /\ x.dst_value = Value(execute_op, a, b)
        /\ IsMem(execute_op) => x.mem_addr = Plus(a, execute_op.ins.imm)
        /\ execute_op.ins.op = "store" => x.mem_value = b
        /\ x.dest = IF execute_op.ins.op = "jr" THEN a ELSE execute_op.dest
    BY <2>1, ExecutedFields
  <2>3. x.taken = Redirects(execute_op, a, b)
    BY <2>1, ExecutedFields
  <2> QED
    BY <1>4, <2>2, <2>3 DEF IsMem
<1> HIDE DEF x
<1>6. x # NoOp
  BY <1>5, PipelineAssumption
<1>7. branch_recover.flush = 0
  BY <1>1 DEF IndInv, SlotsFree, TypeOK
<1>8. RUN_BIT /\ ~Exits(wb_op) /\ Exits(wb_op)' = Exits(wb_op)
  BY <1>1 DEF Ended, Exits
<1>9. Exits(mem_op)' = (i.op = "syscall" /\ a = ExitCode)
  BY <1>1, <1>5, <1>6 DEF Exits
<1>10. NextView = execute_op.pc
  BY <1>1, <1>7 DEF NextView, NextPC
<1>11. HILO' = HiLoAfter(execute_op, a, b)
  BY <1>1, <1>5 DEF HiLoAfter
<1>12. RegsView' = IF Dst(i) \in {-1, 0} THEN RegsView
                  ELSE [RegsView EXCEPT ![Dst(i)] =
                          IF i.op = "load" THEN FromMemory(i, Plus(a, i.imm))
                          ELSE Value(execute_op, a, b)]
  <2>1. RegsView = Written(REGS, wb_op)
    BY <1>1, <1>8 DEF RegsView
  <2>2. RegsView' = Written(RegsView, Loaded(mem_op)')
    BY <1>1, <1>6, <1>8, <2>1 DEF RegsView, MemOpCounts, Written
  <2>3. Loaded(mem_op)' =
          IF i.op = "load" THEN [x EXCEPT !.dst_value = FromMemory(i, Plus(a, i.imm))] ELSE x
    BY <1>1, <1>5 DEF Loaded, FromMemory
  <2>4. Loaded(mem_op)' # NoOp
    <3>1. memory \in [WordAddresses -> Words]
      BY DEF IndInv, TypeOK
    <3>2. i.op = "load" => FromMemory(i, Plus(a, i.imm)) \in Words
      <4>1. i \in Instrs /\ i.fn \in Fns /\ Plus(a, i.imm) \in Words
        BY <1>2, InstrFields, PlusType DEF PipeOps
      <4> QED
        BY <3>1, <4>1, WordOfType, UnitTypes DEF FromMemory
    <3>3. Loaded(mem_op)' \in PipeOps
      BY <1>5, <2>3, <3>2 DEF PipeOps
    <3> QED
      BY <3>3, PipelineAssumption
  <2>5. /\ Loaded(mem_op)'.dst = Dst(i)
        /\ Loaded(mem_op)'.dst_value = IF i.op = "load" THEN FromMemory(i, Plus(a, i.imm))
                                  ELSE Value(execute_op, a, b)
    BY <1>5, <2>3 DEF PipeOps
  <2> QED
    BY <2>2, <2>4, <2>5 DEF Written
<1>13. MemoryView = memory
  BY <1>1 DEF MemoryView, Stored
<1>14. MemoryView' = IF i.op = "store" THEN ToMemory(i, Plus(a, i.imm), b) ELSE memory
  BY <1>1, <1>5, <1>6, <1>8 DEF MemoryView, MemOpCounts, Stored, ToMemory
<1>15. NextView' = IF i.op = "syscall" /\ a = ExitCode THEN Halted
                  ELSE IF Redirects(execute_op, a, b)
                  THEN IF i.op = "jr" THEN a ELSE execute_op.dest
                  ELSE Following(NextView)
  <2>1. CASE Redirects(execute_op, a, b)
    <3>1. branch_recover' = [flush |-> 3, dest |-> x.dest]
      BY <1>1, <1>5, <1>7, <2>1 DEF PipeRecover
    <3>2. NextPC' = x.dest
      BY <3>1 DEF NextPC
    <3> QED
      BY <1>1, <1>5, <1>8, <1>9, <2>1, <3>2 DEF NextView, Ended
  <2>2. CASE ~Redirects(execute_op, a, b)
    <3>1. branch_recover' = branch_recover
      BY <1>1, <1>5, <2>2
    <3>2. NextPC' = Following(execute_op.pc)
      BY <1>1, <1>7, <3>1 DEF NextPC, IndInv, InOrder
    <3> QED
      BY <1>1, <1>8, <1>9, <1>10, <2>2, <3>2 DEF NextView, Ended
  <2> QED
    BY <2>1, <2>2
<1> QED
  BY <1>1, <1>2, <1>4, <1>10, <1>11, <1>12, <1>13, <1>14, <1>15

\* The definitions that Isa shares with the pipeline.
LEMMA SameDefinitions ==
  /\ Machine!Halted = Halted /\ Machine!Link = Link /\ Machine!V0 = V0
  /\ \A x, y : Machine!Plus(x, y) = Plus(x, y)
  /\ \A x : Machine!Following(x) = Following(x)
  /\ \A x : Machine!WordOf(x) = WordOf(x)
BY DEF Machine!WordOf, WordOf, Machine!Halted, Halted, Machine!Link, Link, Machine!V0, V0, Machine!Plus, Plus,
       Machine!Following, Following

\* The execute stage does one instruction of Isa.
LEMMA ExecuteRefines ==
  ASSUME IndInv, Execute, ~Ended
  PROVE  Machine!Execute
<1> DEFINE i == execute_op.ins
           a == Operand(execute_op.src1)
           b == Operand(execute_op.src2)
<1>1. /\ program' = program /\ i = program[WordOf(NextView)] /\ NextView \in Words
      /\ MemoryView = memory
      /\ HILO' = HiLoAfter(execute_op, a, b)
      /\ RegsView' = IF Dst(i) \in {-1, 0} THEN RegsView
                     ELSE [RegsView EXCEPT ![Dst(i)] =
                             IF i.op = "load" THEN FromMemory(i, Plus(a, i.imm))
                             ELSE Value(execute_op, a, b)]
      /\ MemoryView' = IF i.op = "store" THEN ToMemory(i, Plus(a, i.imm), b) ELSE memory
      /\ NextView' = IF i.op = "syscall" /\ a = ExitCode THEN Halted
                     ELSE IF Redirects(execute_op, a, b)
                     THEN IF i.op = "jr" THEN a ELSE execute_op.dest
                     ELSE Following(NextView)
  BY ExecuteView
<1>2. /\ execute_op.pc \in Words /\ execute_op = Decoded(Fetched(execute_op.pc))
      /\ program \in [WordAddresses -> Instrs] /\ mem_op = NoOp /\ execute_op # NoOp
      /\ branch_recover.flush = 0
  BY ExecuteOperands DEF Execute, Calls, IndInv, TypeOK, SlotsFree
<1>3. NextView = execute_op.pc
  BY <1>2 DEF NextView, NextPC
<1>4. /\ i \in Instrs /\ execute_op.src1 = Src1(i) /\ execute_op.src2 = Src2(i)
      /\ execute_op.dst_value = IF Links(i) THEN Following(NextView) ELSE 0
      /\ i.op \in {"j", "jal"} => execute_op.taken /\ execute_op.dest = i.imm
      /\ i.op \in {"branch", "brspec"} => execute_op.dest = Plus(Following(NextView), i.imm)
  BY <1>2, <1>3, DecodedFields
<1>5. \A r \in Regs : r # -1 /\ Operand(r) = Machine!Read(r)
  BY <1>2, OperandView, InstructionsAssumption
<1>6. i.rs \in Regs /\ i.rt \in Regs /\ i.rd \in Regs /\ V0 \in Regs /\ Link \in Regs
  BY <1>4, InstrFields, InstructionsAssumption
<1>7. /\ i.op \notin {"j", "jal", "syscall", "other"} => a = Machine!Read(i.rs)
      /\ i.op \notin {"j", "jal", "syscall", "imm", "load", "other"} => b = Machine!Read(i.rt)
      /\ i.op = "imm" => b = 0
      /\ i.op = "syscall" => a = RegsView[V0]
  BY <1>4, <1>5, <1>6 DEF Src1, Src2, Operand, Machine!Read, V0
<1>8. execute_op.pc = NextView
  BY <1>3
<1>9. NextView # Machine!Halted
  BY <1>1, InstructionsAssumption DEF Words, Machine!Halted
<1>10. i.op \in Ops
  BY <1>4, InstrFields
<1>11. i = execute_op.ins
  OBVIOUS
<1> HIDE DEF i, a, b
<1> DEFINE A == Machine!Read(i.rs)
           B == Machine!Read(i.rt)
           v == IF i.op = "load" THEN FromMemory(i, Plus(a, i.imm)) ELSE Value(execute_op, a, b)
<1>12. ASSUME \/ /\ Machine!Compute(i, A, B) \/ Machine!Access(i, A, B)
                 /\ NextView' = Following(NextView)
              \/ Machine!Jump(i, A, B)
              \/ Machine!Syscall(i)
       PROVE  Machine!Execute
  BY <1>1, <1>9, <1>12, SameDefinitions DEF Machine!Execute
<1>13. /\ Dst(i) \in Regs => Machine!Writes(Dst(i), v)
       /\ Dst(i) \in {-1, 0} => RegsView' = RegsView
  BY <1>1, <1>5 DEF Machine!Writes
<1>14. MemoryView' = IF i.op = "store" THEN ToMemory(i, Plus(a, i.imm), b) ELSE MemoryView
  BY <1>1
<1>15. i.op # "load" => v = Value(execute_op, a, b)
  OBVIOUS
<1>16. i.op = "load" => v = FromMemory(i, Plus(a, i.imm))
  OBVIOUS
<1> HIDE DEF A, B, v
<1>17. /\ i.op \notin {"j", "jal", "syscall", "other"} => a = A
       /\ i.op \notin {"j", "jal", "syscall", "imm", "load", "other"} => b = B
  BY <1>7 DEF A, B
<1>18. CASE i.op \in {"alu", "imm"}
  <2>1. HILO' = HILO /\ NextView' = Following(NextView) /\ MemoryView' = MemoryView
    BY <1>1, <1>11, <1>14, <1>18 DEF HiLoAfter, Redirects
  <2>2. v = Result[i.fn, a, b, i.imm]
    BY <1>11, <1>15, <1>18 DEF Value
  <2>3. Dst(i) = IF i.op = "alu" THEN i.rd ELSE i.rt
    BY <1>18 DEF Dst, IsSpecial
  <2>4. Machine!Compute(i, A, B)
    BY <1>6, <1>7, <1>13, <1>17, <1>18, <2>1, <2>2, <2>3 DEF Machine!Compute
  <2> QED
    BY <1>12, <2>1, <2>4
<1>19. CASE i.op \in {"muldiv", "mthi", "mtlo"}
  <2>1. NextView' = Following(NextView) /\ MemoryView' = MemoryView
    BY <1>1, <1>11, <1>14, <1>19 DEF Redirects
  <2>2. Machine!Writes(i.rd, 0)
    <3>1. Dst(i) = i.rd /\ v = 0
      BY <1>4, <1>11, <1>15, <1>19 DEF Dst, IsSpecial, Value, Links
    <3> QED
      BY <1>6, <1>13, <3>1
  <2>3. HILO' = IF i.op = "muldiv" THEN Product[i.fn, a, b]
                ELSE IF i.op = "mthi" THEN [HILO EXCEPT !.hi = a] ELSE [HILO EXCEPT !.lo = a]
    BY <1>1, <1>11, <1>19 DEF HiLoAfter
  <2>4. Machine!Compute(i, A, B)
    BY <1>17, <1>19, <2>1, <2>2, <2>3 DEF Machine!Compute
  <2> QED
    BY <1>12, <2>1, <2>4
<1>20. CASE i.op \in {"mfhi", "mflo"}
  <2>1. HILO' = HILO /\ NextView' = Following(NextView) /\ MemoryView' = MemoryView
    BY <1>1, <1>11, <1>14, <1>20 DEF HiLoAfter, Redirects
  <2>2. v = IF i.op = "mfhi" THEN HILO.hi ELSE HILO.lo
    BY <1>11, <1>15, <1>20 DEF Value
  <2>3. Dst(i) = i.rd
    BY <1>20 DEF Dst, IsSpecial
  <2>4. Machine!Compute(i, A, B)
    BY <1>6, <1>13, <1>20, <2>1, <2>2, <2>3 DEF Machine!Compute
  <2> QED
    BY <1>12, <2>1, <2>4
<1>21. CASE i.op \in {"load", "store"}
  <2>1. HILO' = HILO /\ NextView' = Following(NextView)
    BY <1>1, <1>11, <1>21 DEF HiLoAfter, Redirects
  <2>2. Dst(i) = IF i.op = "load" THEN i.rt ELSE -1
    BY <1>21 DEF Dst, IsSpecial, Links
  <2>3. Machine!Access(i, A, B)
    BY <1>1, <1>6, <1>13, <1>14, <1>16, <1>17, <1>21, <2>1, <2>2, SameDefinitions
    DEF Machine!Access, FromMemory, ToMemory
  <2> QED
    BY <1>12, <2>1, <2>3
<1>22. CASE i.op = "jr"
  <2>1. HILO' = HILO /\ NextView' = a /\ MemoryView' = MemoryView
    BY <1>1, <1>11, <1>14, <1>22 DEF HiLoAfter, Redirects
  <2>2. v = Following(NextView)
    BY <1>8, <1>11, <1>15, <1>22 DEF Value
  <2>3. Dst(i) = i.rd
    BY <1>22 DEF Dst, IsSpecial
  <2>4. Machine!Jump(i, A, B)
    BY <1>6, <1>13, <1>17, <1>22, <2>1, <2>2, <2>3, SameDefinitions DEF Machine!Jump
  <2> QED
    BY <1>12, <2>4
<1>23. CASE i.op \in {"j", "jal", "branch", "brspec"}
  <2>1. HILO' = HILO /\ MemoryView' = MemoryView
    BY <1>1, <1>11, <1>14, <1>23 DEF HiLoAfter
  <2>2. NextView' = IF i.op \in {"j", "jal"} THEN i.imm
                    ELSE IF Taken[i.fn, a, b] THEN Plus(Following(NextView), i.imm)
                    ELSE Following(NextView)
    BY <1>1, <1>4, <1>11, <1>23 DEF Redirects
  <2>3. Links(i) => v = Following(NextView)
    BY <1>4, <1>11, <1>15, <1>23 DEF Value
  <2>4. Dst(i) = IF Links(i) THEN Link ELSE -1
    BY <1>23 DEF Dst, IsSpecial
  <2>5. IF Links(i) THEN Machine!Writes(Link, Following(NextView)) ELSE RegsView' = RegsView
    BY <1>6, <1>13, <2>3, <2>4
  <2>6. Machine!Jump(i, A, B)
    BY <1>17, <1>23, <2>1, <2>2, <2>5, SameDefinitions DEF Machine!Jump, Links
  <2> QED
    BY <1>12, <2>6
<1>24. CASE i.op = "syscall"
  <2>1. HILO' = HILO /\ MemoryView' = MemoryView
    BY <1>1, <1>11, <1>14, <1>24 DEF HiLoAfter
  <2>2. Machine!Writes(i.rd, 0)
    <3>1. Dst(i) = i.rd /\ v = 0
      BY <1>4, <1>11, <1>15, <1>24 DEF Dst, IsSpecial, Value, Links
    <3> QED
      BY <1>6, <1>13, <3>1
  <2>3. NextView' = IF a = ExitCode THEN Halted ELSE Following(NextView)
    BY <1>1, <1>11, <1>24 DEF Redirects
  <2>4. Machine!Syscall(i)
    BY <1>7, <1>24, <2>1, <2>2, <2>3, SameDefinitions DEF Machine!Syscall
  <2> QED
    BY <1>12, <2>4
<1>25. CASE i.op = "other"
  <2>1. HILO' = HILO /\ NextView' = Following(NextView) /\ MemoryView' = MemoryView
    BY <1>1, <1>11, <1>14, <1>25 DEF HiLoAfter, Redirects
  <2>2. RegsView' = RegsView
    BY <1>13, <1>25 DEF Dst, IsSpecial, Links
  <2>3. Machine!Compute(i, A, B)
    BY <1>25, <2>1, <2>2 DEF Machine!Compute
  <2> QED
    BY <1>12, <2>1, <2>3
<1> QED
  BY <1>10, <1>18, <1>19, <1>20, <1>21, <1>22, <1>23, <1>24, <1>25 DEF Ops

LEMMA NextRefines == IndInv /\ [Next]_vars => [Machine!Next]_(Machine!vars)
<1> SUFFICES ASSUME IndInv, [Next]_vars PROVE [Machine!Next]_(Machine!vars)
  OBVIOUS
<1>1. CASE UNCHANGED vars
  BY <1>1, CoreStutters DEF vars, Core
<1>2. CASE MemWaits \/ MemMisses \/ ExecuteWaits \/ FetchWaits \/ FetchMisses \/ MemCycle
  BY <1>2, WaitingSteps, CoreStutters
<1>3. CASE Execute
  BY <1>3, ExecuteBehindExit, ExecuteRefines DEF Machine!Next
<1>4. CASE WriteBack \/ MemPasses \/ Decode \/ FetchStops \/ Fetch \/ Recover
  BY <1>4, WriteBackStutters, MemPassesRefines, DecodeStutters, FetchStutters, RecoverStutters
<1> QED
  BY <1>1, <1>2, <1>3, <1>4 DEF Next

\* Whatever the program, the units, the latencies and the misses, the machine shows the
\* registers and memory of one that executes one instruction after the other.
THEOREM PipelineImplementsIsa == Spec => ImplementsIsa
BY NextRefines, InitRefines, InvariantHolds, PTL DEF Spec, ImplementsIsa, Machine!Spec
=============================================================================
