----------------------------- MODULE ShellProofs ------------------------------
(***************************************************************************)
(* Proofs that the commands of the shell disturb nothing but the registers *)
(* they set, for any programs, commands and values.                        *)
(***************************************************************************)
EXTENDS Shell, PipelineProofs

\* The recovery is the only step that ends a cycle.
LEMMA CycleEnds ==
  ASSUME stage = "recover", Next
  PROVE  stage' = "wb"
BY DEF Next, WriteBack, MemWaits, MemMisses, MemPasses, ExecuteWaits, Execute, Decode, FetchWaits,
       FetchStops, FetchMisses, Fetch, MemCycle, Recover, Calls

LEMMA CycleInvariant ==
  ASSUME ShellIndInv, Cycle
  PROVE  ShellIndInv'
<1>1. IndInv'
  BY NextInvariant DEF Cycle, ShellIndInv
<1>2. RUN_BIT \in BOOLEAN /\ left # 0
  BY DEF Cycle, ShellIndInv, IndInv, TypeOK
<1>3. LeftAfter \in Nat \cup {Unbounded}
  BY <1>2 DEF LeftAfter, ShellIndInv, Unbounded
<1>4. left' \in Nat \cup {Unbounded}
  BY <1>3 DEF Cycle, ShellIndInv
<1>5. left' = 0 => stage' = "wb"
  BY <1>2, CycleEnds DEF Cycle
<1> QED
  BY <1>1, <1>4, <1>5 DEF ShellIndInv

\* The register file with a register set is one, and nothing else is looked at.
LEMMA InputInvariant ==
  ASSUME ShellIndInv, NEW r \in Regs, NEW v \in Words, Input(r, v)
  PROVE  ShellIndInv'
<1>1. REGS' \in [Regs -> Words]
  BY DEF Input, ShellIndInv, IndInv, TypeOK
<1>2. /\ UNCHANGED <<program, stage, decode_op, execute_op, mem_op, wb_op, HILO, PC, memory>>
      /\ UNCHANGED <<branch_recover, multiplier_stall, instruction_stall, mem_stall, latest, queue>>
      /\ UNCHANGED <<RUN_BIT, aborted, left>>
  BY DEF Input, slots, stalls
<1>3. TypeOK'
  BY <1>1, <1>2 DEF ShellIndInv, IndInv, TypeOK
<1>4. InOrder' /\ OpsInStage' /\ SlotsFree'
  BY <1>2 DEF ShellIndInv, IndInv, InOrder, OpsInStage, SlotsFree, Ended, Exits, Fetched, Decoded,
              Destination
<1> QED
  BY <1>2, <1>3, <1>4 DEF ShellIndInv, IndInv

LEMMA InputHiLoInvariant ==
  ASSUME ShellIndInv, NEW half \in {"hi", "lo"}, NEW v \in Words, InputHiLo(half, v)
  PROVE  ShellIndInv'
<1>1. HILO' \in HiLo
  BY DEF InputHiLo, ShellIndInv, IndInv, TypeOK, HiLo
<1>2. /\ UNCHANGED <<program, stage, decode_op, execute_op, mem_op, wb_op, REGS, PC, memory>>
      /\ UNCHANGED <<branch_recover, multiplier_stall, instruction_stall, mem_stall, latest, queue>>
      /\ UNCHANGED <<RUN_BIT, aborted, left>>
  BY DEF InputHiLo, slots, stalls
<1>3. TypeOK'
  BY <1>1, <1>2 DEF ShellIndInv, IndInv, TypeOK
<1>4. InOrder' /\ OpsInStage' /\ SlotsFree'
  BY <1>2 DEF ShellIndInv, IndInv, InOrder, OpsInStage, SlotsFree, Ended, Exits, Fetched, Decoded,
              Destination
<1> QED
  BY <1>2, <1>3, <1>4 DEF ShellIndInv, IndInv

LEMMA RunInvariant ==
  ASSUME ShellIndInv, NEW n \in Nat \cup {Unbounded}, Run(n)
  PROVE  ShellIndInv'
<1>1. IndInv'
  BY NextInvariant DEF Run, ShellIndInv
<1> QED
  BY <1>1 DEF Run, vars, ShellIndInv

LEMMA ShellNextInvariant == ShellIndInv /\ [ShellNext]_shellVars => ShellIndInv'
<1> SUFFICES ASSUME ShellIndInv, [ShellNext]_shellVars PROVE ShellIndInv'
  OBVIOUS
<1>1. CASE UNCHANGED shellVars
  <2>1. IndInv'
    BY <1>1, NextInvariant DEF shellVars, ShellIndInv
  <2> QED
    BY <1>1, <2>1 DEF shellVars, vars, ShellIndInv
<1>2. CASE (\E n \in RunLengths : Run(n)) \/ Go
  BY <1>2, RunInvariant, ShellAssumption DEF Go
<1>3. CASE \E input \in Inputs : Input(input[1], input[2])
  BY <1>3, InputInvariant, ShellAssumption
<1>4. CASE \E half \in {"hi", "lo"}, v \in HiLoInputs : InputHiLo(half, v)
  BY <1>4, InputHiLoInvariant, ShellAssumption
<1>5. CASE Cycle
  BY <1>5, CycleInvariant
<1> QED
  BY <1>1, <1>2, <1>3, <1>4, <1>5 DEF ShellNext

LEMMA ShellInitInvariant == ShellInit => ShellIndInv
<1> SUFFICES ASSUME ShellInit PROVE ShellIndInv
  OBVIOUS
<1>1. IndInv /\ stage = "wb"
  BY InitInvariant DEF ShellInit, Init
<1> QED
  BY <1>1 DEF ShellInit, ShellIndInv

\* The invariant of the pipeline survives the commands, which are read only when no
\* cycle is under way.
THEOREM SessionInvariant == ShellSpec => []ShellIndInv
BY ShellInitInvariant, ShellNextInvariant, PTL DEF ShellSpec

-----------------------------------------------------------------------------
(* The refinement.                                                         *)

\* A register set in the file shows unless the op writes it later.
LEMMA WrittenOver ==
  ASSUME NEW f \in [Regs -> Words], NEW op \in PipeOps \cup {NoOp}, NEW r \in Regs, NEW v \in Words
  PROVE  Written([f EXCEPT ![r] = v], op) \in {Written(f, op), [Written(f, op) EXCEPT ![r] = v]}
<1>1. CASE op = NoOp \/ op.dst \in {-1, 0}
  BY <1>1 DEF Written
<1>2. CASE op # NoOp /\ op.dst \notin {-1, 0}
  <2> DEFINE d == op.dst
             u == op.dst_value
  <2>1. d \in Regs
    BY <1>2 DEF PipeOps, OptionalRegs
  <2>2. /\ Written(f, op) = [f EXCEPT ![d] = u]
        /\ Written([f EXCEPT ![r] = v], op) = [[f EXCEPT ![r] = v] EXCEPT ![d] = u]
    BY <1>2 DEF Written
  <2> HIDE DEF d, u
  <2>3. CASE d = r
    BY <2>1, <2>2, <2>3
  <2>4. CASE d # r
    BY <2>1, <2>2, <2>4
  <2> QED
    BY <2>3, <2>4
<1> QED
  BY <1>1, <1>2

\* The same for the views: the ops in the slots write over it or not.
LEMMA InputRefines ==
  ASSUME ShellIndInv, NEW r \in Regs, NEW v \in Words, Input(r, v)
  PROVE  Machine!UserSets \/ UNCHANGED Machine!vars
<1>1. /\ REGS' = [REGS EXCEPT ![r] = v]
      /\ UNCHANGED <<program, decode_op, execute_op, mem_op, wb_op, HILO, PC, memory>>
      /\ UNCHANGED <<branch_recover, RUN_BIT>>
  BY DEF Input, slots
<1>2. REGS \in [Regs -> Words] /\ {mem_op, wb_op} \subseteq PipeOps \cup {NoOp}
      /\ memory \in [WordAddresses -> Words]
  BY DEF ShellIndInv, IndInv, TypeOK
<1>3. /\ NextView' = NextView /\ MemoryView' = MemoryView /\ MemOpCounts' = MemOpCounts
      /\ Loaded(mem_op)' = Loaded(mem_op)
  BY <1>1 DEF NextView, Ended, Exits, NextPC, MemoryView, MemOpCounts, Stored, Loaded
<1>4. \A f, op : Written(f, op)' = Written(f', op')
  BY DEF Written
<1> DEFINE W == Written(REGS, wb_op)
           W1 == Written([REGS EXCEPT ![r] = v], wb_op)
<1>5. W \in [Regs -> Words] /\ W1 \in {W, [W EXCEPT ![r] = v]}
  BY <1>2, WrittenType, WrittenOver
<1>6. RegsView' \in {RegsView, [RegsView EXCEPT ![r] = v]}
  <2>1. CASE MemOpCounts /\ mem_op # NoOp
    <3>1. Loaded(mem_op) \in PipeOps
      BY <1>2, <2>1, LoadedFields
    <3> DEFINE M == Loaded(mem_op)
    <3>2. RegsView = Written(W, M)
      BY <2>1 DEF RegsView
    <3>3. RegsView' = Written(W1, M)
      BY <1>1, <1>3, <2>1 DEF RegsView, Written
    <3> HIDE DEF W, W1, M
    <3>4. Written([W EXCEPT ![r] = v], M) \in {Written(W, M), [Written(W, M) EXCEPT ![r] = v]}
      BY <1>5, <3>1, WrittenOver DEF M
    <3> QED
      BY <1>5, <3>2, <3>3, <3>4
  <2>2. CASE ~(MemOpCounts /\ mem_op # NoOp) /\ RUN_BIT
    <3>1. RegsView = W
      BY <2>2 DEF RegsView
    <3>2. RegsView' = W1
      BY <1>1, <1>3, <2>2 DEF RegsView, Written
    <3> QED
      BY <1>5, <3>1, <3>2
  <2>3. CASE ~(MemOpCounts /\ mem_op # NoOp) /\ ~RUN_BIT
    BY <1>1, <1>3, <2>3 DEF RegsView
  <2> QED
    BY <2>1, <2>2, <2>3
<1>7. CASE RegsView' = RegsView
  BY <1>1, <1>3, <1>7 DEF Machine!vars
<1>8. CASE RegsView' = [RegsView EXCEPT ![r] = v]
  BY <1>1, <1>3, <1>8 DEF Machine!UserSets, Machine!Words, Words
<1> QED
  BY <1>6, <1>7, <1>8

LEMMA InputHiLoRefines ==
  ASSUME ShellIndInv, NEW half \in {"hi", "lo"}, NEW v \in Words, InputHiLo(half, v)
  PROVE  Machine!UserSets
<1>1. /\ HILO' = [HILO EXCEPT ![half] = v]
      /\ UNCHANGED <<program, decode_op, execute_op, mem_op, wb_op, REGS, PC, memory>>
      /\ UNCHANGED <<branch_recover, RUN_BIT>>
  BY DEF InputHiLo, slots
<1>2. /\ NextView' = NextView /\ MemoryView' = MemoryView /\ RegsView' = RegsView
  BY <1>1 DEF NextView, Ended, Exits, NextPC, MemoryView, MemOpCounts, Stored, Loaded, RegsView, Written
<1> QED
  BY <1>1, <1>2 DEF Machine!UserSets, Machine!Words, Words

LEMMA ShellInitRefines == ShellInit => Machine!Init
BY InitRefines DEF ShellInit

LEMMA ShellNextRefines ==
  ShellIndInv /\ [ShellNext]_shellVars =>
    [IF left = 0 THEN Machine!UserSets ELSE Machine!Next]_(Machine!vars)
<1> DEFINE Moves == IF left = 0 THEN Machine!UserSets ELSE Machine!Next
<1> SUFFICES ASSUME ShellIndInv, [ShellNext]_shellVars PROVE [Moves]_(Machine!vars)
  OBVIOUS
<1>1. CASE UNCHANGED vars
  BY <1>1, CoreStutters DEF vars, Core
<1>2. CASE (\E n \in RunLengths : Run(n)) \/ Go
  BY <1>1, <1>2 DEF Run, Go
<1>3. CASE \E input \in Inputs : Input(input[1], input[2])
  <2>1. left = 0
    BY <1>3 DEF Input
  <2> QED
    BY <1>3, <2>1, InputRefines, ShellAssumption
<1>4. CASE \E half \in {"hi", "lo"}, v \in HiLoInputs : InputHiLo(half, v)
  <2>1. left = 0
    BY <1>4 DEF InputHiLo
  <2> QED
    BY <1>4, <2>1, InputHiLoRefines, ShellAssumption
<1>5. CASE Cycle
  BY <1>5, NextRefines DEF Cycle, ShellIndInv
<1> QED
  BY <1>1, <1>2, <1>3, <1>4, <1>5 DEF ShellNext, shellVars

\* However a session is cut into commands, the machine is one that executes one
\* instruction after the other, and a register that the user sets is set between two
\* of them or, if an instruction before has still to write it, not at all.
THEOREM SessionsImplementIsa == ShellSpec => SessionImplementsIsa
BY ShellInitRefines, ShellNextRefines, SessionInvariant, PTL DEF ShellSpec, SessionImplementsIsa
=============================================================================
