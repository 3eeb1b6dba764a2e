--------------------------- MODULE ComputerProofs ----------------------------
(***************************************************************************)
(* Pipeline and MemCtrl, put together, are each what it was checked and    *)
(* proved to be: every step of Computer is a step of Pipeline, or none,    *)
(* and a step of MemCtrl, or none.  What is proved of the two then holds   *)
(* of the whole.                                                           *)
(***************************************************************************)
EXTENDS ComputerRefinement, Sequences, FiniteSetTheorems, TLAPS

-----------------------------------------------------------------------------
(* The assumptions on the constants of the parts.                          *)

LEMMA ControllerConstants ==
  /\ {BlockNumber[b] : b \in DOMAIN BlockNumber} \subseteq Nat
  /\ {BlockWords, MshrSize, NumBanks, BlocksPerRow} \subseteq Nat \ {0}
  /\ {Step, CmdLen, DataLen} \subseteq Nat \ {0}
  /\ CmdLen < Step
  /\ CmdLen <= DataLen
BY ComputerAssumption

LEMMA SameSets ==
  /\ Pipe!Words = Words /\ Stages!Words = Words
  /\ Pipe!WordAddresses = WordAddresses
  /\ Pipe!HiLo = HiLo
  /\ Pipe!Instrs = Instrs
  /\ Pipe!PipeOps = Stages!PipeOps
  /\ Pipe!Blocks = Stages!Blocks
  /\ DOMAIN BlockNumber = Stages!Blocks
<1>1. Pipe!Words = Words /\ Stages!Words = Words
  BY DEF Pipe!Words, Stages!Words, Words
<1>2. Pipe!WordAddresses = WordAddresses /\ Stages!WordAddresses = WordAddresses
  BY <1>1 DEF Pipe!WordAddresses, Stages!WordAddresses, WordAddresses, Pipe!WordOf,
     Stages!WordOf, WordOf
<1>3. Pipe!HiLo = HiLo
  BY <1>1 DEF Pipe!HiLo, HiLo
<1>4. Pipe!Instrs = Instrs /\ Stages!Instrs = Instrs
  BY <1>1 DEF Pipe!Instrs, Stages!Instrs, Instrs, Pipe!Ops, Stages!Ops, Ops
<1>5. Pipe!PipeOps = Stages!PipeOps
  BY <1>1, <1>4 DEF Pipe!PipeOps, Stages!PipeOps, Pipe!OptionalRegs, Stages!OptionalRegs
<1>6. Pipe!Blocks = Stages!Blocks
  BY <1>2 DEF Pipe!Blocks, Stages!Blocks
<1>7. DOMAIN BlockNumber = Stages!Blocks
  BY ComputerAssumption
<1> QED
  BY <1>1, <1>2, <1>3, <1>4, <1>5, <1>6, <1>7

LEMMA UnitConstants ==
  /\ WordSize \in Nat \ {0}
  /\ WordBytes \in Nat \ {0}
  /\ Regs \subseteq Nat
  /\ {0, Pipe!V0, Pipe!V1, Pipe!Link} \subseteq Regs
  /\ Result \in [Fns \X Pipe!Words \X Pipe!Words \X Pipe!Words -> Pipe!Words]
  /\ Product \in [Fns \X Pipe!Words \X Pipe!Words -> Pipe!HiLo]
  /\ Taken \in [Fns \X Pipe!Words \X Pipe!Words -> BOOLEAN]
  /\ Part \in [Fns \X Pipe!Words \X Pipe!Words -> Pipe!Words]
  /\ Patched \in [Fns \X Pipe!Words \X Pipe!Words \X Pipe!Words -> Pipe!Words]
  /\ ExitCode \in Pipe!Words
BY InstructionsAssumption, SameSets
DEF Pipe!V0, Pipe!V1, Pipe!Link, V0, V1, Link

LEMMA PipeConstants ==
  /\ Programs \subseteq [Pipe!WordAddresses -> Pipe!Instrs]
  /\ InitialRegs \subseteq [Regs -> Pipe!Words]
  /\ InitialHiLo \in Pipe!HiLo
  /\ InitialMemory \in [Pipe!WordAddresses -> Pipe!Words]
  /\ NoOp \notin Pipe!PipeOps
  /\ NoBlock \notin Pipe!Blocks
  /\ Latency \in [Fns -> Nat]
  /\ L2Stall \in Nat
  /\ MemoryStall \in Nat
  /\ BlockWords \in Nat \ {0}
  /\ MshrSize \in Nat
  /\ RunLengths \subseteq Nat
  /\ Inputs \subseteq Regs \X Pipe!Words
  /\ HiLoInputs \subseteq Pipe!Words
BY ComputerAssumption, SimulatorAssumption, SameSets

\* What is proved of the parts can be used of them here.
LEMMA PartsHold ==
  /\ Controller!Init => Controller!IndInv
  /\ Controller!IndInv /\ [Controller!Next]_(Controller!vars) => Controller!IndInv'
  /\ Pipe!ShellInit => Pipe!ShellIndInv
  /\ Pipe!ShellIndInv /\ [Pipe!ShellNext]_(Pipe!shellVars) => Pipe!ShellIndInv'
<1>1. Controller!Init => Controller!IndInv
  BY ControllerConstants, Controller!InitIndInv
<1>2. Controller!IndInv /\ [Controller!Next]_(Controller!vars) => Controller!IndInv'
  BY ControllerConstants, Controller!NextKeepsIndInv
<1>3. Pipe!ShellInit => Pipe!ShellIndInv
  BY UnitConstants, PipeConstants, Pipe!ShellInitInvariant
<1>4. Pipe!ShellIndInv /\ [Pipe!ShellNext]_(Pipe!shellVars) => Pipe!ShellIndInv'
  BY UnitConstants, PipeConstants, Pipe!ShellNextInvariant
<1> QED
  BY <1>1, <1>2, <1>3, <1>4

-----------------------------------------------------------------------------
(* The queue, as the pipeline sees it.                                     *)

LEMMA SameView ==
  ASSUME mshr' = mshr
  PROVE  WordsLeft' = WordsLeft /\ LastWords' = LastWords
BY DEF WordsLeft, LastWords, Controller!Left, Controller!Probe, Controller!WordsOf

\* The last word of a block is in the queue as long as any of it is.
LEMMA LastWordsTell ==
  ASSUME ComputerInv, NEW b \in Stages!Blocks
  PROVE  LastWords[b] > 0 <=> WordsLeft[b] > 0
<1>1. b \in DOMAIN BlockNumber
  BY SameSets
<1>2. Controller!Probe(mshr, BlockNumber[b], BlockWords)
        <=> Controller!Left[BlockNumber[b]] > 0
  BY <1>1, ControllerConstants, Controller!LastWordTells DEF ComputerInv
<1> QED
  BY <1>1, <1>2 DEF LastWords, WordsLeft

LEMMA SameProbe ==
  ASSUME ComputerInv, NEW c \in {"ir", "d"}, NEW a \in Words
  PROVE  /\ Stages!BlockOf(c, a) = Pipe!BlockOf(c, a)
         /\ Stages!BlockOf(c, a) \in Stages!Blocks
         /\ Stages!Probe(c, a) <=> Pipe!Probe(c, a)
<1>1. Stages!BlockOf(c, a) = Pipe!BlockOf(c, a)
  BY DEF Stages!BlockOf, Pipe!BlockOf, Stages!WordOf, Pipe!WordOf
<1>2. Stages!BlockOf(c, a) \in Stages!Blocks
  BY SameSets DEF Stages!BlockOf, Stages!Blocks, Stages!WordAddresses
<1>3. Stages!Probe(c, a) <=> Pipe!Probe(c, a)
  BY <1>1, <1>2, LastWordsTell DEF Stages!Probe, Pipe!Probe
<1> QED
  BY <1>1, <1>2, <1>3

LEMMA Addresses ==
  ASSUME ComputerInv
  PROVE  PC \in Words /\ (mem_op # NoOp => mem_op.mem_addr \in Words)
<1>1. PC \in Pipe!Words /\ mem_op \in Pipe!PipeOps \cup {NoOp}
  BY DEF ComputerInv, Pipe!IndInv, Pipe!TypeOK
<1>2. mem_op # NoOp => mem_op.mem_addr \in Pipe!Words
  BY <1>1 DEF Pipe!PipeOps
<1> QED
  BY <1>1, <1>2, SameSets

LEMMA SameStalls ==
  ASSUME ComputerInv
  PROVE  Stages!MemStall = Pipe!MemStall /\ Stages!FetchStall = Pipe!FetchStall
<1>1. \A stall : \A c \in {"ir", "d"} : \A a \in Words :
        Stages!StallAfter(stall, c, a) = Pipe!StallAfter(stall, c, a)
  BY SameProbe DEF Stages!StallAfter, Pipe!StallAfter, Stages!Ticked, Pipe!Ticked
<1>2. Stages!MemStall = Pipe!MemStall
  BY <1>1, Addresses DEF Stages!MemStall, Pipe!MemStall, Stages!Ticked, Pipe!Ticked
<1>3. Stages!FetchStall = Pipe!FetchStall
  BY <1>1, Addresses DEF Stages!FetchStall, Pipe!FetchStall
<1> QED
  BY <1>2, <1>3

-----------------------------------------------------------------------------
(* The stages at work, which are the same in both.                         *)

LEMMA SameOperators ==
  /\ \A op, a, b : Stages!Executed(op, a, b) = Pipe!Executed(op, a, b)
  /\ \A op, a, b : Stages!HiLoAfter(op, a, b) = Pipe!HiLoAfter(op, a, b)
  /\ \A r : Stages!Operand(r) = Pipe!Operand(r)
<1>1. \A op, a, b : Stages!Redirects(op, a, b) = Pipe!Redirects(op, a, b)
  BY Zenon DEF Stages!Redirects, Pipe!Redirects
<1>2. \A op, a, b : Stages!Value(op, a, b) = Pipe!Value(op, a, b)
  BY DEF Stages!Value, Pipe!Value, Stages!Following, Pipe!Following, Stages!Plus, Pipe!Plus
<1>3. \A op, a, b : Stages!Executed(op, a, b) = Pipe!Executed(op, a, b)
  <2> TAKE op, a, b
  <2>1. /\ Stages!Redirects(op, a, b) = Pipe!Redirects(op, a, b)
        /\ Stages!Value(op, a, b) = Pipe!Value(op, a, b)
    BY <1>1, <1>2
  <2> QED
    BY <2>1 DEF Stages!Executed, Pipe!Executed, Stages!IsMem, Pipe!IsMem, Stages!Plus,
       Pipe!Plus
<1>4. \A op, a, b : Stages!HiLoAfter(op, a, b) = Pipe!HiLoAfter(op, a, b)
  BY DEF Stages!HiLoAfter, Pipe!HiLoAfter
<1>5. \A r : Stages!Operand(r) = Pipe!Operand(r)
  BY DEF Stages!Operand, Pipe!Operand
<1> QED
  BY <1>3, <1>4, <1>5

LEMMA WriteBackIsPipe ==
  ASSUME WordsLeft' = WordsLeft, Stages!WriteBack
  PROVE  Pipe!WriteBack
BY DEF Stages!WriteBack, Pipe!WriteBack, Stages!Calls, Pipe!Calls, Stages!stalls,
   Pipe!stalls, Stages!Written, Pipe!Written, Stages!Exits, Pipe!Exits

LEMMA MemIsPipe ==
  ASSUME ComputerInv, WordsLeft' = WordsLeft
  PROVE  /\ Stages!MemWaits => Pipe!MemWaits
         /\ Stages!MemPasses => Pipe!MemPasses
<1>1. Stages!MemStall = Pipe!MemStall
  BY SameStalls
<1>2. Stages!MemWaits => Pipe!MemWaits
  BY <1>1 DEF Stages!MemWaits, Pipe!MemWaits, Stages!Calls, Pipe!Calls, Stages!slots,
     Pipe!slots
<1>3. Stages!Stored(mem_op) = Pipe!Stored(mem_op) /\ Stages!Loaded(mem_op) = Pipe!Loaded(mem_op)
  BY DEF Stages!Stored, Pipe!Stored, Stages!Loaded, Pipe!Loaded, Stages!WordOf, Pipe!WordOf
<1>4. Stages!MemPasses => Pipe!MemPasses
  BY <1>1, <1>3 DEF Stages!MemPasses, Pipe!MemPasses, Stages!Calls, Pipe!Calls
<1> QED
  BY <1>2, <1>4

LEMMA ExecuteIsPipe ==
  ASSUME WordsLeft' = WordsLeft
  PROVE  /\ Stages!ExecuteWaits => Pipe!ExecuteWaits
         /\ Stages!Execute => Pipe!Execute
<1>1. /\ Stages!Ticked(multiplier_stall) = Pipe!Ticked(multiplier_stall)
      /\ Stages!NeedsHiLo(execute_op) = Pipe!NeedsHiLo(execute_op)
  BY DEF Stages!Ticked, Pipe!Ticked, Stages!NeedsHiLo, Pipe!NeedsHiLo
<1>2. Stages!ExecuteWaits => Pipe!ExecuteWaits
  BY <1>1 DEF Stages!ExecuteWaits, Pipe!ExecuteWaits, Stages!Calls, Pipe!Calls,
     Stages!slots, Pipe!slots
<1>3. PICK a, b, op : /\ a = Stages!Operand(execute_op.src1)
                      /\ b = Stages!Operand(execute_op.src2)
                      /\ op = Stages!Executed(execute_op, a, b)
  OBVIOUS
<1>4. /\ a = Pipe!Operand(execute_op.src1)
      /\ b = Pipe!Operand(execute_op.src2)
      /\ op = Pipe!Executed(execute_op, a, b)
      /\ Stages!HiLoAfter(op, a, b) = Pipe!HiLoAfter(op, a, b)
  BY <1>3, SameOperators
<1>5. Stages!Execute => Pipe!Execute
  BY <1>1, <1>3, <1>4 DEF Stages!Execute, Pipe!Execute, Stages!Calls, Pipe!Calls,
     Stages!PipeRecover, Pipe!PipeRecover
<1> QED
  BY <1>2, <1>5

LEMMA DecodeIsPipe ==
  ASSUME WordsLeft' = WordsLeft, Stages!Decode
  PROVE  Pipe!Decode
<1>1. \A op : Stages!Decoded(op) = Pipe!Decoded(op)
  BY DEF Stages!Decoded, Pipe!Decoded, Stages!Src1, Pipe!Src1, Stages!Src2, Pipe!Src2,
     Stages!Dst, Pipe!Dst, Stages!Links, Pipe!Links, Stages!IsSpecial, Pipe!IsSpecial,
     Stages!Destination, Pipe!Destination, Stages!Plus, Pipe!Plus, Stages!Following,
     Pipe!Following, Stages!V0, Pipe!V0, Stages!V1, Pipe!V1, Stages!Link, Pipe!Link
<1> QED
  BY <1>1 DEF Stages!Decode, Pipe!Decode, Stages!Calls, Pipe!Calls, Stages!stalls, Pipe!stalls

LEMMA FetchIsPipe ==
  ASSUME ComputerInv, WordsLeft' = WordsLeft
  PROVE  /\ Stages!FetchWaits => Pipe!FetchWaits
         /\ Stages!FetchStops => Pipe!FetchStops
         /\ Stages!Fetch => Pipe!Fetch
<1>1. Stages!FetchStall = Pipe!FetchStall
  BY SameStalls
<1>2. Stages!Following(PC) = Pipe!Following(PC) /\ Stages!Fetched(PC) = Pipe!Fetched(PC)
  BY DEF Stages!Following, Pipe!Following, Stages!Plus, Pipe!Plus, Stages!Fetched,
     Pipe!Fetched, Stages!WordOf, Pipe!WordOf
<1> QED
  BY <1>1, <1>2 DEF Stages!FetchWaits, Pipe!FetchWaits, Stages!FetchStops, Pipe!FetchStops,
     Stages!Fetch, Pipe!Fetch, Stages!Calls, Pipe!Calls, Stages!slots, Pipe!slots

LEMMA RecoverIsPipe ==
  ASSUME WordsLeft' = WordsLeft, Stages!Recover
  PROVE  Pipe!Recover
BY DEF Stages!Recover, Pipe!Recover, Stages!Calls, Pipe!Calls, Stages!Kept, Pipe!Kept,
   Stages!NoRecovery, Pipe!NoRecovery, Stages!stalls, Pipe!stalls

LEMMA StageWorksIsPipe ==
  ASSUME ComputerInv, StageWorks
  PROVE  Pipe!Next
<1>1. WordsLeft' = WordsLeft
  BY SameView DEF StageWorks, controller
<1> QED
  BY <1>1, WriteBackIsPipe, MemIsPipe, ExecuteIsPipe, DecodeIsPipe, FetchIsPipe, RecoverIsPipe
  DEF StageWorks, WriteBack, Mem, Execute, Decode, Fetch, Recover, Pipe!Next

-----------------------------------------------------------------------------
(* The requests.                                                           *)

\* The pipeline counts the entries of the queue by blocks.
LEMMA SameLength ==
  ASSUME ComputerInv, RunBit
  PROVE  Pipe!QueueLength = Len(mshr)
<1> DEFINE Numbers == {BlockNumber[b] : b \in DOMAIN BlockNumber}
           S == {e \in Numbers \X (1 .. BlockWords) : e[2] <= Controller!Left[e[1]]}
           T == {e \in Stages!Blocks \X (1 .. BlockWords) : e[2] <= WordsLeft[e[1]]}
           f == [e \in T |-> <<BlockNumber[e[1]], e[2]>>]
<1>1. IsFiniteSet(S) /\ Cardinality(S) = Len(mshr)
  BY ControllerConstants, Controller!QueueIsItsBlocks
  DEF ComputerInv, Controller!Cardinality, Cardinality, Controller!IsFiniteSet, IsFiniteSet
<1>2. \A b \in Stages!Blocks : /\ BlockNumber[b] \in Numbers
                              /\ Controller!Left[BlockNumber[b]] = WordsLeft[b]
  BY SameSets DEF WordsLeft
<1>3. \A n \in Numbers : \E b \in Stages!Blocks : n = BlockNumber[b]
  BY SameSets
<1>4. \A e \in T : /\ e[1] \in Stages!Blocks /\ e[2] \in 1 .. BlockWords
                  /\ e = <<e[1], e[2]>> /\ e[2] <= WordsLeft[e[1]]
  OBVIOUS
<1>5. \A e \in S : /\ e[1] \in Numbers /\ e[2] \in 1 .. BlockWords
                  /\ e = <<e[1], e[2]>> /\ e[2] <= Controller!Left[e[1]]
  OBVIOUS
<1>6. \A e \in T : f[e] \in S
  BY <1>2, <1>4
<1>7. \A e \in S : \E d \in T : f[d] = e
  <2> TAKE e \in S
  <2>1. PICK b \in Stages!Blocks : e[1] = BlockNumber[b]
    BY <1>3, <1>5
  <2>2. e[2] <= WordsLeft[b]
    BY <1>2, <1>5, <2>1
  <2>3. <<b, e[2]>> \in T /\ f[<<b, e[2]>>] = e
    BY <1>5, <2>1, <2>2
  <2> QED
    BY <2>3
<1>8. \A d, e \in T : f[d] = f[e] => d = e
  <2> SUFFICES ASSUME NEW d \in T, NEW e \in T, f[d] = f[e] PROVE d = e
    OBVIOUS
  <2>1. f[d] = <<BlockNumber[d[1]], d[2]>> /\ f[e] = <<BlockNumber[e[1]], e[2]>>
    OBVIOUS
  <2>2. BlockNumber[d[1]] = BlockNumber[e[1]] /\ d[2] = e[2]
    BY <2>1
  <2>3. d[1] = e[1]
    BY <1>4, <2>2, ComputerAssumption
  <2> QED
    BY <1>4, <2>2, <2>3
<1>9. Pipe!QueueLength = Cardinality(T)
  BY SameSets DEF Pipe!QueueLength, Pipe!Cardinality, Cardinality, Pipe!IsFiniteSet, IsFiniteSet
<1> HIDE DEF Numbers, S, T
<1>10. f \in Surjection(T, S)
  BY <1>6, <1>7 DEF Surjection
<1>11. f \in Injection(T, S)
  BY <1>6, <1>8 DEF Injection, IsInjective
<1> HIDE DEF f
<1>12. Cardinality(T) = Cardinality(S)
  BY <1>1, <1>10, <1>11, FS_Injection
<1> QED
  BY <1>1, <1>9, <1>12

\* The words of a block enter the queue in both parts: the controller is asked for it as
\* it expects, or the program is aborted.
LEMMA RequestSteps ==
  ASSUME ComputerInv, RunBit, RunBit' = RunBit, ~failed,
         UNCHANGED <<row_buffer, busy, stat_cycles, failed>>,
         NEW b \in Stages!Blocks, ~(LastWords[b] > 0), Request(b)
  PROVE  Pipe!Request(b) /\ [Controller!Next]_(Controller!vars)
<1> DEFINE n == BlockNumber[b]
<1>1. /\ BlockNumber \in [Stages!Blocks -> Nat] /\ DOMAIN BlockNumber = Stages!Blocks
      /\ \A c \in Stages!Blocks : BlockNumber[c] = n => c = b
      /\ BlockWords \in Nat /\ MshrSize \in Nat
  BY ComputerAssumption
<1>2. Pipe!QueueLength = Len(mshr)
  BY SameLength
<1>3. CASE mshr' = Controller!Enqueued(mshr, n) /\ ~Controller!EnqueueFails(mshr)
           /\ aborted' = aborted
  <2>1. ~(Controller!Left[n] > 0)
    BY <1>1, LastWordsTell DEF WordsLeft
  <2>2. /\ Controller!Left[n] \in 0 .. BlockWords
        /\ \A w \in 1 .. BlockWords :
             Controller!Probe(mshr, n, w) <=> w > BlockWords - Controller!Left[n]
    BY <1>1, ControllerConstants, Controller!LastWordsLeft DEF ComputerInv
  <2>3. \A w \in 1 .. BlockWords : ~Controller!Probe(mshr, n, w)
    BY <1>1, <2>1, <2>2
  <2>4. Controller!Request(n)
    BY <1>3, <2>3 DEF Controller!Request
  <2>5. [Controller!Next]_(Controller!vars)
    BY <1>1, <2>4 DEF Controller!Next
  <2>6. Controller!Left' = [Controller!Left EXCEPT ![n] = BlockWords]
    BY <1>1, <2>4, ControllerConstants, Controller!RequestAddsBlock DEF ComputerInv
  <2>7. \A c \in DOMAIN BlockNumber :
          Controller!Left'[BlockNumber[c]] = IF c = b THEN BlockWords ELSE WordsLeft[c]
    BY <1>1, <2>6 DEF WordsLeft, Controller!Left
  <2>8. WordsLeft' = [WordsLeft EXCEPT ![b] = BlockWords]
    BY <1>1, <2>7 DEF WordsLeft
  <2>9. Len(mshr) + BlockWords <= MshrSize
    <3>1. Len(mshr) \in Nat
      BY <1>3 DEF Controller!Enqueued, ComputerInv, Controller!IndInv, Controller!TypeOK
    <3> QED
      BY <1>1, <1>3, <3>1 DEF Controller!EnqueueFails
  <2>10. Pipe!Request(b)
    BY <1>2, <1>3, <2>8, <2>9 DEF Pipe!Request
  <2> QED
    BY <2>5, <2>10
<1>4. CASE Controller!EnqueueFails(mshr) /\ aborted' = TRUE /\ mshr' = mshr
  <2>1. WordsLeft' = WordsLeft
    BY <1>4, SameView
  <2>2. Pipe!Request(b)
    BY <1>2, <1>4, <2>1 DEF Pipe!Request, Controller!EnqueueFails
  <2>3. UNCHANGED Controller!vars
    BY <1>4 DEF Controller!vars
  <2> QED
    BY <2>2, <2>3
<1> QED
  BY <1>3, <1>4 DEF Request

\* A stage that goes on to its cache has not found the last word of its block in the queue.
LEMMA NotStalled ==
  ASSUME ComputerInv
  PROVE  /\ Stages!FetchStall = 0 => ~Stages!Probe("ir", PC)
         /\ mem_op # NoOp /\ Stages!MemStall = 0 => ~Stages!Probe("d", mem_op.mem_addr)
<1>1. instruction_stall \in Nat /\ mem_stall \in Nat
  BY DEF ComputerInv, Pipe!IndInv, Pipe!TypeOK
<1>2. \A stall \in Nat : Stages!Ticked(stall) \in Nat
  BY DEF Stages!Ticked
<1> QED
  BY <1>1, <1>2 DEF Stages!FetchStall, Stages!MemStall, Stages!StallAfter

LEMMA MemMissesSteps ==
  ASSUME ComputerInv, MemMisses
  PROVE  Pipe!MemMisses /\ [Controller!Next]_(Controller!vars)
<1>1. mem_op # NoOp /\ mem_op.mem_addr \in Words
  BY Addresses DEF MemMisses
<1>2. PICK b \in Stages!Blocks : b = Stages!BlockOf("d", mem_op.mem_addr)
  BY <1>1, SameProbe
<1>3. b = Pipe!BlockOf("d", mem_op.mem_addr)
  BY <1>1, <1>2, SameProbe
<1>4. ~(LastWords[b] > 0)
  BY <1>2, NotStalled DEF MemMisses, Stages!Probe
<1>5. RunBit /\ RunBit' = RunBit
  BY DEF MemMisses, Stages!Calls, RunBit
<1>6. Stages!MemStall = Pipe!MemStall
  BY SameStalls
<1>7. Pipe!Transfer("d", mem_op.mem_addr, mem_stall) /\ [Controller!Next]_(Controller!vars)
  <2>1. latest' = [latest EXCEPT !["d"] = b]
    BY <1>2 DEF MemMisses, Transfer
  <2>2. CASE mem_stall' = L2Stall /\ UNCHANGED <<mshr, aborted>>
    <3>1. WordsLeft' = WordsLeft
      BY <2>2, SameView
    <3>2. UNCHANGED Controller!vars
      BY <1>5, <2>2 DEF MemMisses, Controller!vars
    <3> QED
      BY <1>3, <2>1, <2>2, <3>1, <3>2 DEF Pipe!Transfer
  <2>3. CASE mem_stall' = MemoryStall /\ Request(b)
    <3>1. Pipe!Request(b) /\ [Controller!Next]_(Controller!vars)
      BY <1>4, <1>5, <2>3, RequestSteps DEF MemMisses
    <3> QED
      BY <1>3, <2>1, <2>3, <3>1 DEF Pipe!Transfer
  <2> QED
    BY <1>2, <2>2, <2>3 DEF MemMisses, Transfer
<1>8. Pipe!MemMisses
  BY <1>1, <1>2, <1>3, <1>6, <1>7 DEF MemMisses, Pipe!MemMisses, Stages!Calls, Pipe!Calls,
     Stages!IsMem, Pipe!IsMem, Stages!MayMiss, Pipe!MayMiss, slots, Pipe!slots
<1> QED
  BY <1>7, <1>8

LEMMA FetchMissesSteps ==
  ASSUME ComputerInv, FetchMisses
  PROVE  Pipe!FetchMisses /\ [Controller!Next]_(Controller!vars)
<1>1. PC \in Words
  BY Addresses
<1>2. PICK b \in Stages!Blocks : b = Stages!BlockOf("ir", PC)
  BY <1>1, SameProbe
<1>3. b = Pipe!BlockOf("ir", PC)
  BY <1>1, <1>2, SameProbe
<1>4. ~(LastWords[b] > 0)
  BY <1>2, NotStalled DEF FetchMisses, Stages!Probe
<1>5. RunBit /\ RunBit' = RunBit
  BY DEF FetchMisses, Stages!Calls, RunBit
<1>6. Stages!FetchStall = Pipe!FetchStall
  BY SameStalls
<1>7. Pipe!Transfer("ir", PC, instruction_stall) /\ [Controller!Next]_(Controller!vars)
  <2>1. latest' = [latest EXCEPT !["ir"] = b]
    BY <1>2 DEF FetchMisses, Transfer
  <2>2. CASE instruction_stall' = L2Stall /\ UNCHANGED <<mshr, aborted>>
    <3>1. WordsLeft' = WordsLeft
      BY <2>2, SameView
    <3>2. UNCHANGED Controller!vars
      BY <1>5, <2>2 DEF FetchMisses, Controller!vars
    <3> QED
      BY <1>3, <2>1, <2>2, <3>1, <3>2 DEF Pipe!Transfer
  <2>3. CASE instruction_stall' = MemoryStall /\ Request(b)
    <3>1. Pipe!Request(b) /\ [Controller!Next]_(Controller!vars)
      BY <1>4, <1>5, <2>3, RequestSteps DEF FetchMisses
    <3> QED
      BY <1>3, <2>1, <2>3, <3>1 DEF Pipe!Transfer
  <2> QED
    BY <1>2, <2>2, <2>3 DEF FetchMisses, Transfer
<1>8. Pipe!FetchMisses
  BY <1>2, <1>3, <1>6, <1>7 DEF FetchMisses, Pipe!FetchMisses, Stages!Calls, Pipe!Calls,
     Stages!MayMiss, Pipe!MayMiss, slots, Pipe!slots
<1> QED
  BY <1>7, <1>8

-----------------------------------------------------------------------------
(* The other steps.                                                        *)

LEMMA StageWorksSteps ==
  ASSUME ComputerInv, StageWorks
  PROVE  Pipe!Next /\ [Controller!Next]_(Controller!vars)
<1>1. RunBit' = RunBit
  BY DEF StageWorks, WriteBack, Mem, Execute, Decode, Fetch, Recover, RunBit,
     Stages!WriteBack, Stages!MemWaits, Stages!MemPasses, Stages!ExecuteWaits, Stages!Execute,
     Stages!Decode, Stages!FetchWaits, Stages!FetchStops, Stages!Fetch, Stages!Recover,
     Stages!Calls
<1>2. UNCHANGED Controller!vars
  BY <1>1 DEF StageWorks, controller, Controller!vars
<1> QED
  BY <1>2, StageWorksIsPipe

\* A cycle of the controller takes at most one word of the queue from the pipeline's view.
LEMMA MemCycleSteps ==
  ASSUME ComputerInv, MemCycle
  PROVE  Pipe!MemCycle /\ [Controller!Next]_(Controller!vars)
<1>1. RUN_BIT \in BOOLEAN
  BY DEF ComputerInv, Pipe!IndInv, Pipe!TypeOK
<1>2. Controller!Cycle(RUN_BIT)
  BY DEF MemCycle
<1>3. [Controller!Next]_(Controller!vars)
  <2>1. RUN_BIT = TRUE \/ RUN_BIT = FALSE
    BY <1>1
  <2> QED
    BY <1>2, <2>1 DEF Controller!Next
<1>4. WordsLeft' = WordsLeft \/ \E b \in Stages!Blocks : Pipe!Serve(b)
  <2>1. \/ Controller!Left' = Controller!Left
        \/ \E n \in {BlockNumber[b] : b \in DOMAIN BlockNumber} :
             Controller!Left[n] > 0 /\ Controller!Left' = [Controller!Left EXCEPT ![n] = @ - 1]
    BY <1>1, <1>2, ControllerConstants, Controller!CycleTakesOneWord DEF ComputerInv
  <2>2. CASE Controller!Left' = Controller!Left
    BY <2>2 DEF WordsLeft
  <2>3. CASE \E n \in {BlockNumber[b] : b \in DOMAIN BlockNumber} :
               Controller!Left[n] > 0 /\ Controller!Left' = [Controller!Left EXCEPT ![n] = @ - 1]
    <3>1. PICK b \in DOMAIN BlockNumber :
            /\ Controller!Left[BlockNumber[b]] > 0
            /\ Controller!Left' = [Controller!Left EXCEPT ![BlockNumber[b]] = @ - 1]
      BY <2>3
    <3>2. \A c \in DOMAIN BlockNumber : BlockNumber[c] = BlockNumber[b] => c = b
      BY ComputerAssumption
    <3>3. \A c \in DOMAIN BlockNumber :
            Controller!Left'[BlockNumber[c]]
              = IF c = b THEN WordsLeft[b] - 1 ELSE WordsLeft[c]
      BY <3>1, <3>2 DEF WordsLeft, Controller!Left
    <3>4. WordsLeft' = [WordsLeft EXCEPT ![b] = @ - 1] /\ WordsLeft[b] > 0
      BY <3>1, <3>3 DEF WordsLeft
    <3> QED
      BY <3>4, SameSets DEF Pipe!Serve
  <2> QED
    BY <2>1, <2>2, <2>3
<1>5. Pipe!MemCycle
  BY <1>4, SameSets DEF MemCycle, Pipe!MemCycle, Stages!Calls, Pipe!Calls, slots, Pipe!slots,
     stalls, Pipe!stalls
<1> QED
  BY <1>3, <1>5

LEMMA NextSteps ==
  ComputerInv /\ Next => Pipe!Next /\ [Controller!Next]_(Controller!vars)
<1> SUFFICES ASSUME ComputerInv, Next
             PROVE  Pipe!Next /\ [Controller!Next]_(Controller!vars)
  OBVIOUS
<1>1. CASE StageWorks
  BY <1>1, StageWorksSteps
<1>2. CASE MemMisses
  BY <1>2, MemMissesSteps DEF Pipe!Next
<1>3. CASE FetchMisses
  BY <1>3, FetchMissesSteps DEF Pipe!Next
<1>4. CASE MemCycle
  BY <1>4, MemCycleSteps DEF Pipe!Next
<1> QED
  BY <1>1, <1>2, <1>3, <1>4 DEF Next

LEMMA InitSteps == Init => Pipe!Init /\ Controller!Init
<1> SUFFICES ASSUME Init PROVE Pipe!Init
  BY DEF Init
<1>1. \A n : Controller!WordsOf(mshr, n) = {}
  BY DEF Init, Controller!WordsOf
<1>2. WordsLeft = [b \in Stages!Blocks |-> 0]
  BY <1>1, SameSets, FS_EmptySet
  DEF WordsLeft, Controller!Left, Controller!Cardinality, Cardinality, Controller!IsFiniteSet,
     IsFiniteSet
<1> QED
  BY <1>2, SameSets DEF Init, Stages!Init, Pipe!Init, Stages!NoRecovery, Pipe!NoRecovery

-----------------------------------------------------------------------------
(* The commands.                                                           *)

\* A command leaves the controller alone, and is one of Shell.
LEMMA CommandSteps ==
  ASSUME Command
  PROVE  Pipe!ShellNext /\ UNCHANGED Controller!vars
<1>1. UNCHANGED <<mshr, row_buffer, busy, stat_cycles, failed>>
  BY DEF Command, controller
<1>2. WordsLeft' = WordsLeft
  BY <1>1, SameView
<1>3. ASSUME NEW n, Commands!Run(n) PROVE Pipe!Run(n) /\ RunBit' = RunBit
  BY <1>2, <1>3 DEF Commands!Run, Pipe!Run, Commands!vars, Pipe!vars, Commands!slots, Pipe!slots,
     Commands!stalls, Pipe!stalls, RunBit
<1>4. Commands!Go => Pipe!Go /\ RunBit' = RunBit
  BY <1>3 DEF Commands!Go, Pipe!Go, Commands!Unbounded, Pipe!Unbounded
<1>5. ASSUME NEW r, NEW v, Commands!Input(r, v) PROVE Pipe!Input(r, v) /\ RunBit' = RunBit
  BY <1>2, <1>5 DEF Commands!Input, Pipe!Input, Commands!slots, Pipe!slots, Commands!stalls,
     Pipe!stalls, RunBit
<1>6. ASSUME NEW half, NEW v, Commands!InputHiLo(half, v)
      PROVE  Pipe!InputHiLo(half, v) /\ RunBit' = RunBit
  BY <1>2, <1>6 DEF Commands!InputHiLo, Pipe!InputHiLo, Commands!slots, Pipe!slots,
     Commands!stalls, Pipe!stalls, RunBit
<1>7. Pipe!ShellNext /\ RunBit' = RunBit
  BY <1>3, <1>4, <1>5, <1>6 DEF Command, Pipe!ShellNext
<1> QED
  BY <1>1, <1>7 DEF Controller!vars

LEMMA CycleSteps ==
  ASSUME ComputerInv, Cycle
  PROVE  Pipe!Cycle /\ [Controller!Next]_(Controller!vars)
<1>1. Pipe!Next /\ [Controller!Next]_(Controller!vars)
  BY NextSteps DEF Cycle
<1>2. Commands!LeftAfter = Pipe!LeftAfter
  BY DEF Commands!LeftAfter, Pipe!LeftAfter, Commands!Unbounded, Pipe!Unbounded
<1> QED
  BY <1>1, <1>2 DEF Cycle, Pipe!Cycle

LEMMA SessionSteps ==
  SessionInv /\ [SessionNext]_sessionVars =>
    [Pipe!ShellNext]_(Pipe!shellVars) /\ [Controller!Next]_(Controller!vars)
<1> SUFFICES ASSUME SessionInv, [SessionNext]_sessionVars
             PROVE  [Pipe!ShellNext]_(Pipe!shellVars) /\ [Controller!Next]_(Controller!vars)
  OBVIOUS
<1>1. CASE UNCHANGED sessionVars
  <2>1. WordsLeft' = WordsLeft
    BY <1>1, SameView DEF sessionVars, vars, controller
  <2> QED
    BY <1>1, <2>1 DEF sessionVars, vars, controller, slots, stalls, Pipe!shellVars, Pipe!vars,
       Pipe!slots, Pipe!stalls, Controller!vars, RunBit
<1>2. CASE Command
  BY <1>2, CommandSteps
<1>3. CASE Cycle
  <2>1. ComputerInv
    BY DEF SessionInv, ComputerInv, Pipe!ShellIndInv
  <2> QED
    BY <1>3, <2>1, CycleSteps DEF Pipe!ShellNext
<1> QED
  BY <1>1, <1>2, <1>3 DEF SessionNext

LEMMA SessionInits == SessionInit => Pipe!ShellInit /\ Controller!Init
BY InitSteps DEF SessionInit, Pipe!ShellInit

-----------------------------------------------------------------------------
(* The theorems.                                                           *)

\* What is known of the pipeline and of the controller holds in the whole, for every
\* program, every latency, every geometry of the memory and every session.
THEOREM PartsStayCorrect == SessionSpec => []SessionInv
<1>1. SessionInit => SessionInv
  BY SessionInits, PartsHold DEF SessionInv
<1>2. SessionInv /\ [SessionNext]_sessionVars => SessionInv'
  BY SessionSteps, PartsHold DEF SessionInv
<1> QED
  BY <1>1, <1>2, PTL DEF SessionSpec

\* The controller does all that the pipeline expects of it.
THEOREM SimulatorImplementsShell == SessionSpec => ImplementsShell
BY SessionInits, SessionSteps, PartsStayCorrect, PTL
DEF SessionSpec, ImplementsShell, Pipe!ShellSpec

\* The pipeline asks of the controller only what it expects.
THEOREM SimulatorImplementsMemCtrl == SessionSpec => ImplementsMemCtrl
BY SessionInits, SessionSteps, PartsStayCorrect, PTL
DEF SessionSpec, ImplementsMemCtrl, Controller!Spec

\* With the real controller too, the machine does one instruction after the other, and a
\* register is set between two of them or not at all.
THEOREM SimulatorImplementsIsa == SessionSpec => ImplementsIsa
<1>1. Pipe!ShellInit => Pipe!Machine!Init
  BY UnitConstants, PipeConstants, Pipe!ShellInitRefines
<1>2. Pipe!ShellIndInv /\ [Pipe!ShellNext]_(Pipe!shellVars) =>
        [IF left = 0 THEN Pipe!Machine!UserSets ELSE Pipe!Machine!Next]_(Pipe!Machine!vars)
  BY UnitConstants, PipeConstants, Pipe!ShellNextRefines
<1>3. SessionInit => Pipe!Machine!Init
  BY <1>1, SessionInits
<1>4. SessionInv /\ [SessionNext]_sessionVars =>
        [IF left = 0 THEN Pipe!Machine!UserSets ELSE Pipe!Machine!Next]_(Pipe!Machine!vars)
  BY <1>2, SessionSteps DEF SessionInv
<1> QED
  BY <1>3, <1>4, PartsStayCorrect, PTL DEF SessionSpec, ImplementsIsa,
     Pipe!SessionImplementsIsa
=============================================================================
