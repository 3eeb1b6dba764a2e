------------------------------ MODULE MemCtrl -------------------------------
(***************************************************************************)
(* The memory controller (mem_ctrl.c): the MSHR queue of word requests,    *)
(* the row buffers of the DRAM banks, the busy sets of the command bus,    *)
(* the data bus and the banks, and the scheduler that serves the queue,    *)
(* row hits first and otherwise in order of arrival.                       *)
(*                                                                         *)
(* An address is a block number (address \div 32) and a word of the block; *)
(* the bank and the row of an address depend on its block only.  The       *)
(* valid and done bits of an MSHR_T are left out: valid is TRUE exactly    *)
(* below the queue's length, and nothing reads done.                       *)
(***************************************************************************)
EXTENDS Lists

CONSTANTS
  Blocks,        \* the block numbers requested, address \div 32
  BlockWords,    \* words of an L2 block, 32 / 4 = 8 in cache_init
  MshrSize,      \* entries of mshr_arr, 16
  NumBanks,      \* 8
  BlocksPerRow,  \* blocks that share a row number, 2^16 / 32 = 2048
  Step,          \* cycles of one access to a bank, 100
  CmdLen,        \* cycles a command takes on its bus, 4
  DataLen        \* cycles a word takes on the data bus, 50

ASSUME MemCtrlAssumption ==
  /\ Blocks \subseteq Nat
  /\ {BlockWords, MshrSize, NumBanks, BlocksPerRow} \subseteq Nat \ {0}
  /\ {Step, CmdLen, DataLen} \subseteq Nat \ {0}
  /\ CmdLen < Step
  /\ CmdLen <= DataLen

VARIABLES
  mshr,         \* l2_cache.mshr: the requests, oldest first
  row_buffer,   \* the row each bank's row buffer holds, NoRow for none
  busy,         \* the busy sets of the buses and the banks
  stat_cycles,  \* the current cycle
  run_bit,      \* RUN_BIT: FALSE once the exit syscall has been retired
  aborted       \* an assertion of the C code has failed

vars == <<mshr, row_buffer, busy, stat_cycles, run_bit, aborted>>

NoRow == -1
NotServed == -1
Banks == 0 .. NumBanks - 1
RANGE_T == [min : Int, max : Int]
NothingBusy == [cmd |-> << >>, data |-> << >>, bank |-> [k \in Banks |-> << >>]]

GetRow(b) == b \div BlocksPerRow
GetBank(b) == b % NumBanks

-----------------------------------------------------------------------------
(* Busy sets: lists of ranges of cycles, ordered by their first cycle.     *)

NewRange(at, len) == [min |-> at, max |-> at + len - 1]

Distance(a, b) == IF a < b THEN b - a ELSE a - b

\* Mutant: the comparison is strict.
QueryBusyStrict(list, starts, len) ==
  \E at \in starts, i \in 1 .. Len(list) : Distance(at, list[i].min) < len

\* query_bus_busy_status: is one of the starting cycles too near a range?
QueryBusy(list, starts, len) ==
  \E at \in starts, i \in 1 .. Len(list) : Distance(at, list[i].min) <= len

\* The nodes at which the walk of insert ends before the last node.
InsertStops(list, at, len) ==
  {i \in 1 .. Len(list) - 1 : list[i].max >= at \/ list[i+1].min > at + len}

\* insert: how many nodes precede the new one.
InsertPosition(list, at, len) ==
  IF list = << >> \/ list[1].min > at + len THEN 0
  ELSE IF InsertStops(list, at, len) = {} THEN Len(list)
  ELSE Least(InsertStops(list, at, len))

Insert(list, at, len) ==
  LinkAfter(list, InsertPosition(list, at, len), NewRange(at, len))

\* insert reaches its assert(FALSE): the walk meets a node not before the range.
InsertFails(list, at, len) ==
  LET k == InsertPosition(list, at, len)
  IN  k \in InsertStops(list, at, len) /\ list[k].max >= at

\* merge: unlink a node that continues its predecessor.  The predecessor keeps
\* its own last cycle, so the cycles of the unlinked node are forgotten.
Merge(list) ==
  Without(list, EveryOther({i \in 2 .. Len(list) : list[i-1].max + 1 = list[i].min}))

Reserve(list, at, len) == Merge(Insert(list, at, len))

\* clean_up_helper: drop the first range once it has passed.
Expire(list) ==
  IF list # << >> /\ list[1].max < stat_cycles THEN Tail(list) ELSE list

ExpireFails(list) == list # << >> /\ list[1].max < stat_cycles - 1

\* clean_up: expire every set, and free them all when the machine has halted.
CleanUp(run) ==
  IF run
  THEN [cmd |-> Expire(busy.cmd), data |-> Expire(busy.data),
        bank |-> [k \in Banks |-> Expire(busy.bank[k])]]
  ELSE NothingBusy

CleanUpFails ==
  \/ ExpireFails(busy.cmd)
  \/ ExpireFails(busy.data)
  \/ \E k \in Banks : ExpireFails(busy.bank[k])

-----------------------------------------------------------------------------
(* The MSHR queue.                                                         *)

\* in_mshr for each word of a block, as transfer_mem_hier calls it.
Enqueued(queue, b) ==
  queue \o [w \in 1 .. BlockWords |-> [blk |-> b, word |-> w, fin |-> NotServed]]

\* in_mshr's assertion fails on the way.
EnqueueFails(queue) == Len(queue) + BlockWords > MshrSize

\* probe_mshr for a word of a block.
Probe(queue, b, w) ==
  \E i \in 1 .. Len(queue) : queue[i].blk = b /\ queue[i].word = w

\* Mutant: the loop of finish_request leaves out the youngest entry.
DueButLast ==
  {i \in 1 .. Len(mshr) - 1 : mshr[i].fin = stat_cycles /\ stat_cycles # 0}

\* finish_request and out_mshr: take out the requests that finish in this cycle.
Due == {i \in 1 .. Len(mshr) : mshr[i].fin = stat_cycles /\ stat_cycles # 0}

\* Mutant: out_mshr finds its entries by block, not by word.
FinishWholeBlock ==
  Without(mshr, {i \in 1 .. Len(mshr) : \E j \in Due : mshr[i].blk = mshr[j].blk})

FinishRequest == Without(mshr, EveryOther(Due))

-----------------------------------------------------------------------------
(* The scheduler.                                                          *)

HIT == 0
MISS == 1
CONFLICT == 2

RowBufferStatus(b) ==
  IF row_buffer[GetBank(b)] = NoRow THEN MISS
  ELSE IF row_buffer[GetBank(b)] = GetRow(b) THEN HIT ELSE CONFLICT

\* The cycles at which schedulable wants the command bus for a request.
CommandCycles(status) == {stat_cycles + k * Step : k \in 0 .. status}

\* The cycle at which a request's word goes onto the data bus.
DataCycle(status) == stat_cycles + Step * (status + 1)

\* Mutant: the bank is not looked at.
SchedulableAnyBank(r, bz) ==
  LET status == RowBufferStatus(r.blk)
  IN  /\ ~QueryBusy(bz.cmd, CommandCycles(status), CmdLen)
      /\ ~QueryBusy(bz.data, {DataCycle(status)}, DataLen)

Schedulable(r, bz) ==
  LET status == RowBufferStatus(r.blk)
  IN  /\ ~QueryBusy(bz.cmd, CommandCycles(status), CmdLen)
      /\ ~QueryBusy(bz.data, {DataCycle(status)}, DataLen)
      /\ bz.bank[GetBank(r.blk)] = << >>

\* traverse_mshr: the requests it may return.
Candidates(queue, bz, row_hit) ==
  {i \in 1 .. Len(queue) : /\ ~(queue[i].fin > 0)
                           /\ Schedulable(queue[i], bz)
                           /\ row_hit <=> RowBufferStatus(queue[i].blk) = HIT}

\* Mutant: the queue is searched from its tail.
RequestFromTail(queue, bz) ==
  LET hits == Candidates(queue, bz, TRUE)
      others == Candidates(queue, bz, FALSE)
      Last(S) == {i \in S : \A j \in S : j <= i}
  IN  IF hits # {} THEN Last(hits) ELSE Last(others)

\* find_request_to_serve: the oldest row hit, or else the oldest request; the
\* set is empty when there is none.
RequestToServe(queue, bz) ==
  LET hits == Candidates(queue, bz, TRUE)
      others == Candidates(queue, bz, FALSE)
  IN  IF hits # {} THEN {Least(hits)}
      ELSE IF others # {} THEN {Least(others)} ELSE {}

\* Mutant: only the first command is marked.
MarkFirstCommand(list, status) == Reserve(list, stat_cycles, CmdLen)

\* The ranges set_busy_status puts on the command bus.  The third command of a
\* CONFLICT is marked at 3 * Step, although schedulable asked for 2 * Step.
MarkCommands(list, status) ==
  LET first == Reserve(list, stat_cycles, CmdLen)
      second == Reserve(first, stat_cycles + Step, CmdLen)
      third == Reserve(second, stat_cycles + 3 * Step, CmdLen)
  IN  CASE status = HIT -> first [] status = MISS -> second
        [] status = CONFLICT -> third

MarkCommandsFails(list, status) ==
  LET first == Reserve(list, stat_cycles, CmdLen)
      second == Reserve(first, stat_cycles + Step, CmdLen)
  IN  \/ InsertFails(list, stat_cycles, CmdLen)
      \/ status # HIT /\ InsertFails(first, stat_cycles + Step, CmdLen)
      \/ status = CONFLICT /\ InsertFails(second, stat_cycles + 3 * Step, CmdLen)

\* Mutant: the bank is released one access too early.
BankReleasedEarly(bz, status, bank) ==
  [cmd |-> MarkCommands(bz.cmd, status),
   data |-> Reserve(bz.data, DataCycle(status), DataLen),
   bank |-> [bz.bank EXCEPT ![bank] = <<NewRange(stat_cycles, Step * status + 1)>>]]

\* Mutant: the bank stays busy until its word has left the data bus.
BankHeldForWord(bz, status, bank) ==
  [cmd |-> MarkCommands(bz.cmd, status),
   data |-> Reserve(bz.data, DataCycle(status), DataLen),
   bank |-> [bz.bank EXCEPT
               ![bank] = <<NewRange(stat_cycles, Step * (status + 1) + DataLen)>>]]

\* Mutant: the word is marked one access too early on the data bus.
DataMarkedEarly(bz, status, bank) ==
  [cmd |-> MarkCommands(bz.cmd, status),
   data |-> Reserve(bz.data, DataCycle(status) - Step, DataLen),
   bank |-> [bz.bank EXCEPT
               ![bank] = <<NewRange(stat_cycles, Step * (status + 1))>>]]

SetBusyStatus(bz, status, bank) ==
  [cmd |-> MarkCommands(bz.cmd, status),
   data |-> Reserve(bz.data, DataCycle(status), DataLen),
   bank |-> [bz.bank EXCEPT
               ![bank] = <<NewRange(stat_cycles, Step * (status + 1))>>]]

SetBusyStatusFails(bz, status, bank) ==
  \/ bz.bank[bank] # << >>
  \/ MarkCommandsFails(bz.cmd, status)
  \/ InsertFails(bz.data, DataCycle(status), DataLen)

-----------------------------------------------------------------------------
(* The actions.                                                            *)

Init ==
  /\ mshr = << >>
  /\ row_buffer = [k \in Banks |-> NoRow]
  /\ busy = NothingBusy
  /\ stat_cycles = 0
  /\ run_bit = TRUE
  /\ aborted = FALSE

\* The memory half of transfer_mem_hier, called by the fetch and the memory
\* stage before mem_cycle: all the words of a block enter the queue.  The
\* client is assumed to leave room for them, and not to request a block some
\* word of which is still in the queue, as the L2 cache holds it already.
Request(b) ==
  /\ run_bit /\ ~aborted
  /\ ~EnqueueFails(mshr)
  /\ \A w \in 1 .. BlockWords : ~Probe(mshr, b, w)
  /\ mshr' = Enqueued(mshr, b)
  /\ UNCHANGED <<row_buffer, busy, stat_cycles, run_bit, aborted>>

\* mem_cycle when nothing can be served.
Idle(run) ==
  LET bz == CleanUp(run)
  IN  /\ RequestToServe(FinishRequest, bz) = {}
      /\ mshr' = FinishRequest
      /\ busy' = bz
      /\ aborted' = CleanUpFails
      /\ UNCHANGED row_buffer

\* mem_cycle with serve_request on the request found.
Serve(run) ==
  LET bz == CleanUp(run)
  IN  \E i \in RequestToServe(FinishRequest, bz) :
        LET b == FinishRequest[i].blk
            status == RowBufferStatus(b)
        IN  /\ mshr' = [FinishRequest EXCEPT ![i].fin =
                          DataCycle(status) + DataLen - 1]
            /\ row_buffer' = [row_buffer EXCEPT ![GetBank(b)] = GetRow(b)]
            /\ busy' = SetBusyStatus(bz, status, GetBank(b))
            /\ aborted' = (CleanUpFails
                           \/ SetBusyStatusFails(bz, status, GetBank(b)))

\* The clock's part of cycle().  run is what the write-back stage of this cycle
\* left in RUN_BIT.
Tick(run) ==
  /\ run_bit /\ ~aborted
  /\ run_bit' = run
  /\ stat_cycles' = stat_cycles + 1

\* The end of cycle(): mem_cycle, then ++stat_cycles.
Cycle(run) == Tick(run) /\ (Idle(run) \/ Serve(run))

Next ==
  \/ \E b \in Blocks : Request(b)
  \/ Cycle(TRUE)
  \/ Cycle(FALSE)

Spec == Init /\ [][Next]_vars

\* go() calls cycle() as long as RUN_BIT is set.  Only Cycle changes stat_cycles,
\* and Idle or Serve is always possible, so this is weak fairness of Cycle(TRUE).
Fairness == WF_stat_cycles(Tick(TRUE))
FairSpec == Spec /\ Fairness

-----------------------------------------------------------------------------
(* Properties.                                                             *)

InFlight == {i \in 1 .. Len(mshr) : mshr[i].fin # NotServed}

TypeOK ==
  /\ mshr \in Seq([blk : Blocks, word : 1 .. BlockWords, fin : Int])
  /\ Len(mshr) <= MshrSize
  /\ row_buffer \in [Banks -> Nat \cup {NoRow}]
  /\ busy \in [cmd : Seq(RANGE_T), data : Seq(RANGE_T), bank : [Banks -> Seq(RANGE_T)]]
  /\ stat_cycles \in Nat
  /\ run_bit \in BOOLEAN
  /\ aborted \in BOOLEAN

\* No assertion of mem_ctrl.c fails: clean_up_helper never finds a range it
\* missed the end of, insert never walks into a range it cannot be put before
\* or after, and serve_request never finds the bank occupied.
NoAbort == ~aborted

\* finish_request compares finished_cycle with the cycle by equality, so a
\* request whose cycle has passed would stay in the queue for ever.
NoMissedFinish ==
  run_bit => \A i \in InFlight : mshr[i].fin >= stat_cycles

\* Two words never share the data bus: a request that finishes in cycle f holds
\* the bus from f - DataLen + 1 on.  In particular no two requests finish in one
\* cycle, which the loop of finish_request depends on: it steps over the request
\* behind one it takes out, and would never look at its cycle again.
WordsDontShareBus ==
  run_bit => \A i, j \in InFlight :
    i # j => Distance(mshr[i].fin, mshr[j].fin) >= DataLen

\* The pipeline waits for a block by probing for its last word alone
\* (pipe.c: (address & ~31) + 0x1C), so no word may outlive the last one, in
\* whatever order the scheduler serves rows, banks and blocks.
LastWordLast ==
  \A b \in Blocks :
    (\E w \in 1 .. BlockWords : Probe(mshr, b, w)) => Probe(mshr, b, BlockWords)

\* The row of a request stays in its bank's row buffer until the word has left
\* the bank for the data bus, whatever else is served meanwhile.
RowStaysOpen ==
  run_bit => \A i \in InFlight :
    stat_cycles <= mshr[i].fin - DataLen + 1 =>
      row_buffer[GetBank(mshr[i].blk)] = GetRow(mshr[i].blk)

=============================================================================
