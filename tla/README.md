# A verification of the MIPS timing simulator

The repository is a cycle-level simulator of a five-stage MIPS pipeline (`src/src/pipe.c`) with an
instruction, a data and an L2 cache (`cache.c`, `policy.c`), a DRAM controller with row buffers and
shared buses (`mem_ctrl.c`), and a shell around them (`shell.c`). This directory models it in TLA+,
checks the models with TLC and proves the main invariants with TLAPS.

## 1. Inventory

| Part | State | Operations | Interacts with |
|---|---|---|---|
| Memory controller, `mem_ctrl.c` | MSHR queue `l2_cache.mshr`, `row_buffer[8]`, busy sets of the command bus, the data bus and the banks | `in_mshr`, `probe_mshr`, `mem_cycle` (`finish_request`, `clean_up`, `find_request_to_serve`, `serve_request`) | called by `transfer_mem_hier` (requests), by the memory and fetch stages (probes), and at the end of every `pipe_cycle`; reads `stat_cycles` and `RUN_BIT` |
| Cache sets and policies, `cache.c`, `policy.c` | the blocks in the ways, `order`, `frequency`, `eaf`, `eaf_length` | `cache_read`, `cache_write`, `mem2cache`, `commit`, `find_evicted_block` | called by the memory and fetch stages; configured by the macros of `config.h` |
| Address arithmetic, `cache.c`, `mem_ctrl.c` | - | `decode_address`, `traverse_block`, `get_offset_in_block`, `get_row`, `get_bank` | caches, controller |
| Cache hierarchy, `cache.c`, `transfer_mem_hier` | the data and the dirty bits of three caches, the main memory | hit, store, `mem2cache`, `cache2mem`, `cache2cache` | `mem_read_32` and `mem_write_32` of `shell.c` |
| Pipeline, `pipe.c` | four slots between the stages, `PC`, `REGS`, `HI`, `LO`, `branch_recover`, `mem_stall`, `instruction_stall`, `multiplier_stall` | the five stages, run from write-back to fetch, then `mem_cycle` and the recovery | everything above; clears `RUN_BIT` |
| Instruction set, `pipe.c`, `mips.h` | - | decode, the cases of `pipe_stage_execute` | pipeline |
| Shell, `shell.c` | `RUN_BIT`, `stat_cycles`, the memory regions | `go`, `run n`, `rdump`, `mdump`, `input`, `high`, `low`, `load_program` | pipeline, memory |
| `Makefile`, `run.py`, `inputs/` | - | build; compare registers with a reference simulator | - |

What is hard here. The program is sequential, but what it simulates is concurrent: requests for two
blocks interleave on banks and buses, the fetch and memory stages compete for the L2 cache and the
queue, a branch recovery overtakes a miss of the path it abandons, and the controller's bookkeeping
depends on equalities of cycle numbers and on assertions about lists that only hold for the
schedules it makes. Caches are filled at once, while the time this takes is counted separately in
stalls and in the queue, so that data and timing can disagree. The policies are hardly reachable
by the tests, which compare the registers of whole programs.

What makes each part correct:

- *controller*: every block asked for arrives, soon enough; the buses and banks are never used twice
  at a time; a row stays open until its word is read; the last word of a block comes last; no
  assertion fails;
- *sets*: a block is in one way; the victim is a way of the set and the one the policy names;
- *hierarchy*: loads return what was last stored, wherever the block has been meanwhile; no dirty
  block is dropped or found where none may be; memory and the instruction cache may have an older
  contents of a block, never a wrong one;
- *addresses*: set and tag identify a block; all words of a block are in one row;
- *pipeline*: the registers and the memory after each instruction are those of the instructions
  executed one by one; squashed instructions leave no trace; instructions retire until the exit;
- *shell*: stopping between two cycles and going on never shows; `go` goes on to the exit.

The hazards, at their lines, are in `PROJECT.json`.

## 2. Modules

| Module | Models |
|---|---|
| `Lists` | the list loops of `mem_ctrl.c` without recursion: `EveryOther` is the effect of a loop that steps over the element behind one it removes (`finish_request`, `merge`), `Without`, `LinkAfter`, `Least` |
| `MemCtrl` | the memory controller. `Request(b)` puts the words of a block in the queue; `Cycle(run)` is a whole `mem_cycle` followed by `++stat_cycles`, with (`Serve`) or without (`Idle`) a request to serve. An assertion that fails sets `aborted` |
| `CommandBus` | `MemCtrl` with a history variable, the commands granted, and the invariant that relates them to the busy sets |
| `Waiting` | `CommandBus` with two more: the last cycle in which each block was put in the queue or found it crowded, and that of the last request |
| `BlockService` | abstract: blocks are asked for and arrive word by word, one word at most in a cycle |
| `MemCtrlRefinement` | the refinement mapping: of a block there is still to arrive what the queue holds of it |
| `MemCtrlInvariant`, `MemCtrlProofs`, `HistoryProofs`, `ListsProofs` | the inductive invariant, the proofs |
| `CacheSet` | one set of a cache under any configuration of `config.h`: `Hit`, `Fill`, `Evict`; `EvictOutside` when the slot the victim is taken from holds no way |
| `RecencyList`, `UseCounts` | abstract: a list of blocks for LRU, FIFO and RANDOM; use counts for LFU |
| `CacheSetRefinement`, `CacheSetProofs` | the refinement mappings and the proofs |
| `Hierarchy` | what the blocks of the three caches and the memory contain: `Load`, `Fetch`, `Store` that hit, `Transfer(c, b)`, a whole `transfer_mem_hier` with both evictions, the write-back and the update of the L2 copy |
| `FlatMemory` | abstract: one memory, in which blocks outside the regions may be forgotten |
| `Geometry` | how addresses are cut up, for any parameters of a cache |
| `Instructions` | the classes and fields of instructions; the units (adder, multiplier, branch conditions, the parts of words that loads and stores use) as constant functions |
| `Pipeline` | `pipe_cycle`, one action per outcome of each stage: `WriteBack`, `MemWaits`, `MemMisses`, `MemPasses`, `ExecuteWaits`, `Execute`, `Decode`, `FetchWaits`, `FetchStops`, `FetchMisses`, `Fetch`, then `MemCycle` and `Recover` |
| `Isa` | abstract: a machine that executes one instruction after the other |
| `PipelineRefinement`, `PipelineProofs` | the refinement mapping, the invariant; the proofs |
| `Shell`, `ShellProofs` | `Pipeline` driven by commands: `Run(n)`, `Go`, `Input`, `InputHiLo` at the prompt, `Cycle` while `run` or `go` is in its loop; the proofs |
| `Computer` | `cycle()` with both: the stages are those of `Pipeline`, `mem_cycle` is `Cycle` of `MemCtrl`, and a miss puts the words of its block in the controller's queue |
| `Simulator` | the whole program: `Computer` under the commands of `Shell` |
| `ComputerRefinement`, `ComputerProofs` | what `Simulator` implements: `Shell`, `MemCtrl`, `Isa`; the proofs |
| `Arithmetic` | sums, comparisons, shifts, products and quotients of the execute stage, and the bytes and halves of the memory stage, for words of any width |
| `Alu` | these, and the operations that work bit by bit |
| `Units` | what `Arithmetic` and `Geometry` are for. They keep no state: a state is one input, and nothing changes it |
| `DataProofs` | the proofs about `Units` and `Hierarchy` |
| `MC...` | constants and views for TLC |

How code and models correspond. An action is a whole call from the pipeline. In `MemCtrl` the busy
sets are sequences of `[min, max]` ranges in the order of the C lists, operated on by `Insert`,
`Merge` and `Expire`, which follow `insert`, `merge` and `clean_up_helper` to the letter: `merge`
forgets the cycles of the node it unlinks and skips the next one, `query_bus_busy_status` compares
with `<=`, `schedulable` and `set_busy_status` disagree about the third command of a conflict. In
`CacheSet`, `order` starts with -1 in the L1 caches and with 0 in the L2 cache, as `cache_init`
leaves it, and `commit_lip`, `commit_bip` and `commit_eaf` go on after the `commit_mru` of a hit.
`rand()` is a choice. `Hierarchy` lets any block of a full set be the victim, which covers every
policy whose victim is in the set (`CacheSet` says which are); a set is `b % NumSets`, as
`decode_address` computes for a power of two. A block outside the memory regions reads as zeros and
its write-back is dropped, which `FlatMemory` shows as `Forget`. `Hierarchy` has no `wait`: the pipeline stalls after a transfer, but the
caches are already filled.

In `Pipeline` the variable `stage` is the call of `pipe_cycle` that comes next, and a slot is a
`Pipe_Op` or `NoOp`. `branch_recover.flush = 0` stands for `branch_recover == 0`, as `pipe_recover` is
never asked to flush nothing. An instruction has the fields `pipe_stage_decode` extracts, whichever of
them its format uses: its class is `op`, and `fn` is what the execute or memory stage computes. A
`MULT` or `SYSCALL` with a field `rd` other than 0 clears that register, and an opcode that decode
does not know passes through (`other`). Register 0 reads as 0 whatever `input` has put there.
Addresses are those of bytes, and memory is accessed by words: `SB` and `SH` read the word in the
cycle in which they write it back (`Patched`). `Link`, the register of linking branches, is 31.
The execute stage returns while the memory slot is taken, so that of its bypasses only the one from
the write-back slot can be used, and only that one is modelled. The other two components enter
`Pipeline` as what they promise it:

- the *caches* by the time they cost. `CachesAreOneMemory` shows that they serve loads as one memory
  does, which is `memory`. The block an L1 cache was given last is in it, as only a transfer to the
  same cache evicts; any other block may hit or miss, in the L1 cache as in the L2 cache, which
  covers every history and every policy. A store to the text segment is outside the model, as it is
  outside `FlatMemory`'s promise: instructions and data are in different blocks.
  Nor does `Pipeline` have addresses outside the memory regions, which `FlatMemory` may forget.
- the *controller* by the words of each block in the queue. `MemCycle` takes at most one word from it,
  a probe for the last word of a block asks whether any word is left, and when a word leaves is left
  open.

`MemCtrl` in turn makes one assumption about its client, in `Request`: the machine runs, there is room
in the queue, and no word of the block is still in it. Neither side has to be trusted with this:
`Computer` puts the two together. Its stages are those of `Pipeline`, with `LastWords`, what
`probe_mshr` returns, for the queue; its cycle is that of `MemCtrl`; and `Transfer` appends the words
of the block to `mshr` unless `in_mshr` would assert. `Simulator` runs it under the commands of `Shell`:
the prompt returns with whatever is in the queue, on the buses and in the banks. That it implements `Shell`
(`ImplementsShell`) and `MemCtrl` (`ImplementsMemCtrl`) is proved. That no word of the block is
left when it is requested is so because a stage whose block is in the queue is stalled, for the
instruction as for the data cache (`pipe.c:147` and `700`). Room in the queue is not guaranteed, as
`computer_queue` shows: then `in_mshr` aborts, which all three models have.

`Shell` is `Pipeline` with one variable more, `left`, the cycles the command has still to run: 0 at
the prompt, -1 for `go`. A command is read when the one before has returned, so the commands that set
registers act when `stage` is `"wb"`, with slots and stalls as the last cycle left them. They write the
register file. A register that an instruction which has executed has still to write gets that
instruction's value, so that the `input` is lost, although the help text says "set GPR reg_no to
reg_value" (`shell.c:125`); one that a decoded instruction reads has the new value, as operands are
read in the execute stage. `SessionImplementsIsa` says exactly this: between cycles a step of the
user changes one register of `Isa`, or none.

## 3. Runs

| Run | Shows | Bounds |
|---|---|---|
| `memctrl` | the safety properties and the invariant of the controller, that commands do not overlap, that the controller never idles while requests wait, and two bounds on the wait | two banks, two rows, four blocks of two words, a queue of two blocks; 5, 1 and 2 cycles for 100, 4 and 50. Runs of any length, thanks to `RelativeView` |
| `memctrl_live` | every block arrives; refinement of `BlockService` | the same blocks and latencies; requests up to cycle 30, clock up to 90 |
| `cacheset` | invariant, uniqueness, victims, refinement of `RecencyList` and `UseCounts` | three ways, five blocks, all configurations, filter of 2 entries (3 for L2), counts up to 4 |
| `cacheset_lip` | *violation*: LRU after LIP, BIP or EAF insertion takes way -1 | as `cacheset` |
| `cacheset_eaf` | *violation*: the L2 filter outgrows its array | as `cacheset` |
| `hierarchy` | invariant, coherence, how stale memory and code may be, refinement of `FlatMemory` | three blocks, one unmapped; two words, two values; a data cache of two blocks, an L2 cache of two sets of one block, an instruction cache of one |
| `pipeline` | invariant, refinement of `Isa` | every program of three instructions of twelve kinds and a system call; words of four bits, which are values, addresses and PCs, so that a byte is one bit and a half two; four words of memory; registers 0, 2, 3 and 31; blocks of two words, a queue of two blocks; stalls of 2 (L2 cache, multiplier) and 1 (memory) |
| `pipeline_stop` | *violation*: the PC does not stop behind the exit | as `pipeline` |
| `shell` | the same with commands between cycles; `go` goes on retiring instructions until the program ends | four loops with a load, a store of a half, a multiplication, a branch and an exit; `run 1`, `run 2`, `go`; register 2, HI and LO set between any two cycles |
| `computer` | the invariants of both parts, the refinements of `Shell`, `MemCtrl` and `Isa`, and that programs end under `go` | eight words of instructions to a block, a queue of two blocks, eight banks and the block numbers of the text and data segments, all as in the code; stalls of 16 and 11; 12, 2 and 6 cycles for 100, 4 and 50; a straight program with a load, a store and a product, and one with a branch back over a miss; `run 1`, `go`, register 3 and LO set between any two cycles; 400 cycles, more than either takes |
| `computer_queue` | *violation*: a third block is put in the queue | as `computer`, with 100, 4 and 50 cycles and `go` alone; a branch behind which the fetch stage has missed, to a load in another block |
| `units` | the operations of `Alu` and of `Geometry` against what they are to compute | all words of four bits; the three caches as configured and three other geometries, one of 48 sets; all pairs of 120 addresses at the edges of blocks, sets and rows |

Each `IndInv` begins with the type invariant of its module; `WaitInv`, the invariant of `memctrl`, contains
`BusInv` and that the `IndInv` of the controller.

*Why the bounds are enough.* The controller's interesting cases need two blocks in the queue at once:
in the same or in different banks, in the same or in different rows, and four blocks give all
combinations. Two words per block are enough for one word of a block to overtake another. The third
command of a conflict and the data bus interact only through the values 100, 4 and 50; 5, 1 and 2
keep their order and the proportion of an access to a word on the data bus, and the proofs hold for
all values. In a set, three ways are the fewest in which a way can be neither first nor last,
and two more blocks than ways let a set be full of other blocks than those evicted. In `hierarchy`
every cache is smaller than the set of blocks, so that each evicts blocks another holds. In `pipeline`
three instructions in a row are in three different slots, with every combination of a producer, a
consumer and what lies between, a branch with both instructions it squashes, and an exit with both
instructions behind it; PCs wrap around, so that programs go on until an exit. Two blocks of
instructions and two of data make the two stages compete for the queue, and stalls of two cycles can
outlast and be outlasted by a block in the queue. In `shell` the prompt may return after each single
cycle, so that the programs only have to differ in what is in the slots there. In `computer` any block
but the latest may miss, so that two programs produce thousands of schedules of two requests on the
real geometry; that the L2 cache may give a block back at any time covers misses the caches of the code
would not have. The units work on
words bit by bit, on the sign bit or modulo the size of a word, and four bits are the fewest that have
four bytes. The proofs remove the bounds for safety.

*The wait of a request.* Row hits overtake older requests, and nothing in the scheduler says how often.
The answer depends on the client. While words of three blocks are in the queue, a block can starve:
a word of another bank holds the data bus, so that the row hit of block A has to wait; a conflict in
A's bank is served meanwhile and closes A's row; and from then on row hits of other blocks overtake what
is left of A, for as long as such blocks keep coming. With the sizes and latencies of the code TLC
finds, in simulation, a block that waits more than 39 000 cycles in this way, and there is no bound. A
queue of 16 words holds two blocks of 8, but a third can be requested as soon as eight words have left, of
whatever block. The pipeline does not send such a stream: both stages stall on their blocks, so
that the requests end until A arrives. So `WaitIsBounded` says two things, which hold for a client that
requests at any time:

- a word of a block gets its turn within `LongestWait`, counted from the last cycle in which the block was
  requested or the queue had words of three blocks. The words of the one other block may overtake each
  word of this one, so that for word w this is w times the services of a block and one word more; for
  a whole block of the code, 8 * 9 * 349 cycles;
- after the last request the queue is empty within `Services(MshrSize)`, a conflict for every entry: 16 * 349
  cycles in the code.

Both rest on `AlwaysServing`: no cycle ends with requests in the queue and none in flight, so that one
finishes every 349 cycles at most (3 accesses of 100 cycles, 50 on the data bus). `memctrl_live` looks
at the same question without counting, for requests up to `LastRequest`.

*Views.* The controller compares cycle numbers only with each other, except for `stat_cycles != 0`,
so two states that agree in all numbers relative to `stat_cycles`, and in whether it is 0, have the
same future, and the invariants are invariant under the shift too. `MCCacheSet`'s view drops
`frequency` unless LFU reads it, and the entries of `eaf`, though not their number, unless EAF reads
them. `MCHierarchy`'s view drops the value last returned, which no step reads; the refinement is
still checked on every step. Words are symmetric.

*Fairness.* `go()` calls `cycle()` as long as `RUN_BIT` is set, so the clock is weakly fair; nothing
is assumed of requests. In `memctrl_live` the clock runs until all requests made up to `LastRequest`
are answered, but at most to `LastCycle`: a request that were not answered by then would be a
counterexample.

In `shell` a command goes on until it returns (`run`, `go`), so `Cycle` is weakly fair, while nothing
is assumed of the user, who may stop the pipeline after every cycle. A cycle need not serve a word; what is
assumed of the controller is that it serves again and again a block that a stage waits for all the time
(`Awaited`). That is the second half of `WaitIsBounded`: while one stage is stalled, the other runs out of
instructions or of room for them, and then no block is requested and the queue drains. Nothing is assumed of a
block that the fetch stage has turned away from after a branch: row hits may overtake it for ever, but
nobody waits for it.

In `computer` no fairness is assumed of the controller: under a command `cycle()` makes its calls in turn
as long as `RUN_BIT` is set, so `Running` is weakly fair, and that every stall ends is a fact about `mem_cycle`.

*Deadlock* is checked in `computer`: whatever the slots, the queue and the busy sets contain, the next
call is possible until the exit or a failed assertion. It is not checked for the controller, the
pipeline and the shell, which stop with the machine or at a failed assertion, and for the sets, whose
model ends at a write outside the arrays.

## 4. Proofs

All results hold for every value of the constants that satisfies the assumptions.

- `MemCtrlProofs`, from `MemCtrlAssumption`: positive sizes, `CmdLen < Step`, `CmdLen <= DataLen`.
  `IndInv` adds to the properties what they rest on. The ranges of a bus have one length and are more
  than that length apart, so that `insert` never meets its assertion and `merge` never has anything to
  merge. A range has not ended before the previous cycle, so that `clean_up_helper`, which drops one
  range per cycle, keeps up. A request in flight holds the data bus to the cycle it finishes in and
  its bank, with its row open, until its word is on the bus. The misplaced third mark of a conflict
  coincides with the first cycle of a word on the data bus (`FarMarksAreWords`), which is why the
  marks stay apart although nobody asked for that cycle. Since words are apart on the bus no two
  finish in a cycle, and the loop that steps over an entry misses nothing. The words of a block are
  in the queue, in flight and finished in order. The step is split in two: what `finish_request` and
  `clean_up` leave satisfies the invariant for the next cycle, and `serve_request` keeps it.
  `BlocksArriveByWords` proves the refinement of `BlockService`: a request adds the words of a block that has none in the queue, which makes it an
  `Ask`; the queue `finish_request` leaves corresponds one to one to the entries that are not due, and
  at most one is due, which makes a cycle a `Deliver` or, without one, a stutter or a `Halt`;
  `serve_request` changes the block of no entry.
- `HistoryProofs`, the commands, from the same assumption. `set_busy_status` marks the third command of a
  conflict an access later than `schedulable` asked for, so that the cycle the command is sent in is
  not marked and a later request might take it. `BusInv` says why none does. Every command is
  `Recorded`: by a mark at its own cycle, or, if it is the third of a conflict, by the mark an access
  later together with the word on the data bus at that cycle. A request that would send a command
  within `CmdLen` of the unmarked one has, by the spacing of its own commands and its word, either
  another command or its word within the same distance of one of those two marks, which
  `schedulable` rejects. It follows that no two commands overlap, whatever the latencies.
- `HistoryProofs`, the waits, from this and `WaitingAssumption`: `CmdLen < DataLen`. `MarksAreOfFlights` says
  that what is marked ahead on a bus or for a bank was marked for a request in flight and ends before it
  finishes: a mark outlasts no flight. So with nothing in flight nothing is in the way of the first request of
  the queue, and it is served (`NothingInTheWay`); that is `ControllerServesAlways`. For this a command
  has to be over before its word is: were it as long as a word, the mark of the third command of a conflict,
  which is where the word begins, would last a cycle too long. `FlightsAreNear` bounds the time a request is in
  flight. For the turns, `InTurn` says that the request in flight is a word of the block itself, or of the other
  block, whose later words may go first but are fewer each time; when none is left, the block has the queue
  to itself and its next word is in flight (`CycleKeepsTurns`, with `LaterThanDue` for the order of the words).
  A word that finishes in its own turn leaves `LongestWait(1)` more for the next one. `Drains` says the same of the
  queue as a whole: every request that leaves takes one service off what is left
  (`CycleKeepsDraining`, `OneServiceLess`).
- `CacheSetProofs`, from `CacheSetAssumption`. The ways are filled from the first on; with MRU or FIFO
  insertion the first n slots of `order` are a permutation of the n ways in use and the others hold
  what `cache_init` put there. So the last slot of a full set is a way. `SetsEvictByRecency` proves
  that the list of blocks in the order of the slots is the list of `RecencyList`. `SetsEvictByUse`
  proves that under LFU the counts of the ways are those of `UseCounts` for the blocks they hold: a
  block is in one way, there are as many blocks as valid ways, so that both see a full set at the same
  time, and a way that was never filled was never counted (`UnusedUncounted`), so that a block starts
  at 1 there as it does in an evicted way.
- `DataProofs`, the caches, from `HierarchyAssumption`. L2 copies and clean blocks of the data cache equal
  memory, no other cache has dirty blocks, and blocks never stored to are the same in the instruction
  cache; a block outside the regions counts as one of zeros in memory. With that a transfer changes no word as the program sees it, and `CachesAreOneMemory`
  proves the refinement of `FlatMemory`. What `mdump` and fetches of stored code may see is said by two
  action properties: memory changes by write-backs of dirty victims, which are the data cache's, hence to
  what the program reads there (`MemoryIsNeverWrong`); and a fill takes what memory holds after them, so
  that code goes stale only as its own block is written back (`CodeGoesStaleByWriteBack`).
- `DataProofs`, the addresses, from `GeometryAssumption`: a block is a power of two of words, and a cache
  has a set and less than 2^31 bytes. For every such cache and every address `AddressesDecode` says
  that set and tag are those of one block, whatever the number of sets, and that a word is read where
  it is. The powers of two up to 2^32 come from a table, as the provers know powers of literals only,
  and their products from induction in the form the prover takes, a set without a least element
  (`NaturalsInSet`). With them the shifts and masks of `decode_address` and `traverse_block`
  are quotients and remainders by the sizes of blocks, sets and words (`CutUp`). `RowsHoldBlocks`
  says the same of rows and banks for the L2 cache.
- `DataProofs`, the units, from `ArithmeticAssumption`: up to 32 bits, in four bytes. `ComparisonsAgree`
  is about signs, comparisons and branches, `ProductsHold` about HI and LO: a product is two words
  (`TwoWords`), and quotient and remainder fit in a word but for the case C leaves undefined. For
  `BytesHold` a word is a number of four digits, with a byte for the base (`Number`); a store replaces a
  digit or two, and the loads take them out again, with a sign that is in every higher bit
  (`BitsOfExtended`). `ShiftsHold` is the part of `ShiftsAndBits` about shifts: an arithmetic shift is a
  field of the word, extended (`ArithmeticShift`).
- `PipelineProofs`, from `InstructionsAssumption` and `PipelineAssumption`: units that map words to
  words. The mapping counts an instruction as done from its execute stage
  on: the registers `Isa` sees are those of the file with the results of the write-back and memory
  slots written over them, the load in the memory slot included. That an operand is the one `Isa`
  reads is then that of all pending results only the write-back slot can hold one
  (`OperandView`). The address `Isa` executes next is the recovery's, or the PC of the oldest op not yet
  executed; that it is right rests on `InOrder`: outside a recovery the slots and the PC hold
  consecutive addresses. `OpsInStage` says that an op in the execute slot is what decoding the
  instruction at its PC gives. Once an exit has been executed the mapping ignores
  younger results in the registers, and what those instructions do to HI, LO and memory is a
  `Trace` of `Isa`. `SlotsFree` says that no stage overwrites a slot.
- `ShellProofs`, from these and `ShellAssumption`. The invariant of the pipeline does not depend on
  the contents of registers, so that commands keep it, and a step of the pipeline keeps `left`
  consistent with `stage`. For the refinement a command that sets a register is a `UserSets` of `Isa`
  or, if the register has a pending result, no step of it.
- `ComputerProofs`, from `ComputerAssumption` (that of both parts, and that different blocks have
  different numbers), `SimulatorAssumption` and `InstructionsAssumption`. The invariant is that of the pipeline, with the
  words left of each block for its queue, and that of the controller. The pipeline probes for the last
  word of a block. By `LaterWordsQueued`, words are in the queue in order and with all the words behind
  them, so that the last word is there exactly if any is (`LastWordTells`); so the stages, proved with
  counts, may be run with probes. A cycle takes at most one word (`CycleTakesOneWord`), and the counts
  add up to the length of the queue, by a bijection (`QueueIsItsBlocks`), so that both parts see it
  full at the same time. A stage that misses is not stalled, hence has not found its block, hence no
  word of it is left, which is what `MemCtrl` asks of a request. A command changes nothing of the queue
  and the busy sets (`CommandSteps`), so that sessions need no more. The refinement of `Isa` is then that
  of `ShellProofs`, instantiated.

Only model-checked: liveness (`EveryBlockAnswered`, `GoProgresses`, `ProgramEnds`) and
its fairness, which are out of the prover's reach; and the part of `ShiftsAndBits` about the logical
operations, as the module `Bitwise` is recursive.

## 5. Disagreements found

1. LIP, BIP and EAF insertion with LRU replacement take a block before the set (`cacheset_lip`).
2. The L2 filter outgrows its array (`cacheset_eaf`).
3. The queue overflows: a fetch misses and waits, a branch in front of it is taken, the fetch of
   the branch's target hits or waits for a short stall and misses again, and a load misses meanwhile.
   The assertion of `in_mshr` fails (`computer_queue`).
4. The PC at the end is not always that behind the exit (`pipeline_stop`).

Four more, which no run shows. `mdump` reads the main memory (`shell.c:226`) and shows old words where
the data cache holds newer ones; they are words the program had there (`MemoryFollowsProgram`). `set_busy_status` marks the third command of a conflict 100 cycles
after the cycle `schedulable` asked for (`mem_ctrl.c:213` and `373`); `CommandsDontOverlap` holds all
the same. The help text promises to run `n` instructions (`shell.c:122`), and `run` simulates `n`
cycles. `input` may be overwritten by an instruction that has already executed (see section 2).

## 6. Plan and limits

The plan's parts are in place: the units, bytes and halves, addresses, the command bus, the waits, the
pipeline on the queue of the controller, and both under the commands of the shell. Left open is how long a
stall of the pipeline may take: `WaitIsBounded` bounds the wait for any client that pauses or keeps to two
blocks, and that the stages of the pipeline do either is only model-checked (`ProgramEnds`).

Not modelled:

- the cutting of fields out of the bits of an instruction, which a model could only restate;
- the text of commands, `rdump`, `mdump` and `help`, and the statistics, which nothing reads back;
- `input` of a register number outside 0 .. 31, and stores to the text segment in `Pipeline` (that the
  instruction cache does not see them is in `FlatMemory`);
- block sizes other than 32 in the hierarchy and the pipeline: `cache2cache` asserts equal sizes;
- cycle numbers beyond 2^31, when `finished_cycle` overflows (`mem_ctrl.c:264`);
- the quotient of the least number by -1, undefined in C. Shifts by a register of 32 and more are
  undefined too; the processors the simulator runs on take the amount modulo 32, as `Arithmetic` does;
- the build, `run.py` and the test programs.
