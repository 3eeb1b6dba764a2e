----------------------------- MODULE Hierarchy ------------------------------
(***************************************************************************)
(* The caches and the main memory: what the blocks contain and how         *)
(* transfer_mem_hier moves them.  A fill of an L1 cache and of the L2      *)
(* cache is immediate in the code; the time it takes is modelled by stalls *)
(* of the pipeline and by the requests it puts in the MSHR queue.          *)
(*                                                                         *)
(* A cache maps the blocks it holds to their data.  Which way a block is   *)
(* in and which block of a full set is the victim are left to CacheSet:    *)
(* here any block of the set may be.                                       *)
(***************************************************************************)
EXTENDS Integers, FiniteSets

CONSTANTS
  Blocks,   \* block numbers, address \div 32
  Mapped,   \* the blocks in the regions of the memory
  Words,    \* the words of a block
  Values,   \* the values of a word
  Zero,     \* the value mem_read_32 gives outside the regions
  NoData,   \* what a cache holds of a block that it does not hold
  NumSets,  \* the sets of each cache
  NumWays   \* the ways of each cache

L1Caches == {"ir", "d"}
Caches == L1Caches \cup {"l2"}
Data == [Words -> Values]

ASSUME HierarchyAssumption ==
  /\ Blocks \subseteq Nat
  /\ Mapped \subseteq Blocks
  /\ Zero \in Values
  /\ NoData \notin Data
  /\ NumSets \in [Caches -> Nat \ {0}]
  /\ NumWays \in [Caches -> Nat \ {0}]

VARIABLES
  memory,   \* the regions of the main memory
  copy,     \* what each cache holds of each block
  dirty,    \* the blocks each cache holds with their dirty bit set
  served,   \* the last read and what it returned
  stored,   \* history: the blocks stored to
  aborted   \* an assertion of the C code has failed

vars == <<memory, copy, dirty, served, stored, aborted>>

Init ==
  /\ memory \in [Mapped -> Data]
  /\ copy = [c \in Caches |-> [b \in Blocks |-> NoData]]
  /\ dirty = [c \in Caches |-> {}]
  /\ served = [op |-> "none"]
  /\ stored = {}
  /\ aborted = FALSE

-----------------------------------------------------------------------------
(* Reading and writing.                                                    *)

\* find_block_position
Hits(c, b) == copy[c][b] # NoData

\* cache_read
Read(op, c, b, w) ==
  /\ ~aborted /\ Hits(c, b)
  /\ served' = [op |-> op, blk |-> b, word |-> w, val |-> copy[c][b][w]]
  /\ UNCHANGED <<memory, copy, dirty, stored, aborted>>

\* A load that hits in pipe_stage_mem.
Load(b, w) == Read("load", "d", b, w)

\* A fetch that hits in pipe_stage_fetch.
Fetch(b, w) == Read("fetch", "ir", b, w)

\* Mutant: the dirty bit is not set.
DirtyUnlessHeld(b, w, v) == dirty["d"]

\* cache_write sets the dirty bit unless the word has that value already.
DirtyAfterWrite(b, w, v) ==
  IF copy["d"][b][w] = v THEN dirty["d"] ELSE dirty["d"] \cup {b}

\* A store that hits.  SB and SH read the word in the same cycle, and write it
\* with some of its bytes replaced.
Store(b, w, v) ==
  /\ ~aborted /\ Hits("d", b)
  /\ copy' = [copy EXCEPT !["d"][b][w] = v]
  /\ dirty' = [dirty EXCEPT !["d"] = DirtyAfterWrite(b, w, v)]
  /\ stored' = stored \cup {b}
  /\ UNCHANGED <<memory, served, aborted>>

-----------------------------------------------------------------------------
(* Moving blocks.                                                          *)

\* The blocks of cache c in the set of block b, as decode_address finds it.
InSet(c, b) == {x \in Blocks : Hits(c, x) /\ x % NumSets[c] = b % NumSets[c]}

\* mem2cache: what is evicted for block b.
Evictions(c, b) ==
  IF Cardinality(InSet(c, b)) < NumWays[c] THEN {{}} ELSE {{x} : x \in InSet(c, b)}

\* Mutant: a victim is not written back.
NothingWritten(c, out) == memory

\* Mutant: a victim is written back whether it is dirty or not.
AllWrittenBack(c, out) ==
  [b \in Mapped |-> IF b \in out THEN copy[c][b] ELSE memory[b]]

\* Mutant: cache2mem is given the address of another block of the victim's set.
WrittenBackAstray(c, out) ==
  [b \in Mapped |-> IF \E x \in out \cap dirty[c] : b \in InSet(c, x) \ out
                    THEN copy[c][CHOOSE x \in out : TRUE] ELSE memory[b]]

\* cache2mem of the dirty blocks of out.
WrittenBack(c, out) ==
  [b \in Mapped |-> IF b \in out \cap dirty[c] THEN copy[c][b] ELSE memory[b]]

\* Mutant: cache2cache is left out.
L2Kept(c, out) == copy["l2"]

\* cache2cache of the dirty blocks of out that the L2 cache holds.
L2Updated(c, out) ==
  [b \in Blocks |-> IF b \in out \cap dirty[c] /\ Hits("l2", b)
                    THEN copy[c][b] ELSE copy["l2"][b]]

\* Mutant: the L2 cache takes over the dirty bit.
L2TakesDirty(c, out) == dirty["l2"] \cup {b \in out \cap dirty[c] : Hits("l2", b)}

\* cache2cache clears the dirty bit of the block it writes.
L2Dirty(c, out) == dirty["l2"] \ (out \cap dirty[c])

\* read_block_from_memory
MemoryBlock(m, b) == IF b \in Mapped THEN m[b] ELSE [w \in Words |-> Zero]

Filled(lines, out, b, data) ==
  [x \in Blocks |-> IF x = b THEN data ELSE IF x \in out THEN NoData ELSE lines[x]]

\* mem2cache finds a dirty victim in another cache than the data cache.
DirtyElsewhere(c, out, out2) ==
  \/ c # "d" /\ out \cap dirty[c] # {}
  \/ out2 \cap L2Dirty(c, out) # {}

\* transfer_mem_hier: a block that misses in L1 cache c is read from memory, into
\* the L2 cache too if it misses there.
Transfer(c, b) ==
  /\ ~aborted /\ ~Hits(c, b)
  /\ \E out \in Evictions(c, b) :
     \E out2 \in IF Hits("l2", b) THEN {{}} ELSE Evictions("l2", b) :
       LET l2 == L2Updated(c, out)
           data == MemoryBlock(WrittenBack(c, out), b)
       IN  /\ memory' = WrittenBack(c, out)
           /\ copy' = [copy EXCEPT ![c] = Filled(copy[c], out, b, data),
                                   !["l2"] = IF Hits("l2", b) THEN l2
                                             ELSE Filled(l2, out2, b, data)]
           /\ dirty' = [dirty EXCEPT ![c] = @ \ (out \cup {b}),
                                     !["l2"] = L2Dirty(c, out) \ out2]
           /\ aborted' = DirtyElsewhere(c, out, out2)
  /\ UNCHANGED <<served, stored>>

Next ==
  \/ \E b \in Blocks, w \in Words : Load(b, w) \/ Fetch(b, w)
  \/ \E b \in Blocks, w \in Words, v \in Values : Store(b, w, v)
  \/ \E c \in L1Caches, b \in Blocks : Transfer(c, b)

Spec == Init /\ [][Next]_vars

-----------------------------------------------------------------------------
(* Properties.                                                             *)

TypeOK ==
  /\ memory \in [Mapped -> Data]
  /\ copy \in [Caches -> [Blocks -> Data \cup {NoData}]]
  /\ dirty \in [Caches -> SUBSET Blocks]
  /\ stored \subseteq Blocks
  /\ aborted \in BOOLEAN

\* Only the data cache ever evicts a dirty block: mem2cache's assertion holds,
\* for the victims of the L2 cache and of the instruction cache too.
OnlyDataIsWrittenBack == ~aborted

\* The L2 cache holds what the memory holds, although L1 caches are filled from
\* memory and written back past it, and it does not know what they hold.
L2MatchesMemory == \A b \in Mapped : Hits("l2", b) => copy["l2"][b] = memory[b]

\* A block of the data cache may be dropped without a write-back if it is clean,
\* inside the regions of the memory or outside.
CleanMatchesMemory ==
  \A b \in Blocks :
    Hits("d", b) /\ b \notin dirty["d"] => copy["d"][b] = MemoryBlock(memory, b)

\* What the program has stored in a block: the data cache's copy, if there is one.
Contents(b) == IF Hits("d", b) THEN copy["d"][b] ELSE MemoryBlock(memory, b)

\* mdump and the fills of the instruction cache may find an older contents of a block
\* in memory, but nothing else: a block of the memory only ever changes to what the
\* program reads in it at that moment, never to what another cache kept of it
\* (cache2mem, mem2cache, mdump).
MemoryFollowsProgram ==
  [][\A b \in Mapped : memory'[b] # memory[b] => memory'[b] = Contents(b)]_vars

\* The fetch stage would read other code than the memory holds.
CodeIsStale(b) == Hits("ir", b) /\ copy["ir"][b] # MemoryBlock(memory, b)

\* Nothing tells the instruction cache of stores.  Its copy of a block goes stale when
\* the data cache evicts the block after stores to it, and by no fill or eviction of
\* another block (mem2cache, pipe_stage_fetch).
StaleByWriteBack ==
  [][\A b \in Blocks : CodeIsStale(b)' /\ ~CodeIsStale(b) =>
                          b \in dirty["d"] /\ ~Hits("d", b)']_vars

\* The caches together behave as one memory, in which a block outside the
\* regions keeps what was stored to it until the data cache evicts it.
Flat == INSTANCE FlatMemory WITH
  contents <- [b \in Blocks |-> Contents(b)], modified <- stored

ServesAsFlatMemory == Flat!Spec

-----------------------------------------------------------------------------
(* The inductive invariant.                                                *)

\* Code that was not stored to is the same in the instruction cache.
CodeMatchesMemory ==
  \A b \in Blocks \ stored : Hits("ir", b) => copy["ir"][b] = MemoryBlock(memory, b)

IndInv ==
  /\ TypeOK
  /\ OnlyDataIsWrittenBack
  /\ L2MatchesMemory
  /\ CleanMatchesMemory
  /\ CodeMatchesMemory
  /\ dirty["ir"] = {} /\ dirty["l2"] = {}
  /\ dirty["d"] \subseteq stored \cap {b \in Blocks : Hits("d", b)}

=============================================================================
