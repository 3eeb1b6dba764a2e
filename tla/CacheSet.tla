------------------------------ MODULE CacheSet ------------------------------
(***************************************************************************)
(* One set of a cache: which block each way holds, and the insert and      *)
(* replacement policies of policy.c as commit and find_evicted_block of    *)
(* cache.c call them.  What the blocks contain is left to Hierarchy.       *)
(*                                                                         *)
(* config is the choice that the macros of config.h make when the program  *)
(* is compiled, and whether the cache is the L2 cache, which always uses   *)
(* MRU and LRU.  The array eaf is the sequence of its first eaf_length     *)
(* entries, the only ones read.                                            *)
(***************************************************************************)
EXTENDS Lists

CONSTANTS
  A,          \* the associativity
  Addresses,  \* the addresses of blocks that belong to this set
  NoBlock,    \* what an invalid way holds
  Configs,    \* the configurations considered
  EafSize,    \* the entries of the array eaf: the blocks of the larger L1 cache
  L1Blocks,   \* cache_size / block_size of an L1 cache
  L2Blocks    \* and of the L2 cache, 0x40000 / 32

AllConfigs ==
  [insert : {"MRU", "EAF", "BIP", "LIP"}, replace : {"LRU", "RANDOM"},
   policy : {""}, l2 : {FALSE}]
  \cup [insert : {""}, replace : {""}, policy : {"FIFO", "LFU"}, l2 : {FALSE}]
  \cup [insert : {"MRU"}, replace : {"LRU"}, policy : {""}, l2 : {TRUE}]

ASSUME CacheSetAssumption ==
  /\ A \in Nat \ {0}
  /\ NoBlock \notin Addresses
  /\ Configs \subseteq AllConfigs
  /\ {EafSize, L1Blocks, L2Blocks} \subseteq Nat
  /\ L1Blocks <= EafSize

VARIABLES
  config,
  block,      \* the block in each way
  order,      \* the ways, as the policies sort them
  frequency,  \* how often each way was committed
  eaf,        \* the addresses in the evicted-address filter
  stray       \* "set" or "eaf": the array a write has missed, else "no"

vars == <<config, block, order, frequency, eaf, stray>>

Ways == 0 .. A - 1
Slots == 0 .. A - 1
NoWay == -1

-----------------------------------------------------------------------------
(* The order of a set.                                                     *)

FindCurrentOrder(o, way) ==
  LET found == {i \in Slots : o[i] = way}
  IN  IF found = {} THEN NoWay ELSE Least(found)

\* The loops of commit_mru and commit_lip: take out slot k and put way first, last.

\* Mutant: the loop leaves out its last step.
MoveToFrontShort(o, k, way) ==
  [i \in Slots |-> IF i = 0 THEN way ELSE IF i < k THEN o[i - 1] ELSE o[i]]

MoveToFront(o, k, way) ==
  [i \in Slots |-> IF i = 0 THEN way ELSE IF i <= k THEN o[i - 1] ELSE o[i]]
MoveToBack(o, k, way) ==
  [i \in Slots |-> IF i = A - 1 THEN way ELSE IF i >= k THEN o[i + 1] ELSE o[i]]

\* Mutant: a way that is not found displaces the first one.
CommitMruOverFirst(o, way) ==
  LET k == FindCurrentOrder(o, way)
  IN  MoveToFront(o, IF k = NoWay THEN 0 ELSE k, way)

CommitMru(o, way) ==
  LET k == FindCurrentOrder(o, way)
  IN  MoveToFront(o, IF k = NoWay THEN A - 1 ELSE k, way)

\* The first line of commit_lip, commit_bip and commit_eaf.  There is no return
\* behind it: after a hit they go on as after an insertion.
Touched(o, way, first) == IF first THEN o ELSE CommitMru(o, way)

CommitLip(o, way, first) ==
  LET t == Touched(o, way, first)
      k == FindCurrentOrder(t, way)
  IN  IF k = NoWay THEN CommitMru(t, way) ELSE MoveToBack(t, k, way)

\* One of the two orders is taken, as rand() % 64 decides.
CommitBip(o, way, first) ==
  LET t == Touched(o, way, first)
  IN  {CommitMru(t, way), CommitLip(t, way, first)}

CommitEaf(o, way, first, filtered) ==
  LET t == Touched(o, way, first)
  IN  IF filtered THEN {CommitMru(t, way)} ELSE CommitBip(t, way, first)

\* Mutant: the test of first_commit is missing.
CommitFifoAlways(o, way, first) == CommitMru(o, way)

CommitFifo(o, way, first) == IF first THEN CommitMru(o, way) ELSE o

\* commit: the orders a commit of way may lead to.  filtered tells whether the
\* address of its block is in the evicted-address filter.
Commit(o, way, first, filtered) ==
  IF config.l2 \/ config.insert = "MRU" THEN {CommitMru(o, way)}
  ELSE CASE config.insert = "EAF" -> CommitEaf(o, way, first, filtered)
         [] config.insert = "BIP" -> CommitBip(o, way, first)
         [] config.insert = "LIP" -> {CommitLip(o, way, first)}
         [] config.policy = "FIFO" -> {CommitFifo(o, way, first)}
         [] config.policy = "LFU" -> {o}

Filtered(a, filter) == \E i \in 1 .. Len(filter) : filter[i] = a

-----------------------------------------------------------------------------
(* Replacement.                                                            *)

\* feb_lfu
LeastUsedWay == Least({w \in Ways : \A v \in Ways : frequency[w] <= frequency[v]})

\* find_evicted_block: the ways that may be evicted.  feb_lru may find the value
\* that cache_init put into order instead of a way.
Victims ==
  IF config.replace = "LRU" \/ config.l2 THEN {order[A - 1]}
  ELSE CASE config.replace = "RANDOM" -> Ways
         [] config.policy = "FIFO" -> {order[A - 1]}
         [] config.policy = "LFU" -> {LeastUsedWay}

\* Mutant: feb_lfu does not reset the count of the way.
KeptCount(way) == frequency[way]

\* feb_lfu resets the count of the way it evicts.
CountAfterEviction(way) ==
  IF config.policy = "LFU" THEN 0 ELSE frequency[way]

\* The entries of eaf that find_evicted_block uses.
EafLimit == IF config.l2 THEN L2Blocks ELSE L1Blocks

\* find_evicted_block records the victim's address; a full filter is emptied
\* instead, and the address is not recorded.
Record(a) == IF Len(eaf) < EafLimit THEN Append(eaf, a) ELSE << >>

-----------------------------------------------------------------------------
(* The actions.                                                            *)

\* cache_init sets the order of the L1 caches to -1.  That of the L2 cache stays
\* 0, as everything else is by memset or as a static object.
Init ==
  /\ config \in Configs
  /\ block = [w \in Ways |-> NoBlock]
  /\ order = [i \in Slots |-> IF config.l2 THEN 0 ELSE NoWay]
  /\ frequency = [w \in Ways |-> 0]
  /\ eaf = << >>
  /\ stray = "no"

\* cache_read, cache_write, and transfer_mem_hier's commit to the L2 cache.
Hit(a) ==
  /\ stray = "no"
  /\ \E way \in Ways :
       /\ block[way] = a
       /\ order' \in Commit(order, way, FALSE, Filtered(a, eaf))
       /\ frequency' = [frequency EXCEPT ![way] = @ + 1]
  /\ UNCHANGED <<config, block, eaf, stray>>

InvalidWays == {w \in Ways : block[w] = NoBlock}

\* Mutant: the last way is not looked at.
MissesButLast(a) == \A w \in Ways \ {A - 1} : block[w] # a

\* find_block_position finds nothing.
Misses(a) == \A w \in Ways : block[w] # a

\* mem2cache with an invalid way: the first one is filled.
Fill(a) ==
  /\ stray = "no" /\ Misses(a)
  /\ InvalidWays # {}
  /\ LET way == Least(InvalidWays)
     IN  /\ block' = [block EXCEPT ![way] = a]
         /\ order' \in Commit(order, way, TRUE, Filtered(a, eaf))
         /\ frequency' = [frequency EXCEPT ![way] = @ + 1]
  /\ UNCHANGED <<config, eaf, stray>>

\* mem2cache on a full set: a way is evicted and filled.
Evict(a) ==
  /\ stray = "no" /\ Misses(a)
  /\ InvalidWays = {}
  /\ \E way \in Victims \cap Ways :
       /\ eaf' = Record(block[way])
       /\ block' = [block EXCEPT ![way] = a]
       /\ order' \in Commit(order, way, TRUE, Filtered(a, eaf'))
       /\ frequency' = [frequency EXCEPT ![way] = CountAfterEviction(way) + 1]
       /\ stray' = IF Len(eaf') > EafSize THEN "eaf" ELSE "no"
  /\ UNCHANGED config

\* The victim is not a way of the set: the model ends where the program goes on
\* with whatever lies before the set.
EvictOutside(a) ==
  /\ stray = "no" /\ Misses(a)
  /\ InvalidWays = {}
  /\ \E way \in Victims : way \notin Ways
  /\ stray' = "set"
  /\ UNCHANGED <<config, block, order, frequency, eaf>>

Next == \E a \in Addresses : Hit(a) \/ Fill(a) \/ Evict(a) \/ EvictOutside(a)

Spec == Init /\ [][Next]_vars

-----------------------------------------------------------------------------
(* Properties.                                                             *)

TypeOK ==
  /\ config \in Configs
  /\ block \in [Ways -> Addresses \cup {NoBlock}]
  /\ order \in [Slots -> Ways \cup {NoWay}]
  /\ frequency \in [Ways -> Nat]
  /\ eaf \in Seq(Addresses) /\ Len(eaf) <= EafLimit
  /\ stray \in {"no", "set", "eaf"}

\* No block is in two ways of its set, whatever the policies choose.
NoBlockTwice ==
  \A v, w \in Ways : block[v] = block[w] /\ block[v] # NoBlock => v = w

\* find_evicted_block finds a block of the set: "find the evicted block according
\* to different policies" (cache.h:74), which config.h:9-13 lists as implemented.
VictimIsInSet == stray # "set"

\* feb_lru depends on an insert policy that keeps every way in the order.
MruVictimIsInSet == config.replace # "LRU" \/ config.insert = "MRU" => VictimIsInSet

\* The array eaf has room for its "valide eaf-cache length" (cache.h:43).
EafStaysInArray == stray # "eaf"

\* The configurations in which order is what LRU and FIFO evict by.
KeepsOrder == config.insert = "MRU" \/ config.policy = "FIFO"

\* Once a set is full, every way has one place in the order: commit_mru has put
\* each way there that it did not find, and lost none that it moved.
FullSetIsOrdered ==
  KeepsOrder /\ InvalidWays = {} =>
    \A w \in Ways : \E i \in Slots : \A j \in Slots : order[j] = w <=> j = i

-----------------------------------------------------------------------------
(* The inductive invariant.                                                *)

Cold == IF config.l2 THEN 0 ELSE NoWay

\* The first n slots of an order hold the ways below n, each of them once, and
\* the others what cache_init put there.
Orders(o, n, cold) ==
  /\ \A i \in Slots : IF i < n THEN o[i] \in 0 .. n - 1 ELSE o[i] = cold
  /\ \A i, j \in 0 .. n - 1 : o[i] = o[j] => i = j
  /\ \A w \in 0 .. n - 1 : \E i \in 0 .. n - 1 : o[i] = w

\* The ways are filled from the first on, and ordered as they are filled.
FilledUpTo(n) ==
  /\ \A w \in Ways : w < n <=> block[w] # NoBlock
  /\ KeepsOrder => Orders(order, n, Cold)

\* With every way of a full set in the order, its last slot is a way of the set.
IndInv ==
  /\ TypeOK
  /\ NoBlockTwice
  /\ MruVictimIsInSet
  /\ \E n \in 0 .. A : FilledUpTo(n)

=============================================================================
