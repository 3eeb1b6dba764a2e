------------------------- MODULE CacheSetRefinement -------------------------
(***************************************************************************)
(* CacheSet implements RecencyList under LRU, FIFO and RANDOM replacement  *)
(* of blocks inserted as most recently used, and UseCounts under LFU.      *)
(***************************************************************************)
EXTENDS CacheSet

Mode ==
  IF ~KeepsOrder THEN "none"
  ELSE IF config.policy = "FIFO" THEN "FIFO"
  ELSE config.replace

\* The blocks b of the valid ways, in the order o.
ListOf(b, o) ==
  [i \in 1 .. Cardinality({w \in Ways : b[w] # NoBlock}) |-> b[o[i - 1]]]

Recent == IF KeepsOrder THEN ListOf(block, order) ELSE << >>

Counts ==
  LET resident == IF config.policy = "LFU" THEN {block[w] : w \in Ways \ InvalidWays} ELSE {}
  IN  [a \in resident |-> frequency[CHOOSE w \in Ways : block[w] = a]]

Recency == INSTANCE RecencyList WITH Capacity <- A, recent <- Recent, mode <- Mode
Usage == INSTANCE UseCounts WITH Capacity <- A, uses <- Counts

\* LRU, FIFO and RANDOM evict and promote as the list of recency says.
EvictsByRecency == Recency!Spec

\* LFU evicts a block that was used least since it came in.
EvictsByUse == Usage!Spec

=============================================================================
