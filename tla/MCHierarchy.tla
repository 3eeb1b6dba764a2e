---------------------------- MODULE MCHierarchy -----------------------------
(***************************************************************************)
(* Hierarchy with three blocks, of which block 1 lies outside the regions  *)
(* of the memory.  The data cache has one set of two blocks, the L2 cache  *)
(* two sets of one block and the instruction cache room for one block, so  *)
(* that each evicts blocks that another one holds.  View leaves out what   *)
(* the last read returned, on which no step depends.                       *)
(***************************************************************************)
EXTENDS Hierarchy, TLC

MCBlocks == 0 .. 2
MCMapped == {0, 2}
MCSets == [c \in Caches |-> IF c = "l2" THEN 2 ELSE 1]
MCWays == [c \in Caches |-> IF c = "d" THEN 2 ELSE 1]

WordsAlike == Permutations(Words)

View == <<memory, copy, dirty, stored, aborted>>

=============================================================================
