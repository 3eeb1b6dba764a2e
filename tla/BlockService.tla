---------------------------- MODULE BlockService ----------------------------
(***************************************************************************)
(* What the pipeline relies on of the memory below the L2 cache: a block   *)
(* asked for arrives word by word, at most one word of all blocks in a     *)
(* cycle, and is there in the end.  MemCtrl implements this.               *)
(***************************************************************************)
EXTENDS Naturals

CONSTANTS Blocks, BlockWords

VARIABLES
  left,     \* the words of each block that have still to arrive
  running   \* the machine has not halted

vars == <<left, running>>

Init ==
  /\ left = [b \in Blocks |-> 0]
  /\ running = TRUE

Ask(b) ==
  /\ running
  /\ left[b] = 0
  /\ left' = [left EXCEPT ![b] = BlockWords]
  /\ UNCHANGED running

\* A word arrives, perhaps in the last cycle before the machine stops.
Deliver(b) ==
  /\ running
  /\ left[b] > 0
  /\ left' = [left EXCEPT ![b] = @ - 1]
  /\ running' \in BOOLEAN

Halt ==
  /\ running
  /\ running' = FALSE
  /\ UNCHANGED left

Next ==
  \/ \E b \in Blocks : Ask(b) \/ Deliver(b)
  \/ Halt

Spec == Init /\ [][Next]_vars

\* Every block asked for arrives, unless the machine halts first.
EveryBlockArrives ==
  \A b \in Blocks : left[b] > 0 ~> (left[b] = 0 \/ ~running)

=============================================================================
