------------------------- MODULE MemCtrlRefinement --------------------------
(***************************************************************************)
(* MemCtrl implements BlockService: of a block there is still to arrive    *)
(* what the queue holds of it.                                             *)
(***************************************************************************)
EXTENDS MemCtrl

\* The positions of the queue at which there is a word of block b.
WordsOf(queue, b) == {i \in 1 .. Len(queue) : queue[i].blk = b}

Left == [b \in Blocks |-> Cardinality(WordsOf(mshr, b))]

Service == INSTANCE BlockService WITH left <- Left, running <- run_bit

\* The controller delivers blocks as BlockService promises: word by word, and
\* at most one word in a cycle.
ImplementsBlockService == Service!Spec

\* No request is starved by row hits or lost by finish_request: every block
\* asked for arrives, unless the machine halts first.
EveryBlockAnswered == Service!EveryBlockArrives

=============================================================================
