------------------------- MODULE ComputerRefinement --------------------------
(***************************************************************************)
(* What Shell with Pipeline and MemCtrl assume of each other holds when    *)
(* they are put together: Simulator implements both.                       *)
(***************************************************************************)
EXTENDS Simulator

\* The words of each block that are in the queue.
WordsLeft == [b \in DOMAIN BlockNumber |-> Controller!Left[BlockNumber[b]]]

Pipe == INSTANCE ShellProofs WITH queue <- WordsLeft

\* What is known of the parts is known of the whole, and is inductive for it.
ComputerInv == Pipe!IndInv /\ Controller!IndInv
SessionInv == Pipe!ShellIndInv /\ Controller!IndInv

\* The pipeline may count the words of a block that are left, although it probes for the
\* last one only: they leave the queue one at a time and in order, at most one a cycle
\* (probe_mshr, finish_request).  A session may be stopped whatever is in the queue.
ImplementsShell == Pipe!ShellSpec

\* The controller is asked for a block only while the machine runs, when there is room
\* for it, and when no word of it is in the queue (in_mshr, mem_ctrl.c:304).
ImplementsMemCtrl == Controller!Spec

\* With real memory latencies too the machine does one instruction after the other,
\* however the session is cut into commands (get_command), and but for the registers set.
ImplementsIsa == Pipe!SessionImplementsIsa

\* A program that ends without memory ends with it under go: no stall waits for a block
\* that was not asked for, or will not come, whatever the stops before.
ProgramEnds == left = Commands!Unbounded ~> (left = 0 \/ aborted)

\* The queue has room for every block the stages request (in_mshr, mem_ctrl.c:306).
QueueHasRoom == ~aborted
=============================================================================
