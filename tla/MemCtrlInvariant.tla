-------------------------- MODULE MemCtrlInvariant --------------------------
(***************************************************************************)
(* The inductive invariant behind the safety properties of MemCtrl.  It is *)
(* written over a queue q, busy sets bz, row buffers rb and a cycle t,     *)
(* because a cycle of the controller is two steps of the argument: the     *)
(* queue and the busy sets that finish_request and clean_up leave satisfy  *)
(* it for the next cycle, and serve_request keeps it.                      *)
(***************************************************************************)
EXTENDS MemCtrl

\* Ranges of one length, apart from each other and in order of time.
Spaced(list, len) ==
  /\ \A i \in 1 .. Len(list) : list[i].max = list[i].min + len - 1
  /\ \A i, j \in 1 .. Len(list) : i < j => list[j].min - list[i].min > len

\* No range ended before the previous cycle, as clean_up_helper asserts.
NotPassed(list, t) == \A i \in 1 .. Len(list) : list[i].max >= t - 1

\* A mark far ahead on the command bus is at the cycle of a word's first cycle
\* on the data bus: schedulable did not ask for it, but it asked for the word's.
FarMarksAreWords(bz, t) ==
  \A i \in 1 .. Len(bz.cmd) :
    \/ bz.cmd[i].min < t + Step
    \/ \E j \in 1 .. Len(bz.data) : bz.data[j].min = bz.cmd[i].min

Buses(bz, t) ==
  /\ Spaced(bz.cmd, CmdLen) /\ NotPassed(bz.cmd, t)
  /\ Spaced(bz.data, DataLen) /\ NotPassed(bz.data, t)
  /\ FarMarksAreWords(bz, t)
  /\ \A k \in Banks : Len(bz.bank[k]) <= 1 /\ NotPassed(bz.bank[k], t)

Flying(q) == {i \in 1 .. Len(q) : q[i].fin # NotServed}

\* A request in flight finishes in this cycle or later, and holds the data bus
\* up to then.
HoldsDataBus(q, bz, t, i) ==
  /\ q[i].fin > 0 /\ q[i].fin >= t
  /\ \E j \in 1 .. Len(bz.data) : bz.data[j].max = q[i].fin

\* Until its word is on the data bus it holds its bank, with its row open.
HoldsBank(q, bz, rb, t, i) ==
  LET k == GetBank(q[i].blk)
  IN  \/ q[i].fin - DataLen < t - 1
      \/ /\ Len(bz.bank[k]) = 1
         /\ bz.bank[k][1].max >= q[i].fin - DataLen
         /\ rb[k] = GetRow(q[i].blk)

Flights(q, bz, rb, t) ==
  /\ \A i \in Flying(q) : HoldsDataBus(q, bz, t, i) /\ HoldsBank(q, bz, rb, t, i)
  /\ \A i, j \in Flying(q) : i # j => Distance(q[i].fin, q[j].fin) >= DataLen

\* The words of a block are queued, served and finished in order.
WordsInOrder(q) ==
  \A i, j \in 1 .. Len(q) :
    i < j /\ q[i].blk = q[j].blk =>
      /\ q[i].word < q[j].word
      /\ j \in Flying(q) => i \in Flying(q) /\ q[i].fin < q[j].fin

\* With each word of a block the words behind it are queued, the last one too.
LaterWordsQueued(q) ==
  \A i \in 1 .. Len(q) : \A w \in q[i].word .. BlockWords : Probe(q, q[i].blk, w)

\* The inductive invariant.  The busy sets are freed when the machine halts, so
\* what relates them to the queue holds until then.
IndInv ==
  /\ TypeOK
  /\ NoAbort
  /\ LaterWordsQueued(mshr)
  /\ run_bit => /\ Buses(busy, stat_cycles)
                /\ Flights(mshr, busy, row_buffer, stat_cycles)
                /\ WordsInOrder(mshr)

=============================================================================
