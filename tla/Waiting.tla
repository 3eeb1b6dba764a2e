------------------------------ MODULE Waiting -------------------------------
(***************************************************************************)
(* CommandBus with two more history variables, for how long a request      *)
(* waits.  The scheduler prefers row hits to older requests, so that a     *)
(* stream of row hits of ever new blocks can hold up a conflict for ever.  *)
(* That takes three blocks in the queue, and requests that never end: the  *)
(* cycles counted here are those a block spends in the queue with one      *)
(* other block at most, and those since the last request.                  *)
(***************************************************************************)
EXTENDS CommandBus

\* A command takes its bus for less time than a word: 4 and 50 cycles in the code.
ASSUME WaitingAssumption == CmdLen < DataLen

VARIABLES
  since,   \* the last cycle in which each block was put in the queue, or found it crowded
  asked    \* the last cycle in which a block was put in the queue

wvars == <<cvars, since, asked>>

\* Words of three blocks are in the queue.
Crowded(q) ==
  \E i, j, k \in 1 .. Len(q) :
    q[i].blk # q[j].blk /\ q[i].blk # q[k].blk /\ q[j].blk # q[k].blk

WInit == CInit /\ since = [b \in Blocks |-> 0] /\ asked = 0

WRequest(b) ==
  /\ CRequest(b)
  /\ since' = [c \in Blocks |->
                 IF c = b \/ Crowded(mshr') THEN stat_cycles ELSE since[c]]
  /\ asked' = stat_cycles

WCycle(run) ==
  /\ CCycle(run)
  /\ since' = [c \in Blocks |-> IF Crowded(mshr') THEN stat_cycles + 1 ELSE since[c]]
  /\ UNCHANGED asked

WNext ==
  \/ \E b \in Blocks : WRequest(b)
  \/ WCycle(TRUE)
  \/ WCycle(FALSE)

WSpec == WInit /\ [][WNext]_wvars

-----------------------------------------------------------------------------
(* Properties.                                                             *)

\* The last cycle of a conflict, counted from the cycle it is served in.
LongestService == 3 * Step + DataLen - 1

\* n requests served one after the other.
Services(n) == n * LongestService

\* A word of a block waits for the words in front of it, and with each of them, and
\* with itself, for all the words of another block.
LongestWait(w) == w * Services(BlockWords + 1)

\* However many row hits overtake it, and however often the other block is another
\* one, a word of a block gets its turn while no third block joins them; and once no
\* more blocks come the queue is empty in the time a full one takes.
WaitIsBounded ==
  run_bit =>
    /\ \A i \in 1 .. Len(mshr) :
         stat_cycles - since[mshr[i].blk] <= LongestWait(mshr[i].word)
    /\ mshr # << >> => stat_cycles - asked <= Services(MshrSize)

\* No cycle ends with requests in the queue and none of them in flight: what keeps a
\* request from being served, be it a bus or its bank, is another one in flight, and
\* is given up in time for the cycle in which that one finishes.
AlwaysServing ==
  [][run_bit' /\ stat_cycles' # stat_cycles /\ mshr' # << >> => InFlight' # {}]_wvars

-----------------------------------------------------------------------------
(* The inductive invariant behind them.                                    *)

\* What is marked ahead is marked for a request in flight, and is over that many cycles
\* before the request finishes.
MarkedForFlights(q, list, t, before) ==
  \A i \in 1 .. Len(list) :
    list[i].max >= t => \E x \in Flying(q) : list[i].max + before <= q[x].fin

MarksAreOfFlights(q, bz, t) ==
  /\ MarkedForFlights(q, bz.cmd, t, 1)
  /\ MarkedForFlights(q, bz.data, t, 0)
  /\ \A k \in Banks : MarkedForFlights(q, bz.bank[k], t, 1)

FlightsAreNear(q, t) == \A x \in Flying(q) : q[x].fin < t + LongestService

\* By when block b has its next word, as x is in flight: if x is a word of another
\* block, the words behind x may be served first.
NextWordBy(q, x, b) ==
  q[x].fin + (IF q[x].blk = b THEN 0 ELSE Services(BlockWords - q[x].word + 1))

InTurn(q, s, t) ==
  \A i \in 1 .. Len(q) :
    \/ s[q[i].blk] = t
    \/ \E x \in Flying(q) :
         NextWordBy(q, x, q[i].blk) <= s[q[i].blk] + LongestWait(q[i].word)

\* By when the queue is empty, as a request is in flight.
Drains(q, a, t) ==
  \/ q = << >> \/ a = t
  \/ \E x \in Flying(q) : q[x].fin + Services(Len(q) - 1) <= a + Services(MshrSize)

WaitInv ==
  /\ BusInv
  /\ since \in [Blocks -> Nat]
  /\ asked \in Nat
  /\ run_bit => /\ MarksAreOfFlights(mshr, busy, stat_cycles)
                /\ FlightsAreNear(mshr, stat_cycles)
                /\ Crowded(mshr) => \A b \in Blocks : since[b] = stat_cycles
                /\ InTurn(mshr, since, stat_cycles)
                /\ Drains(mshr, asked, stat_cycles)
=============================================================================
