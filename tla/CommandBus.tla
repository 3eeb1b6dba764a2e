----------------------------- MODULE CommandBus -----------------------------
(***************************************************************************)
(* MemCtrl with a history variable: the commands that the requests served  *)
(* so far put on the command bus, at the cycles schedulable tested for     *)
(* them.  The busy set of the bus is the controller's record of these.     *)
(***************************************************************************)
EXTENDS MemCtrlInvariant

VARIABLE commands   \* the commands whose last cycle has not passed

cvars == <<vars, commands>>

Issued(run) ==
  UNION {LET r == FinishRequest[i]
         IN  {[at |-> c, blk |-> r.blk, word |-> r.word] :
                c \in CommandCycles(RowBufferStatus(r.blk))} :
         i \in RequestToServe(FinishRequest, CleanUp(run))}

CInit == Init /\ commands = {}

CRequest(b) == Request(b) /\ UNCHANGED commands

CCycle(run) ==
  /\ Cycle(run)
  /\ commands' = {c \in commands : c.at + CmdLen > stat_cycles} \cup Issued(run)

CNext ==
  \/ \E b \in Blocks : CRequest(b)
  \/ CCycle(TRUE)
  \/ CCycle(FALSE)

CSpec == CInit /\ [][CNext]_cvars

\* No two commands overlap on the command bus, although set_busy_status marks
\* the third command of a conflict an access after the cycle it is sent in.
CommandsDontOverlap ==
  run_bit => \A c, d \in commands : c # d => Distance(c.at, d.at) >= CmdLen

\* What the busy sets know of a command: the range of the cycle it is sent in, or else
\* the ranges of the next access on the command bus and of its word on the data bus.
Recorded(c, bz) ==
  \/ \E i \in 1 .. Len(bz.cmd) : bz.cmd[i].min = c.at
  \/ /\ \E i \in 1 .. Len(bz.cmd) : bz.cmd[i].min = c.at + Step
     /\ \E j \in 1 .. Len(bz.data) : bz.data[j].min = c.at + Step

\* The inductive invariant behind CommandsDontOverlap: no command that is still to be
\* sent, or being sent, is forgotten by the busy sets (set_busy_status, clean_up).
BusInv ==
  /\ IndInv
  /\ CommandsDontOverlap
  /\ \A c \in commands : c.at \in Int
  /\ run_bit => \A c \in commands : Recorded(c, busy)
=============================================================================
