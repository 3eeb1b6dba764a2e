--------------------------- MODULE MCMemCtrlLive ----------------------------
(***************************************************************************)
(* MemCtrl with requests up to the cycle LastRequest only, so that its     *)
(* behaviours are finite graphs and TLC can check liveness.  The clock     *)
(* stops once the last request has been answered, or at the cycle          *)
(* LastCycle, by which every request must have been.                       *)
(***************************************************************************)
EXTENDS MemCtrlRefinement

CONSTANTS LastRequest, LastCycle

MCBlocks == 0 .. 3

LiveRequest(b) == stat_cycles <= LastRequest /\ Request(b)

ClockRuns ==
  /\ stat_cycles <= LastRequest \/ mshr # << >>
  /\ stat_cycles < LastCycle

LiveCycle(run) == ClockRuns /\ Cycle(run)

LiveNext ==
  \/ \E b \in Blocks : LiveRequest(b)
  \/ LiveCycle(TRUE)
  \/ LiveCycle(FALSE)

\* MemCtrl's Fairness, as far as the clock runs.
LiveSpec ==
  Init /\ [][LiveNext]_vars /\ WF_stat_cycles(ClockRuns /\ Tick(TRUE))

=============================================================================
