---------------------------- MODULE RecencyList -----------------------------
(***************************************************************************)
(* What LRU, FIFO and random replacement promise of one set of a cache:    *)
(* the blocks of the set in a list.  A block that comes in goes to its     *)
(* front and pushes the last one out, under RANDOM any one; a hit moves a  *)
(* block to the front, except under FIFO.                                  *)
(***************************************************************************)
EXTENDS Lists

CONSTANTS Capacity, Addresses

VARIABLES recent, mode

vars == <<recent, mode>>

Init ==
  /\ recent = << >>
  /\ mode \in {"LRU", "FIFO", "RANDOM", "none"}

Touch(i) ==
  /\ recent' = IF mode = "FIFO" THEN recent
               ELSE <<recent[i]>> \o Without(recent, {i})
  /\ UNCHANGED mode

Evictable ==
  IF Len(recent) < Capacity THEN {{}}
  ELSE IF mode = "RANDOM" THEN {{i} : i \in 1 .. Len(recent)}
  ELSE {{Len(recent)}}

Bring(a) ==
  /\ mode # "none"
  /\ \A i \in 1 .. Len(recent) : recent[i] # a
  /\ \E out \in Evictable : recent' = <<a>> \o Without(recent, out)
  /\ UNCHANGED mode

Next ==
  \/ \E i \in 1 .. Len(recent) : Touch(i)
  \/ \E a \in Addresses : Bring(a)

Spec == Init /\ [][Next]_vars

=============================================================================
