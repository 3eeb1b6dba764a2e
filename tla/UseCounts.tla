----------------------------- MODULE UseCounts ------------------------------
(***************************************************************************)
(* What LFU replacement promises of one set of a cache: a block is counted *)
(* from the moment it comes in, and the block that goes is one of those    *)
(* used least.                                                             *)
(***************************************************************************)
EXTENDS Naturals, FiniteSets

CONSTANTS Capacity, Addresses

VARIABLE uses   \* how often each block of the set was used

Resident == DOMAIN uses

Init == uses = [a \in {} |-> 0]

Touch(a) == uses' = [uses EXCEPT ![a] = @ + 1]

Evictable ==
  IF Cardinality(Resident) < Capacity THEN {{}}
  ELSE {{v} : v \in {v \in Resident : \A a \in Resident : uses[v] <= uses[a]}}

Bring(a) ==
  \E out \in Evictable :
    uses' = [b \in (Resident \ out) \cup {a} |-> IF b = a THEN 1 ELSE uses[b]]

Next ==
  \/ \E a \in Resident : Touch(a)
  \/ \E a \in Addresses \ Resident : Bring(a)

Spec == Init /\ [][Next]_uses

=============================================================================
