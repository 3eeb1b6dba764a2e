----------------------------- MODULE FlatMemory -----------------------------
(***************************************************************************)
(* What the program that is simulated may rely on, whatever the caches do: *)
(* a load returns what was last stored, and instructions are fetched from  *)
(* the same memory, as long as the program has not stored to their block.  *)
(* Blocks outside the regions of the memory start as zeros and may become  *)
(* zeros again at any time, when nothing holds what was stored to them.    *)
(***************************************************************************)
CONSTANTS Blocks, Mapped, Words, Values, Zero

VARIABLES
  contents,  \* the words of every block
  modified,  \* the blocks stored to
  served     \* the last read and what it returned

vars == <<contents, modified, served>>

Nothing == [op |-> "none"]
Zeros == [w \in Words |-> Zero]

Init ==
  /\ contents \in [Blocks -> [Words -> Values]]
  /\ \A b \in Blocks \ Mapped : contents[b] = Zeros
  /\ modified = {}
  /\ served = Nothing

Serve(op, b, w, v) ==
  /\ served' = [op |-> op, blk |-> b, word |-> w, val |-> v]
  /\ UNCHANGED <<contents, modified>>

Load(b, w, v) ==
  /\ v = contents[b][w]
  /\ Serve("load", b, w, v)

Fetch(b, w, v) ==
  /\ b \notin modified => v = contents[b][w]
  /\ Serve("fetch", b, w, v)

Store(b, w, v) ==
  /\ contents' = [x \in Blocks |-> IF x = b THEN [contents[x] EXCEPT ![w] = v]
                                  ELSE contents[x]]
  /\ modified' = modified \cup {b}
  /\ UNCHANGED served

\* The stores to a block outside the regions are lost.
Forget(b) ==
  /\ b \notin Mapped
  /\ contents' = [x \in Blocks |-> IF x = b THEN Zeros ELSE contents[x]]
  /\ UNCHANGED <<modified, served>>

Next ==
  \/ \E b \in Blocks, w \in Words, v \in Values :
       Load(b, w, v) \/ Fetch(b, w, v) \/ Store(b, w, v)
  \/ \E b \in Blocks : Forget(b)

Spec == Init /\ [][Next]_vars

=============================================================================
