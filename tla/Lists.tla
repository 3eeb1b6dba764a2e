------------------------------- MODULE Lists --------------------------------
(***************************************************************************)
(* The list traversals of mem_ctrl.c.  Two loops of that file take an      *)
(* element out of the array or list they are walking and then step over    *)
(* the element that slid into its place: finish_request, whose call of     *)
(* out_mshr shifts the queue under the loop index, and merge, which        *)
(* unlinks the next node and then moves to the one after it.  Both remove  *)
(* every other element of each run of candidates, which EveryOther states. *)
(* No operator here is recursive, so that tlapm can reason about them.     *)
(***************************************************************************)
EXTENDS Integers, Sequences, FiniteSets

\* Of the candidate positions S, those a loop removes that steps over the
\* element following each one it removes.
EveryOther(S) ==
  {i \in S : \E first \in S : /\ first .. i \subseteq S
                              /\ first - 1 \notin S
                              /\ (i - first) % 2 = 0}

\* The list s without the elements at the positions in R, order kept.
Without(s, R) ==
  LET kept == (1 .. Len(s)) \ R
  IN  [n \in 1 .. Cardinality(kept) |->
         s[CHOOSE i \in kept : Cardinality(kept \cap 1 .. i) = n]]

\* The list s with e linked in after its first k elements.
LinkAfter(s, k, e) ==
  [i \in 1 .. Len(s) + 1 |->
     IF i <= k THEN s[i] ELSE IF i = k + 1 THEN e ELSE s[i - 1]]

\* The least number of a set of numbers that is not empty.
Least(S) == CHOOSE i \in S : \A j \in S : i <= j

=============================================================================
