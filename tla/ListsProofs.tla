----------------------------- MODULE ListsProofs ----------------------------
(***************************************************************************)
(* Lemmas on the operators of Lists, in the cases the controller meets:    *)
(* nothing is removed, or one element is.                                  *)
(***************************************************************************)
EXTENDS Lists, FiniteSetTheorems, WellFoundedInduction, TLAPS

\* A set of natural numbers that is not empty has a least element.
LEMMA LeastIsLeast ==
  ASSUME NEW S, S \subseteq Nat, S # {}
  PROVE  Least(S) \in S /\ \A j \in S : Least(S) <= j
<1> DEFINE R == {ss \in Nat \X Nat : ss[1] < ss[2]}
<1>1. IsWellFoundedOn(R, Nat)
  BY NatLessThanWellFounded DEF OpToRel
<1> HIDE DEF R
<1>2. PICK x \in S : \A y \in S : <<y, x>> \notin R
  BY <1>1, WFMin
<1>3. \A y \in S : ~(y < x)
  BY <1>2 DEF R
<1>4. \E i \in S : \A j \in S : i <= j
  BY <1>3
<1> QED
  BY <1>4 DEF Least

\* A loop that finds nothing to remove removes nothing.
LEMMA EveryOtherOfNone == EveryOther({}) = {}
BY DEF EveryOther

\* A loop that finds a single element to remove removes it.
LEMMA EveryOtherOfOne ==
  ASSUME NEW k \in Int
  PROVE  EveryOther({k}) = {k}
<1>1. k .. k \subseteq {k} /\ k - 1 \notin {k} /\ (k - k) % 2 = 0
  OBVIOUS
<1> QED
  BY <1>1 DEF EveryOther

\* Counting the elements of an interval from 1 on.
LEMMA CountUpTo ==
  ASSUME NEW i \in Nat
  PROVE  IsFiniteSet(1 .. i) /\ Cardinality(1 .. i) = i
BY FS_Interval

\* Removing nothing leaves a list as it is.
LEMMA WithoutNone ==
  ASSUME NEW T, NEW s \in Seq(T)
  PROVE  Without(s, {}) = s
<1> DEFINE n == Len(s)
<1>1. n \in Nat /\ s = [i \in 1 .. n |-> s[i]]
  OBVIOUS
<1>2. (1 .. n) \ {} = 1 .. n
  OBVIOUS
<1>3. Cardinality(1 .. n) = n
  BY <1>1, CountUpTo
<1>4. \A i \in 1 .. n : Cardinality(1 .. n \cap 1 .. i) = i
  <2> TAKE i \in 1 .. n
  <2>1. (1 .. n) \cap (1 .. i) = 1 .. i /\ i \in Nat
    BY <1>1
  <2>2. Cardinality(1 .. i) = i
    BY <2>1, CountUpTo
  <2> HIDE DEF n
  <2> QED
    BY <2>1, <2>2
<1>5. \A m \in 1 .. n :
        (CHOOSE i \in 1 .. n : Cardinality(1 .. n \cap 1 .. i) = m) = m
  BY <1>4
<1> QED
  BY <1>1, <1>2, <1>3, <1>5, ZenonT(60) DEF Without

\* Removing one element moves those behind it up by one.
LEMMA WithoutOne ==
  ASSUME NEW T, NEW s \in Seq(T), NEW k \in 1 .. Len(s)
  PROVE  Without(s, {k}) =
           [m \in 1 .. Len(s) - 1 |-> IF m < k THEN s[m] ELSE s[m + 1]]
<1> DEFINE n == Len(s)
           kept == (1 .. n) \ {k}
           place(m) == IF m < k THEN m ELSE m + 1
<1>1. n \in Nat /\ n >= 1 /\ k \in Int
  OBVIOUS
<1>2. Cardinality(kept) = n - 1
  BY <1>1, CountUpTo, FS_RemoveElement
<1>3. \A i \in kept : Cardinality(kept \cap 1 .. i) = IF i < k THEN i ELSE i - 1
  <2> TAKE i \in kept
  <2>1. i \in Nat
    OBVIOUS
  <2>2. CASE i < k
    <3>1. kept \cap 1 .. i = 1 .. i
      BY <2>2
    <3> QED
      BY <3>1, <2>1, <2>2, CountUpTo
  <2>3. CASE ~(i < k)
    <3>1. kept \cap 1 .. i = (1 .. i) \ {k} /\ k \in 1 .. i
      BY <2>3
    <3>2. Cardinality((1 .. i) \ {k}) = i - 1
      BY <3>1, <2>1, CountUpTo, FS_RemoveElement
    <3> QED
      BY <3>1, <3>2, <2>3
  <2> QED
    BY <2>2, <2>3
<1>4. \A m \in 1 .. n - 1 :
        (CHOOSE i \in kept : Cardinality(kept \cap 1 .. i) = m) = place(m)
  <2> TAKE m \in 1 .. n - 1
  <2>1. place(m) \in kept
    OBVIOUS
  <2>2. Cardinality(kept \cap 1 .. place(m)) = m
    BY <2>1, <1>3
  <2>3. \A i \in kept : Cardinality(kept \cap 1 .. i) = m => i = place(m)
    <3> HIDE DEF kept, place
    <3> TAKE i \in kept
    <3> HAVE Cardinality(kept \cap 1 .. i) = m
    <3>1. m = IF i < k THEN i ELSE i - 1
      BY <1>3
    <3>2. i \in Int /\ i # k
      BY DEF kept
    <3> QED
      BY <3>1, <3>2, <1>1 DEF place
  <2> HIDE DEF kept, place
  <2> QED
    BY <2>1, <2>2, <2>3
<1>5. \A m \in 1 .. n - 1 : s[place(m)] = IF m < k THEN s[m] ELSE s[m + 1]
  OBVIOUS
<1>6. Without(s, {k}) =
        [m \in 1 .. Cardinality(kept) |->
           s[CHOOSE i \in kept : Cardinality(kept \cap 1 .. i) = m]]
  BY DEF Without
<1> HIDE DEF kept, place
<1> QED
  BY <1>2, <1>4, <1>5, <1>6

\* The list LinkAfter builds, and its type.
LEMMA LinkAfterIsList ==
  ASSUME NEW T, NEW s \in Seq(T), NEW k \in 0 .. Len(s), NEW e \in T
  PROVE  /\ LinkAfter(s, k, e) \in Seq(T)
         /\ Len(LinkAfter(s, k, e)) = Len(s) + 1
         /\ \A i \in 1 .. Len(s) + 1 :
              LinkAfter(s, k, e)[i] =
                IF i <= k THEN s[i] ELSE IF i = k + 1 THEN e ELSE s[i - 1]
<1> DEFINE f == [i \in 1 .. Len(s) + 1 |->
                   IF i <= k THEN s[i] ELSE IF i = k + 1 THEN e ELSE s[i - 1]]
<1>1. f \in [1 .. Len(s) + 1 -> T]
  OBVIOUS
<1>2. Len(s) + 1 \in Nat
  OBVIOUS
<1>3. f \in Seq(T) /\ Len(f) = Len(s) + 1
  <2> HIDE DEF f
  <2> QED
    BY <1>1, <1>2
<1> QED
  BY <1>3 DEF LinkAfter

=============================================================================
