---------------------------- MODULE MemCtrlProofs ---------------------------
(***************************************************************************)
(* The safety properties of MemCtrl, and that it implements BlockService,  *)
(* proved for every choice of blocks, queue size, banks and latencies that *)
(* MemCtrlAssumption admits.                                               *)
(***************************************************************************)
EXTENDS MemCtrlInvariant, MemCtrlRefinement, ListsProofs, SequenceTheorems

USE MemCtrlAssumption

Entry == [blk : Blocks, word : 1 .. BlockWords, fin : Int]

-----------------------------------------------------------------------------
(* Busy sets.                                                              *)

\* The elements of a list of ranges have a first and a last cycle.
LEMMA RangesHaveCycles ==
  ASSUME NEW list \in Seq(RANGE_T)
  PROVE  /\ Len(list) \in Nat
         /\ \A i \in 1 .. Len(list) : list[i].min \in Int /\ list[i].max \in Int
<1>1. Len(list) \in Nat /\ \A i \in 1 .. Len(list) : list[i] \in RANGE_T
  OBVIOUS
<1>2. \A r \in RANGE_T : r.min \in Int /\ r.max \in Int
  BY DEF RANGE_T
<1> QED
  BY <1>1, <1>2

\* insert puts a range that is apart from all others at its place in the order.
LEMMA InsertPositionApart ==
  ASSUME NEW list \in Seq(RANGE_T), NEW len \in Nat \ {0}, NEW at \in Int,
         Spaced(list, len),
         \A i \in 1 .. Len(list) : Distance(at, list[i].min) > len
  PROVE  LET k == InsertPosition(list, at, len)
         IN  /\ k \in 0 .. Len(list)
             /\ \A i \in 1 .. Len(list) : i <= k => at - list[i].min > len
             /\ \A i \in 1 .. Len(list) : i > k => list[i].min - at > len
<1> DEFINE n == Len(list)
           stops == InsertStops(list, at, len)
           k == InsertPosition(list, at, len)
<1>1. n \in Nat /\ \A i \in 1 .. n : list[i].min \in Int /\ list[i].max \in Int
  BY RangesHaveCycles
<1>2. \A i \in 1 .. n : at - list[i].min > len \/ list[i].min - at > len
  BY <1>1 DEF Distance
<1>3. \A i, j \in 1 .. n : i < j => list[j].min - list[i].min > len
  BY DEF Spaced
<1>4. \A i \in 1 .. n : list[i].max = list[i].min + len - 1
  BY DEF Spaced
<1>5. stops \subseteq 1 .. n - 1
  BY DEF InsertStops
<1>6. \A i \in 1 .. n - 1 :
        i \in stops <=> (list[i].max >= at \/ list[i+1].min > at + len)
  BY DEF InsertStops
<1>7. CASE list = << >> \/ list[1].min > at + len
  <2>1. k = 0
    BY <1>7 DEF InsertPosition
  <2>2. ASSUME NEW i \in 1 .. n PROVE list[i].min - at > len
    <3>1. list # << >> /\ 1 \in 1 .. n
      BY <1>1
    <3>2. list[1].min > at + len
      BY <1>7, <3>1
    <3>3. i = 1 \/ list[i].min - list[1].min > len
      BY <1>3, <3>1
    <3> QED
      BY <3>1, <3>2, <3>3, <1>1, SMTT(30)
  <2> HIDE DEF k, n
  <2> QED
    BY <2>1, <2>2, <1>1 DEF k, n
<1>8. CASE ~(list = << >> \/ list[1].min > at + len)
  <2>1. 1 \in 1 .. n /\ at - list[1].min > len
    <3>1. n # 0
      BY <1>8, <1>1
    <3>2. 1 \in 1 .. n /\ list[1].min \in Int
      BY <3>1, <1>1
    <3>3. ~(list[1].min > at + len)
      BY <1>8
    <3> HIDE DEF n
    <3> QED
      BY <3>2, <3>3, <1>2, SMTT(30)
  <2>2. CASE stops = {}
    <3>1. k = n
      BY <1>8, <2>2 DEF InsertPosition
    <3>2. ASSUME NEW i \in 1 .. n PROVE at - list[i].min > len
      <4>1. CASE i = 1
        BY <2>1, <4>1
      <4>2. CASE i # 1
        <5>1. i - 1 \in 1 .. n - 1 /\ (i - 1) + 1 = i
          BY <4>2, <1>1
        <5>2. ~(list[i].min > at + len)
          BY <5>1, <1>6, <2>2
        <5> QED
          BY <5>2, <1>1, <1>2
      <4> QED
        BY <4>1, <4>2
    <3> HIDE DEF k, n
    <3> QED
      BY <3>1, <3>2, <1>1 DEF k, n
  <2>3. CASE stops # {}
    <3>1. k = Least(stops)
      BY <1>8, <2>3 DEF InsertPosition
    <3>2. stops \subseteq Nat
      BY <1>5, <1>1
    <3>3. k \in stops /\ \A j \in stops : k <= j
      BY <3>1, <3>2, <2>3, LeastIsLeast
    <3>4. k \in 1 .. n - 1
      BY <3>3, <1>5
    <3>5. ASSUME NEW i \in 1 .. n, i <= k PROVE at - list[i].min > len
      <4>1. CASE i = 1
        BY <2>1, <4>1
      <4>2. CASE i # 1
        <5>1. i - 1 \in 1 .. n - 1 /\ (i - 1) + 1 = i /\ i - 1 < k
          BY <4>2, <1>1, <3>4, <3>5
        <5>2. i - 1 \notin stops
          BY <5>1, <3>3, <3>4
        <5>3. ~(list[i].min > at + len)
          BY <5>1, <5>2, <1>6
        <5> QED
          BY <5>3, <1>1, <1>2
      <4> QED
        BY <4>1, <4>2
    <3>6. list[k + 1].min > at + len
      <4>1. k \in 1 .. n /\ at - list[k].min > len
        BY <3>4, <3>5, <1>1
      <4>2. ~(list[k].max >= at)
        BY <4>1, <1>1, <1>4
      <4> QED
        BY <4>2, <3>3, <3>4, <1>6
    <3>7. ASSUME NEW i \in 1 .. n, i > k PROVE list[i].min - at > len
      <4>1. k + 1 \in 1 .. n /\ (i = k + 1 \/ k + 1 < i)
        BY <3>4, <3>7, <1>1
      <4>2. i = k + 1 \/ list[i].min - list[k + 1].min > len
        BY <4>1, <1>3
      <4>3. list[k + 1].min \in Int /\ list[i].min \in Int
        BY <4>1, <1>1
      <4> QED
        BY <4>1, <4>2, <4>3, <3>6, SMTT(30)
    <3> HIDE DEF k, n
    <3> QED
      BY <3>4, <3>5, <3>7, <1>1 DEF k, n
  <2> QED
    BY <2>2, <2>3
<1> QED
  BY <1>7, <1>8

\* insert followed by merge puts a range that is apart from all others into the
\* busy set, keeps the others, and fails no assertion.
LEMMA ReserveKeepsSpaced ==
  ASSUME NEW list \in Seq(RANGE_T), NEW len \in Nat \ {0}, NEW at \in Int,
         Spaced(list, len),
         \A i \in 1 .. Len(list) : Distance(at, list[i].min) > len
  PROVE  LET new == Reserve(list, at, len)
         IN  /\ ~InsertFails(list, at, len)
             /\ new \in Seq(RANGE_T)
             /\ Spaced(new, len)
             /\ \A j \in 1 .. Len(new) :
                  \/ new[j] = NewRange(at, len)
                  \/ \E i \in 1 .. Len(list) : new[j] = list[i]
             /\ \E j \in 1 .. Len(new) : new[j] = NewRange(at, len)
             /\ \A i \in 1 .. Len(list) : \E j \in 1 .. Len(new) : new[j] = list[i]
<1> DEFINE n == Len(list)
           k == InsertPosition(list, at, len)
           r == NewRange(at, len)
           new == Insert(list, at, len)
<1>1. n \in Nat /\ \A i \in 1 .. n : list[i].min \in Int /\ list[i].max \in Int
  BY RangesHaveCycles
<1>2. /\ k \in 0 .. n
      /\ \A i \in 1 .. n : i <= k => at - list[i].min > len
      /\ \A i \in 1 .. n : i > k => list[i].min - at > len
  BY InsertPositionApart
<1>3. /\ \A i \in 1 .. n : list[i].max = list[i].min + len - 1
      /\ \A i, j \in 1 .. n : i < j => list[j].min - list[i].min > len
  BY DEF Spaced
<1>4. r \in RANGE_T /\ r.min = at /\ r.max = at + len - 1
  BY DEF NewRange, RANGE_T
<1>5. /\ new \in Seq(RANGE_T)
      /\ Len(new) = n + 1
      /\ \A i \in 1 .. n + 1 :
           new[i] = IF i <= k THEN list[i] ELSE IF i = k + 1 THEN r ELSE list[i - 1]
  <2>1. new = LinkAfter(list, k, r)
    BY DEF Insert
  <2>2. k \in 0 .. Len(list)
    BY <1>2
  <2>3. r \in RANGE_T
    BY <1>4
  <2> HIDE DEF k, r, new
  <2>4. /\ LinkAfter(list, k, r) \in Seq(RANGE_T)
        /\ Len(LinkAfter(list, k, r)) = Len(list) + 1
        /\ \A i \in 1 .. Len(list) + 1 :
             LinkAfter(list, k, r)[i] =
               IF i <= k THEN list[i] ELSE IF i = k + 1 THEN r ELSE list[i - 1]
    BY <2>2, <2>3, LinkAfterIsList
  <2> QED
    BY <2>1, <2>4
<1>6. ~InsertFails(list, at, len)
  <2>1. k \in InsertStops(list, at, len) => k \in 1 .. n
    BY <1>1 DEF InsertStops
  <2>2. k \in 1 .. n => ~(list[k].max >= at)
    BY <1>1, <1>2, <1>3, SMTT(30)
  <2> QED
    BY <2>1, <2>2 DEF InsertFails
<1> HIDE DEF n, k, r, new
<1>7. \A i \in 1 .. n + 1 : new[i].min \in Int /\ new[i].max = new[i].min + len - 1
  <2> TAKE i \in 1 .. n + 1
  <2>1. CASE i <= k
    <3>1. i \in 1 .. n /\ new[i] = list[i]
      BY <2>1, <1>1, <1>2, <1>5
    <3> QED
      BY <3>1, <1>1, <1>3
  <2>2. CASE i = k + 1
    BY <2>2, <1>2, <1>4, <1>5
  <2>3. CASE i > k + 1
    <3>1. i - 1 \in 1 .. n /\ new[i] = list[i - 1]
      BY <2>3, <1>1, <1>2, <1>5
    <3> QED
      BY <3>1, <1>1, <1>3
  <2> QED
    BY <2>1, <2>2, <2>3, <1>2
<1>8. \A i, j \in 1 .. n + 1 : i < j => new[j].min - new[i].min > len
  <2> SUFFICES ASSUME NEW i \in 1 .. n + 1, NEW j \in 1 .. n + 1, i < j
               PROVE  new[j].min - new[i].min > len
    OBVIOUS
  <2>1. CASE j <= k
    <3>1. i \in 1 .. n /\ j \in 1 .. n /\ new[i] = list[i] /\ new[j] = list[j]
      BY <2>1, <1>1, <1>2, <1>5
    <3> QED
      BY <3>1, <1>3
  <2>2. CASE j = k + 1
    <3>1. i \in 1 .. n /\ i <= k /\ new[i] = list[i] /\ new[j] = r
      BY <2>2, <1>1, <1>2, <1>5
    <3> QED
      BY <3>1, <1>2, <1>4
  <2>3. CASE j > k + 1
    <3>1. j - 1 \in 1 .. n /\ j - 1 > k /\ new[j] = list[j - 1]
      BY <2>3, <1>1, <1>2, <1>5
    <3>2. CASE i = k + 1
      <4>1. new[i] = r
        BY <3>2, <1>2, <1>5
      <4> QED
        BY <4>1, <3>1, <1>2, <1>4
    <3>3. CASE i <= k
      <4>1. i \in 1 .. n /\ new[i] = list[i] /\ i < j - 1
        BY <3>3, <3>1, <1>1, <1>2, <1>5, SMTT(30)
      <4> QED
        BY <4>1, <3>1, <1>3
    <3>4. CASE i > k + 1
      <4>1. i - 1 \in 1 .. n /\ new[i] = list[i - 1] /\ i - 1 < j - 1
        BY <3>4, <3>1, <1>1, <1>2, <1>5, SMTT(30)
      <4> QED
        BY <4>1, <3>1, <1>3
    <3> QED
      BY <3>2, <3>3, <3>4, <1>2
  <2> QED
    BY <2>1, <2>2, <2>3, <1>2
<1>9. Spaced(new, len)
  BY <1>5, <1>7, <1>8 DEF Spaced
<1>10. Reserve(list, at, len) = new
  <2> DEFINE S == {i \in 2 .. Len(new) : new[i-1].max + 1 = new[i].min}
  <2>1. S = {}
    <3> SUFFICES ASSUME NEW i \in 2 .. n + 1, new[i-1].max + 1 = new[i].min
                 PROVE  FALSE
      BY <1>5
    <3>1. i \in 1 .. n + 1 /\ i - 1 \in 1 .. n + 1 /\ i - 1 < i
      BY <1>1
    <3>2. new[i].min - new[i-1].min > len
      BY <3>1, <1>8
    <3> QED
      BY <3>1, <3>2, <1>7, SMTT(30)
  <2>2. Merge(new) = Without(new, {})
    BY <2>1, EveryOtherOfNone DEF Merge
  <2> QED
    BY <2>2, <1>5, WithoutNone DEF Reserve, new
<1>11. \A j \in 1 .. n + 1 : new[j] = r \/ \E i \in 1 .. n : new[j] = list[i]
  <2> TAKE j \in 1 .. n + 1
  <2>1. CASE j <= k
    <3>1. j \in 1 .. n /\ new[j] = list[j]
      BY <2>1, <1>1, <1>2, <1>5
    <3> QED
      BY <3>1
  <2>2. CASE j = k + 1
    BY <2>2, <1>2, <1>5
  <2>3. CASE j > k + 1
    <3>1. j - 1 \in 1 .. n /\ new[j] = list[j - 1]
      BY <2>3, <1>1, <1>2, <1>5
    <3> QED
      BY <3>1
  <2> QED
    BY <2>1, <2>2, <2>3, <1>2
<1>12. k + 1 \in 1 .. n + 1 /\ new[k + 1] = r
  BY <1>1, <1>2, <1>5
<1>13. \A i \in 1 .. n : \E j \in 1 .. n + 1 : new[j] = list[i]
  <2> TAKE i \in 1 .. n
  <2>1. CASE i <= k
    <3>1. i \in 1 .. n + 1 /\ new[i] = list[i]
      BY <2>1, <1>1, <1>2, <1>5
    <3> QED
      BY <3>1
  <2>2. CASE i > k
    <3>1. i + 1 \in 1 .. n + 1 /\ new[i + 1] = list[(i + 1) - 1] /\ (i + 1) - 1 = i
      BY <2>2, <1>1, <1>2, <1>5
    <3> QED
      BY <3>1
  <2> QED
    BY <2>1, <2>2, <1>2
<1> QED
  BY <1>5, <1>6, <1>9, <1>10, <1>11, <1>12, <1>13 DEF n, r

\* clean_up_helper on the busy set of a bus: it fails no assertion, leaves the
\* set in order and drops what has passed.
LEMMA ExpireKeepsSpaced ==
  ASSUME NEW list \in Seq(RANGE_T), NEW len \in Nat \ {0}, stat_cycles \in Nat,
         Spaced(list, len), NotPassed(list, stat_cycles)
  PROVE  LET new == Expire(list)
         IN  /\ ~ExpireFails(list)
             /\ new \in Seq(RANGE_T)
             /\ Spaced(new, len)
             /\ NotPassed(new, stat_cycles + 1)
             /\ \A j \in 1 .. Len(new) : \E i \in 1 .. Len(list) : new[j] = list[i]
             /\ \A i \in 1 .. Len(list) :
                  list[i].max >= stat_cycles => \E j \in 1 .. Len(new) : new[j] = list[i]
<1> DEFINE n == Len(list)
           new == Expire(list)
<1>1. n \in Nat /\ \A i \in 1 .. n : list[i].min \in Int /\ list[i].max \in Int
  BY RangesHaveCycles
<1>2. /\ \A i \in 1 .. n : list[i].max = list[i].min + len - 1
      /\ \A i, j \in 1 .. n : i < j => list[j].min - list[i].min > len
  BY DEF Spaced
<1>3. \A i \in 1 .. n : list[i].max >= stat_cycles - 1
  BY DEF NotPassed
<1>4. list # << >> => 1 \in 1 .. n
  BY <1>1
<1>5. \A i \in 2 .. n : list[i].max >= stat_cycles
  <2> TAKE i \in 2 .. n
  <2>1. 1 \in 1 .. n /\ i \in 1 .. n /\ 1 < i
    BY <1>1
  <2>2. list[i].min - list[1].min > len
    BY <2>1, <1>2
  <2> QED
    BY <2>1, <2>2, <1>1, <1>2, <1>3, SMTT(30)
<1>6. ~ExpireFails(list)
  BY <1>1, <1>3, <1>4 DEF ExpireFails
<1>7. CASE list # << >> /\ list[1].max < stat_cycles
  <2>1. /\ new \in Seq(RANGE_T) /\ Len(new) = n - 1
        /\ \A i \in 1 .. n - 1 : new[i] = list[i + 1] /\ i + 1 \in 2 .. n
    BY <1>7, <1>1 DEF Expire
  <2> HIDE DEF n, new
  <2>2. Spaced(new, len) /\ NotPassed(new, stat_cycles + 1)
    <3>1. \A i \in 1 .. n - 1 : i + 1 \in 1 .. n
      BY <1>1
    <3>2. \A i \in 1 .. n - 1 : new[i].max = new[i].min + len - 1
      BY <3>1, <2>1, <1>2
    <3>3. \A i, j \in 1 .. n - 1 : i < j => new[j].min - new[i].min > len
      <4> TAKE i, j \in 1 .. n - 1
      <4>1. i < j => i + 1 < j + 1
        OBVIOUS
      <4> QED
        BY <4>1, <3>1, <2>1, <1>2
    <3>4. \A i \in 1 .. n - 1 : new[i].max >= (stat_cycles + 1) - 1
      BY <3>1, <2>1, <1>1, <1>5
    <3> QED
      BY <2>1, <3>2, <3>3, <3>4 DEF Spaced, NotPassed
  <2>3. ASSUME NEW j \in 1 .. n - 1 PROVE \E i \in 1 .. n : new[j] = list[i]
    <3>1. j + 1 \in 1 .. n
      BY <1>1
    <3> QED
      BY <3>1, <2>1
  <2>4. ASSUME NEW i \in 1 .. n, list[i].max >= stat_cycles
        PROVE  \E j \in 1 .. n - 1 : new[j] = list[i]
    <3>1. i # 1
      BY <2>4, <1>7, <1>1
    <3>2. i - 1 \in 1 .. n - 1 /\ (i - 1) + 1 = i
      BY <3>1, <1>1
    <3> QED
      BY <3>2, <2>1
  <2> QED
    BY <2>1, <2>2, <2>3, <2>4, <1>6 DEF n, new
<1>8. CASE ~(list # << >> /\ list[1].max < stat_cycles)
  <2>1. new = list
    BY <1>8 DEF Expire
  <2>2. \A i \in 1 .. n : list[i].max >= stat_cycles
    BY <1>8, <1>1, <1>5
  <2>3. NotPassed(list, stat_cycles + 1)
    BY <2>2, <1>1 DEF NotPassed
  <2> QED
    BY <2>1, <2>3, <1>6
<1> QED
  BY <1>7, <1>8

\* clean_up_helper on the busy set of a bank, which holds one range at most.
LEMMA ExpireBank ==
  ASSUME NEW list \in Seq(RANGE_T), stat_cycles \in Nat,
         Len(list) <= 1, NotPassed(list, stat_cycles)
  PROVE  LET new == Expire(list)
         IN  /\ ~ExpireFails(list)
             /\ new \in Seq(RANGE_T)
             /\ Len(new) <= 1
             /\ NotPassed(new, stat_cycles + 1)
             /\ Len(list) = 1 /\ list[1].max >= stat_cycles => new = list
<1>1. Len(list) \in Nat
      /\ \A i \in 1 .. Len(list) : list[i].min \in Int /\ list[i].max \in Int
  BY RangesHaveCycles
<1>2. CASE list = << >>
  BY <1>2 DEF Expire, ExpireFails, NotPassed
<1>3. CASE list # << >>
  <2>1. Len(list) = 1
    BY <1>1, <1>3
  <2>2. list[1].max \in Int /\ list[1].max >= stat_cycles - 1
    BY <2>1, <1>1 DEF NotPassed
  <2>3. CASE list[1].max < stat_cycles
    <3>1. Expire(list) = Tail(list) /\ Tail(list) \in Seq(RANGE_T) /\ Len(Tail(list)) = 0
      BY <1>3, <2>1, <2>3 DEF Expire
    <3> QED
      BY <3>1, <2>1, <2>2, <2>3 DEF ExpireFails, NotPassed
  <2>4. CASE ~(list[1].max < stat_cycles)
    <3>1. Expire(list) = list
      BY <2>4 DEF Expire
    <3> QED
      BY <3>1, <2>1, <2>2, <2>4 DEF ExpireFails, NotPassed
  <2> QED
    BY <2>3, <2>4
<1> QED
  BY <1>2, <1>3

-----------------------------------------------------------------------------
(* The queue.                                                              *)

\* The constants are numbers.
LEMMA Numbers ==
  /\ BlockWords \in Nat \ {0} /\ MshrSize \in Nat \ {0}
  /\ NumBanks \in Nat \ {0} /\ BlocksPerRow \in Nat \ {0}
  /\ Step \in Nat \ {0} /\ CmdLen \in Nat \ {0} /\ DataLen \in Nat \ {0}
  /\ CmdLen < Step /\ CmdLen <= DataLen
  /\ Blocks \subseteq Nat
BY DEF MemCtrlAssumption

\* The elements of a queue.
LEMMA EntriesHaveTypes ==
  ASSUME NEW q \in Seq(Entry)
  PROVE  /\ Len(q) \in Nat
         /\ \A i \in 1 .. Len(q) :
              /\ q[i] \in Entry
              /\ q[i].blk \in Blocks /\ q[i].blk \in Nat
              /\ q[i].word \in 1 .. BlockWords /\ q[i].word \in Nat
              /\ q[i].fin \in Int
<1>1. Len(q) \in Nat /\ \A i \in 1 .. Len(q) : q[i] \in Entry
  OBVIOUS
<1>2. \A e \in Entry : /\ e.blk \in Blocks /\ e.blk \in Nat
                       /\ e.word \in 1 .. BlockWords /\ e.word \in Nat
                       /\ e.fin \in Int
  <2>1. 1 .. BlockWords \subseteq Nat
    BY Numbers
  <2> QED
    BY <2>1, Numbers DEF Entry
<1> QED
  BY <1>1, <1>2

\* q is the queue without the requests due, in order: at says where each was.
IsTheRest(q, at) ==
  /\ at \in [1 .. Len(q) -> 1 .. Len(mshr)]
  /\ \A m \in 1 .. Len(q) : q[m] = mshr[at[m]] /\ at[m] \notin Due
  /\ \A m, n \in 1 .. Len(q) : m < n => at[m] < at[n]
  /\ \A i \in 1 .. Len(mshr) : i \notin Due => \E m \in 1 .. Len(q) : at[m] = i

\* Words are apart on the data bus, so that at most one finishes in a cycle.
LEMMA OneIsDue ==
  ASSUME mshr \in Seq(Entry), stat_cycles \in Nat, Due # {},
         \A i, j \in Flying(mshr) : i # j => Distance(mshr[i].fin, mshr[j].fin) >= DataLen
  PROVE  \E k : Due = {k} /\ k \in 1 .. Len(mshr)
<1>1. Due \subseteq 1 .. Len(mshr)
  BY DEF Due
<1>2. PICK k \in Due : TRUE
  OBVIOUS
<1>3. Due \subseteq Flying(mshr)
  BY DEF Due, Flying, NotServed
<1>4. \A j \in Due : mshr[j].fin = stat_cycles
  BY DEF Due
<1>5. \A j \in Due : j # k => Distance(stat_cycles, stat_cycles) >= DataLen
  BY <1>2, <1>3, <1>4
<1>6. ~(Distance(stat_cycles, stat_cycles) >= DataLen)
  BY Numbers DEF Distance
<1>7. Due = {k}
  BY <1>2, <1>5, <1>6
<1> QED
  BY <1>1, <1>2, <1>7

\* As no two requests finish in one cycle, finish_request takes out those that
\* finish and no others, and keeps the order.
LEMMA FinishRequestKeepsOthers ==
  ASSUME mshr \in Seq(Entry), stat_cycles \in Nat,
         \A i, j \in Flying(mshr) : i # j => Distance(mshr[i].fin, mshr[j].fin) >= DataLen
  PROVE  LET q == FinishRequest
         IN  /\ q \in Seq(Entry)
             /\ Len(q) <= Len(mshr)
             /\ Due # {} => Len(q) < Len(mshr)
             /\ \E at : IsTheRest(q, at)
<1> DEFINE q == FinishRequest
           n == Len(mshr)
<1>1. n \in Nat /\ \A i \in 1 .. n : mshr[i].fin \in Int
  BY EntriesHaveTypes
<1>2. Due \subseteq 1 .. n
  BY DEF Due
<1>3. CASE Due = {}
  <2>1. q = mshr
    BY <1>3, EveryOtherOfNone, WithoutNone DEF FinishRequest
  <2> DEFINE at == [m \in 1 .. n |-> m]
  <2>2. /\ at \in [1 .. n -> 1 .. n]
        /\ \A m \in 1 .. n : mshr[m] = mshr[at[m]] /\ at[m] = m
    OBVIOUS
  <2>3. \A l, m \in 1 .. n : l < m => at[l] < at[m]
    OBVIOUS
  <2> HIDE DEF at
  <2>4. IsTheRest(mshr, at)
    BY <2>2, <2>3, <1>3 DEF IsTheRest
  <2> QED
    BY <2>1, <2>4, <1>1, <1>3
<1>4. CASE Due # {}
  <2>2. PICK k : Due = {k} /\ k \in 1 .. n
    BY <1>4, OneIsDue
  <2>3. k \in 1 .. n
    BY <2>2
  <2>4. q = [m \in 1 .. n - 1 |-> IF m < k THEN mshr[m] ELSE mshr[m + 1]]
    <3>1. k \in Int
      BY <2>3
    <3>2. q = Without(mshr, {k})
      BY <3>1, <2>2, EveryOtherOfOne DEF FinishRequest
    <3> QED
      BY <3>2, <2>3, WithoutOne
  <2> DEFINE at == [m \in 1 .. n - 1 |-> IF m < k THEN m ELSE m + 1]
  <2> HIDE DEF q, n
  <2>5. n - 1 \in Nat
    BY <2>3, <1>1
  <2>6. at \in [1 .. n - 1 -> 1 .. n]
    BY <2>3, <1>1
  <2>7. \A m \in 1 .. n - 1 : q[m] = mshr[at[m]] /\ at[m] # k /\ at[m] \in 1 .. n
    BY <2>3, <2>4, <1>1
  <2>8. \A l, m \in 1 .. n - 1 : l < m => at[l] < at[m]
    BY <2>3, <1>1
  <2>9. \A i \in 1 .. n : i # k => \E m \in 1 .. n - 1 : at[m] = i
    <3> TAKE i \in 1 .. n
    <3> HAVE i # k
    <3>1. CASE i < k
      <4>1. i \in 1 .. n - 1 /\ at[i] = i
        BY <3>1, <2>3, <1>1
      <4> QED
        BY <4>1
    <3>2. CASE ~(i < k)
      <4>1. i - 1 \in 1 .. n - 1 /\ at[i - 1] = i
        BY <3>2, <2>3, <1>1
      <4> QED
        BY <4>1
    <3> QED
      BY <3>1, <3>2
  <2>10. \A m \in 1 .. n - 1 : q[m] \in Entry
    BY <2>7 DEF n
  <2>11. q \in Seq(Entry) /\ Len(q) = n - 1
    <3>1. q \in [1 .. n - 1 -> Entry]
      BY <2>4, <2>10
    <3> QED
      BY <3>1, <2>5
  <2> HIDE DEF at
  <2>12. IsTheRest(q, at)
    BY <2>2, <2>6, <2>7, <2>8, <2>9, <2>11 DEF IsTheRest, n
  <2> QED
    BY <2>11, <2>12, <1>1 DEF q, n
<1> QED
  BY <1>3, <1>4

\* What is known of a queue and its requests in flight between two cycles.
LEMMA TypesOfState ==
  ASSUME TypeOK
  PROVE  /\ mshr \in Seq(Entry) /\ Len(mshr) <= MshrSize
         /\ busy.cmd \in Seq(RANGE_T) /\ busy.data \in Seq(RANGE_T)
         /\ busy.bank \in [Banks -> Seq(RANGE_T)]
         /\ row_buffer \in [Banks -> Nat \cup {NoRow}]
         /\ stat_cycles \in Nat
BY DEF TypeOK, Entry

\* A word leaves the queue after the words in front of it in its block, and the
\* order of the words is kept.
LEMMA FinishRequestKeepsWords ==
  ASSUME TypeOK, WordsInOrder(mshr), LaterWordsQueued(mshr),
         Flights(mshr, busy, row_buffer, stat_cycles)
  PROVE  /\ WordsInOrder(FinishRequest)
         /\ LaterWordsQueued(FinishRequest)
<1> DEFINE q == FinishRequest
<1>1. mshr \in Seq(Entry) /\ stat_cycles \in Nat
  BY TypesOfState
<1>2. q \in Seq(Entry) /\ \E at : IsTheRest(q, at)
  BY <1>1, FinishRequestKeepsOthers DEF Flights
<1>3. PICK at : IsTheRest(q, at)
  BY <1>2
<1>4. /\ at \in [1 .. Len(q) -> 1 .. Len(mshr)]
      /\ \A m \in 1 .. Len(q) : q[m] = mshr[at[m]] /\ at[m] \notin Due
      /\ \A m, n \in 1 .. Len(q) : m < n => at[m] < at[n]
      /\ \A i \in 1 .. Len(mshr) : i \notin Due => \E m \in 1 .. Len(q) : at[m] = i
  BY <1>3 DEF IsTheRest
<1> HIDE DEF q
<1>5. \A m \in 1 .. Len(q) : m \in Flying(q) <=> at[m] \in Flying(mshr)
  BY <1>4 DEF Flying
<1>6. WordsInOrder(q)
  <2> SUFFICES ASSUME NEW i \in 1 .. Len(q), NEW j \in 1 .. Len(q),
                      i < j, q[i].blk = q[j].blk
               PROVE  /\ q[i].word < q[j].word
                      /\ j \in Flying(q) => i \in Flying(q) /\ q[i].fin < q[j].fin
    BY DEF WordsInOrder
  <2>1. at[i] < at[j] /\ q[i] = mshr[at[i]] /\ q[j] = mshr[at[j]]
    BY <1>4
  <2>2. at[i] \in 1 .. Len(mshr) /\ at[j] \in 1 .. Len(mshr)
    BY <1>4
  <2> QED
    BY <2>1, <2>2, <1>5 DEF WordsInOrder
<1>7. LaterWordsQueued(q)
  <2> SUFFICES ASSUME NEW i \in 1 .. Len(q), NEW w \in q[i].word .. BlockWords
               PROVE  Probe(q, q[i].blk, w)
    BY DEF LaterWordsQueued
  <2> DEFINE b == q[i].blk
  <2>1. at[i] \in 1 .. Len(mshr) /\ q[i] = mshr[at[i]] /\ at[i] \notin Due
    BY <1>4
  <2>2. PICK l \in 1 .. Len(mshr) : mshr[l].blk = b /\ mshr[l].word = w
    <3>1. w \in mshr[at[i]].word .. BlockWords /\ mshr[at[i]].blk = b
      BY <2>1
    <3>2. Probe(mshr, mshr[at[i]].blk, w)
      BY <2>1, <3>1 DEF LaterWordsQueued
    <3> QED
      BY <3>1, <3>2 DEF Probe
  <2>3. l \notin Due
    <3> SUFFICES ASSUME l \in Due PROVE FALSE
      OBVIOUS
    <3>1. mshr[l].fin = stat_cycles /\ l \in Flying(mshr)
      BY <1>1 DEF Due, Flying, NotServed
    <3>2. l # at[i] /\ l \in Int /\ at[i] \in Int
      BY <2>1
    <3>3. CASE l < at[i]
      <4>1. mshr[l].word < mshr[at[i]].word
        BY <3>3, <2>1, <2>2 DEF WordsInOrder
      <4>2. mshr[at[i]].word \in 1 .. BlockWords
        BY <2>1, <1>1, EntriesHaveTypes
      <4> QED
        BY <4>1, <4>2, <2>1, <2>2, Numbers
    <3>4. CASE at[i] < l
      <4>1. at[i] \in Flying(mshr) /\ mshr[at[i]].fin < mshr[l].fin
        BY <3>1, <3>4, <2>1, <2>2 DEF WordsInOrder
      <4>2. mshr[at[i]].fin >= stat_cycles
        BY <4>1 DEF Flights, HoldsDataBus
      <4>3. mshr[at[i]].fin \in Int
        BY <2>1, <1>1, EntriesHaveTypes
      <4> QED
        BY <4>1, <4>2, <4>3, <3>1, <1>1
    <3> QED
      BY <3>2, <3>3, <3>4
  <2>4. PICK m \in 1 .. Len(q) : at[m] = l
    BY <2>3, <1>4
  <2>5. q[m] = mshr[l]
    BY <2>4, <1>4
  <2> QED
    BY <2>2, <2>5 DEF Probe
<1> QED
  BY <1>6, <1>7 DEF q

\* clean_up fails no assertion, and leaves the busy sets ready for the next cycle.
LEMMA CleanUpKeepsBuses ==
  ASSUME TypeOK, Buses(busy, stat_cycles)
  PROVE  LET bz == CleanUp(TRUE)
         IN  /\ ~CleanUpFails
             /\ bz.cmd \in Seq(RANGE_T) /\ bz.data \in Seq(RANGE_T)
             /\ bz.bank \in [Banks -> Seq(RANGE_T)]
             /\ Buses(bz, stat_cycles + 1)
<1> DEFINE bz == CleanUp(TRUE)
<1>1. /\ busy.cmd \in Seq(RANGE_T) /\ busy.data \in Seq(RANGE_T)
      /\ busy.bank \in [Banks -> Seq(RANGE_T)]
      /\ stat_cycles \in Nat
  BY TypesOfState
<1>2. /\ bz.cmd = Expire(busy.cmd) /\ bz.data = Expire(busy.data)
      /\ bz.bank = [k \in Banks |-> Expire(busy.bank[k])]
  BY DEF CleanUp
<1> HIDE DEF bz
<1>3. /\ Spaced(busy.cmd, CmdLen) /\ NotPassed(busy.cmd, stat_cycles)
      /\ Spaced(busy.data, DataLen) /\ NotPassed(busy.data, stat_cycles)
      /\ FarMarksAreWords(busy, stat_cycles)
      /\ \A k \in Banks : Len(busy.bank[k]) <= 1 /\ NotPassed(busy.bank[k], stat_cycles)
  BY DEF Buses
<1>4. /\ ~ExpireFails(busy.cmd) /\ bz.cmd \in Seq(RANGE_T)
      /\ Spaced(bz.cmd, CmdLen) /\ NotPassed(bz.cmd, stat_cycles + 1)
      /\ \A j \in 1 .. Len(bz.cmd) : \E i \in 1 .. Len(busy.cmd) : bz.cmd[j] = busy.cmd[i]
  <2>1. /\ busy.cmd \in Seq(RANGE_T) /\ CmdLen \in Nat \ {0} /\ stat_cycles \in Nat
        /\ Spaced(busy.cmd, CmdLen) /\ NotPassed(busy.cmd, stat_cycles)
    BY <1>1, <1>3, Numbers
  <2>2. /\ ~ExpireFails(busy.cmd) /\ Expire(busy.cmd) \in Seq(RANGE_T)
        /\ Spaced(Expire(busy.cmd), CmdLen) /\ NotPassed(Expire(busy.cmd), stat_cycles + 1)
        /\ \A j \in 1 .. Len(Expire(busy.cmd)) : \E i \in 1 .. Len(busy.cmd) :
             Expire(busy.cmd)[j] = busy.cmd[i]
    BY ONLY <2>1, ExpireKeepsSpaced
  <2> QED
    BY <2>2, <1>2
<1>5. /\ ~ExpireFails(busy.data) /\ bz.data \in Seq(RANGE_T)
      /\ Spaced(bz.data, DataLen) /\ NotPassed(bz.data, stat_cycles + 1)
      /\ \A i \in 1 .. Len(busy.data) : busy.data[i].max >= stat_cycles =>
           \E j \in 1 .. Len(bz.data) : bz.data[j] = busy.data[i]
  <2>1. /\ busy.data \in Seq(RANGE_T) /\ DataLen \in Nat \ {0} /\ stat_cycles \in Nat
        /\ Spaced(busy.data, DataLen) /\ NotPassed(busy.data, stat_cycles)
    BY <1>1, <1>3, Numbers
  <2>2. /\ ~ExpireFails(busy.data) /\ Expire(busy.data) \in Seq(RANGE_T)
        /\ Spaced(Expire(busy.data), DataLen) /\ NotPassed(Expire(busy.data), stat_cycles + 1)
        /\ \A i \in 1 .. Len(busy.data) : busy.data[i].max >= stat_cycles =>
             \E j \in 1 .. Len(Expire(busy.data)) : Expire(busy.data)[j] = busy.data[i]
    BY ONLY <2>1, ExpireKeepsSpaced
  <2> QED
    BY <2>2, <1>2
<1>6. \A k \in Banks : /\ ~ExpireFails(busy.bank[k]) /\ bz.bank[k] \in Seq(RANGE_T)
                       /\ Len(bz.bank[k]) <= 1 /\ NotPassed(bz.bank[k], stat_cycles + 1)
  <2> TAKE k \in Banks
  <2>1. busy.bank[k] \in Seq(RANGE_T) /\ bz.bank[k] = Expire(busy.bank[k])
    BY <1>1, <1>2
  <2> QED
    BY <2>1, <1>1, <1>3, ExpireBank
<1>7. FarMarksAreWords(bz, stat_cycles + 1)
  <2> SUFFICES ASSUME NEW j \in 1 .. Len(bz.cmd), ~(bz.cmd[j].min < stat_cycles + 1 + Step)
               PROVE  \E d \in 1 .. Len(bz.data) : bz.data[d].min = bz.cmd[j].min
    BY DEF FarMarksAreWords
  <2>1. PICK i \in 1 .. Len(busy.cmd) : bz.cmd[j] = busy.cmd[i]
    BY <1>4
  <2>2. busy.cmd[i].min \in Int
    BY <1>1, RangesHaveCycles
  <2>3. ~(busy.cmd[i].min < stat_cycles + Step)
    BY <2>1, <2>2, <1>1, Numbers
  <2>4. PICK d \in 1 .. Len(busy.data) : busy.data[d].min = busy.cmd[i].min
    BY <2>3, <1>3 DEF FarMarksAreWords
  <2>5. busy.data[d].max = busy.data[d].min + DataLen - 1
    BY <1>3 DEF Spaced
  <2>6. busy.data[d].max >= stat_cycles
    BY <2>2, <2>3, <2>4, <2>5, <1>1, Numbers
  <2> QED
    BY <2>1, <2>4, <2>6, <1>5
<1>8. ~CleanUpFails
  BY <1>4, <1>5, <1>6 DEF CleanUpFails
<1>9. bz.bank \in [Banks -> Seq(RANGE_T)]
  BY <1>2, <1>6
<1> QED
  BY <1>4, <1>5, <1>6, <1>7, <1>8, <1>9 DEF Buses, bz

\* What stays in flight after finish_request still holds its bus and its bank
\* after clean_up.
LEMMA FlightsGoOn ==
  ASSUME TypeOK, Buses(busy, stat_cycles),
         Flights(mshr, busy, row_buffer, stat_cycles)
  PROVE  Flights(FinishRequest, CleanUp(TRUE), row_buffer, stat_cycles + 1)
<1> DEFINE q == FinishRequest
           bz == CleanUp(TRUE)
           t == stat_cycles
<1>1. /\ mshr \in Seq(Entry) /\ t \in Nat
      /\ busy.data \in Seq(RANGE_T) /\ busy.bank \in [Banks -> Seq(RANGE_T)]
  BY TypesOfState
<1>2. /\ bz.data = Expire(busy.data)
      /\ bz.bank = [k \in Banks |-> Expire(busy.bank[k])]
  BY DEF CleanUp
<1>3. PICK at : IsTheRest(q, at)
  BY <1>1, FinishRequestKeepsOthers DEF Flights
<1>4. /\ at \in [1 .. Len(q) -> 1 .. Len(mshr)]
      /\ \A m \in 1 .. Len(q) : q[m] = mshr[at[m]] /\ at[m] \notin Due
      /\ \A m, n \in 1 .. Len(q) : m < n => at[m] < at[n]
  BY <1>3 DEF IsTheRest
<1>5. q \in Seq(Entry)
  BY <1>1, FinishRequestKeepsOthers DEF Flights
<1> HIDE DEF q, bz
<1>6. \A m \in Flying(q) : /\ m \in 1 .. Len(q) /\ at[m] \in Flying(mshr)
                          /\ at[m] \in 1 .. Len(mshr) /\ q[m] = mshr[at[m]]
                          /\ at[m] \notin Due
  BY <1>4 DEF Flying
<1>7. ASSUME NEW m \in Flying(q) PROVE HoldsDataBus(q, bz, t + 1, m)
  <2> DEFINE i == at[m]
  <2>1. HoldsDataBus(mshr, busy, t, i)
    BY <1>6 DEF Flights
  <2>2. mshr[i].fin \in Int /\ mshr[i].fin >= t + 1
    <3>1. mshr[i].fin \in Int /\ mshr[i].fin > 0 /\ mshr[i].fin >= t
      BY <2>1, <1>1, <1>6, EntriesHaveTypes DEF HoldsDataBus
    <3>2. mshr[i].fin # t \/ t = 0
      BY <1>6 DEF Due
    <3> QED
      BY <3>1, <3>2, <1>1
  <2>3. PICK j \in 1 .. Len(busy.data) : busy.data[j].max = mshr[i].fin
    BY <2>1 DEF HoldsDataBus
  <2>4. /\ busy.data \in Seq(RANGE_T) /\ DataLen \in Nat \ {0} /\ stat_cycles \in Nat
        /\ Spaced(busy.data, DataLen) /\ NotPassed(busy.data, stat_cycles)
    BY <1>1, Numbers DEF Buses
  <2>5. \A l \in 1 .. Len(busy.data) : busy.data[l].max >= stat_cycles =>
          \E d \in 1 .. Len(Expire(busy.data)) : Expire(busy.data)[d] = busy.data[l]
    BY ONLY <2>4, ExpireKeepsSpaced
  <2> HIDE DEF i
  <2>6. busy.data[j].max >= stat_cycles
    BY <2>2, <2>3, <1>1
  <2>7. PICK d \in 1 .. Len(Expire(busy.data)) : Expire(busy.data)[d] = busy.data[j]
    BY <2>5, <2>6
  <2>8. d \in 1 .. Len(bz.data) /\ bz.data[d].max = mshr[i].fin
    BY <2>3, <2>7, <1>2
  <2>9. q[m] = mshr[i]
    BY <1>6 DEF i
  <2>10. mshr[i].fin > 0
    BY <2>2, <1>1
  <2> QED
    BY <2>2, <2>8, <2>9, <2>10 DEF HoldsDataBus
<1>8. ASSUME NEW m \in Flying(q) PROVE HoldsBank(q, bz, row_buffer, t + 1, m)
  <2> DEFINE i == at[m]
             k == GetBank(mshr[i].blk)
  <2>1. HoldsBank(mshr, busy, row_buffer, t, i)
    BY <1>6 DEF Flights
  <2>2. mshr[i].fin \in Int /\ mshr[i].blk \in Nat
    BY <1>1, <1>6, EntriesHaveTypes
  <2>3. CASE mshr[i].fin - DataLen < t
    BY <2>3, <1>1, <1>6 DEF HoldsBank
  <2>4. CASE ~(mshr[i].fin - DataLen < t)
    <3>1. /\ Len(busy.bank[k]) = 1
          /\ busy.bank[k][1].max >= mshr[i].fin - DataLen
          /\ row_buffer[k] = GetRow(mshr[i].blk)
      BY <2>1, <2>2, <2>4, <1>1, Numbers DEF HoldsBank
    <3>2. k \in Banks
      BY <2>2, Numbers DEF GetBank, Banks
    <3>3. busy.bank[k] \in Seq(RANGE_T) /\ Len(busy.bank[k]) <= 1
          /\ NotPassed(busy.bank[k], stat_cycles)
      BY <3>2, <1>1 DEF Buses
    <3>4. busy.bank[k][1].max \in Int
      BY <3>1, <3>3, RangesHaveCycles
    <3>5. busy.bank[k][1].max >= stat_cycles
      BY <3>1, <3>4, <2>2, <2>4, <1>1, Numbers
    <3>6. Expire(busy.bank[k]) = busy.bank[k]
      BY <3>1, <3>3, <3>5, <1>1, ExpireBank
    <3>7. bz.bank[k] = busy.bank[k]
      BY <3>2, <3>6, <1>2
    <3> QED
      BY <3>1, <3>7, <1>6 DEF HoldsBank
  <2> QED
    BY <2>3, <2>4
<1>9. ASSUME NEW m \in Flying(q), NEW n \in Flying(q), m # n
      PROVE  Distance(q[m].fin, q[n].fin) >= DataLen
  <2>1. at[m] # at[n]
    <3>1. m \in 1 .. Len(q) /\ n \in 1 .. Len(q) /\ at[m] \in Int /\ at[n] \in Int
      BY <1>6
    <3>2. m < n \/ n < m
      BY <3>1, <1>9
    <3>3. at[m] < at[n] \/ at[n] < at[m]
      BY <3>1, <3>2, <1>4
    <3> QED
      BY <3>1, <3>3
  <2> QED
    BY <2>1, <1>6 DEF Flights
<1> QED
  BY <1>7, <1>8, <1>9 DEF Flights, q, bz

-----------------------------------------------------------------------------
(* Serving a request.                                                      *)

\* Where the word of a request goes, by the state of the row buffer.
LEMMA CyclesOfStatus ==
  ASSUME stat_cycles \in Nat
  PROVE  /\ DataCycle(HIT) = stat_cycles + Step
         /\ DataCycle(MISS) = stat_cycles + Step + Step
         /\ DataCycle(CONFLICT) = stat_cycles + Step + Step + Step
         /\ stat_cycles + 3 * Step = stat_cycles + Step + Step + Step
         /\ stat_cycles \in CommandCycles(HIT)
         /\ stat_cycles \in CommandCycles(MISS) /\ stat_cycles + Step \in CommandCycles(MISS)
         /\ stat_cycles \in CommandCycles(CONFLICT)
         /\ stat_cycles + Step \in CommandCycles(CONFLICT)
<1>1. Step \in Nat
  BY Numbers
<1>2. /\ stat_cycles + 0 * Step = stat_cycles
      /\ stat_cycles + 1 * Step = stat_cycles + Step
  BY <1>1
<1>3. \A s \in {HIT, MISS, CONFLICT} : stat_cycles \in CommandCycles(s)
  <2>1. 0 \in 0 .. HIT /\ 0 \in 0 .. MISS /\ 0 \in 0 .. CONFLICT
    BY DEF HIT, MISS, CONFLICT
  <2> QED
    BY <2>1, <1>2 DEF CommandCycles
<1>4. \A s \in {MISS, CONFLICT} : stat_cycles + Step \in CommandCycles(s)
  <2>1. 1 \in 0 .. MISS /\ 1 \in 0 .. CONFLICT
    BY DEF MISS, CONFLICT
  <2> QED
    BY <2>1, <1>2 DEF CommandCycles
<1>5. /\ DataCycle(HIT) = stat_cycles + Step
      /\ DataCycle(MISS) = stat_cycles + Step + Step
      /\ DataCycle(CONFLICT) = stat_cycles + Step + Step + Step
      /\ stat_cycles + 3 * Step = stat_cycles + Step + Step + Step
  BY <1>1 DEF DataCycle, HIT, MISS, CONFLICT
<1> QED
  BY <1>3, <1>4, <1>5

\* Every block has a bank and a row, and its row is open, or not, or another is.
LEMMA PlaceOfBlock ==
  ASSUME NEW b \in Nat
  PROVE  /\ GetBank(b) \in Banks
         /\ GetRow(b) \in Nat
         /\ RowBufferStatus(b) \in {HIT, MISS, CONFLICT}
<1>1. GetBank(b) \in Banks /\ GetRow(b) \in Nat
  BY Numbers DEF GetBank, GetRow, Banks
<1> QED
  BY <1>1 DEF RowBufferStatus

\* What a list holds, and that another list holds what it held.
Has(list, range) == \E j \in 1 .. Len(list) : list[j] = range
Keeps(old, new) == \A i \in 1 .. Len(old) : Has(new, old[i])

LEMMA KeepsWhatItHas ==
  ASSUME NEW old, NEW new, Keeps(old, new), NEW range, Has(old, range)
  PROVE  Has(new, range)
BY DEF Keeps, Has

\* The command bus takes the marks of a request that schedulable let through:
\* the last mark of a conflict, for which it did not ask, too.
LEMMA MarkCommandsKeepsSpaced ==
  ASSUME stat_cycles \in Nat, NEW status \in {HIT, MISS, CONFLICT}, NEW bz,
         bz.cmd \in Seq(RANGE_T), bz.data \in Seq(RANGE_T),
         Buses(bz, stat_cycles + 1),
         ~QueryBusy(bz.cmd, CommandCycles(status), CmdLen),
         ~QueryBusy(bz.data, {DataCycle(status)}, DataLen)
  PROVE  LET new == MarkCommands(bz.cmd, status)
         IN  /\ ~MarkCommandsFails(bz.cmd, status)
             /\ new \in Seq(RANGE_T)
             /\ Spaced(new, CmdLen)
             /\ \A j \in 1 .. Len(new) :
                  \/ \E i \in 1 .. Len(bz.cmd) : new[j] = bz.cmd[i]
                  \/ new[j] = NewRange(stat_cycles, CmdLen)
                  \/ new[j] = NewRange(stat_cycles + Step, CmdLen)
                  \/ new[j] = NewRange(DataCycle(CONFLICT), CmdLen) /\ status = CONFLICT
             /\ Keeps(bz.cmd, new)
             /\ Has(new, NewRange(stat_cycles, CmdLen))
             /\ status # HIT => Has(new, NewRange(stat_cycles + Step, CmdLen))
             /\ status = CONFLICT => Has(new, NewRange(DataCycle(CONFLICT), CmdLen))
<1> DEFINE t == stat_cycles
           list == bz.cmd
           first == Reserve(list, t, CmdLen)
           second == Reserve(first, t + Step, CmdLen)
           third == Reserve(second, t + 3 * Step, CmdLen)
<1>1. t \in Nat /\ Step \in Nat /\ CmdLen \in Nat \ {0} /\ DataLen \in Nat
      /\ CmdLen < Step /\ CmdLen <= DataLen
  BY Numbers
<1>2. Spaced(list, CmdLen) /\ FarMarksAreWords(bz, t + 1)
  BY DEF Buses
<1>3. \A i \in 1 .. Len(list) : list[i].min \in Int
  BY RangesHaveCycles
<1>4. \A c \in CommandCycles(status), i \in 1 .. Len(list) :
        c \in Int => Distance(c, list[i].min) > CmdLen
  BY <1>1, <1>3 DEF QueryBusy, Distance
<1>5. /\ ~InsertFails(list, t, CmdLen)
      /\ first \in Seq(RANGE_T) /\ Spaced(first, CmdLen)
      /\ \A j \in 1 .. Len(first) :
           first[j] = NewRange(t, CmdLen) \/ \E i \in 1 .. Len(list) : first[j] = list[i]
      /\ Keeps(list, first) /\ Has(first, NewRange(t, CmdLen))
  <2>1. t \in Int /\ \A i \in 1 .. Len(list) : Distance(t, list[i].min) > CmdLen
    BY <1>1, <1>4, CyclesOfStatus
  <2>2. list \in Seq(RANGE_T)
    OBVIOUS
  <2> HIDE DEF t, list
  <2> QED
    BY ONLY <2>1, <2>2, <1>1, <1>2, ReserveKeepsSpaced DEF Keeps, Has
<1>6. ASSUME status \in {MISS, CONFLICT}
      PROVE  /\ ~InsertFails(first, t + Step, CmdLen)
             /\ second \in Seq(RANGE_T) /\ Spaced(second, CmdLen)
             /\ \A j \in 1 .. Len(second) :
                  \/ second[j] = NewRange(t + Step, CmdLen)
                  \/ second[j] = NewRange(t, CmdLen)
                  \/ \E i \in 1 .. Len(list) : second[j] = list[i]
             /\ Keeps(list, second) /\ Keeps(first, second)
             /\ Has(second, NewRange(t + Step, CmdLen))
  <2>1. \A j \in 1 .. Len(first) : Distance(t + Step, first[j].min) > CmdLen
    <3> TAKE j \in 1 .. Len(first)
    <3>1. CASE first[j] = NewRange(t, CmdLen)
      BY <3>1, <1>1 DEF NewRange, Distance
    <3>2. CASE \E i \in 1 .. Len(list) : first[j] = list[i]
      <4>1. PICK i \in 1 .. Len(list) : first[j] = list[i]
        BY <3>2
      <4> QED
        BY <4>1, <1>1, <1>4, <1>6, CyclesOfStatus, SMTT(30)
    <3> QED
      BY <3>1, <3>2, <1>5
  <2>2. t + Step \in Int
    BY <1>1
  <2> HIDE DEF t, first
  <2>3. /\ ~InsertFails(first, t + Step, CmdLen)
        /\ second \in Seq(RANGE_T) /\ Spaced(second, CmdLen)
        /\ \A j \in 1 .. Len(second) :
             \/ second[j] = NewRange(t + Step, CmdLen)
             \/ \E i \in 1 .. Len(first) : second[j] = first[i]
        /\ Keeps(first, second) /\ Has(second, NewRange(t + Step, CmdLen))
    BY ONLY <2>1, <2>2, <1>1, <1>5, ReserveKeepsSpaced DEF Keeps, Has
  <2> HIDE DEF second, list
  <2>4. Keeps(list, second)
    BY ONLY <2>3, <1>5, KeepsWhatItHas DEF Keeps
  <2>5. \A j \in 1 .. Len(second) :
          \/ second[j] = NewRange(t + Step, CmdLen)
          \/ second[j] = NewRange(t, CmdLen)
          \/ \E i \in 1 .. Len(list) : second[j] = list[i]
    BY <2>3, <1>5, SMTT(30)
  <2> QED
    BY <2>3, <2>4, <2>5
<1>7. ASSUME status = CONFLICT
      PROVE  /\ ~InsertFails(second, t + 3 * Step, CmdLen)
             /\ third \in Seq(RANGE_T) /\ Spaced(third, CmdLen)
             /\ \A j \in 1 .. Len(third) :
                  \/ third[j] = NewRange(DataCycle(CONFLICT), CmdLen)
                  \/ third[j] = NewRange(t + Step, CmdLen)
                  \/ third[j] = NewRange(t, CmdLen)
                  \/ \E i \in 1 .. Len(list) : third[j] = list[i]
             /\ Keeps(second, third)
             /\ Has(third, NewRange(DataCycle(CONFLICT), CmdLen))
  <2> DEFINE c == t + 3 * Step
  <2>1. c = DataCycle(CONFLICT) /\ c = t + Step + Step + Step /\ c \in Int
    BY <1>1, CyclesOfStatus
  <2>2. \A j \in 1 .. Len(second) : Distance(c, second[j].min) > CmdLen
    <3> TAKE j \in 1 .. Len(second)
    <3>1. CASE second[j] = NewRange(t + Step, CmdLen) \/ second[j] = NewRange(t, CmdLen)
      <4>1. second[j].min = t + Step \/ second[j].min = t
        BY <3>1 DEF NewRange
      <4> QED
        BY <4>1, <2>1, <1>1, SMTT(30) DEF Distance
    <3>2. CASE \E i \in 1 .. Len(list) : second[j] = list[i]
      <4>1. PICK i \in 1 .. Len(list) : second[j] = list[i]
        BY <3>2
      <4> DEFINE m == list[i].min
      <4>4. second[j].min = m /\ m \in Int
        BY <4>1, <1>3
      <4> HIDE DEF m, c, second, t
      <4>2. CASE list[i].min < t + 1 + Step
        BY <4>2, <4>4, <2>1, <1>1 DEF Distance, m
      <4>3. CASE \E d \in 1 .. Len(bz.data) : bz.data[d].min = list[i].min
        <5>1. PICK d \in 1 .. Len(bz.data) : bz.data[d].min = list[i].min
          BY <4>3
        <5>2. ~(Distance(c, bz.data[d].min) <= DataLen)
          BY <5>1, <1>7, <2>1 DEF QueryBusy
        <5>3. ~(Distance(c, m) <= DataLen)
          BY <5>1, <5>2 DEF m
        <5> QED
          BY <5>3, <4>4, <2>1, <1>1 DEF Distance
      <4> QED
        BY <4>2, <4>3, <1>2 DEF FarMarksAreWords
    <3> QED
      BY <3>1, <3>2, <1>6, <1>7
  <2>3. second \in Seq(RANGE_T) /\ Spaced(second, CmdLen)
    BY <1>6, <1>7
  <2> HIDE DEF t, second, c
  <2>4. /\ ~InsertFails(second, c, CmdLen)
        /\ Reserve(second, c, CmdLen) \in Seq(RANGE_T)
        /\ Spaced(Reserve(second, c, CmdLen), CmdLen)
        /\ \A j \in 1 .. Len(Reserve(second, c, CmdLen)) :
             \/ Reserve(second, c, CmdLen)[j] = NewRange(c, CmdLen)
             \/ \E i \in 1 .. Len(second) : Reserve(second, c, CmdLen)[j] = second[i]
        /\ Keeps(second, Reserve(second, c, CmdLen))
        /\ Has(Reserve(second, c, CmdLen), NewRange(c, CmdLen))
    <3>1. c \in Int
      BY <2>1
    <3> QED
      BY ONLY <3>1, <2>2, <2>3, <1>1, ReserveKeepsSpaced DEF Keeps, Has
  <2>5. third = Reserve(second, c, CmdLen)
    BY DEF c
  <2>6. \A j \in 1 .. Len(second) :
          \/ second[j] = NewRange(t + Step, CmdLen)
          \/ second[j] = NewRange(t, CmdLen)
          \/ \E i \in 1 .. Len(list) : second[j] = list[i]
    BY <1>6, <1>7
  <2> HIDE DEF third, list
  <2>7. ~InsertFails(second, t + 3 * Step, CmdLen)
    BY <2>4 DEF c
  <2>8. third \in Seq(RANGE_T) /\ Spaced(third, CmdLen)
    BY <2>4, <2>5
  <2>9. \A j \in 1 .. Len(third) :
          \/ third[j] = NewRange(DataCycle(CONFLICT), CmdLen)
          \/ \E i \in 1 .. Len(second) : third[j] = second[i]
    BY <2>1, <2>4, <2>5
  <2>10. Keeps(second, third) /\ Has(third, NewRange(DataCycle(CONFLICT), CmdLen))
    BY <2>1, <2>4, <2>5
  <2> QED
    BY <2>6, <2>7, <2>8, <2>9, <2>10
<1>8. MarkCommands(list, status) =
        CASE status = HIT -> first [] status = MISS -> second [] status = CONFLICT -> third
  BY DEF MarkCommands
<1>9. MarkCommandsFails(list, status) =
        (\/ InsertFails(list, t, CmdLen)
         \/ status # HIT /\ InsertFails(first, t + Step, CmdLen)
         \/ status = CONFLICT /\ InsertFails(second, t + 3 * Step, CmdLen))
  BY DEF MarkCommandsFails
<1> HIDE DEF first, second, third
<1>10. HIT # MISS /\ HIT # CONFLICT /\ MISS # CONFLICT
  BY DEF HIT, MISS, CONFLICT
<1>11. CASE status = HIT
  BY <1>5, <1>8, <1>9, <1>10, <1>11
<1>12. CASE status = MISS
  BY <1>5, <1>6, <1>8, <1>9, <1>10, <1>12, KeepsWhatItHas
<1>13. CASE status = CONFLICT
  <2>1. MarkCommands(list, status) = third
    BY <1>8, <1>10, <1>13
  <2>2. Has(second, NewRange(t, CmdLen)) /\ Has(second, NewRange(t + Step, CmdLen))
        /\ Keeps(list, second) /\ Keeps(second, third)
    BY <1>5, <1>6, <1>7, <1>13, KeepsWhatItHas
  <2>3. Has(third, NewRange(t, CmdLen)) /\ Has(third, NewRange(t + Step, CmdLen))
    BY <2>2, KeepsWhatItHas
  <2>4. Keeps(list, third)
    BY ONLY <2>2, KeepsWhatItHas DEF Keeps
  <2>5. ~MarkCommandsFails(list, status)
    BY <1>5, <1>6, <1>7, <1>9, <1>13
  <2> QED
    BY <2>1, <2>3, <2>4, <2>5, <1>7, <1>13
<1> QED
  BY <1>11, <1>12, <1>13

\* A request that schedulable let through, by the busy sets bz.
MayMark(bz, status, bank) ==
  /\ status \in {HIT, MISS, CONFLICT} /\ bank \in Banks
  /\ bz.cmd \in Seq(RANGE_T) /\ bz.data \in Seq(RANGE_T)
  /\ bz.bank \in [Banks -> Seq(RANGE_T)]
  /\ Buses(bz, stat_cycles + 1)
  /\ ~QueryBusy(bz.cmd, CommandCycles(status), CmdLen)
  /\ ~QueryBusy(bz.data, {DataCycle(status)}, DataLen)
  /\ bz.bank[bank] = << >>

\* set_busy_status for such a request: no assertion
\* fails, the busy sets stay in order, and the word has its range on the data bus.
LEMMA SetBusyStatusKeepsBuses ==
  ASSUME stat_cycles \in Nat, NEW status, NEW bz, NEW bank, MayMark(bz, status, bank)
  PROVE  LET new == SetBusyStatus(bz, status, bank)
         IN  /\ ~SetBusyStatusFails(bz, status, bank)
             /\ new \in [cmd : Seq(RANGE_T), data : Seq(RANGE_T),
                         bank : [Banks -> Seq(RANGE_T)]]
             /\ Buses(new, stat_cycles + 1)
             /\ Has(new.data, NewRange(DataCycle(status), DataLen))
             /\ Keeps(bz.data, new.data)
<1> DEFINE t == stat_cycles
           new == SetBusyStatus(bz, status, bank)
           width == Step * (status + 1)
           held == NewRange(t, width)
<1> USE DEF MayMark
<1>1. t \in Nat /\ Step \in Nat \ {0} /\ CmdLen \in Nat \ {0} /\ DataLen \in Nat \ {0}
  BY Numbers
<1>2. DataCycle(status) \in Int /\ DataCycle(status) >= t
      /\ t + width = DataCycle(status) /\ width \in Int
  <2>1. /\ t + Step * (HIT + 1) = DataCycle(HIT)
        /\ t + Step * (MISS + 1) = DataCycle(MISS)
        /\ t + Step * (CONFLICT + 1) = DataCycle(CONFLICT)
    BY DEF DataCycle
  <2>2. /\ Step * (HIT + 1) \in Int /\ Step * (MISS + 1) \in Int
        /\ Step * (CONFLICT + 1) \in Int
    BY <1>1 DEF HIT, MISS, CONFLICT
  <2> QED
    BY <2>1, <2>2, <1>1, CyclesOfStatus, SMTT(30)
<1>3. held \in RANGE_T /\ held.min = t /\ held.max = DataCycle(status) - 1
      /\ held.max >= t
  <2> HIDE DEF width
  <2>1. held.min = t /\ held.max = t + width - 1
    BY DEF NewRange
  <2>2. DataCycle(status) > t
    BY <1>1, CyclesOfStatus
  <2>3. held.max = DataCycle(status) - 1
    BY <2>1, <1>2
  <2>4. held.max \in Int /\ held.min \in Int
    BY <2>1, <2>3, <1>1, <1>2
  <2> HIDE DEF t
  <2>5. held = [min |-> held.min, max |-> held.max]
    BY <2>1 DEF NewRange
  <2> HIDE DEF held
  <2>6. held \in RANGE_T
    BY <2>4, <2>5 DEF RANGE_T
  <2> QED
    BY <2>1, <2>2, <2>3, <2>6, <1>1, <1>2 DEF t
<1>4. /\ new.cmd = MarkCommands(bz.cmd, status)
      /\ new.data = Reserve(bz.data, DataCycle(status), DataLen)
      /\ new.bank = [bz.bank EXCEPT ![bank] = <<held>>]
      /\ new = [cmd |-> new.cmd, data |-> new.data, bank |-> new.bank]
  BY DEF SetBusyStatus
<1> HIDE DEF width, held, new
<1>5. /\ ~MarkCommandsFails(bz.cmd, status)
      /\ new.cmd \in Seq(RANGE_T) /\ Spaced(new.cmd, CmdLen)
      /\ \A j \in 1 .. Len(new.cmd) :
           \/ \E i \in 1 .. Len(bz.cmd) : new.cmd[j] = bz.cmd[i]
           \/ new.cmd[j] = NewRange(t, CmdLen)
           \/ new.cmd[j] = NewRange(t + Step, CmdLen)
           \/ new.cmd[j] = NewRange(DataCycle(CONFLICT), CmdLen) /\ status = CONFLICT
  <2> DEFINE marks == MarkCommands(bz.cmd, status)
  <2>1. /\ ~MarkCommandsFails(bz.cmd, status)
        /\ marks \in Seq(RANGE_T) /\ Spaced(marks, CmdLen)
        /\ \A j \in 1 .. Len(marks) :
             \/ \E i \in 1 .. Len(bz.cmd) : marks[j] = bz.cmd[i]
             \/ marks[j] = NewRange(t, CmdLen)
             \/ marks[j] = NewRange(t + Step, CmdLen)
             \/ marks[j] = NewRange(DataCycle(CONFLICT), CmdLen) /\ status = CONFLICT
    BY MarkCommandsKeepsSpaced
  <2> HIDE DEF marks
  <2> QED
    BY <2>1, <1>4 DEF marks
<1>6. /\ ~InsertFails(bz.data, DataCycle(status), DataLen)
      /\ new.data \in Seq(RANGE_T) /\ Spaced(new.data, DataLen)
      /\ \A j \in 1 .. Len(new.data) :
           \/ new.data[j] = NewRange(DataCycle(status), DataLen)
           \/ \E i \in 1 .. Len(bz.data) : new.data[j] = bz.data[i]
      /\ \E j \in 1 .. Len(new.data) : new.data[j] = NewRange(DataCycle(status), DataLen)
      /\ \A i \in 1 .. Len(bz.data) : \E j \in 1 .. Len(new.data) : new.data[j] = bz.data[i]
  <2> DEFINE c == DataCycle(status)
             list == bz.data
             res == Reserve(list, c, DataLen)
  <2>1. \A i \in 1 .. Len(list) : list[i].min \in Int
    BY RangesHaveCycles
  <2>2. \A i \in 1 .. Len(list) : Distance(c, list[i].min) > DataLen
    <3>1. \A i \in 1 .. Len(list) : ~(Distance(c, list[i].min) <= DataLen)
      BY DEF QueryBusy
    <3>2. c \in Int
      BY <1>2
    <3> HIDE DEF c, list
    <3> QED
      BY <3>1, <3>2, <2>1, <1>1 DEF Distance
  <2>3. Spaced(list, DataLen) /\ c \in Int /\ list \in Seq(RANGE_T) /\ DataLen \in Nat \ {0}
    BY <1>1, <1>2 DEF Buses
  <2>4. new.data = res
    BY <1>4
  <2> HIDE DEF c, list
  <2>5. /\ ~InsertFails(list, c, DataLen)
        /\ res \in Seq(RANGE_T) /\ Spaced(res, DataLen)
        /\ \A j \in 1 .. Len(res) :
             res[j] = NewRange(c, DataLen) \/ \E i \in 1 .. Len(list) : res[j] = list[i]
        /\ \E j \in 1 .. Len(res) : res[j] = NewRange(c, DataLen)
        /\ \A i \in 1 .. Len(list) : \E j \in 1 .. Len(res) : res[j] = list[i]
    BY ONLY <2>2, <2>3, ReserveKeepsSpaced
  <2> HIDE DEF res
  <2> QED
    BY <2>4, <2>5 DEF c, list
<1>7. /\ new.bank \in [Banks -> Seq(RANGE_T)]
      /\ \A k \in Banks : Len(new.bank[k]) <= 1 /\ NotPassed(new.bank[k], t + 1)
  <2>1. <<held>> \in Seq(RANGE_T) /\ Len(<<held>>) = 1 /\ <<held>>[1] = held
    BY <1>3
  <2>2. NotPassed(<<held>>, t + 1)
    BY <2>1, <1>1, <1>3 DEF NotPassed
  <2>3. \A k \in Banks : Len(bz.bank[k]) <= 1 /\ NotPassed(bz.bank[k], t + 1)
    BY DEF Buses
  <2>4. \A k \in Banks : new.bank[k] = IF k = bank THEN <<held>> ELSE bz.bank[k]
    BY <1>4
  <2>5. new.bank \in [Banks -> Seq(RANGE_T)]
    BY <2>1, <1>4
  <2>6. ASSUME NEW k \in Banks
        PROVE  Len(new.bank[k]) <= 1 /\ NotPassed(new.bank[k], t + 1)
    <3>1. CASE k = bank
      <4>1. new.bank[k] = <<held>>
        BY <3>1, <2>4
      <4> QED
        BY <4>1, <2>1, <2>2
    <3>2. CASE k # bank
      <4>1. new.bank[k] = bz.bank[k]
        BY <3>2, <2>4
      <4> QED
        BY <4>1, <2>3
    <3> QED
      BY <3>1, <3>2
  <2> QED
    BY <2>5, <2>6
<1>8. /\ NewRange(t, CmdLen).min = t
      /\ NewRange(t, CmdLen).max >= t
      /\ NewRange(t + Step, CmdLen).min = t + Step
      /\ NewRange(t + Step, CmdLen).max >= t
      /\ NewRange(DataCycle(status), CmdLen).min = DataCycle(status)
      /\ NewRange(DataCycle(status), CmdLen).max >= t
      /\ NewRange(DataCycle(status), DataLen).min = DataCycle(status)
      /\ NewRange(DataCycle(status), DataLen).max >= t
  BY <1>1, <1>2 DEF NewRange
<1>9. NotPassed(new.cmd, t + 1)
  <2> SUFFICES ASSUME NEW j \in 1 .. Len(new.cmd) PROVE new.cmd[j].max >= (t + 1) - 1
    BY DEF NotPassed
  <2>1. CASE \E i \in 1 .. Len(bz.cmd) : new.cmd[j] = bz.cmd[i]
    BY <2>1 DEF Buses, NotPassed
  <2>2. CASE ~(\E i \in 1 .. Len(bz.cmd) : new.cmd[j] = bz.cmd[i])
    <3>1. new.cmd[j].max >= t
      BY <2>2, <1>5, <1>8
    <3> QED
      BY <3>1, <1>1
  <2> QED
    BY <2>1, <2>2
<1>10. NotPassed(new.data, t + 1)
  <2> SUFFICES ASSUME NEW j \in 1 .. Len(new.data) PROVE new.data[j].max >= (t + 1) - 1
    BY DEF NotPassed
  <2>1. CASE \E i \in 1 .. Len(bz.data) : new.data[j] = bz.data[i]
    BY <2>1 DEF Buses, NotPassed
  <2>2. CASE new.data[j] = NewRange(DataCycle(status), DataLen)
    <3>1. new.data[j].max >= t
      BY <2>2, <1>8
    <3> QED
      BY <3>1, <1>1
  <2> QED
    BY <2>1, <2>2, <1>6
<1>11. FarMarksAreWords(new, t + 1)
  <2> SUFFICES ASSUME NEW j \in 1 .. Len(new.cmd)
               PROVE  \/ new.cmd[j].min < (t + 1) + Step
                      \/ \E d \in 1 .. Len(new.data) : new.data[d].min = new.cmd[j].min
    BY DEF FarMarksAreWords
  <2>1. CASE \E i \in 1 .. Len(bz.cmd) : new.cmd[j] = bz.cmd[i]
    <3>1. PICK i \in 1 .. Len(bz.cmd) : new.cmd[j] = bz.cmd[i]
      BY <2>1
    <3>2. \/ bz.cmd[i].min < (t + 1) + Step
          \/ \E d \in 1 .. Len(bz.data) : bz.data[d].min = bz.cmd[i].min
      BY DEF Buses, FarMarksAreWords
    <3> QED
      BY <3>1, <3>2, <1>6
  <2>2. CASE new.cmd[j] = NewRange(t, CmdLen) \/ new.cmd[j] = NewRange(t + Step, CmdLen)
    <3>1. new.cmd[j].min = t \/ new.cmd[j].min = t + Step
      BY <2>2, <1>8
    <3> QED
      BY <3>1, <1>1
  <2>3. CASE new.cmd[j] = NewRange(DataCycle(CONFLICT), CmdLen) /\ status = CONFLICT
    BY <2>3, <1>6, <1>8
  <2> QED
    BY <2>1, <2>2, <2>3, <1>5
<1>12. Buses(new, t + 1)
  BY <1>5, <1>6, <1>7, <1>9, <1>10, <1>11 DEF Buses
<1>13. ~SetBusyStatusFails(bz, status, bank)
  BY <1>5, <1>6 DEF SetBusyStatusFails
<1>14. new \in [cmd : Seq(RANGE_T), data : Seq(RANGE_T), bank : [Banks -> Seq(RANGE_T)]]
  BY <1>4, <1>5, <1>6, <1>7
<1>15. Has(new.data, NewRange(DataCycle(status), DataLen)) /\ Keeps(bz.data, new.data)
  BY <1>6 DEF Has, Keeps
<1> QED
  BY <1>12, <1>13, <1>14, <1>15 DEF new

\* The requests that find_request_to_serve may pick.
LEMMA RequestToServeIsFree ==
  ASSUME NEW q \in Seq(Entry), NEW bz, NEW i \in RequestToServe(q, bz)
  PROVE  /\ i \in 1 .. Len(q) /\ ~(q[i].fin > 0)
         /\ Schedulable(q[i], bz)
         /\ \A l \in 1 .. Len(q) :
              l < i /\ q[l].blk = q[i].blk => q[l].fin > 0
<1> DEFINE hits == Candidates(q, bz, TRUE)
           others == Candidates(q, bz, FALSE)
<1>1. Len(q) \in Nat
  BY EntriesHaveTypes
<1>2. /\ hits = {l \in 1 .. Len(q) : /\ ~(q[l].fin > 0) /\ Schedulable(q[l], bz)
                                     /\ RowBufferStatus(q[l].blk) = HIT}
      /\ others = {l \in 1 .. Len(q) : /\ ~(q[l].fin > 0) /\ Schedulable(q[l], bz)
                                       /\ RowBufferStatus(q[l].blk) # HIT}
  BY DEF Candidates
<1>3. i = (IF hits # {} THEN Least(hits) ELSE Least(others))
      /\ (hits # {} \/ others # {})
  BY DEF RequestToServe
<1> HIDE DEF hits, others
<1>4. hits \subseteq Nat /\ others \subseteq Nat
  BY <1>1, <1>2
<1>5. PICK S \in {hits, others} : i \in S /\ \A j \in S : i <= j
  <2>1. CASE hits # {}
    BY <2>1, <1>3, <1>4, LeastIsLeast
  <2>2. CASE hits = {}
    BY <2>2, <1>3, <1>4, LeastIsLeast
  <2> QED
    BY <2>1, <2>2
<1>6. i \in 1 .. Len(q) /\ ~(q[i].fin > 0) /\ Schedulable(q[i], bz)
  BY <1>2, <1>5
<1>7. ASSUME NEW l \in 1 .. Len(q), l < i, q[l].blk = q[i].blk, ~(q[l].fin > 0)
      PROVE  FALSE
  <2>1. Schedulable(q[l], bz)
    BY <1>6, <1>7 DEF Schedulable
  <2>2. l \in S
    BY <2>1, <1>2, <1>5, <1>7
  <2> QED
    BY <2>2, <1>5, <1>6, <1>7, <1>1
<1> QED
  BY <1>6, <1>7

\* The queue that serve_request leaves, request i being served.
Served(q, i) ==
  [q EXCEPT ![i].fin = DataCycle(RowBufferStatus(q[i].blk)) + DataLen - 1]

\* The entries of that queue.
LEMMA ServedEntries ==
  ASSUME stat_cycles \in Nat, NEW q \in Seq(Entry), NEW i \in 1 .. Len(q)
  PROVE  LET fin == DataCycle(RowBufferStatus(q[i].blk)) + DataLen - 1
         IN  /\ fin \in Int /\ fin > stat_cycles
             /\ Served(q, i) \in Seq(Entry)
             /\ Len(Served(q, i)) = Len(q)
             /\ \A l \in 1 .. Len(q) :
                  /\ Served(q, i)[l].blk = q[l].blk
                  /\ Served(q, i)[l].word = q[l].word
                  /\ Served(q, i)[l].fin = IF l = i THEN fin ELSE q[l].fin
             /\ Flying(Served(q, i)) = Flying(q) \cup {i}
<1> DEFINE fin == DataCycle(RowBufferStatus(q[i].blk)) + DataLen - 1
<1>1. fin \in Int /\ fin > stat_cycles
  <2>1. RowBufferStatus(q[i].blk) \in {HIT, MISS, CONFLICT}
    BY EntriesHaveTypes, PlaceOfBlock
  <2> QED
    BY <2>1, Numbers, CyclesOfStatus
<1> HIDE DEF fin
<1>2. /\ Len(q) \in Nat
      /\ \A l \in 1 .. Len(q) : q[l] \in Entry
  BY EntriesHaveTypes
<1>3. Served(q, i) = [q EXCEPT ![i] = [q[i] EXCEPT !.fin = fin]]
  BY DEF Served, fin
<1>4. /\ [q[i] EXCEPT !.fin = fin] \in Entry
      /\ [q[i] EXCEPT !.fin = fin].blk = q[i].blk
      /\ [q[i] EXCEPT !.fin = fin].word = q[i].word
      /\ [q[i] EXCEPT !.fin = fin].fin = fin
  BY <1>1, <1>2 DEF Entry
<1>5. /\ Served(q, i) \in Seq(Entry)
      /\ Len(Served(q, i)) = Len(q)
      /\ \A l \in 1 .. Len(q) :
           Served(q, i)[l] = IF l = i THEN [q[i] EXCEPT !.fin = fin] ELSE q[l]
  <2> DEFINE e == [q[i] EXCEPT !.fin = fin]
  <2>1. e \in Entry
    BY <1>4
  <2> HIDE DEF e
  <2>2. /\ [q EXCEPT ![i] = e] \in Seq(Entry)
        /\ Len([q EXCEPT ![i] = e]) = Len(q)
        /\ \A l \in 1 .. Len(q) : [q EXCEPT ![i] = e][l] = IF l = i THEN e ELSE q[l]
    BY <2>1
  <2> QED
    BY <2>2, <1>3 DEF e
<1>6. \A l \in 1 .. Len(q) :
        /\ Served(q, i)[l].blk = q[l].blk
        /\ Served(q, i)[l].word = q[l].word
        /\ Served(q, i)[l].fin = IF l = i THEN fin ELSE q[l].fin
  BY <1>4, <1>5
<1>7. Flying(Served(q, i)) = Flying(q) \cup {i}
  <2>1. fin # NotServed
    BY <1>1 DEF NotServed
  <2> QED
    BY <2>1, <1>5, <1>6 DEF Flying
<1> QED
  BY <1>1, <1>5, <1>6, <1>7 DEF fin

\* serve_request keeps the words of each block in order.
LEMMA ServeKeepsWords ==
  ASSUME stat_cycles \in Nat, NEW q \in Seq(Entry), NEW bz, NEW i \in RequestToServe(q, bz),
         LaterWordsQueued(q)
  PROVE  LaterWordsQueued(Served(q, i))
<1>1. i \in 1 .. Len(q)
  BY RequestToServeIsFree
<1>2. /\ Len(Served(q, i)) = Len(q)
      /\ \A l \in 1 .. Len(q) : /\ Served(q, i)[l].blk = q[l].blk
                               /\ Served(q, i)[l].word = q[l].word
  BY <1>1, ServedEntries
<1> DEFINE new == Served(q, i)
<1> HIDE DEF new
<1>3. ASSUME NEW l \in 1 .. Len(q), NEW w \in new[l].word .. BlockWords
      PROVE  Probe(new, new[l].blk, w)
  <2>1. PICK m \in 1 .. Len(q) : q[m].blk = q[l].blk /\ q[m].word = w
    BY <1>2 DEF LaterWordsQueued, Probe, new
  <2>2. /\ m \in 1 .. Len(new) /\ new[m].blk = new[l].blk /\ new[m].word = w
    BY <2>1, <1>2 DEF new
  <2> QED
    BY <2>2 DEF Probe
<1> QED
  BY <1>2, <1>3 DEF LaterWordsQueued, new

\* And the words of a block are served one after the other, because its bank is
\* free only once the word before has left it.
LEMMA ServeKeepsOrder ==
  ASSUME stat_cycles \in Nat, NEW q \in Seq(Entry), NEW bz, NEW i \in RequestToServe(q, bz),
         WordsInOrder(q),
         \A l \in Flying(q) : q[l].fin > 0 /\ HoldsBank(q, bz, row_buffer, stat_cycles + 1, l)
  PROVE  WordsInOrder(Served(q, i))
<1> DEFINE new == Served(q, i)
           b == q[i].blk
           fin == DataCycle(RowBufferStatus(b)) + DataLen - 1
<1>1. /\ i \in 1 .. Len(q) /\ ~(q[i].fin > 0) /\ Schedulable(q[i], bz)
      /\ \A l \in 1 .. Len(q) : l < i /\ q[l].blk = b => q[l].fin > 0
  BY RequestToServeIsFree
<1>2. /\ fin \in Int /\ fin > stat_cycles
      /\ Len(new) = Len(q)
      /\ \A l \in 1 .. Len(q) : /\ new[l].blk = q[l].blk /\ new[l].word = q[l].word
                               /\ new[l].fin = IF l = i THEN fin ELSE q[l].fin
      /\ Flying(new) = Flying(q) \cup {i}
  BY <1>1, ServedEntries, ZenonT(60)
<1>3. Len(q) \in Nat /\ \A l \in 1 .. Len(q) : q[l].fin \in Int
  BY EntriesHaveTypes
<1>4. i \notin Flying(q)
  BY <1>1
<1>5. ASSUME NEW l \in Flying(q), q[l].blk = b
      PROVE  q[l].fin < fin
  <2>1. Len(bz.bank[GetBank(b)]) # 1
    <3>1. bz.bank[GetBank(b)] = << >>
      BY <1>1 DEF Schedulable
    <3> QED
      BY <3>1
  <2>2. q[l].fin - DataLen < (stat_cycles + 1) - 1
    BY <2>1, <1>5 DEF HoldsBank
  <2>3. DataCycle(RowBufferStatus(b)) >= stat_cycles + 1 /\ DataCycle(RowBufferStatus(b)) \in Int
    <3>1. RowBufferStatus(b) \in {HIT, MISS, CONFLICT}
      BY <1>1, EntriesHaveTypes, PlaceOfBlock
    <3> QED
      BY <3>1, Numbers, CyclesOfStatus
  <2>4. q[l].fin \in Int
    BY <1>3 DEF Flying
  <2> QED
    BY <2>2, <2>3, <2>4, Numbers
<1> HIDE DEF new, b, fin
<1>6. SUFFICES ASSUME NEW l \in 1 .. Len(q), NEW m \in 1 .. Len(q),
                      l < m, q[l].blk = q[m].blk
               PROVE  /\ new[l].word < new[m].word
                      /\ m \in Flying(new) => l \in Flying(new) /\ new[l].fin < new[m].fin
  BY <1>2 DEF WordsInOrder, new
<1>7. new[l].word < new[m].word
  BY <1>2, <1>6 DEF WordsInOrder
<1>8. m \in Flying(q) => l \in Flying(q) /\ q[l].fin < q[m].fin
  BY <1>6 DEF WordsInOrder
<1>9. CASE m = i
  <2>1. q[l].fin > 0
    BY <1>1, <1>6, <1>9 DEF b
  <2>2. l \in Flying(q)
    BY <2>1 DEF Flying, NotServed
  <2>3. q[l].fin < fin
    BY <2>2, <1>5, <1>6, <1>9 DEF b
  <2>4. l # i
    BY <1>6, <1>9
  <2> QED
    BY <2>2, <2>3, <2>4, <1>2, <1>7, <1>9
<1>10. CASE m # i
  <2>1. m \in Flying(new) => m \in Flying(q)
    BY <1>2, <1>10
  <2>2. m \in Flying(q) => l # i
    BY <1>4, <1>8
  <2> QED
    BY <2>1, <2>2, <1>2, <1>7, <1>8, <1>10
<1> QED
  BY <1>9, <1>10

\* serve_request gives the request its bus and its bank, and takes neither from
\* another in flight.
LEMMA ServeKeepsFlights ==
  ASSUME stat_cycles \in Nat, row_buffer \in [Banks -> Nat \cup {NoRow}],
         NEW q \in Seq(Entry), NEW bz, NEW i \in RequestToServe(q, bz),
         bz.cmd \in Seq(RANGE_T), bz.data \in Seq(RANGE_T),
         bz.bank \in [Banks -> Seq(RANGE_T)],
         Buses(bz, stat_cycles + 1),
         Flights(q, bz, row_buffer, stat_cycles + 1)
  PROVE  LET b == q[i].blk
         IN  Flights(Served(q, i), SetBusyStatus(bz, RowBufferStatus(b), GetBank(b)),
                     [row_buffer EXCEPT ![GetBank(b)] = GetRow(b)], stat_cycles + 1)
<1> DEFINE new == Served(q, i)
           b == q[i].blk
           k == GetBank(b)
           status == RowBufferStatus(b)
           bz2 == SetBusyStatus(bz, status, k)
           rb2 == [row_buffer EXCEPT ![k] = GetRow(b)]
           fin == DataCycle(status) + DataLen - 1
           t == stat_cycles + 1
<1>1. i \in 1 .. Len(q) /\ ~(q[i].fin > 0) /\ Schedulable(q[i], bz)
  BY RequestToServeIsFree
<1>2. /\ fin \in Int /\ fin > stat_cycles
      /\ Len(new) = Len(q)
      /\ \A l \in 1 .. Len(q) : /\ new[l].blk = q[l].blk /\ new[l].word = q[l].word
                               /\ new[l].fin = IF l = i THEN fin ELSE q[l].fin
      /\ Flying(new) = Flying(q) \cup {i}
  BY <1>1, ServedEntries
<1>3. /\ Len(q) \in Nat
      /\ \A l \in 1 .. Len(q) : q[l].fin \in Int /\ q[l].blk \in Nat
  BY EntriesHaveTypes
<1>4. b \in Nat /\ k \in Banks /\ status \in {HIT, MISS, CONFLICT}
  BY <1>1, <1>3, PlaceOfBlock
<1>5. /\ ~QueryBusy(bz.cmd, CommandCycles(status), CmdLen)
      /\ ~QueryBusy(bz.data, {DataCycle(status)}, DataLen)
      /\ bz.bank[k] = << >>
  BY <1>1 DEF Schedulable
<1> DEFINE c == DataCycle(status)
<1>6. c \in Int /\ c >= t /\ fin = c + DataLen - 1
  BY <1>4, Numbers, CyclesOfStatus
<1>7. /\ \E j \in 1 .. Len(bz2.data) : bz2.data[j] = NewRange(c, DataLen)
      /\ \A l \in 1 .. Len(bz.data) : \E j \in 1 .. Len(bz2.data) : bz2.data[j] = bz.data[l]
  <2> HIDE DEF k, status
  <2>1. /\ Has(SetBusyStatus(bz, status, k).data, NewRange(DataCycle(status), DataLen))
        /\ Keeps(bz.data, SetBusyStatus(bz, status, k).data)
    <3>1. MayMark(bz, status, k)
      BY <1>4, <1>5 DEF MayMark
    <3> QED
      BY <3>1, SetBusyStatusKeepsBuses
  <2>2. Has(bz2.data, NewRange(c, DataLen)) /\ Keeps(bz.data, bz2.data)
    BY <2>1
  <2> HIDE DEF bz2
  <2> QED
    BY <2>2 DEF Has, Keeps
<1>8. /\ bz2.bank = [bz.bank EXCEPT ![k] = <<NewRange(stat_cycles, Step * (status + 1))>>]
  BY DEF SetBusyStatus
<1>9. \A l \in Flying(q) : /\ HoldsDataBus(q, bz, t, l) /\ HoldsBank(q, bz, row_buffer, t, l)
                          /\ l \in 1 .. Len(q) /\ l # i
  <2>1. \A l \in Flying(q) : HoldsDataBus(q, bz, t, l) /\ HoldsBank(q, bz, row_buffer, t, l)
    BY DEF Flights
  <2> QED
    BY <2>1, <1>1 DEF Flying, HoldsDataBus
<1> HIDE DEF new, b, k, status, bz2, rb2, fin, t, c
<1>10. ASSUME NEW l \in Flying(new) PROVE HoldsDataBus(new, bz2, t, l)
  <2>1. CASE l = i
    <3>1. PICK j \in 1 .. Len(bz2.data) : bz2.data[j] = NewRange(c, DataLen)
      BY <1>7
    <3>2. bz2.data[j].max = fin
      BY <3>1, <1>6 DEF NewRange
    <3>3. new[l].fin = fin
      BY <2>1, <1>1, <1>2
    <3>4. fin > 0 /\ fin >= t
      BY <1>2 DEF t
    <3> QED
      BY <3>2, <3>3, <3>4 DEF HoldsDataBus
  <2>2. CASE l # i
    <3>1. l \in Flying(q) /\ new[l].fin = q[l].fin /\ HoldsDataBus(q, bz, t, l)
      BY <2>2, <1>2, <1>9
    <3>2. PICK d \in 1 .. Len(bz.data) : bz.data[d].max = q[l].fin
      BY <3>1 DEF HoldsDataBus
    <3>3. PICK j \in 1 .. Len(bz2.data) : bz2.data[j] = bz.data[d]
      BY <1>7
    <3> QED
      BY <3>1, <3>2, <3>3 DEF HoldsDataBus
  <2> QED
    BY <2>1, <2>2
<1>11. ASSUME NEW l \in Flying(new) PROVE HoldsBank(new, bz2, rb2, t, l)
  <2>1. CASE l = i
    <3>1. new[l].fin = fin /\ new[l].blk = b
      BY <2>1, <1>1, <1>2 DEF b
    <3> DEFINE width == Step * (status + 1)
    <3>2. bz2.bank[k] = <<NewRange(stat_cycles, width)>>
      BY <1>4, <1>8
    <3>3. bz2.bank[k][1].max = c - 1 /\ Len(bz2.bank[k]) = 1
      <4>1. c = stat_cycles + width
        BY DEF c, DataCycle
      <4>5. width \in Int
        BY <1>4, Numbers DEF HIT, MISS, CONFLICT
      <4> HIDE DEF width
      <4>2. bz2.bank[k][1].max = stat_cycles + width - 1
        BY <3>2 DEF NewRange
      <4>3. bz2.bank[k][1].max = c - 1
        BY <4>1, <4>2, <4>5
      <4>4. Len(bz2.bank[k]) = 1
        BY <3>2
      <4> QED
        BY <4>3, <4>4
    <3>4. rb2[k] = GetRow(b)
      BY <1>4 DEF rb2
    <3>5. c - 1 >= fin - DataLen
      BY <1>6, Numbers
    <3> QED
      BY <3>1, <3>3, <3>4, <3>5 DEF HoldsBank, k
  <2>2. CASE l # i
    <3>1. /\ l \in Flying(q) /\ new[l].fin = q[l].fin /\ new[l].blk = q[l].blk
          /\ HoldsBank(q, bz, row_buffer, t, l) /\ l \in 1 .. Len(q)
      BY <2>2, <1>2, <1>9
    <3> DEFINE kl == GetBank(q[l].blk)
    <3>2. CASE kl = k
      <4>1. Len(bz.bank[kl]) # 1
        BY <3>2, <1>5
      <4> QED
        BY <4>1, <3>1 DEF HoldsBank
    <3>3. CASE kl # k
      <4>1. kl \in Banks
        BY <3>1, <1>3, PlaceOfBlock
      <4>2. bz2.bank[kl] = bz.bank[kl]
        BY <4>1, <3>3, <1>8
      <4>3. rb2[kl] = row_buffer[kl]
        BY <4>1, <3>3 DEF rb2
      <4> QED
        BY <4>2, <4>3, <3>1 DEF HoldsBank
    <3> QED
      BY <3>2, <3>3
  <2> QED
    BY <2>1, <2>2
<1>12. ASSUME NEW l \in Flying(q) PROVE Distance(fin, q[l].fin) >= DataLen
  <2>1. PICK d \in 1 .. Len(bz.data) : bz.data[d].max = q[l].fin
    BY <1>9 DEF HoldsDataBus
  <2>2. bz.data[d].max = bz.data[d].min + DataLen - 1
    BY DEF Buses, Spaced
  <2>3. ~(Distance(c, bz.data[d].min) <= DataLen)
    BY <1>5 DEF QueryBusy, c
  <2>4. bz.data[d].min \in Int
    BY RangesHaveCycles
  <2> QED
    BY <2>1, <2>2, <2>3, <2>4, <1>6, Numbers DEF Distance
<1>13. ASSUME NEW l \in Flying(new), NEW m \in Flying(new), l # m
       PROVE  Distance(new[l].fin, new[m].fin) >= DataLen
  <2>1. l \in 1 .. Len(q) /\ m \in 1 .. Len(q)
    BY <1>1, <1>2, <1>9
  <2>2. CASE l = i
    <3>1. m \in Flying(q) /\ new[l].fin = fin /\ new[m].fin = q[m].fin
      BY <2>1, <2>2, <1>2, <1>13
    <3> QED
      BY <3>1, <1>12
  <2>3. CASE m = i
    <3>1. l \in Flying(q) /\ new[m].fin = fin /\ new[l].fin = q[l].fin
      BY <2>1, <2>3, <1>2, <1>13
    <3>2. Distance(fin, q[l].fin) = Distance(q[l].fin, fin)
      BY <2>1, <1>2, <1>3 DEF Distance
    <3> QED
      BY <3>1, <3>2, <1>12
  <2>4. CASE l # i /\ m # i
    <3>1. l \in Flying(q) /\ m \in Flying(q) /\ new[l].fin = q[l].fin /\ new[m].fin = q[m].fin
      BY <2>1, <2>4, <1>2
    <3> QED
      BY <3>1, <1>13 DEF Flights
  <2> QED
    BY <2>2, <2>3, <2>4
<1> QED
  BY <1>10, <1>11, <1>13 DEF Flights, new, b, k, status, bz2, rb2, t

-----------------------------------------------------------------------------
(* The steps.                                                              *)

\* The invariant holds when the machine is switched on.
LEMMA InitIndInv == Init => IndInv
<1> SUFFICES ASSUME Init PROVE IndInv
  OBVIOUS
<1>1. /\ mshr = << >> /\ row_buffer = [k \in Banks |-> NoRow] /\ busy = NothingBusy
      /\ stat_cycles = 0 /\ run_bit = TRUE /\ aborted = FALSE
  BY DEF Init
<1>2. /\ busy.cmd = << >> /\ busy.data = << >> /\ \A k \in Banks : busy.bank[k] = << >>
      /\ busy \in [cmd : Seq(RANGE_T), data : Seq(RANGE_T), bank : [Banks -> Seq(RANGE_T)]]
  BY <1>1 DEF NothingBusy
<1>3. TypeOK /\ NoAbort
  <2>1. /\ mshr \in Seq([blk : Blocks, word : 1 .. BlockWords, fin : Int])
        /\ Len(mshr) = 0 /\ 0 <= MshrSize
    BY <1>1, Numbers
  <2>2. row_buffer \in [Banks -> Nat \cup {NoRow}]
    BY <1>1
  <2> QED
    BY <2>1, <2>2, <1>1, <1>2 DEF TypeOK, NoAbort
<1>4. Len(mshr) = 0 /\ Flying(mshr) = {}
  BY <1>1 DEF Flying
<1>5. LaterWordsQueued(mshr) /\ WordsInOrder(mshr) /\ Flights(mshr, busy, row_buffer, stat_cycles)
  BY <1>4 DEF LaterWordsQueued, WordsInOrder, Flights
<1>6. Buses(busy, stat_cycles)
  BY <1>2 DEF Buses, Spaced, NotPassed, FarMarksAreWords
<1> QED
  BY <1>3, <1>5, <1>6 DEF IndInv

\* The queue with the words of a block put behind it.
LEMMA EnqueuedEntries ==
  ASSUME NEW q \in Seq(Entry), NEW b \in Blocks
  PROVE  LET n == Len(q)
             new == Enqueued(q, b)
         IN  /\ new \in Seq(Entry) /\ Len(new) = n + BlockWords
             /\ \A i \in 1 .. n : new[i] = q[i]
             /\ \A i \in n + 1 .. n + BlockWords :
                  new[i].blk = b /\ new[i].word = i - n /\ new[i].fin = NotServed
             /\ Flying(new) = Flying(q)
<1> DEFINE n == Len(q)
           words == [w \in 1 .. BlockWords |-> [blk |-> b, word |-> w, fin |-> NotServed]]
           new == Enqueued(q, b)
<1>1. BlockWords \in Nat \ {0} /\ n \in Nat
  BY Numbers
<1>2. words \in Seq(Entry) /\ Len(words) = BlockWords
  <2>1. words \in [1 .. BlockWords -> Entry]
    BY DEF Entry, NotServed
  <2> HIDE DEF words
  <2> QED
    BY <2>1, <1>1
<1>3. \A w \in 1 .. BlockWords :
        words[w].blk = b /\ words[w].word = w /\ words[w].fin = NotServed
  OBVIOUS
<1>4. new = q \o words
  BY DEF Enqueued
<1> HIDE DEF words, new
<1>5. /\ new \in Seq(Entry) /\ Len(new) = n + BlockWords
      /\ \A i \in 1 .. n : new[i] = q[i]
      /\ \A i \in n + 1 .. n + BlockWords : new[i] = words[i - n]
  <2>1. /\ q \o words \in Seq(Entry) /\ Len(q \o words) = n + BlockWords
        /\ \A i \in 1 .. n + BlockWords :
             (q \o words)[i] = IF i <= n THEN q[i] ELSE words[i - n]
    BY <1>2, ConcatProperties
  <2>2. \A i \in 1 .. n : i \in 1 .. n + BlockWords /\ i <= n
    BY <1>1
  <2>3. \A i \in n + 1 .. n + BlockWords : i \in 1 .. n + BlockWords /\ ~(i <= n)
    BY <1>1
  <2> HIDE DEF n
  <2> QED
    BY <2>1, <2>2, <2>3, <1>4
<1>6. \A i \in n + 1 .. n + BlockWords : i - n \in 1 .. BlockWords
  BY <1>1
<1>7. \A i \in n + 1 .. n + BlockWords :
        new[i].blk = b /\ new[i].word = i - n /\ new[i].fin = NotServed
  <2> HIDE DEF n
  <2> TAKE i \in n + 1 .. n + BlockWords
  <2> QED
    BY <1>3, <1>5, <1>6
<1> HIDE DEF n
<1>8. Flying(new) = Flying(q)
  <2>1. \A i \in 1 .. n + BlockWords : i \in 1 .. n \/ i \in n + 1 .. n + BlockWords
    BY <1>1
  <2>2. 1 .. n \subseteq 1 .. n + BlockWords
    BY <1>1
  <2> QED
    BY <2>1, <2>2, <1>5, <1>7 DEF Flying, n
<1> QED
  BY <1>5, <1>7, <1>8 DEF new, n

\* A request of the pipeline keeps the invariant.
LEMMA RequestKeepsIndInv ==
  ASSUME IndInv, NEW b \in Blocks, Request(b)
  PROVE  IndInv'
<1> DEFINE n == Len(mshr)
<1>1. /\ mshr' = Enqueued(mshr, b) /\ run_bit /\ ~aborted
      /\ n + BlockWords <= MshrSize
      /\ \A w \in 1 .. BlockWords : ~Probe(mshr, b, w)
      /\ UNCHANGED <<row_buffer, busy, stat_cycles, run_bit, aborted>>
  <2>1. Len(mshr) \in Nat /\ BlockWords \in Nat /\ MshrSize \in Nat
    BY TypesOfState, Numbers DEF IndInv
  <2> QED
    BY <2>1 DEF Request, EnqueueFails
<1>2. /\ TypeOK /\ LaterWordsQueued(mshr) /\ WordsInOrder(mshr)
      /\ Buses(busy, stat_cycles) /\ Flights(mshr, busy, row_buffer, stat_cycles)
  BY <1>1 DEF IndInv
<1>3. mshr \in Seq(Entry)
  BY <1>2, TypesOfState
<1>4. /\ mshr' \in Seq(Entry) /\ Len(mshr') = n + BlockWords
      /\ \A i \in 1 .. n : mshr'[i] = mshr[i]
      /\ \A i \in n + 1 .. n + BlockWords :
           mshr'[i].blk = b /\ mshr'[i].word = i - n /\ mshr'[i].fin = NotServed
      /\ Flying(mshr') = Flying(mshr)
  BY <1>1, <1>3, EnqueuedEntries, ZenonT(60)
<1>5. n \in Nat /\ BlockWords \in Nat \ {0}
      /\ \A i \in 1 .. n : mshr[i].word \in 1 .. BlockWords /\ mshr[i].fin \in Int
  BY <1>3, EntriesHaveTypes, Numbers
<1>6. \A i \in 1 .. n : mshr[i].blk # b
  BY <1>1, <1>5 DEF Probe
<1>7. \A i \in 1 .. n + BlockWords : i \in 1 .. n \/ i \in n + 1 .. n + BlockWords
  BY <1>5
<1> HIDE DEF n
<1>8. TypeOK'
  BY <1>1, <1>2, <1>4 DEF TypeOK, Entry
<1>9. LaterWordsQueued(mshr')
  <2> SUFFICES ASSUME NEW i \in 1 .. n + BlockWords, NEW w \in mshr'[i].word .. BlockWords
               PROVE  Probe(mshr', mshr'[i].blk, w)
    BY <1>4 DEF LaterWordsQueued
  <2>1. CASE i \in 1 .. n
    <3>1. PICK j \in 1 .. n : mshr[j].blk = mshr[i].blk /\ mshr[j].word = w
      BY <2>1, <1>2, <1>4 DEF LaterWordsQueued, Probe, n
    <3>2. j \in 1 .. n + BlockWords
      BY <1>5
    <3> QED
      BY <3>1, <3>2, <2>1, <1>4 DEF Probe
  <2>2. CASE i \in n + 1 .. n + BlockWords
    <3>1. w \in 1 .. BlockWords
      BY <2>2, <1>4, <1>5
    <3>2. n + w \in n + 1 .. n + BlockWords /\ n + w \in 1 .. n + BlockWords /\ (n + w) - n = w
      BY <3>1, <1>5
    <3> QED
      BY <3>2, <2>2, <1>4 DEF Probe
  <2> QED
    BY <2>1, <2>2, <1>7
<1>10. WordsInOrder(mshr')
  <2> SUFFICES ASSUME NEW i \in 1 .. n + BlockWords, NEW j \in 1 .. n + BlockWords,
                      i < j, mshr'[i].blk = mshr'[j].blk
               PROVE  /\ mshr'[i].word < mshr'[j].word
                      /\ j \in Flying(mshr') =>
                           i \in Flying(mshr') /\ mshr'[i].fin < mshr'[j].fin
    BY <1>4 DEF WordsInOrder
  <2>1. CASE j \in 1 .. n
    <3>1. i \in 1 .. n
      BY <2>1, <1>5
    <3> QED
      BY <3>1, <2>1, <1>2, <1>4 DEF WordsInOrder, n
  <2>2. CASE j \in n + 1 .. n + BlockWords
    <3>1. i \in n + 1 .. n + BlockWords
      BY <2>2, <1>4, <1>6, <1>7
    <3>2. mshr'[i].word < mshr'[j].word
      BY <3>1, <2>2, <1>4, <1>5
    <3>3. j \notin Flying(mshr')
      BY <2>2, <1>4 DEF Flying
    <3> QED
      BY <3>2, <3>3
  <2> QED
    BY <2>1, <2>2, <1>7
<1>11. Flights(mshr', busy, row_buffer, stat_cycles)
  <2>1. \A i \in Flying(mshr) : mshr'[i] = mshr[i]
    BY <1>4 DEF Flying, n
  <2>2. ASSUME NEW i \in Flying(mshr)
        PROVE  /\ HoldsDataBus(mshr', busy, stat_cycles, i)
               /\ HoldsBank(mshr', busy, row_buffer, stat_cycles, i)
    BY <2>1, <1>2 DEF Flights, HoldsDataBus, HoldsBank
  <2> QED
    BY <2>1, <2>2, <1>2, <1>4 DEF Flights
<1> QED
  BY <1>1, <1>2, <1>8, <1>9, <1>10, <1>11 DEF IndInv, NoAbort

\* What finish_request and clean_up leave behind: a queue and busy sets that a
\* request can be served from without failing an assertion.
LEMMA BeforeScheduling ==
  ASSUME IndInv, run_bit, NEW run \in BOOLEAN
  PROVE  LET q == FinishRequest
             bz == CleanUp(run)
         IN  /\ ~CleanUpFails
             /\ q \in Seq(Entry) /\ Len(q) <= MshrSize
             /\ WordsInOrder(q) /\ LaterWordsQueued(q)
             /\ bz \in [cmd : Seq(RANGE_T), data : Seq(RANGE_T), bank : [Banks -> Seq(RANGE_T)]]
             /\ Buses(bz, stat_cycles + 1)
             /\ run => Flights(q, bz, row_buffer, stat_cycles + 1)
<1> DEFINE q == FinishRequest
           bz == CleanUp(run)
<1>1. /\ TypeOK /\ LaterWordsQueued(mshr) /\ WordsInOrder(mshr)
      /\ Buses(busy, stat_cycles) /\ Flights(mshr, busy, row_buffer, stat_cycles)
  BY DEF IndInv
<1>2. mshr \in Seq(Entry) /\ stat_cycles \in Nat /\ Len(mshr) <= MshrSize
  BY <1>1, TypesOfState
<1>3. q \in Seq(Entry) /\ Len(q) <= Len(mshr)
  BY <1>1, <1>2, FinishRequestKeepsOthers DEF Flights
<1>4. Len(q) <= MshrSize
  BY <1>2, <1>3, EntriesHaveTypes, Numbers
<1>5. WordsInOrder(q) /\ LaterWordsQueued(q)
  BY <1>1, FinishRequestKeepsWords
<1>6. ~CleanUpFails
  BY <1>1, CleanUpKeepsBuses
<1>7. CASE run
  <2>1. run = TRUE
    BY <1>7
  <2>2. /\ bz.cmd \in Seq(RANGE_T) /\ bz.data \in Seq(RANGE_T)
        /\ bz.bank \in [Banks -> Seq(RANGE_T)]
        /\ Buses(bz, stat_cycles + 1)
    BY <2>1, <1>1, CleanUpKeepsBuses
  <2>3. bz = [cmd |-> bz.cmd, data |-> bz.data, bank |-> bz.bank]
    BY <2>1 DEF CleanUp
  <2>4. Flights(q, bz, row_buffer, stat_cycles + 1)
    BY <2>1, <1>1, FlightsGoOn
  <2> HIDE DEF q, bz
  <2>5. bz \in [cmd : Seq(RANGE_T), data : Seq(RANGE_T), bank : [Banks -> Seq(RANGE_T)]]
    BY <2>2, <2>3
  <2> QED
    BY <2>2, <2>4, <2>5, <1>3, <1>4, <1>5, <1>6 DEF q, bz
<1>8. CASE ~run
  <2>1. bz = NothingBusy
    BY <1>8 DEF CleanUp
  <2>2. /\ bz.cmd = << >> /\ bz.data = << >> /\ \A k \in Banks : bz.bank[k] = << >>
        /\ bz \in [cmd : Seq(RANGE_T), data : Seq(RANGE_T), bank : [Banks -> Seq(RANGE_T)]]
    BY <2>1 DEF NothingBusy
  <2> HIDE DEF q, bz
  <2>3. Buses(bz, stat_cycles + 1)
    BY <2>2 DEF Buses, Spaced, NotPassed, FarMarksAreWords
  <2> QED
    BY <2>2, <2>3, <1>3, <1>4, <1>5, <1>6, <1>8 DEF q, bz
<1> QED
  BY <1>7, <1>8

\* A cycle in which nothing is served keeps the invariant.
LEMMA IdleKeepsIndInv ==
  ASSUME IndInv, NEW run \in BOOLEAN, Tick(run), Idle(run)
  PROVE  IndInv'
<1> DEFINE q == FinishRequest
           bz == CleanUp(run)
<1>1. /\ run_bit /\ run_bit' = run /\ stat_cycles' = stat_cycles + 1
      /\ mshr' = q /\ busy' = bz /\ aborted' = CleanUpFails /\ row_buffer' = row_buffer
  BY DEF Tick, Idle
<1>2. /\ row_buffer \in [Banks -> Nat \cup {NoRow}] /\ stat_cycles \in Nat
  BY TypesOfState DEF IndInv
<1>3. /\ ~CleanUpFails
      /\ q \in Seq(Entry) /\ Len(q) <= MshrSize
      /\ WordsInOrder(q) /\ LaterWordsQueued(q)
      /\ bz \in [cmd : Seq(RANGE_T), data : Seq(RANGE_T), bank : [Banks -> Seq(RANGE_T)]]
      /\ Buses(bz, stat_cycles + 1)
      /\ run => Flights(q, bz, row_buffer, stat_cycles + 1)
  BY <1>1, BeforeScheduling
<1> HIDE DEF q, bz
<1>4. aborted' = FALSE
  BY <1>1, <1>3
<1>5. TypeOK'
  <2>1. stat_cycles' \in Nat
    BY <1>1, <1>2
  <2>4. run_bit' \in BOOLEAN
    BY <1>1, Zenon
  <2>5. aborted' \in BOOLEAN
    BY <1>4
  <2>2. mshr' \in Seq(Entry) /\ Len(mshr') <= MshrSize
    BY <1>1, <1>3
  <2>3. /\ busy' \in [cmd : Seq(RANGE_T), data : Seq(RANGE_T), bank : [Banks -> Seq(RANGE_T)]]
        /\ row_buffer' \in [Banks -> Nat \cup {NoRow}]
    BY <1>1, <1>2, <1>3
  <2> QED
    BY <2>1, <2>2, <2>3, <2>4, <2>5 DEF TypeOK, Entry
<1> QED
  BY <1>1, <1>3, <1>4, <1>5 DEF IndInv, NoAbort

\* A cycle in which a request is served keeps the invariant.
LEMMA ServeKeepsIndInv ==
  ASSUME IndInv, NEW run \in BOOLEAN, Tick(run), Serve(run)
  PROVE  IndInv'
<1> DEFINE q == FinishRequest
           bz == CleanUp(run)
<1>1. run_bit /\ run_bit' = run /\ stat_cycles' = stat_cycles + 1
  BY DEF Tick
<1>2. /\ row_buffer \in [Banks -> Nat \cup {NoRow}] /\ stat_cycles \in Nat
  BY TypesOfState DEF IndInv
<1>3. /\ ~CleanUpFails
      /\ q \in Seq(Entry) /\ Len(q) <= MshrSize
      /\ WordsInOrder(q) /\ LaterWordsQueued(q)
      /\ bz \in [cmd : Seq(RANGE_T), data : Seq(RANGE_T), bank : [Banks -> Seq(RANGE_T)]]
      /\ Buses(bz, stat_cycles + 1)
      /\ run => Flights(q, bz, row_buffer, stat_cycles + 1)
  BY <1>1, BeforeScheduling
<1>4. PICK i \in RequestToServe(q, bz) :
        LET b == q[i].blk
            status == RowBufferStatus(b)
        IN  /\ mshr' = Served(q, i)
            /\ row_buffer' = [row_buffer EXCEPT ![GetBank(b)] = GetRow(b)]
            /\ busy' = SetBusyStatus(bz, status, GetBank(b))
            /\ aborted' = (CleanUpFails \/ SetBusyStatusFails(bz, status, GetBank(b)))
  BY DEF Serve, Served
<1> DEFINE b == q[i].blk
           k == GetBank(b)
           status == RowBufferStatus(b)
<1>5. i \in 1 .. Len(q) /\ Schedulable(q[i], bz)
  BY <1>3, RequestToServeIsFree
<1>6. b \in Nat /\ k \in Banks /\ status \in {HIT, MISS, CONFLICT} /\ GetRow(b) \in Nat
  BY <1>3, <1>5, EntriesHaveTypes, PlaceOfBlock
<1>7. MayMark(bz, status, k)
  BY <1>3, <1>5, <1>6 DEF MayMark, Schedulable
<1>8. /\ ~SetBusyStatusFails(bz, status, k)
      /\ busy' \in [cmd : Seq(RANGE_T), data : Seq(RANGE_T), bank : [Banks -> Seq(RANGE_T)]]
      /\ Buses(busy', stat_cycles + 1)
  BY <1>2, <1>4, <1>7, SetBusyStatusKeepsBuses
<1>9. mshr' \in Seq(Entry) /\ Len(mshr') = Len(q)
  BY <1>2, <1>3, <1>4, <1>5, ServedEntries
<1>10. row_buffer' \in [Banks -> Nat \cup {NoRow}]
  BY <1>2, <1>4, <1>6
<1>11. aborted' = FALSE
  BY <1>3, <1>4, <1>8
<1>12. LaterWordsQueued(mshr')
  BY <1>2, <1>3, <1>4, ServeKeepsWords
<1>13. ASSUME run
       PROVE  /\ Flights(mshr', busy', row_buffer', stat_cycles + 1)
              /\ WordsInOrder(mshr')
  <2> HIDE DEF q, bz
  <2>1. bz.cmd \in Seq(RANGE_T) /\ bz.data \in Seq(RANGE_T) /\ bz.bank \in [Banks -> Seq(RANGE_T)]
    BY <1>3
  <2>2. Flights(q, bz, row_buffer, stat_cycles + 1)
    BY <1>3, <1>13
  <2>3. Flights(mshr', busy', row_buffer', stat_cycles + 1)
    BY <2>1, <2>2, <1>2, <1>3, <1>4, ServeKeepsFlights
  <2>4. \A l \in Flying(q) : q[l].fin > 0 /\ HoldsBank(q, bz, row_buffer, stat_cycles + 1, l)
    BY <2>2 DEF Flights, HoldsDataBus
  <2> QED
    BY <2>3, <2>4, <1>2, <1>3, <1>4, ServeKeepsOrder
<1> HIDE DEF q, bz
<1>14. TypeOK'
  <2>1. stat_cycles' \in Nat
    BY <1>1, <1>2
  <2>4. run_bit' \in BOOLEAN
    BY <1>1, Zenon
  <2>5. aborted' \in BOOLEAN
    BY <1>11
  <2>2. mshr' \in Seq(Entry) /\ Len(mshr') <= MshrSize
    BY <1>3, <1>9
  <2> QED
    BY <2>1, <2>2, <2>4, <2>5, <1>8, <1>10 DEF TypeOK, Entry
<1> QED
  BY <1>1, <1>8, <1>11, <1>12, <1>13, <1>14 DEF IndInv, NoAbort

\* Every step keeps the invariant.
LEMMA NextKeepsIndInv == IndInv /\ [Next]_vars => IndInv'
<1> SUFFICES ASSUME IndInv, [Next]_vars PROVE IndInv'
  OBVIOUS
<1>1. ASSUME NEW b \in Blocks, Request(b) PROVE IndInv'
  BY <1>1, RequestKeepsIndInv
<1>2. ASSUME NEW run \in BOOLEAN, Cycle(run) PROVE IndInv'
  BY <1>2, IdleKeepsIndInv, ServeKeepsIndInv DEF Cycle
<1>3. CASE UNCHANGED vars
  BY <1>3 DEF vars, IndInv, TypeOK, NoAbort
<1> QED
  BY <1>1, <1>2, <1>3 DEF Next

\* The invariant holds in every state of the controller.
THEOREM InvariantHolds == Spec => []IndInv
BY InitIndInv, NextKeepsIndInv, PTL DEF Spec

-----------------------------------------------------------------------------
(* The properties.                                                         *)

\* What the invariant says of each state.
LEMMA InvariantImplies ==
  ASSUME IndInv
  PROVE  TypeOK /\ NoAbort /\ NoMissedFinish /\ WordsDontShareBus /\ LastWordLast /\ RowStaysOpen
<1>1. TypeOK /\ NoAbort /\ LaterWordsQueued(mshr)
  BY DEF IndInv
<1>2. mshr \in Seq(Entry) /\ stat_cycles \in Nat
  BY <1>1, TypesOfState
<1>3. InFlight = Flying(mshr)
  BY DEF InFlight, Flying
<1>4. LastWordLast
  <2>1. \A i \in 1 .. Len(mshr) : BlockWords \in mshr[i].word .. BlockWords
    BY <1>2, EntriesHaveTypes, Numbers
  <2> QED
    BY <1>1, <2>1 DEF LastWordLast, LaterWordsQueued, Probe
<1>5. NoMissedFinish /\ WordsDontShareBus
  BY <1>3 DEF IndInv, NoMissedFinish, WordsDontShareBus, Flights, HoldsDataBus
<1>6. RowStaysOpen
  <2> SUFFICES ASSUME run_bit, NEW i \in Flying(mshr), stat_cycles <= mshr[i].fin - DataLen + 1
               PROVE  row_buffer[GetBank(mshr[i].blk)] = GetRow(mshr[i].blk)
    BY <1>3 DEF RowStaysOpen
  <2>1. HoldsBank(mshr, busy, row_buffer, stat_cycles, i)
    BY DEF IndInv, Flights
  <2>2. mshr[i].fin \in Int
    BY <1>2, EntriesHaveTypes DEF Flying
  <2>3. ~(mshr[i].fin - DataLen < stat_cycles - 1)
    BY <2>2, <1>2, Numbers
  <2> QED
    BY <2>1, <2>3 DEF HoldsBank
<1> QED
  BY <1>1, <1>4, <1>5, <1>6

\* Every variable keeps its type; in particular the queue never holds more than
\* MshrSize requests.
THEOREM TypeCorrect == Spec => []TypeOK
BY InvariantHolds, InvariantImplies, PTL

\* No assertion of mem_ctrl.c fails in the controller's cycle.
THEOREM AssertionsHold == Spec => []NoAbort
BY InvariantHolds, InvariantImplies, PTL

\* No request misses the one cycle in which finish_request would take it out.
THEOREM NoFinishIsMissed == Spec => []NoMissedFinish
BY InvariantHolds, InvariantImplies, PTL

\* No two words are on the data bus at once.
THEOREM DataBusIsExclusive == Spec => []WordsDontShareBus
BY InvariantHolds, InvariantImplies, PTL

\* The last word of a block is the last to leave the queue, so that waiting for
\* it is waiting for the block.
THEOREM LastWordIsLast == Spec => []LastWordLast
BY InvariantHolds, InvariantImplies, PTL

\* A row stays open until the words requested of it are on the data bus.
THEOREM RowsStayOpen == Spec => []RowStaysOpen
BY InvariantHolds, InvariantImplies, PTL

-----------------------------------------------------------------------------
(* Counting the words of a block.                                          *)

LEMMA WordsAreFinite ==
  ASSUME NEW q \in Seq(Entry), NEW b
  PROVE  IsFiniteSet(WordsOf(q, b)) /\ Cardinality(WordsOf(q, b)) \in Nat
<1>1. Len(q) \in Nat
  BY EntriesHaveTypes
<1>2. IsFiniteSet(1 .. Len(q))
  BY <1>1, CountUpTo
<1>3. WordsOf(q, b) \in SUBSET (1 .. Len(q))
  BY DEF WordsOf
<1> QED
  BY <1>2, <1>3, FS_Subset, FS_CardinalityType

\* What finish_request leaves of a block are its words that are not due.
LEMMA WordsLeft ==
  ASSUME mshr \in Seq(Entry), NEW q \in Seq(Entry), NEW at, IsTheRest(q, at), NEW b
  PROVE  Cardinality(WordsOf(q, b)) = Cardinality(WordsOf(mshr, b) \ Due)
<1> DEFINE S == WordsOf(q, b)
           T == WordsOf(mshr, b) \ Due
           f == [m \in S |-> at[m]]
<1>1. Len(q) \in Nat /\ S \subseteq 1 .. Len(q)
  BY EntriesHaveTypes DEF WordsOf
<1>2. \A m \in S : at[m] \in T
  BY DEF IsTheRest, WordsOf
<1>3. \A i \in T : \E m \in S : at[m] = i
  BY DEF IsTheRest, WordsOf
<1>4. \A l, m \in S : at[l] = at[m] => l = m
  <2> SUFFICES ASSUME NEW l \in S, NEW m \in S, at[l] = at[m], l # m PROVE FALSE
    OBVIOUS
  <2>1. at[l] \in Int /\ at[m] \in Int /\ l \in Int /\ m \in Int
    BY <1>1, <1>2 DEF WordsOf
  <2>2. at[l] < at[m] \/ at[m] < at[l]
    BY <1>1, <2>1 DEF IsTheRest
  <2> QED
    BY <2>1, <2>2
<1>5. IsFiniteSet(S)
  BY WordsAreFinite
<1> HIDE DEF S, T
<1>6. f \in Surjection(S, T)
  BY <1>2, <1>3 DEF Surjection
<1>7. f \in Injection(S, T)
  BY <1>2, <1>4 DEF Injection, IsInjective
<1> HIDE DEF f
<1>8. Cardinality(T) = Cardinality(S)
  BY <1>5, <1>6, <1>7, FS_Surjection
<1> QED
  BY <1>8 DEF S, T

\* A block asked for has all its words in the queue, if it had none before.
LEMMA WordsAsked ==
  ASSUME NEW q \in Seq(Entry), NEW b \in Blocks, NEW c
  PROVE  Cardinality(WordsOf(Enqueued(q, b), c)) =
           IF c # b THEN Cardinality(WordsOf(q, c))
           ELSE IF WordsOf(q, b) = {} THEN BlockWords
           ELSE Cardinality(WordsOf(Enqueued(q, b), b))
<1> DEFINE n == Len(q)
           new == Enqueued(q, b)
<1>1. n \in Nat /\ BlockWords \in Nat
  BY EntriesHaveTypes, Numbers
<1>2. /\ Len(new) = n + BlockWords
      /\ \A i \in 1 .. n : new[i] = q[i]
      /\ \A i \in n + 1 .. n + BlockWords : new[i].blk = b
  BY EnqueuedEntries
<1> HIDE DEF n, new
<1>3. 1 .. n + BlockWords = (1 .. n) \cup (n + 1 .. n + BlockWords)
  BY <1>1
<1>4. CASE c # b
  <2>1. WordsOf(new, c) = WordsOf(q, c)
    BY <1>2, <1>3, <1>4 DEF WordsOf, n
  <2> QED
    BY <2>1, <1>4 DEF new
<1>5. CASE c = b /\ WordsOf(q, b) = {}
  <2>1. \A i \in 1 .. n : new[i].blk # b
    BY <1>2, <1>5 DEF WordsOf, n
  <2>2. WordsOf(new, b) = n + 1 .. n + BlockWords
    BY <1>2, <1>3, <2>1 DEF WordsOf
  <2>3. PICK first, last \in Int : first = n + 1 /\ last = n + BlockWords
    BY <1>1
  <2>4. Cardinality(first .. last) = IF first > last THEN 0 ELSE last - first + 1
    BY FS_Interval
  <2>5. Cardinality(n + 1 .. n + BlockWords) = BlockWords
    BY <1>1, <2>3, <2>4
  <2> QED
    BY <2>2, <2>5, <1>5 DEF new
<1> QED
  BY <1>4, <1>5

\* Of a block the words that are left are the last ones.
LEMMA LastWordsLeft ==
  ASSUME IndInv, run_bit, NEW b \in Blocks
  PROVE  /\ Left[b] \in 0 .. BlockWords
         /\ \A w \in 1 .. BlockWords : Probe(mshr, b, w) <=> w > BlockWords - Left[b]
<1> DEFINE S == WordsOf(mshr, b)
           T == {w \in 1 .. BlockWords : Probe(mshr, b, w)}
           f == [i \in S |-> mshr[i].word]
<1>1. mshr \in Seq(Entry) /\ Len(mshr) \in Nat /\ BlockWords \in Nat \ {0}
  BY TypesOfState, EntriesHaveTypes, Numbers DEF IndInv
<1>2. S \subseteq 1 .. Len(mshr) /\ \A i \in S : mshr[i].blk = b
  BY DEF WordsOf
<1>3. \A i \in S : mshr[i].word \in T
  BY <1>1, <1>2, EntriesHaveTypes DEF Probe
<1>4. \A w \in T : \E i \in S : mshr[i].word = w
  BY DEF Probe, WordsOf
<1>5. \A i, j \in S : mshr[i].word = mshr[j].word => i = j
  <2> SUFFICES ASSUME NEW i \in S, NEW j \in S, mshr[i].word = mshr[j].word, i < j PROVE FALSE
    BY <1>1, <1>2
  <2>1. mshr[i].word < mshr[j].word
    BY <1>2 DEF IndInv, WordsInOrder
  <2>2. mshr[i].word \in Int
    BY <1>1, <1>2, EntriesHaveTypes
  <2> QED
    BY <2>1, <2>2
<1>6. IsFiniteSet(S) /\ Left[b] = Cardinality(S)
  BY <1>1, WordsAreFinite DEF Left
<1>7. \A w \in T : \A v \in w .. BlockWords : v \in T
  BY <1>1, <1>2, <1>4 DEF IndInv, LaterWordsQueued
<1>8. T \subseteq 1 .. BlockWords
  OBVIOUS
<1> HIDE DEF S, T
<1>9. f \in Surjection(S, T)
  BY <1>3, <1>4 DEF Surjection
<1>10. f \in Injection(S, T)
  BY <1>3, <1>5 DEF Injection, IsInjective
<1> HIDE DEF f
<1>11. Cardinality(T) = Cardinality(S)
  BY <1>6, <1>9, <1>10, FS_Surjection
<1>12. CASE T = {}
  <2>1. Left[b] = 0
    BY <1>6, <1>11, <1>12, FS_EmptySet
  <2> QED
    BY <1>1, <1>12, <2>1 DEF T
<1>13. CASE T # {}
  <2>1. PICK m \in T : \A w \in T : m <= w
    <3>1. T \subseteq Nat
      BY <1>1, <1>8
    <3> QED
      BY <1>13, <3>1, LeastIsLeast
  <2>2. T = m .. BlockWords
    <3>1. \A v \in m .. BlockWords : v \in T
      BY <1>7, <2>1
    <3>2. \A v \in T : v \in m .. BlockWords
      BY <1>1, <1>8, <2>1
    <3> QED
      BY <3>1, <3>2
  <2>3. Cardinality(T) = BlockWords - m + 1
    BY <1>1, <1>8, <2>1, <2>2, FS_Interval
  <2>4. Left[b] = BlockWords - m + 1
    BY <1>6, <1>11, <2>3
  <2>5. \A w \in 1 .. BlockWords : w \in T <=> w > BlockWords - Left[b]
    BY <1>1, <1>8, <2>1, <2>2, <2>4
  <2> QED
    BY <1>1, <1>8, <2>1, <2>4, <2>5 DEF T
<1> QED
  BY <1>12, <1>13

\* The queue holds what is left of each block, and nothing else.
LEMMA QueueIsItsBlocks ==
  ASSUME IndInv, run_bit
  PROVE  LET W == {e \in Blocks \X (1 .. BlockWords) : e[2] <= Left[e[1]]}
         IN  IsFiniteSet(W) /\ Cardinality(W) = Len(mshr)
<1> DEFINE S == 1 .. Len(mshr)
           W == {e \in Blocks \X (1 .. BlockWords) : e[2] <= Left[e[1]]}
           f == [i \in S |-> <<mshr[i].blk, BlockWords + 1 - mshr[i].word>>]
<1>1. mshr \in Seq(Entry) /\ Len(mshr) \in Nat /\ BlockWords \in Nat \ {0}
  BY TypesOfState, EntriesHaveTypes, Numbers DEF IndInv
<1>2. \A i \in S : mshr[i].blk \in Blocks /\ mshr[i].word \in 1 .. BlockWords
  BY <1>1, EntriesHaveTypes
<1>3. \A b \in Blocks : Left[b] \in Int
  BY <1>1, LastWordsLeft
<1>4. \A i \in S : f[i] \in W
  <2> TAKE i \in S
  <2>1. Probe(mshr, mshr[i].blk, mshr[i].word)
    BY DEF Probe
  <2>2. PICK b \in Blocks, w \in 1 .. BlockWords : b = mshr[i].blk /\ w = mshr[i].word
    BY <1>2
  <2>3. w > BlockWords - Left[b]
    BY <2>1, <2>2, LastWordsLeft
  <2>4. BlockWords + 1 - w \in 1 .. BlockWords
    BY <1>1
  <2>5. BlockWords + 1 - w <= Left[b]
    <3>1. Left[b] \in Int /\ w \in Int /\ BlockWords \in Int
      BY <1>1, <1>3
    <3> QED
      BY <2>3, <3>1
  <2> QED
    BY <2>2, <2>4, <2>5
<1>5. \A e \in W : \E i \in S : f[i] = e
  <2> TAKE e \in W
  <2>1. PICK b \in Blocks, k \in 1 .. BlockWords : e = <<b, k>> /\ k <= Left[b]
    <3>1. PICK b \in Blocks, k \in 1 .. BlockWords : e = <<b, k>>
      <4>1. e[1] \in Blocks /\ e[2] \in 1 .. BlockWords /\ e = <<e[1], e[2]>>
        OBVIOUS
      <4> QED
        BY <4>1
    <3>2. e[1] = b /\ e[2] = k /\ e[2] <= Left[e[1]]
      BY <3>1
    <3> QED
      BY <3>1, <3>2
  <2>2. PICK w \in 1 .. BlockWords : w = BlockWords + 1 - k
    BY <1>1
  <2>3. w > BlockWords - Left[b]
    BY <1>1, <1>3, <2>1, <2>2
  <2>4. Probe(mshr, b, w)
    BY <2>3, LastWordsLeft
  <2>5. PICK i \in S : mshr[i].blk = b /\ mshr[i].word = w
    BY <2>4 DEF Probe
  <2>6. BlockWords + 1 - w = k
    BY <1>1, <2>2
  <2> QED
    BY <2>1, <2>5, <2>6
<1>6. \A i, j \in S : f[i] = f[j] => i = j
  <2> SUFFICES ASSUME NEW i \in S, NEW j \in S, f[i] = f[j], i < j PROVE FALSE
    BY <1>1
  <2>1. f[i] = <<mshr[i].blk, BlockWords + 1 - mshr[i].word>>
    OBVIOUS
  <2>2. f[j] = <<mshr[j].blk, BlockWords + 1 - mshr[j].word>>
    OBVIOUS
  <2>3. /\ mshr[i].blk = mshr[j].blk
        /\ BlockWords + 1 - mshr[i].word = BlockWords + 1 - mshr[j].word
    BY <2>1, <2>2
  <2>4. mshr[i].word < mshr[j].word
    BY <2>3 DEF IndInv, WordsInOrder
  <2>5. \A v, w \in 1 .. BlockWords : BlockWords + 1 - v = BlockWords + 1 - w => ~(v < w)
    BY <1>1
  <2> QED
    BY <1>2, <2>3, <2>4, <2>5
<1>7. IsFiniteSet(S) /\ Cardinality(S) = Len(mshr)
  BY <1>1, CountUpTo
<1> HIDE DEF S, W
<1>8. f \in Surjection(S, W)
  BY <1>4, <1>5 DEF Surjection
<1>9. f \in Injection(S, W)
  BY <1>4, <1>6 DEF Injection, IsInjective
<1> HIDE DEF f
<1>10. IsFiniteSet(W) /\ Cardinality(W) = Len(mshr)
  BY <1>7, <1>8, <1>9, FS_Surjection
<1> QED
  BY <1>10 DEF W

\* The last word of a block tells whether there are words of it left.
LEMMA LastWordTells ==
  ASSUME IndInv, NEW b \in Blocks
  PROVE  Probe(mshr, b, BlockWords) <=> Left[b] > 0
<1>1. mshr \in Seq(Entry) /\ BlockWords \in Nat \ {0}
  BY TypesOfState, Numbers DEF IndInv
<1>2. Left[b] > 0 <=> WordsOf(mshr, b) # {}
  BY <1>1, WordsAreFinite, FS_EmptySet DEF Left
<1>3. \A i \in 1 .. Len(mshr) : mshr[i].word \in 1 .. BlockWords
  BY <1>1, EntriesHaveTypes
<1>4. \A i \in 1 .. Len(mshr) : BlockWords \in mshr[i].word .. BlockWords
  BY <1>1, <1>3
<1>5. \A i \in 1 .. Len(mshr) : Probe(mshr, mshr[i].blk, BlockWords)
  BY <1>4 DEF IndInv, LaterWordsQueued
<1>6. WordsOf(mshr, b) # {} => Probe(mshr, b, BlockWords)
  BY <1>5 DEF WordsOf
<1>7. Probe(mshr, b, BlockWords) => WordsOf(mshr, b) # {}
  BY DEF WordsOf, Probe
<1> QED
  BY <1>2, <1>6, <1>7

-----------------------------------------------------------------------------
(* The steps.                                                              *)

\* A block asked for had no word left, and has all of them then.
LEMMA RequestAddsBlock ==
  ASSUME IndInv, NEW b \in Blocks, Request(b)
  PROVE  Left[b] = 0 /\ Left' = [Left EXCEPT ![b] = BlockWords]
<1>1. mshr \in Seq(Entry)
  BY TypesOfState DEF IndInv
<1>2. run_bit /\ run_bit' = run_bit /\ mshr' = Enqueued(mshr, b)
  BY DEF Request
<1>3. WordsOf(mshr, b) = {}
  <2>1. \A i \in 1 .. Len(mshr) : mshr[i].word \in 1 .. BlockWords
    BY <1>1, EntriesHaveTypes
  <2> QED
    BY <2>1 DEF Request, Probe, WordsOf
<1>4. Left[b] = 0
  BY <1>3, FS_EmptySet DEF Left
<1>5. \A c \in Blocks :
        Cardinality(WordsOf(mshr', c)) = IF c = b THEN BlockWords ELSE Left[c]
  BY <1>1, <1>2, <1>3, WordsAsked DEF Left
<1>6. Left' = [Left EXCEPT ![b] = BlockWords]
  BY <1>5 DEF Left
<1> QED
  BY <1>4, <1>6

LEMMA RequestAsks ==
  ASSUME IndInv, NEW b \in Blocks, Request(b)
  PROVE  Service!Ask(b)
BY RequestAddsBlock DEF Request, Service!Ask

\* The blocks of the queue after a cycle are those that finish_request leaves.
LEMMA CycleKeepsBlocks ==
  ASSUME IndInv, NEW run \in BOOLEAN, Cycle(run), NEW b
  PROVE  WordsOf(mshr', b) = WordsOf(FinishRequest, b)
<1>1. run_bit
  BY DEF Cycle, Tick
<1>2. FinishRequest \in Seq(Entry) /\ stat_cycles \in Nat
  BY <1>1, BeforeScheduling, TypesOfState DEF IndInv
<1>3. CASE Idle(run)
  BY <1>3 DEF Idle
<1>4. CASE Serve(run)
  <2>1. PICK i \in RequestToServe(FinishRequest, CleanUp(run)) :
          mshr' = Served(FinishRequest, i)
    BY <1>4 DEF Serve, Served
  <2>2. i \in 1 .. Len(FinishRequest)
    BY <2>1, <1>2, RequestToServeIsFree
  <2>3. /\ Len(mshr') = Len(FinishRequest)
        /\ \A l \in 1 .. Len(FinishRequest) : mshr'[l].blk = FinishRequest[l].blk
    BY <1>2, <2>1, <2>2, ServedEntries
  <2> QED
    BY <2>3 DEF WordsOf
<1> QED
  BY <1>3, <1>4 DEF Cycle

\* In a cycle at most one word leaves the queue.
LEMMA CycleTakesOneWord ==
  ASSUME IndInv, NEW run \in BOOLEAN, Cycle(run)
  PROVE  \/ Left' = Left
         \/ \E b \in Blocks : Left[b] > 0 /\ Left' = [Left EXCEPT ![b] = @ - 1]
<1>1. run_bit
  BY DEF Cycle, Tick
<1>2. mshr \in Seq(Entry) /\ stat_cycles \in Nat /\ run_bit \in BOOLEAN
  BY TypesOfState DEF IndInv, TypeOK
<1>3. Flights(mshr, busy, row_buffer, stat_cycles)
  BY <1>1 DEF IndInv
<1>4. PICK q : q = FinishRequest
  OBVIOUS
<1>5. q \in Seq(Entry) /\ \E at : IsTheRest(q, at)
  BY <1>2, <1>3, <1>4, FinishRequestKeepsOthers DEF Flights
<1>6. \A b \in Blocks : Left'[b] = Cardinality(WordsOf(mshr, b) \ Due)
  <2> TAKE b \in Blocks
  <2>1. WordsOf(mshr', b) = WordsOf(q, b)
    BY <1>4, CycleKeepsBlocks
  <2>2. Cardinality(WordsOf(q, b)) = Cardinality(WordsOf(mshr, b) \ Due)
    BY <1>2, <1>5, WordsLeft
  <2> QED
    BY <2>1, <2>2 DEF Left
<1>7. Left \in [Blocks -> Nat] /\ Left' = [b \in Blocks |-> Left'[b]]
  BY <1>2, WordsAreFinite DEF Left
<1>8. CASE Due = {}
  <2>1. \A b \in Blocks : Left'[b] = Left[b]
    BY <1>6, <1>8 DEF Left
  <2>2. Left' = Left
    BY <1>7, <2>1
  <2> QED
    BY <2>2
<1>9. CASE Due # {}
  <2>1. PICK k : Due = {k} /\ k \in 1 .. Len(mshr)
    BY <1>2, <1>3, <1>9, OneIsDue DEF Flights
  <2>2. PICK d \in Blocks : d = mshr[k].blk
    BY <1>2, <2>1, EntriesHaveTypes
  <2>3. \A b \in Blocks : Left'[b] = IF b = d THEN Left[b] - 1 ELSE Left[b]
    <3> TAKE b \in Blocks
    <3>1. k \in WordsOf(mshr, b) <=> b = d
      BY <2>1, <2>2 DEF WordsOf
    <3>2. Cardinality(WordsOf(mshr, b) \ {k})
            = IF k \in WordsOf(mshr, b) THEN Left[b] - 1 ELSE Left[b]
      BY <1>2, WordsAreFinite, FS_RemoveElement DEF Left
    <3> QED
      BY <3>1, <3>2, <2>1, <1>6
  <2>4. Left[d] > 0
    <3>1. k \in WordsOf(mshr, d)
      BY <2>1, <2>2 DEF WordsOf
    <3>2. Cardinality(WordsOf(mshr, d)) # 0
      BY <3>1, <1>2, WordsAreFinite, FS_EmptySet
    <3> QED
      BY <3>2, <1>7 DEF Left
  <2>5. Left' = [Left EXCEPT ![d] = @ - 1]
    BY <2>3, <1>7
  <2> QED
    BY <2>4, <2>5
<1> QED
  BY <1>8, <1>9

LEMMA CycleDelivers ==
  ASSUME IndInv, NEW run \in BOOLEAN, Cycle(run)
  PROVE  [Service!Next]_(Service!vars)
<1>1. run_bit /\ run_bit' = run /\ run_bit \in BOOLEAN
  BY DEF Cycle, Tick, IndInv, TypeOK
<1>2. CASE Left' = Left
  <2>1. CASE run
    BY <1>1, <1>2, <2>1 DEF Service!vars
  <2>2. CASE ~run
    <3>1. Service!Halt
      BY <1>1, <1>2, <2>2 DEF Service!Halt
    <3> QED
      BY <3>1 DEF Service!Next
  <2> QED
    BY <2>1, <2>2
<1>3. CASE \E b \in Blocks : Left[b] > 0 /\ Left' = [Left EXCEPT ![b] = @ - 1]
  <2>1. PICK b \in Blocks : Left[b] > 0 /\ Left' = [Left EXCEPT ![b] = @ - 1]
    BY <1>3
  <2>2. Service!Deliver(b)
    BY <1>1, <2>1 DEF Service!Deliver
  <2> QED
    BY <2>2 DEF Service!Next
<1> QED
  BY <1>2, <1>3, CycleTakesOneWord

\* A block asked for arrives word by word, never two words in one cycle, and no
\* word arrives that was not asked for, whatever the latencies and the order of
\* the scheduler.
THEOREM BlocksArriveByWords == Spec => ImplementsBlockService
<1>1. Init => Service!Init
  <2> SUFFICES ASSUME Init PROVE Service!Init
    OBVIOUS
  <2>1. \A b \in Blocks : WordsOf(mshr, b) = {}
    BY DEF Init, WordsOf
  <2> QED
    BY <2>1, FS_EmptySet DEF Init, Left, Service!Init
<1>2. IndInv /\ [Next]_vars => [Service!Next]_(Service!vars)
  <2> SUFFICES ASSUME IndInv, [Next]_vars PROVE [Service!Next]_(Service!vars)
    OBVIOUS
  <2>1. CASE UNCHANGED vars
    BY <2>1 DEF vars, Service!vars, Left, WordsOf
  <2>2. ASSUME NEW b \in Blocks, Request(b) PROVE [Service!Next]_(Service!vars)
    BY <2>2, RequestAsks DEF Service!Next
  <2>3. ASSUME NEW run \in BOOLEAN, Cycle(run) PROVE [Service!Next]_(Service!vars)
    BY <2>3, CycleDelivers
  <2> QED
    BY <2>1, <2>2, <2>3 DEF Next
<1> QED
  BY <1>1, <1>2, InvariantHolds, PTL DEF Spec, ImplementsBlockService, Service!Spec

=============================================================================
