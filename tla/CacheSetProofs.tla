--------------------------- MODULE CacheSetProofs ---------------------------
(***************************************************************************)
(* Proofs about CacheSet, for any associativity and any addresses.         *)
(***************************************************************************)
EXTENDS CacheSetRefinement, ListsProofs

ORDERS == [Slots -> Ways \cup {NoWay}]

-----------------------------------------------------------------------------
(* The operators on an order keep its type.                                *)

\* find_current_order returns the first slot that holds the way, or -1.
LEMMA FindsFirst ==
  ASSUME NEW o \in ORDERS, NEW way \in Ways, NEW k, k = FindCurrentOrder(o, way)
  PROVE  /\ k = NoWay => \A i \in Slots : o[i] # way
         /\ k # NoWay => k \in Slots /\ o[k] = way /\ \A i \in Slots : o[i] = way => k <= i
<1> DEFINE found == {i \in Slots : o[i] = way}
<1>0. A \in Nat \ {0}
  BY CacheSetAssumption
<1>1. found \subseteq Nat
  BY <1>0 DEF Slots
<1>2. CASE found = {}
  BY <1>2, <1>1 DEF FindCurrentOrder
<1>3. CASE found # {}
  <2>1. Least(found) \in found /\ \A j \in found : Least(found) <= j
    BY <1>1, <1>3, LeastIsLeast
  <2>2. k = Least(found)
    BY <1>3 DEF FindCurrentOrder
  <2>3. k \in Nat
    BY <2>1, <2>2, <1>1
  <2> QED
    BY <2>1, <2>2, <2>3 DEF NoWay
<1> QED
  BY <1>2, <1>3

LEMMA MruType ==
  ASSUME NEW o \in ORDERS, NEW way \in Ways
  PROVE  CommitMru(o, way) \in ORDERS
<1>0. A \in Nat \ {0}
  BY CacheSetAssumption
<1>1. PICK k : k = FindCurrentOrder(o, way)
  OBVIOUS
<1>2. k = NoWay \/ k \in Slots
  BY <1>1, FindsFirst
<1>3. \A j \in Slots : MoveToFront(o, j, way) \in ORDERS
  BY <1>0 DEF MoveToFront, ORDERS, Slots
<1>4. A - 1 \in Slots
  BY <1>0 DEF Slots
<1> QED
  BY <1>1, <1>2, <1>3, <1>4 DEF CommitMru

LEMMA LipType ==
  ASSUME NEW o \in ORDERS, NEW way \in Ways, NEW first \in BOOLEAN
  PROVE  CommitLip(o, way, first) \in ORDERS
<1>0. A \in Nat \ {0}
  BY CacheSetAssumption
<1>1. Touched(o, way, first) \in ORDERS
  BY MruType DEF Touched
<1>2. PICK t \in ORDERS : t = Touched(o, way, first)
  BY <1>1
<1>3. PICK k : k = FindCurrentOrder(t, way)
  OBVIOUS
<1>4. k = NoWay \/ k \in Slots
  BY <1>3, FindsFirst
<1>5. CommitMru(t, way) \in ORDERS
  BY MruType
<1>6. \A j \in Slots : MoveToBack(t, j, way) \in ORDERS
  BY <1>0 DEF MoveToBack, ORDERS, Slots
<1> QED
  BY <1>2, <1>3, <1>4, <1>5, <1>6 DEF CommitLip

\* Whatever the configuration, a commit leaves an order of ways and -1s.
LEMMA CommitType ==
  ASSUME config \in Configs, NEW o \in ORDERS, NEW way \in Ways,
         NEW first \in BOOLEAN, NEW filtered \in BOOLEAN
  PROVE  Commit(o, way, first, filtered) \subseteq ORDERS
<1>1. PICK t \in ORDERS : t = Touched(o, way, first)
  BY MruType DEF Touched
<1>2. CommitMru(t, way) \in ORDERS /\ CommitMru(o, way) \in ORDERS
  BY MruType
<1>3. CommitLip(o, way, first) \in ORDERS /\ CommitLip(t, way, first) \in ORDERS
  BY LipType
<1>4. CommitBip(o, way, first) \subseteq ORDERS
  BY <1>1, <1>2, <1>3 DEF CommitBip
<1>5. CommitBip(t, way, first) \subseteq ORDERS
  <2>1. PICK u \in ORDERS : u = Touched(t, way, first)
    BY MruType DEF Touched
  <2>2. CommitMru(u, way) \in ORDERS /\ CommitLip(u, way, first) \in ORDERS
    BY MruType, LipType
  <2> QED
    BY <2>1, <2>2 DEF CommitBip
<1>6. CommitEaf(o, way, first, filtered) \subseteq ORDERS
  BY <1>1, <1>2, <1>5 DEF CommitEaf
<1>7. CommitFifo(o, way, first) \in ORDERS
  BY <1>2 DEF CommitFifo
<1>8. config \in AllConfigs
  BY CacheSetAssumption
<1>9. \/ config.l2 \/ config.insert = "MRU"
      \/ config.insert \in {"EAF", "BIP", "LIP"}
      \/ config.insert = "" /\ config.policy \in {"FIFO", "LFU"}
  BY <1>8 DEF AllConfigs
<1> QED
  BY <1>2, <1>3, <1>4, <1>6, <1>7, <1>9 DEF Commit

-----------------------------------------------------------------------------
(* commit_mru keeps what is ordered, and orders a way that it does not     *)
(* find.                                                                   *)

COLD == {0, NoWay}

LEMMA MruReorders ==
  ASSUME NEW n \in 1 .. A, NEW cold \in COLD, NEW o \in ORDERS, Orders(o, n, cold),
         NEW way \in 0 .. n - 1
  PROVE  Orders(CommitMru(o, way), n, cold)
<1>0. A \in Nat \ {0} /\ n \in Nat /\ way \in Ways
  BY CacheSetAssumption DEF Ways
<1>1. PICK k : k = FindCurrentOrder(o, way)
  OBVIOUS
<1>2. PICK s \in 0 .. n - 1 : o[s] = way
  BY DEF Orders
<1>3. s \in Slots
  BY <1>0 DEF Slots
<1>4. k \in Slots /\ o[k] = way /\ k <= s
  BY <1>0, <1>1, <1>2, <1>3, FindsFirst
<1>5. k \in 0 .. n - 1
  BY <1>0, <1>4 DEF Slots
<1> DEFINE p == MoveToFront(o, k, way)
<1>6. CommitMru(o, way) = p
  BY <1>0, <1>1, <1>4 DEF CommitMru, Slots, NoWay
<1>7. \A i \in Slots : p[i] = IF i = 0 THEN way ELSE IF i <= k THEN o[i - 1] ELSE o[i]
  BY DEF MoveToFront
<1>a. \A i \in 0 .. n - 1 : i \in Slots /\ o[i] \in 0 .. n - 1
  BY <1>0 DEF Orders, Slots
<1>b. \A i, j \in 0 .. n - 1 : o[i] = o[j] => i = j
  BY DEF Orders
<1>c. \A i \in Slots : i >= n => o[i] = cold
  BY <1>0 DEF Orders, Slots
<1> HIDE DEF p
<1>8. \A i \in Slots : IF i < n THEN p[i] \in 0 .. n - 1 ELSE p[i] = cold
  <2> TAKE i \in Slots
  <2>1. i \in Nat
    BY <1>0 DEF Slots
  <2>2. CASE i = 0
    BY <1>0, <1>7, <2>2
  <2>3. CASE i # 0 /\ i <= k
    <3>1. i - 1 \in 0 .. n - 1 /\ i < n
      BY <1>0, <1>5, <2>1, <2>3
    <3> QED
      BY <3>1, <2>3, <1>7, <1>a
  <2>4. CASE i > k
    <3>1. i # 0 /\ ~(i <= k) /\ p[i] = o[i]
      BY <1>5, <1>7, <2>1, <2>4
    <3> QED
      BY <3>1, <1>a, <1>c, <1>0, <2>1
  <2> QED
    BY <1>5, <2>1, <2>2, <2>3, <2>4
<1> DEFINE from(i) == IF i = 0 THEN k ELSE IF i <= k THEN i - 1 ELSE i
<1>9. \A i \in 0 .. n - 1 : from(i) \in 0 .. n - 1 /\ p[i] = o[from(i)]
  BY <1>0, <1>4, <1>5, <1>7, <1>a
<1>10. \A i, j \in 0 .. n - 1 : p[i] = p[j] => i = j
  <2> SUFFICES ASSUME NEW i \in 0 .. n - 1, NEW j \in 0 .. n - 1, p[i] = p[j]
               PROVE  i = j
    OBVIOUS
  <2>1. from(i) = from(j)
    <3> HIDE DEF from
    <3> QED BY <1>9, <1>b
  <2> QED
    BY <2>1, <1>0, <1>5
<1>11. \A w \in 0 .. n - 1 : \E i \in 0 .. n - 1 : p[i] = w
  <2> TAKE w \in 0 .. n - 1
  <2>1. PICK m \in 0 .. n - 1 : o[m] = w
    BY DEF Orders
  <2>2. \E i \in 0 .. n - 1 : from(i) = m
    <3>1. CASE m = k
      BY <3>1, <1>0
    <3>2. CASE m < k
      <4>1. m + 1 \in 0 .. n - 1 /\ from(m + 1) = m
        BY <3>2, <1>0, <1>5
      <4> QED
        BY <4>1
    <3>3. CASE m > k
      BY <3>3, <1>0, <1>5
    <3> QED
      BY <3>1, <3>2, <3>3, <1>0, <1>5
  <2> HIDE DEF from
  <2> QED
    BY <2>1, <2>2, <1>9
<1> QED
  BY <1>6, <1>8, <1>10, <1>11 DEF Orders

LEMMA MruOrders ==
  ASSUME NEW n \in 0 .. A - 1, NEW cold \in COLD, NEW o \in ORDERS, Orders(o, n, cold)
  PROVE  Orders(CommitMru(o, n), n + 1, cold)
<1>0. A \in Nat \ {0} /\ n \in Nat /\ n \in Ways
  BY CacheSetAssumption DEF Ways
<1>1. PICK k : k = FindCurrentOrder(o, n)
  OBVIOUS
<1>a. \A i \in 0 .. n - 1 : i \in Slots /\ o[i] \in 0 .. n - 1
  BY <1>0 DEF Orders, Slots
<1>b. \A i, j \in 0 .. n - 1 : o[i] = o[j] => i = j
  BY DEF Orders
<1>c. \A i \in Slots : i >= n => o[i] = cold
  BY <1>0 DEF Orders, Slots
<1>2. PICK m \in Slots : CommitMru(o, n) = MoveToFront(o, m, n) /\ m >= n
  <2>1. CASE k = NoWay
    BY <2>1, <1>0, <1>1 DEF CommitMru, Slots
  <2>2. CASE k # NoWay
    <3>1. k \in Slots /\ o[k] = n
      BY <2>2, <1>0, <1>1, FindsFirst
    <3>2. k >= n
      BY <3>1, <1>a, <1>0 DEF Slots
    <3> QED
      BY <2>2, <3>1, <3>2, <1>1 DEF CommitMru
  <2> QED
    BY <2>1, <2>2
<1> DEFINE p == MoveToFront(o, m, n)
<1>3. \A i \in Slots : p[i] = IF i = 0 THEN n ELSE IF i <= m THEN o[i - 1] ELSE o[i]
  BY DEF MoveToFront
<1> HIDE DEF p
<1>4. p[0] = n /\ \A i \in 1 .. n : i - 1 \in 0 .. n - 1 /\ p[i] = o[i - 1]
  BY <1>0, <1>2, <1>3 DEF Slots
<1>5. \A i \in Slots : IF i < n + 1 THEN p[i] \in 0 .. n ELSE p[i] = cold
  <2> TAKE i \in Slots
  <2>1. i \in 0 .. A - 1
    BY DEF Slots
  <2>2. CASE i = 0
    BY <2>2, <1>0, <1>4
  <2>3. CASE i \in 1 .. n
    <3>1. p[i] \in 0 .. n - 1
      BY <2>3, <1>4, <1>a
    <3> QED
      BY <2>3, <3>1, <1>0
  <2>4. CASE i > n
    <3>1. i - 1 \in Slots /\ i - 1 >= n
      BY <2>4, <2>1, <1>0 DEF Slots
    <3> QED
      BY <2>4, <3>1, <1>3, <1>c, <2>1, <1>0
  <2> QED
    BY <2>1, <2>2, <2>3, <2>4, <1>0
<1>6. \A i, j \in 0 .. n : p[i] = p[j] => i = j
  <2> SUFFICES ASSUME NEW i \in 0 .. n, NEW j \in 0 .. n, p[i] = p[j]
               PROVE  i = j
    OBVIOUS
  <2>1. \A h \in 1 .. n : p[h] \in 0 .. n - 1 /\ p[h] # n
    <3> TAKE h \in 1 .. n
    <3>1. p[h] \in 0 .. n - 1
      BY <1>4, <1>a
    <3> QED
      BY <3>1, <1>0
  <2>2. CASE i = 0 \/ j = 0
    BY <2>1, <2>2, <1>0, <1>4
  <2>3. CASE i # 0 /\ j # 0
    <3>1. i \in 1 .. n /\ j \in 1 .. n
      BY <2>3, <1>0
    <3>2. o[i - 1] = o[j - 1] /\ i - 1 \in 0 .. n - 1 /\ j - 1 \in 0 .. n - 1
      BY <3>1, <1>4
    <3>3. i - 1 = j - 1
      BY ONLY <3>2, <1>b
    <3> QED
      BY <3>3, <3>1
  <2> QED
    BY <2>2, <2>3
<1>7. \A w \in 0 .. n : \E i \in 0 .. n : p[i] = w
  <2> TAKE w \in 0 .. n
  <2>1. CASE w = n
    BY <2>1, <1>4, <1>0
  <2>2. CASE w # n
    <3>1. PICK i \in 0 .. n - 1 : o[i] = w
      BY <2>2, <1>0 DEF Orders
    <3>2. i + 1 \in 1 .. n /\ (i + 1) - 1 = i
      BY <1>0
    <3>3. p[i + 1] = w
      BY <3>1, <3>2, <1>4
    <3> QED
      BY <3>2, <3>3, <1>0
  <2> QED
    BY <2>1, <2>2
<1>8. (n + 1) - 1 = n
  BY <1>0
<1> QED
  BY <1>2, <1>5, <1>6, <1>7, <1>8 DEF Orders, p

-----------------------------------------------------------------------------
(* What commit does to an order that KeepsOrder.                           *)

\* A commit of a way in the order keeps it, whether it is a hit or an eviction.
LEMMA CommitReorders ==
  ASSUME config \in Configs, KeepsOrder,
         NEW n \in 1 .. A, NEW o \in ORDERS, Orders(o, n, Cold),
         NEW way \in 0 .. n - 1, NEW first \in BOOLEAN, NEW filtered \in BOOLEAN,
         NEW q \in Commit(o, way, first, filtered)
  PROVE  Orders(q, n, Cold)
<1>1. Cold \in COLD
  BY DEF Cold, COLD
<1>2. Orders(CommitMru(o, way), n, Cold)
  BY <1>1, MruReorders
<1>3. q \in {CommitMru(o, way), o}
  BY DEF KeepsOrder, Commit, CommitFifo, AllConfigs, CacheSetAssumption
<1> QED
  BY <1>2, <1>3

\* The insertion of the next way orders it behind none of the others.
LEMMA CommitOrders ==
  ASSUME config \in Configs, KeepsOrder,
         NEW n \in 0 .. A - 1, NEW o \in ORDERS, Orders(o, n, Cold),
         NEW filtered \in BOOLEAN, NEW q \in Commit(o, n, TRUE, filtered)
  PROVE  Orders(q, n + 1, Cold)
<1>1. Cold \in COLD
  BY DEF Cold, COLD
<1>2. Orders(CommitMru(o, n), n + 1, Cold)
  BY <1>1, MruOrders
<1>3. q = CommitMru(o, n)
  BY CacheSetAssumption DEF KeepsOrder, Commit, CommitFifo, AllConfigs
<1> QED
  BY <1>2, <1>3

-----------------------------------------------------------------------------
(* The invariant, action by action.                                        *)

\* The ways filled so far and the first invalid way.
LEMMA FirstInvalid ==
  ASSUME TypeOK, NEW n \in 0 .. A, \A w \in Ways : w < n <=> block[w] # NoBlock
  PROVE  /\ InvalidWays = {} <=> n = A
         /\ InvalidWays # {} => Least(InvalidWays) = n /\ n \in 0 .. A - 1 /\ n \in Ways
<1>0. A \in Nat \ {0} /\ n \in Nat
  BY CacheSetAssumption
<1>1. InvalidWays = {w \in Ways : w >= n}
  BY <1>0 DEF InvalidWays, Ways
<1>2. InvalidWays \subseteq Nat
  BY <1>0 DEF InvalidWays, Ways
<1>3. CASE InvalidWays = {}
  <2>1. n \notin Ways
    BY <1>0, <1>1, <1>3
  <2> QED
    BY <2>1, <1>0, <1>3 DEF Ways
<1>4. CASE InvalidWays # {}
  <2>1. PICK w \in Ways : w >= n
    BY <1>1, <1>4
  <2>2. n \in 0 .. A - 1 /\ n \in Ways
    BY <2>1, <1>0 DEF Ways
  <2>3. n \in InvalidWays
    BY <2>2, <1>0, <1>1
  <2>4. Least(InvalidWays) \in InvalidWays /\ \A j \in InvalidWays : Least(InvalidWays) <= j
    BY <1>2, <1>4, LeastIsLeast
  <2>5. Least(InvalidWays) <= n /\ Least(InvalidWays) >= n /\ Least(InvalidWays) \in Nat
    BY <2>3, <2>4, <1>1, <1>2
  <2> QED
    BY <2>2, <2>5, <1>0, <1>4
<1> QED
  BY <1>3, <1>4

LEMMA InitHolds == Init => IndInv
<1> SUFFICES ASSUME Init PROVE IndInv
  OBVIOUS
<1>0. A \in Nat \ {0} /\ NoBlock \notin Addresses
  BY CacheSetAssumption
<1>1. TypeOK
  <2>1. EafLimit \in Nat
    BY CacheSetAssumption DEF EafLimit
  <2>2. << >> \in Seq(Addresses) /\ Len(<< >>) = 0
    OBVIOUS
  <2>3. order \in [Slots -> Ways \cup {NoWay}]
    BY <1>0 DEF Init, Ways, Slots
  <2> QED
    BY <2>1, <2>2, <2>3 DEF Init, TypeOK
<1>2. NoBlockTwice /\ MruVictimIsInSet
  BY DEF Init, NoBlockTwice, MruVictimIsInSet, VictimIsInSet
<1>3. FilledUpTo(0)
  <2>1. \A i \in Slots : order[i] = Cold /\ ~(i < 0)
    BY <1>0 DEF Init, Cold, Slots
  <2>2. Orders(order, 0, Cold)
    BY <2>1 DEF Orders
  <2>3. \A w \in Ways : w < 0 <=> block[w] # NoBlock
    BY <1>0 DEF Init, Ways
  <2> QED
    BY <2>2, <2>3 DEF FilledUpTo
<1>4. \E n \in 0 .. A : FilledUpTo(n)
  BY <1>0, <1>3
<1> QED
  BY <1>1, <1>2, <1>4 DEF IndInv

LEMMA HitKeeps ==
  ASSUME IndInv, NEW a \in Addresses, Hit(a)
  PROVE  IndInv'
<1>0. A \in Nat \ {0} /\ NoBlock \notin Addresses /\ TypeOK /\ config \in Configs
  BY CacheSetAssumption DEF IndInv, TypeOK
<1>1. PICK way \in Ways :
        /\ block[way] = a
        /\ order' \in Commit(order, way, FALSE, Filtered(a, eaf))
        /\ frequency' = [frequency EXCEPT ![way] = @ + 1]
  BY DEF Hit
<1>2. config' = config /\ block' = block /\ eaf' = eaf /\ stray' = stray
  BY DEF Hit
<1>3. order \in ORDERS /\ FALSE \in BOOLEAN /\ Filtered(a, eaf) \in BOOLEAN
  BY <1>0 DEF TypeOK, ORDERS, Filtered
<1>4. order' \in ORDERS
  BY <1>0, <1>1, <1>3, CommitType
<1>5. TypeOK'
  BY <1>0, <1>1, <1>2, <1>4 DEF TypeOK, ORDERS, Ways, Slots, EafLimit
<1>6. (NoBlockTwice /\ MruVictimIsInSet)'
  BY <1>2 DEF IndInv, NoBlockTwice, MruVictimIsInSet, VictimIsInSet, Ways
<1>7. PICK n \in 0 .. A : FilledUpTo(n)
  BY DEF IndInv
<1>8. way \in 0 .. n - 1 /\ n \in 1 .. A
  BY <1>0, <1>1, <1>7 DEF FilledUpTo, Ways
<1>9. KeepsOrder => Orders(order', n, Cold)
  <2> SUFFICES ASSUME KeepsOrder PROVE Orders(order', n, Cold)
    OBVIOUS
  <2>1. Orders(order, n, Cold)
    BY <1>7 DEF FilledUpTo
  <2> QED
    BY <1>0, <1>1, <1>3, <1>8, <2>1, CommitReorders
<1>10. FilledUpTo(n)'
  BY <1>2, <1>7, <1>9 DEF FilledUpTo, KeepsOrder, Cold, Orders, Ways, Slots
<1> QED
  BY <1>5, <1>6, <1>7, <1>10 DEF IndInv

LEMMA FillKeeps ==
  ASSUME IndInv, NEW a \in Addresses, Fill(a)
  PROVE  IndInv'
<1>0. A \in Nat \ {0} /\ NoBlock \notin Addresses /\ TypeOK /\ config \in Configs
  BY CacheSetAssumption DEF IndInv, TypeOK
<1>1. PICK n \in 0 .. A : FilledUpTo(n)
  BY DEF IndInv
<1>2. InvalidWays # {} /\ Misses(a)
  BY DEF Fill
<1>3. Least(InvalidWays) = n /\ n \in 0 .. A - 1 /\ n \in Ways
  BY <1>0, <1>1, <1>2, FirstInvalid DEF FilledUpTo
<1>4. /\ block' = [block EXCEPT ![n] = a]
      /\ order' \in Commit(order, n, TRUE, Filtered(a, eaf))
      /\ frequency' = [frequency EXCEPT ![n] = @ + 1]
      /\ config' = config /\ eaf' = eaf /\ stray' = stray
  BY <1>3 DEF Fill
<1>5. order \in ORDERS /\ TRUE \in BOOLEAN /\ Filtered(a, eaf) \in BOOLEAN
  BY <1>0 DEF TypeOK, ORDERS, Filtered
<1>6. order' \in ORDERS
  BY <1>0, <1>3, <1>4, <1>5, CommitType
<1>7. TypeOK'
  BY <1>0, <1>3, <1>4, <1>6 DEF TypeOK, ORDERS, Ways, Slots, EafLimit
<1>8. MruVictimIsInSet'
  BY <1>4 DEF IndInv, MruVictimIsInSet, VictimIsInSet
<1>9. NoBlockTwice'
  BY <1>0, <1>2, <1>3, <1>4 DEF IndInv, NoBlockTwice, Misses, TypeOK, Ways
<1>10. KeepsOrder => Orders(order', n + 1, Cold)
  <2> SUFFICES ASSUME KeepsOrder PROVE Orders(order', n + 1, Cold)
    OBVIOUS
  <2>1. Orders(order, n, Cold)
    BY <1>1 DEF FilledUpTo
  <2> QED
    BY <1>0, <1>3, <1>4, <1>5, <2>1, CommitOrders
<1>11. \A w \in Ways : w < n + 1 <=> block'[w] # NoBlock
  BY <1>0, <1>1, <1>3, <1>4 DEF FilledUpTo, TypeOK, Ways
<1>12. FilledUpTo(n + 1)'
  BY <1>4, <1>10, <1>11 DEF FilledUpTo, KeepsOrder, Cold, Orders, Ways, Slots
<1>13. n + 1 \in 0 .. A
  BY <1>0, <1>3
<1> QED
  BY <1>7, <1>8, <1>9, <1>12, <1>13 DEF IndInv

LEMMA EvictKeeps ==
  ASSUME IndInv, NEW a \in Addresses, Evict(a)
  PROVE  IndInv'
<1>0. A \in Nat \ {0} /\ NoBlock \notin Addresses /\ TypeOK /\ config \in Configs
  BY CacheSetAssumption DEF IndInv, TypeOK
<1>1. PICK n \in 0 .. A : FilledUpTo(n)
  BY DEF IndInv
<1>2. InvalidWays = {} /\ Misses(a)
  BY DEF Evict
<1>3. n = A
  BY <1>0, <1>1, <1>2, FirstInvalid DEF FilledUpTo
<1>4. PICK way \in Ways :
        /\ eaf' = Record(block[way])
        /\ block' = [block EXCEPT ![way] = a]
        /\ order' \in Commit(order, way, TRUE, Filtered(a, eaf'))
        /\ frequency' = [frequency EXCEPT ![way] = CountAfterEviction(way) + 1]
        /\ stray' = IF Len(eaf') > EafSize THEN "eaf" ELSE "no"
        /\ config' = config
  BY DEF Evict
<1>5. way \in 0 .. n - 1 /\ n \in 1 .. A /\ n \in 0 .. A
  BY <1>0, <1>3, <1>4 DEF Ways
<1>6. order \in ORDERS /\ TRUE \in BOOLEAN /\ Filtered(a, eaf') \in BOOLEAN
  BY <1>0 DEF TypeOK, ORDERS, Filtered
<1>7. order' \in ORDERS
  BY <1>0, <1>4, <1>6, CommitType
<1>8. eaf' \in Seq(Addresses) /\ Len(eaf') \in Nat /\ Len(eaf') <= EafLimit
  <2>1. block[way] \in Addresses
    BY <1>0, <1>2 DEF InvalidWays, TypeOK
  <2>2. EafLimit \in Nat
    BY CacheSetAssumption DEF EafLimit
  <2>3. eaf \in Seq(Addresses)
    BY <1>0 DEF TypeOK
  <2> QED
    BY <1>4, <2>1, <2>2, <2>3 DEF Record
<1>9. CountAfterEviction(way) \in Nat
  BY <1>0 DEF CountAfterEviction, TypeOK
<1>10. TypeOK'
  <2>1. (block \in [Ways -> Addresses \cup {NoBlock}])'
    BY <1>0, <1>4 DEF TypeOK, Ways
  <2>2. (frequency \in [Ways -> Nat])'
    BY <1>0, <1>4, <1>9 DEF TypeOK, Ways
  <2> QED
    BY <1>0, <1>4, <1>7, <1>8, <2>1, <2>2 DEF TypeOK, ORDERS, Ways, Slots, EafLimit
<1>11. MruVictimIsInSet'
  BY <1>4 DEF MruVictimIsInSet, VictimIsInSet
<1>12. NoBlockTwice'
  BY <1>0, <1>2, <1>4 DEF IndInv, NoBlockTwice, Misses, TypeOK, Ways
<1>13. KeepsOrder => Orders(order', n, Cold)
  <2> SUFFICES ASSUME KeepsOrder PROVE Orders(order', n, Cold)
    OBVIOUS
  <2>1. Orders(order, n, Cold)
    BY <1>1 DEF FilledUpTo
  <2> QED
    BY <1>0, <1>4, <1>5, <1>6, <2>1, CommitReorders
<1>14. \A w \in Ways : w < n <=> block'[w] # NoBlock
  BY <1>0, <1>1, <1>3, <1>4 DEF FilledUpTo, TypeOK, Ways
<1>15. FilledUpTo(n)'
  BY <1>4, <1>13, <1>14 DEF FilledUpTo, KeepsOrder, Cold, Orders, Ways, Slots
<1> QED
  BY <1>5, <1>10, <1>11, <1>12, <1>15 DEF IndInv

\* LFU finds a way to evict, and none was used less.
LEMMA LeastUsedWayIsLeast ==
  ASSUME TypeOK
  PROVE  LeastUsedWay \in Ways /\ \A v \in Ways : frequency[LeastUsedWay] <= frequency[v]
<1>0. A \in Nat \ {0}
  BY CacheSetAssumption
<1> DEFINE S == {frequency[w] : w \in Ways}
<1>1. S \subseteq Nat /\ S # {}
  BY <1>0 DEF TypeOK, Ways
<1>2. Least(S) \in S /\ \A f \in S : Least(S) <= f
  BY <1>1, LeastIsLeast
<1> DEFINE L == {w \in Ways : \A v \in Ways : frequency[w] <= frequency[v]}
<1>3. L # {}
  BY <1>2, ZenonT(60)
<1>4. L \subseteq Nat /\ L \subseteq Ways
  BY <1>0 DEF Ways
<1>5. Least(L) \in L
  BY <1>3, <1>4, LeastIsLeast
<1> QED
  BY <1>4, <1>5 DEF LeastUsedWay

\* With MRU insertion, or without LRU replacement, a full set has a victim in it.
LEMMA EvictOutsideKeeps ==
  ASSUME IndInv, NEW a \in Addresses, EvictOutside(a)
  PROVE  IndInv'
<1>0. A \in Nat \ {0} /\ TypeOK /\ config \in Configs
  BY CacheSetAssumption DEF IndInv, TypeOK
<1>1. UNCHANGED <<config, block, order, frequency, eaf>> /\ stray' = "set"
  BY DEF EvictOutside
<1>2. PICK n \in 0 .. A : FilledUpTo(n)
  BY DEF IndInv
<1>3. n = A
  BY <1>0, <1>2, FirstInvalid DEF FilledUpTo, EvictOutside
<1>4. ~(config.replace # "LRU" \/ config.insert = "MRU")
  <2> SUFFICES ASSUME config.replace # "LRU" \/ config.insert = "MRU"
               PROVE  FALSE
    OBVIOUS
  <2>1. KeepsOrder => order[A - 1] \in Ways
    <3>1. KeepsOrder => Orders(order, A, Cold)
      BY <1>2, <1>3 DEF FilledUpTo
    <3> QED
      BY <1>0, <3>1 DEF Orders, Slots, Ways
  <2>2. LeastUsedWay \in Ways
    BY <1>0, LeastUsedWayIsLeast
  <2>3. config \in AllConfigs
    BY <1>0, CacheSetAssumption
  <2>4. \/ KeepsOrder /\ Victims = {order[A - 1]}
        \/ Victims = Ways
        \/ Victims = {LeastUsedWay}
    BY <2>3 DEF AllConfigs, Victims, KeepsOrder
  <2> QED
    BY <2>1, <2>2, <2>4 DEF EvictOutside
<1>6. TypeOK' /\ NoBlockTwice' /\ FilledUpTo(n)'
  BY <1>0, <1>1, <1>2 DEF TypeOK, NoBlockTwice, FilledUpTo, Orders, KeepsOrder, Cold, IndInv,
     Ways, Slots, EafLimit
<1>7. MruVictimIsInSet'
  BY <1>1, <1>4 DEF MruVictimIsInSet
<1> QED
  BY <1>2, <1>6, <1>7 DEF IndInv

-----------------------------------------------------------------------------
(* The theorems.                                                           *)

\* Every step keeps the invariant: the ways of a set are filled and ordered in
\* the same order, and commit_mru neither loses nor doubles one.
THEOREM InvariantHolds == Spec => []IndInv
<1>1. IndInv /\ [Next]_vars => IndInv'
  <2> SUFFICES ASSUME IndInv, [Next]_vars
               PROVE  IndInv'
    OBVIOUS
  <2>1. CASE UNCHANGED vars
    <3>1. /\ config' = config /\ block' = block /\ order' = order
          /\ frequency' = frequency /\ eaf' = eaf /\ stray' = stray
      BY <2>1 DEF vars
    <3>2. (TypeOK /\ NoBlockTwice /\ MruVictimIsInSet)'
      BY <3>1 DEF IndInv, TypeOK, NoBlockTwice, MruVictimIsInSet, VictimIsInSet, Ways, Slots,
         EafLimit
    <3>3. PICK n \in 0 .. A : FilledUpTo(n)
      BY DEF IndInv
    <3>4. FilledUpTo(n)'
      BY <3>1, <3>3 DEF FilledUpTo, Orders, KeepsOrder, Cold, Ways, Slots
    <3> QED
      BY <3>2, <3>3, <3>4 DEF IndInv
  <2>2. CASE Next
    <3>1. PICK a \in Addresses : Hit(a) \/ Fill(a) \/ Evict(a) \/ EvictOutside(a)
      BY <2>2 DEF Next
    <3>2. CASE Hit(a)
      BY <3>2, HitKeeps
    <3>3. CASE Fill(a)
      BY <3>3, FillKeeps
    <3>4. CASE Evict(a)
      BY <3>4, EvictKeeps
    <3>5. CASE EvictOutside(a)
      BY <3>5, EvictOutsideKeeps
    <3> QED
      BY <3>1, <3>2, <3>3, <3>4, <3>5
  <2> QED
    BY <2>1, <2>2
<1> QED
  BY <1>1, InitHolds, PTL DEF Spec

\* The types of the variables, for every policy.
THEOREM TypeCorrect == Spec => []TypeOK
<1>1. IndInv => TypeOK
  BY DEF IndInv
<1> QED
  BY <1>1, InvariantHolds, PTL

\* find_block_position finds at most one block in a set.
THEOREM BlocksAreUnique == Spec => []NoBlockTwice
<1>1. IndInv => NoBlockTwice
  BY DEF IndInv
<1> QED
  BY <1>1, InvariantHolds, PTL

\* find_evicted_block stays within the set unless LRU replacement meets an
\* insert policy other than MRU.
THEOREM VictimsAreInSet == Spec => []MruVictimIsInSet
<1>1. IndInv => MruVictimIsInSet
  BY DEF IndInv
<1> QED
  BY <1>1, InvariantHolds, PTL

\* The order of a full set is a permutation of its ways.
THEOREM FullSetsAreOrdered == Spec => []FullSetIsOrdered
<1>1. IndInv => FullSetIsOrdered
  <2> SUFFICES ASSUME IndInv, KeepsOrder, InvalidWays = {}, NEW w \in Ways
               PROVE  \E i \in Slots : \A j \in Slots : order[j] = w <=> j = i
    BY DEF FullSetIsOrdered
  <2>1. TypeOK /\ A \in Nat \ {0}
    BY CacheSetAssumption DEF IndInv
  <2>2. PICK n \in 0 .. A : FilledUpTo(n)
    BY DEF IndInv
  <2>3. n = A
    BY <2>1, <2>2, FirstInvalid DEF FilledUpTo
  <2>4. Orders(order, A, Cold)
    BY <2>2, <2>3 DEF FilledUpTo
  <2>5. w \in 0 .. A - 1 /\ Slots = 0 .. A - 1
    BY DEF Ways, Slots
  <2>6. PICK i \in 0 .. A - 1 : order[i] = w
    BY <2>4, <2>5 DEF Orders
  <2>7. \A j \in 0 .. A - 1 : order[j] = w => j = i
    BY <2>4, <2>6 DEF Orders
  <2> QED
    BY <2>5, <2>6, <2>7
<1> QED
  BY <1>1, InvariantHolds, PTL

-----------------------------------------------------------------------------
(* CacheSet implements RecencyList.                                        *)

\* The blocks b of the first n ways of an order o.
Listed(b, o, n) == [i \in 1 .. n |-> b[o[i - 1]]]

\* Without of the instance is Without.
LEMMA SameWithout == \A r, R : Recency!Without(r, R) = Without(r, R)
BY DEF Without, Recency!Without, Cardinality, Recency!Cardinality

\* <<a>> followed by a list without its k-th element, in closed form.
LEMMA FrontAndRest ==
  ASSUME NEW a \in Addresses, NEW r \in Seq(Addresses), NEW k \in 1 .. Len(r)
  PROVE  <<a>> \o Without(r, {k})
           = [i \in 1 .. Len(r) |-> IF i = 1 THEN a ELSE IF i - 1 < k THEN r[i - 1] ELSE r[i]]
<1>1. Len(r) \in Nat
  OBVIOUS
<1>2. Without(r, {k}) = [i \in 1 .. Len(r) - 1 |-> IF i < k THEN r[i] ELSE r[i + 1]]
  BY WithoutOne
<1> DEFINE w == [i \in 1 .. Len(r) - 1 |-> IF i < k THEN r[i] ELSE r[i + 1]]
<1>3. w \in Seq(Addresses) /\ Len(w) = Len(r) - 1
  <2>1. \A i \in 1 .. Len(r) - 1 : w[i] \in Addresses
    BY <1>1
  <2>2. Len(r) - 1 \in Nat
    BY <1>1
  <2> QED
    BY <2>1, <2>2
<1>4. \A i \in 1 .. Len(r) - 1 : w[i] = IF i < k THEN r[i] ELSE r[i + 1]
  OBVIOUS
<1> HIDE DEF w
<1>5. /\ <<a>> \o w \in Seq(Addresses) /\ Len(<<a>> \o w) = Len(r)
      /\ \A i \in 1 .. Len(r) : (<<a>> \o w)[i] = IF i = 1 THEN a ELSE w[i - 1]
  BY <1>1, <1>3
<1>6. \A i \in 1 .. Len(r) :
        i # 1 => w[i - 1] = IF i - 1 < k THEN r[i - 1] ELSE r[i]
  BY <1>1, <1>4
<1>7. \A i \in 1 .. Len(r) : (<<a>> \o w)[i] =
        IF i = 1 THEN a ELSE IF i - 1 < k THEN r[i - 1] ELSE r[i]
  BY <1>5, <1>6
<1>8. <<a>> \o w = [i \in 1 .. Len(r) |-> (<<a>> \o w)[i]]
  BY <1>5
<1> QED
  BY <1>2, <1>7, <1>8 DEF w

\* Of n ways filled, ListOf lists the first n of the order.
LEMMA ListIs ==
  ASSUME NEW n \in 0 .. A, NEW cold \in COLD, NEW o \in ORDERS, Orders(o, n, cold),
         NEW b \in [Ways -> Addresses \cup {NoBlock}], \A w \in Ways : w < n <=> b[w] # NoBlock
  PROVE  /\ ListOf(b, o) = Listed(b, o, n)
         /\ Listed(b, o, n) \in Seq(Addresses) /\ Len(Listed(b, o, n)) = n
<1>0. A \in Nat \ {0} /\ n \in Nat
  BY CacheSetAssumption
<1>1. {w \in Ways : b[w] # NoBlock} = 0 .. n - 1
  BY <1>0 DEF Ways
<1>2. Cardinality(0 .. n - 1) = n
  BY <1>0, FS_Interval
<1>3. ListOf(b, o) = Listed(b, o, n)
  BY <1>1, <1>2 DEF ListOf, Listed
<1>4. \A i \in 1 .. n : o[i - 1] \in 0 .. n - 1
  BY <1>0 DEF Orders, Slots
<1>5. \A w \in 0 .. n - 1 : b[w] \in Addresses
  BY <1>0 DEF Ways
<1>6. \A i \in 1 .. n : b[o[i - 1]] \in Addresses
  BY <1>4, <1>5
<1>7. Listed(b, o, n) \in Seq(Addresses) /\ Len(Listed(b, o, n)) = n
  BY <1>0, <1>6 DEF Listed
<1> QED
  BY <1>3, <1>7

\* The blocks b and c of n ordered ways differ at most in the way in slot s.
ChangesOnlySlot(s, b, c, o, n) ==
  /\ s \in 0 .. n - 1
  /\ \A w \in 0 .. n - 1 : w # o[s] => c[w] = b[w]
  /\ Listed(b, o, n) \in Seq(Addresses) /\ Len(Listed(b, o, n)) = n
  /\ c[o[s]] \in Addresses

\* And with that way committed, its block is the first of the list.
MovesToFront(s, b, c, o, n) ==
  Listed(c, CommitMru(o, o[s]), n) = <<c[o[s]]>> \o Without(Listed(b, o, n), {s + 1})

\* commit_mru of a way in the order moves its block to the front of the list.
LEMMA MruMovesToFront ==
  ASSUME NEW n \in 1 .. A, NEW cold \in COLD, NEW o \in ORDERS, Orders(o, n, cold),
         NEW s, NEW b, NEW c, ChangesOnlySlot(s, b, c, o, n)
  PROVE  MovesToFront(s, b, c, o, n)
<1> SUFFICES Listed(c, CommitMru(o, o[s]), n)
               = <<c[o[s]]>> \o Without(Listed(b, o, n), {s + 1})
  BY DEF MovesToFront
<1> /\ s \in 0 .. n - 1
    /\ \A w \in 0 .. n - 1 : w # o[s] => c[w] = b[w]
    /\ Listed(b, o, n) \in Seq(Addresses) /\ Len(Listed(b, o, n)) = n
    /\ c[o[s]] \in Addresses
  BY DEF ChangesOnlySlot
<1>a. A \in Nat \ {0} /\ n \in Nat
  BY CacheSetAssumption
<1>b. \A i \in 0 .. n - 1 : i \in Slots /\ o[i] \in 0 .. n - 1
  BY <1>a, SMTT(30) DEF Orders, Slots
<1>c. \A i, j \in 0 .. n - 1 : o[i] = o[j] => i = j
  BY DEF Orders
<1>0. A \in Nat \ {0} /\ n \in Nat /\ s \in Slots /\ o[s] \in Ways
  BY <1>a, <1>b DEF Ways
<1>1. PICK k : k = FindCurrentOrder(o, o[s])
  OBVIOUS
<1>2. k \in Slots /\ o[k] = o[s] /\ k <= s
  BY <1>0, <1>1, FindsFirst
<1>3. k = s
  <2>1. k \in 0 .. n - 1
    BY <1>0, <1>2 DEF Slots
  <2> QED
    BY <1>2, <2>1 DEF Orders
<1>4. CommitMru(o, o[s]) = MoveToFront(o, s, o[s])
  BY <1>0, <1>1, <1>3 DEF CommitMru, Slots, NoWay
<1> DEFINE p == MoveToFront(o, s, o[s])
<1>5. \A i \in 0 .. n - 1 : p[i] = IF i = 0 THEN o[s] ELSE IF i <= s THEN o[i - 1] ELSE o[i]
  BY <1>0 DEF MoveToFront, Slots
<1> HIDE DEF p
<1>6. \A i \in 0 .. n - 1 : i # s => o[i] # o[s] /\ o[i] \in 0 .. n - 1
  BY <1>b, <1>c
<1> DEFINE r == Listed(b, o, n)
<1>7. \A i \in 1 .. n : r[i] = b[o[i - 1]]
  BY DEF Listed
<1> HIDE DEF r
<1>8. \A i \in 1 .. n :
        c[p[i - 1]] = IF i = 1 THEN c[o[s]] ELSE IF i - 1 < s + 1 THEN r[i - 1] ELSE r[i]
  <2> TAKE i \in 1 .. n
  <2>1. i - 1 \in 0 .. n - 1 /\ i \in Nat
    BY <1>0
  <2>2. CASE i = 1
    BY <2>1, <2>2, <1>5
  <2>3. CASE i # 1 /\ i - 1 <= s
    <3>1. i - 2 \in 0 .. n - 1 /\ i - 2 # s /\ i - 1 \in 1 .. n /\ (i - 1) - 1 = i - 2
      BY <2>1, <2>3, <1>0
    <3>2. p[i - 1] = o[i - 2]
      BY <2>1, <2>3, <3>1, <1>5
    <3>3. c[o[i - 2]] = b[o[i - 2]]
      BY <3>1, <1>6
    <3>4. r[i - 1] = b[o[i - 2]]
      BY <3>1, <1>7
    <3> QED
      BY <3>2, <3>3, <3>4, <2>3, <2>1
  <2>4. CASE i - 1 > s
    <3>1. p[i - 1] = o[i - 1] /\ i - 1 # s
      BY <2>1, <2>4, <1>5
    <3>2. c[o[i - 1]] = b[o[i - 1]]
      BY <2>1, <3>1, <1>6
    <3> QED
      BY <3>1, <3>2, <2>1, <2>4, <1>7
  <2> QED
    BY <2>1, <2>2, <2>3, <2>4
<1>9. <<c[o[s]]>> \o Without(r, {s + 1})
        = [i \in 1 .. n |-> IF i = 1 THEN c[o[s]]
                            ELSE IF i - 1 < s + 1 THEN r[i - 1] ELSE r[i]]
  <2>1. s + 1 \in 1 .. n /\ r \in Seq(Addresses) /\ Len(r) = n
    BY <1>0 DEF r
  <2>2. PICK k1 : k1 = s + 1
    OBVIOUS
  <2>3. PICK a1 : a1 = c[o[s]]
    OBVIOUS
  <2> HIDE DEF r
  <2>4. a1 \in Addresses /\ k1 \in 1 .. Len(r) /\ r \in Seq(Addresses)
    BY <2>1, <2>2, <2>3
  <2>5. <<a1>> \o Without(r, {k1})
          = [i \in 1 .. Len(r) |-> IF i = 1 THEN a1
                                  ELSE IF i - 1 < k1 THEN r[i - 1] ELSE r[i]]
    BY ONLY <2>4, FrontAndRest
  <2> QED
    BY <2>1, <2>2, <2>3, <2>5
<1>10. Listed(c, p, n) = <<c[o[s]]>> \o Without(r, {s + 1})
  BY <1>8, <1>9 DEF Listed
<1> QED
  BY <1>4, <1>10 DEF p, r

\* commit_mru of the next way puts its block in front of the list.
LEMMA MruPutsInFront ==
  ASSUME NEW n \in 0 .. A - 1, NEW cold \in COLD, NEW o \in ORDERS, Orders(o, n, cold),
         NEW b, NEW c, \A w \in 0 .. n - 1 : c[w] = b[w],
         Listed(b, o, n) \in Seq(Addresses), Len(Listed(b, o, n)) = n, c[n] \in Addresses
  PROVE  Listed(c, CommitMru(o, n), n + 1) = <<c[n]>> \o Listed(b, o, n)
<1>0. A \in Nat \ {0} /\ n \in Nat /\ n \in Ways
  BY CacheSetAssumption DEF Ways
<1>1. PICK k : k = FindCurrentOrder(o, n)
  OBVIOUS
<1>2. \A i \in 0 .. n - 1 : o[i] \in 0 .. n - 1
  BY <1>0 DEF Orders, Slots
<1>3. PICK m \in Slots : CommitMru(o, n) = MoveToFront(o, m, n) /\ m >= n
  <2>1. CASE k = NoWay
    BY <2>1, <1>0, <1>1 DEF CommitMru, Slots
  <2>2. CASE k # NoWay
    <3>1. k \in Slots /\ o[k] = n
      BY <2>2, <1>0, <1>1, FindsFirst
    <3> QED
      BY <2>2, <3>1, <1>2, <1>1, <1>0 DEF CommitMru, Slots
  <2> QED
    BY <2>1, <2>2
<1> DEFINE p == MoveToFront(o, m, n)
           r == Listed(b, o, n)
<1>4. p[0] = n /\ \A i \in 1 .. n : p[i] = o[i - 1] /\ i - 1 \in 0 .. n - 1
  BY <1>0, <1>3 DEF MoveToFront, Slots
<1>5. \A i \in 1 .. n : r[i] = b[o[i - 1]]
  BY DEF Listed
<1>6. /\ Len(<<c[n]>> \o r) = n + 1 /\ <<c[n]>> \o r \in Seq(Addresses)
      /\ \A i \in 1 .. n + 1 : (<<c[n]>> \o r)[i] = IF i = 1 THEN c[n] ELSE r[i - 1]
  <2> HIDE DEF r
  <2>1. r \in Seq(Addresses) /\ Len(r) = n
    BY DEF r
  <2> QED
    BY <2>1, <1>0
<1> HIDE DEF p, r
<1>7. \A i \in 1 .. n + 1 : c[p[i - 1]] = IF i = 1 THEN c[n] ELSE r[i - 1]
  <2> TAKE i \in 1 .. n + 1
  <2>1. CASE i = 1
    BY <2>1, <1>4
  <2>2. CASE i # 1
    <3>1. i - 1 \in 1 .. n
      BY <2>2, <1>0
    <3>2. p[i - 1] = o[(i - 1) - 1] /\ o[(i - 1) - 1] \in 0 .. n - 1
      BY <3>1, <1>4, <1>2
    <3> QED
      BY <3>1, <3>2, <2>2, <1>5
  <2> QED
    BY <2>1, <2>2
<1>8. Listed(c, p, n + 1) = [i \in 1 .. n + 1 |-> (<<c[n]>> \o r)[i]]
  BY <1>6, <1>7 DEF Listed
<1>9. <<c[n]>> \o r = [i \in 1 .. n + 1 |-> (<<c[n]>> \o r)[i]]
  BY <1>6
<1> QED
  BY <1>3, <1>8, <1>9 DEF p, r

\* The facts about the list that every step starts from.
LEMMA BeforeStep ==
  ASSUME IndInv, KeepsOrder, NEW n \in 0 .. A, FilledUpTo(n)
  PROVE  /\ config \in Configs /\ order \in ORDERS /\ Cold \in COLD
         /\ block \in [Ways -> Addresses \cup {NoBlock}]
         /\ Orders(order, n, Cold) /\ \A w \in Ways : w < n <=> block[w] # NoBlock
         /\ Recent = Listed(block, order, n) /\ Recent \in Seq(Addresses) /\ Len(Recent) = n
<1>1. /\ config \in Configs /\ order \in ORDERS /\ Cold \in COLD
      /\ block \in [Ways -> Addresses \cup {NoBlock}]
      /\ Orders(order, n, Cold) /\ \A w \in Ways : w < n <=> block[w] # NoBlock
  BY DEF IndInv, TypeOK, ORDERS, Cold, COLD, FilledUpTo
<1>2. /\ ListOf(block, order) = Listed(block, order, n)
      /\ Listed(block, order, n) \in Seq(Addresses) /\ Len(Listed(block, order, n)) = n
  BY <1>1, ListIs
<1> QED
  BY <1>1, <1>2 DEF Recent

\* What commit does on a hit and on an insertion, if the configuration keeps the
\* order.
LEMMA CommitOnHit ==
  ASSUME config \in Configs, KeepsOrder, NEW o, NEW way, NEW filtered
  PROVE  Commit(o, way, FALSE, filtered) = {IF Mode = "FIFO" THEN o ELSE CommitMru(o, way)}
BY CacheSetAssumption DEF KeepsOrder, Commit, CommitFifo, AllConfigs, Mode

LEMMA CommitOnInsertion ==
  ASSUME config \in Configs, KeepsOrder, NEW o, NEW way, NEW filtered
  PROVE  Commit(o, way, TRUE, filtered) = {CommitMru(o, way)}
BY CacheSetAssumption DEF KeepsOrder, Commit, CommitFifo, AllConfigs, Mode

LEMMA HitRefines ==
  ASSUME IndInv, KeepsOrder, NEW a \in Addresses, Hit(a)
  PROVE  [Recency!Next]_(Recency!vars)
<1>0. A \in Nat \ {0} /\ NoBlock \notin Addresses
  BY CacheSetAssumption
<1>1. PICK way \in Ways :
        block[way] = a /\ order' \in Commit(order, way, FALSE, Filtered(a, eaf))
  BY DEF Hit
<1>2. UNCHANGED <<config, block>>
  BY DEF Hit
<1>3. PICK n \in 0 .. A : FilledUpTo(n)
  BY DEF IndInv
<1>4. /\ config \in Configs /\ order \in ORDERS /\ Cold \in COLD
      /\ block \in [Ways -> Addresses \cup {NoBlock}]
      /\ Orders(order, n, Cold) /\ \A w \in Ways : w < n <=> block[w] # NoBlock
      /\ Recent = Listed(block, order, n) /\ Recent \in Seq(Addresses) /\ Len(Recent) = n
  BY <1>3, BeforeStep
<1>5. Mode' = Mode /\ KeepsOrder'
  BY <1>2 DEF Mode, KeepsOrder
<1>6. CASE Mode = "FIFO"
  <2>1. order' = order
    BY <1>1, <1>4, <1>6, CommitOnHit, ZenonT(60)
  <2> QED
    BY <2>1, <1>2, <1>5 DEF Recent, Recency!vars
<1>7. CASE Mode # "FIFO"
  <2>1. order' = CommitMru(order, way)
    BY <1>1, <1>4, <1>7, CommitOnHit
  <2>2. way \in 0 .. n - 1 /\ n \in 1 .. A
    BY <1>0, <1>1, <1>4 DEF Ways
  <2>3. PICK s \in 0 .. n - 1 : order[s] = way
    BY <1>4, <2>2 DEF Orders
  <2>4. Recent[s + 1] = a
    BY <1>0, <1>1, <1>4, <2>3 DEF Listed
  <2>5. Orders(order', n, Cold) /\ order' \in ORDERS
    BY <1>4, <2>1, <2>2, MruReorders, MruType DEF Ways
  <2>6. Recent' = Listed(block, order', n)
    <3>1. ListOf(block, order') = Listed(block, order', n)
      BY <1>4, <2>5, ListIs
    <3> QED
      BY <3>1, <1>2, <1>5 DEF Recent, ListOf, Ways
  <2>7. Listed(block, CommitMru(order, order[s]), n)
          = <<block[order[s]]>> \o Without(Listed(block, order, n), {s + 1})
    <3>1. ChangesOnlySlot(s, block, block, order, n)
      BY <1>1, <1>4, <2>3 DEF ChangesOnlySlot
    <3>2. MovesToFront(s, block, block, order, n)
      BY ONLY <1>4, <2>2, <3>1, MruMovesToFront
    <3> QED
      BY <3>2 DEF MovesToFront
  <2>8. Recent' = <<Recent[s + 1]>> \o Without(Recent, {s + 1})
    BY <1>1, <1>4, <2>1, <2>3, <2>4, <2>6, <2>7
  <2>9. s + 1 \in 1 .. Len(Recent)
    BY <1>0, <1>4, <2>2
  <2>10. Recency!Touch(s + 1)
    BY <1>5, <1>7, <2>8, SameWithout DEF Recency!Touch
  <2> QED
    BY <2>9, <2>10 DEF Recency!Next
<1> QED
  BY <1>6, <1>7

\* A block that misses is not in the list.
LEMMA NotListed ==
  ASSUME IndInv, KeepsOrder, NEW a \in Addresses, Misses(a)
  PROVE  \A i \in 1 .. Len(Recent) : Recent[i] # a
<1>1. PICK n \in 0 .. A : FilledUpTo(n)
  BY DEF IndInv
<1>2. Orders(order, n, Cold) /\ Recent = Listed(block, order, n) /\ Len(Recent) = n
  BY <1>1, BeforeStep
<1>3. A \in Nat \ {0} /\ n \in Nat
  BY CacheSetAssumption
<1>4. \A i \in 1 .. n : i - 1 \in Slots /\ i - 1 < n
  BY <1>3 DEF Slots
<1>5. \A i \in 1 .. n : order[i - 1] \in 0 .. n - 1
  BY <1>2, <1>4 DEF Orders
<1>6. \A i \in 1 .. n : order[i - 1] \in Ways
  BY <1>3, <1>5 DEF Ways
<1> QED
  BY <1>2, <1>6 DEF Listed, Misses

LEMMA FillRefines ==
  ASSUME IndInv, KeepsOrder, NEW a \in Addresses, Fill(a)
  PROVE  [Recency!Next]_(Recency!vars)
<1>0. A \in Nat \ {0} /\ NoBlock \notin Addresses /\ TypeOK
  BY CacheSetAssumption DEF IndInv
<1>1. PICK n \in 0 .. A : FilledUpTo(n)
  BY DEF IndInv
<1>2. /\ config \in Configs /\ order \in ORDERS /\ Cold \in COLD
      /\ block \in [Ways -> Addresses \cup {NoBlock}]
      /\ Orders(order, n, Cold) /\ \A w \in Ways : w < n <=> block[w] # NoBlock
      /\ Recent = Listed(block, order, n) /\ Recent \in Seq(Addresses) /\ Len(Recent) = n
  BY <1>1, BeforeStep
<1>3. Least(InvalidWays) = n /\ n \in 0 .. A - 1 /\ n \in Ways
  BY <1>0, <1>2, FirstInvalid DEF Fill
<1>4. /\ block' = [block EXCEPT ![n] = a]
      /\ order' \in Commit(order, n, TRUE, Filtered(a, eaf))
      /\ config' = config
  BY <1>3 DEF Fill
<1>5. order' = CommitMru(order, n)
  BY <1>2, <1>4, CommitOnInsertion, ZenonT(60)
<1>6. Mode' = Mode /\ KeepsOrder' /\ Mode # "none"
  BY <1>2, <1>4, CacheSetAssumption DEF Mode, KeepsOrder, AllConfigs
<1>7. Orders(order', n + 1, Cold) /\ order' \in ORDERS
  BY <1>2, <1>3, <1>5, MruOrders, MruType
<1>8. Recent' = Listed(block', order', n + 1)
  <2>1. block' \in [Ways -> Addresses \cup {NoBlock}] /\ n + 1 \in 0 .. A
    BY <1>0, <1>2, <1>3, <1>4
  <2>2. \A w \in Ways : w < n + 1 <=> block'[w] # NoBlock
    BY <1>0, <1>2, <1>3, <1>4 DEF Ways
  <2>3. ListOf(block', order') = Listed(block', order', n + 1)
    BY <1>2, <1>7, <2>1, <2>2, ListIs
  <2> QED
    BY <2>3, <1>6 DEF Recent, ListOf, Ways
<1>9. block'[n] = a /\ \A w \in 0 .. n - 1 : block'[w] = block[w]
  BY <1>0, <1>2, <1>3, <1>4 DEF Ways
<1>10. Listed(block', CommitMru(order, n), n + 1) = <<block'[n]>> \o Listed(block, order, n)
  BY <1>2, <1>3, <1>9, MruPutsInFront
<1>11. Recent' = <<a>> \o Without(Recent, {})
  BY <1>2, <1>5, <1>8, <1>9, <1>10, WithoutNone
<1>12. {} \in Recency!Evictable
  BY <1>0, <1>2, <1>3 DEF Recency!Evictable
<1>13. \A i \in 1 .. Len(Recent) : Recent[i] # a
  BY NotListed DEF Fill
<1>14. Recency!Bring(a)
  BY <1>6, <1>11, <1>12, <1>13, SameWithout DEF Recency!Bring
<1> QED
  BY <1>14 DEF Recency!Next

LEMMA EvictRefines ==
  ASSUME IndInv, KeepsOrder, NEW a \in Addresses, Evict(a)
  PROVE  [Recency!Next]_(Recency!vars)
<1>0. A \in Nat \ {0} /\ NoBlock \notin Addresses /\ TypeOK
  BY CacheSetAssumption DEF IndInv
<1>1. PICK n \in 0 .. A : FilledUpTo(n)
  BY DEF IndInv
<1>2. /\ config \in Configs /\ order \in ORDERS /\ Cold \in COLD
      /\ block \in [Ways -> Addresses \cup {NoBlock}]
      /\ Orders(order, n, Cold) /\ \A w \in Ways : w < n <=> block[w] # NoBlock
      /\ Recent = Listed(block, order, n) /\ Recent \in Seq(Addresses) /\ Len(Recent) = n
  BY <1>1, BeforeStep
<1>3. n = A /\ n \in 1 .. A
  BY <1>0, <1>2, FirstInvalid DEF Evict
<1>4. PICK way \in Victims \cap Ways :
        /\ block' = [block EXCEPT ![way] = a]
        /\ order' \in Commit(order, way, TRUE, Filtered(a, eaf'))
        /\ config' = config
  BY DEF Evict
<1>5. order' = CommitMru(order, way)
  BY <1>2, <1>4, CommitOnInsertion
<1>6. Mode' = Mode /\ KeepsOrder' /\ Mode # "none"
  BY <1>2, <1>4, CacheSetAssumption DEF Mode, KeepsOrder, AllConfigs
<1>7. way \in 0 .. n - 1
  BY <1>3, <1>4 DEF Ways
<1>8. PICK s \in 0 .. n - 1 : order[s] = way /\ (Mode # "RANDOM" => s = A - 1)
  <2>1. Mode # "RANDOM" => Victims = {order[A - 1]}
    BY <1>2, CacheSetAssumption DEF Mode, KeepsOrder, AllConfigs, Victims
  <2>2. CASE Mode # "RANDOM"
    BY <1>0, <1>3, <1>4, <2>1, <2>2
  <2>3. CASE Mode = "RANDOM"
    BY <1>2, <1>7, <2>3 DEF Orders
  <2> QED
    BY <2>2, <2>3
<1>9. Orders(order', n, Cold) /\ order' \in ORDERS
  BY <1>2, <1>3, <1>4, <1>5, <1>7, MruReorders, MruType
<1>10. Recent' = Listed(block', order', n)
  <2>1. block' \in [Ways -> Addresses \cup {NoBlock}] /\ n \in 0 .. A
    BY <1>2, <1>4
  <2>2. \A w \in Ways : w < n <=> block'[w] # NoBlock
    BY <1>0, <1>2, <1>3, <1>4 DEF Ways
  <2>3. ListOf(block', order') = Listed(block', order', n)
    BY <1>2, <1>9, <2>1, <2>2, ListIs
  <2> QED
    BY <2>3, <1>6 DEF Recent, ListOf, Ways
<1>11. block'[way] = a /\ \A w \in 0 .. n - 1 : w # way => block'[w] = block[w]
  BY <1>2, <1>3, <1>4 DEF Ways
<1>12. Listed(block', CommitMru(order, order[s]), n)
         = <<block'[order[s]]>> \o Without(Listed(block, order, n), {s + 1})
  <2>1. ChangesOnlySlot(s, block, block', order, n)
    BY <1>2, <1>8, <1>11 DEF ChangesOnlySlot
  <2>2. MovesToFront(s, block, block', order, n)
    BY ONLY <1>2, <1>3, <2>1, MruMovesToFront
  <2> QED
    BY <2>2 DEF MovesToFront
<1>13. Recent' = <<a>> \o Without(Recent, {s + 1})
  BY <1>2, <1>5, <1>8, <1>10, <1>11, <1>12
<1>14. {s + 1} \in Recency!Evictable
  <2>1. s + 1 \in 1 .. Len(Recent) /\ Len(Recent) = A
    BY <1>0, <1>2, <1>3
  <2>2. CASE Mode # "RANDOM"
    <3>1. s + 1 = Len(Recent)
      BY <1>0, <1>8, <2>1, <2>2
    <3> QED
      BY <3>1, <2>1, <2>2, <1>0 DEF Recency!Evictable
  <2>3. CASE Mode = "RANDOM"
    BY <2>1, <2>3, <1>0 DEF Recency!Evictable
  <2> QED
    BY <2>2, <2>3
<1>15. \A i \in 1 .. Len(Recent) : Recent[i] # a
  BY NotListed DEF Evict
<1>16. Recency!Bring(a)
  BY <1>6, <1>13, <1>14, <1>15, SameWithout DEF Recency!Bring
<1> QED
  BY <1>16 DEF Recency!Next

\* In the configurations that order their ways by recency, and in the L2 cache,
\* a set of any size promotes and evicts its blocks as RecencyList says.
THEOREM SetsEvictByRecency == Spec => EvictsByRecency
<1>1. Init => Recency!Init
  <2> SUFFICES ASSUME Init PROVE Recency!Init
    OBVIOUS
  <2>1. {w \in Ways : block[w] # NoBlock} = {}
    BY DEF Init
  <2>2. Cardinality({}) = 0
    BY FS_EmptySet
  <2>3. Recent = << >>
    <3>1. ListOf(block, order) = [i \in 1 .. 0 |-> block[order[i - 1]]]
      BY <2>1, <2>2 DEF ListOf
    <3>2. [i \in 1 .. 0 |-> block[order[i - 1]]] = << >>
      OBVIOUS
    <3> QED
      BY <3>1, <3>2 DEF Recent
  <2>4. Mode \in {"LRU", "FIFO", "RANDOM", "none"}
    BY CacheSetAssumption DEF Init, Mode, KeepsOrder, AllConfigs
  <2> QED
    BY <2>3, <2>4 DEF Recency!Init
<1>2. IndInv /\ [Next]_vars => [Recency!Next]_(Recency!vars)
  <2> SUFFICES ASSUME IndInv, [Next]_vars
               PROVE  [Recency!Next]_(Recency!vars)
    OBVIOUS
  <2>1. CASE UNCHANGED <<config, block, order>>
    BY <2>1 DEF Recency!vars, Recent, ListOf, Mode, KeepsOrder, Ways
  <2>2. CASE ~KeepsOrder /\ UNCHANGED config
    BY <2>2 DEF Recency!vars, Recent, Mode, KeepsOrder
  <2>3. ASSUME NEW a \in Addresses, Hit(a) \/ Fill(a) \/ Evict(a) \/ EvictOutside(a)
        PROVE  [Recency!Next]_(Recency!vars)
    <3>1. UNCHANGED config
      BY <2>3 DEF Hit, Fill, Evict, EvictOutside
    <3>2. CASE EvictOutside(a)
      BY <3>2, <2>1 DEF EvictOutside
    <3>3. CASE KeepsOrder /\ Hit(a)
      BY <3>3, HitRefines
    <3>4. CASE KeepsOrder /\ Fill(a)
      BY <3>4, FillRefines
    <3>5. CASE KeepsOrder /\ Evict(a)
      BY <3>5, EvictRefines
    <3> QED
      BY <2>2, <2>3, <3>1, <3>2, <3>3, <3>4, <3>5
  <2> QED
    BY <2>1, <2>3 DEF Next, vars
<1> QED
  BY <1>1, <1>2, InvariantHolds, PTL DEF Spec, EvictsByRecency, Recency!Spec

-----------------------------------------------------------------------------
(* LFU: the counts of the blocks.                                          *)

BLOCKS == [Ways -> Addresses \cup {NoBlock}]

BlocksIn(b) == {b[w] : w \in {v \in Ways : b[v] # NoBlock}}

\* The counts of the ways f, as counts of the blocks b they hold.
CountsOf(b, f) == [x \in BlocksIn(b) |-> f[CHOOSE w \in Ways : b[w] = x]]

Distinct(b) == \A v, w \in Ways : b[v] = b[w] /\ b[v] # NoBlock => v = w


LEMMA SameCardinality ==
  ASSUME NEW S
  PROVE  Usage!Cardinality(S) = Cardinality(S)
BY DEF Usage!Cardinality, Cardinality

LEMMA CountOfWay ==
  ASSUME NEW b \in BLOCKS, Distinct(b), NEW f, NEW way \in Ways, b[way] # NoBlock
  PROVE  b[way] \in BlocksIn(b) /\ CountsOf(b, f)[b[way]] = f[way]
<1>1. b[way] \in BlocksIn(b)
  BY DEF BlocksIn
<1>2. (CHOOSE w \in Ways : b[w] = b[way]) = way
  BY DEF Distinct
<1> QED
  BY <1>1, <1>2 DEF CountsOf

\* A function is the counts if it gives every block the count of its way.
LEMMA CountsAre ==
  ASSUME NEW b \in BLOCKS, Distinct(b), NEW f, NEW g, g = [x \in BlocksIn(b) |-> g[x]],
         \A w \in Ways : b[w] # NoBlock => g[b[w]] = f[w]
  PROVE  CountsOf(b, f) = g
<1>1. \A x \in BlocksIn(b) : CountsOf(b, f)[x] = g[x]
  <2> TAKE x \in BlocksIn(b)
  <2>1. PICK w \in Ways : b[w] # NoBlock /\ x = b[w]
    BY DEF BlocksIn
  <2> QED
    BY <2>1, CountOfWay
<1>2. CountsOf(b, f) = [x \in BlocksIn(b) |-> CountsOf(b, f)[x]]
  BY DEF CountsOf
<1> QED
  BY <1>1, <1>2

\* A set holds as many blocks as it has valid ways.
LEMMA BlocksAreCounted ==
  ASSUME NEW b \in BLOCKS, Distinct(b), NEW n \in 0 .. A,
         \A w \in Ways : w < n <=> b[w] # NoBlock
  PROVE  Cardinality(BlocksIn(b)) = n
<1>0. A \in Nat \ {0} /\ n \in Nat
  BY CacheSetAssumption
<1> DEFINE S == 0 .. n - 1
           s == [w \in S |-> b[w]]
<1>1. IsFiniteSet(S) /\ Cardinality(S) = n
  <2>1. 0 \in Int /\ n - 1 \in Int
    BY <1>0
  <2>2. IsFiniteSet(0 .. n - 1) /\ Cardinality(0 .. n - 1) = IF 0 > n - 1 THEN 0 ELSE n - 1 - 0 + 1
    BY ONLY <2>1, FS_Interval
  <2> QED
    BY <2>2, <1>0
<1>2. S = {w \in Ways : b[w] # NoBlock}
  BY <1>0 DEF Ways
<1>3. s \in Surjection(S, BlocksIn(b))
  BY <1>2 DEF Surjection, BlocksIn
<1>4. \A v, w \in S : s[v] = s[w] => v = w
  BY <1>2 DEF Distinct
<1>5. s \in Injection(S, BlocksIn(b))
  BY <1>3, <1>4 DEF Injection, Surjection, IsInjective
<1> HIDE DEF s, S
<1> QED
  BY <1>1, <1>3, <1>5, FS_Surjection

-----------------------------------------------------------------------------
(* The invariant behind the counts, and what every step starts from.       *)

\* A way that holds no block was never committed.
UnusedUncounted == \A w \in Ways : block[w] = NoBlock => frequency[w] = 0

UseInv == IndInv /\ UnusedUncounted

LEMMA UseInvHolds == Spec => []UseInv
<1>1. Init => UnusedUncounted
  BY DEF Init, UnusedUncounted
<1>2. IndInv /\ UnusedUncounted /\ [Next]_vars => UnusedUncounted'
  <2> SUFFICES ASSUME IndInv, UnusedUncounted, [Next]_vars
               PROVE  UnusedUncounted'
    OBVIOUS
  <2>0. A \in Nat \ {0} /\ NoBlock \notin Addresses /\ TypeOK
    BY CacheSetAssumption DEF IndInv
  <2>1. CASE UNCHANGED <<block, frequency>>
    BY <2>1 DEF UnusedUncounted, Ways
  <2>2. ASSUME NEW a \in Addresses, NEW way \in Ways, NEW k,
               block' = [block EXCEPT ![way] = a], frequency' = [frequency EXCEPT ![way] = k]
        PROVE  UnusedUncounted'
    BY <2>0, <2>2 DEF UnusedUncounted, TypeOK, Ways
  <2>3. ASSUME NEW a \in Addresses, Hit(a) \/ Fill(a) \/ Evict(a) \/ EvictOutside(a)
        PROVE  UnusedUncounted'
    <3>1. CASE Hit(a)
      <4>1. PICK way \in Ways : block[way] = a /\ frequency' = [frequency EXCEPT ![way] = @ + 1]
        BY <3>1 DEF Hit
      <4>2. block' = block
        BY <3>1 DEF Hit
      <4> QED
        BY <2>0, <4>1, <4>2 DEF UnusedUncounted, TypeOK, Ways
    <3>2. CASE Fill(a)
      <4>1. PICK n \in 0 .. A : FilledUpTo(n)
        BY DEF IndInv
      <4>2. Least(InvalidWays) \in Ways
        BY <2>0, <3>2, <4>1, FirstInvalid DEF Fill, FilledUpTo
      <4> QED
        BY <2>2, <3>2, <4>2 DEF Fill
    <3>3. CASE Evict(a)
      BY <2>2, <3>3 DEF Evict
    <3>4. CASE EvictOutside(a)
      BY <2>1, <3>4 DEF EvictOutside
    <3> QED
      BY <2>3, <3>1, <3>2, <3>3, <3>4
  <2> QED
    BY <2>1, <2>3 DEF Next, vars
<1> QED
  BY <1>1, <1>2, InvariantHolds, PTL DEF Spec, UseInv

\* Under LFU the counts of the refinement are those of the ways.
LEMMA CountsNow ==
  ASSUME IndInv, config.policy = "LFU"
  PROVE  /\ block \in BLOCKS /\ Distinct(block)
         /\ Counts = CountsOf(block, frequency) /\ Usage!Resident = BlocksIn(block)
<1>1. block \in BLOCKS /\ Distinct(block)
  BY DEF IndInv, TypeOK, NoBlockTwice, BLOCKS, Distinct
<1>2. Ways \ InvalidWays = {v \in Ways : block[v] # NoBlock}
  BY DEF InvalidWays
<1>3. Counts = CountsOf(block, frequency)
  BY <1>2 DEF Counts, CountsOf, BlocksIn
<1> QED
  BY <1>1, <1>3 DEF Usage!Resident, CountsOf

LEMMA CountsNext ==
  ASSUME IndInv, IndInv', config.policy = "LFU", config' = config
  PROVE  block' \in BLOCKS /\ Distinct(block') /\ Counts' = CountsOf(block', frequency')
<1>1. block' \in BLOCKS /\ Distinct(block')
  BY DEF IndInv, TypeOK, NoBlockTwice, BLOCKS, Distinct, Ways
<1>2. Ways \ InvalidWays' = {v \in Ways : block'[v] # NoBlock}
  BY DEF InvalidWays, Ways
<1>3. Counts' = CountsOf(block', frequency')
  BY <1>2 DEF Counts, CountsOf, BlocksIn, Ways
<1> QED
  BY <1>1, <1>3

-----------------------------------------------------------------------------
(* LFU, action by action.                                                  *)

LEMMA HitTouches ==
  ASSUME IndInv, IndInv', config.policy = "LFU", NEW a \in Addresses, Hit(a)
  PROVE  Usage!Next
<1>0. NoBlock \notin Addresses /\ frequency \in [Ways -> Nat]
  BY CacheSetAssumption DEF IndInv, TypeOK
<1>1. PICK way \in Ways : block[way] = a /\ frequency' = [frequency EXCEPT ![way] = @ + 1]
  BY DEF Hit
<1>2. config' = config /\ block' = block
  BY DEF Hit
<1>3. /\ block \in BLOCKS /\ Distinct(block) /\ Counts = CountsOf(block, frequency)
      /\ Usage!Resident = BlocksIn(block) /\ Counts' = CountsOf(block, frequency')
  BY <1>2, CountsNow, CountsNext
<1>4. a \in BlocksIn(block) /\ \A w \in Ways : block[w] # NoBlock => Counts[block[w]] = frequency[w]
  BY <1>0, <1>1, <1>3, CountOfWay
<1>5. PICK g : g = [Counts EXCEPT ![a] = @ + 1]
  OBVIOUS
<1>6. g = [x \in BlocksIn(block) |-> g[x]]
  <2>1. DOMAIN Counts = BlocksIn(block)
    BY <1>3 DEF CountsOf
  <2> QED
    BY <2>1, <1>5
<1>7. \A w \in Ways : block[w] # NoBlock => g[block[w]] = frequency'[w]
  <2> SUFFICES ASSUME NEW w \in Ways, block[w] # NoBlock PROVE g[block[w]] = frequency'[w]
    OBVIOUS
  <2>1. block[w] \in BlocksIn(block) /\ BlocksIn(block) = DOMAIN Counts
    BY <1>3 DEF BlocksIn, CountsOf
  <2>2. CASE w = way
    BY <2>1, <2>2, <1>0, <1>1, <1>4, <1>5
  <2>3. CASE w # way
    <3>1. block[w] # a
      BY <2>3, <1>1, <1>3 DEF Distinct
    <3> QED
      BY <2>1, <2>3, <3>1, <1>0, <1>1, <1>4, <1>5
  <2> QED
    BY <2>2, <2>3
<1>8. Counts' = g
  BY <1>3, <1>6, <1>7, CountsAre
<1>9. Usage!Touch(a)
  BY <1>5, <1>8 DEF Usage!Touch
<1> QED
  BY <1>3, <1>4, <1>9 DEF Usage!Next

\* A block that comes into a way with a count of 1, in the place of the blocks out.
LEMMA Brings ==
  ASSUME IndInv, IndInv', config.policy = "LFU", config' = config,
         NEW a \in Addresses, Misses(a), NEW way \in Ways,
         block' = [block EXCEPT ![way] = a], frequency' = [frequency EXCEPT ![way] = 1],
         NEW out \in Usage!Evictable,
         out = IF block[way] = NoBlock THEN {} ELSE {block[way]}
  PROVE  Usage!Next
<1>0. NoBlock \notin Addresses /\ frequency \in [Ways -> Nat]
  BY CacheSetAssumption DEF IndInv, TypeOK
<1>1. /\ block \in BLOCKS /\ Distinct(block) /\ Counts = CountsOf(block, frequency)
      /\ Usage!Resident = BlocksIn(block)
  BY CountsNow
<1>2. block' \in BLOCKS /\ Distinct(block') /\ Counts' = CountsOf(block', frequency')
  BY CountsNext
<1>3. block'[way] = a /\ \A w \in Ways \ {way} : block'[w] = block[w]
  BY <1>1 DEF BLOCKS
<1>4. frequency'[way] = 1 /\ \A w \in Ways \ {way} : frequency'[w] = frequency[w]
  BY <1>0
<1>5. a \notin BlocksIn(block)
  BY DEF Misses, BlocksIn
<1>6. BlocksIn(block') = (BlocksIn(block) \ out) \cup {a}
  <2>1. \A x : x \in BlocksIn(block') <=> x = a \/ \E w \in Ways \ {way} : block[w] = x /\ x # NoBlock
    BY <1>0, <1>3 DEF BlocksIn
  <2>2. \A x : x \in BlocksIn(block) \ out <=> \E w \in Ways \ {way} : block[w] = x /\ x # NoBlock
    BY <1>1 DEF BlocksIn, Distinct
  <2> QED
    BY <2>1, <2>2
<1>7. PICK g : g = [x \in (Usage!Resident \ out) \cup {a} |-> IF x = a THEN 1 ELSE Counts[x]]
  OBVIOUS
<1>8. g = [x \in BlocksIn(block') |-> g[x]]
  BY <1>1, <1>6, <1>7
<1>9. \A w \in Ways : block'[w] # NoBlock => g[block'[w]] = frequency'[w]
  <2> SUFFICES ASSUME NEW w \in Ways, block'[w] # NoBlock PROVE g[block'[w]] = frequency'[w]
    OBVIOUS
  <2>1. block'[w] \in BlocksIn(block')
    BY DEF BlocksIn
  <2>2. CASE w = way
    BY <2>1, <2>2, <1>1, <1>3, <1>4, <1>6, <1>7
  <2>3. CASE w # way
    <3>1. block'[w] = block[w] /\ block[w] # a /\ frequency'[w] = frequency[w]
      BY <2>3, <1>3, <1>4 DEF Misses
    <3>2. Counts[block[w]] = frequency[w]
      BY <1>1, <3>1, CountOfWay
    <3> QED
      BY <2>1, <3>1, <3>2, <1>1, <1>6, <1>7
  <2> QED
    BY <2>2, <2>3
<1>10. Counts' = g
  <2>1. PICK b, f : b = block' /\ f = frequency'
    OBVIOUS
  <2>2. /\ b \in BLOCKS /\ Distinct(b) /\ g = [x \in BlocksIn(b) |-> g[x]]
        /\ \A w \in Ways : b[w] # NoBlock => g[b[w]] = f[w]
    BY <2>1, <1>2, <1>8, <1>9
  <2>3. CountsOf(b, f) = g
    BY ONLY <2>2, CountsAre
  <2> QED
    BY <2>1, <2>3, <1>2
<1>11. Usage!Bring(a)
  BY <1>7, <1>10 DEF Usage!Bring
<1> QED
  BY <1>1, <1>5, <1>11 DEF Usage!Next

LEMMA FillBrings ==
  ASSUME UseInv, IndInv', config.policy = "LFU", NEW a \in Addresses, Fill(a)
  PROVE  Usage!Next
<1>0. A \in Nat \ {0} /\ IndInv /\ TypeOK /\ frequency \in [Ways -> Nat]
  BY CacheSetAssumption DEF UseInv, IndInv, TypeOK
<1>1. PICK n \in 0 .. A : FilledUpTo(n)
  BY <1>0 DEF IndInv
<1>2. \A w \in Ways : w < n <=> block[w] # NoBlock
  BY <1>1 DEF FilledUpTo
<1>3. Least(InvalidWays) = n /\ n \in 0 .. A - 1 /\ n \in Ways
  BY <1>0, <1>2, FirstInvalid DEF Fill
<1>4. block[n] = NoBlock /\ frequency[n] = 0
  BY <1>2, <1>3 DEF UseInv, UnusedUncounted
<1>5. block' = [block EXCEPT ![n] = a] /\ frequency' = [frequency EXCEPT ![n] = 1]
  BY <1>0, <1>3, <1>4 DEF Fill
<1>6. Cardinality(Usage!Resident) = n
  BY <1>0, <1>2, CountsNow, BlocksAreCounted
<1>7. {} \in Usage!Evictable
  BY <1>0, <1>3, <1>6, SameCardinality DEF Usage!Evictable
<1>8. config' = config /\ Misses(a)
  BY DEF Fill
<1> QED
  BY <1>0, <1>3, <1>4, <1>5, <1>7, <1>8, Brings

LEMMA EvictBrings ==
  ASSUME UseInv, IndInv', config.policy = "LFU", NEW a \in Addresses, Evict(a)
  PROVE  Usage!Next
<1>0. A \in Nat \ {0} /\ IndInv /\ TypeOK /\ frequency \in [Ways -> Nat]
  BY CacheSetAssumption DEF UseInv, IndInv, TypeOK
<1>1. PICK n \in 0 .. A : FilledUpTo(n)
  BY <1>0 DEF IndInv
<1>2. \A w \in Ways : w < n <=> block[w] # NoBlock
  BY <1>1 DEF FilledUpTo
<1>3. n = A
  BY <1>0, <1>2, FirstInvalid DEF Evict
<1>4. config.replace # "LRU" /\ config.replace # "RANDOM" /\ ~config.l2
  BY <1>0, CacheSetAssumption DEF AllConfigs, TypeOK
<1>5. Victims = {LeastUsedWay}
  BY <1>4 DEF Victims
<1>6. PICK way \in Ways :
        /\ way = LeastUsedWay
        /\ block' = [block EXCEPT ![way] = a]
        /\ frequency' = [frequency EXCEPT ![way] = CountAfterEviction(way) + 1]
  BY <1>5 DEF Evict
<1>7. frequency' = [frequency EXCEPT ![way] = 1] /\ block[way] # NoBlock
  BY <1>6, <1>2, <1>3, <1>0 DEF CountAfterEviction, Ways
<1>8. \A v \in Ways : frequency[way] <= frequency[v]
  BY <1>0, <1>6, LeastUsedWayIsLeast
<1>9. /\ block \in BLOCKS /\ Distinct(block) /\ Counts = CountsOf(block, frequency)
      /\ Usage!Resident = BlocksIn(block)
  BY <1>0, CountsNow
<1>10. Cardinality(Usage!Resident) = A
  BY <1>2, <1>3, <1>9, BlocksAreCounted
<1>11. {block[way]} \in Usage!Evictable
  <2>1. \A x \in Usage!Resident : Counts[block[way]] <= Counts[x]
    <3> TAKE x \in Usage!Resident
    <3>1. PICK v \in Ways : block[v] # NoBlock /\ x = block[v]
      BY <1>9 DEF BlocksIn
    <3>2. Counts[x] = frequency[v] /\ Counts[block[way]] = frequency[way]
      BY <3>1, <1>7, <1>9, CountOfWay
    <3> QED
      BY <3>2, <1>8
  <2>2. block[way] \in Usage!Resident
    BY <1>7, <1>9 DEF BlocksIn
  <2> QED
    BY <2>1, <2>2, <1>0, <1>10, SameCardinality DEF Usage!Evictable
<1>12. config' = config /\ Misses(a)
  BY DEF Evict
<1> QED
  BY <1>0, <1>6, <1>7, <1>11, <1>12, Brings

\* A set of any size counts the uses of its blocks from the time they come in, and
\* LFU evicts one that was used least, as UseCounts says.
THEOREM SetsEvictByUse == Spec => EvictsByUse
<1>1. Init => Usage!Init
  <2> SUFFICES ASSUME Init PROVE Usage!Init
    OBVIOUS
  <2>1. Ways \ InvalidWays = {}
    BY DEF Init, InvalidWays
  <2> QED
    BY <2>1 DEF Usage!Init, Counts
<1>2. UseInv /\ UseInv' /\ [Next]_vars => [Usage!Next]_Counts
  <2> SUFFICES ASSUME UseInv, UseInv', [Next]_vars PROVE [Usage!Next]_Counts
    OBVIOUS
  <2>1. CASE UNCHANGED <<config, block, frequency>>
    BY <2>1 DEF Counts, InvalidWays, Ways
  <2>2. CASE config.policy # "LFU" /\ UNCHANGED config
    BY <2>2 DEF Counts
  <2>3. ASSUME NEW a \in Addresses, Hit(a) \/ Fill(a) \/ Evict(a) \/ EvictOutside(a)
        PROVE  [Usage!Next]_Counts
    <3>1. UNCHANGED config /\ IndInv /\ IndInv'
      BY <2>3 DEF Hit, Fill, Evict, EvictOutside, UseInv
    <3>2. CASE EvictOutside(a)
      BY <3>2, <2>1 DEF EvictOutside
    <3>3. CASE config.policy = "LFU" /\ Hit(a)
      BY <3>1, <3>3, HitTouches
    <3>4. CASE config.policy = "LFU" /\ Fill(a)
      BY <3>1, <3>4, FillBrings
    <3>5. CASE config.policy = "LFU" /\ Evict(a)
      BY <3>1, <3>5, EvictBrings
    <3> QED
      BY <2>2, <2>3, <3>1, <3>2, <3>3, <3>4, <3>5
  <2> QED
    BY <2>1, <2>3 DEF Next, vars
<1> QED
  BY <1>1, <1>2, UseInvHolds, PTL DEF Spec, EvictsByUse, Usage!Spec

=============================================================================
