----------------------------- MODULE DataProofs -----------------------------
(***************************************************************************)
(* Proofs about the data of the program.  Addresses are cut up into words, *)
(* blocks, sets, rows and banks without a clash, for any cache the code    *)
(* could have and any address; the units of the pipeline compute what      *)
(* their names say, for words of any width; and the caches and the memory  *)
(* behave as one memory, for any number of blocks, sets and ways and for   *)
(* any choice of victims.                                                  *)
(***************************************************************************)
EXTENDS Hierarchy, Units, WellFoundedInduction, TLAPS

-----------------------------------------------------------------------------
(* Powers of two, quotients and remainders.                                *)

\* The powers of two that fit in a word, and the number of words.
LEMMA PowersOfTwo ==
  /\ 2^0 = 1  /\ 2^1 = 2  /\ 2^2 = 4  /\ 2^3 = 8
  /\ 2^4 = 16  /\ 2^5 = 32  /\ 2^6 = 64  /\ 2^7 = 128
  /\ 2^8 = 256  /\ 2^9 = 512  /\ 2^10 = 1024  /\ 2^11 = 2048
  /\ 2^12 = 4096  /\ 2^13 = 8192  /\ 2^14 = 16384  /\ 2^15 = 32768
  /\ 2^16 = 65536  /\ 2^17 = 131072  /\ 2^18 = 262144  /\ 2^19 = 524288
  /\ 2^20 = 1048576  /\ 2^21 = 2097152  /\ 2^22 = 4194304  /\ 2^23 = 8388608
  /\ 2^24 = 16777216  /\ 2^25 = 33554432  /\ 2^26 = 67108864  /\ 2^27 = 134217728
  /\ 2^28 = 268435456  /\ 2^29 = 536870912  /\ 2^30 = 1073741824  /\ 2^31 = 2147483648
  /\ 2^32 = 4294967296
BY SMT

\* Each power of two is twice the one before it.
LEMMA PowerGrows ==
  ASSUME NEW n \in 0 .. 31
  PROVE  2^n \in Nat \ {0} /\ 2^(n + 1) = 2 * 2^n
<1>0. CASE n = 0 BY <1>0, PowersOfTwo, SMT
<1>1. CASE n = 1 BY <1>1, PowersOfTwo, SMT
<1>2. CASE n = 2 BY <1>2, PowersOfTwo, SMT
<1>3. CASE n = 3 BY <1>3, PowersOfTwo, SMT
<1>4. CASE n = 4 BY <1>4, PowersOfTwo, SMT
<1>5. CASE n = 5 BY <1>5, PowersOfTwo, SMT
<1>6. CASE n = 6 BY <1>6, PowersOfTwo, SMT
<1>7. CASE n = 7 BY <1>7, PowersOfTwo, SMT
<1>8. CASE n = 8 BY <1>8, PowersOfTwo, SMT
<1>9. CASE n = 9 BY <1>9, PowersOfTwo, SMT
<1>10. CASE n = 10 BY <1>10, PowersOfTwo, SMT
<1>11. CASE n = 11 BY <1>11, PowersOfTwo, SMT
<1>12. CASE n = 12 BY <1>12, PowersOfTwo, SMT
<1>13. CASE n = 13 BY <1>13, PowersOfTwo, SMT
<1>14. CASE n = 14 BY <1>14, PowersOfTwo, SMT
<1>15. CASE n = 15 BY <1>15, PowersOfTwo, SMT
<1>16. CASE n = 16 BY <1>16, PowersOfTwo, SMT
<1>17. CASE n = 17 BY <1>17, PowersOfTwo, SMT
<1>18. CASE n = 18 BY <1>18, PowersOfTwo, SMT
<1>19. CASE n = 19 BY <1>19, PowersOfTwo, SMT
<1>20. CASE n = 20 BY <1>20, PowersOfTwo, SMT
<1>21. CASE n = 21 BY <1>21, PowersOfTwo, SMT
<1>22. CASE n = 22 BY <1>22, PowersOfTwo, SMT
<1>23. CASE n = 23 BY <1>23, PowersOfTwo, SMT
<1>24. CASE n = 24 BY <1>24, PowersOfTwo, SMT
<1>25. CASE n = 25 BY <1>25, PowersOfTwo, SMT
<1>26. CASE n = 26 BY <1>26, PowersOfTwo, SMT
<1>27. CASE n = 27 BY <1>27, PowersOfTwo, SMT
<1>28. CASE n = 28 BY <1>28, PowersOfTwo, SMT
<1>29. CASE n = 29 BY <1>29, PowersOfTwo, SMT
<1>30. CASE n = 30 BY <1>30, PowersOfTwo, SMT
<1>31. CASE n = 31 BY <1>31, PowersOfTwo, SMT
<1> QED
  BY <1>0, <1>1, <1>2, <1>3, <1>4, <1>5, <1>6, <1>7, <1>8, <1>9, <1>10,
     <1>11, <1>12, <1>13, <1>14, <1>15,
     <1>16, <1>17, <1>18, <1>19, <1>20, <1>21, <1>22, <1>23, <1>24, <1>25, <1>26, <1>27, <1>28, <1>29, <1>30, <1>31

\* Powers of two are positive.
LEMMA PowerPositive == ASSUME NEW n \in 0 .. 32 PROVE 2^n \in Nat \ {0}
<1>1. CASE n \in 0 .. 31
  BY <1>1, PowerGrows
<1>2. CASE n = 32
  BY <1>2, PowersOfTwo, SMT
<1> QED
  BY <1>1, <1>2

\* Induction: a set that holds 0, and every number after one it holds, holds them all.
LEMMA NaturalsInSet ==
  ASSUME NEW S, 0 \in S, \A n \in Nat : n \in S => n + 1 \in S
  PROVE  Nat \subseteq S
<1> SUFFICES ASSUME Nat \ S # {} PROVE FALSE
  OBVIOUS
<1> DEFINE R == {ss \in Nat \X Nat : ss[1] < ss[2]}
<1>1. IsWellFoundedOn(R, Nat)
  BY NatLessThanWellFounded DEF OpToRel
<1> HIDE DEF R
<1>2. PICK x \in Nat \ S : \A y \in Nat \ S : <<y, x>> \notin R
  BY <1>1, WFMin
<1>3. x # 0 /\ x - 1 \in Nat
  OBVIOUS
<1>4. <<x - 1, x>> \in R
  BY <1>3 DEF R
<1>5. x - 1 \in S
  BY <1>2, <1>3, <1>4
<1> QED
  BY <1>3, <1>5

\* The product of powers of two, by induction over the second exponent.
LEMMA PowersMultiply ==
  ASSUME NEW n \in Nat, NEW m \in Nat, n + m <= 32
  PROVE  2^(n + m) = 2^n * 2^m
<1> DEFINE S == {k \in Nat : n + k <= 32 => 2^(n + k) = 2^n * 2^k}
<1>1. 0 \in S
  BY PowersOfTwo, PowerPositive
<1>2. ASSUME NEW k \in Nat, k \in S PROVE k + 1 \in S
  <2> SUFFICES ASSUME n + (k + 1) <= 32 PROVE 2^(n + (k + 1)) = 2^n * 2^(k + 1)
    OBVIOUS
  <2>0. n \in 0 .. 32 /\ k \in 0 .. 31 /\ n + k \in 0 .. 31
    OBVIOUS
  <2>1. 2^(n + k) = 2^n * 2^k
    BY <1>2
  <2>2. 2^(n + (k + 1)) = 2 * 2^(n + k)
    <3> DEFINE j == n + k
    <3>1. j \in 0 .. 31 /\ n + (k + 1) = j + 1
      BY <2>0
    <3> HIDE DEF j
    <3>2. 2^(j + 1) = 2 * 2^j
      BY <3>1, PowerGrows
    <3> QED
      BY <3>1, <3>2 DEF j
  <2>3. 2^(k + 1) = 2 * 2^k /\ 2^k \in Nat
    BY <2>0, PowerGrows
  <2>4. 2^n \in Nat
    BY <2>0, PowerPositive
  <2> QED
    BY <2>1, <2>2, <2>3, <2>4
<1> HIDE DEF S
<1>3. m \in S
  BY <1>1, <1>2, NaturalsInSet
<1> QED
  BY <1>3 DEF S

\* Greater exponents give greater powers.
LEMMA PowersIncrease ==
  ASSUME NEW n \in 0 .. 32, NEW m \in 0 .. 32, n < m
  PROVE  2^n < 2^m
<1>1. 2^(n + (m - n)) = 2^n * 2^(m - n) /\ n + (m - n) = m
  BY PowersMultiply
<1> DEFINE d == m - n - 1
<1>2. 2^(d + 1) = 2 * 2^d /\ d + 1 = m - n /\ 2^d \in Nat \ {0}
  <2>1. d \in 0 .. 31 /\ d + 1 = m - n
    OBVIOUS
  <2> HIDE DEF d
  <2> QED
    BY <2>1, PowerGrows
<1>3. 2^n \in Nat \ {0}
  BY PowerPositive
<1>4. 2^(m - n) \in Nat /\ 2^(m - n) >= 2
  BY <1>2
<1> QED
  BY <1>1, <1>3, <1>4

\* CeilLog2 is defined for every size that fits in a word.
LEMMA LogOfSize ==
  ASSUME NEW x \in Nat, 1 <= x, x <= 2^31
  PROVE  /\ CeilLog2(x) \in 0 .. 31
         /\ 2^CeilLog2(x) >= x
         /\ CeilLog2(x) > 0 => 2^(CeilLog2(x) - 1) < x
<1>1. \E n \in 0 .. 31 : 2^n >= x /\ (n > 0 => 2^(n - 1) < x)
  <2> SUFFICES ASSUME \A n \in 0 .. 31 : ~(2^n >= x /\ (n > 0 => 2^(n - 1) < x))
               PROVE  FALSE
    OBVIOUS
  <2> DEFINE S == {n \in Nat : n \in 0 .. 31 => 2^n < x}
  <2>0. \A n \in 0 .. 32 : 2^n \in Nat \ {0}
    BY PowerPositive
  <2>1. 0 \in S
    <3>1. 0 \in 0 .. 31 /\ 2^0 \in Nat
      BY <2>0
    <3> QED
      BY <3>1
  <2>2. ASSUME NEW n \in Nat, n \in S PROVE n + 1 \in S
    <3> SUFFICES ASSUME n + 1 \in 0 .. 31 PROVE 2^(n + 1) < x
      OBVIOUS
    <3>1. n \in 0 .. 31 /\ (n + 1) - 1 = n /\ n + 1 > 0
      OBVIOUS
    <3>2. 2^n < x /\ 2^((n + 1) - 1) < x
      BY <2>2, <3>1
    <3>3. 2^(n + 1) \in Nat
      BY <2>0
    <3> QED
      BY <3>1, <3>2, <3>3
  <2> HIDE DEF S
  <2>3. 31 \in S
    BY <2>1, <2>2, NaturalsInSet
  <2>4. 31 \in 0 .. 31 /\ 2^31 \in Nat
    BY <2>0
  <2> QED
    BY <2>3, <2>4 DEF S
<1> QED
  BY <1>1 DEF CeilLog2

\* The logarithm of a power of two is its exponent.
LEMMA LogOfPower == ASSUME NEW k \in 0 .. 31 PROVE CeilLog2(2^k) = k
<1>0. 2^k \in Nat \ {0} /\ 2^31 \in Nat
  <2>1. 31 \in 0 .. 32 /\ k \in 0 .. 32
    OBVIOUS
  <2> QED
    BY <2>1, PowerPositive
<1>1. 2^k \in Nat /\ 1 <= 2^k /\ 2^k <= 2^31
  <2>1. 31 \in 0 .. 32 /\ k \in 0 .. 32 /\ (k = 31 \/ k < 31)
    OBVIOUS
  <2>2. k < 31 => 2^k < 2^31
    BY <2>1, PowersIncrease
  <2>3. 2^k <= 2^31
    <3>1. CASE k = 31
      BY <3>1, <1>0
    <3>2. CASE k < 31
      BY <3>2, <2>2, <1>0
    <3> QED
      BY <2>1, <3>1, <3>2
  <2> QED
    BY <1>0, <2>3
<1> DEFINE n == CeilLog2(2^k)
<1>2. n \in 0 .. 31 /\ 2^n >= 2^k /\ (n > 0 => 2^(n - 1) < 2^k)
  BY <1>1, LogOfSize
<1> HIDE DEF n
<1>6. n \in 0 .. 32 /\ k \in 0 .. 32
  BY <1>2
<1>3. ~(n < k)
  <2>1. n < k => 2^n < 2^k
    BY <1>6, PowersIncrease
  <2>2. 2^n \in Nat
    BY <1>6, PowerPositive
  <2> QED
    BY <1>0, <1>2, <2>1, <2>2
<1>4. ~(k < n)
  <2> SUFFICES ASSUME k < n PROVE FALSE
    OBVIOUS
  <2> DEFINE p == n - 1
  <2>1. p \in 0 .. 32 /\ (k = p \/ k < p) /\ n > 0
    BY <1>2
  <2>2. 2^p < 2^k
    BY <1>2, <2>1
  <2> HIDE DEF p
  <2>3. k < p => 2^k < 2^p
    BY <1>6, <2>1, PowersIncrease
  <2>4. 2^p \in Nat
    BY <2>1, PowerPositive
  <2> QED
    BY <1>0, <2>1, <2>2, <2>3, <2>4
<1>5. n = k
  BY <1>2, <1>3, <1>4
<1> QED
  BY <1>5 DEF n

\* Quotient and remainder of natural numbers.
LEMMA DivMod ==
  ASSUME NEW x \in Nat, NEW p \in Nat \ {0}
  PROVE  x = p * (x \div p) + (x % p) /\ x % p \in 0 .. p - 1 /\ x \div p \in Nat
OBVIOUS

\* No other numbers are quotient and remainder.
LEMMA DivModUnique ==
  ASSUME NEW q \in Nat, NEW p \in Nat \ {0}, NEW r \in 0 .. p - 1
  PROVE  (p * q + r) \div p = q /\ (p * q + r) % p = r
OBVIOUS

\* Two divisions are one.
LEMMA DivDiv ==
  ASSUME NEW x \in Nat, NEW p \in Nat \ {0}, NEW s \in Nat \ {0}
  PROVE  x \div (p * s) = (x \div p) \div s
OBVIOUS

\* Numbers with the same quotient and remainder are the same.
LEMMA SameDivMod ==
  ASSUME NEW x \in Nat, NEW y \in Nat, NEW p \in Nat \ {0}, x \div p = y \div p, x % p = y % p
  PROVE  x = y
BY DivMod

\* The same for a dividend with a sign.
LEMMA IntDivMod ==
  ASSUME NEW x \in Int, NEW p \in Nat \ {0}
  PROVE  x = p * (x \div p) + (x % p) /\ x % p \in 0 .. p - 1 /\ x \div p \in Int
OBVIOUS

\* Of a dividend with a sign, no other numbers are quotient and remainder.
LEMMA IntDivModUnique ==
  ASSUME NEW q \in Int, NEW p \in Nat \ {0}, NEW r \in 0 .. p - 1
  PROVE  (p * q + r) \div p = q /\ (p * q + r) % p = r
OBVIOUS

-----------------------------------------------------------------------------
(* Addresses.                                                              *)

\* The numbers of bits that decode_address and traverse_block compute for a cache.
LEMMA Sizes ==
  ASSUME NEW cache \in Geometries
  PROVE  \E n \in 2 .. 30 :
           /\ cache.block_size = 2^n
           /\ cache.block_size \div 4 = 2^(n - 2)
           /\ 2^n = 4 * 2^(n - 2)
           /\ BlockBits(cache) = n
           /\ WordBits(cache) = n - 2
           /\ SetCount(cache) \in Nat
           /\ SetBits(cache) \in 0 .. 31 - n
           /\ 2^(BlockBits(cache) + SetBits(cache)) = 2^n * 2^SetBits(cache)
<1>1. PICK n \in 2 .. 30 : cache.block_size = 2^n
  BY GeometryAssumption
<1> DEFINE k == n - 2
           m == SetBits(cache)
           c == SetCount(cache)
<1>2. k \in 0 .. 31 /\ k \in 0 .. 31 /\ n \in 0 .. 31 /\ n = k + 2
  OBVIOUS
<1> HIDE DEF k
<1>3. 2^n = 4 * 2^k /\ 2^k \in Nat \ {0}
  <2>1. 2^(k + 1) = 2 * 2^k /\ 2^k \in Nat \ {0}
    BY <1>2, PowerGrows
  <2> DEFINE j == k + 1
  <2>2. j \in 0 .. 31 /\ n = j + 1
    BY <1>2
  <2> HIDE DEF j
  <2>3. 2^(j + 1) = 2 * 2^j
    BY <2>2, PowerGrows
  <2> QED
    BY <2>1, <2>2, <2>3 DEF j
<1>4. 2^n \in Nat \ {0} /\ 2^n \div 4 = 2^k
  BY <1>3
<1>5. CeilLog2(2^n) = n /\ CeilLog2(2^k) = k
  <2>1. CeilLog2(2^n) = n
    BY <1>2, LogOfPower
  <2>2. CeilLog2(2^k) = k
    BY <1>2, LogOfPower
  <2> QED
    BY <2>1, <2>2
<1>6. BlockBits(cache) = n /\ WordBits(cache) = k /\ cache.block_size \div 4 = 2^k
  BY <1>1, <1>4, <1>5 DEF BlockBits, WordBits
<1>0. 2^31 \in Nat \ {0} /\ 2^30 \in Nat /\ 2^31 = 2 * 2^30
  <2>1. 30 \in 0 .. 31 /\ 30 \in 0 .. 32 /\ 31 \in 0 .. 32 /\ 30 + 1 = 31
    OBVIOUS
  <2> QED
    BY <2>1, PowerGrows, PowerPositive
<1> DEFINE top == 2^31
<1>7. c \in Nat /\ 1 <= c /\ c * 2^n < top
  <2> DEFINE s == cache.cache_size
             p == 2^n
             a == cache.associativity
  <2>1. s \in Nat /\ s < top /\ top \in Nat /\ p \in Nat \ {0} /\ a \in Nat \ {0}
    BY <1>0, <1>1, <1>4, GeometryAssumption
  <2>2. c = s \div (p * a) /\ c >= 1
    BY <1>1, GeometryAssumption DEF SetCount
  <2> HIDE DEF s, p, a, top
  <2>3. p * a \in Nat \ {0} /\ p * a >= p
    BY <2>1
  <2> DEFINE d == p * a
  <2>4. d \in Nat \ {0} /\ d >= p /\ c = s \div d
    BY <2>2, <2>3
  <2> HIDE DEF d, c
  <2>5. c \in Nat /\ d * c <= s
    BY <2>1, <2>4
  <2>6. p * c <= d * c
    BY <2>1, <2>4, <2>5
  <2> QED
    BY <2>1, <2>2, <2>4, <2>5, <2>6 DEF p
<1>9. /\ m \in 0 .. 31
      /\ m > 0 => 2^(m - 1) < c
  <2>1. c <= 2^31
    <3> DEFINE P == 2^n
    <3>1. c \in Nat /\ P \in Nat \ {0} /\ c * P < top /\ top \in Nat
      BY <1>0, <1>4, <1>7
    <3> HIDE DEF P, top
    <3>2. c * P >= c
      BY <3>1
    <3> QED
      BY <3>1, <3>2 DEF top
  <2> QED
    BY <1>7, <2>1, LogOfSize DEF SetBits
<1> HIDE DEF m, c
<1>10. m <= 31 - n
  <2> SUFFICES ASSUME m > 31 - n PROVE FALSE
    BY <1>9
  <2> DEFINE j == m - 1
             i == 31 - n
  <2>1. /\ j \in 0 .. 32 /\ i \in 0 .. 32 /\ (i = j \/ i < j)
        /\ n \in Nat /\ i \in Nat /\ n + i = 31 /\ n + i <= 32
    BY <1>9
  <2>2. 2^j < c
    BY <1>9
  <2> HIDE DEF j, i
  <2>3. 2^i <= 2^j /\ 2^i \in Nat /\ 2^j \in Nat
    <3>1. 2^i \in Nat /\ 2^j \in Nat
      BY <2>1, PowerPositive
    <3>2. i < j => 2^i < 2^j
      BY <2>1, PowersIncrease
    <3>3. CASE i = j
      BY <3>1, <3>3
    <3>4. CASE i < j
      BY <3>1, <3>2, <3>4
    <3> QED
      BY <2>1, <3>1, <3>3, <3>4
  <2>4. 2^(n + i) = 2^n * 2^i
    BY <2>1, PowersMultiply
  <2>5. 2^n * 2^i = top
    BY <2>1, <2>4
  <2> DEFINE P == 2^n
             I == 2^i
             J == 2^j
  <2>6. P \in Nat \ {0} /\ I \in Nat /\ J \in Nat /\ I <= J /\ J < c /\ P * I = top
        /\ c * P < top /\ top \in Nat
    BY <1>0, <1>4, <1>7, <2>2, <2>3, <2>5
  <2> HIDE DEF P, I, J, top
  <2>7. I <= c /\ I * P <= c * P
    BY <2>6, <1>7
  <2> QED
    BY <2>6, <2>7, <1>7
<1>11. 2^(n + m) = 2^n * 2^m
  BY <1>9, <1>10, PowersMultiply
<1>12. k = n - 2 /\ m = SetBits(cache) /\ c = SetCount(cache)
  BY DEF k, m, c
<1>13. m \in 0 .. 31 - n
  BY <1>9, <1>10
<1> HIDE DEF top
<1> QED
  BY <1>1, <1>3, <1>6, <1>7, <1>11, <1>12, <1>13

\* What the operators compute, for a cache with blocks of p = 4 k bytes and s sets.
LEMMA CutUp ==
  ASSUME NEW cache \in Geometries
  PROVE  \E k, p, s \in Nat \ {0} :
           /\ cache.block_size = p /\ p = 4 * k
           /\ cache.block_size \div 4 = k
           /\ s = 2^SetBits(cache)
           /\ \A a \in Nat :
                decode_address(a, cache) = [set |-> (a \div p) % s, tag |-> (a \div p) \div s]
           /\ \A a, w : traverse_block(a, cache, w) = a - (a % p) + 4 * w
           /\ \A a : get_offset_in_block(a, cache) = (a \div 4) % k
<1>1. PICK n \in 2 .. 30 :
           /\ cache.block_size = 2^n
           /\ cache.block_size \div 4 = 2^(n - 2)
           /\ 2^n = 4 * 2^(n - 2)
           /\ BlockBits(cache) = n
           /\ WordBits(cache) = n - 2
           /\ SetCount(cache) \in Nat
           /\ SetBits(cache) \in 0 .. 31 - n
           /\ 2^(BlockBits(cache) + SetBits(cache)) = 2^n * 2^SetBits(cache)
  BY Sizes
<1> DEFINE k == 2^(n - 2)
           p == 4 * k
           s == 2^SetBits(cache)
<1>2. k \in Nat \ {0} /\ p \in Nat \ {0} /\ s \in Nat \ {0}
  <2>1. n - 2 \in 0 .. 32 /\ SetBits(cache) \in 0 .. 32
    BY <1>1
  <2>2. k \in Nat \ {0}
    BY <2>1, PowerPositive
  <2> HIDE DEF k
  <2>3. s \in Nat \ {0}
    BY <2>1, PowerPositive
  <2>4. p \in Nat \ {0}
    BY <2>2
  <2> QED
    BY <2>2, <2>3, <2>4
<1>3. 2^(WordBits(cache) + 2) = p
  <2>1. WordBits(cache) + 2 = n
    BY <1>1
  <2> QED
    BY <1>1, <2>1
<1>4. /\ 2^BlockBits(cache) = p
      /\ 2^(BlockBits(cache) + SetBits(cache)) = p * s
      /\ 2^WordBits(cache) = k
  BY <1>1
<1>5. s = 2^SetBits(cache) /\ cache.block_size = p /\ p = 4 * k /\ cache.block_size \div 4 = k
  BY <1>1
<1> HIDE DEF k, p, s
<1>6. \A a \in Nat :
        decode_address(a, cache) = [set |-> (a \div p) % s, tag |-> (a \div p) \div s]
  <2>1. \A a \in Nat : a \div (p * s) = (a \div p) \div s
    BY <1>2, DivDiv
  <2>2. \A a : decode_address(a, cache) = [set |-> (a \div p) % s, tag |-> a \div (p * s)]
    BY <1>4, <1>5 DEF decode_address
  <2> QED
    BY <2>1, <2>2
<1>7. \A a, w : traverse_block(a, cache, w) = a - (a % p) + 4 * w
  BY <1>3 DEF traverse_block
<1>8. \A a : get_offset_in_block(a, cache) = (a \div 4) % k
  BY <1>4 DEF get_offset_in_block
<1> QED
  BY <1>2, <1>5, <1>6, <1>7, <1>8

\* Words of four bytes in blocks of k words.
WordOfBlock(a, k, w) == a - (a % (4 * k)) + 4 * w

LEMMA WordInBlock ==
  ASSUME NEW a \in Nat, NEW k \in Nat \ {0}, NEW w \in 0 .. k - 1
  PROVE  LET y == WordOfBlock(a, k, w)
         IN  /\ y \in Nat
             /\ y \div (4 * k) = a \div (4 * k)
             /\ y % (4 * k) = 4 * w
             /\ (y \div 4) % k = w
<1> DEFINE p == 4 * k
           q == a \div p
           x == a - (a % p) + 4 * w
<1>1. p \in Nat \ {0} /\ 4 * w \in 0 .. p - 1 /\ 4 * w \in Nat
  OBVIOUS
<1>2. a = p * q + (a % p) /\ q \in Nat /\ a % p \in Nat
  <2> HIDE DEF p
  <2> QED
    BY <1>1, DivMod
<1>3. x = p * q + 4 * w /\ p * q \in Nat
  <2> HIDE DEF p, q
  <2> QED
    BY <1>1, <1>2
<1>4. x \div p = q /\ x % p = 4 * w
  <2> HIDE DEF p, q, x
  <2> DEFINE r == 4 * w
  <2>1. r \in 0 .. p - 1
    BY <1>1
  <2> HIDE DEF r
  <2>2. (p * q + r) \div p = q /\ (p * q + r) % p = r
    BY <1>1, <1>2, <2>1, DivModUnique
  <2> QED
    BY <1>3, <2>2 DEF r
<1>5. (x \div 4) % k = w
  <2> DEFINE y == k * q + w
  <2>1. x = 4 * y /\ y \in Nat
    <3>1. p * q = 4 * (k * q) /\ k * q \in Nat
      BY <1>2
    <3> HIDE DEF p, q, x
    <3> DEFINE z == k * q
    <3>2. z \in Nat /\ x = 4 * z + 4 * w
      BY <1>3, <3>1
    <3> HIDE DEF z
    <3>3. x = 4 * (z + w) /\ z + w \in Nat
      BY <3>2
    <3> QED
      BY <3>3 DEF z
  <2>2. x \div 4 = y
    <3> HIDE DEF x, y
    <3> QED
      BY <2>1
  <2>3. y % k = w
    <3> HIDE DEF q
    <3> QED
      BY <1>2, DivModUnique
  <2> QED
    BY <2>2, <2>3
<1>6. x \in Nat
  <2> HIDE DEF p, q, x
  <2> QED
    BY <1>1, <1>3
<1>7. WordOfBlock(a, k, w) = x
  BY DEF WordOfBlock
<1> HIDE DEF x
<1> QED
  BY <1>4, <1>5, <1>6, <1>7 DEF p, q

\* The word an address is in.
LEMMA WordOfAddress ==
  ASSUME NEW a \in Nat, NEW k \in Nat \ {0}
  PROVE  /\ (a \div 4) % k \in 0 .. k - 1
         /\ a - (a % (4 * k)) + 4 * ((a \div 4) % k) = a - (a % 4)
<1> DEFINE p == 4 * k
           q == a \div p
           r == a % p
           v == r \div 4
<1>1. p \in Nat \ {0}
  OBVIOUS
<1>2. a = p * q + r /\ r \in 0 .. p - 1 /\ q \in Nat
  <2> HIDE DEF p
  <2> QED
    BY <1>1, DivMod
<1>3. v \in 0 .. k - 1 /\ r = 4 * v + (r % 4) /\ r % 4 \in 0 .. 3
  <2> HIDE DEF r, q
  <2> QED
    BY <1>2
<1>4. p * q = 4 * (k * q) /\ k * q \in Nat
  <2> HIDE DEF r, q
  <2> QED
    BY <1>2
<1> DEFINE z == k * q
<1>5. a = 4 * (z + v) + (r % 4) /\ z \in Nat
  <2> HIDE DEF p, q, r, v
  <2> DEFINE u == r % 4
             x == p * q
  <2>1. a = x + r /\ x = 4 * z /\ r = 4 * v + u /\ z \in Nat /\ u \in 0 .. 3 /\ v \in 0 .. k - 1
    BY <1>2, <1>3, <1>4
  <2> HIDE DEF u, x, z
  <2>2. a = 4 * (z + v) + u
    BY <2>1
  <2> QED
    BY <2>1, <2>2 DEF u
<1>6. a \div 4 = z + v /\ a % 4 = r % 4
  <2> DEFINE y == z + v
             u == r % 4
  <2>1. a = 4 * y + u /\ y \in Nat /\ u \in 0 .. 3
    BY <1>3, <1>5
  <2> HIDE DEF y, u
  <2>2. a \div 4 = y /\ a % 4 = u
    BY <2>1
  <2> QED
    BY <2>2 DEF y, u
<1>7. (z + v) % k = v
  <2> HIDE DEF q, r, v, p
  <2> QED
    BY <1>2, <1>3, DivModUnique
<1>8. a - r + 4 * v = a - (r % 4)
  <2> HIDE DEF p, q, r, v
  <2> QED
    BY <1>2, <1>3
<1> QED
  BY <1>3, <1>6, <1>7, <1>8 DEF r, p

\* Blocks begin at different addresses.
LEMMA FirstAddressIdentifies ==
  ASSUME NEW a \in Nat, NEW b \in Nat, NEW p \in Nat \ {0}
  PROVE  a - (a % p) = b - (b % p) <=> a \div p = b \div p
<1> DEFINE i == a \div p
           j == b \div p
<1>1. i \in Nat /\ j \in Nat
  BY DivMod
<1>2. a - (a % p) = p * i /\ b - (b % p) = p * j
  <2>1. a = p * i + (a % p) /\ a % p \in Nat
    BY DivMod
  <2>2. b = p * j + (b % p) /\ b % p \in Nat
    BY DivMod
  <2> HIDE DEF i, j
  <2>3. p * i \in Nat /\ p * j \in Nat
    BY <1>1
  <2> QED
    BY <2>1, <2>2, <2>3
<1> HIDE DEF i, j
<1>3. p * i = p * j <=> i = j
  BY <1>1
<1>4. a \div p = i /\ b \div p = j
  BY DEF i, j
<1> QED
  BY <1>2, <1>3, <1>4

\* What the set, the tag and the word of an address say of it, in any cache.
LEMMA AddressParts ==
  ASSUME NEW cache \in Geometries, NEW a \in Nat, NEW b \in Nat
  PROVE  /\ decode_address(a, cache) = decode_address(b, cache)
              <=> traverse_block(a, cache, 0) = traverse_block(b, cache, 0)
         /\ decode_address(traverse_block(a, cache, 0), cache) = decode_address(a, cache)
         /\ \A w \in 0 .. cache.block_size \div 4 - 1 :
              /\ get_offset_in_block(traverse_block(a, cache, w), cache) = w
              /\ traverse_block(traverse_block(a, cache, w), cache, 0)
                   = traverse_block(a, cache, 0)
         /\ traverse_block(a, cache, get_offset_in_block(a, cache)) = a - (a % 4)
         /\ SetCount(cache) = 2^SetBits(cache) =>
              decode_address(a, cache).set = (a \div cache.block_size) % SetCount(cache)
<1>1. PICK k, p, s \in Nat \ {0} :
           /\ cache.block_size = p /\ p = 4 * k
           /\ cache.block_size \div 4 = k
           /\ s = 2^SetBits(cache)
           /\ \A y \in Nat :
                decode_address(y, cache) = [set |-> (y \div p) % s, tag |-> (y \div p) \div s]
           /\ \A y, w : traverse_block(y, cache, w) = y - (y % p) + 4 * w
           /\ \A y : get_offset_in_block(y, cache) = (y \div 4) % k
  BY CutUp
<1>2. p \in Nat \ {0} /\ s \in Nat \ {0} /\ p = 4 * k /\ 0 \in 0 .. k - 1
  BY <1>1
<1>3. /\ \A y \in Nat :
           decode_address(y, cache) = [set |-> (y \div p) % s, tag |-> (y \div p) \div s]
      /\ \A y, w : traverse_block(y, cache, w) = y - (y % p) + 4 * w
      /\ \A y : get_offset_in_block(y, cache) = (y \div 4) % k
      /\ \A y \in Nat : SetCount(cache) = 2^SetBits(cache) =>
           decode_address(y, cache).set = (y \div cache.block_size) % SetCount(cache)
  BY <1>1
<1>4. \A w \in 0 .. k - 1 : \A x : x = a - (a % p) + 4 * w =>
        x \in Nat /\ x \div p = a \div p /\ x % p = 4 * w /\ (x \div 4) % k = w
  <2> SUFFICES ASSUME NEW w \in 0 .. k - 1, NEW x, x = WordOfBlock(a, k, w)
               PROVE  x \in Nat /\ x \div p = a \div p /\ x % p = 4 * w /\ (x \div 4) % k = w
    BY <1>2 DEF WordOfBlock
  <2>1. /\ x \in Nat
        /\ x \div (4 * k) = a \div (4 * k)
        /\ x % (4 * k) = 4 * w
        /\ (x \div 4) % k = w
    BY WordInBlock
  <2> QED
    BY <1>2, <2>1
<1>5. \A x \in Nat : x - (x % p) + 4 * 0 = x - (x % p)
  BY <1>2
<1>6. \A x, y \in Nat :
        /\ decode_address(x, cache) = decode_address(y, cache) <=> x \div p = y \div p
        /\ x - (x % p) = y - (y % p) <=> x \div p = y \div p
  <2> SUFFICES ASSUME NEW x \in Nat, NEW y \in Nat
               PROVE  /\ decode_address(x, cache) = decode_address(y, cache)
                           <=> x \div p = y \div p
                      /\ x - (x % p) = y - (y % p) <=> x \div p = y \div p
    OBVIOUS
  <2>1. p \in Nat \ {0}
    BY <1>2
  <2>2. x - (x % p) = y - (y % p) <=> x \div p = y \div p
    BY <2>1, FirstAddressIdentifies, Zenon
  <2>3. decode_address(x, cache) = decode_address(y, cache) <=> x \div p = y \div p
    <3> DEFINE i == x \div p
               j == y \div p
    <3>1. i \in Nat /\ j \in Nat
      BY <1>2, DivMod
    <3>2. /\ decode_address(x, cache) = [set |-> i % s, tag |-> i \div s]
          /\ decode_address(y, cache) = [set |-> j % s, tag |-> j \div s]
      BY <1>3
    <3> HIDE DEF i, j
    <3>3. i % s = j % s /\ i \div s = j \div s => i = j
      BY <3>1, <1>2, SameDivMod
    <3>4. /\ decode_address(x, cache).set = i % s /\ decode_address(x, cache).tag = i \div s
          /\ decode_address(y, cache).set = j % s /\ decode_address(y, cache).tag = j \div s
      BY <3>2
    <3>5. decode_address(x, cache) = decode_address(y, cache) => i = j
      BY <3>3, <3>4
    <3>6. i = j => decode_address(x, cache) = decode_address(y, cache)
      BY <3>2
    <3> QED
      BY <3>5, <3>6 DEF i, j
  <2> QED
    BY <2>2, <2>3
<1>7. decode_address(a, cache) = decode_address(b, cache)
        <=> traverse_block(a, cache, 0) = traverse_block(b, cache, 0)
  <2>1. /\ traverse_block(a, cache, 0) = a - (a % p)
        /\ traverse_block(b, cache, 0) = b - (b % p)
    BY <1>3, <1>5
  <2> QED
    BY <2>1, <1>6
<1>8. ASSUME NEW w \in 0 .. k - 1
      PROVE  /\ get_offset_in_block(traverse_block(a, cache, w), cache) = w
             /\ traverse_block(traverse_block(a, cache, w), cache, 0)
                  = traverse_block(a, cache, 0)
             /\ decode_address(traverse_block(a, cache, w), cache) = decode_address(a, cache)
  <2> DEFINE x == traverse_block(a, cache, w)
  <2>0. x = a - (a % p) + 4 * w
    BY <1>3
  <2>1. x \in Nat /\ x \div p = a \div p /\ (x \div 4) % k = w
    <3> HIDE DEF x
    <3> QED
      BY <1>4, <2>0
  <2>2. get_offset_in_block(x, cache) = w
    BY <2>1, <1>3
  <2> HIDE DEF x
  <2>3. decode_address(x, cache) = decode_address(a, cache) /\ x - (x % p) = a - (a % p)
    BY <2>1, <1>6
  <2>4. /\ traverse_block(x, cache, 0) = x - (x % p)
        /\ traverse_block(a, cache, 0) = a - (a % p)
    BY <2>1, <1>3, <1>5
  <2> QED
    BY <2>2, <2>3, <2>4 DEF x
<1>9. traverse_block(a, cache, get_offset_in_block(a, cache)) = a - (a % 4)
  <2> DEFINE o == (a \div 4) % k
  <2>1. a - (a % p) + 4 * o = a - (a % 4)
    BY <1>2, WordOfAddress
  <2>2. get_offset_in_block(a, cache) = o
    BY <1>3
  <2> HIDE DEF o
  <2>3. traverse_block(a, cache, o) = a - (a % p) + 4 * o
    BY <1>3
  <2> QED
    BY <2>1, <2>2, <2>3
<1>10. cache.block_size \div 4 - 1 = k - 1
  BY <1>1
<1>11. SetCount(cache) = 2^SetBits(cache) =>
         decode_address(a, cache).set = (a \div cache.block_size) % SetCount(cache)
  BY <1>3
<1> QED
  BY <1>2, <1>7, <1>8, <1>9, <1>10, <1>11

\* The row and the bank of the words of a block, and the address that is probed for.
LEMMA RowAndBank ==
  ASSUME NEW a \in Nat
  PROVE  LET Word(w) == traverse_block(a, L2Cache, w)
         IN  /\ \A w \in 0 .. 7 : /\ get_row(Word(w)) = (a \div 32) \div 2048
                                  /\ get_bank(Word(w)) = (a \div 32) % 8
             /\ get_bank(Word(0) + 32) = (get_bank(Word(0)) + 1) % 8
             /\ ProbeAddress(a) = Word(7)
<1>1. WordBits(L2Cache) = 3
  <2>1. L2Cache.block_size \div 4 = 8 /\ 3 \in 0 .. 31
    BY DEF L2Cache
  <2>2. CeilLog2(2^3) = 3
    BY <2>1, LogOfPower
  <2>3. 2^3 = 8
    BY PowersOfTwo
  <2> QED
    BY <2>1, <2>2, <2>3 DEF WordBits
<1>2. 2^(WordBits(L2Cache) + 2) = 32
  BY <1>1, PowersOfTwo
<1>4. \A w : traverse_block(a, L2Cache, w) = a - (a % 32) + 4 * w
  BY <1>2 DEF traverse_block
<1> DEFINE b == a \div 32
<1>5. b \in Nat /\ a - (a % 32) = 32 * b
  OBVIOUS
<1>6. 2^16 = 65536
  BY PowersOfTwo
<1>7. ASSUME NEW w \in 0 .. 7
      PROVE  /\ (32 * b + 4 * w) \div 65536 = b \div 2048
             /\ (32 * b + 4 * w) \div 32 = b
  <2> HIDE DEF b
  <2> DEFINE x == 32 * b + 4 * w
  <2>1. x \in Nat /\ x \div 32 = b
    BY <1>5
  <2>2. x \div (32 * 2048) = (x \div 32) \div 2048
    <3> HIDE DEF x
    <3> QED
      BY <2>1, DivDiv
  <2> QED
    BY <2>1, <2>2
<1> DEFINE Word(w) == traverse_block(a, L2Cache, w)
<1>8. \A w \in 0 .. 7 : Word(w) = 32 * b + 4 * w
  BY <1>4, <1>5
<1> HIDE DEF Word, b
<1>9. ASSUME NEW w \in 0 .. 7
      PROVE  get_row(Word(w)) = b \div 2048 /\ get_bank(Word(w)) = b % 8
  BY <1>6, <1>7, <1>8 DEF get_row, get_bank
<1>10. get_bank(Word(0) + 32) = (get_bank(Word(0)) + 1) % 8
  <2>1. Word(0) + 32 = 32 * (b + 1)
    BY <1>5, <1>8
  <2>2. get_bank(Word(0) + 32) = (b + 1) % 8
    BY <1>5, <2>1 DEF get_bank
  <2> QED
    BY <1>5, <1>9, <2>2
<1>11. ProbeAddress(a) = Word(7)
  BY <1>5, <1>8 DEF ProbeAddress
<1>12. b = a \div 32
  BY DEF b
<1> QED
  BY <1>9, <1>10, <1>11, <1>12 DEF Word

\* An input stays.
LEMMA InputsStay == UnitsSpec => [](input \in Inputs)
<1>1. input \in Inputs /\ [UnitsNext]_input => (input \in Inputs)'
  BY DEF UnitsNext
<1> QED
  BY <1>1, PTL DEF UnitsSpec, UnitsInit

\* Set and tag identify a block in any cache whose blocks are a power of two of words,
\* and the word of an address is where read_block_from_memory reads it, at any address.
THEOREM AddressesDecode == UnitsSpec => []AddressesAreBlockAndWord
<1>1. input \in Inputs => AddressesAreBlockAndWord
  <2> SUFFICES ASSUME input \in Inputs, input.unit = "cache", NEW cache \in Geometries
               PROVE  AddressesAreBlockAndWord!2!(cache)
    BY DEF AddressesAreBlockAndWord
  <2>1. input.a \in Nat /\ input.b \in Nat
    BY GeometryAssumption DEF Inputs
  <2> QED
    BY <2>1, AddressParts
<1> QED
  BY <1>1, InputsStay, PTL

\* The words that transfer_mem_hier requests of a block are in one row of one bank, the
\* next block is in another bank, and the pipeline waits for the last of the words, at
\* any address.
THEOREM RowsHoldBlocks == UnitsSpec => []BlocksAreInOneRow
<1>1. input \in Inputs => BlocksAreInOneRow
  <2> SUFFICES ASSUME input \in Inputs, input.unit = "cache" PROVE BlocksAreInOneRow!2
    BY DEF BlocksAreInOneRow
  <2>1. input.a \in Nat
    BY GeometryAssumption DEF Inputs
  <2> QED
    BY <2>1, RowAndBank
<1> QED
  BY <1>1, InputsStay, PTL

-----------------------------------------------------------------------------
(* Words with and without signs.                                           *)

\* A word has H values on either side of its sign.
LEMMA WordSize ==
  \E H \in Nat \ {0} :
    /\ H >= 2
    /\ Size = 2 * H
    /\ Size \div 2 = H
    /\ 2^(Bits - 1) = H
    /\ WordValues = 0 .. 2 * H - 1
    /\ \A v : Signed(v) = IF v >= H THEN v - 2 * H ELSE v
<1> DEFINE n == Bits - 1
           m == Bits - 2
           H == 2^n
<1>1. n \in 0 .. 31 /\ n + 1 = Bits /\ m \in 0 .. 31 /\ m + 1 = n
  BY ArithmeticAssumption
<1> HIDE DEF n, m
<1>2. 2^(n + 1) = 2 * H /\ H \in Nat \ {0}
  BY <1>1, PowerGrows
<1>3. 2^(m + 1) = 2 * 2^m /\ 2^m \in Nat \ {0}
  BY <1>1, PowerGrows
<1>4. H >= 2
  BY <1>1, <1>3
<1>5. Size = 2 * H
  BY <1>1, <1>2 DEF Size
<1>6. 2^(Bits - 1) = H
  BY DEF n
<1> HIDE DEF H
<1>7. Size \div 2 = H
  BY <1>2, <1>5
<1>8. WordValues = 0 .. 2 * H - 1
  BY <1>5 DEF WordValues
<1>9. \A v : Signed(v) = IF v >= H THEN v - 2 * H ELSE v
  BY <1>5, <1>7 DEF Signed
<1> QED
  BY <1>2, <1>4, <1>5, <1>6, <1>7, <1>8, <1>9

\* Comparisons and branches by the bit of the sign, and sums.
LEMMA Comparisons ==
  ASSUME NEW a \in WordValues, NEW b \in WordValues, NEW imm
  PROVE  LET C(fn) == Calculated(fn, a, b, imm)
         IN  /\ C("slt") = IF SignBit(a) = SignBit(b) THEN C("sltu") ELSE SignBit(a)
             /\ Branches("bltz", a, b) <=> SignBit(a) = 1
             /\ Branches("blez", a, b) <=> ~Branches("bgtz", a, b)
             /\ Branches("bgtz", a, b) <=> (SignBit(a) = 0 /\ a # 0)
             /\ Calculated("sub", C("add"), b, 0) = a
<1>1. PICK H \in Nat \ {0} :
        /\ H >= 2
        /\ Size = 2 * H
        /\ Size \div 2 = H
        /\ 2^(Bits - 1) = H
        /\ WordValues = 0 .. 2 * H - 1
        /\ \A v : Signed(v) = IF v >= H THEN v - 2 * H ELSE v
  BY WordSize
<1>2. \A v \in WordValues : SignBit(v) = IF v >= H THEN 1 ELSE 0
  <2> SUFFICES ASSUME NEW v \in WordValues PROVE SignBit(v) = IF v >= H THEN 1 ELSE 0
    OBVIOUS
  <2>1. v \in Nat /\ v < 2 * H
    BY <1>1
  <2>2. SignBit(v) = (v \div H) % 2
    BY <1>1 DEF SignBit, Bit
  <2>3. CASE v >= H
    <3>1. v \div H = 1
      <4> DEFINE r == v - H
      <4>1. r \in 0 .. H - 1 /\ v = H * 1 + r
        BY <2>1, <2>3
      <4> HIDE DEF r
      <4> QED
        BY <4>1, DivModUnique
    <3> QED
      BY <2>2, <2>3, <3>1
  <2>4. CASE v < H
    <3>1. v \div H = 0
      BY <2>1, <2>4
    <3> QED
      BY <2>1, <2>2, <2>4, <3>1
  <2> QED
    BY <2>1, <2>3, <2>4
<1>3. a \in Nat /\ a < 2 * H /\ b \in Nat /\ b < 2 * H
  BY <1>1
<1>4. /\ SignBit(a) = IF a >= H THEN 1 ELSE 0
      /\ SignBit(b) = IF b >= H THEN 1 ELSE 0
      /\ Signed(a) = IF a >= H THEN a - 2 * H ELSE a
      /\ Signed(b) = IF b >= H THEN b - 2 * H ELSE b
  BY <1>1, <1>2
<1>5. Calculated("slt", a, b, imm) = IF Signed(a) < Signed(b) THEN 1 ELSE 0
  BY DEF Calculated, AsBit
<1>6. Calculated("sltu", a, b, imm) = IF a < b THEN 1 ELSE 0
  BY DEF Calculated, AsBit
<1>7. /\ Branches("bltz", a, b) <=> Signed(a) < 0
      /\ Branches("blez", a, b) <=> Signed(a) <= 0
      /\ Branches("bgtz", a, b) <=> Signed(a) > 0
  BY DEF Branches
<1>8. Calculated("slt", a, b, imm)
        = IF SignBit(a) = SignBit(b) THEN Calculated("sltu", a, b, imm) ELSE SignBit(a)
  BY <1>3, <1>4, <1>5, <1>6
<1>9. /\ Branches("bltz", a, b) <=> SignBit(a) = 1
      /\ Branches("blez", a, b) <=> ~Branches("bgtz", a, b)
      /\ Branches("bgtz", a, b) <=> (SignBit(a) = 0 /\ a # 0)
  BY <1>1, <1>3, <1>4, <1>7
<1>10. Calculated("sub", Calculated("add", a, b, imm), b, 0) = a
  <2>1. Calculated("add", a, b, imm) = (a + b) % Size
    BY DEF Calculated
  <2>2. \A x : Calculated("sub", x, b, 0) = (x - b) % Size
    BY DEF Calculated
  <2>3. (((a + b) % Size) - b) % Size = a
    <3>1. CASE a + b < Size
      <4>1. (a + b) % Size = a + b
        BY <1>1, <1>3, <3>1
      <4> QED
        BY <1>1, <1>3, <4>1
    <3>2. CASE a + b >= Size
      <4> DEFINE r == a + b - Size
      <4>1. r \in 0 .. Size - 1 /\ a + b = Size * 1 + r /\ Size \in Nat \ {0}
        BY <1>1, <1>3, <3>2
      <4> HIDE DEF r
      <4>2. (a + b) % Size = r
        <5>1. (Size * 1 + r) % Size = r
          BY <4>1, DivModUnique
        <5> QED
          BY <4>1, <5>1
      <4>3. r - b = a - Size
        BY <1>1, <1>3 DEF r
      <4>4. (a - Size) % Size = a
        BY <1>1, <1>3
      <4> QED
        BY <4>2, <4>3, <4>4
    <3> QED
      BY <1>1, <1>3, <3>1, <3>2
  <2> QED
    BY <2>1, <2>2, <2>3
<1> QED
  BY <1>8, <1>9, <1>10

\* The signs and the comparisons agree, and subtraction undoes addition, for words of any
\* width that pipe_stage_execute could have.
THEOREM ComparisonsAgree == UnitsSpec => []SignsAgree
<1>1. input \in Inputs => SignsAgree
  <2> SUFFICES ASSUME input \in Inputs, input.unit = "execute" PROVE SignsAgree!2
    BY DEF SignsAgree
  <2>1. input.a \in WordValues /\ input.b \in WordValues
    BY DEF Inputs
  <2> QED
    BY <2>1, Comparisons
<1> QED
  BY <1>1, InputsStay, PTL

\* The two halves of a number of two words.
LEMMA TwoWords ==
  ASSUME NEW x \in Int, NEW p \in Nat \ {0}
  PROVE  ((x \div p) % p) * p + (x % p) = x % (p * p)
<1> DEFINE y == x \div p
           r == x % p
           q == y \div p
           s == y % p
           t == p * s + r
<1>1. x = p * y + r /\ r \in 0 .. p - 1 /\ y \in Int
  BY IntDivMod
<1>2. y = p * q + s /\ s \in 0 .. p - 1 /\ q \in Int
  <2> HIDE DEF y
  <2> QED
    BY <1>1, IntDivMod
<1> HIDE DEF y, r, q, s
<1>3. p * p \in Nat \ {0} /\ p * q \in Int /\ p * s \in Nat
  BY <1>2
<1>4. p * y = p * (p * q) + p * s
  BY <1>2, <1>3
<1>5. p * (p * q) = (p * p) * q
  BY <1>2
<1>6. t \in 0 .. p * p - 1
  <2>1. p * s <= p * (p - 1)
    BY <1>2
  <2>2. p * (p - 1) = p * p - p
    OBVIOUS
  <2> QED
    BY <1>1, <1>3, <2>1, <2>2
<1>7. x = (p * p) * q + t
  <2>1. (p * p) * q \in Int
    BY <1>2, <1>3
  <2>2. p * (p * q) \in Int /\ p * y \in Int
    BY <1>1, <1>3
  <2> DEFINE u == p * (p * q)
             v == p * s
             w == p * y
  <2>3. u \in Int /\ v \in Int /\ r \in Int /\ x = w + r /\ w = u + v /\ t = v + r
    BY <1>1, <1>3, <1>4, <2>2
  <2>4. u = (p * p) * q
    BY <1>5
  <2> HIDE DEF u, v, w, t
  <2>5. x = u + t
    BY <2>3
  <2> QED
    BY <2>4, <2>5
<1>8. x % (p * p) = t
  <2> DEFINE d == p * p
  <2>1. d \in Nat \ {0} /\ t \in 0 .. d - 1 /\ x = d * q + t
    BY <1>3, <1>6, <1>7
  <2> HIDE DEF d, t
  <2>2. x % d = t
    BY <1>2, <2>1, IntDivModUnique
  <2> QED
    BY <2>2 DEF d
<1>9. s * p = p * s
  BY <1>2
<1> QED
  BY <1>8, <1>9 DEF y, r, s

\* What HI and LO hold of a product.
LEMMA Products ==
  ASSUME NEW a \in WordValues, NEW b \in WordValues
  PROVE  LET M(fn) == Multiplied(fn, a, b)
         IN  /\ M("mult").hi * Size + M("mult").lo = (Signed(a) * Signed(b)) % (Size * Size)
             /\ M("multu").hi * Size + M("multu").lo = a * b
<1>1. PICK H \in Nat \ {0} :
        /\ H >= 2
        /\ Size = 2 * H
        /\ Size \div 2 = H
        /\ 2^(Bits - 1) = H
        /\ WordValues = 0 .. 2 * H - 1
        /\ \A v : Signed(v) = IF v >= H THEN v - 2 * H ELSE v
  BY WordSize
<1>2. Size \in Nat \ {0} /\ a \in 0 .. Size - 1 /\ b \in 0 .. Size - 1
  BY <1>1
<1>3. Signed(a) \in Int /\ Signed(b) \in Int
  BY <1>1, <1>2
<1>4. ASSUME NEW p \in Int
      PROVE  Pair(p \div Size, p).hi * Size + Pair(p \div Size, p).lo = p % (Size * Size)
  <2>1. Pair(p \div Size, p).hi = (p \div Size) % Size /\ Pair(p \div Size, p).lo = p % Size
    BY DEF Pair
  <2> QED
    BY <1>2, <2>1, TwoWords
<1>5. Multiplied("mult", a, b) = Pair((Signed(a) * Signed(b)) \div Size, Signed(a) * Signed(b))
  BY DEF Multiplied
<1>6. Multiplied("multu", a, b) = Pair((a * b) \div Size, a * b)
  BY DEF Multiplied
<1>7. (a * b) % (Size * Size) = a * b
  <2> DEFINE S == Size
  <2>1. S \in Nat \ {0} /\ a \in 0 .. S - 1 /\ b \in 0 .. S - 1
    BY <1>2
  <2> HIDE DEF S
  <2>2. a * b <= (S - 1) * b /\ (S - 1) * b <= (S - 1) * (S - 1) /\ a * b \in Nat
    BY <2>1
  <2>3. (S - 1) * (S - 1) < S * S
    BY <2>1
  <2> DEFINE p == a * b
             d == S * S
  <2>4. p \in Nat /\ d \in Nat \ {0} /\ p < d
    BY <2>1, <2>2, <2>3
  <2> HIDE DEF p, d
  <2>5. p % d = p
    BY <2>4
  <2> QED
    BY <2>5 DEF p, d, S
<1>8. Signed(a) * Signed(b) \in Int /\ a * b \in Int
  BY <1>2, <1>3
<1> QED
  BY <1>4, <1>5, <1>6, <1>7, <1>8

\* What HI and LO hold of a quotient: HI the remainder, LO the quotient.
LEMMA Quotients ==
  ASSUME NEW a \in WordValues, NEW b \in WordValues, b # 0
  PROVE  LET M(fn) == Multiplied(fn, a, b)
             q == Signed(M("div").lo)
             r == Signed(M("div").hi)
         IN  /\ M("divu").lo * b + M("divu").hi = a
             /\ M("divu").hi < b
             /\ ~(a = Size \div 2 /\ b = Size - 1) =>
                  /\ q * Signed(b) + r = Signed(a)
                  /\ Magnitude(r) < Magnitude(Signed(b))
                  /\ r # 0 => (r < 0 <=> Signed(a) < 0)
<1>1. PICK H \in Nat \ {0} :
        /\ H >= 2
        /\ Size = 2 * H
        /\ Size \div 2 = H
        /\ 2^(Bits - 1) = H
        /\ WordValues = 0 .. 2 * H - 1
        /\ \A v : Signed(v) = IF v >= H THEN v - 2 * H ELSE v
  BY WordSize
<1>2. a \in 0 .. 2 * H - 1 /\ b \in 1 .. 2 * H - 1
  BY <1>1
<1>3. \A x, y : Pair(x, y).hi = x % Size /\ Pair(x, y).lo = y % Size
  BY DEF Pair
\* The value of a word that holds a number with a sign.
<1>4. ASSUME NEW n \in -H .. H - 1
      PROVE  Signed(n % Size) = n
  <2>1. CASE n >= 0
    <3>1. n % (2 * H) = n
      BY <2>1
    <3> QED
      BY <1>1, <2>1, <3>1
  <2>2. CASE n < 0
    <3> DEFINE m == n + 2 * H
               S == 2 * H
    <3>1. m \in 0 .. S - 1 /\ n = S * (-1) + m /\ S \in Nat \ {0} /\ m >= H /\ m - S = n
      BY <2>2
    <3> HIDE DEF m, S
    <3>2. n % S = m
      BY <3>1, IntDivModUnique
    <3> QED
      BY <1>1, <3>1, <3>2 DEF S
  <2> QED
    BY <2>1, <2>2
\* Without a sign.
<1>5. /\ Multiplied("divu", a, b).lo * b + Multiplied("divu", a, b).hi = a
      /\ Multiplied("divu", a, b).hi < b
  <2> DEFINE q == a \div b
             r == a % b
  <2>1. Multiplied("divu", a, b) = Pair(r, q)
    BY DEF Multiplied
  <2>2. a = b * q + r /\ r \in 0 .. b - 1 /\ q \in Nat
    <3>1. a \in Nat /\ b \in Nat \ {0}
      BY <1>2
    <3> QED
      BY <3>1, DivMod
  <2> HIDE DEF q, r
  <2>3. q <= b * q /\ b * q = q * b /\ b * q \in Nat
    BY <1>2, <2>2
  <2>4. q % Size = q /\ r % Size = r
    BY <1>1, <1>2, <2>2, <2>3
  <2> QED
    BY <1>3, <2>1, <2>2, <2>3, <2>4
\* With a sign.
<1>6. ASSUME ~(a = Size \div 2 /\ b = Size - 1)
      PROVE  LET q == Signed(Multiplied("div", a, b).lo)
                 r == Signed(Multiplied("div", a, b).hi)
             IN  /\ q * Signed(b) + r = Signed(a)
                 /\ Magnitude(r) < Magnitude(Signed(b))
                 /\ r # 0 => (r < 0 <=> Signed(a) < 0)
  <2> DEFINE m == Signed(a)
             n == Signed(b)
             q == Quotient(m, n)
             r == Remainder(m, n)
             c == Magnitude(m)
             d == Magnitude(n)
             e == c \div d
             f == c % d
  <2>1. Multiplied("div", a, b) = Pair(r, q)
    BY DEF Multiplied
  <2>2. /\ m \in -H .. H - 1 /\ n \in -H .. H - 1 /\ n # 0
        /\ ~(m = -H /\ n = -1)
    BY <1>1, <1>2, <1>6
  <2> HIDE DEF m, n
  <2>3. /\ c \in 0 .. H /\ d \in 1 .. H
        /\ c = IF m < 0 THEN -m ELSE m
        /\ d = IF n < 0 THEN -n ELSE n
    BY <2>2 DEF Magnitude
  <2>4. q = IF (m < 0) = (n < 0) THEN e ELSE -e
    BY DEF Quotient
  <2>5. r = m - n * q
    BY DEF Remainder
  <2> HIDE DEF q, r, c, d
  <2>6. c = d * e + f /\ f \in 0 .. d - 1 /\ e \in Nat
    <3>1. c \in Nat /\ d \in Nat \ {0}
      BY <2>3
    <3> QED
      BY <3>1, DivMod
  <2> HIDE DEF e, f
  <2>7. /\ n * q = IF m < 0 THEN -(d * e) ELSE d * e
        /\ q * n = n * q
        /\ d * e \in Nat
    <3>1. CASE (m < 0) = (n < 0)
      <4>1. n * q = IF n < 0 THEN -(d * e) ELSE d * e
        BY <2>2, <2>3, <2>4, <2>6, <3>1
      <4> QED
        BY <2>2, <2>3, <2>4, <2>6, <3>1, <4>1
    <3>2. CASE (m < 0) # (n < 0)
      <4>1. n * q = IF n < 0 THEN d * e ELSE -(d * e)
        BY <2>2, <2>3, <2>4, <2>6, <3>2
      <4> QED
        BY <2>2, <2>3, <2>4, <2>6, <3>2, <4>1
    <3> QED
      BY <3>1, <3>2
  <2>8. r = IF m < 0 THEN -f ELSE f
    BY <2>2, <2>3, <2>5, <2>6, <2>7
  <2>9. r \in -H .. H - 1
    BY <2>2, <2>3, <2>6, <2>8
  <2>10. q \in -H .. H - 1
    <3>1. e <= d * e /\ (d >= 2 => 2 * e <= d * e)
      BY <2>3, <2>6
    <3>2. e <= H
      BY <2>3, <2>6, <2>7, <3>1
    <3>3. CASE e < H
      BY <2>4, <2>6, <3>3
    <3>4. CASE e = H
      <4>1. d * e = H /\ c = H /\ d < 2
        <5> DEFINE x == d * e
        <5>1. x \in Nat /\ c = x + f /\ e <= x /\ (d >= 2 => 2 * e <= x)
          BY <2>6, <2>7, <3>1
        <5> HIDE DEF x
        <5>2. x = H /\ c = H /\ d < 2
          BY <1>1, <2>3, <2>6, <3>4, <5>1
        <5> QED
          BY <5>2 DEF x
      <4>2. m = -H /\ d = 1 /\ n = 1
        BY <2>2, <2>3, <4>1
      <4> QED
        BY <2>4, <3>4, <4>2
    <3> QED
      BY <2>6, <3>2, <3>3, <3>4
  <2>11. Signed(Multiplied("div", a, b).lo) = q /\ Signed(Multiplied("div", a, b).hi) = r
    BY <1>3, <1>4, <2>1, <2>9, <2>10
  <2>12. q * n + r = m
    BY <2>2, <2>5, <2>7
  <2>13. Magnitude(r) = f
    BY <2>6, <2>8 DEF Magnitude
  <2>14. r # 0 => (r < 0 <=> m < 0)
    BY <2>2, <2>6, <2>8
  <2>15. f < d
    BY <2>3, <2>6
  <2> QED
    BY <2>11, <2>12, <2>13, <2>14, <2>15 DEF m, n, d
<1> QED
  BY <1>5, <1>6

\* A product is in HI and LO as a whole and a quotient with its remainder, for words of any
\* width: the int64_t and the casts of pipe_stage_execute lose nothing.
THEOREM ProductsHold == UnitsSpec => []ProductsAndQuotients
<1>1. input \in Inputs => ProductsAndQuotients
  <2> SUFFICES ASSUME input \in Inputs, input.unit = "execute" PROVE ProductsAndQuotients!2
    BY DEF ProductsAndQuotients
  <2>1. input.a \in WordValues /\ input.b \in WordValues
    BY DEF Inputs
  <2> QED
    BY <2>1, Products, Quotients
<1> QED
  BY <1>1, InputsStay, PTL

-----------------------------------------------------------------------------
(* Bits, bytes and halves.                                                 *)

\* The lowest bits of a number keep their places in its remainder by a power of two.
LEMMA BitsOfRemainder ==
  ASSUME NEW v \in Nat, NEW n \in 0 .. 32, NEW i \in Nat, i < n
  PROVE  Bit(v % 2^n, i) = Bit(v, i)
<1> DEFINE j == n - i - 1
           P == 2^i
           Q == 2^j
           R == 2^n
<1>1. j \in 0 .. 31 /\ i \in 0 .. 31 /\ j + 1 = n - i /\ n = i + (j + 1) /\ j + 1 \in Nat
  OBVIOUS
<1> HIDE DEF j
<1>2. 2^(j + 1) = 2 * Q /\ Q \in Nat \ {0}
  BY <1>1, PowerGrows
<1>3. P \in Nat \ {0}
  BY <1>1, PowerGrows
<1>4. R = P * (2 * Q)
  <2>1. 2^(i + (j + 1)) = 2^i * 2^(j + 1)
    BY <1>1, PowersMultiply
  <2> QED
    BY <1>1, <1>2, <2>1
<1>5. Bit(v % R, i) = ((v % R) \div P) % 2 /\ Bit(v, i) = (v \div P) % 2
  BY DEF Bit
<1> HIDE DEF P, Q, R
<1> DEFINE q == v \div R
           r == v % R
           s == r \div P
           t == r % P
<1>6. v = R * q + r /\ q \in Nat /\ r \in Nat
  <2>1. R \in Nat \ {0}
    BY <1>2, <1>3, <1>4
  <2> QED
    BY <2>1, DivMod
<1>7. r = P * s + t /\ s \in Nat /\ t \in 0 .. P - 1
  <2> HIDE DEF r
  <2> QED
    BY <1>3, <1>6, DivMod
<1> HIDE DEF q, r, s, t
<1> DEFINE u == 2 * (Q * q) + s
<1>8. v = P * u + t /\ u \in Nat
  <2>1. R * q = P * (2 * (Q * q)) /\ Q * q \in Nat
    BY <1>2, <1>3, <1>4, <1>6
  <2> DEFINE w == 2 * (Q * q)
  <2>2. w \in Nat /\ R * q = P * w
    BY <2>1
  <2> HIDE DEF w
  <2>3. P * (w + s) = P * w + P * s /\ P * w \in Nat /\ P * s \in Nat
    BY <1>3, <1>7, <2>2
  <2>4. v = P * (w + s) + t /\ w + s \in Nat
    BY <1>6, <1>7, <2>2, <2>3
  <2> QED
    BY <2>4 DEF w
<1>9. v \div P = u
  <2> HIDE DEF u
  <2> QED
    BY <1>3, <1>7, <1>8, DivModUnique
<1>10. u % 2 = s % 2
  <2> DEFINE w == Q * q
  <2>1. w \in Nat /\ u = 2 * w + s
    BY <1>2, <1>6
  <2> HIDE DEF w, u
  <2> QED
    BY <1>7, <2>1
<1> QED
  BY <1>5, <1>9, <1>10 DEF r, s, R

\* The bits of a number to which multiples of higher powers of two are added.
LEMMA BitsBelow ==
  ASSUME NEW x \in Nat, NEW i \in 0 .. 31, NEW m \in Nat
  PROVE  Bit(x + 2^i * (2 * m), i) = Bit(x, i)
<1> DEFINE P == 2^i
           q == x \div P
           r == x % P
<1>1. P \in Nat \ {0}
  BY PowerGrows
<1>2. Bit(x + P * (2 * m), i) = ((x + P * (2 * m)) \div P) % 2 /\ Bit(x, i) = q % 2
  BY DEF Bit
<1> HIDE DEF P
<1>3. x = P * q + r /\ q \in Nat /\ r \in 0 .. P - 1
  BY <1>1, DivMod
<1> HIDE DEF q, r
<1> DEFINE w == 2 * m
<1>4. w \in Nat
  OBVIOUS
<1>5. (q + w) % 2 = q % 2
  BY <1>3
<1> HIDE DEF w
<1>6. P * (q + w) = P * q + P * w /\ P * q \in Nat /\ P * w \in Nat
  BY <1>1, <1>3, <1>4
<1>7. x + P * w = P * (q + w) + r
  BY <1>3, <1>6
<1>8. (x + P * w) \div P = q + w
  BY <1>1, <1>3, <1>4, <1>7, DivModUnique
<1> QED
  BY <1>2, <1>5, <1>8 DEF w, P

\* The bits of a field of a width extended by its sign.
LEMMA BitsOfExtended ==
  ASSUME NEW n \in 1 .. 31, n < Bits, NEW x \in 0 .. 2^n - 1, NEW i \in 0 .. Bits - 1
  PROVE  Bit(Extended(x, n), i) = Bit(x, IF i < n THEN i ELSE n - 1)
<1> DEFINE l == n - 1
           P == 2^i
           H == 2^l
           N == 2^n
           S == 2^Bits
<1>0. /\ Bits \in 4 .. 32 /\ i \in 0 .. 31 /\ i \in 0 .. 32 /\ n \in 0 .. 32
      /\ l \in 0 .. 31 /\ l + 1 = n /\ Bits \in 0 .. 32
  BY ArithmeticAssumption
<1> HIDE DEF l
<1>1. N = 2 * H /\ H \in Nat \ {0}
  BY <1>0, PowerGrows
<1>2. P \in Nat \ {0} /\ S \in Nat /\ N \in Nat \ {0}
  BY <1>0, PowerPositive
<1>3. Extended(x, n) = IF x >= H THEN x + S - N ELSE x
  BY DEF Extended, Size, l
<1>4. \A v : Bit(v, i) = (v \div P) % 2 /\ Bit(v, n - 1) = (v \div H) % 2
  BY DEF Bit, l
<1>5. x \in Nat /\ x < N
  BY <1>2
<1>6. CASE i < n
  <2> DEFINE j == n - i - 1
             k == Bits - i - 1
             J == 2^j
             K == 2^k
  <2>1. /\ j \in 0 .. 31 /\ k \in 0 .. 31 /\ j < k /\ j \in 0 .. 32 /\ k \in 0 .. 32
        /\ j \in Nat /\ k \in Nat
        /\ n = (i + 1) + j /\ Bits = (i + 1) + k
        /\ i + 1 \in Nat /\ (i + 1) + j <= 32 /\ (i + 1) + k <= 32
    BY <1>0, <1>6
  <2> HIDE DEF j, k
  <2>2. 2^(i + 1) = 2 * P
    BY <1>0, PowerGrows
  <2>3. N = (2 * P) * J
    BY <2>1, <2>2, PowersMultiply
  <2>4. S = (2 * P) * K
    BY <2>1, <2>2, PowersMultiply
  <2>5. J \in Nat /\ K \in Nat /\ J < K
    <3>1. J \in Nat /\ K \in Nat
      BY <2>1, PowerPositive
    <3>2. J < K
      BY <2>1, PowersIncrease
    <3> QED
      BY <3>1, <3>2
  <2> HIDE DEF J, K, S, N, P
  <2> DEFINE m == K - J
  <2>6. S - N = P * (2 * m) /\ m \in Nat
    BY <1>2, <2>3, <2>4, <2>5
  <2> HIDE DEF m
  <2>7. P * (2 * m) \in Nat
    BY <1>2, <2>6
  <2>8. x + S - N = x + P * (2 * m)
    BY <1>2, <1>5, <2>6, <2>7
  <2>9. Bit(x + P * (2 * m), i) = Bit(x, i)
    BY <1>0, <1>5, <2>6, BitsBelow DEF P
  <2> QED
    BY <1>3, <1>6, <2>8, <2>9
<1>7. CASE i >= n
  <2> DEFINE k == Bits - i - 1
             K == 2^k
  <2>1. /\ k \in 0 .. 31 /\ k + 1 = Bits - i /\ Bits = i + (k + 1)
        /\ k + 1 \in Nat /\ i + (k + 1) <= 32 /\ i \in Nat
    BY <1>0
  <2> HIDE DEF k
  <2>2. 2^(k + 1) = 2 * K /\ K \in Nat \ {0}
    BY <2>1, PowerGrows
  <2>3. S = P * (2 * K)
    <3>1. 2^(i + (k + 1)) = P * 2^(k + 1)
      BY <2>1, PowersMultiply
    <3> QED
      BY <2>1, <2>2, <3>1
  <2>4. N <= P
    <3>1. CASE i = n
      BY <1>2, <3>1
    <3>2. CASE n < i
      <4>1. 2^n < 2^i
        BY <1>0, <3>2, PowersIncrease
      <4> QED
        BY <1>2, <4>1
    <3> QED
      BY <1>7, <3>1, <3>2
  <2> HIDE DEF P, H, N, S, K
  <2>5. CASE x < H
    <3>1. x \div P = 0 /\ x \div H = 0
      BY <1>1, <1>2, <1>5, <2>4, <2>5
    <3> QED
      BY <1>1, <1>3, <1>4, <1>5, <1>7, <2>5, <3>1
  <2>6. CASE x >= H
    <3> DEFINE q == 2 * K - 1
               r == P - N + x
    <3>1. q \in Nat /\ r \in 0 .. P - 1 /\ q % 2 = 1
      BY <1>2, <1>5, <2>2, <2>4
    <3>2. P * q = P * (2 * K) - P /\ P * (2 * K) \in Nat
      BY <1>2, <2>2
    <3>3. x + S - N = P * q + r
      BY <1>2, <1>5, <2>3, <3>2
    <3> HIDE DEF q, r
    <3>4. (x + S - N) \div P = q
      BY <1>2, <3>1, <3>3, DivModUnique
    <3>5. x \div H = 1
      <4>1. x - H \in 0 .. H - 1 /\ x = H * 1 + (x - H)
        BY <1>1, <1>5, <2>6
      <4> DEFINE y == x - H
      <4>2. y \in 0 .. H - 1 /\ x = H * 1 + y
        BY <4>1
      <4> HIDE DEF y
      <4> QED
        BY <1>1, <4>2, DivModUnique
    <3> QED
      BY <1>3, <1>4, <1>7, <2>6, <3>1, <3>4, <3>5
  <2> QED
    BY <1>1, <1>5, <2>5, <2>6
<1> QED
  BY <1>0, <1>6, <1>7

\* The number with four digits to the base B.
Number(B, w0, w1, w2, w3) == (w0 + B * w1) + (B * B) * (w2 + B * w3)

\* The digits of a number, and its halves.
LEMMA FourDigits ==
  ASSUME NEW B \in Nat \ {0},
         NEW w0 \in 0 .. B - 1, NEW w1 \in 0 .. B - 1,
         NEW w2 \in 0 .. B - 1, NEW w3 \in 0 .. B - 1,
         NEW x, x = Number(B, w0, w1, w2, w3)
  PROVE  /\ x \in Nat
         /\ x % B = w0
         /\ (x \div B) % B = w1
         /\ (x \div (B * B)) % B = w2
         /\ (x \div (B * (B * B))) % B = w3
         /\ x % (B * B) = w0 + B * w1
         /\ (x \div (B * B)) % (B * B) = w2 + B * w3
<1> DEFINE C == B * B
           h0 == w0 + B * w1
           h1 == w2 + B * w3
           y == w1 + B * h1
<1>0. x = h0 + C * h1
  BY DEF Number
<1>1. \A v \in 0 .. B - 1, w \in 0 .. B - 1 : v + B * w \in 0 .. C - 1
  <2> SUFFICES ASSUME NEW v \in 0 .. B - 1, NEW w \in 0 .. B - 1
               PROVE  v + B * w \in 0 .. C - 1
    OBVIOUS
  <2>1. B * w <= B * (B - 1) /\ B * (B - 1) = B * B - B /\ B * w \in Nat
    OBVIOUS
  <2> QED
    BY <2>1
<1>2. h0 \in 0 .. C - 1 /\ h1 \in 0 .. C - 1 /\ C \in Nat \ {0}
  BY <1>1
<1>3. h1 \div B = w3 /\ h1 % B = w2
  <2>1. (B * w3 + w2) \div B = w3 /\ (B * w3 + w2) % B = w2
    BY DivModUnique
  <2>2. h1 = B * w3 + w2
    OBVIOUS
  <2> QED
    BY <2>1, <2>2
<1> HIDE DEF h1
<1>4. y \div B = h1 /\ y % B = w1 /\ y \in Nat
  <2>1. h1 \in Nat /\ B * h1 \in Nat
    BY <1>2
  <2>2. (B * h1 + w1) \div B = h1 /\ (B * h1 + w1) % B = w1
    BY <2>1, DivModUnique
  <2>3. y = B * h1 + w1 /\ y \in Nat
    BY <2>1
  <2> HIDE DEF y
  <2> QED
    BY <2>2, <2>3
<1>5. x = B * y + w0
  <2>1. B * (w1 + B * h1) = B * w1 + B * (B * h1) /\ B * (B * h1) = C * h1
    BY <1>2
  <2>2. B * w1 \in Nat /\ C * h1 \in Nat
    BY <1>2
  <2> QED
    BY <1>0, <2>1, <2>2
<1>6. x = C * h1 + h0
  BY <1>0, <1>2
<1> HIDE DEF y, h0
<1>7. x \div B = y /\ x % B = w0 /\ x \in Nat
  <2>1. (B * y + w0) \div B = y /\ (B * y + w0) % B = w0
    BY <1>4, DivModUnique
  <2> QED
    BY <1>4, <1>5, <2>1
<1>8. x \div C = h1 /\ x % C = h0
  <2> HIDE DEF C
  <2> QED
    BY <1>2, <1>6, DivModUnique
<1>9. h1 % C = h1
  BY <1>2
<1>10. x \div (B * C) = w3
  <2>1. B * C = C * B
    BY <1>2
  <2>2. x \div (C * B) = (x \div C) \div B
    BY <1>2, <1>7, DivDiv
  <2> QED
    BY <1>3, <1>8, <2>1, <2>2
<1>11. w3 % B = w3
  OBVIOUS
<1> QED
  BY <1>2, <1>3, <1>4, <1>7, <1>8, <1>9, <1>10, <1>11 DEF h0, h1

\* Every word is made of such digits.
LEMMA DigitsExist ==
  ASSUME NEW B \in Nat \ {0}, NEW x \in 0 .. (B * B) * (B * B) - 1
  PROVE  \E w0, w1, w2, w3 \in 0 .. B - 1 : x = Number(B, w0, w1, w2, w3)
<1>1. ASSUME NEW p \in Nat \ {0}, NEW v \in 0 .. p * p - 1
      PROVE  v = (v % p) + p * (v \div p) /\ v % p \in 0 .. p - 1 /\ v \div p \in 0 .. p - 1
  <2> DEFINE q == v \div p
             r == v % p
  <2>1. v = p * q + r /\ q \in Nat /\ r \in 0 .. p - 1
    BY DivMod
  <2>2. q < p
    <3> HIDE DEF q, r
    <3> SUFFICES ASSUME q >= p PROVE FALSE
      BY <2>1
    <3>1. p * q >= p * p /\ p * q \in Nat /\ p * p \in Nat
      BY <2>1
    <3> QED
      BY <2>1, <3>1
  <2> HIDE DEF q, r
  <2>3. p * q \in Nat
    BY <2>1
  <2>4. v = r + p * q /\ r \in 0 .. p - 1 /\ q \in 0 .. p - 1
    BY <2>1, <2>2, <2>3
  <2> QED
    BY <2>4 DEF q, r
<1> DEFINE C == B * B
           h0 == x % C
           h1 == x \div C
<1>2. C \in Nat \ {0}
  OBVIOUS
<1>3. x = h0 + C * h1 /\ h0 \in 0 .. C - 1 /\ h1 \in 0 .. C - 1
  BY <1>1, <1>2
<1> HIDE DEF h0, h1
<1>4. h0 = (h0 % B) + B * (h0 \div B) /\ h0 % B \in 0 .. B - 1 /\ h0 \div B \in 0 .. B - 1
  BY <1>1, <1>3
<1>5. h1 = (h1 % B) + B * (h1 \div B) /\ h1 % B \in 0 .. B - 1 /\ h1 \div B \in 0 .. B - 1
  BY <1>1, <1>3
<1> QED
  BY <1>3, <1>4, <1>5 DEF Number

\* The widths and the powers of two that bytes and halves are cut out with.
IsWidth(n, B) ==
  /\ ByteBits = n /\ HalfBits = 2 * n /\ Bits = 4 * n
  /\ 2^n = B /\ 2^(2 * n) = B * B /\ 2^(3 * n) = B * (B * B)
  /\ Size = (B * B) * (B * B)

LEMMA Widths == \E n \in 1 .. 8 : \E B \in Nat \ {0} : IsWidth(n, B)
<1> DEFINE n == ByteBits
           B == 2^n
<1>1. n \in 1 .. 8 /\ Bits = 4 * n /\ HalfBits = 2 * n
  BY ArithmeticAssumption DEF ByteBits, HalfBits
<1> HIDE DEF n
<1>2. /\ n \in Nat /\ 2 * n \in Nat /\ n \in 0 .. 32
      /\ n + n = 2 * n /\ n + 2 * n = 3 * n /\ 2 * n + 2 * n = 4 * n
      /\ n + n <= 32 /\ n + 2 * n <= 32 /\ 2 * n + 2 * n <= 32
  BY <1>1
<1>3. B \in Nat \ {0}
  BY <1>2, PowerPositive
<1>4. 2^(n + n) = B * B
  BY <1>2, PowersMultiply
<1>5. 2^(n + 2 * n) = B * 2^(2 * n)
  BY <1>2, PowersMultiply
<1>6. 2^(2 * n + 2 * n) = 2^(2 * n) * 2^(2 * n)
  BY <1>2, PowersMultiply
<1>7. 2^(2 * n) = B * B /\ 2^(3 * n) = B * (B * B) /\ Size = (B * B) * (B * B)
  BY <1>1, <1>2, <1>4, <1>5, <1>6 DEF Size
<1> QED
  BY <1>1, <1>3, <1>7 DEF n, IsWidth

\* A byte of a word, from the lowest.
ByteOf(v, k) == (v \div 2^(k * ByteBits)) % 2^ByteBits

\* The bytes and the halves that are cut out of a word.
LEMMA BytesAndHalves ==
  ASSUME NEW n \in 1 .. 8, NEW B \in Nat \ {0}, IsWidth(n, B), NEW v \in Nat
  PROVE  /\ ByteOf(v, 0) = v % B
         /\ ByteOf(v, 1) = (v \div B) % B
         /\ ByteOf(v, 2) = (v \div (B * B)) % B
         /\ ByteOf(v, 3) = (v \div (B * (B * B))) % B
         /\ \A k \in 0 .. 3 : Field(v, n * k, n) = ByteOf(v, k)
         /\ Field(v, 0, 2 * n) = v % (B * B)
         /\ Field(v, 2 * n, 2 * n) = (v \div (B * B)) % (B * B)
<1>1. v \div 1 = v /\ 2^0 = 1
  BY PowersOfTwo
<1>2. 0 * n = 0 /\ 1 * n = n /\ \A k \in 0 .. 3 : n * k = k * n
  OBVIOUS
<1>3. ByteOf(v, 0) = v % B
  BY <1>1, <1>2 DEF ByteOf, IsWidth
<1>4. /\ ByteOf(v, 1) = (v \div B) % B
      /\ ByteOf(v, 2) = (v \div (B * B)) % B
      /\ ByteOf(v, 3) = (v \div (B * (B * B))) % B
  BY <1>2 DEF ByteOf, IsWidth
<1>5. \A k \in 0 .. 3 : Field(v, n * k, n) = ByteOf(v, k)
  BY <1>2 DEF Field, ByteOf, IsWidth
<1>6. Field(v, 0, 2 * n) = v % (B * B) /\ Field(v, 2 * n, 2 * n) = (v \div (B * B)) % (B * B)
  BY <1>1 DEF Field, IsWidth
<1> QED
  BY <1>3, <1>4, <1>5, <1>6

\* A byte that is stored is where it is loaded from, and the other bytes stay.
LEMMA StoredByte ==
  ASSUME NEW word \in WordValues, NEW value \in WordValues, NEW address \in Nat
  PROVE  LET patched == Patch("sb", word, value, address)
             place == address % 4
         IN  /\ \A k \in 0 .. 3 :
                  ByteOf(patched, k) = IF k = place THEN ByteOf(value, 0) ELSE ByteOf(word, k)
             /\ PartOf("lbu", patched, address) = value % 2^ByteBits
             /\ PartOf("lb", patched, address) = Extended(value % 2^ByteBits, ByteBits)
<1>0. PICK n \in 1 .. 8, B \in Nat \ {0} : IsWidth(n, B)
  BY Widths
<1>1. /\ ByteBits = n /\ HalfBits = 2 * n /\ Bits = 4 * n
      /\ 2^n = B /\ 2^(2 * n) = B * B /\ 2^(3 * n) = B * (B * B)
      /\ Size = (B * B) * (B * B)
  BY <1>0 DEF IsWidth
<1> DEFINE C == B * B
           d == value % B
           p == address % 4
           x == Patch("sb", word, value, address)
<1>2. word \in 0 .. C * C - 1 /\ value \in Nat
  <2>1. C * C \in Nat
    OBVIOUS
  <2> QED
    BY <1>1, <2>1 DEF WordValues
<1>3. PICK w0, w1, w2, w3 \in 0 .. B - 1 : word = Number(B, w0, w1, w2, w3)
  BY <1>2, DigitsExist
<1>4. d \in 0 .. B - 1
  BY <1>2, DivMod
<1> DEFINE Digits(v, a0, a1, a2, a3) ==
             v % B = a0 /\ (v \div B) % B = a1 /\ (v \div C) % B = a2 /\ (v \div (B * C)) % B = a3
<1>5. ASSUME NEW a0 \in 0 .. B - 1, NEW a1 \in 0 .. B - 1,
             NEW a2 \in 0 .. B - 1, NEW a3 \in 0 .. B - 1,
             NEW v, v = Number(B, a0, a1, a2, a3)
      PROVE  v \in Nat /\ Digits(v, a0, a1, a2, a3)
  BY <1>5, FourDigits
<1> HIDE DEF Digits
<1>6. Digits(word, w0, w1, w2, w3) /\ word \in Nat
  BY <1>3, <1>5
<1>7. /\ ByteOf(word, 0) = w0 /\ ByteOf(word, 1) = w1
      /\ ByteOf(word, 2) = w2 /\ ByteOf(word, 3) = w3
  BY <1>0, <1>6, BytesAndHalves DEF Digits
<1>8. ByteOf(value, 0) = d
  BY <1>0, <1>2, BytesAndHalves
<1>9. p \in 0 .. 3 /\ ByteFrom(address) = n * p
  BY <1>1 DEF ByteFrom
<1> HIDE DEF p, d
<1>10. x = word + (d - ByteOf(word, p)) * 2^(n * p)
  <2>1. x = word + ((value % 2^n) - Field(word, n * p, n)) * 2^(n * p)
    BY <1>1, <1>9 DEF Patch, WithField
  <2>2. Field(word, n * p, n) = ByteOf(word, p)
    BY <1>0, <1>6, <1>9, BytesAndHalves
  <2>3. value % 2^n = d
    BY <1>1 DEF d
  <2> QED
    BY <2>1, <2>2, <2>3
<1>11. /\ 2^(n * 0) = 1 /\ 2^(n * 1) = B /\ 2^(n * 2) = C /\ 2^(n * 3) = B * C
  <2>1. n * 0 = 0 /\ n * 1 = n /\ n * 2 = 2 * n /\ n * 3 = 3 * n
    OBVIOUS
  <2>2. 2^0 = 1
    BY PowersOfTwo
  <2> QED
    BY <1>1, <2>1, <2>2
<1> HIDE DEF x
<1>12. ASSUME p = 0 PROVE x \in Nat /\ Digits(x, d, w1, w2, w3)
  <2>1. x = Number(B, d, w1, w2, w3)
    <3> DEFINE u == B * w1
               y == C * (w2 + B * w3)
    <3>1. u \in Nat /\ y \in Nat /\ word = (w0 + u) + y
      BY <1>3 DEF Number
    <3>2. x = word + (d - w0) * 1
      BY <1>7, <1>10, <1>11, <1>12
    <3> HIDE DEF u, y
    <3>3. x = (d + u) + y
      BY <1>4, <3>1, <3>2
    <3> QED
      BY <3>3 DEF u, y, Number
  <2> QED
    BY <1>4, <1>5, <2>1
<1>13. ASSUME p = 1 PROVE x \in Nat /\ Digits(x, w0, d, w2, w3)
  <2>1. x = Number(B, w0, d, w2, w3)
    <3> DEFINE u == B * w1
               w == B * d
               y == C * (w2 + B * w3)
    <3>1. u \in Nat /\ w \in Nat /\ y \in Nat /\ word = (w0 + u) + y
      BY <1>3, <1>4 DEF Number
    <3>2. x = word + (d - w1) * B
      BY <1>7, <1>10, <1>11, <1>13
    <3>3. (d - w1) * B = w - u
      BY <1>4
    <3> HIDE DEF u, w, y
    <3>4. x = (w0 + w) + y
      BY <3>1, <3>2, <3>3
    <3> QED
      BY <3>4 DEF w, y, Number
  <2> QED
    BY <1>4, <1>5, <2>1
<1>14. ASSUME p = 2 PROVE x \in Nat /\ Digits(x, w0, w1, d, w3)
  <2>1. x = Number(B, w0, w1, d, w3)
    <3> DEFINE u == w0 + B * w1
               w == C * (d + B * w3)
               y == C * (w2 + B * w3)
               t == B * w3
    <3>1. u \in Nat /\ w \in Nat /\ y \in Nat /\ word = u + y
      BY <1>3, <1>4 DEF Number
    <3>2. x = word + (d - w2) * C
      BY <1>7, <1>10, <1>11, <1>14
    <3>3. (d - w2) * C = w - y
      <4>1. C \in Nat /\ t \in Nat /\ w = C * (d + t) /\ y = C * (w2 + t)
        OBVIOUS
      <4> HIDE DEF C, t, w, y
      <4> QED
        BY <1>4, <4>1
    <3> HIDE DEF u, w, y
    <3>4. x = u + w
      BY <3>1, <3>2, <3>3
    <3> QED
      BY <3>4 DEF u, w, Number
  <2> QED
    BY <1>4, <1>5, <2>1
<1>15. ASSUME p = 3 PROVE x \in Nat /\ Digits(x, w0, w1, w2, d)
  <2>1. x = Number(B, w0, w1, w2, d)
    <3> DEFINE u == w0 + B * w1
               w == C * (w2 + B * d)
               y == C * (w2 + B * w3)
    <3>1. u \in Nat /\ w \in Nat /\ y \in Nat /\ word = u + y
      BY <1>3, <1>4 DEF Number
    <3>2. x = word + (d - w3) * (B * C)
      BY <1>7, <1>10, <1>11, <1>15
    <3>3. (d - w3) * (B * C) = w - y
      <4> DEFINE r == B * d
                 s == B * w3
      <4>1. (d - w3) * (B * C) = C * (r - s)
        <5>1. (d - w3) * B = r - s
          BY <1>4
        <5>2. (d - w3) * (B * C) = ((d - w3) * B) * C
          BY <1>4
        <5>3. ((d - w3) * B) * C = (r - s) * C
          BY <5>1
        <5>4. r - s \in Int /\ C \in Nat
          BY <1>4
        <5> HIDE DEF r, s, C
        <5>5. (r - s) * C = C * (r - s)
          BY <5>4
        <5> QED
          BY <5>2, <5>3, <5>5
      <4>2. C \in Nat /\ r \in Nat /\ s \in Nat /\ w = C * (w2 + r) /\ y = C * (w2 + s)
        BY <1>4
      <4> HIDE DEF C, r, s, w, y
      <4>3. C * (r - s) = w - y
        BY <4>2
      <4> QED
        BY <4>1, <4>3
    <3> HIDE DEF u, w, y
    <3>4. x = u + w
      BY <3>1, <3>2, <3>3
    <3> QED
      BY <3>4 DEF u, w, Number
  <2> QED
    BY <1>4, <1>5, <2>1
<1>16. x \in Nat
  BY <1>9, <1>12, <1>13, <1>14, <1>15
<1>17. Digits(x, IF p = 0 THEN d ELSE w0, IF p = 1 THEN d ELSE w1,
               IF p = 2 THEN d ELSE w2, IF p = 3 THEN d ELSE w3)
  BY <1>9, <1>12, <1>13, <1>14, <1>15
<1>18. /\ ByteOf(x, 0) = x % B
       /\ ByteOf(x, 1) = (x \div B) % B
       /\ ByteOf(x, 2) = (x \div C) % B
       /\ ByteOf(x, 3) = (x \div (B * C)) % B
       /\ \A k \in 0 .. 3 : Field(x, n * k, n) = ByteOf(x, k)
  BY <1>0, <1>16, BytesAndHalves
<1> HIDE DEF C
<1>19. /\ ByteOf(x, 0) = IF p = 0 THEN d ELSE w0
       /\ ByteOf(x, 1) = IF p = 1 THEN d ELSE w1
       /\ ByteOf(x, 2) = IF p = 2 THEN d ELSE w2
       /\ ByteOf(x, 3) = IF p = 3 THEN d ELSE w3
  BY <1>17, <1>18 DEF Digits
<1>20. \A k \in 0 .. 3 : ByteOf(x, k) = IF k = p THEN d ELSE ByteOf(word, k)
  BY <1>7, <1>9, <1>19
<1>21. Field(x, ByteFrom(address), ByteBits) = d
  BY <1>1, <1>9, <1>18, <1>20
<1>22. PartOf("lbu", x, address) = d /\ PartOf("lb", x, address) = Extended(d, ByteBits)
  BY <1>21 DEF PartOf
<1>23. d = value % 2^ByteBits
  BY <1>1 DEF d
<1> QED
  BY <1>8, <1>20, <1>22, <1>23 DEF x, p

\* A half that is stored is where it is loaded from, and the other half stays.
LEMMA StoredHalf ==
  ASSUME NEW word \in WordValues, NEW value \in WordValues, NEW address \in Nat
  PROVE  LET patched == Patch("sh", word, value, address)
             place == address % 4
         IN  /\ \A k \in 0 .. 3 :
                  ByteOf(patched, k) = IF k \div 2 = place \div 2 THEN ByteOf(value, k % 2)
                                       ELSE ByteOf(word, k)
             /\ PartOf("lhu", patched, address) = value % 2^HalfBits
             /\ PartOf("lh", patched, address) = Extended(value % 2^HalfBits, HalfBits)
<1>0. PICK n \in 1 .. 8, B \in Nat \ {0} : IsWidth(n, B)
  BY Widths
<1>1. /\ ByteBits = n /\ HalfBits = 2 * n /\ Bits = 4 * n
      /\ 2^n = B /\ 2^(2 * n) = B * B /\ 2^(3 * n) = B * (B * B)
      /\ Size = (B * B) * (B * B)
  BY <1>0 DEF IsWidth
<1> DEFINE C == B * B
           d == value % C
           p == (address \div 2) % 2
           x == Patch("sh", word, value, address)
<1>2. word \in 0 .. C * C - 1 /\ value \in 0 .. C * C - 1
  <2>1. C * C \in Nat
    OBVIOUS
  <2> QED
    BY <1>1, <2>1 DEF WordValues
<1>3. PICK w0, w1, w2, w3 \in 0 .. B - 1 : word = Number(B, w0, w1, w2, w3)
  BY <1>2, DigitsExist
<1>4. PICK v0, v1, v2, v3 \in 0 .. B - 1 : value = Number(B, v0, v1, v2, v3)
  BY <1>2, DigitsExist
<1> DEFINE Digits(v, a0, a1, a2, a3) ==
             /\ v % B = a0 /\ (v \div B) % B = a1 /\ (v \div C) % B = a2 /\ (v \div (B * C)) % B = a3
             /\ v % C = a0 + B * a1 /\ (v \div C) % C = a2 + B * a3
<1>5. ASSUME NEW a0 \in 0 .. B - 1, NEW a1 \in 0 .. B - 1,
             NEW a2 \in 0 .. B - 1, NEW a3 \in 0 .. B - 1,
             NEW v, v = Number(B, a0, a1, a2, a3)
      PROVE  v \in Nat /\ Digits(v, a0, a1, a2, a3)
  BY <1>5, FourDigits
<1> HIDE DEF Digits
<1>6. /\ Digits(word, w0, w1, w2, w3) /\ word \in Nat
      /\ Digits(value, v0, v1, v2, v3) /\ value \in Nat
  BY <1>3, <1>4, <1>5
<1>7. /\ ByteOf(word, 0) = w0 /\ ByteOf(word, 1) = w1
      /\ ByteOf(word, 2) = w2 /\ ByteOf(word, 3) = w3
      /\ Field(word, 0, 2 * n) = w0 + B * w1 /\ Field(word, 2 * n, 2 * n) = w2 + B * w3
  BY <1>0, <1>6, BytesAndHalves DEF Digits
<1>8. ByteOf(value, 0) = v0 /\ ByteOf(value, 1) = v1 /\ d = v0 + B * v1
  BY <1>0, <1>6, BytesAndHalves DEF Digits
<1>9. /\ p = 0 \/ p = 1
      /\ (address % 4) \div 2 = p
      /\ HalfFrom(address) = (2 * n) * p
  BY <1>1 DEF HalfFrom
<1>10. (2 * n) * 0 = 0 /\ (2 * n) * 1 = 2 * n /\ 2^0 = 1
  <2>1. 2^0 = 1
    BY PowersOfTwo
  <2> QED
    BY <2>1
<1>11. value % 2^(2 * n) = d
  BY <1>1
<1>12. x = word + (d - Field(word, (2 * n) * p, 2 * n)) * 2^((2 * n) * p)
  BY <1>1, <1>9, <1>11 DEF Patch, WithField
<1> HIDE DEF p, d, x
<1>13. ASSUME p = 0 PROVE x \in Nat /\ Digits(x, v0, v1, w2, w3)
  <2>1. x = Number(B, v0, v1, w2, w3)
    <3> DEFINE u == B * w1
               w == B * v1
               y == C * (w2 + B * w3)
    <3>1. u \in Nat /\ w \in Nat /\ y \in Nat /\ word = (w0 + u) + y
      BY <1>3 DEF Number
    <3>2. x = word + (d - (w0 + u)) * 1
      BY <1>7, <1>10, <1>12, <1>13
    <3>3. d = v0 + w
      BY <1>8
    <3> HIDE DEF u, w, y
    <3>4. x = (v0 + w) + y
      BY <3>1, <3>2, <3>3
    <3> QED
      BY <3>4 DEF w, y, Number
  <2> QED
    BY <1>5, <2>1
<1>14. ASSUME p = 1 PROVE x \in Nat /\ Digits(x, w0, w1, v0, v1)
  <2>1. x = Number(B, w0, w1, v0, v1)
    <3> DEFINE u == w0 + B * w1
               r == v0 + B * v1
               s == w2 + B * w3
    <3>1. u \in Nat /\ r \in Nat /\ s \in Nat /\ C \in Nat /\ word = u + C * s
      BY <1>3 DEF Number
    <3>2. x = word + (d - s) * C
      BY <1>1, <1>7, <1>10, <1>12, <1>14
    <3>3. d = r
      BY <1>8
    <3> HIDE DEF u, r, s, C
    <3>4. C * r \in Nat /\ C * s \in Nat /\ (r - s) * C = C * r - C * s
      BY <3>1
    <3>5. x = u + C * r
      BY <3>1, <3>2, <3>3, <3>4
    <3> QED
      BY <3>5 DEF u, r, C, Number
  <2> QED
    BY <1>5, <2>1
<1>15. x \in Nat
  BY <1>9, <1>13, <1>14
<1>16. /\ ByteOf(x, 0) = x % B
       /\ ByteOf(x, 1) = (x \div B) % B
       /\ ByteOf(x, 2) = (x \div C) % B
       /\ ByteOf(x, 3) = (x \div (B * C)) % B
       /\ Field(x, 0, 2 * n) = x % C
       /\ Field(x, 2 * n, 2 * n) = (x \div C) % C
  BY <1>0, <1>15, BytesAndHalves
<1> HIDE DEF C
<1>17. p = 0 => /\ ByteOf(x, 0) = v0 /\ ByteOf(x, 1) = v1
                /\ ByteOf(x, 2) = w2 /\ ByteOf(x, 3) = w3
                /\ Field(x, 0, 2 * n) = d
  <2> SUFFICES ASSUME p = 0
               PROVE  /\ ByteOf(x, 0) = v0 /\ ByteOf(x, 1) = v1
                      /\ ByteOf(x, 2) = w2 /\ ByteOf(x, 3) = w3
                      /\ Field(x, 0, 2 * n) = d
    OBVIOUS
  <2>1. Digits(x, v0, v1, w2, w3)
    BY <1>13
  <2> QED
    BY <1>8, <1>16, <2>1 DEF Digits
<1>18. p = 1 => /\ ByteOf(x, 0) = w0 /\ ByteOf(x, 1) = w1
                /\ ByteOf(x, 2) = v0 /\ ByteOf(x, 3) = v1
                /\ Field(x, 2 * n, 2 * n) = d
  <2> SUFFICES ASSUME p = 1
               PROVE  /\ ByteOf(x, 0) = w0 /\ ByteOf(x, 1) = w1
                      /\ ByteOf(x, 2) = v0 /\ ByteOf(x, 3) = v1
                      /\ Field(x, 2 * n, 2 * n) = d
    OBVIOUS
  <2>1. Digits(x, w0, w1, v0, v1)
    BY <1>14
  <2> QED
    BY <1>8, <1>16, <2>1 DEF Digits
<1>19. /\ 0 \div 2 = 0 /\ 1 \div 2 = 0 /\ 2 \div 2 = 1 /\ 3 \div 2 = 1
       /\ 0 % 2 = 0 /\ 1 % 2 = 1 /\ 2 % 2 = 0 /\ 3 % 2 = 1
  OBVIOUS
<1>20. \A k \in 0 .. 3 :
         ByteOf(x, k) = IF k \div 2 = p THEN ByteOf(value, k % 2) ELSE ByteOf(word, k)
  <2> SUFFICES ASSUME NEW k \in 0 .. 3
               PROVE  ByteOf(x, k) = IF k \div 2 = p THEN ByteOf(value, k % 2)
                                     ELSE ByteOf(word, k)
    OBVIOUS
  <2>1. k = 0 \/ k = 1 \/ k = 2 \/ k = 3
    OBVIOUS
  <2>2. CASE p = 0
    BY <1>7, <1>8, <1>17, <1>19, <2>1, <2>2
  <2>3. CASE p = 1
    BY <1>7, <1>8, <1>18, <1>19, <2>1, <2>3
  <2> QED
    BY <1>9, <2>2, <2>3
<1>21. Field(x, HalfFrom(address), HalfBits) = d
  <2>1. HalfFrom(address) = IF p = 0 THEN 0 ELSE 2 * n
    BY <1>9, <1>10
  <2> QED
    BY <1>1, <1>9, <1>17, <1>18, <2>1
<1>22. PartOf("lhu", x, address) = d /\ PartOf("lh", x, address) = Extended(d, HalfBits)
  BY <1>21 DEF PartOf
<1>23. d = value % 2^HalfBits
  BY <1>1, <1>11
<1> QED
  BY <1>9, <1>20, <1>22, <1>23 DEF x

\* The bits of a part of a word that is loaded with its sign.
LEMMA BitsOfPart ==
  ASSUME NEW value \in WordValues, NEW n \in 1 .. 31, n < Bits, NEW i \in 0 .. Bits - 1
  PROVE  Bit(Extended(value % 2^n, n), i) = Bit(value, IF i < n THEN i ELSE n - 1)
<1> DEFINE x == value % 2^n
           j == IF i < n THEN i ELSE n - 1
<1>1. value \in Nat /\ n \in 0 .. 32
  <2>1. PICK H \in Nat \ {0} : WordValues = 0 .. 2 * H - 1
    BY WordSize
  <2> QED
    BY <2>1
<1>2. 2^n \in Nat \ {0}
  BY <1>1, PowerPositive
<1>3. x \in 0 .. 2^n - 1
  <2> DEFINE p == 2^n
  <2> HIDE DEF p
  <2>1. p \in Nat \ {0}
    BY <1>2 DEF p
  <2>2. value % p \in 0 .. p - 1
    BY <1>1, <2>1, DivMod
  <2> QED
    BY <2>2 DEF p
<1>4. Bit(Extended(x, n), i) = Bit(x, j)
  BY <1>3, BitsOfExtended
<1>5. j \in Nat /\ j < n
  BY ArithmeticAssumption
<1>6. Bit(value % 2^n, j) = Bit(value, j)
  BY <1>1, <1>5, BitsOfRemainder
<1> QED
  BY <1>4, <1>6

\* Bytes, halves and words are loaded from where they were stored, with their signs, and
\* nothing else of the word changes, for words of any width.
THEOREM BytesHold == UnitsSpec => []BytesKeepTheirPlace
<1>1. ASSUME input \in Inputs, input.unit = "mem"
      PROVE  BytesKeepTheirPlace!2
  <2> DEFINE word == input.word
             value == input.value
             address == input.address
             AfterLoad(load, store) == PartOf(load, Patch(store, word, value, address), address)
  <2>1. word \in WordValues /\ value \in WordValues /\ address \in Nat
    BY <1>1, GeometryAssumption DEF Inputs
  <2>2. \A k \in 0 .. 3 : ByteOf(Patch("sb", word, value, address), k) =
          IF k = address % 4 THEN ByteOf(value, 0) ELSE ByteOf(word, k)
    BY <2>1, StoredByte
  <2>3. \A k \in 0 .. 3 : ByteOf(Patch("sh", word, value, address), k) =
          IF k \div 2 = (address % 4) \div 2 THEN ByteOf(value, k % 2) ELSE ByteOf(word, k)
    BY <2>1, StoredHalf
  <2>4. AfterLoad("lw", "sw") = value
    BY DEF PartOf, Patch
  <2>5. AfterLoad("lbu", "sb") = value % 2^ByteBits /\ AfterLoad("lhu", "sh") = value % 2^HalfBits
    BY <2>1, StoredByte, StoredHalf
  <2>6. ASSUME NEW i \in 0 .. Bits - 1
        PROVE  /\ Bit(AfterLoad("lb", "sb"), i) =
                    Bit(value, IF i < ByteBits THEN i ELSE ByteBits - 1)
               /\ Bit(AfterLoad("lh", "sh"), i) =
                    Bit(value, IF i < HalfBits THEN i ELSE HalfBits - 1)
    <3>1. /\ AfterLoad("lb", "sb") = Extended(value % 2^ByteBits, ByteBits)
          /\ AfterLoad("lh", "sh") = Extended(value % 2^HalfBits, HalfBits)
      BY <2>1, StoredByte, StoredHalf
    <3>2. /\ ByteBits \in 1 .. 31 /\ ByteBits < Bits
          /\ HalfBits \in 1 .. 31 /\ HalfBits < Bits
      BY ArithmeticAssumption DEF ByteBits, HalfBits
    <3> QED
      BY <2>1, <3>1, <3>2, BitsOfPart
  <2> QED
    BY <2>2, <2>3, <2>4, <2>5, <2>6 DEF ByteOf
<1>2. input \in Inputs => BytesKeepTheirPlace
  BY <1>1 DEF BytesKeepTheirPlace
<1> QED
  BY <1>2, InputsStay, PTL

-----------------------------------------------------------------------------
(* Shifts.                                                                 *)

\* Multiplication is associative.
LEMMA TimesAssociative ==
  ASSUME NEW a \in Nat, NEW b \in Nat, NEW c \in Nat
  PROVE  (a * b) * c = a * (b * c)
OBVIOUS

\* A word is less than the power of two after its bits.
LEMMA WordType == ASSUME NEW v \in WordValues PROVE v \in Nat /\ v < 2^Bits /\ 2^Bits \in Nat \ {0}
<1>1. Bits \in 0 .. 32
  BY ArithmeticAssumption
<1>2. 2^Bits \in Nat \ {0}
  BY <1>1, PowerPositive
<1> QED
  BY <1>2 DEF WordValues, Size

\* The bits of a word that is shifted up, and the zeros below them.
LEMMA BitsOfLeft ==
  ASSUME NEW v \in WordValues, NEW amount \in Nat, NEW i \in 0 .. Bits - 1
  PROVE  Bit(Left(v, amount), i) =
           IF i < amount % Bits THEN 0 ELSE Bit(v, i - (amount % Bits))
<1> DEFINE s == amount % Bits
           P == 2^s
           x == v * P
<1>0. Bits \in 4 .. 32 /\ Bits \in 0 .. 32 /\ Bits \in Nat \ {0}
  BY ArithmeticAssumption
<1>1. s \in 0 .. Bits - 1 /\ s \in 0 .. 31 /\ s \in 0 .. 32
  BY <1>0
<1> HIDE DEF s
<1>2. P \in Nat \ {0}
  BY <1>1, PowerPositive
<1>3. v \in Nat
  BY WordType
<1> HIDE DEF P
<1>4. x \in Nat
  BY <1>2, <1>3
<1>5. Left(v, amount) = x % 2^Bits
  BY DEF Left, Size, s, P
<1> HIDE DEF x
<1>6. Bit(Left(v, amount), i) = Bit(x, i)
  <2>1. i \in Nat /\ i < Bits
    BY <1>0
  <2>2. Bit(x % 2^Bits, i) = Bit(x, i)
    BY <1>0, <1>4, <2>1, BitsOfRemainder
  <2> QED
    BY <1>5, <2>2
<1>7. CASE i < s
  <2> DEFINE j == s - i - 1
             Q == 2^j
             I == 2^i
  <2>1. /\ i \in 0 .. 31 /\ i \in Nat /\ j \in Nat /\ j \in 0 .. 31 /\ j + 1 \in Nat
        /\ i + (j + 1) = s /\ i + (j + 1) <= 32 /\ i \in 0 .. 32
    BY <1>0, <1>1, <1>7
  <2> HIDE DEF j
  <2>2. 2^(j + 1) = 2 * Q /\ Q \in Nat \ {0}
    BY <2>1, PowerGrows
  <2>3. 2^(i + (j + 1)) = I * 2^(j + 1)
    BY <2>1, PowersMultiply
  <2>4. P = I * (2 * Q) /\ I \in Nat \ {0}
    BY <2>1, <2>2, <2>3, PowerPositive DEF P
  <2>5. I * (2 * (Q * v)) = x /\ Q * v \in Nat
    <3> HIDE DEF I, Q
    <3>1. Q * v \in Nat /\ 2 * Q \in Nat /\ v * P = P * v
      BY <1>2, <1>3, <2>2
    <3>2. (I * (2 * Q)) * v = I * ((2 * Q) * v)
      BY <1>3, <2>4, <3>1, TimesAssociative
    <3>3. (2 * Q) * v = 2 * (Q * v)
      BY <1>3, <2>2
    <3>4. P * v = I * (2 * (Q * v))
      BY <2>4, <3>2, <3>3
    <3> QED
      BY <3>1, <3>4 DEF x
  <2> DEFINE m == Q * v
  <2>6. m \in Nat /\ I * (2 * m) = x
    BY <2>5
  <2>7. 0 + I * (2 * m) = x
    BY <1>4, <2>6
  <2> HIDE DEF m, Q
  <2>8. Bit(0 + 2^i * (2 * m), i) = Bit(0, i)
    BY <2>1, <2>6, BitsBelow
  <2>9. Bit(0, i) = 0
    <3>1. 0 \div I = 0
      <4>1. I \in Nat \ {0}
        BY <2>4
      <4> HIDE DEF I
      <4> QED
        BY <4>1
    <3>2. Bit(0, i) = (0 \div I) % 2
      BY DEF Bit
    <3> HIDE DEF I
    <3> QED
      BY <3>1, <3>2
  <2> QED
    BY <1>6, <1>7, <2>7, <2>8, <2>9 DEF s
<1>8. CASE ~(i < s)
  <2> DEFINE j == i - s
             Q == 2^j
  <2>1. j \in Nat /\ j \in 0 .. 32 /\ s \in Nat /\ s + j = i /\ s + j <= 32
    BY <1>0, <1>1, <1>8
  <2> HIDE DEF j
  <2>2. Q \in Nat \ {0}
    BY <2>1, PowerPositive
  <2>3. 2^(s + j) = 2^s * 2^j
    BY <2>1, PowersMultiply
  <2>4. 2^i = P * Q
    BY <2>1, <2>3 DEF P
  <2>5. Bit(x, i) = (x \div (P * Q)) % 2 /\ Bit(v, j) = (v \div Q) % 2
    BY <2>4 DEF Bit
  <2> HIDE DEF Q
  <2>6. x \div (P * Q) = (x \div P) \div Q
    BY <1>2, <1>4, <2>2, DivDiv
  <2>7. x \div P = v
    <3>1. (P * v + 0) \div P = v
      BY <1>2, <1>3, DivModUnique
    <3>2. x = P * v + 0
      BY <1>2, <1>3 DEF x
    <3> QED
      BY <3>1, <3>2
  <2>8. Bit(x, i) = Bit(v, j)
    BY <2>5, <2>6, <2>7
  <2> QED
    BY <1>6, <1>8, <2>8 DEF s, j
<1> QED
  BY <1>7, <1>8

\* The bits of a number that is shifted down.
LEMMA BitsAbove ==
  ASSUME NEW v \in Nat, NEW s \in Nat, NEW i \in Nat, i + s <= 32
  PROVE  Bit(v \div 2^s, i) = Bit(v, i + s)
<1> DEFINE P == 2^s
           Q == 2^i
<1>1. s \in 0 .. 32 /\ i \in 0 .. 32 /\ s + i = i + s /\ s + i <= 32
  OBVIOUS
<1>2. P \in Nat \ {0} /\ Q \in Nat \ {0}
  BY <1>1, PowerPositive
<1>3. 2^(s + i) = P * Q
  BY <1>1, PowersMultiply
<1>4. Bit(v \div P, i) = ((v \div P) \div Q) % 2 /\ Bit(v, i + s) = (v \div (P * Q)) % 2
  BY <1>1, <1>3 DEF Bit
<1> HIDE DEF P, Q
<1>5. v \div (P * Q) = (v \div P) \div Q
  BY <1>2, DivDiv
<1> QED
  BY <1>4, <1>5 DEF P

\* A word that is shifted down is a field of the bits that are left.
LEMMA ShiftedDown ==
  ASSUME NEW v \in WordValues, NEW s \in 0 .. Bits - 1
  PROVE  v \div 2^s \in 0 .. 2^(Bits - s) - 1 /\ 2^Bits = 2^s * 2^(Bits - s)
<1> DEFINE n == Bits - s
           P == 2^s
           Q == 2^n
           S == 2^Bits
<1>1. s \in 0 .. 32 /\ s \in Nat /\ n \in 0 .. 32 /\ n \in Nat /\ s + n = Bits /\ s + n <= 32
  BY ArithmeticAssumption
<1> HIDE DEF n
<1>2. P \in Nat \ {0} /\ Q \in Nat \ {0}
  BY <1>1, PowerPositive
<1>3. 2^(s + n) = P * Q
  BY <1>1, PowersMultiply
<1>4. S = P * Q
  BY <1>1, <1>3
<1>5. v \in Nat /\ v < S
  BY WordType
<1> HIDE DEF P, Q, S
<1>6. v \div P \in Nat /\ v \div P < Q
  <2> DEFINE q == v \div P
             r == v % P
  <2>1. v = P * q + r /\ r \in 0 .. P - 1 /\ q \in Nat
    BY <1>2, <1>5, DivMod
  <2> HIDE DEF q, r
  <2>0. r \in Nat
    BY <1>2, <2>1
  <2>2. ~(q >= Q)
    <3> SUFFICES ASSUME q >= Q PROVE FALSE
      OBVIOUS
    <3>1. P * q >= P * Q /\ P * q \in Nat /\ P * Q \in Nat
      BY <1>2, <2>1
    <3> QED
      BY <1>4, <1>5, <2>0, <2>1, <3>1
  <2>3. q \in Nat /\ q < Q
    BY <1>2, <2>1, <2>2
  <2> QED
    BY <2>3 DEF q
<1>7. v \div P \in 0 .. Q - 1
  BY <1>2, <1>6
<1> QED
  BY <1>4, <1>7 DEF P, Q, S, n

\* The bits of a word that is shifted down, and the zeros above them.
LEMMA BitsOfRight ==
  ASSUME NEW v \in WordValues, NEW amount \in Nat, NEW i \in 0 .. Bits - 1
  PROVE  Bit(Right(v, amount), i) =
           IF i + (amount % Bits) < Bits THEN Bit(v, i + (amount % Bits)) ELSE 0
<1> DEFINE s == amount % Bits
<1>0. Bits \in 4 .. 32 /\ Bits \in Nat \ {0}
  BY ArithmeticAssumption
<1>1. s \in 0 .. Bits - 1 /\ s \in Nat /\ i \in Nat
  BY <1>0
<1>2. Right(v, amount) = v \div 2^s
  BY DEF Right
<1> HIDE DEF s
<1>3. CASE i + s < Bits
  <2>1. i + s <= 32 /\ v \in Nat
    BY <1>0, <1>1, <1>3, WordType
  <2>2. Bit(v \div 2^s, i) = Bit(v, i + s)
    BY <1>1, <2>1, BitsAbove
  <2> QED
    BY <1>2, <1>3, <2>2 DEF s
<1>4. CASE ~(i + s < Bits)
  <2> DEFINE x == v \div 2^s
             n == Bits - s
             Q == 2^n
             I == 2^i
  <2>1. x \in 0 .. Q - 1
    BY <1>1, ShiftedDown
  <2>2. n \in 0 .. 32 /\ i \in 0 .. 32 /\ (n = i \/ n < i)
    BY <1>0, <1>1, <1>4
  <2> HIDE DEF n
  <2>3. Q \in Nat /\ I \in Nat \ {0}
    BY <2>2, PowerPositive
  <2>4. Q <= I
    <3>1. CASE n = i
      BY <2>3, <3>1
    <3>2. CASE n < i
      <4>1. 2^n < 2^i
        BY <2>2, <3>2, PowersIncrease
      <4> QED
        BY <2>3, <4>1
    <3> QED
      BY <2>2, <3>1, <3>2
  <2>5. Bit(x, i) = (x \div I) % 2
    BY DEF Bit
  <2> HIDE DEF x, Q, I
  <2>6. x \div I = 0
    BY <2>1, <2>3, <2>4
  <2>7. Bit(x, i) = 0
    BY <2>5, <2>6
  <2> QED
    BY <1>2, <1>4, <2>7 DEF s, x
<1> QED
  BY <1>3, <1>4

\* A shift down that copies the sign is a shift down whose field is extended.
LEMMA ArithmeticShift ==
  ASSUME NEW v \in WordValues, NEW s \in 1 .. Bits - 1
  PROVE  (Signed(v) \div 2^s) % Size = Extended(v \div 2^s, Bits - s)
<1> DEFINE n == Bits - s
           P == 2^s
           Q == 2^n
           L == 2^(n - 1)
           S == 2^Bits
           x == v \div P
           r == v % P
<1>1. /\ s \in 0 .. 32 /\ s \in Nat /\ n - 1 \in 0 .. 31 /\ n - 1 \in Nat /\ n \in 0 .. 32
      /\ Bits \in 0 .. 32 /\ n < Bits /\ s + (n - 1) = Bits - 1 /\ s + (n - 1) <= 32
      /\ (n - 1) + 1 = n /\ s \in 0 .. Bits - 1
  BY ArithmeticAssumption
<1>2. x \in 0 .. Q - 1 /\ S = P * Q
  BY <1>1, ShiftedDown
<1>3. Extended(x, n) = IF x >= L THEN x + S - Q ELSE x
  BY DEF Extended, Size
<1> HIDE DEF n
<1>4. P \in Nat \ {0} /\ Q \in Nat \ {0} /\ S \in Nat \ {0} /\ Q < S
  BY <1>1, PowerPositive, PowersIncrease
<1>5. Q = 2 * L /\ L \in Nat \ {0}
  <2>1. 2^((n - 1) + 1) = 2 * 2^(n - 1) /\ 2^(n - 1) \in Nat \ {0}
    BY <1>1, PowerGrows
  <2> QED
    BY <1>1, <2>1
<1>6. 2^(Bits - 1) = P * L
  <2>1. 2^(s + (n - 1)) = P * L
    BY <1>1, PowersMultiply
  <2> QED
    BY <1>1, <2>1
<1>7. Signed(v) = IF v >= P * L THEN v - S ELSE v
  <2>1. PICK H \in Nat \ {0} :
          2^(Bits - 1) = H /\ Size = 2 * H /\ \A y : Signed(y) = IF y >= H THEN y - 2 * H ELSE y
    BY WordSize
  <2>2. S = 2 * H
    BY <2>1 DEF Size
  <2>3. H = P * L
    BY <1>6, <2>1
  <2> HIDE DEF S, P, L
  <2> QED
    BY <2>1, <2>2, <2>3
<1>8. v \in Nat /\ Size = S
  BY WordType DEF Size
<1> HIDE DEF P, Q, L, S
<1>9. v = P * x + r /\ r \in 0 .. P - 1 /\ x \in Nat
  BY <1>4, <1>8, DivMod
<1> HIDE DEF r
<1>10. (Signed(v) \div P) % S = Extended(x, n)
  <2> HIDE DEF x
  <2>0. r \in Nat /\ r < P /\ x \in Nat /\ x < Q /\ P * x \in Nat /\ P * L \in Nat
    BY <1>2, <1>4, <1>5, <1>9
  <2>1. CASE x >= L
    <3>1. P * x >= P * L
      BY <1>4, <1>5, <2>0, <2>1
    <3>2. v >= P * L
      BY <1>9, <2>0, <3>1
    <3>3. Signed(v) = P * (x - Q) + r
      <4>1. P * (x - Q) = P * x - P * Q /\ P * Q \in Nat
        BY <1>4, <2>0
      <4> QED
        BY <1>2, <1>7, <1>9, <2>0, <3>2, <4>1
    <3>4. Signed(v) \div P = x - Q
      <4>1. x - Q \in Int
        BY <1>4, <2>0
      <4> QED
        BY <1>4, <1>9, <3>3, <4>1, IntDivModUnique
    <3>5. (x - Q) % S = x + S - Q
      <4> DEFINE y == x + S - Q
      <4>1. y \in 0 .. S - 1 /\ S * (-1) + y = x - Q
        BY <1>4, <2>0
      <4> HIDE DEF y
      <4>2. (S * (-1) + y) % S = y
        BY <1>4, <4>1, IntDivModUnique
      <4> QED
        BY <4>1, <4>2 DEF y
    <3> QED
      BY <1>3, <2>1, <3>4, <3>5
  <2>2. CASE x < L
    <3>1. P * (x + 1) <= P * L /\ P * (x + 1) = P * x + P
      BY <1>4, <1>5, <2>0, <2>2
    <3>2. v < P * L
      BY <1>4, <1>9, <2>0, <3>1
    <3>3. Signed(v) = v
      BY <1>7, <1>8, <2>0, <3>2
    <3>4. Signed(v) \div P = x
      BY <3>3 DEF x
    <3>5. x % S = x
      BY <1>4, <2>0
    <3>6. ~(x >= L)
      BY <1>5, <2>0, <2>2
    <3> QED
      BY <1>3, <3>4, <3>5, <3>6
  <2> QED
    BY <1>5, <2>0, <2>1, <2>2
<1> QED
  BY <1>8, <1>10 DEF P, n

\* The bits of a word that is shifted down, and the copies of its sign above them.
LEMMA BitsOfArithmeticRight ==
  ASSUME NEW v \in WordValues, NEW amount \in Nat, NEW i \in 0 .. Bits - 1
  PROVE  Bit(ArithmeticRight(v, amount), i) =
           IF i + (amount % Bits) < Bits THEN Bit(v, i + (amount % Bits)) ELSE SignBit(v)
<1> DEFINE s == amount % Bits
<1>0. Bits \in 4 .. 32 /\ Bits \in Nat \ {0}
  BY ArithmeticAssumption
<1>1. s \in 0 .. Bits - 1 /\ s \in Nat /\ i \in Nat
  BY <1>0
<1>2. ArithmeticRight(v, amount) = (Signed(v) \div 2^s) % Size
  BY DEF ArithmeticRight
<1> HIDE DEF s
<1>3. CASE s = 0
  <2>1. 2^s = 1
    BY <1>3, PowersOfTwo
  <2>2. (Signed(v) \div 1) % Size = v
    <3>1. PICK H \in Nat \ {0} :
            /\ Size = 2 * H
            /\ WordValues = 0 .. 2 * H - 1
            /\ \A y : Signed(y) = IF y >= H THEN y - 2 * H ELSE y
      BY WordSize
    <3>2. v \in 0 .. Size - 1 /\ v \in Nat /\ Size \in Nat \ {0}
      BY <3>1
    <3>3. Signed(v) = v \/ Signed(v) = v - Size
      BY <3>1
    <3>4. CASE Signed(v) = v
      <4>1. Signed(v) \div 1 = v
        BY <3>2, <3>4
      <4> QED
        BY <3>2, <4>1
    <3>5. CASE Signed(v) = v - Size
      <4>1. Signed(v) \div 1 = Size * (-1) + v
        BY <3>2, <3>5
      <4>2. (Size * (-1) + v) % Size = v
        BY <3>2, IntDivModUnique
      <4> QED
        BY <4>1, <4>2
    <3> QED
      BY <3>3, <3>4, <3>5
  <2>3. i + s = i /\ i < Bits
    BY <1>0, <1>1, <1>3
  <2> QED
    BY <1>2, <2>1, <2>2, <2>3 DEF s
<1>4. CASE s # 0
  <2> DEFINE n == Bits - s
             y == v \div 2^s
  <2>1. /\ s \in 1 .. Bits - 1 /\ n \in 1 .. 31 /\ n < Bits /\ n - 1 \in Nat
        /\ (n - 1) + s = Bits - 1 /\ (n - 1) + s <= 32 /\ i + s <= 63 /\ v \in Nat
        /\ (i < n <=> i + s < Bits)
    BY <1>0, <1>1, <1>4, WordType
  <2>2. y \in 0 .. 2^n - 1
    BY <1>1, ShiftedDown
  <2>3. ArithmeticRight(v, amount) = Extended(y, n)
    BY <1>2, <2>1, ArithmeticShift
  <2> HIDE DEF y
  <2>4. Bit(Extended(y, n), i) = Bit(y, IF i < n THEN i ELSE n - 1)
    <3> HIDE DEF n
    <3> QED
      BY <2>1, <2>2, BitsOfExtended
  <2> HIDE DEF n
  <2>5. CASE i + s < Bits
    <3>1. i + s <= 32
      BY <1>0, <1>1, <2>5
    <3>2. Bit(v \div 2^s, i) = Bit(v, i + s)
      BY <1>1, <2>1, <3>1, BitsAbove
    <3>3. Bit(Extended(y, n), i) = Bit(y, i)
      BY <2>1, <2>4, <2>5
    <3> QED
      BY <2>3, <2>5, <3>2, <3>3 DEF y, s
  <2>6. CASE ~(i + s < Bits)
    <3>1. Bit(v \div 2^s, n - 1) = Bit(v, (n - 1) + s)
      BY <1>1, <2>1, BitsAbove
    <3>2. Bit(y, n - 1) = SignBit(v)
      BY <2>1, <3>1 DEF y, SignBit
    <3>3. Bit(Extended(y, n), i) = Bit(y, n - 1)
      BY <2>1, <2>4, <2>6
    <3> QED
      BY <2>3, <2>6, <3>2, <3>3 DEF s
  <2> QED
    BY <2>5, <2>6
<1> QED
  BY <1>3, <1>4

\* The shifts of the execute stage.
LEMMA Shifts ==
  ASSUME NEW a \in WordValues, NEW b \in WordValues, NEW imm \in WordValues,
         NEW i \in 0 .. Bits - 1
  PROVE  LET B(fn) == Bit(Calculated(fn, a, b, imm), i)
             Upwards(s) == IF i < s THEN 0 ELSE Bit(b, i - s)
             Downwards(s, free) == IF i + s < Bits THEN Bit(b, i + s) ELSE free
         IN  /\ B("sll") = Upwards(imm % Bits) /\ B("sllv") = Upwards(a % Bits)
             /\ B("srl") = Downwards(imm % Bits, 0) /\ B("srlv") = Downwards(a % Bits, 0)
             /\ B("sra") = Downwards(imm % Bits, SignBit(b))
             /\ B("srav") = Downwards(a % Bits, SignBit(b))
             /\ B("lui") = IF i < HalfBits THEN 0 ELSE Bit(imm, i - HalfBits)
<1>1. a \in Nat /\ imm \in Nat
  BY WordType
<1>2. Bits \div 2 \in Nat /\ (Bits \div 2) % Bits = HalfBits
  BY ArithmeticAssumption DEF HalfBits
<1>3. /\ Calculated("sll", a, b, imm) = Left(b, imm)
      /\ Calculated("sllv", a, b, imm) = Left(b, a)
      /\ Calculated("srl", a, b, imm) = Right(b, imm)
      /\ Calculated("srlv", a, b, imm) = Right(b, a)
  BY DEF Calculated
<1>4. /\ Calculated("sra", a, b, imm) = ArithmeticRight(b, imm)
      /\ Calculated("srav", a, b, imm) = ArithmeticRight(b, a)
      /\ Calculated("lui", a, b, imm) = Left(imm, Bits \div 2)
  BY DEF Calculated
<1>5. /\ Bit(Left(b, imm), i) = IF i < imm % Bits THEN 0 ELSE Bit(b, i - (imm % Bits))
      /\ Bit(Left(b, a), i) = IF i < a % Bits THEN 0 ELSE Bit(b, i - (a % Bits))
  BY <1>1, BitsOfLeft
<1>6. Bit(Left(imm, Bits \div 2), i) = IF i < HalfBits THEN 0 ELSE Bit(imm, i - HalfBits)
  <2>1. Bit(Left(imm, Bits \div 2), i)
          = IF i < (Bits \div 2) % Bits THEN 0 ELSE Bit(imm, i - ((Bits \div 2) % Bits))
    BY <1>2, BitsOfLeft
  <2> QED
    BY <1>2, <2>1
<1>7. /\ Bit(Right(b, imm), i)
           = IF i + (imm % Bits) < Bits THEN Bit(b, i + (imm % Bits)) ELSE 0
      /\ Bit(Right(b, a), i) = IF i + (a % Bits) < Bits THEN Bit(b, i + (a % Bits)) ELSE 0
  BY <1>1, BitsOfRight
<1>8. /\ Bit(ArithmeticRight(b, imm), i)
           = IF i + (imm % Bits) < Bits THEN Bit(b, i + (imm % Bits)) ELSE SignBit(b)
      /\ Bit(ArithmeticRight(b, a), i)
           = IF i + (a % Bits) < Bits THEN Bit(b, i + (a % Bits)) ELSE SignBit(b)
  BY <1>1, BitsOfArithmeticRight
<1> QED
  BY <1>3, <1>4, <1>5, <1>6, <1>7, <1>8

\* Variable shifts use the amount modulo the width, sra and srav copy the sign and lui
\* fills the upper half, for words of any width that pipe_stage_execute could have.
THEOREM ShiftsHold == UnitsSpec => []ShiftsMoveBits
<1>1. input \in Inputs => ShiftsMoveBits
  <2> SUFFICES ASSUME input \in Inputs, input.unit = "execute" PROVE ShiftsMoveBits!2
    BY DEF ShiftsMoveBits
  <2>1. input.a \in WordValues /\ input.b \in WordValues /\ input.imm \in WordValues
    BY DEF Inputs
  <2> QED
    BY <2>1, Shifts
<1> QED
  BY <1>1, InputsStay, PTL

-----------------------------------------------------------------------------
(* The caches and the memory.                                              *)

LEMMA ThreeCaches ==
  /\ Caches = {"ir", "d", "l2"} /\ L1Caches = {"ir", "d"}
  /\ "ir" # "d" /\ "ir" # "l2" /\ "d" # "l2"
BY DEF Caches, L1Caches

\* Memory has a block of data for every block.
LEMMA MemoryBlockType ==
  ASSUME NEW m \in [Mapped -> Data], NEW b \in Blocks
  PROVE  MemoryBlock(m, b) \in Data
BY HierarchyAssumption DEF MemoryBlock, Data

\* What is evicted are blocks that the cache holds, one at most.
LEMMA EvictedAreHeld ==
  ASSUME NEW c, NEW b, NEW out \in Evictions(c, b)
  PROVE  out \subseteq {x \in Blocks : Hits(c, x)} /\ \A x, y \in out : x = y
BY DEF Evictions, InSet

LEMMA InitInvariant == Init => IndInv
<1> SUFFICES ASSUME Init PROVE IndInv
  OBVIOUS
<1>1. TypeOK
  BY ThreeCaches DEF Init, TypeOK
<1>2. \A c \in Caches : \A b \in Blocks : ~Hits(c, b)
  BY ThreeCaches DEF Init, Hits
<1> QED
  BY <1>1, <1>2, ThreeCaches, HierarchyAssumption
  DEF Init, IndInv, OnlyDataIsWrittenBack, L2MatchesMemory, CleanMatchesMemory, CodeMatchesMemory

LEMMA ReadInvariant ==
  ASSUME IndInv, NEW op, NEW c, NEW b, NEW w, Read(op, c, b, w)
  PROVE  IndInv'
BY DEF Read, IndInv, TypeOK, OnlyDataIsWrittenBack, L2MatchesMemory, CleanMatchesMemory,
       CodeMatchesMemory, Hits

\* After a store, the data cache's copy of one block has changed.
LEMMA StoreStep ==
  ASSUME TypeOK, NEW b \in Blocks, NEW w \in Words, NEW v \in Values, Store(b, w, v)
  PROVE  /\ copy'["d"] = [copy["d"] EXCEPT ![b] = [copy["d"][b] EXCEPT ![w] = v]]
         /\ copy'["d"][b] \in Data
         /\ copy'["ir"] = copy["ir"] /\ copy'["l2"] = copy["l2"]
         /\ copy' \in [Caches -> [Blocks -> Data \cup {NoData}]]
         /\ dirty'["ir"] = dirty["ir"] /\ dirty'["l2"] = dirty["l2"]
         /\ dirty'["d"] = DirtyAfterWrite(b, w, v)
         /\ dirty' \in [Caches -> SUBSET Blocks]
<1>1. copy["d"] \in [Blocks -> Data \cup {NoData}]
  BY ThreeCaches DEF TypeOK
<1>2. copy["d"][b] \in Data
  BY <1>1 DEF Store, Hits
<1>3. [copy["d"][b] EXCEPT ![w] = v] \in Data
  BY <1>2 DEF Data
<1>4. DirtyAfterWrite(b, w, v) \subseteq Blocks
  BY ThreeCaches DEF TypeOK, DirtyAfterWrite
<1> QED
  BY <1>1, <1>3, <1>4, ThreeCaches DEF Store, TypeOK

LEMMA StoreInvariant ==
  ASSUME IndInv, NEW b \in Blocks, NEW w \in Words, NEW v \in Values, Store(b, w, v)
  PROVE  IndInv'
<1>1. TypeOK
  BY DEF IndInv
<1>2. /\ copy'["d"] = [copy["d"] EXCEPT ![b] = [copy["d"][b] EXCEPT ![w] = v]]
      /\ copy'["d"][b] \in Data
      /\ copy'["ir"] = copy["ir"] /\ copy'["l2"] = copy["l2"]
      /\ copy' \in [Caches -> [Blocks -> Data \cup {NoData}]]
      /\ dirty'["ir"] = dirty["ir"] /\ dirty'["l2"] = dirty["l2"]
      /\ dirty'["d"] = DirtyAfterWrite(b, w, v)
      /\ dirty' \in [Caches -> SUBSET Blocks]
  BY <1>1, StoreStep
<1>3. memory' = memory /\ stored' = stored \cup {b} /\ aborted' = aborted /\ Hits("d", b)
  BY DEF Store
<1>4. TypeOK'
  BY <1>1, <1>2, <1>3 DEF TypeOK
<1>5. copy["d"] \in [Blocks -> Data \cup {NoData}] /\ Hits("d", b)' /\ copy["d"][b] \in Data
  BY <1>1, <1>2, <1>3, ThreeCaches, HierarchyAssumption DEF TypeOK, Hits
<1>6. \A x \in Blocks \ {b} : copy'["d"][x] = copy["d"][x]
  BY <1>2, <1>5
<1>7. CleanMatchesMemory'
  <2> SUFFICES ASSUME NEW x \in Blocks, Hits("d", x)', x \notin dirty'["d"]
               PROVE  copy'["d"][x] = MemoryBlock(memory, x)
    BY <1>3 DEF CleanMatchesMemory
  <2>1. x \notin dirty["d"]
    BY <1>2 DEF DirtyAfterWrite
  <2>2. CASE x # b
    BY <2>1, <2>2, <1>6 DEF IndInv, CleanMatchesMemory, Hits
  <2>3. CASE x = b
    <3>1. copy["d"][b][w] = v
      BY <2>3, <1>2 DEF DirtyAfterWrite
    <3>2. copy'["d"][b] = copy["d"][b]
      BY <3>1, <1>2, <1>5 DEF Data
    <3> QED
      BY <3>2, <2>1, <2>3, <1>5, <1>3 DEF IndInv, CleanMatchesMemory
  <2> QED
    BY <2>2, <2>3
<1>8. dirty'["d"] \subseteq stored' \cap {x \in Blocks : Hits("d", x)'}
  BY <1>2, <1>3, <1>5, <1>6 DEF IndInv, DirtyAfterWrite, Hits
<1>9. L2MatchesMemory' /\ CodeMatchesMemory'
  BY <1>2, <1>3 DEF IndInv, L2MatchesMemory, CodeMatchesMemory, Hits
<1>10. OnlyDataIsWrittenBack'
  BY <1>3 DEF IndInv, OnlyDataIsWrittenBack
<1> QED
  BY <1>2, <1>4, <1>7, <1>8, <1>9, <1>10 DEF IndInv

-----------------------------------------------------------------------------
(* Transfers.                                                              *)

\* The effects of a transfer to cache c that evicts out from it and out2 from
\* the L2 cache, block by block.
Moves(c, b, out, out2) ==
  /\ out \subseteq Blocks /\ b \notin out /\ out2 \subseteq Blocks
  /\ \A x, y \in out : x = y
  /\ \A x \in out : Hits(c, x)
  /\ memory' \in [Mapped -> Data]
  /\ \A x \in Mapped :
       memory'[x] = IF x \in out \cap dirty[c] THEN copy[c][x] ELSE memory[x]
  /\ copy' \in [Caches -> [Blocks -> Data \cup {NoData}]]
  /\ \A e \in L1Caches : e # c => copy'[e] = copy[e] /\ dirty'[e] = dirty[e]
  /\ \A x \in Blocks : x # b =>
       copy'[c][x] = IF x \in out THEN NoData ELSE copy[c][x]
  /\ copy'[c][b] \in Data /\ copy'[c][b] = MemoryBlock(memory', b)
  /\ \A x \in Blocks : x # b =>
       copy'["l2"][x] \in {NoData, IF x \in out \cap dirty[c] /\ Hits("l2", x)
                                   THEN copy[c][x] ELSE copy["l2"][x]}
  /\ b \in Mapped => copy'["l2"][b] \in {memory'[b], copy["l2"][b]}
  /\ dirty' \in [Caches -> SUBSET Blocks]
  /\ dirty'[c] = dirty[c] \ (out \cup {b}) /\ dirty'["l2"] = {}
  /\ aborted' = (c # "d" /\ out \cap dirty[c] # {})
  /\ stored' = stored

LEMMA TransferMoves ==
  ASSUME IndInv, NEW c \in L1Caches, NEW b \in Blocks, Transfer(c, b)
  PROVE  \E out, out2 : Moves(c, b, out, out2)
<1>1. PICK out \in Evictions(c, b), out2 \in IF Hits("l2", b) THEN {{}} ELSE Evictions("l2", b) :
        LET l2 == L2Updated(c, out)
            data == MemoryBlock(WrittenBack(c, out), b)
        IN  /\ memory' = WrittenBack(c, out)
            /\ copy' = [copy EXCEPT ![c] = Filled(copy[c], out, b, data),
                                    !["l2"] = IF Hits("l2", b) THEN l2
                                              ELSE Filled(l2, out2, b, data)]
            /\ dirty' = [dirty EXCEPT ![c] = @ \ (out \cup {b}),
                                      !["l2"] = L2Dirty(c, out) \ out2]
            /\ aborted' = DirtyElsewhere(c, out, out2)
  BY DEF Transfer
<1>2. ~Hits(c, b) /\ UNCHANGED stored
  BY DEF Transfer
<1>3. TypeOK /\ dirty["l2"] = {}
  BY DEF IndInv
<1>4. c \in Caches /\ "l2" \in Caches /\ c # "l2" /\ L1Caches \subseteq Caches
      /\ "l2" \notin L1Caches
  BY ThreeCaches
<1>5. out \subseteq Blocks /\ b \notin out /\ (\A x \in out : Hits(c, x))
      /\ \A x, y \in out : x = y
  BY <1>2, EvictedAreHeld
<1>6. out2 \subseteq Blocks
  BY EvictedAreHeld
<1>7. copy[c] \in [Blocks -> Data \cup {NoData}] /\ copy["l2"] \in [Blocks -> Data \cup {NoData}]
  BY <1>3, <1>4 DEF TypeOK
<1>8. memory' = WrittenBack(c, out)
  BY <1>1
<1>9. memory' \in [Mapped -> Data]
  BY <1>3, <1>5, <1>7, <1>8, HierarchyAssumption DEF WrittenBack, TypeOK, Hits
<1>10. \A x \in Mapped :
         memory'[x] = IF x \in out \cap dirty[c] THEN copy[c][x] ELSE memory[x]
  BY <1>8 DEF WrittenBack
<1> DEFINE data == MemoryBlock(WrittenBack(c, out), b)
           l2 == L2Updated(c, out)
<1>11. data \in Data /\ data = MemoryBlock(memory', b) /\ (b \in Mapped => data = memory'[b])
  <2>1. data = MemoryBlock(memory', b)
    BY <1>8
  <2> QED
    BY <2>1, <1>9, MemoryBlockType DEF MemoryBlock
<1>12. l2 \in [Blocks -> Data \cup {NoData}]
       /\ \A x \in Blocks : l2[x] = IF x \in out \cap dirty[c] /\ Hits("l2", x)
                                     THEN copy[c][x] ELSE copy["l2"][x]
  BY <1>7 DEF L2Updated
<1>13. /\ copy'[c] = Filled(copy[c], out, b, data)
       /\ copy'["l2"] = IF Hits("l2", b) THEN l2 ELSE Filled(l2, out2, b, data)
       /\ \A e \in L1Caches : e # c => copy'[e] = copy[e]
       /\ copy' \in [Caches -> [Blocks -> Data \cup {NoData}]]
  <2> HIDE DEF data, l2
  <2>1. copy' = [copy EXCEPT ![c] = Filled(copy[c], out, b, data),
                             !["l2"] = IF Hits("l2", b) THEN l2
                                       ELSE Filled(l2, out2, b, data)]
    BY <1>1 DEF data, l2
  <2>2. Filled(copy[c], out, b, data) \in [Blocks -> Data \cup {NoData}]
        /\ Filled(l2, out2, b, data) \in [Blocks -> Data \cup {NoData}]
    BY <1>7, <1>11, <1>12 DEF Filled
  <2>3. copy \in [Caches -> [Blocks -> Data \cup {NoData}]]
    BY <1>3 DEF TypeOK
  <2> QED
    BY <2>1, <2>2, <2>3, <1>4, <1>12
<1> HIDE DEF data, l2
<1>14. \A x \in Blocks : x # b =>
         copy'[c][x] = IF x \in out THEN NoData ELSE copy[c][x]
  BY <1>13 DEF Filled
<1>15. copy'[c][b] = data
  BY <1>13 DEF Filled
<1>16. \A x \in Blocks : x # b => copy'["l2"][x] \in {NoData, l2[x]}
  BY <1>13 DEF Filled
<1>17. b \in Mapped => copy'["l2"][b] \in {memory'[b], copy["l2"][b]}
  <2>1. l2[b] = copy["l2"][b]
    BY <1>5, <1>12
  <2> QED
    BY <2>1, <1>11, <1>13 DEF Filled
<1>18. L2Dirty(c, out) = {}
  BY <1>3 DEF L2Dirty
<1>19. /\ dirty'[c] = dirty[c] \ (out \cup {b}) /\ dirty'["l2"] = {}
       /\ dirty' \in [Caches -> SUBSET Blocks]
       /\ \A e \in L1Caches : e # c => dirty'[e] = dirty[e]
  <2>1. dirty' = [dirty EXCEPT ![c] = @ \ (out \cup {b}), !["l2"] = {}]
    BY <1>1, <1>18
  <2>2. dirty \in [Caches -> SUBSET Blocks]
    BY <1>3 DEF TypeOK
  <2> QED
    BY <2>1, <2>2, <1>4
<1>20. aborted' = (c # "d" /\ out \cap dirty[c] # {})
  BY <1>1, <1>18 DEF DirtyElsewhere
<1>21. \A x \in Blocks : x # b =>
         copy'["l2"][x] \in {NoData, IF x \in out \cap dirty[c] /\ Hits("l2", x)
                                     THEN copy[c][x] ELSE copy["l2"][x]}
  BY <1>12, <1>16
<1>22. Moves(c, b, out, out2)
  BY <1>2, <1>5, <1>6, <1>9, <1>10, <1>11, <1>13, <1>14, <1>15, <1>17, <1>19, <1>20, <1>21
  DEF Moves
<1> QED
  BY <1>22

LEMMA TransferInvariant ==
  ASSUME IndInv, NEW c \in L1Caches, NEW b \in Blocks, Transfer(c, b)
  PROVE  IndInv'
<1>1. PICK out, out2 : Moves(c, b, out, out2)
  BY TransferMoves
<1>2. Mapped \subseteq Blocks /\ NoData \notin Data
  BY HierarchyAssumption
<1>3. dirty["ir"] = {} /\ dirty["l2"] = {} /\ dirty["d"] \subseteq stored
      /\ \A x \in dirty["d"] : Hits("d", x)
  BY DEF IndInv
<1>4. ~aborted' /\ stored' = stored
  BY <1>1, <1>3, ThreeCaches DEF Moves
<1>5. TypeOK'
  BY <1>1, <1>4 DEF Moves, IndInv, TypeOK
\* Memory changes only where the data cache was dirty.
<1>6. \A x \in Blocks :
        MemoryBlock(memory', x) = MemoryBlock(memory, x) \/ (c = "d" /\ x \in dirty["d"])
  BY <1>1, <1>3, ThreeCaches DEF Moves, MemoryBlock
<1>7. L2MatchesMemory'
  <2> SUFFICES ASSUME NEW x \in Mapped, copy'["l2"][x] # NoData
               PROVE  copy'["l2"][x] = memory'[x]
    BY DEF L2MatchesMemory, Hits
  <2>1. Hits("l2", x) => copy["l2"][x] = memory[x]
    BY DEF IndInv, L2MatchesMemory
  <2>2. CASE x = b
    <3>1. memory'[b] = memory[b]
      BY <1>1, <2>2 DEF Moves
    <3> QED
      BY <1>1, <2>1, <2>2, <3>1 DEF Moves, Hits
  <2>3. CASE x # b
    <3>1. copy'["l2"][x] = IF x \in out \cap dirty[c] /\ Hits("l2", x)
                           THEN copy[c][x] ELSE copy["l2"][x]
      BY <1>1, <1>2, <2>3 DEF Moves
    <3>2. Hits("l2", x)
      BY <3>1 DEF Hits
    <3> QED
      BY <1>1, <2>1, <3>1, <3>2 DEF Moves
  <2> QED
    BY <2>2, <2>3
<1>8. CleanMatchesMemory'
  <2> SUFFICES ASSUME NEW x \in Blocks, copy'["d"][x] # NoData, x \notin dirty'["d"]
               PROVE  copy'["d"][x] = MemoryBlock(memory', x)
    BY DEF CleanMatchesMemory, Hits
  <2>0. Hits("d", x) /\ x \notin dirty["d"] => copy["d"][x] = MemoryBlock(memory, x)
    BY DEF IndInv, CleanMatchesMemory
  <2>1. CASE c = "d" /\ x = b
    BY <1>1, <2>1 DEF Moves
  <2>2. CASE c = "d" /\ x # b
    <3>1. x \notin out /\ copy'["d"][x] = copy["d"][x]
      BY <1>1, <1>2, <2>2 DEF Moves
    <3>2. x \notin dirty["d"]
      BY <1>1, <2>2, <3>1 DEF Moves
    <3>3. MemoryBlock(memory', x) = MemoryBlock(memory, x)
      BY <1>6, <3>2
    <3> QED
      BY <2>0, <3>1, <3>2, <3>3 DEF Hits
  <2>3. CASE c = "ir"
    <3>1. copy'["d"] = copy["d"] /\ dirty'["d"] = dirty["d"]
      BY <1>1, <2>3, ThreeCaches DEF Moves
    <3>2. MemoryBlock(memory', x) = MemoryBlock(memory, x)
      BY <1>6, <2>3, ThreeCaches
    <3> QED
      BY <2>0, <3>1, <3>2 DEF Hits
  <2> QED
    BY <2>1, <2>2, <2>3, ThreeCaches
<1>9. CodeMatchesMemory'
  <2> SUFFICES ASSUME NEW x \in Blocks \ stored, copy'["ir"][x] # NoData
               PROVE  copy'["ir"][x] = MemoryBlock(memory', x)
    BY <1>4 DEF CodeMatchesMemory, Hits
  <2>1. Hits("ir", x) => copy["ir"][x] = MemoryBlock(memory, x)
    BY DEF IndInv, CodeMatchesMemory
  <2>2. MemoryBlock(memory', x) = MemoryBlock(memory, x)
    BY <1>3, <1>6
  <2>3. CASE c = "d"
    BY <1>1, <2>1, <2>2, <2>3, ThreeCaches DEF Moves, Hits
  <2>4. CASE c = "ir"
    BY <1>1, <1>2, <2>1, <2>2, <2>4 DEF Moves, Hits
  <2> QED
    BY <2>3, <2>4, ThreeCaches
<1>10. dirty'["ir"] = {} /\ dirty'["l2"] = {}
  BY <1>1, <1>3, ThreeCaches DEF Moves
<1>11. dirty'["d"] \subseteq stored' \cap {x \in Blocks : Hits("d", x)'}
  <2> SUFFICES ASSUME NEW x \in dirty'["d"]
               PROVE  x \in Blocks /\ x \in stored /\ copy'["d"][x] # NoData
    BY <1>4 DEF Hits
  <2>1. x \in Blocks
    BY <1>5, ThreeCaches DEF TypeOK
  <2>2. CASE c = "d"
    BY <1>1, <1>2, <1>3, <2>1, <2>2 DEF Moves, Hits
  <2>3. CASE c = "ir"
    BY <1>1, <1>3, <2>1, <2>3, ThreeCaches DEF Moves, Hits
  <2> QED
    BY <2>2, <2>3, ThreeCaches
<1> QED
  BY <1>4, <1>5, <1>7, <1>8, <1>9, <1>10, <1>11 DEF IndInv, OnlyDataIsWrittenBack

LEMMA NextInvariant == IndInv /\ [Next]_vars => IndInv'
<1> SUFFICES ASSUME IndInv, [Next]_vars PROVE IndInv'
  OBVIOUS
<1>1. CASE UNCHANGED vars
  BY <1>1 DEF vars, IndInv, TypeOK, OnlyDataIsWrittenBack, L2MatchesMemory,
              CleanMatchesMemory, CodeMatchesMemory, Hits
<1>2. CASE \E b \in Blocks, w \in Words : Load(b, w) \/ Fetch(b, w)
  BY <1>2, ReadInvariant DEF Load, Fetch
<1>3. CASE \E b \in Blocks, w \in Words, v \in Values : Store(b, w, v)
  BY <1>3, StoreInvariant
<1>4. CASE \E c \in L1Caches, b \in Blocks : Transfer(c, b)
  BY <1>4, TransferInvariant
<1> QED
  BY <1>1, <1>2, <1>3, <1>4 DEF Next

-----------------------------------------------------------------------------
(* The theorems.                                                           *)

\* The strengthened invariant holds, for any caches: only the data cache's copy
\* of a block it has written may differ from memory.
THEOREM InvariantHolds == Spec => []IndInv
BY InitInvariant, NextInvariant, PTL DEF Spec

\* The types of the variables.
THEOREM TypeCorrect == Spec => []TypeOK
<1>1. IndInv => TypeOK
  BY DEF IndInv
<1> QED
  BY <1>1, InvariantHolds, PTL

\* mem2cache's assertion that a dirty victim is of the data cache never fails.
THEOREM AssertionHolds == Spec => []OnlyDataIsWrittenBack
<1>1. IndInv => OnlyDataIsWrittenBack
  BY DEF IndInv
<1> QED
  BY <1>1, InvariantHolds, PTL

\* The L2 cache's copies always equal the memory's.
THEOREM L2IsCoherent == Spec => []L2MatchesMemory
<1>1. IndInv => L2MatchesMemory
  BY DEF IndInv
<1> QED
  BY <1>1, InvariantHolds, PTL

\* Dropping a clean block of the data cache loses nothing.
THEOREM CleanIsCoherent == Spec => []CleanMatchesMemory
<1>1. IndInv => CleanMatchesMemory
  BY DEF IndInv
<1> QED
  BY <1>1, InvariantHolds, PTL

-----------------------------------------------------------------------------
(* What is read late.                                                      *)

\* Reads and stores that hit leave memory and the instruction cache alone.
LEMMA HitsMoveNothing ==
  ASSUME IndInv, [Next]_vars, ~\E c \in L1Caches, b \in Blocks : Transfer(c, b)
  PROVE  memory' = memory /\ copy'["ir"] = copy["ir"]
<1>1. CASE UNCHANGED vars
  BY <1>1 DEF vars
<1>2. CASE \E b \in Blocks, w \in Words : Load(b, w) \/ Fetch(b, w)
  BY <1>2 DEF Load, Fetch, Read
<1>3. CASE \E b \in Blocks, w \in Words, v \in Values : Store(b, w, v)
  BY <1>3, ThreeCaches DEF Store, IndInv, TypeOK
<1> QED
  BY <1>1, <1>2, <1>3 DEF Next

\* Memory only ever changes to the contents of a block, as it changes for dirty
\* victims only and those are of the data cache.
THEOREM MemoryIsNeverWrong == Spec => MemoryFollowsProgram
<1>1. ASSUME IndInv, [Next]_vars, NEW x \in Mapped, memory'[x] # memory[x]
      PROVE  memory'[x] = Contents(x)
  <2>1. PICK c \in L1Caches, b \in Blocks : Transfer(c, b)
    BY <1>1, HitsMoveNothing
  <2>2. PICK out, out2 : Moves(c, b, out, out2)
    BY <1>1, <2>1, TransferMoves
  <2>3. x \in dirty[c] /\ memory'[x] = copy[c][x]
    BY <1>1, <2>2 DEF Moves
  <2>4. c = "d" /\ Hits("d", x)
    BY <1>1, <2>3, ThreeCaches DEF IndInv
  <2> QED
    BY <2>3, <2>4 DEF Contents
<1>2. IndInv /\ [Next]_vars =>
        [\A b \in Mapped : memory'[b] # memory[b] => memory'[b] = Contents(b)]_vars
  BY <1>1
<1> QED
  BY <1>2, InvariantHolds, PTL DEF Spec, MemoryFollowsProgram

\* A copy in the instruction cache goes stale only as the data cache writes the block
\* back: a fill takes what memory holds after all write-backs of its transfer.
THEOREM CodeGoesStaleByWriteBack == Spec => StaleByWriteBack
<1>1. ASSUME IndInv, [Next]_vars, NEW x \in Blocks, CodeIsStale(x)', ~CodeIsStale(x)
      PROVE  x \in dirty["d"] /\ ~Hits("d", x)'
  <2>1. PICK c \in L1Caches, b \in Blocks : Transfer(c, b)
    BY <1>1, HitsMoveNothing DEF CodeIsStale, Hits, MemoryBlock
  <2>2. PICK out, out2 : Moves(c, b, out, out2)
    BY <1>1, <2>1, TransferMoves
  <2>3. Mapped \subseteq Blocks /\ NoData \notin Data
    BY HierarchyAssumption
  <2>4. CASE c = "ir"
    <3>1. memory'[x] = memory[x] \/ x \notin Mapped
      BY <1>1, <2>2, <2>4 DEF Moves, IndInv
    <3>2. MemoryBlock(memory', x) = MemoryBlock(memory, x)
      BY <3>1 DEF MemoryBlock
    <3>3. x = b \/ copy'["ir"][x] \in {NoData, copy["ir"][x]}
      BY <2>2, <2>4 DEF Moves
    <3> QED
      BY <1>1, <2>2, <2>4, <3>2, <3>3 DEF Moves, CodeIsStale, Hits
  <2>5. CASE c = "d"
    <3>1. copy'["ir"] = copy["ir"]
      BY <2>2, <2>5, ThreeCaches DEF Moves
    <3>2. x \in Mapped /\ memory'[x] # memory[x]
      BY <1>1, <3>1 DEF CodeIsStale, Hits, MemoryBlock
    <3>3. x \in out \cap dirty["d"]
      BY <2>2, <2>5, <3>2 DEF Moves
    <3>4. x # b
      BY <2>2, <3>3 DEF Moves
    <3> QED
      BY <2>2, <2>3, <2>5, <3>3, <3>4 DEF Moves, Hits
  <2> QED
    BY <2>4, <2>5, ThreeCaches
<1>2. IndInv /\ [Next]_vars =>
        [\A b \in Blocks : CodeIsStale(b)' /\ ~CodeIsStale(b) =>
                              b \in dirty["d"] /\ ~Hits("d", b)']_vars
  BY <1>1
<1> QED
  BY <1>2, InvariantHolds, PTL DEF Spec, StaleByWriteBack

-----------------------------------------------------------------------------
(* The caches implement one memory.                                        *)

\* The program's view of the blocks.
View == [b \in Blocks |-> Contents(b)]

LEMMA ViewType ==
  ASSUME TypeOK
  PROVE  View \in [Blocks -> [Words -> Values]]
BY ThreeCaches, MemoryBlockType DEF View, Contents, TypeOK, Hits, Data

LEMMA ReadRefines ==
  ASSUME IndInv, NEW b \in Blocks, NEW w \in Words, Load(b, w) \/ Fetch(b, w)
  PROVE  Flat!Next
<1>1. UNCHANGED <<memory, copy, dirty, stored>>
  BY DEF Load, Fetch, Read
<1>2. View' = View
  BY <1>1 DEF View, Contents, Hits
<1>3. TypeOK
  BY DEF IndInv
<1>4. CASE Load(b, w)
  <2>1. Hits("d", b) /\ served' = [op |-> "load", blk |-> b, word |-> w, val |-> copy["d"][b][w]]
    BY <1>4 DEF Load, Read
  <2>2. copy["d"][b][w] \in Values
    BY <1>3, <2>1, ThreeCaches DEF TypeOK, Hits, Data
  <2>3. View[b][w] = copy["d"][b][w]
    BY <2>1 DEF View, Contents
  <2>4. Flat!Load(b, w, copy["d"][b][w])
    BY <1>1, <1>2, <2>1, <2>3 DEF Flat!Load, Flat!Serve, View
  <2> QED
    BY <2>2, <2>4 DEF Flat!Next
<1>5. CASE Fetch(b, w)
  <2>1. Hits("ir", b) /\ served' = [op |-> "fetch", blk |-> b, word |-> w, val |-> copy["ir"][b][w]]
    BY <1>5 DEF Fetch, Read
  <2>2. copy["ir"][b][w] \in Values
    BY <1>3, <2>1, ThreeCaches DEF TypeOK, Hits, Data
  <2>3. b \notin stored => View[b][w] = copy["ir"][b][w]
    <3> SUFFICES ASSUME b \notin stored
                 PROVE  Contents(b) = copy["ir"][b]
      BY DEF View
    <3>1. copy["ir"][b] = MemoryBlock(memory, b)
      BY <2>1 DEF IndInv, CodeMatchesMemory
    <3>2. b \notin dirty["d"]
      BY DEF IndInv
    <3> QED
      BY <3>1, <3>2 DEF IndInv, CleanMatchesMemory, Contents
  <2>4. Flat!Fetch(b, w, copy["ir"][b][w])
    BY <1>1, <1>2, <2>1, <2>3 DEF Flat!Fetch, Flat!Serve, View
  <2> QED
    BY <2>2, <2>4 DEF Flat!Next
<1> QED
  BY <1>4, <1>5

LEMMA StoreRefines ==
  ASSUME IndInv, NEW b \in Blocks, NEW w \in Words, NEW v \in Values, Store(b, w, v)
  PROVE  Flat!Next
<1>1. TypeOK
  BY DEF IndInv
<1>2. copy'["d"] = [copy["d"] EXCEPT ![b] = [copy["d"][b] EXCEPT ![w] = v]]
      /\ copy'["d"][b] \in Data
  BY <1>1, StoreStep
<1>3. memory' = memory /\ served' = served /\ stored' = stored \cup {b} /\ Hits("d", b)
  BY DEF Store
<1>4. copy["d"] \in [Blocks -> Data \cup {NoData}]
  BY <1>1, ThreeCaches DEF TypeOK
<1>5. \A x \in Blocks :
        Contents(x)' = IF x = b THEN [Contents(x) EXCEPT ![w] = v] ELSE Contents(x)
  BY <1>2, <1>3, <1>4, HierarchyAssumption DEF Contents, Hits
<1>6. View' = [x \in Blocks |-> IF x = b THEN [View[x] EXCEPT ![w] = v] ELSE View[x]]
  BY <1>5 DEF View
<1>7. Flat!Store(b, w, v)
  BY <1>3, <1>6 DEF Flat!Store, View
<1> QED
  BY <1>7 DEF Flat!Next

\* Moving blocks about changes nothing that the program sees, except that the
\* eviction of a block outside the regions loses what was stored to it.
LEMMA TransferRefines ==
  ASSUME IndInv, NEW c \in L1Caches, NEW b \in Blocks, Transfer(c, b)
  PROVE  [Flat!Next]_(Flat!vars)
<1>1. PICK out, out2 : Moves(c, b, out, out2)
  BY TransferMoves
<1>2. ~Hits(c, b) /\ UNCHANGED <<served, stored>>
  BY DEF Transfer
<1>3. NoData \notin Data
  BY HierarchyAssumption
<1>4. \A x \in Blocks : Hits("d", x) /\ x \notin dirty["d"] => copy["d"][x] = MemoryBlock(memory, x)
  BY DEF IndInv, CleanMatchesMemory
\* Only what the data cache evicts may change.
<1>5. ASSUME NEW x \in Blocks, c = "d" => x \notin out
      PROVE  Contents(x)' = Contents(x)
  <2>1. MemoryBlock(memory', x) = MemoryBlock(memory, x)
    BY <1>1, <1>5, ThreeCaches DEF Moves, IndInv, MemoryBlock
  <2>2. CASE c = "ir"
    <3>1. copy'["d"] = copy["d"]
      BY <1>1, <2>2, ThreeCaches DEF Moves
    <3> QED
      BY <2>1, <3>1 DEF Contents, Hits
  <2>3. CASE c = "d" /\ x = b
    <3>1. copy'["d"][x] = MemoryBlock(memory', x)
      BY <1>1, <2>3 DEF Moves
    <3> QED
      BY <1>2, <2>1, <2>3, <3>1 DEF Contents, Hits
  <2>4. CASE c = "d" /\ x # b
    <3>1. copy'["d"][x] = copy["d"][x]
      BY <1>1, <1>5, <2>4 DEF Moves
    <3> QED
      BY <2>1, <3>1 DEF Contents, Hits
  <2> QED
    BY <2>2, <2>3, <2>4, ThreeCaches
\* Inside the regions, it was written back.
<1>6. ASSUME NEW x \in out, c = "d"
      PROVE  Contents(x)' = MemoryBlock(memory', x) /\ (x \in Mapped => Contents(x)' = Contents(x))
  <2>1. x \in Blocks /\ x # b /\ Hits("d", x)
    BY <1>1, <1>6 DEF Moves
  <2>2. copy'["d"][x] = NoData
    BY <1>1, <1>6, <2>1 DEF Moves
  <2>3. x \in Mapped => memory'[x] = copy["d"][x]
    BY <1>1, <1>4, <1>6, <2>1 DEF Moves, MemoryBlock
  <2> QED
    BY <2>1, <2>2, <2>3 DEF Contents, Hits, MemoryBlock
<1>7. CASE c = "d" /\ \E x \in out : x \notin Mapped
  <2>1. PICK x \in out : x \notin Mapped
    BY <1>7
  <2>2. x \in Blocks /\ \A y \in Blocks : y # x => y \notin out
    BY <1>1, <2>1 DEF Moves
  <2>3. Contents(x)' = Flat!Zeros
    BY <1>6, <1>7, <2>1 DEF MemoryBlock, Flat!Zeros
  <2>4. View' = [y \in Blocks |-> IF y = x THEN Flat!Zeros ELSE View[y]]
    BY <1>5, <2>2, <2>3 DEF View
  <2>5. Flat!Forget(x)
    BY <1>2, <2>1, <2>4 DEF Flat!Forget, View
  <2> QED
    BY <2>2, <2>5 DEF Flat!Next
<1>8. CASE ~(c = "d" /\ \E x \in out : x \notin Mapped)
  <2>1. \A x \in Blocks : Contents(x)' = Contents(x)
    BY <1>5, <1>6, <1>8
  <2>2. View' = View
    BY <2>1 DEF View
  <2> QED
    BY <1>2, <2>2 DEF Flat!vars, View
<1> QED
  BY <1>7, <1>8

\* Caches of any size, evicting any blocks, serve every load with what was last
\* stored (outside the regions, since the block was last evicted), and every fetch from a block that was not stored to with its contents.
THEOREM CachesAreOneMemory == Spec => ServesAsFlatMemory
<1>1. Init => Flat!Init
  <2> SUFFICES ASSUME Init PROVE Flat!Init
    OBVIOUS
  <2>1. View \in [Blocks -> [Words -> Values]]
    BY InitInvariant, ViewType DEF IndInv
  <2>3. \A x \in Blocks \ Mapped : View[x] = Flat!Zeros
    BY ThreeCaches DEF Init, View, Contents, Hits, MemoryBlock, Flat!Zeros
  <2> QED
    BY <2>1, <2>3 DEF Init, Flat!Init, Flat!Nothing, View
<1>2. IndInv /\ [Next]_vars => [Flat!Next]_(Flat!vars)
  <2> SUFFICES ASSUME IndInv, [Next]_vars PROVE [Flat!Next]_(Flat!vars)
    OBVIOUS
  <2>1. CASE UNCHANGED vars
    BY <2>1 DEF vars, Flat!vars, Contents, Hits
  <2>2. CASE \E b \in Blocks, w \in Words : Load(b, w) \/ Fetch(b, w)
    BY <2>2, ReadRefines
  <2>3. CASE \E b \in Blocks, w \in Words, v \in Values : Store(b, w, v)
    BY <2>3, StoreRefines
  <2>4. CASE \E c \in L1Caches, b \in Blocks : Transfer(c, b)
    BY <2>4, TransferRefines
  <2> QED
    BY <2>1, <2>2, <2>3, <2>4 DEF Next
<1> QED
  BY <1>1, <1>2, InvariantHolds, PTL DEF Spec, ServesAsFlatMemory, Flat!Spec
=============================================================================
