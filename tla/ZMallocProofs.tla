--------------------------- MODULE ZMallocProofs ---------------------------
(***************************************************************************)
(* Proofs about the allocator: the heap is well formed after any sequence  *)
(* of calls, what is lent stays with its caller, and nothing stays behind  *)
(* when everything was given back.                                         *)
(*                                                                         *)
(* The first part is arithmetic: what the size classes promise.  The       *)
(* second states the invariant (Heap).  Then come the lists, the chunks of *)
(* a block, the primitive steps (push, pick, cut, merge, add and remove a  *)
(* block), the calls made of them, and last the actions of the module.     *)
(***************************************************************************)
EXTENDS ZMalloc, TLAPS, WellFoundedInduction, SequenceTheorems, FiniteSetTheorems

-----------------------------------------------------------------------------
(* Powers of two and the classes of sizes *)

\* A non-empty set of naturals has a least element.
LEMMA LeastNat ==
    ASSUME NEW S, S \subseteq Nat, S # {}
    PROVE  \E m \in S : \A n \in S : m <= n
<1>1. PICK m \in S : \A n \in S : ~(<<n, m>> \in OpToRel(<, Nat))
  BY NatLessThanWellFounded, WFMin
<1>2. \A n \in S : ~(n < m)
  BY <1>1 DEF OpToRel
<1> QED BY <1>2

\* Min is the least member.
LEMMA MinOf ==
    ASSUME NEW S, S \subseteq Nat, S # {}
    PROVE  Min(S) \in S /\ \A n \in S : Min(S) <= n
<1>1. \E m \in S : \A n \in S : m <= n
  BY LeastNat
<1> QED BY <1>1 DEF Min

\* The remainder of a division by d is below d.
LEMMA Divided ==
    ASSUME NEW n \in Nat, NEW d \in Nat, d > 0
    PROVE  /\ n \div d \in Nat
           /\ (n \div d) * d <= n /\ n < (n \div d) * d + d
BY SMT

\* The powers of two that a size of 32 bits may be, one by one.
LEMMA Doubles ==
    ASSUME NEW k \in 0 .. 31
    PROVE  2^k \in Nat /\ 2^k >= 1 /\ 2^(k + 1) \in Nat /\ 2^(k + 1) = 2 * 2^k
<1>0. CASE k = 0
  BY <1>0, SMT
<1>1. CASE k = 1
  BY <1>1, SMT
<1>2. CASE k = 2
  BY <1>2, SMT
<1>3. CASE k = 3
  BY <1>3, SMT
<1>4. CASE k = 4
  BY <1>4, SMT
<1>5. CASE k = 5
  BY <1>5, SMT
<1>6. CASE k = 6
  BY <1>6, SMT
<1>7. CASE k = 7
  BY <1>7, SMT
<1>8. CASE k = 8
  BY <1>8, SMT
<1>9. CASE k = 9
  BY <1>9, SMT
<1>10. CASE k = 10
  BY <1>10, SMT
<1>11. CASE k = 11
  BY <1>11, SMT
<1>12. CASE k = 12
  BY <1>12, SMT
<1>13. CASE k = 13
  BY <1>13, SMT
<1>14. CASE k = 14
  BY <1>14, SMT
<1>15. CASE k = 15
  BY <1>15, SMT
<1>16. CASE k = 16
  BY <1>16, SMT
<1>17. CASE k = 17
  BY <1>17, SMT
<1>18. CASE k = 18
  BY <1>18, SMT
<1>19. CASE k = 19
  BY <1>19, SMT
<1>20. CASE k = 20
  BY <1>20, SMT
<1>21. CASE k = 21
  BY <1>21, SMT
<1>22. CASE k = 22
  BY <1>22, SMT
<1>23. CASE k = 23
  BY <1>23, SMT
<1>24. CASE k = 24
  BY <1>24, SMT
<1>25. CASE k = 25
  BY <1>25, SMT
<1>26. CASE k = 26
  BY <1>26, SMT
<1>27. CASE k = 27
  BY <1>27, SMT
<1>28. CASE k = 28
  BY <1>28, SMT
<1>29. CASE k = 29
  BY <1>29, SMT
<1>30. CASE k = 30
  BY <1>30, SMT
<1>31. CASE k = 31
  BY <1>31, SMT
<1> QED BY <1>0, <1>1, <1>2, <1>3, <1>4, <1>5, <1>6, <1>7,
  <1>8, <1>9, <1>10, <1>11, <1>12, <1>13, <1>14, <1>15,
  <1>16, <1>17, <1>18, <1>19, <1>20, <1>21, <1>22, <1>23,
  <1>24, <1>25, <1>26, <1>27, <1>28, <1>29, <1>30, <1>31, SMT

\* A smaller exponent, at least half the power.
LEMMA PowersGrow ==
    ASSUME NEW i \in 0 .. 32, NEW j \in 0 .. 32, i < j
    PROVE  2^(i + 1) <= 2^j
<1> DEFINE Bad == {x \in i + 1 .. 32 : ~(2^(i + 1) <= 2^x)}
<1> SUFFICES ASSUME Bad # {} PROVE FALSE
  OBVIOUS
<1>0. i \in 0 .. 31 /\ Bad \subseteq Nat
  OBVIOUS
<1>5. 2^(i + 1) \in Nat
  BY <1>0, Doubles
<1>1. PICK m \in Bad : \A n \in Bad : m <= n
  BY <1>0, LeastNat
<1>2. m # i + 1
  BY <1>1, <1>5
<1>3. m - 1 \in i + 1 .. 32 /\ m - 1 \notin Bad /\ m - 1 \in 0 .. 31 /\ m - 1 + 1 = m
  BY <1>1, <1>2
<1>4. 2^(i + 1) <= 2^(m - 1) /\ 2^m = 2 * 2^(m - 1) /\ 2^(m - 1) \in Nat
  BY <1>3, Doubles
<1> QED BY <1>1, <1>4, <1>5

\* FirstBitIndex finds the leading bit of n.
LEMMA FirstBit ==
    ASSUME NEW n \in Nat, n > 0, n < 2^32
    PROVE  /\ FirstBitIndex(n) \in 0 .. 31
           /\ 2^FirstBitIndex(n) <= n /\ n < 2^(FirstBitIndex(n) + 1)
<1> DEFINE Above == {x \in 0 .. 32 : n < 2^x}
<1>0. Above \subseteq Nat /\ 32 \in Above
  OBVIOUS
<1>1. PICK m \in Above : \A x \in Above : m <= x
  BY <1>0, LeastNat
<1>2. m # 0
  <2>1. \A x : x = 0 => 2^x = 1
    OBVIOUS
  <2> QED BY <1>1, <2>1
<1>3. m - 1 \in 0 .. 31 /\ m - 1 \notin Above /\ m - 1 + 1 = m
  BY <1>1, <1>2
<1>4. 2^(m - 1) <= n
  BY <1>3, Doubles
<1>5. n < 2^(m - 1 + 1)
  BY <1>1, <1>3
<1>6. \E k \in 0 .. 31 : 2^k <= n /\ n < 2^(k + 1)
  BY <1>3, <1>4, <1>5
<1> QED BY <1>6 DEF FirstBitIndex

\* No other bit is the leading one.
LEMMA FirstBitIs ==
    ASSUME NEW n \in Nat, NEW k \in 0 .. 31, 2^k <= n, n < 2^(k + 1)
    PROVE  FirstBitIndex(n) = k
<1>1. 2^k \in Nat /\ 2^(k + 1) \in Nat
  BY Doubles
<1>2. ASSUME NEW j \in 0 .. 31, 2^j <= n, n < 2^(j + 1) PROVE j = k
  <2>1. ~(j < k)
    <3>1. ASSUME j < k PROVE 2^(j + 1) <= 2^k
      <4>1. j \in 0 .. 32 /\ k \in 0 .. 32
        OBVIOUS
      <4> QED BY <3>1, <4>1, PowersGrow
    <3> QED BY <1>1, <1>2, <3>1, Doubles
  <2>2. ~(k < j)
    <3>1. ASSUME k < j PROVE 2^(k + 1) <= 2^j
      <4>1. j \in 0 .. 32 /\ k \in 0 .. 32
        OBVIOUS
      <4> QED BY <3>1, <4>1, PowersGrow
    <3> QED BY <1>1, <1>2, <3>1, Doubles
  <2> QED BY <2>1, <2>2
<1> QED BY <1>2 DEF FirstBitIndex

\* CeilPowerOf2 rounds up.
LEMMA CeilPower ==
    ASSUME NEW n \in Nat, n <= 2^32
    PROVE  CeilPowerOf2(n) \in Nat /\ CeilPowerOf2(n) >= n
<1>1. CASE n <= 1
  BY <1>1 DEF CeilPowerOf2
<1>2. CASE n > 1
  <2>1. n - 1 \in Nat /\ n - 1 > 0 /\ n - 1 < 2^32
    BY <1>2
  <2>2. FirstBitIndex(n - 1) \in 0 .. 31 /\ n - 1 < 2^(FirstBitIndex(n - 1) + 1)
    BY <2>1, FirstBit
  <2>3. 2^(FirstBitIndex(n - 1) + 1) \in Nat
    BY <2>2, Doubles
  <2> QED BY <1>2, <2>2, <2>3 DEF CeilPowerOf2
<1> QED BY <1>1, <1>2

\* AlignValue rounds up to a multiple.
LEMMA AlignUp ==
    ASSUME NEW n \in Nat, NEW up \in Nat, up > 0
    PROVE  /\ AlignValue(n, up) \in Nat
           /\ n <= AlignValue(n, up) /\ AlignValue(n, up) < n + up
           /\ \E q \in Nat : AlignValue(n, up) = q * up
<1> DEFINE q == (n + up - 1) \div up
<1>1. q \in Nat /\ q * up <= n + up - 1 /\ n + up - 1 < q * up + up
  BY Divided
<1>2. q * up \in Nat /\ AlignValue(n, up) = q * up
  BY <1>1 DEF AlignValue
<1> QED BY <1>1, <1>2

\* Aligning does not pass a multiple.
LEMMA AlignBelow ==
    ASSUME NEW n \in Nat, NEW up \in Nat, up > 0, NEW m \in Nat, n <= m * up
    PROVE  AlignValue(n, up) <= m * up
<1>0. AlignValue(n, up) < n + up /\ \E q \in Nat : AlignValue(n, up) = q * up
  BY AlignUp
<1>1. PICK q \in Nat : AlignValue(n, up) = q * up /\ q * up < n + up
  BY <1>0
<1>2. q * up < (m + 1) * up
  BY <1>1
<1>3. q < m + 1
  <2>1. CASE q >= m + 1
    <3>1. q * up >= (m + 1) * up
      BY <2>1
    <3> QED BY <1>2, <3>1
  <2> QED BY <2>1
<1>4. q <= m
  BY <1>3
<1>5. q * up <= m * up
  BY <1>4
<1> QED BY <1>1, <1>5

\* n with the bits below its three leading ones cleared, and its number.
Lead(n) == (n \div 2^ThirdBitOrder(n)) * 2^ThirdBitOrder(n)
Third(n) == ThirdSequence(ThirdBitOrder(n), n)

\* n lies between q * 2^o and (q + 1) * 2^o, q of three bits.
LEMMA ThirdFacts ==
    ASSUME NEW n \in Nat, n >= 4, n < 2^32
    PROVE  \E o \in 0 .. 29, q \in 4 .. 7 :
             /\ ThirdBitOrder(n) = o /\ FirstBitIndex(n) = o + 2
             /\ Third(n) = 4 * o + q - 4 /\ Lead(n) = q * 2^o
             /\ q * 2^o <= n /\ n < q * 2^o + 2^o
<1> DEFINE k == FirstBitIndex(n)
<1>1. k \in 0 .. 31 /\ 2^k <= n /\ n < 2^(k + 1)
  BY FirstBit
<1> HIDE DEF k
<1>2. k # 0 /\ k # 1
  <2>1. k = 0 => 2^(k + 1) = 2
    OBVIOUS
  <2>2. k = 1 => 2^(k + 1) = 4
    OBVIOUS
  <2> QED BY <1>1, <2>1, <2>2
<1> DEFINE o == k - 2
<1>3. o \in 0 .. 29 /\ ThirdBitOrder(n) = o /\ k = o + 2
  BY <1>1, <1>2 DEF ThirdBitOrder, k
<1> HIDE DEF o
<1> DEFINE u == 2^o
<1>4. u \in Nat /\ u >= 1 /\ 4 * u <= n /\ n < 8 * u
  <2>1. o + 1 \in 0 .. 31 /\ o + 1 + 1 = k /\ o \in 0 .. 31
    BY <1>3
  <2>2. u \in Nat /\ u >= 1 /\ 2^(o + 1) = 2 * u
    BY <2>1, Doubles
  <2>3. 2^(o + 1 + 1) = 2 * 2^(o + 1)
    BY <2>1, Doubles
  <2>4. 2^k = 4 * u
    BY <2>1, <2>2, <2>3
  <2>5. 2^(k + 1) = 2 * 2^k
    BY <1>1, Doubles
  <2> QED BY <1>1, <2>2, <2>4, <2>5
<1> HIDE DEF u
<1> DEFINE q == n \div u
<1>5. q \in Nat /\ q * u <= n /\ n < q * u + u
  BY <1>4, Divided
<1>6. q \in 4 .. 7
  <2>1. CASE q <= 3
    <3>1. q * u <= 3 * u
      BY <1>4, <1>5, <2>1
    <3> QED BY <1>4, <1>5, <3>1
  <2>2. CASE q >= 8
    <3>1. q * u >= 8 * u
      BY <1>4, <1>5, <2>2
    <3> QED BY <1>4, <1>5, <3>1
  <2> QED BY <1>5, <2>1, <2>2
<1>7. ThirdBitOrder(n) = o /\ u = 2^o
  BY <1>3 DEF u
<1>8. Lead(n) = q * u
  BY <1>7 DEF Lead
<1>9. Third(n) = 4 * o + q - 4
  <2>1. q % 4 = q - 4
    BY <1>6
  <2> HIDE DEF q
  <2>2. q = n \div 2^o
    BY <1>7 DEF q
  <2> QED BY <1>3, <1>6, <2>1, <2>2 DEF Third, ThirdSequence
<1> HIDE DEF q
<1>10. q * 2^o = q * u
  BY <1>7
<1>11. FirstBitIndex(n) = o + 2
  BY <1>3 DEF k
<1> QED BY <1>3, <1>5, <1>6, <1>7, <1>8, <1>9, <1>10, <1>11

\* Sizes of a lower class are smaller than the leading part of a size of a
\* higher one.
LEMMA ThirdOrdered ==
    ASSUME NEW m \in Nat, m >= 4, m < 2^32, NEW n \in Nat, n >= 4, n < 2^32
    PROVE  /\ Third(m) \in Nat /\ Lead(m) \in Nat /\ Lead(m) <= m /\ Lead(m) >= 4
           /\ Third(m) < Third(n) => m < Lead(n)
           /\ Third(m) = Third(n) => Lead(m) = Lead(n)
           /\ Third(m) <= Third(n) <=> Lead(m) <= n
<1>1. PICK o \in 0 .. 29, q \in 4 .. 7 :
        Third(m) = 4 * o + q - 4 /\ Lead(m) = q * 2^o /\ q * 2^o <= m /\ m < q * 2^o + 2^o
  BY ThirdFacts
<1>2. PICK p \in 0 .. 29, r \in 4 .. 7 :
        Third(n) = 4 * p + r - 4 /\ Lead(n) = r * 2^p /\ r * 2^p <= n /\ n < r * 2^p + 2^p
  BY ThirdFacts
<1>0. o \in 0 .. 31 /\ p \in 0 .. 31 /\ o \in 0 .. 32 /\ p \in 0 .. 32
  OBVIOUS
<1>3. /\ 2^o \in Nat /\ 2^o >= 1 /\ 2^(o + 1) = 2 * 2^o
      /\ 2^p \in Nat /\ 2^p >= 1 /\ 2^(p + 1) = 2 * 2^p
  BY <1>0, Doubles
<1> DEFINE u == 2^o
           v == 2^p
<1>4. u \in Nat /\ u >= 1 /\ v \in Nat /\ v >= 1 /\ (o = p => u = v)
  BY <1>3
<1>5. o < p => 2 * u <= v
  BY <1>0, <1>3, PowersGrow
<1>6. /\ Third(m) = 4 * o + q - 4 /\ Lead(m) = q * u /\ q * u <= m /\ m < q * u + u
      /\ Third(n) = 4 * p + r - 4 /\ Lead(n) = r * v /\ r * v <= n
  BY <1>1, <1>2
<1> HIDE DEF u, v
<1>7. ASSUME Third(m) < Third(n) PROVE m < Lead(n)
  <2>1. CASE o < p
    <3>1. q * u + u <= 8 * u /\ r * v >= 4 * v
      BY <1>4
    <3> QED BY <1>4, <1>5, <1>6, <2>1, <3>1
  <2>2. CASE o = p /\ q < r
    <3>1. r * u >= (q + 1) * u
      BY <1>4, <2>2
    <3>2. (q + 1) * u = q * u + u
      BY <1>4
    <3> QED BY <1>4, <1>6, <2>2, <3>1, <3>2
  <2> QED BY <1>6, <1>7, <2>1, <2>2
<1>8. ASSUME Third(m) = Third(n) PROVE Lead(m) = Lead(n)
  <2>1. o = p /\ q = r
    BY <1>6, <1>8
  <2> QED BY <1>4, <1>6, <2>1
<1>9. q * u \in Nat /\ q * u >= 4
  <2>1. q * u >= 4 * u
    BY <1>4
  <2> QED BY <1>4, <2>1
<1>10. ASSUME Third(n) < Third(m) PROVE n < Lead(m)
  <2>2. p < o => 2 * v <= u
    BY <1>0, <1>3, PowersGrow DEF u, v
  <2>3. n < r * v + v
    BY <1>2 DEF v
  <2>4. CASE p < o
    <3>1. r * v + v <= 8 * v /\ q * u >= 4 * u
      BY <1>4
    <3> QED BY <1>4, <1>6, <2>2, <2>3, <2>4, <3>1
  <2>5. CASE o = p /\ r < q
    <3>1. q * u >= (r + 1) * u
      BY <1>4, <2>5
    <3>2. (r + 1) * u = r * u + u
      BY <1>4
    <3> QED BY <1>4, <1>6, <2>3, <2>5, <3>1, <3>2
  <2> QED BY <1>6, <1>10, <2>4, <2>5
<1>11. Third(m) \in Nat /\ Third(n) \in Nat
  BY <1>6
<1>12. Lead(n) <= n /\ Lead(n) \in Nat
  <2>1. r * v \in Nat
    BY <1>4
  <2> QED BY <1>6, <2>1
<1> QED BY <1>6, <1>7, <1>8, <1>9, <1>10, <1>11, <1>12

\* AlignThirdBit rounds up: to no less than n and past no leading part.
LEMMA RoundsUp ==
    ASSUME NEW n \in Nat, n >= 4, n < 2^31
    PROVE  /\ AlignThirdBit(n) \in Nat /\ n <= AlignThirdBit(n) /\ AlignThirdBit(n) < 2^32
           /\ n <= Lead(AlignThirdBit(n))
           /\ \A m \in Nat : n <= m /\ m < 2^32 /\ Lead(m) = m => Lead(AlignThirdBit(n)) <= m
<1>1. n < 2^32
  OBVIOUS
<1>2. PICK o \in 0 .. 29, q \in 4 .. 7 :
        /\ FirstBitIndex(n) = o + 2 /\ Lead(n) = q * 2^o
        /\ Third(n) = 4 * o + q - 4
        /\ q * 2^o <= n /\ n < q * 2^o + 2^o
  BY <1>1, ThirdFacts
<1> DEFINE u == 2^o
           r == AlignThirdBit(n)
<1>0. o \in 0 .. 31 /\ o + 1 \in 0 .. 31 /\ o + 2 \in 0 .. 31
  OBVIOUS
<1>3. u \in Nat /\ u >= 1 /\ 2^(o + 1) = 2 * u
  BY <1>0, Doubles
<1>4. 2^(o + 2 + 1) = 8 * u /\ 2^(o + 2) = 4 * u
  <2>1. 2^(o + 1 + 1) = 2 * 2^(o + 1)
    BY <1>0, Doubles
  <2>2. 2^(o + 2 + 1) = 2 * 2^(o + 2)
    BY <1>0, Doubles
  <2>3. o + 1 + 1 = o + 2
    OBVIOUS
  <2> QED BY <1>3, <2>1, <2>2, <2>3
<1>5. r = n + u - 1
  <2>1. FillRight(n) = 8 * u - 1
    BY <1>2, <1>4 DEF FillRight
  <2>2. (8 * u - 1) \div 8 = u - 1
    <3> HIDE DEF u
    <3> QED BY <1>3
  <2> QED BY <1>3, <2>1, <2>2 DEF AlignThirdBit
<1>6. q * u <= n /\ n < q * u + u /\ 4 * u <= q * u /\ q * u + u <= 8 * u /\ Lead(n) = q * u
  <2>1. 4 * u <= q * u /\ q * u + u <= 8 * u
    <3> HIDE DEF u
    <3> QED BY <1>3
  <2> QED BY <1>2, <2>1
<1>7. r \in Nat /\ n <= r /\ r < 2^32
  <2> HIDE DEF u
  <2> QED BY <1>3, <1>5, <1>6
<1>8. PICK p \in 0 .. 29, t \in 4 .. 7 :
        /\ FirstBitIndex(r) = p + 2 /\ Lead(r) = t * 2^p /\ Third(r) = 4 * p + t - 4
        /\ t * 2^p <= r /\ r < t * 2^p + 2^p
  BY <1>7, ThirdFacts
<1>9. CASE r < 8 * u
  <2>1. FirstBitIndex(r) = o + 2
    <3>1. 2^(o + 2) <= r /\ r < 2^(o + 2 + 1)
      BY <1>3, <1>4, <1>6, <1>7, <1>9
    <3>2. o + 2 \in 0 .. 31
      OBVIOUS
    <3> QED BY <1>7, <3>1, <3>2, FirstBitIs
  <2>2. p = o /\ Lead(r) = t * u /\ t * u <= r /\ r < t * u + u
    BY <1>8, <2>1
  <2> HIDE DEF u, r
  <2>3. t * u \in Nat
    BY <1>3
  <2>4. n <= Lead(r)
    BY <1>3, <1>5, <2>2, <2>3
  <2>5. ASSUME NEW m \in Nat, n <= m, m < 2^32, Lead(m) = m PROVE Lead(r) <= m
    <3>1. Third(r) <= Third(m) => Lead(r) <= m
      BY <1>7, <1>1, <2>5, ThirdOrdered
    <3>2. Third(m) < Third(r) => m < Lead(r)
      BY <1>7, <1>1, <2>5, ThirdOrdered
    <3>3. Third(m) \in Nat /\ Third(r) \in Nat
      BY <1>7, <1>1, <2>5, ThirdOrdered
    <3>4. ASSUME Third(m) < Third(r) PROVE FALSE
      <4>1. Third(n) <= Third(m)
        <5>1. Lead(n) <= m
          BY <1>3, <1>6, <2>5
        <5> QED BY <1>1, <2>5, <5>1, ThirdOrdered
      <4>2. t # q
        BY <1>2, <1>8, <2>2, <3>3, <3>4, <4>1
      <4>3. t = q + 1
        <5>1. CASE t < q
          <6>1. t * u + u <= q * u
            BY <1>3, <5>1
          <6> QED BY <1>3, <1>6, <1>7, <2>2, <6>1
        <5>2. CASE t >= q + 2
          <6>1. t * u >= q * u + 2 * u
            BY <1>3, <5>2
          <6> QED BY <1>3, <1>5, <1>6, <2>2, <6>1
        <5> QED BY <4>2, <5>1, <5>2
      <4>4. Third(m) = Third(n)
        BY <1>2, <1>8, <2>2, <3>3, <3>4, <4>1, <4>3
      <4>5. Lead(m) = Lead(n)
        BY <1>1, <2>5, <4>4, ThirdOrdered
      <4>6. n = q * u
        <5>1. q * u \in Nat
          BY <1>3
        <5> QED BY <1>6, <2>5, <4>5, <5>1
      <4>7. t * u = q * u + u
        BY <1>3, <4>3
      <4> QED BY <1>3, <1>5, <2>2, <4>6, <4>7
    <3> QED BY <3>1, <3>3, <3>4
  <2>6. Lead(AlignThirdBit(n)) = Lead(r)
    BY DEF r
  <2> QED BY <1>7, <2>4, <2>5, <2>6 DEF r
<1>10. CASE r >= 8 * u
  <2>1. r < 16 * u
    <3> HIDE DEF u, r
    <3> QED BY <1>3, <1>5, <1>6
  <2>2. FirstBitIndex(r) = o + 3 /\ o + 3 \in 0 .. 31
    <3>0. o # 29
      <4>1. o = 29 => 2^o = 2^29
        OBVIOUS
      <4>2. o = 29 => 4 * u >= 2^31
        BY <4>1
      <4> QED BY <1>6, <4>2
    <3>1. o + 2 + 1 = o + 3 /\ o + 3 \in 0 .. 31
      BY <3>0
    <3>2. 2^(o + 3) = 8 * u
      BY <1>4, <3>1
    <3>3. 2^(o + 3 + 1) = 2 * 2^(o + 3)
      BY <3>1, Doubles
    <3>4. 2^(o + 3) <= r /\ r < 2^(o + 3 + 1)
      BY <1>3, <1>10, <2>1, <3>2, <3>3
    <3> QED BY <1>7, <3>1, <3>4, FirstBitIs
  <2>3. p = o + 1
    BY <1>8, <2>2
  <2>4. 2^p = 2 * u
    BY <1>3, <2>3
  <2>5. t * (2 * u) <= r /\ r < t * (2 * u) + 2 * u /\ Lead(r) = t * (2 * u)
    BY <1>8, <2>4
  <2> HIDE DEF u, r
  <2>6. t = 4
    <3>1. CASE t >= 5
      <4>1. t * (2 * u) >= 10 * u
        BY <1>3, <3>1
      <4> QED BY <1>3, <1>5, <1>6, <2>5, <4>1
    <3> QED BY <3>1
  <2>7. Lead(r) = 8 * u
    BY <1>3, <2>5, <2>6
  <2>8. n <= Lead(r)
    BY <1>3, <1>6, <2>7
  <2>9. ASSUME NEW m \in Nat, n <= m, m < 2^32, Lead(m) = m PROVE Lead(r) <= m
    <3>1. CASE m < 8 * u
      <4>1. q = 7
        <5>1. CASE q <= 6
          <6>1. q * u <= 6 * u
            BY <1>3, <5>1
          <6> QED BY <1>3, <1>5, <1>6, <1>10, <6>1
        <5> QED BY <5>1
      <4>2. n > 7 * u
        BY <1>3, <1>5, <1>10
      <4>3. FirstBitIndex(m) = o + 2
        <5>1. 2^(o + 2) <= m /\ m < 2^(o + 2 + 1) /\ o + 2 \in 0 .. 31
          BY <1>3, <1>4, <4>2, <2>9, <3>1
        <5> QED BY <5>1, <2>9, FirstBitIs
      <4>4. PICK a \in 0 .. 29, b \in 4 .. 7 :
              FirstBitIndex(m) = a + 2 /\ Lead(m) = b * 2^a
        BY <1>1, <2>9, ThirdFacts
      <4>5. a = o /\ Lead(m) = b * u
        BY <4>3, <4>4 DEF u
      <4>6. b * u <= 7 * u
        BY <1>3
      <4>7. b * u \in Nat
        BY <1>3
      <4> QED BY <1>3, <2>9, <4>2, <4>5, <4>6, <4>7
    <3> QED BY <1>3, <2>7, <2>9, <3>1
  <2>10. Lead(AlignThirdBit(n)) = Lead(r)
    BY DEF r
  <2> QED BY <1>7, <2>8, <2>9, <2>10 DEF r
<1> QED BY <1>3, <1>7, <1>9, <1>10

\* Exponents add up.
LEMMA PowersMultiply ==
    ASSUME NEW a \in 0 .. 32, NEW b \in 0 .. 32, a + b <= 32
    PROVE  2^a * 2^b = 2^(a + b)
<1> DEFINE Bad == {x \in 0 .. 32 : a + x <= 32 /\ 2^a * 2^x # 2^(a + x)}
<1> SUFFICES ASSUME Bad # {} PROVE FALSE
  OBVIOUS
<1>0. Bad \subseteq Nat
  OBVIOUS
<1>1. PICK m \in Bad : \A n \in Bad : m <= n
  BY <1>0, LeastNat
<1>2. 2^a \in Nat
  <2>1. CASE a \in 0 .. 31
    BY <2>1, Doubles
  <2>2. CASE a = 32
    BY <2>2
  <2> QED BY <2>1, <2>2
<1>3. m # 0
  <2>1. m = 0 => 2^m = 1 /\ a + m = a
    OBVIOUS
  <2> QED BY <1>1, <1>2, <2>1
<1>4. m - 1 \in 0 .. 31 /\ m - 1 \notin Bad /\ m - 1 + 1 = m
  BY <1>1, <1>3
<1>5. 2^a * 2^(m - 1) = 2^(a + (m - 1))
  BY <1>1, <1>4
<1>6. 2^(m - 1) \in Nat /\ 2^m = 2 * 2^(m - 1)
  BY <1>4, Doubles
<1>7. 2^(a + m) = 2 * 2^(a + (m - 1))
  <2>1. a + (m - 1) \in 0 .. 31 /\ a + (m - 1) + 1 = a + m
    BY <1>1, <1>3
  <2> QED BY <2>1, Doubles
<1>8. 2^a * (2 * 2^(m - 1)) = 2 * (2^a * 2^(m - 1))
  BY <1>2, <1>6
<1> QED BY <1>1, <1>5, <1>6, <1>7, <1>8

\* What IsPowerOf2 says.
LEMMA PowerFacts ==
    ASSUME NEW n, IsPowerOf2(n)
    PROVE  n \in Nat /\ n >= 1 /\ \E k \in 0 .. 31 : n = 2^k
BY Doubles DEF IsPowerOf2

\* The constants in grains.
LEMMA Bounds ==
    /\ FINE \in Nat /\ FINE >= 1 /\ BINMAP_SIZE \in Nat /\ BINMAP_SIZE >= 8
    /\ CHUNK_PADDING_SIZE = FINE /\ CHUNK_FREE_SIZE = 2 * FINE
    /\ BLOCK_TYPE_SIZE = 2 * FINE /\ SMALL_LEAST_SIZE = 2 * FINE
    /\ BlockOverhead = 6 * FINE
    /\ SMALL_MAX_REQUEST \in Nat /\ SMALL_MAX_REQUEST >= 8 * FINE
    /\ SMALL_MAX_REQUEST = BINMAP_SIZE * FINE
    /\ BIG_LEAST_SIZE = SMALL_MAX_REQUEST + FINE
    /\ BIG_MAX_REQUEST \in Nat /\ BIG_MAX_REQUEST >= 2 * SMALL_MAX_REQUEST
    /\ DEFAULT_BLOCK_SIZE \in Nat /\ DEFAULT_BLOCK_SIZE <= 2^30
    /\ BIG_MAX_REQUEST + 7 * FINE <= DEFAULT_BLOCK_SIZE
<1>1. /\ FINE \in Nat /\ FINE >= 1 /\ BINMAP_SIZE \in Nat /\ BIG_MAX_REQUEST \in Nat
      /\ DEFAULT_BLOCK_SIZE \in Nat
  BY ZMallocAssumption, PowerFacts
<1>2. BINMAP_SIZE >= 8 /\ BIG_MAX_REQUEST >= 2 * SMALL_MAX_REQUEST
  BY ZMallocAssumption
<1>3. /\ CHUNK_PADDING_SIZE = FINE /\ CHUNK_FREE_SIZE = 2 * FINE
      /\ BLOCK_TYPE_SIZE = 2 * FINE /\ SMALL_LEAST_SIZE = 2 * FINE
      /\ BlockOverhead = 6 * FINE
  BY <1>1 DEF CHUNK_PADDING_SIZE, CHUNK_FREE_SIZE, BLOCK_TYPE_SIZE, SMALL_LEAST_SIZE,
     BlockOverhead
<1>4. SMALL_MAX_REQUEST \in Nat /\ SMALL_MAX_REQUEST >= 8 * FINE
  BY <1>1, <1>2 DEF SMALL_MAX_REQUEST
<1>5. DEFAULT_BLOCK_SIZE <= 2^30
  BY ZMallocAssumption DEF MaxBytes
<1>6. BIG_MAX_REQUEST + CHUNK_PADDING_SIZE + BlockOverhead <= DEFAULT_BLOCK_SIZE
  BY ZMallocAssumption
<1>7. BIG_MAX_REQUEST + 7 * FINE <= DEFAULT_BLOCK_SIZE
  BY <1>1, <1>3, <1>6
<1> QED BY <1>1, <1>2, <1>3, <1>4, <1>5, <1>7 DEF SMALL_MAX_REQUEST, BIG_LEAST_SIZE

\* Multiples have no rest.
LEMMA NoRest ==
    ASSUME NEW q \in Nat, NEW d \in Nat, d > 0
    PROVE  (q * d) % d = 0
<1> DEFINE n == q * d
           k == n \div d
           rest == n % d
<1>1. n \in Nat
  OBVIOUS
<1> HIDE DEF n
<1>2. k \in Nat /\ rest \in 0 .. d - 1 /\ n = d * k + rest
  BY <1>1
<1> HIDE DEF k, rest
<1>3. rest = (q - k) * d
  BY <1>1, <1>2 DEF n
<1>4. CASE q - k >= 1
  <2>1. (q - k) * d >= d
    BY <1>2, <1>4
  <2> QED BY <1>2, <1>3, <2>1
<1>5. CASE q - k <= -1
  <2>1. (k - q) * d >= d /\ (q - k) * d = -((k - q) * d)
    BY <1>2, <1>5
  <2> QED BY <1>2, <1>3, <2>1
<1>6. CASE q - k = 0
  BY <1>2, <1>3, <1>6 DEF rest, n
<1> QED BY <1>2, <1>4, <1>5, <1>6

\* The powers of two from the grain on are multiples of it,
LEMMA PowerGrains ==
    ASSUME NEW k \in 0 .. 32, 2^k >= FINE
    PROVE  2^k % FINE = 0
<1>1. PICK f \in 0 .. 31 : FINE = 2^f
  BY ZMallocAssumption, PowerFacts
<1>2. FINE \in Nat /\ FINE >= 1 /\ 2^f \in Nat
  BY <1>1, Bounds
<1>3. ~(k < f)
  <2> SUFFICES ASSUME k < f PROVE FALSE
    OBVIOUS
  <2>0. f \in 0 .. 32 /\ k \in 0 .. 31
    OBVIOUS
  <2>1. 2^(k + 1) <= 2^f
    BY <2>0, PowersGrow
  <2>2. 2^(k + 1) = 2 * 2^k /\ 2^k \in Nat
    BY <2>0, Doubles
  <2> QED BY <1>1, <1>2, <2>1, <2>2
<1> DEFINE e == k - f
<1>4. e \in 0 .. 32 /\ f \in 0 .. 32 /\ e + f = k /\ e + f <= 32
  BY <1>3
<1> HIDE DEF e
<1>5. 2^e * 2^f = 2^(e + f)
  BY <1>4, PowersMultiply
<1>6. 2^e \in Nat
  <2>1. CASE e \in 0 .. 31
    BY <2>1, Doubles
  <2>2. CASE e = 32
    BY <2>2
  <2> QED BY <1>4, <2>1, <2>2
<1> DEFINE q == 2^e
<1>7. 2^k = q * FINE /\ q \in Nat
  BY <1>1, <1>4, <1>5, <1>6
<1> HIDE DEF q
<1> DEFINE d == FINE
<1>8. d \in Nat /\ d > 0
  BY <1>2
<1> HIDE DEF d
<1>9. (q * d) % d = 0
  BY <1>7, <1>8, NoRest
<1> QED BY <1>7, <1>9 DEF d

\* and so are the sizes of blocks.
LEMMA DefaultGrains == DEFAULT_BLOCK_SIZE % FINE = 0
<1>1. PICK k \in 0 .. 31 : DEFAULT_BLOCK_SIZE = 2^k
  BY ZMallocAssumption, PowerFacts
<1>2. 2^k >= FINE /\ k \in 0 .. 32
  BY <1>1, Bounds
<1> QED BY <1>1, <1>2, PowerGrains

LEMMA CeilGrains ==
    ASSUME NEW n \in Nat, n <= 2^32, n >= FINE
    PROVE  CeilPowerOf2(n) % FINE = 0
<1>1. FINE \in Nat /\ FINE >= 1
  BY Bounds
<1>2. CASE n <= 1
  <2>1. n = 1 /\ FINE = 1 /\ CeilPowerOf2(n) = 1
    BY <1>1, <1>2 DEF CeilPowerOf2
  <2> QED BY <2>1
<1>3. CASE n > 1
  <2> DEFINE k == FirstBitIndex(n - 1) + 1
  <2>1. n - 1 \in Nat /\ n - 1 > 0 /\ n - 1 < 2^32
    BY <1>3
  <2>2. FirstBitIndex(n - 1) \in 0 .. 31
    BY <2>1, FirstBit
  <2>3. k \in 0 .. 32 /\ CeilPowerOf2(n) = 2^k
    BY <1>3, <2>2 DEF CeilPowerOf2
  <2>4. CeilPowerOf2(n) \in Nat /\ CeilPowerOf2(n) >= n
    BY CeilPower
  <2> HIDE DEF k
  <2>5. 2^k >= FINE
    BY <1>1, <2>3, <2>4
  <2> QED BY <2>3, <2>5, PowerGrains
<1> QED BY <1>2, <1>3

\* A quarter of SMALL_MAX_REQUEST, to whose multiples big requests are rounded.
Quarter == SMALL_MAX_REQUEST \div 4

\* A power of two is its own leading part.
LEMMA LeadOfPower ==
    ASSUME NEW k \in 2 .. 31
    PROVE  /\ 2^k \in Nat /\ 2^k >= 4 /\ 2^k < 2^32 /\ Lead(2^k) = 2^k
           /\ ThirdBitOrder(2^k) = k - 2 /\ Third(2^k) = 4 * (k - 2)
<1> DEFINE n == 2^k
           u == 2^(k - 2)
<1>1. k - 2 \in 0 .. 31 /\ k - 2 + 1 \in 0 .. 31 /\ k - 2 + 1 + 1 = k /\ k \in 0 .. 31
  OBVIOUS
<1>2. u \in Nat /\ u >= 1 /\ 2^(k - 2 + 1) = 2 * u
  BY <1>1, Doubles
<1>3. n = 4 * u
  <2>1. 2^(k - 2 + 1 + 1) = 2 * 2^(k - 2 + 1)
    BY <1>1, Doubles
  <2> QED BY <1>1, <1>2, <2>1
<1>4. n < 2^(k + 1) /\ 2^k <= n
  <2>1. 2^(k + 1) = 2 * 2^k
    BY <1>1, Doubles
  <2> QED BY <1>2, <1>3, <2>1
<1>5. n < 2^32
  <2>1. CASE k = 31
    BY <2>1
  <2>2. CASE k < 31
    <3>1. 2^(k + 1) <= 2^31
      <4>1. k \in 0 .. 32 /\ 31 \in 0 .. 32
        OBVIOUS
      <4> QED BY <2>2, <4>1, PowersGrow
    <3> QED BY <1>4, <3>1, <1>2, <1>3
  <2> QED BY <2>1, <2>2
<1>6. n \in Nat /\ n >= 4
  BY <1>2, <1>3
<1>7. FirstBitIndex(n) = k
  BY <1>1, <1>4, <1>6, FirstBitIs
<1>8. PICK o \in 0 .. 29, q \in 4 .. 7 :
        /\ ThirdBitOrder(n) = o /\ FirstBitIndex(n) = o + 2
        /\ Third(n) = 4 * o + q - 4 /\ Lead(n) = q * 2^o
        /\ q * 2^o <= n /\ n < q * 2^o + 2^o
  BY <1>5, <1>6, ThirdFacts
<1>9. o = k - 2 /\ 2^o = u
  BY <1>7, <1>8
<1>10. q * u <= n /\ Lead(n) = q * u
  BY <1>8, <1>9
<1> HIDE DEF n, u
<1>11. q = 4
  <2>1. CASE q >= 5
    <3>1. q * u >= 5 * u
      BY <1>2, <2>1
    <3> QED BY <1>2, <1>3, <1>10, <3>1
  <2> QED BY <2>1
<1>12. Lead(n) = n /\ Third(n) = 4 * (k - 2) /\ ThirdBitOrder(n) = k - 2
  BY <1>2, <1>3, <1>8, <1>9, <1>10, <1>11
<1> QED BY <1>5, <1>6, <1>12 DEF n

\* The limits of the requests are leading parts and multiples of a quarter.
LEMMA QuarterFacts ==
    /\ Quarter \in Nat /\ Quarter >= 2 * FINE /\ SMALL_MAX_REQUEST = 4 * Quarter
    /\ \E k \in 2 .. 30 : SMALL_MAX_REQUEST = 2^k /\ Quarter = 2^(k - 2)
    /\ \E q \in Nat : BIG_MAX_REQUEST = q * Quarter
    /\ Lead(BIG_MAX_REQUEST) = BIG_MAX_REQUEST
    /\ Lead(SMALL_MAX_REQUEST) = SMALL_MAX_REQUEST
    /\ SequenceBase = Third(SMALL_MAX_REQUEST) /\ SequenceBase \in Nat
    /\ Lead(DEFAULT_BLOCK_SIZE) = DEFAULT_BLOCK_SIZE
    /\ Third(DEFAULT_BLOCK_SIZE) - SequenceBase <= BINMAP_SIZE
<1>1. PICK a \in 0 .. 31 : FINE = 2^a
  BY ZMallocAssumption DEF IsPowerOf2
<1>2. PICK b \in 0 .. 31 : BINMAP_SIZE = 2^b
  BY ZMallocAssumption DEF IsPowerOf2
<1>3. SMALL_MAX_REQUEST = 2^a * 2^b /\ SMALL_MAX_REQUEST <= 2^29
  BY <1>1, <1>2, Bounds
<1>4. 2^a \in Nat /\ 2^a >= 1 /\ 2^b \in Nat /\ 2^b >= 8
  BY <1>2, Bounds, Doubles
<1>5. a + b <= 30
  <2> SUFFICES ASSUME a + b > 30 PROVE FALSE
    OBVIOUS
  <2> DEFINE c == 30 - a
  <2>0. a <= 29
    <3>1. 2^a <= 2^a * 2^b
      <4> DEFINE x == 2^a
                 y == 2^b
      <4>1. x \in Nat /\ y \in Nat /\ y >= 1
        BY <1>4
      <4> HIDE DEF x, y
      <4>2. x <= x * y
        BY <4>1
      <4> QED BY <4>2 DEF x, y
    <3>2. a \in 0 .. 32 /\ 29 \in 0 .. 32
      OBVIOUS
    <3>3. 29 < a => 2^(29 + 1) <= 2^a
      BY <3>2, PowersGrow
    <3>4. 29 < a => 2^30 <= 2^a
      BY <3>3
    <3> QED BY <1>3, <1>4, <3>1, <3>4
  <2>1. c \in 0 .. 32 /\ a \in 0 .. 32 /\ a + c = 30 /\ c < b /\ b \in 0 .. 32 /\ c \in 0 .. 31
    BY <2>0
  <2> HIDE DEF c
  <2>2. 2^a * 2^c = 2^30
    <3>0. a \in 0 .. 32 /\ c \in 0 .. 32 /\ a + c <= 32
      BY <2>1
    <3>1. 2^a * 2^c = 2^(a + c)
      BY <3>0, PowersMultiply
    <3> QED BY <2>1, <3>1
  <2>3. 2^(c + 1) <= 2^b /\ 2^(c + 1) = 2 * 2^c /\ 2^c \in Nat
    BY <2>1, PowersGrow, Doubles
  <2>4. 2^a * 2^c <= 2^a * 2^b
    <3> DEFINE x == 2^a
               y == 2^b
               w == 2^c
    <3>1. x \in Nat /\ y \in Nat /\ w \in Nat /\ w <= y
      BY <1>4, <2>3
    <3> HIDE DEF x, y, w
    <3>2. x * w <= x * y
      BY <3>1
    <3> QED BY <3>2 DEF x, y, w
  <2> QED BY <1>3, <2>2, <2>4
<1> DEFINE k == a + b
<1>6. SMALL_MAX_REQUEST = 2^k
  <2>1. a \in 0 .. 32 /\ b \in 0 .. 32 /\ a + b <= 32
    BY <1>5
  <2> QED BY <1>3, <2>1, PowersMultiply
<1>7. b # 0 /\ b # 1 /\ b # 2
  <2>1. b = 0 => 2^b = 1
    OBVIOUS
  <2>2. b = 1 => 2^b = 2
    OBVIOUS
  <2>3. b = 2 => 2^b = 4
    OBVIOUS
  <2> QED BY <1>4, <2>1, <2>2, <2>3
<1>8. k \in 2 .. 30 /\ k \in 2 .. 31
  BY <1>5, <1>7
<1>9. 2^k = 4 * 2^(k - 2) /\ 2^(k - 2) \in Nat
  <2>1. k - 2 \in 0 .. 31 /\ k - 2 + 1 \in 0 .. 31 /\ k - 2 + 1 + 1 = k
    BY <1>8
  <2>2. 2^(k - 2) \in Nat /\ 2^(k - 2 + 1) = 2 * 2^(k - 2)
    BY <2>1, Doubles
  <2>3. 2^(k - 2 + 1 + 1) = 2 * 2^(k - 2 + 1)
    BY <2>1, Doubles
  <2> QED BY <2>1, <2>2, <2>3
<1>10. Quarter = 2^(k - 2) /\ Quarter \in Nat /\ SMALL_MAX_REQUEST = 4 * Quarter
  BY <1>6, <1>9 DEF Quarter
<1>11. Quarter >= 2 * FINE
  BY <1>10, Bounds
<1>12. \E q \in Nat : BIG_MAX_REQUEST = q * Quarter
  <2> DEFINE q == BIG_MAX_REQUEST \div SMALL_MAX_REQUEST
  <2>1. q \in Nat /\ BIG_MAX_REQUEST = SMALL_MAX_REQUEST * q
    <3>1. BIG_MAX_REQUEST % SMALL_MAX_REQUEST = 0
      BY ZMallocAssumption
    <3>2. \A n \in Nat, d \in Nat : d > 0 /\ n % d = 0 => n \div d \in Nat /\ n = d * (n \div d)
      OBVIOUS
    <3>3. SMALL_MAX_REQUEST \in Nat /\ BIG_MAX_REQUEST \in Nat /\ SMALL_MAX_REQUEST > 0
      BY Bounds
    <3> QED BY <3>1, <3>2, <3>3
  <2> HIDE DEF q
  <2>2. BIG_MAX_REQUEST = (4 * q) * Quarter
    BY <1>10, <2>1
  <2>3. 4 * q \in Nat
    BY <2>1
  <2> QED BY <2>2, <2>3
<1>13. ASSUME NEW n, IsPowerOf2(n), n >= 4 PROVE Lead(n) = n
  <2>1. PICK j \in 0 .. 31 : n = 2^j
    BY <1>13 DEF IsPowerOf2
  <2>2. j # 0 /\ j # 1
    <3>1. j = 0 => 2^j = 1
      OBVIOUS
    <3>2. j = 1 => 2^j = 2
      OBVIOUS
    <3> QED BY <1>13, <2>1, <3>1, <3>2
  <2>3. j \in 2 .. 31
    BY <2>2
  <2> QED BY <2>1, <2>3, LeadOfPower
<1>14. Lead(BIG_MAX_REQUEST) = BIG_MAX_REQUEST /\ Lead(DEFAULT_BLOCK_SIZE) = DEFAULT_BLOCK_SIZE
  <2>1. BIG_MAX_REQUEST >= 4 /\ DEFAULT_BLOCK_SIZE >= 4
    BY Bounds
  <2> QED BY <1>13, <2>1, ZMallocAssumption
<1>15. Lead(SMALL_MAX_REQUEST) = SMALL_MAX_REQUEST /\ Third(SMALL_MAX_REQUEST) = 4 * (k - 2)
  BY <1>6, <1>8, LeadOfPower
<1>16. SequenceBase = Third(SMALL_MAX_REQUEST)
  BY DEF SequenceBase, Third
<1>17. SequenceBase \in Nat
  BY <1>8, <1>15, <1>16
<1>18. Third(DEFAULT_BLOCK_SIZE) - SequenceBase <= BINMAP_SIZE
  BY BinsAssumption DEF Compress, Third
<1>19. \E j \in 2 .. 30 : SMALL_MAX_REQUEST = 2^j /\ Quarter = 2^(j - 2)
  BY <1>6, <1>8, <1>10
<1> QED BY <1>10, <1>11, <1>12, <1>14, <1>15, <1>16, <1>17, <1>18, <1>19

\* What BigAlloc asks for: no less than req, no more than any size of a class
\* that req does not exceed.
LEMMA BigRound ==
    ASSUME NEW req \in Nat, SMALL_MAX_REQUEST - FINE <= req,
           NEW m \in Nat, req <= m, m < 2^31, Lead(m) = m,
           NEW w \in Nat, m = w * Quarter
    PROVE  /\ BigRounded(req) \in Nat /\ BigRounded(req) >= SMALL_MAX_REQUEST
           /\ BigRounded(req) < 2^32
           /\ Lead(BigRounded(req)) \in Nat
           /\ req <= Lead(BigRounded(req)) /\ Lead(BigRounded(req)) <= m
           /\ SMALL_MAX_REQUEST <= Lead(BigRounded(req))
           /\ BigSize(req) = Lead(BigRounded(req)) + FINE
           /\ BigId(req) = Third(BigRounded(req)) - SequenceBase
           /\ Third(BigRounded(req)) \in Nat
           /\ SequenceBase <= Third(BigRounded(req))
<1> DEFINE a == AlignValue(req, Quarter)
           r == AlignThirdBit(a)
<1>1. Quarter \in Nat /\ Quarter >= 2 * FINE /\ SMALL_MAX_REQUEST = 4 * Quarter
  BY QuarterFacts
<1>2. FINE \in Nat /\ FINE >= 1 /\ SMALL_MAX_REQUEST \in Nat
  BY Bounds
<1>3. a \in Nat /\ req <= a /\ \E q \in Nat : a = q * Quarter
  <2>1. Quarter \in Nat /\ Quarter > 0
    BY <1>1, <1>2
  <2> QED BY <2>1, AlignUp
<1>4. a <= m
  <2>1. Quarter \in Nat /\ Quarter > 0
    BY <1>1, <1>2
  <2> QED BY <2>1, AlignBelow
<1>5. a >= SMALL_MAX_REQUEST
  <2> HIDE DEF a
  <2>1. PICK q \in Nat : a = q * Quarter
    BY <1>3
  <2>2. CASE q <= 3
    <3>1. q * Quarter <= 3 * Quarter
      BY <1>1, <2>2
    <3> QED BY <1>1, <1>2, <1>3, <2>1, <3>1
  <2>3. CASE q >= 4
    <3>1. q * Quarter >= 4 * Quarter
      BY <1>1, <2>3
    <3> QED BY <1>1, <1>2, <1>3, <2>1, <3>1
  <2> QED BY <2>2, <2>3
<1>6. a >= 4 /\ a < 2^31
  BY <1>1, <1>2, <1>3, <1>4, <1>5
<1>7. BigRounded(req) = r
  BY DEF BigRounded, Quarter
<1> HIDE DEF a
<1>8. r \in Nat /\ a <= r /\ r < 2^32 /\ a <= Lead(r)
  BY <1>3, <1>6, RoundsUp
<1>9. Lead(r) <= m
  BY <1>3, <1>4, <1>6, RoundsUp
<1> HIDE DEF r
<1>10. r >= 4
  BY <1>6, <1>8, <1>3
<1>11. Lead(r) \in Nat /\ Third(r) \in Nat
  BY <1>8, <1>10, ThirdOrdered
<1>12. Third(SMALL_MAX_REQUEST) <= Third(r)
  <2>1. SMALL_MAX_REQUEST >= 4 /\ SMALL_MAX_REQUEST < 2^32
    BY <1>1, <1>2, <1>3, <1>5, <1>6
  <2>2. Lead(SMALL_MAX_REQUEST) <= r
    BY <1>2, <1>3, <1>5, <1>8, QuarterFacts
  <2> QED BY <1>2, <1>8, <1>10, <2>1, <2>2, ThirdOrdered
<1>13. BigSize(req) = Lead(r) + FINE
  <2>1. CHUNK_PADDING_SIZE = FINE
    BY Bounds
  <2> QED BY <1>7, <2>1 DEF BigSize, Lead
<1>14. BigId(req) = Third(r) - SequenceBase
  BY <1>7 DEF BigId, Compress, Third
<1>15. r >= SMALL_MAX_REQUEST /\ req <= Lead(r) /\ SMALL_MAX_REQUEST <= Lead(r)
  BY <1>2, <1>3, <1>5, <1>8, <1>11
<1> QED BY <1>7, <1>8, <1>9, <1>11, <1>12, <1>13, <1>14, <1>15, QuarterFacts

\* What alloc_memory looks for when a request is big: at least its bytes, and no
\* more than any chunk that bins may hold from BigId on.
LEMMA BigRequest ==
    ASSUME NEW req \in Nat, SMALL_MAX_REQUEST - FINE <= req, req < BIG_MAX_REQUEST
    PROVE  /\ BigSize(req) \in Nat /\ req + FINE <= BigSize(req)
           /\ BIG_LEAST_SIZE <= BigSize(req) /\ BigSize(req) <= BIG_MAX_REQUEST + FINE
           /\ BigId(req) \in Bins
           /\ \A size \in Nat : size >= BIG_LEAST_SIZE /\ size <= DEFAULT_BLOCK_SIZE
                /\ BigId(req) <= BigBin(size) => BigSize(req) <= size
<1> DEFINE r == BigRounded(req)
<1>1. BIG_MAX_REQUEST \in Nat /\ BIG_MAX_REQUEST < 2^31 /\ req <= BIG_MAX_REQUEST
  BY Bounds
<1>2. PICK w \in Nat : BIG_MAX_REQUEST = w * Quarter
  BY QuarterFacts
<1>3. Lead(BIG_MAX_REQUEST) = BIG_MAX_REQUEST
  BY QuarterFacts
<1>4. /\ r \in Nat /\ r >= SMALL_MAX_REQUEST /\ r < 2^32
      /\ Lead(r) \in Nat /\ req <= Lead(r) /\ Lead(r) <= BIG_MAX_REQUEST
      /\ SMALL_MAX_REQUEST <= Lead(r) /\ BigSize(req) = Lead(r) + FINE
      /\ BigId(req) = Third(r) - SequenceBase
      /\ Third(r) \in Nat /\ SequenceBase <= Third(r)
  BY <1>1, <1>2, <1>3, BigRound
<1> HIDE DEF r
<1>5. r >= 4 /\ SMALL_MAX_REQUEST >= 4
  BY <1>4, Bounds
<1>6. BigId(req) \in Bins
  <2> DEFINE d == DEFAULT_BLOCK_SIZE
  <2>1. d \in Nat /\ d >= 4 /\ d < 2^32 /\ BIG_MAX_REQUEST < d
    BY Bounds
  <2>2. Third(d) - SequenceBase <= BINMAP_SIZE /\ Lead(d) = d /\ SequenceBase \in Nat
    BY QuarterFacts
  <2> HIDE DEF d
  <2>3. /\ Third(d) \in Nat
        /\ Third(d) < Third(r) => d < Lead(r)
        /\ Third(d) = Third(r) => Lead(d) = Lead(r)
    BY <1>4, <1>5, <2>1, ThirdOrdered
  <2>4. Third(r) < Third(d)
    BY <1>1, <1>4, <2>1, <2>2, <2>3
  <2> QED BY <1>4, <2>2, <2>3, <2>4, Bounds DEF Bins
<1>7. ASSUME NEW size \in Nat, size >= BIG_LEAST_SIZE, size <= DEFAULT_BLOCK_SIZE,
             BigId(req) <= BigBin(size)
      PROVE  BigSize(req) <= size
  <2> DEFINE n == size - FINE
  <2>1. n \in Nat /\ n >= 4 /\ n < 2^32
    BY <1>5, <1>7, Bounds
  <2>2. BigBin(size) = Third(n) - SequenceBase
    <3>1. size - CHUNK_PADDING_SIZE = n
      BY Bounds
    <3> QED BY <3>1 DEF BigBin, Third, Compress
  <2> HIDE DEF n
  <2>3. Third(n) \in Nat /\ SequenceBase \in Nat
    BY <2>1, ThirdOrdered, QuarterFacts
  <2>4. Third(r) <= Third(n)
    BY <1>4, <1>7, <2>2, <2>3
  <2>5. Lead(r) <= n
    BY <1>4, <1>5, <2>1, <2>4, ThirdOrdered
  <2> QED BY <1>4, <2>5, Bounds DEF n
<1>8. BigSize(req) \in Nat /\ req + FINE <= BigSize(req)
      /\ BIG_LEAST_SIZE <= BigSize(req) /\ BigSize(req) <= BIG_MAX_REQUEST + FINE
  BY <1>4, Bounds
<1> QED BY <1>6, <1>7, <1>8

\* Every big chunk of a block has a bin.
LEMMA BigBinRange ==
    ASSUME NEW size \in Nat, size >= BIG_LEAST_SIZE, size <= DEFAULT_BLOCK_SIZE
    PROVE  BigBin(size) \in Bins
<1> DEFINE n == size - FINE
           d == DEFAULT_BLOCK_SIZE
<1>1. n \in Nat /\ n >= SMALL_MAX_REQUEST /\ n >= 4 /\ n < d /\ d \in Nat /\ d < 2^32 /\ d >= 4
  BY Bounds
<1>2. BigBin(size) = Third(n) - SequenceBase
  <2>1. size - CHUNK_PADDING_SIZE = n
    BY Bounds
  <2> QED BY <2>1 DEF BigBin, Third, Compress
<1>3. Third(d) - SequenceBase <= BINMAP_SIZE /\ Lead(d) = d /\ SequenceBase \in Nat
      /\ SequenceBase = Third(SMALL_MAX_REQUEST)
      /\ Lead(SMALL_MAX_REQUEST) = SMALL_MAX_REQUEST
  BY QuarterFacts
<1>4. SMALL_MAX_REQUEST \in Nat /\ SMALL_MAX_REQUEST >= 4 /\ BINMAP_SIZE \in Nat
  BY Bounds
<1> HIDE DEF n, d
<1>5. Third(n) \in Nat /\ Third(d) \in Nat /\ (Third(d) <= Third(n) <=> Lead(d) <= n)
  BY <1>1, ThirdOrdered
<1>6. Third(SMALL_MAX_REQUEST) <= Third(n) <=> Lead(SMALL_MAX_REQUEST) <= n
  BY <1>1, <1>4, ThirdOrdered
<1> QED BY <1>1, <1>2, <1>3, <1>4, <1>5, <1>6 DEF Bins

\* ResolveOrderSize is the least size of a bin.
LEMMA Resolved ==
    ASSUME NEW bin \in 0 .. BINMAP_SIZE
    PROVE  LET n == ResolveOrderSize(bin) IN
           /\ n \in Nat /\ n >= SMALL_MAX_REQUEST /\ n < 2^31
           /\ Lead(n) = n /\ Third(n) = bin + SequenceBase
           /\ \E w \in Nat : n = w * Quarter
<1> DEFINE seq == bin + SequenceBase
           o == seq \div 4
           q == 4 + (seq % 4)
           u == 2^o
           n == ResolveOrderSize(bin)
<1>1. PICK k \in 2 .. 30 : SMALL_MAX_REQUEST = 2^k /\ Quarter = 2^(k - 2)
  BY QuarterFacts
<1>2. SequenceBase = 4 * (k - 2)
  <2>1. k \in 2 .. 31
    OBVIOUS
  <2> QED BY <1>1, <2>1, LeadOfPower, QuarterFacts
<1>3. seq \in Nat /\ seq <= 112 /\ seq >= 4 * (k - 2)
  BY <1>2, Bounds, BinsAssumption
<1>4. o \in 0 .. 28 /\ q \in 4 .. 7 /\ seq = 4 * o + q - 4 /\ o >= k - 2
  <2> HIDE DEF seq
  <2> QED BY <1>3
<1>5. n = q * u
  BY DEF ResolveOrderSize
<1>6. o \in 0 .. 31 /\ o + 1 \in 0 .. 31 /\ o + 2 \in 0 .. 31
  BY <1>4
<1> HIDE DEF o, q, seq
<1>7. u \in Nat /\ u >= 1 /\ 2^(o + 2) = 4 * u /\ 2^(o + 2 + 1) = 8 * u /\ u <= 2^28
  <2>1. u \in Nat /\ u >= 1 /\ 2^(o + 1) = 2 * u
    BY <1>6, Doubles
  <2>2. 2^(o + 1 + 1) = 2 * 2^(o + 1)
    BY <1>6, Doubles
  <2>3. o + 1 + 1 = o + 2
    BY <1>4
  <2>4. 2^(o + 2 + 1) = 2 * 2^(o + 2)
    BY <1>6, Doubles
  <2>5. u <= 2^28
    <3>1. CASE o = 28
      <4>1. o = 28 => 2^o = 2^28
        OBVIOUS
      <4> QED BY <3>1, <4>1
    <3>2. CASE o < 28
      <4>1. o \in 0 .. 32 /\ 28 \in 0 .. 32
        BY <1>4
      <4>2. 2^(o + 1) <= 2^28
        BY <3>2, <4>1, PowersGrow
      <4> QED BY <2>1, <4>2
    <3> QED BY <1>4, <3>1, <3>2
  <2> QED BY <2>1, <2>2, <2>3, <2>4, <2>5
<1> HIDE DEF n
<1>8. n \in Nat /\ n >= 4 * u /\ n < 8 * u /\ n <= 7 * u
  <2> HIDE DEF u
  <2>1. q * u \in Nat /\ q * u >= 4 * u /\ q * u <= 7 * u
    BY <1>4, <1>7
  <2> QED BY <1>5, <1>7, <2>1
<1>9. n < 2^31 /\ n >= 4
  BY <1>7, <1>8
<1>10. PICK p \in 0 .. 29, t \in 4 .. 7 :
        /\ FirstBitIndex(n) = p + 2
        /\ Third(n) = 4 * p + t - 4 /\ Lead(n) = t * 2^p
        /\ t * 2^p <= n /\ n < t * 2^p + 2^p
  <2>1. n < 2^32
    BY <1>8, <1>9
  <2> QED BY <1>8, <1>9, <2>1, ThirdFacts
<1>11. p = o
  <2>1. FirstBitIndex(n) = o + 2
    BY <1>6, <1>7, <1>8, FirstBitIs
  <2> QED BY <1>4, <1>10, <2>1
<1>12. t * u <= n /\ n < t * u + u /\ Lead(n) = t * u
  BY <1>10, <1>11
<1>13. t = q
  <2> HIDE DEF u
  <2>1. CASE t < q
    <3>1. (t + 1) * u <= q * u
      BY <1>4, <1>7, <2>1
    <3>2. (t + 1) * u = t * u + u
      BY <1>7
    <3> QED BY <1>5, <1>7, <1>8, <1>12, <3>1, <3>2
  <2>2. CASE q < t
    <3>1. (q + 1) * u <= t * u
      BY <1>4, <1>7, <2>2
    <3>2. (q + 1) * u = q * u + u
      BY <1>4, <1>7
    <3> QED BY <1>5, <1>7, <1>8, <1>12, <3>1, <3>2
  <2> QED BY <1>4, <2>1, <2>2
<1>14. Lead(n) = n /\ Third(n) = seq
  BY <1>4, <1>5, <1>10, <1>11, <1>12, <1>13
<1>15. \E w \in Nat : n = w * Quarter
  <2> DEFINE e == o - (k - 2)
  <2>1. e \in 0 .. 28 /\ k - 2 \in 0 .. 32 /\ e \in 0 .. 32 /\ e \in 0 .. 31 /\ (k - 2) + e = o
        /\ (k - 2) + e <= 32
    BY <1>4
  <2> HIDE DEF e
  <2>2. 2^(k - 2) * 2^e = 2^((k - 2) + e)
    BY <2>1, PowersMultiply
  <2>3. u = Quarter * 2^e /\ 2^e \in Nat
    BY <1>1, <2>1, <2>2, Doubles
  <2> DEFINE x == 2^e
  <2> HIDE DEF u, x
  <2>4. n = (q * x) * Quarter /\ q * x \in Nat
    <3>1. u = Quarter * x /\ x \in Nat
      BY <2>3 DEF x
    <3>2. Quarter \in Nat
      BY QuarterFacts
    <3> QED BY <1>4, <1>5, <3>1, <3>2
  <2> QED BY <2>4
<1>16. n >= SMALL_MAX_REQUEST
  <2>1. Third(SMALL_MAX_REQUEST) <= Third(n)
    BY <1>3, <1>14, <1>2, QuarterFacts
  <2>2. SMALL_MAX_REQUEST \in Nat /\ SMALL_MAX_REQUEST >= 4 /\ SMALL_MAX_REQUEST < 2^32
    BY Bounds
  <2>3. n < 2^32
    BY <1>8, <1>9
  <2>4. Lead(SMALL_MAX_REQUEST) <= n
    BY <1>8, <1>9, <2>1, <2>2, <2>3, ThirdOrdered
  <2> QED BY <2>4, QuarterFacts
<1> QED BY <1>8, <1>9, <1>14, <1>15, <1>16 DEF n, seq

\* The counter of a direct chunk.
LEMMA DirectBinRange ==
    ASSUME NEW req \in Nat, BIG_MAX_REQUEST <= req
    PROVE  DirectBin(req) \in 0 .. BIG_MAX_BIN_ID
<1> DEFINE a == AlignValue(req, Quarter)
           top == ResolveOrderSize(BIG_MAX_BIN_ID)
           m == Min({a, top})
<1>1. BIG_MAX_BIN_ID = BINMAP_SIZE - 2 /\ BIG_MAX_BIN_ID \in 0 .. BINMAP_SIZE
  BY Bounds DEF BIG_MAX_BIN_ID
<1>2. /\ top \in Nat /\ top >= SMALL_MAX_REQUEST /\ top < 2^31
      /\ Lead(top) = top /\ Third(top) = BIG_MAX_BIN_ID + SequenceBase
      /\ \E w \in Nat : top = w * Quarter
  BY <1>1, Resolved
<1>3. a \in Nat /\ req <= a
  <2>1. Quarter \in Nat /\ Quarter > 0
    BY QuarterFacts, Bounds
  <2> QED BY <2>1, AlignUp
<1>4. DirectBin(req) = BigId(m)
  BY DEF DirectBin, Quarter
<1> HIDE DEF a, top
<1>5. m \in {a, top} /\ m <= top
  <2>1. {a, top} \subseteq Nat /\ {a, top} # {}
    BY <1>2, <1>3
  <2> QED BY <2>1, MinOf
<1> HIDE DEF m
<1>6. m \in Nat /\ SMALL_MAX_REQUEST - FINE <= m
  BY <1>2, <1>3, <1>5, Bounds
<1>7. PICK w \in Nat : top = w * Quarter
  BY <1>2
<1> DEFINE r == BigRounded(m)
<1>8. /\ r \in Nat /\ r >= SMALL_MAX_REQUEST /\ r < 2^32 /\ Lead(r) <= top
      /\ BigId(m) = Third(r) - SequenceBase /\ Third(r) \in Nat /\ SequenceBase <= Third(r)
      /\ Lead(r) \in Nat
  BY <1>2, <1>5, <1>6, <1>7, BigRound
<1> HIDE DEF r
<1>9. Third(r) <= Third(top)
  <2>1. r >= 4 /\ top >= 4 /\ top < 2^32
    BY <1>2, <1>8, Bounds
  <2>2. Third(top) < Third(r) => top < Lead(r)
    BY <1>2, <1>8, <2>1, ThirdOrdered
  <2>3. Third(top) \in Nat
    BY <1>2, <2>1, ThirdOrdered
  <2> QED BY <1>2, <1>8, <2>2, <2>3
<1>10. SequenceBase \in Nat
  BY QuarterFacts
<1> QED BY <1>1, <1>2, <1>4, <1>8, <1>9, <1>10

\* Small requests, and the bins of small chunks.
LEMMA SmallRequest ==
    ASSUME NEW req \in Nat, req < SMALL_MAX_REQUEST - FINE
    PROVE  /\ SmallId(req) \in 1 .. BINMAP_SIZE - 1
           /\ req <= SmallId(req) * FINE /\ SmallId(req) * FINE \in Nat
           /\ SmallId(req) * FINE >= FINE
           /\ SmallId(req) * FINE + FINE <= SMALL_MAX_REQUEST
<1>0. FINE \in Nat /\ FINE >= 1 /\ BINMAP_SIZE \in Nat /\ BINMAP_SIZE >= 8
      /\ SMALL_MAX_REQUEST = BINMAP_SIZE * FINE /\ SMALL_MAX_REQUEST \in Nat
  BY Bounds
<1>1. CASE req < FINE
  <2>1. SmallId(req) = 1
    BY <1>1 DEF SmallId
  <2> QED BY <1>0, <1>1, <2>1, Bounds
<1>2. CASE req >= FINE
  <2> DEFINE id == (req + FINE - 1) \div FINE
  <2>1. SmallId(req) = id
    BY <1>0, <1>2 DEF SmallId
  <2>2. id \in Nat /\ id * FINE <= req + FINE - 1 /\ req + FINE - 1 < id * FINE + FINE
    BY <1>0, Divided
  <2> HIDE DEF id
  <2>3. id * FINE \in Nat
    BY <1>0, <2>2
  <2>4. req <= id * FINE
    BY <1>0, <2>2, <2>3
  <2>5. id * FINE < (BINMAP_SIZE - 1) * FINE + FINE
    BY <1>0, <2>2, <2>3
  <2>6. id <= BINMAP_SIZE - 1
    <3>1. CASE id >= BINMAP_SIZE
      <4>1. id * FINE >= BINMAP_SIZE * FINE
        BY <1>0, <2>2, <3>1
      <4>2. (BINMAP_SIZE - 1) * FINE + FINE = BINMAP_SIZE * FINE /\ BINMAP_SIZE * FINE \in Nat
        BY <1>0
      <4> QED BY <2>3, <2>5, <4>1, <4>2
    <3> QED BY <1>0, <2>2, <3>1
  <2>7. id >= 1
    <3>1. CASE id = 0
      BY <1>0, <1>2, <2>4, <3>1
    <3> QED BY <2>2, <3>1
  <2>8. id * FINE <= (BINMAP_SIZE - 1) * FINE /\ id * FINE >= FINE
    BY <1>0, <1>2, <2>2, <2>4, <2>6, <2>3
  <2>9. (BINMAP_SIZE - 1) * FINE + FINE = SMALL_MAX_REQUEST
    BY <1>0
  <2>10. (BINMAP_SIZE - 1) * FINE \in Nat
    BY <1>0
  <2> QED BY <1>0, <2>1, <2>2, <2>3, <2>4, <2>6, <2>7, <2>8, <2>9, <2>10
<1> QED BY <1>0, <1>1, <1>2

\* A small chunk of bin id holds a request of that bin.
LEMMA SmallBinRange ==
    ASSUME NEW size \in Nat, size >= SMALL_LEAST_SIZE
    PROVE  /\ SmallBin(size) \in Bins
           /\ \A id \in Nat : id <= SmallBin(size) => id * FINE + FINE <= size
<1> DEFINE n == size - FINE
           id == n \div FINE
<1>0. FINE \in Nat /\ FINE >= 1 /\ BINMAP_SIZE \in Nat /\ BINMAP_SIZE >= 8
      /\ SMALL_LEAST_SIZE = 2 * FINE /\ CHUNK_PADDING_SIZE = FINE
  BY Bounds
<1>1. n \in Nat
  BY <1>0
<1>2. id \in Nat /\ id * FINE <= n
  BY <1>0, <1>1, Divided
<1>3. SmallBin(size) = IF id >= BINMAP_SIZE THEN BINMAP_SIZE - 1 ELSE id
  BY <1>0 DEF SmallBin
<1> HIDE DEF id
<1>4. SmallBin(size) \in Bins /\ SmallBin(size) <= id /\ SmallBin(size) \in Nat
  BY <1>0, <1>2, <1>3 DEF Bins
<1>5. ASSUME NEW j \in Nat, j <= SmallBin(size) PROVE j * FINE + FINE <= size
  <2>1. j * FINE <= id * FINE
    <3>1. j <= id
      BY <1>2, <1>4, <1>5
    <3> QED BY <1>0, <1>2, <3>1
  <2>2. j * FINE \in Nat /\ id * FINE \in Nat
    BY <1>0, <1>2
  <2> QED BY <1>0, <1>2, <2>1, <2>2
<1> QED BY <1>4, <1>5

-----------------------------------------------------------------------------
(* The invariant of the allocator.  A state s is one of the heap between   *)
(* two steps of a call, too: the free chunks in loose are then in no list, *)
(* a free chunk in open may have a free chunk behind it, and own[b] is the *)
(* slot that the block b of a slot belongs to.                             *)

Address == BlockIds \X Nat
Fields == {"inited", "panicked", "errors", "mem", "size", "used", "reserve", "bitmap",
           "bin", "dv", "slot", "slot_bin", "bytes", "counter"}

HeaderOK(h) ==
    /\ DOMAIN h = {"prev", "this", "flags", "bin", "color"}
    /\ h.prev \in Nat /\ h.this \in Nat
    /\ h.flags \subseteq Flags /\ h.bin \in Bins \cup SlotIds
    /\ "SLOT" \notin h.flags => h.bin \in Bins

Memory(s) ==
    /\ DOMAIN s = Fields
    /\ DOMAIN s.mem \subseteq Address
    /\ \A c \in DOMAIN s.mem : HeaderOK(s.mem[c])

Object(s) ==
    /\ s.bitmap \in [Levels -> SUBSET Bins]
    /\ s.bin \in [Levels -> [Bins -> Seq(Address)]]
    /\ s.dv \in [Levels -> Address \cup {NULL}]
    /\ s.slot_bin \in [SlotIds -> Seq(Address)]

TailChunk(s, b) == <<b, s.size[b] - CHUNK_FREE_SIZE>>
Kinds == {{"USED"}, {"USED", "BIG"}, {"USED", "BIG", "DIRECT"},
          {"USED", "BIG", "DIRECT", "SLOT"}}

Edges(s, b) ==
    LET head == BlockHead(b)
        tail == TailChunk(s, b)
    IN  /\ s.size[b] >= BlockOverhead + SMALL_LEAST_SIZE
        /\ head \in DOMAIN s.mem /\ tail \in DOMAIN s.mem
        /\ This(s, head) = CHUNK_FREE_SIZE /\ This(s, tail) = CHUNK_FREE_SIZE
        /\ InUse(s, tail) /\ s.mem[head].flags \in Kinds
        /\ ~Has(s, head, "DIRECT") => s.size[b] = DEFAULT_BLOCK_SIZE

Blocks(s) ==
    /\ s.used \in Seq(BlockIds) /\ s.reserve \in Seq(BlockIds)
    /\ IsInjective(s.used) /\ IsInjective(s.reserve)
    /\ ToSet(s.used) \cap ToSet(s.reserve) = {}
    /\ DOMAIN s.size = ToSet(s.used) \cup ToSet(s.reserve)
    /\ Len(s.reserve) <= MaxReserve
    /\ \A b \in DOMAIN s.size : s.size[b] \in Nat /\ s.size[b] % FINE = 0
    /\ \A b \in ToSet(s.reserve) : s.size[b] = DEFAULT_BLOCK_SIZE
    /\ \A b \in ToSet(s.used) : Edges(s, b)

IsTail(s, c) == c[2] = s.size[c[1]] - CHUNK_FREE_SIZE
IsHead(c) == c[2] = BLOCK_TYPE_SIZE
Between(s, c) ==
    \A d \in DOMAIN s.mem : d[1] = c[1] => d[2] <= c[2] \/ d[2] >= c[2] + This(s, c)

Chain(s) ==
    \A c \in DOMAIN s.mem :
      /\ c[1] \in ToSet(s.used)
      /\ BLOCK_TYPE_SIZE <= c[2] /\ c[2] <= s.size[c[1]] - CHUNK_FREE_SIZE
      /\ s.mem[c].flags \ {"USED"} = s.mem[BlockHead(c[1])].flags \ {"USED"}
      /\ IsTail(s, c) \/ /\ NextOf(s, c) \in DOMAIN s.mem
                         /\ s.mem[NextOf(s, c)].prev = This(s, c)
                         /\ This(s, c) >= SMALL_LEAST_SIZE
                         /\ Between(s, c)
      /\ IsHead(c) \/ /\ FrontOf(s, c) \in DOMAIN s.mem
                      /\ This(s, FrontOf(s, c)) = s.mem[c].prev

\* What Chunks(z) is.
Inner(s) == {c \in DOMAIN s.mem : ~IsHead(c) /\ ~IsTail(s, c)}
Used(s, c) == c \in Inner(s) /\ InUse(s, c)
Free(s, c) == c \in Inner(s) /\ ~InUse(s, c)

SlotSizes(s) ==
    /\ DOMAIN s.slot = SlotIds
    /\ \A i \in SlotIds :
         /\ DOMAIN s.slot[i] = {"user", "block", "max", "bytes"}
         /\ s.slot[i].user \in Nat
         /\ s.slot[i].user > 0 =>
              /\ s.slot[i].user >= FINE
              /\ s.slot[i].block \in Nat /\ s.slot[i].block <= MaxBytes + FINE
              /\ s.slot[i].max = CeilPowerOf2(s.slot[i].block + BlockOverhead + CHUNK_PADDING_SIZE)
                                   - BlockOverhead
              /\ s.slot[i].max >= s.slot[i].user + CHUNK_PADDING_SIZE

\* The chunk fills its block.
Fills(s, c) == c = FirstChunk(c[1]) /\ This(s, c) = s.size[c[1]] - BlockOverhead

OfSlot(s, c, i) ==
    /\ i \in SlotIds /\ s.slot[i].user > 0
    /\ This(s, c) >= s.slot[i].user + CHUNK_PADDING_SIZE
    /\ s.size[c[1]] = s.slot[i].max + BlockOverhead
    /\ InUse(s, c) => s.mem[c].bin = i

Room(s, own) ==
    \A c \in Inner(s) :
      /\ Has(s, c, "BIG") /\ ~Has(s, c, "SLOT") => This(s, c) >= BIG_LEAST_SIZE
      /\ Has(s, c, "DIRECT") /\ ~Has(s, c, "SLOT") => Fills(s, c)
      /\ Has(s, c, "SLOT") => OfSlot(s, c, own[c[1]])

BinOf(s, c) == IF Level(s, c) = 1 THEN BigBin(This(s, c)) ELSE SmallBin(This(s, c))

InBin(s, loose, l, b, c) ==
    /\ Free(s, c) /\ ~Has(s, c, "DIRECT") /\ c \notin loose
    /\ Level(s, c) = l /\ c # s.dv[l]
    /\ s.mem[c].bin = b /\ b = BinOf(s, c) /\ ~WholeBlock(s, c)

Binned(s, loose) ==
    \A l \in Levels, b \in Bins :
      /\ (b \in s.bitmap[l]) <=> (s.bin[l][b] # <<>>)
      /\ IsInjective(s.bin[l][b])
      /\ \A c \in ToSet(s.bin[l][b]) : InBin(s, loose, l, b, c)

DvSound(s, loose) ==
    \A l \in Levels : s.dv[l] # NULL =>
      /\ Free(s, s.dv[l]) /\ ~Has(s, s.dv[l], "DIRECT") /\ s.dv[l] \notin loose
      /\ Level(s, s.dv[l]) = l

InSlot(s, loose, own, i, c) ==
    /\ Free(s, c) /\ Has(s, c, "SLOT") /\ c \notin loose /\ own[c[1]] = i
    /\ ~SlotWhole(s, c, i)

SlotListed(s, loose, own) ==
    \A i \in SlotIds :
      /\ IsInjective(s.slot_bin[i])
      /\ \A c \in ToSet(s.slot_bin[i]) : InSlot(s, loose, own, i, c)

Found(s, loose) ==
    /\ \A c \in loose : Free(s, c)
    /\ \A c \in Inner(s) :
         \/ InUse(s, c) \/ c \in loose
         \/ \E l \in Levels : c = s.dv[l]
         \/ \E l \in Levels, b \in Bins : c \in ToSet(s.bin[l][b])
         \/ \E i \in SlotIds : c \in ToSet(s.slot_bin[i])

Apart(s, open) ==
    \A c \in Inner(s) : InUse(s, c) \/ InUse(s, NextOf(s, c)) \/ c \in open

Shape(s) == Memory(s) /\ Blocks(s) /\ Chain(s)
Lists(s, loose, own) ==
    /\ Object(s) /\ Binned(s, loose) /\ DvSound(s, loose)
    /\ SlotListed(s, loose, own) /\ Found(s, loose)

Heap(s, loose, open, own) ==
    /\ Shape(s) /\ SlotSizes(s) /\ Room(s, own)
    /\ Lists(s, loose, own) /\ Apart(s, open)

-----------------------------------------------------------------------------
(* The lists *)

\* Membership in a list.
LEMMA Member ==
    ASSUME NEW S, NEW q \in Seq(S), NEW x
    PROVE  x \in ToSet(q) <=> \E i \in 1 .. Len(q) : q[i] = x
BY DEF ToSet

\* The empty list.
LEMMA Empty ==
    ASSUME NEW S
    PROVE  /\ <<>> \in Seq(S) /\ ToSet(<<>>) = {} /\ IsInjective(<<>>)
           /\ \A q \in Seq(S) : (q = <<>> <=> ToSet(q) = {}) /\ ToSet(q) \subseteq S
<1>1. ASSUME NEW q \in Seq(S), q # <<>> PROVE q[1] \in ToSet(q)
  BY <1>1, Member
<1>2. \A q \in Seq(S) : ToSet(q) \subseteq S
  BY DEF ToSet
<1> QED BY <1>1, <1>2 DEF ToSet, IsInjective

\* A list with x in front.
LEMMA Consed ==
    ASSUME NEW S, NEW q \in Seq(S), NEW c \in S
    PROVE  LET p == <<c>> \o q IN
           /\ p \in Seq(S) /\ p # <<>> /\ ToSet(p) = ToSet(q) \cup {c}
           /\ Head(p) = c /\ Tail(p) = q
           /\ IsInjective(q) /\ c \notin ToSet(q) => IsInjective(p)
<1> DEFINE p == <<c>> \o q
<1>1. p \in Seq(S) /\ Len(p) = Len(q) + 1 /\ p[1] = c
      /\ \A i \in 1 .. Len(q) : p[i + 1] = q[i]
  OBVIOUS
<1>2. Head(p) = c /\ Tail(p) = q
  OBVIOUS
<1>3. \A i \in 1 .. Len(p) : i = 1 \/ (i - 1 \in 1 .. Len(q) /\ p[i] = q[i - 1])
  <2> TAKE i \in 1 .. Len(p)
  <2>1. CASE i # 1
    <3>1. i - 1 \in 1 .. Len(q) /\ (i - 1) + 1 = i
      BY <1>1, <2>1
    <3> QED BY <1>1, <3>1
  <2> QED BY <2>1
<1> HIDE DEF p
<1>4. ToSet(p) = ToSet(q) \cup {c}
  <2>1. ASSUME NEW x \in ToSet(p) PROVE x \in ToSet(q) \cup {c}
    <3>1. PICK i \in 1 .. Len(p) : p[i] = x
      BY <1>1, Member
    <3> QED BY <1>1, <1>3, <3>1, Member
  <2>2. ASSUME NEW x \in ToSet(q) PROVE x \in ToSet(p)
    <3>1. PICK i \in 1 .. Len(q) : q[i] = x
      BY Member
    <3>2. i + 1 \in 1 .. Len(p) /\ p[i + 1] = x
      BY <1>1, <3>1
    <3> QED BY <1>1, <3>2, Member
  <2>3. c \in ToSet(p)
    <3>1. 1 \in 1 .. Len(p)
      BY <1>1
    <3> QED BY <1>1, <3>1, Member
  <2> QED BY <2>1, <2>2, <2>3
<1>5. ASSUME IsInjective(q), c \notin ToSet(q) PROVE IsInjective(p)
  <2>1. DOMAIN p = 1 .. Len(p) /\ DOMAIN q = 1 .. Len(q)
    BY <1>1
  <2>2. ASSUME NEW i \in 1 .. Len(p), NEW j \in 1 .. Len(p), p[i] = p[j] PROVE i = j
    <3>1. \A k \in 1 .. Len(q) : q[k] # c
      BY <1>5, Member
    <3>2. i = 1 \/ (i - 1 \in 1 .. Len(q) /\ p[i] = q[i - 1])
      BY <1>3
    <3>3. j = 1 \/ (j - 1 \in 1 .. Len(q) /\ p[j] = q[j - 1])
      BY <1>3
    <3>4. CASE i # 1 /\ j # 1
      <4>1. i - 1 = j - 1
        BY <1>5, <2>1, <2>2, <3>2, <3>3, <3>4 DEF IsInjective
      <4> QED BY <4>1
    <3> QED BY <1>1, <2>2, <3>1, <3>2, <3>3, <3>4
  <2> QED BY <2>1, <2>2 DEF IsInjective
<1>6. p # <<>>
  BY <1>1
<1> QED BY <1>1, <1>2, <1>4, <1>5, <1>6 DEF p

\* A list without its first member.
LEMMA Tailed ==
    ASSUME NEW S, NEW q \in Seq(S), q # <<>>, IsInjective(q)
    PROVE  /\ Tail(q) \in Seq(S) /\ Head(q) \in S /\ Head(q) \in ToSet(q)
           /\ q = <<Head(q)>> \o Tail(q)
           /\ IsInjective(Tail(q)) /\ ToSet(Tail(q)) = ToSet(q) \ {Head(q)}
<1>1. Tail(q) \in Seq(S) /\ Head(q) \in S /\ Len(q) > 0 /\ Head(q) = q[1]
  OBVIOUS
<1>2. Len(Tail(q)) = Len(q) - 1 /\ \A i \in 1 .. Len(Tail(q)) : Tail(q)[i] = q[i + 1]
  BY <1>1
<1>3. q = <<Head(q)>> \o Tail(q)
  BY <1>1
<1>4. Head(q) \in ToSet(q)
  <2>1. 1 \in 1 .. Len(q)
    BY <1>1
  <2> QED BY <1>1, <2>1, Member
<1> DEFINE t == Tail(q)
           h == Head(q)
<1>5. ToSet(q) = ToSet(t) \cup {h}
  BY <1>1, <1>3, Consed
<1>6. DOMAIN q = 1 .. Len(q) /\ DOMAIN t = 1 .. Len(t)
  BY <1>1
<1>7. t \in Seq(S) /\ Len(t) = Len(q) - 1 /\ (\A i \in 1 .. Len(t) : t[i] = q[i + 1]) /\ h = q[1]
  BY <1>1, <1>2
<1> HIDE DEF t, h
<1>8. \A i \in 1 .. Len(t) : i + 1 \in 1 .. Len(q)
  BY <1>7
<1>9. IsInjective(t)
  <2>1. ASSUME NEW i \in 1 .. Len(t), NEW j \in 1 .. Len(t), t[i] = t[j] PROVE i = j
    <3>1. i + 1 = j + 1
      BY <1>6, <1>7, <1>8, <2>1 DEF IsInjective
    <3> QED BY <3>1
  <2> QED BY <1>6, <2>1 DEF IsInjective
<1>10. h \notin ToSet(t)
  <2> SUFFICES ASSUME h \in ToSet(t) PROVE FALSE
    OBVIOUS
  <2>1. PICK i \in 1 .. Len(t) : t[i] = h
    BY <1>7, Member
  <2>2. q[i + 1] = q[1] /\ i + 1 \in 1 .. Len(q) /\ 1 \in 1 .. Len(q)
    BY <1>1, <1>7, <1>8, <2>1
  <2>3. i + 1 = 1
    BY <1>6, <2>2 DEF IsInjective
  <2> QED BY <2>3
<1> QED BY <1>1, <1>3, <1>4, <1>5, <1>9, <1>10 DEF t, h

\* A list that a node left.
LEMMA Unlinked ==
    ASSUME NEW S, NEW q \in Seq(S), IsInjective(q), NEW x
    PROVE  /\ Unlink(q, x) \in Seq(S) /\ IsInjective(Unlink(q, x))
           /\ ToSet(Unlink(q, x)) = ToSet(q) \ {x}
<1>0. DOMAIN q = 1 .. Len(q) /\ Len(q) \in Nat
  OBVIOUS
<1>1. CASE x \notin ToSet(q)
  BY <1>1 DEF Unlink
<1>2. CASE x \in ToSet(q)
  <2> DEFINE k == CHOOSE i \in DOMAIN q : q[i] = x
             u == Unlink(q, x)
             a == SubSeq(q, 1, k - 1)
             b == SubSeq(q, k + 1, Len(q))
  <2>1. k \in 1 .. Len(q) /\ q[k] = x
    BY <1>0, <1>2, Member
  <2>2. u = a \o b
    BY <1>2 DEF Unlink, RemoveAt
  <2> HIDE DEF k, u
  <2>3. a \in Seq(S) /\ Len(a) = k - 1 /\ \A i \in 1 .. k - 1 : a[i] = q[i]
    BY <2>1
  <2>4. b \in Seq(S) /\ Len(b) = Len(q) - k /\ \A i \in 1 .. Len(q) - k : b[i] = q[i + k]
    BY <2>1
  <2> HIDE DEF a, b
  <2>5. u \in Seq(S) /\ Len(u) = Len(q) - 1
    BY <2>1, <2>2, <2>3, <2>4
  <2>6. \A i \in 1 .. Len(u) : u[i] = IF i < k THEN q[i] ELSE q[i + 1]
    <3> TAKE i \in 1 .. Len(u)
    <3>1. CASE i < k
      BY <2>1, <2>2, <2>3, <2>4, <2>5, <3>1
    <3>2. CASE i >= k
      <4>1. u[i] = b[i - (k - 1)]
        BY <2>1, <2>2, <2>3, <2>4, <2>5, <3>2
      <4>2. i - (k - 1) \in 1 .. Len(q) - k /\ (i - (k - 1)) + k = i + 1
        BY <2>1, <2>5, <3>2
      <4>3. b[i - (k - 1)] = q[i + 1]
        BY <2>4, <4>2
      <4> QED BY <2>1, <2>5, <3>2, <4>1, <4>3
    <3> QED BY <2>1, <2>5, <3>1, <3>2
  <2> DEFINE at(i) == IF i < k THEN i ELSE i + 1
  <2>7. \A i \in 1 .. Len(u) : at(i) \in 1 .. Len(q) /\ at(i) # k /\ u[i] = q[at(i)]
    BY <2>1, <2>5, <2>6
  <2>8. \A i, j \in 1 .. Len(u) : at(i) = at(j) => i = j
    BY <2>1, <2>5
  <2>9. \A j \in 1 .. Len(q) : j # k => \E i \in 1 .. Len(u) : at(i) = j
    <3> TAKE j \in 1 .. Len(q)
    <3>1. CASE j < k
      <4>1. j \in 1 .. Len(u) /\ at(j) = j
        BY <2>1, <2>5, <3>1
      <4> QED BY <4>1
    <3>2. CASE j > k
      <4>1. j - 1 \in 1 .. Len(u) /\ at(j - 1) = j
        BY <2>1, <2>5, <3>2
      <4> QED BY <4>1
    <3> QED BY <2>1, <3>1, <3>2
  <2> HIDE DEF at
  <2>10. DOMAIN u = 1 .. Len(u)
    BY <2>5
  <2>11. IsInjective(u)
    <3>1. ASSUME NEW i \in 1 .. Len(u), NEW j \in 1 .. Len(u), u[i] = u[j] PROVE i = j
      <4>1. at(i) = at(j)
        BY <1>0, <2>7, <3>1 DEF IsInjective
      <4> QED BY <2>8, <4>1
    <3> QED BY <2>10, <3>1 DEF IsInjective
  <2>12. \A i \in 1 .. Len(q) : q[i] = x => i = k
    BY <1>0, <2>1 DEF IsInjective
  <2>13. ToSet(u) = ToSet(q) \ {x}
    <3>1. ASSUME NEW y \in ToSet(u) PROVE y \in ToSet(q) /\ y # x
      <4>1. PICK i \in 1 .. Len(u) : u[i] = y
        BY <2>5, Member
      <4>2. at(i) \in 1 .. Len(q) /\ q[at(i)] = y /\ at(i) # k
        BY <2>7, <4>1
      <4> QED BY <2>12, <4>2, Member
    <3>2. ASSUME NEW y \in ToSet(q), y # x PROVE y \in ToSet(u)
      <4>1. PICK j \in 1 .. Len(q) : q[j] = y
        BY Member
      <4>2. PICK i \in 1 .. Len(u) : at(i) = j
        BY <2>1, <2>9, <3>2, <4>1
      <4>3. u[i] = y
        BY <2>7, <4>1, <4>2
      <4> QED BY <2>5, <4>3, Member
    <3> QED BY <3>1, <3>2
  <2> QED BY <2>5, <2>11, <2>13 DEF u
<1> QED BY <1>1, <1>2

\* Two lists without a common member.
LEMMA Joined ==
    ASSUME NEW S, NEW p \in Seq(S), NEW q \in Seq(S), IsInjective(p), IsInjective(q),
           ToSet(p) \cap ToSet(q) = {}
    PROVE  IsInjective(p \o q)
<1> DEFINE r == p \o q
<1>1. /\ r \in Seq(S) /\ Len(r) = Len(p) + Len(q)
      /\ \A i \in 1 .. Len(r) : r[i] = IF i <= Len(p) THEN p[i] ELSE q[i - Len(p)]
  OBVIOUS
<1>2. DOMAIN r = 1 .. Len(r) /\ DOMAIN p = 1 .. Len(p) /\ DOMAIN q = 1 .. Len(q)
      /\ Len(p) \in Nat /\ Len(q) \in Nat
  OBVIOUS
<1> HIDE DEF r
<1>3. ASSUME NEW i \in 1 .. Len(r), NEW j \in 1 .. Len(r), r[i] = r[j] PROVE i = j
  <2>1. \A k \in 1 .. Len(r) : k <= Len(p) => k \in 1 .. Len(p) /\ r[k] = p[k]
    BY <1>1, <1>2
  <2>2. \A k \in 1 .. Len(r) : k > Len(p) => k - Len(p) \in 1 .. Len(q) /\ r[k] = q[k - Len(p)]
    BY <1>1, <1>2
  <2>3. \A a \in 1 .. Len(p), b \in 1 .. Len(q) : p[a] # q[b]
    BY Member
  <2>4. CASE i <= Len(p) /\ j <= Len(p)
    BY <1>2, <1>3, <2>1, <2>4 DEF IsInjective
  <2>5. CASE i > Len(p) /\ j > Len(p)
    <3>1. i - Len(p) = j - Len(p)
      BY <1>2, <1>3, <2>2, <2>5 DEF IsInjective
    <3> QED BY <1>1, <1>2, <3>1
  <2>6. CASE i <= Len(p) /\ j > Len(p)
    BY <1>3, <2>1, <2>2, <2>3, <2>6
  <2>7. CASE i > Len(p) /\ j <= Len(p)
    <3>1. p[j] = q[i - Len(p)]
      BY <1>3, <2>1, <2>2, <2>7
    <3>2. j \in 1 .. Len(p) /\ i - Len(p) \in 1 .. Len(q)
      BY <2>1, <2>2, <2>7
    <3> QED BY <2>3, <3>1, <3>2
  <2> QED BY <1>1, <1>2, <2>4, <2>5, <2>6, <2>7
<1> QED BY <1>2, <1>3 DEF IsInjective, r

-----------------------------------------------------------------------------
(* The chunks of a block *)

\* All sizes in grains.
LEMMA Grains ==
    /\ FINE \in Nat /\ FINE >= 1 /\ CHUNK_PADDING_SIZE = FINE /\ CHUNK_FREE_SIZE = 2 * FINE
    /\ BLOCK_TYPE_SIZE = 2 * FINE /\ SMALL_LEAST_SIZE = 2 * FINE /\ BlockOverhead = 6 * FINE
    /\ BIG_LEAST_SIZE \in Nat /\ BIG_LEAST_SIZE >= 9 * FINE
    /\ DEFAULT_BLOCK_SIZE \in Nat /\ DEFAULT_BLOCK_SIZE >= 8 * FINE
BY Bounds

\* An address is a block and an offset.
LEMMA Pair ==
    ASSUME NEW c \in Address
    PROVE  c = <<c[1], c[2]>> /\ c[1] \in BlockIds /\ c[2] \in Nat /\ c # NULL
<1>1. c = <<c[1], c[2]>> /\ c[1] \in BlockIds /\ c[2] \in Nat
  BY DEF Address
<1>2. <<c[1], c[2]>> # <<>>
  OBVIOUS
<1> QED BY <1>1, <1>2 DEF NULL

\* Headers lie between the edges of their block.
LEMMA Headers ==
    ASSUME NEW s, Shape(s), NEW c \in DOMAIN s.mem
    PROVE  /\ c \in Address /\ c = <<c[1], c[2]>> /\ c[1] \in BlockIds /\ c[2] \in Nat
           /\ c # NULL /\ c[1] \in ToSet(s.used)
           /\ This(s, c) \in Nat /\ s.mem[c].prev \in Nat
           /\ s.mem[c].flags \subseteq Flags
           /\ s.size[c[1]] \in Nat /\ s.size[c[1]] >= 8 * FINE
           /\ Edges(s, c[1])
           /\ 2 * FINE <= c[2] /\ c[2] <= s.size[c[1]] - 2 * FINE
           /\ BlockHead(c[1]) = <<c[1], 2 * FINE>>
           /\ FirstChunk(c[1]) = <<c[1], 4 * FINE>>
           /\ TailChunk(s, c[1]) = <<c[1], s.size[c[1]] - 2 * FINE>>
<1>1. c \in Address /\ HeaderOK(s.mem[c])
  BY DEF Shape, Memory
<1>2. c[1] \in ToSet(s.used) /\ BLOCK_TYPE_SIZE <= c[2]
      /\ c[2] <= s.size[c[1]] - CHUNK_FREE_SIZE
  BY DEF Shape, Chain
<1>3. Edges(s, c[1]) /\ s.size[c[1]] \in Nat
  BY <1>2 DEF Shape, Blocks
<1>4. s.size[c[1]] >= 8 * FINE
  BY <1>3, Grains DEF Edges
<1>5. /\ BlockHead(c[1]) = <<c[1], 2 * FINE>> /\ FirstChunk(c[1]) = <<c[1], 4 * FINE>>
      /\ TailChunk(s, c[1]) = <<c[1], s.size[c[1]] - 2 * FINE>>
  BY Grains DEF BlockHead, FirstChunk, TailChunk
<1>6. c = <<c[1], c[2]>> /\ c[1] \in BlockIds /\ c[2] \in Nat /\ c # NULL
  BY <1>1, Pair
<1> QED BY <1>1, <1>2, <1>3, <1>4, <1>5, <1>6, Grains DEF HeaderOK, This

\* What a chunk is for is the same in its whole block.
LEMMA Kind ==
    ASSUME NEW s, Shape(s), NEW c \in DOMAIN s.mem
    PROVE  /\ Has(s, c, "SLOT") => Has(s, c, "DIRECT")
           /\ Has(s, c, "DIRECT") => Has(s, c, "BIG")
           /\ ~Has(s, c, "DIRECT") => s.size[c[1]] = DEFAULT_BLOCK_SIZE
           /\ \A f \in {"BIG", "DIRECT", "SLOT"} : \A d \in DOMAIN s.mem :
                d[1] = c[1] => (Has(s, c, f) <=> Has(s, d, f))
           /\ \A d \in DOMAIN s.mem : d[1] = c[1] => Level(s, d) = Level(s, c)
<1> DEFINE h == BlockHead(c[1])
<1>1. \A d \in DOMAIN s.mem : d[1] = c[1] =>
        s.mem[d].flags \ {"USED"} = s.mem[h].flags \ {"USED"}
  BY DEF Shape, Chain
<1>2. h \in DOMAIN s.mem /\ s.mem[h].flags \in Kinds
      /\ (~Has(s, h, "DIRECT") => s.size[c[1]] = DEFAULT_BLOCK_SIZE)
  BY Headers DEF Edges
<1> HIDE DEF h
<1>3. \A d \in DOMAIN s.mem : d[1] = c[1] =>
        \A f \in {"BIG", "DIRECT", "SLOT"} : Has(s, d, f) <=> Has(s, h, f)
  BY <1>1 DEF Has
<1>4. (Has(s, h, "SLOT") => Has(s, h, "DIRECT")) /\ (Has(s, h, "DIRECT") => Has(s, h, "BIG"))
  BY <1>2 DEF Has, Kinds
<1> QED BY <1>2, <1>3, <1>4 DEF Level

\* A chunk follows its front and is in front of what follows.
LEMMA InnerChunk ==
    ASSUME NEW s, Shape(s), NEW c \in Inner(s)
    PROVE  /\ c \in DOMAIN s.mem
           /\ This(s, c) >= 2 * FINE /\ Between(s, c)
           /\ NextOf(s, c) \in DOMAIN s.mem /\ NextOf(s, c)[1] = c[1]
           /\ NextOf(s, c)[2] = c[2] + This(s, c) /\ ~IsHead(NextOf(s, c))
           /\ s.mem[NextOf(s, c)].prev = This(s, c) /\ FrontOf(s, NextOf(s, c)) = c
           /\ FrontOf(s, c) \in DOMAIN s.mem /\ FrontOf(s, c)[1] = c[1]
           /\ FrontOf(s, c)[2] + This(s, FrontOf(s, c)) = c[2]
           /\ ~IsTail(s, FrontOf(s, c)) /\ s.mem[c].prev = This(s, FrontOf(s, c))
           /\ NextOf(s, FrontOf(s, c)) = c
           /\ This(s, FrontOf(s, c)) >= 2 * FINE
           /\ 4 * FINE <= c[2] /\ c[2] + This(s, c) <= s.size[c[1]] - 2 * FINE
<1> DEFINE p == FrontOf(s, c)
           n == NextOf(s, c)
<1>1. c \in DOMAIN s.mem /\ ~IsHead(c) /\ ~IsTail(s, c)
  BY DEF Inner
<1>2. n \in DOMAIN s.mem /\ s.mem[n].prev = This(s, c) /\ This(s, c) >= SMALL_LEAST_SIZE
      /\ Between(s, c)
  BY <1>1 DEF Shape, Chain
<1>3. p \in DOMAIN s.mem /\ This(s, p) = s.mem[c].prev
  BY <1>1 DEF Shape, Chain
<1>4. n = <<c[1], c[2] + This(s, c)>> /\ p = <<c[1], c[2] - This(s, p)>>
  BY <1>3 DEF NextOf, FrontOf, This
<1>5. /\ c = <<c[1], c[2]>> /\ c[2] \in Nat /\ This(s, c) \in Nat
      /\ s.size[c[1]] \in Nat /\ 2 * FINE <= c[2] /\ c[2] <= s.size[c[1]] - 2 * FINE
  BY <1>1, Headers
<1>6. This(s, p) \in Nat /\ 2 * FINE <= p[2] /\ p[2] <= s.size[p[1]] - 2 * FINE
  BY <1>3, Headers
<1>7. n[2] <= s.size[n[1]] - 2 * FINE
  BY <1>2, Headers
<1>8. c[2] # 2 * FINE /\ c[2] # s.size[c[1]] - 2 * FINE
  BY <1>1, Grains DEF IsHead, IsTail
<1>9. FrontOf(s, n) = c
  BY <1>2, <1>4, <1>5 DEF FrontOf
<1>10. NextOf(s, p) = c
  BY <1>4, <1>5, <1>6 DEF NextOf, This
<1>11. /\ n[1] = c[1] /\ n[2] = c[2] + This(s, c) /\ p[1] = c[1] /\ p[2] = c[2] - This(s, p)
  BY <1>4
<1> HIDE DEF n, p
<1>12. This(s, p) >= 2 * FINE
  <2>1. CASE IsTail(s, p)
    BY <2>1, <1>5, <1>6, <1>8, <1>11, Grains DEF IsTail
  <2>2. CASE ~IsTail(s, p)
    BY <1>3, <2>2, Grains DEF Shape, Chain
  <2> QED BY <2>1, <2>2
<1>13. p[2] < c[2] /\ 4 * FINE <= c[2]
  BY <1>5, <1>6, <1>11, <1>12, Grains
<1>14. ~IsTail(s, p) /\ ~IsHead(n)
  BY <1>2, <1>5, <1>6, <1>8, <1>11, <1>13, Grains DEF IsTail, IsHead
<1> QED BY <1>1, <1>2, <1>3, <1>5, <1>6, <1>7, <1>9, <1>10, <1>11, <1>12, <1>13, <1>14, Grains
        DEF n, p

\* The neighbours of a chunk are chunks or the edges of the block, in use.
LEMMA Neighbours ==
    ASSUME NEW s, Shape(s), NEW c \in Inner(s)
    PROVE  /\ FrontOf(s, c) \in Inner(s) \/ (c[2] = 4 * FINE /\ FrontOf(s, c) = BlockHead(c[1])
                                             /\ InUse(s, FrontOf(s, c)))
           /\ NextOf(s, c) \in Inner(s) \/ (c[2] + This(s, c) = s.size[c[1]] - 2 * FINE
                                            /\ NextOf(s, c) = TailChunk(s, c[1])
                                            /\ InUse(s, NextOf(s, c)))
<1> DEFINE p == FrontOf(s, c)
           n == NextOf(s, c)
<1>1. /\ c \in DOMAIN s.mem
      /\ n \in DOMAIN s.mem /\ n[1] = c[1] /\ n[2] = c[2] + This(s, c) /\ ~IsHead(n)
      /\ p \in DOMAIN s.mem /\ p[1] = c[1] /\ p[2] + This(s, p) = c[2] /\ ~IsTail(s, p)
  BY InnerChunk
<1> HIDE DEF p, n
<1>2. Edges(s, c[1]) /\ BlockHead(c[1]) = <<c[1], 2 * FINE>>
      /\ TailChunk(s, c[1]) = <<c[1], s.size[c[1]] - 2 * FINE>>
  BY <1>1, Headers
<1>3. p = <<p[1], p[2]>> /\ n = <<n[1], n[2]>> /\ p[2] \in Nat /\ This(s, p) \in Nat
  BY <1>1, Headers
<1>6. ~IsHead(p) => p \in Inner(s)
  BY <1>1 DEF Inner
<1>7. ~IsTail(s, n) => n \in Inner(s)
  BY <1>1 DEF Inner
<1>8. IsTail(s, n) => c[2] + This(s, c) = s.size[c[1]] - 2 * FINE
                      /\ n = TailChunk(s, c[1]) /\ InUse(s, n)
  <2> SUFFICES ASSUME IsTail(s, n) PROVE c[2] + This(s, c) = s.size[c[1]] - 2 * FINE
                      /\ n = TailChunk(s, c[1]) /\ InUse(s, n)
    OBVIOUS
  <2>1. n = TailChunk(s, c[1])
    BY <1>1, <1>2, <1>3, Grains DEF IsTail
  <2>2. InUse(s, n) /\ n[2] = s.size[c[1]] - 2 * FINE
    BY <1>1, <1>2, <2>1, Grains DEF Edges, IsTail
  <2> QED BY <1>1, <2>1, <2>2
<1>9. IsHead(p) => (c[2] = 4 * FINE /\ p = BlockHead(c[1]) /\ InUse(s, p))
  <2> SUFFICES ASSUME IsHead(p) PROVE c[2] = 4 * FINE /\ p = BlockHead(c[1]) /\ InUse(s, p)
    OBVIOUS
  <2>1. p = BlockHead(c[1])
    BY <1>1, <1>2, <1>3, Grains DEF IsHead
  <2>2. This(s, p) = 2 * FINE /\ InUse(s, p)
    BY <1>2, <2>1, Grains DEF Edges, Kinds, InUse, Has
  <2>3. c[2] = 4 * FINE
    BY <1>1, <1>3, <2>2, Grains DEF IsHead
  <2> QED BY <2>1, <2>2, <2>3
<1> QED BY <1>6, <1>7, <1>8, <1>9 DEF p, n

\* A chunk that leaves less room in its block than another chunk needs is alone.
LEMMA Alone ==
    ASSUME NEW s, Shape(s), NEW c \in Inner(s), NEW k \in Nat,
           \A d \in Inner(s) : d[1] = c[1] => This(s, d) >= k,
           This(s, c) > s.size[c[1]] - BlockOverhead - k
    PROVE  Fills(s, c) /\ \A d \in Inner(s) : d[1] = c[1] => d = c
<1> DEFINE p == FrontOf(s, c)
           n == NextOf(s, c)
           z0 == s.size[c[1]]
<1>1. /\ c \in DOMAIN s.mem /\ This(s, c) >= 2 * FINE /\ Between(s, c)
      /\ n \in DOMAIN s.mem /\ n[1] = c[1] /\ n[2] = c[2] + This(s, c)
      /\ p \in DOMAIN s.mem /\ p[1] = c[1] /\ p[2] + This(s, p) = c[2]
      /\ 4 * FINE <= c[2] /\ c[2] + This(s, c) <= z0 - 2 * FINE
  BY InnerChunk
<1>2. c = <<c[1], c[2]>> /\ c[2] \in Nat /\ This(s, c) \in Nat /\ z0 \in Nat
      /\ FirstChunk(c[1]) = <<c[1], 4 * FINE>>
  BY <1>1, Headers
<1>3. ASSUME p \in Inner(s) PROVE FALSE
  <2>1. 4 * FINE <= p[2] /\ This(s, p) >= k /\ p[2] \in Nat /\ This(s, p) \in Nat
    BY <1>1, <1>3, InnerChunk, Headers
  <2> QED BY <1>1, <1>2, <2>1, Grains
<1>4. ASSUME n \in Inner(s) PROVE FALSE
  <2>1. n[2] + This(s, n) <= z0 - 2 * FINE /\ This(s, n) >= k /\ n[2] \in Nat /\ This(s, n) \in Nat
    BY <1>1, <1>4, InnerChunk, Headers
  <2> QED BY <1>1, <1>2, <2>1, Grains
<1>5. c[2] = 4 * FINE /\ c[2] + This(s, c) = z0 - 2 * FINE
  BY <1>3, <1>4, Neighbours
<1>6. ASSUME NEW d \in Inner(s), d[1] = c[1] PROVE d = c
  <2>1. d \in DOMAIN s.mem /\ 4 * FINE <= d[2] /\ d[2] + This(s, d) <= z0 - 2 * FINE
        /\ This(s, d) >= 2 * FINE
    BY <1>6, InnerChunk
  <2>2. d = <<d[1], d[2]>> /\ d[2] \in Nat /\ This(s, d) \in Nat
    BY <2>1, Headers
  <2>3. d[2] <= c[2] \/ d[2] >= c[2] + This(s, c)
    BY <1>1, <1>6, <2>1 DEF Between
  <2>4. d[2] = c[2]
    BY <1>2, <1>5, <2>1, <2>2, <2>3, Grains
  <2> QED BY <1>2, <1>6, <2>2, <2>4
<1>7. Fills(s, c)
  <2>1. c = FirstChunk(c[1])
    BY <1>2, <1>5
  <2>2. This(s, c) = z0 - 6 * FINE
    BY <1>2, <1>5, Grains
  <2>3. This(s, c) = z0 - BlockOverhead
    BY <2>2, Grains
  <2> QED BY <2>1, <2>3 DEF Fills
<1> QED BY <1>6, <1>7

\* Every block in use has a first chunk.
LEMMA First ==
    ASSUME NEW s, Shape(s), NEW b \in ToSet(s.used)
    PROVE  /\ FirstChunk(b) \in Inner(s) /\ FirstChunk(b)[1] = b
           /\ BlockHead(b) \in DOMAIN s.mem /\ NextOf(s, BlockHead(b)) = FirstChunk(b)
<1>1. Edges(s, b) /\ s.size[b] \in Nat
  BY DEF Shape, Blocks
<1> DEFINE h == BlockHead(b)
<1>2. h \in DOMAIN s.mem /\ h = <<b, 2 * FINE>> /\ This(s, h) = 2 * FINE
      /\ s.size[b] >= 8 * FINE
  BY <1>1, Grains DEF Edges, BlockHead
<1>3. FirstChunk(b) = <<b, 4 * FINE>>
  BY Grains DEF FirstChunk
<1>4. ~IsTail(s, h)
  BY <1>1, <1>2, Grains DEF IsTail
<1>5. NextOf(s, h) \in DOMAIN s.mem
  BY <1>2, <1>4 DEF Shape, Chain
<1>6. NextOf(s, h) = <<b, 4 * FINE>>
  BY <1>2, Grains DEF NextOf, This
<1>7. ~IsHead(FirstChunk(b)) /\ ~IsTail(s, FirstChunk(b))
  BY <1>1, <1>2, <1>3, Grains DEF IsHead, IsTail
<1> QED BY <1>2, <1>3, <1>5, <1>6, <1>7 DEF Inner

-----------------------------------------------------------------------------
(* Steps that leave the blocks as they are cut *)

UsedBy(s) == {c \in Inner(s) : InUse(s, c)}

\* The chunks in use and their sizes are the same.
Kept(s, t) ==
    /\ t.inited = s.inited /\ t.panicked = s.panicked /\ t.errors = s.errors
    /\ UsedBy(t) = UsedBy(s)
    /\ \A c \in UsedBy(s) : This(t, c) = This(s, c)

SameRest(s, t) ==
    t.inited = s.inited /\ t.panicked = s.panicked /\ t.errors = s.errors
SameLists(s, t) ==
    t.bitmap = s.bitmap /\ t.bin = s.bin /\ t.dv = s.dv /\ t.slot_bin = s.slot_bin
SameSlots(s, t) ==
    /\ DOMAIN t.slot = DOMAIN s.slot
    /\ \A i \in DOMAIN s.slot :
         /\ DOMAIN t.slot[i] = DOMAIN s.slot[i] /\ t.slot[i].user = s.slot[i].user
         /\ t.slot[i].block = s.slot[i].block /\ t.slot[i].max = s.slot[i].max
Kindred(h, g) ==
    /\ h.prev = g.prev /\ h.this = g.this /\ h.flags \ {"USED"} = g.flags \ {"USED"}
Alike(s, t) ==
    /\ DOMAIN t = Fields
    /\ t.size = s.size /\ t.used = s.used /\ t.reserve = s.reserve
    /\ DOMAIN t.mem = DOMAIN s.mem
    /\ \A c \in DOMAIN s.mem :
         /\ HeaderOK(t.mem[c]) /\ Kindred(t.mem[c], s.mem[c])
         /\ c \notin Inner(s) => t.mem[c].flags = s.mem[c].flags

\* States with alike headers cut their blocks alike.
LEMMA SameChunks ==
    ASSUME NEW s, NEW t, Alike(s, t)
    PROVE  /\ DOMAIN t.mem = DOMAIN s.mem /\ Inner(t) = Inner(s)
           /\ \A c \in DOMAIN s.mem :
                /\ This(t, c) = This(s, c) /\ NextOf(t, c) = NextOf(s, c)
                /\ FrontOf(t, c) = FrontOf(s, c) /\ Level(t, c) = Level(s, c)
                /\ \A f \in {"BIG", "DIRECT", "SLOT"} : Has(t, c, f) <=> Has(s, c, f)
                /\ BinOf(t, c) = BinOf(s, c) /\ (WholeBlock(t, c) <=> WholeBlock(s, c))
                /\ (Fills(t, c) <=> Fills(s, c))
                /\ (IsTail(t, c) <=> IsTail(s, c))
                /\ (Between(t, c) <=> Between(s, c))
<1>1. DOMAIN t.mem = DOMAIN s.mem /\ t.size = s.size
  BY DEF Alike
<1>2. ASSUME NEW c \in DOMAIN s.mem
      PROVE  /\ This(t, c) = This(s, c) /\ NextOf(t, c) = NextOf(s, c)
             /\ FrontOf(t, c) = FrontOf(s, c)
  BY <1>2 DEF Alike, Kindred, This, NextOf, FrontOf
<1>3. ASSUME NEW c \in DOMAIN s.mem, NEW f \in {"BIG", "DIRECT", "SLOT"}
      PROVE  Has(t, c, f) <=> Has(s, c, f)
  <2>1. t.mem[c].flags \ {"USED"} = s.mem[c].flags \ {"USED"}
    BY DEF Alike, Kindred
  <2> QED BY <2>1 DEF Has
<1>4. ASSUME NEW c \in DOMAIN s.mem
      PROVE  Level(t, c) = Level(s, c) /\ BinOf(t, c) = BinOf(s, c)
             /\ (WholeBlock(t, c) <=> WholeBlock(s, c))
  BY <1>2, <1>3 DEF Level, BinOf, WholeBlock
<1>5. ASSUME NEW c \in DOMAIN s.mem
      PROVE  /\ (Fills(t, c) <=> Fills(s, c)) /\ (IsTail(t, c) <=> IsTail(s, c))
             /\ (Between(t, c) <=> Between(s, c))
  BY <1>1, <1>2 DEF Fills, IsTail, Between
<1>6. Inner(t) = Inner(s)
  BY <1>1, <1>5 DEF Inner
<1> QED BY <1>1, <1>2, <1>3, <1>4, <1>5, <1>6

\* The two edges of a block are headers and no chunks.
LEMMA Edge ==
    ASSUME NEW s, Shape(s), NEW b \in ToSet(s.used)
    PROVE  /\ BlockHead(b) \in DOMAIN s.mem /\ TailChunk(s, b) \in DOMAIN s.mem
           /\ BlockHead(b) \notin Inner(s) /\ TailChunk(s, b) \notin Inner(s)
BY DEF Shape, Blocks, Edges, Inner, IsHead, IsTail, BlockHead, TailChunk

\* Alike headers keep the shape of the heap.
LEMMA SameShape ==
    ASSUME NEW s, NEW t, Alike(s, t), Shape(s)
    PROVE  Shape(t)
<1> USE SameChunks
<1>1. Memory(t)
  BY DEF Memory, Shape, Alike
<1>2. t.size = s.size /\ t.used = s.used /\ t.reserve = s.reserve
  BY DEF Alike
<1>3. ASSUME NEW b \in ToSet(s.used) PROVE Edges(t, b)
  <2> DEFINE h == BlockHead(b)
             e == TailChunk(s, b)
  <2>1. Edges(s, b) /\ h \in DOMAIN s.mem /\ e \in DOMAIN s.mem
        /\ h \notin Inner(s) /\ e \notin Inner(s)
    BY Edge DEF Shape, Blocks
  <2>2. TailChunk(t, b) = e
    BY <1>2 DEF TailChunk
  <2> HIDE DEF h, e
  <2>3. t.mem[h].flags = s.mem[h].flags /\ t.mem[e].flags = s.mem[e].flags
    BY <2>1 DEF Alike
  <2>4. This(t, h) = This(s, h) /\ This(t, e) = This(s, e)
    BY <2>1
  <2> QED BY <1>2, <2>1, <2>2, <2>3, <2>4 DEF Edges, InUse, Has, h, e
<1>4. Blocks(t)
  BY <1>2, <1>3 DEF Blocks, Shape
<1>5. ASSUME NEW c \in DOMAIN t.mem
      PROVE  t.mem[c].flags \ {"USED"} = t.mem[BlockHead(c[1])].flags \ {"USED"}
  <2>1. c \in DOMAIN s.mem /\ c[1] \in ToSet(s.used)
    BY DEF Shape, Chain
  <2>2. BlockHead(c[1]) \in DOMAIN s.mem
    BY <2>1, Edge
  <2>3. t.mem[BlockHead(c[1])].flags \ {"USED"} = s.mem[BlockHead(c[1])].flags \ {"USED"}
    BY <2>2 DEF Alike, Kindred
  <2>4. t.mem[c].flags \ {"USED"} = s.mem[c].flags \ {"USED"}
    BY <2>1 DEF Alike, Kindred
  <2> QED BY <2>1, <2>3, <2>4 DEF Shape, Chain
<1>6. \A c \in DOMAIN s.mem : t.mem[c].prev = s.mem[c].prev
  BY DEF Alike, Kindred
<1>7. Chain(t)
  <2> SUFFICES ASSUME NEW c \in DOMAIN t.mem
               PROVE  /\ c[1] \in ToSet(t.used)
                      /\ BLOCK_TYPE_SIZE <= c[2] /\ c[2] <= t.size[c[1]] - CHUNK_FREE_SIZE
                      /\ IsTail(t, c) \/ /\ NextOf(t, c) \in DOMAIN t.mem
                                         /\ t.mem[NextOf(t, c)].prev = This(t, c)
                                         /\ This(t, c) >= SMALL_LEAST_SIZE
                                         /\ Between(t, c)
                      /\ IsHead(c) \/ /\ FrontOf(t, c) \in DOMAIN t.mem
                                      /\ This(t, FrontOf(t, c)) = t.mem[c].prev
    BY <1>5 DEF Chain
  <2>1. c \in DOMAIN s.mem
    OBVIOUS
  <2>2. /\ c[1] \in ToSet(s.used)
        /\ BLOCK_TYPE_SIZE <= c[2] /\ c[2] <= s.size[c[1]] - CHUNK_FREE_SIZE
        /\ IsTail(s, c) \/ /\ NextOf(s, c) \in DOMAIN s.mem
                           /\ s.mem[NextOf(s, c)].prev = This(s, c)
                           /\ This(s, c) >= SMALL_LEAST_SIZE
                           /\ Between(s, c)
        /\ IsHead(c) \/ /\ FrontOf(s, c) \in DOMAIN s.mem
                        /\ This(s, FrontOf(s, c)) = s.mem[c].prev
    BY <2>1 DEF Shape, Chain
  <2> QED BY <1>2, <1>6, <2>1, <2>2
<1> QED BY <1>1, <1>4, <1>7 DEF Shape

\* The sizes of a slot stay.
LEMMA SameSizes ==
    ASSUME NEW s, NEW t, SameSlots(s, t), SlotSizes(s)
    PROVE  SlotSizes(t)
BY DEF SameSlots, SlotSizes

\* Every chunk in use still has the room its slot or level asks for.
LEMMA SameRoom ==
    ASSUME NEW s, NEW t, NEW own, Alike(s, t), SameSlots(s, t), SlotSizes(s), Room(s, own),
           \A c \in Inner(s) : Has(s, c, "SLOT") /\ InUse(t, c) =>
              t.mem[c].bin = own[c[1]]
    PROVE  Room(t, own)
<1> USE SameChunks
<1>1. t.size = s.size
  BY DEF Alike
<1> SUFFICES ASSUME NEW c \in Inner(t)
             PROVE  /\ Has(t, c, "BIG") /\ ~Has(t, c, "SLOT") => This(t, c) >= BIG_LEAST_SIZE
                    /\ Has(t, c, "DIRECT") /\ ~Has(t, c, "SLOT") => Fills(t, c)
                    /\ Has(t, c, "SLOT") => OfSlot(t, c, own[c[1]])
  BY DEF Room
<1>2. c \in Inner(s) /\ c \in DOMAIN s.mem
  BY DEF Inner
<1>3. /\ Has(s, c, "BIG") /\ ~Has(s, c, "SLOT") => This(s, c) >= BIG_LEAST_SIZE
      /\ Has(s, c, "DIRECT") /\ ~Has(s, c, "SLOT") => Fills(s, c)
      /\ Has(s, c, "SLOT") => OfSlot(s, c, own[c[1]])
  BY <1>2 DEF Room
<1>4. Has(s, c, "SLOT") => OfSlot(t, c, own[c[1]])
  <2> SUFFICES ASSUME Has(s, c, "SLOT") PROVE OfSlot(t, c, own[c[1]])
    OBVIOUS
  <2>1. OfSlot(s, c, own[c[1]])
    BY <1>3
  <2>2. own[c[1]] \in DOMAIN s.slot
    BY <2>1 DEF OfSlot, SlotSizes
  <2>3. t.slot[own[c[1]]].user = s.slot[own[c[1]]].user
        /\ t.slot[own[c[1]]].max = s.slot[own[c[1]]].max
    BY <2>2 DEF SameSlots
  <2> QED BY <1>1, <1>2, <2>1, <2>3 DEF OfSlot
<1> QED BY <1>2, <1>3, <1>4

\* A list member stays one as long as its own header does.
LEMMA StillInBin ==
    ASSUME NEW s, NEW t, NEW loose, NEW out, NEW l, NEW b, NEW c, Alike(s, t),
           InBin(s, loose, l, b, c), ~InUse(t, c), t.mem[c].bin = b, c \notin out, c # t.dv[l]
    PROVE  InBin(t, out, l, b, c)
BY SameChunks DEF InBin, Free, Inner

\* The same for a list of a slot.
LEMMA StillInSlot ==
    ASSUME NEW s, NEW t, NEW loose, NEW out, NEW own, NEW i \in SlotIds, NEW c,
           Alike(s, t), SameSlots(s, t), SlotSizes(s),
           InSlot(s, loose, own, i, c), ~InUse(t, c), c \notin out
    PROVE  InSlot(t, out, own, i, c)
<1>1. c \in DOMAIN s.mem
  BY DEF InSlot, Free, Inner
<1>2. t.slot[i].user = s.slot[i].user /\ t.slot[i].max = s.slot[i].max
  BY DEF SameSlots, SlotSizes
<1>3. This(t, c) = This(s, c)
  BY <1>1, SameChunks
<1>4. ~SlotWhole(t, c, i)
  BY <1>2, <1>3 DEF InSlot, SlotWhole
<1> QED BY <1>1, <1>4, SameChunks DEF InSlot, Free

\* The header of one chunk and whether it is in use change, and no list.
LEMMA Untouched ==
    ASSUME NEW s, NEW t, NEW loose, NEW out, NEW open, NEW own,
           Heap(s, loose, open, own), Alike(s, t), SameLists(s, t), SameSlots(s, t),
           NEW c, InUse(s, c) \/ c \in loose,
           \A d \in DOMAIN s.mem : d # c => t.mem[d] = s.mem[d],
           out \subseteq loose \cup {c}, loose \subseteq out \cup {c}
    PROVE  /\ Shape(t) /\ SlotSizes(t) /\ Object(t) /\ Binned(t, out) /\ DvSound(t, out)
           /\ SlotListed(t, out, own)
<1>1. Shape(t) /\ SlotSizes(t)
  BY SameShape, SameSizes DEF Heap
<1>2. Object(t)
  BY DEF Heap, Lists, Object, SameLists
<1>3. \A d \in Inner(s) : d # c => (InUse(t, d) <=> InUse(s, d)) /\ t.mem[d].bin = s.mem[d].bin
  BY DEF Inner, InUse, Has
<1>4. Binned(t, out)
  <2> SUFFICES ASSUME NEW l \in Levels, NEW b \in Bins, NEW d \in ToSet(s.bin[l][b])
               PROVE  InBin(t, out, l, b, d)
    BY DEF Heap, Lists, Binned, SameLists
  <2>1. InBin(s, loose, l, b, d)
    BY DEF Heap, Lists, Binned
  <2>2. d # c /\ d \in Inner(s)
    BY <2>1 DEF InBin, Free
  <2>3. ~InUse(t, d) /\ t.mem[d].bin = b /\ d \notin out /\ d # t.dv[l]
    BY <1>3, <2>1, <2>2 DEF InBin, Free, SameLists
  <2> QED BY <2>1, <2>3, StillInBin
<1>5. DvSound(t, out)
  <2> SUFFICES ASSUME NEW l \in Levels, t.dv[l] # NULL
               PROVE  /\ Free(t, t.dv[l]) /\ ~Has(t, t.dv[l], "DIRECT") /\ t.dv[l] \notin out
                      /\ Level(t, t.dv[l]) = l
    BY DEF DvSound
  <2> DEFINE d == s.dv[l]
  <2>1. t.dv[l] = d /\ Free(s, d) /\ ~Has(s, d, "DIRECT") /\ d \notin loose /\ Level(s, d) = l
    BY DEF Heap, Lists, DvSound, SameLists
  <2>2. d # c /\ d \in Inner(s) /\ d \in DOMAIN s.mem
    BY <2>1 DEF Free, Inner
  <2> QED BY <1>3, <2>1, <2>2, SameChunks DEF Free
<1>6. SlotListed(t, out, own)
  <2> SUFFICES ASSUME NEW i \in SlotIds, NEW d \in ToSet(s.slot_bin[i])
               PROVE  InSlot(t, out, own, i, d)
    BY DEF Heap, Lists, SlotListed, SameLists
  <2>1. InSlot(s, loose, own, i, d)
    BY DEF Heap, Lists, SlotListed
  <2>2. d # c /\ d \in Inner(s)
    BY <2>1 DEF InSlot, Free
  <2>3. ~InUse(t, d) /\ d \notin out
    BY <1>3, <2>1, <2>2 DEF InSlot, Free
  <2> QED BY <2>1, <2>3, StillInSlot DEF Heap
<1> QED BY <1>1, <1>2, <1>4, <1>5, <1>6

\* The bin of a chunk of a slot in use is its slot.
LEMMA SlotBin ==
    ASSUME NEW s, NEW own, Room(s, own), NEW c \in Inner(s), Has(s, c, "SLOT"), InUse(s, c)
    PROVE  s.mem[c].bin = own[c[1]]
BY DEF Room, OfSlot

\* A chunk handed out may have closed the gap between it and the free chunk
\* in front.
Shut(s, open, c) == {x \in open : x # c /\ NextOf(s, x) # c}

\* A chunk is handed out.
LEMMA Handed ==
    ASSUME NEW s, NEW t, NEW loose, NEW open, NEW own,
           Heap(s, loose, open, own), Alike(s, t), SameLists(s, t), SameSlots(s, t),
           NEW c \in loose, InUse(t, c),
           \A d \in DOMAIN s.mem : d # c => t.mem[d] = s.mem[d],
           Has(s, c, "SLOT") => t.mem[c].bin = own[c[1]]
    PROVE  /\ Heap(t, loose \ {c}, Shut(s, open, c), own)
           /\ UsedBy(t) = UsedBy(s) \cup {c} /\ c \notin UsedBy(s)
           /\ \A d \in UsedBy(t) : This(t, d) = This(s, d)
<1> DEFINE out == loose \ {c}
           rest == Shut(s, open, c)
<1>1. /\ Shape(t) /\ SlotSizes(t) /\ Object(t) /\ Binned(t, out) /\ DvSound(t, out)
      /\ SlotListed(t, out, own)
  <2>1. out \subseteq loose \cup {c} /\ loose \subseteq out \cup {c}
    OBVIOUS
  <2> HIDE DEF out
  <2> QED BY <2>1, Untouched
<1>2. \A d \in DOMAIN s.mem : d # c => (InUse(t, d) <=> InUse(s, d)) /\ t.mem[d].bin = s.mem[d].bin
  BY DEF InUse, Has
<1>3. c \in Inner(s) /\ ~InUse(s, c)
  BY DEF Heap, Lists, Found, Free
<1>4. Inner(t) = Inner(s) /\ Inner(s) \subseteq DOMAIN s.mem
  BY SameChunks DEF Inner
<1>5. Room(t, own)
  <2>1. \A d \in Inner(s) : Has(s, d, "SLOT") /\ InUse(t, d) => t.mem[d].bin = own[d[1]]
    BY <1>2, <1>4, SlotBin DEF Heap
  <2> QED BY <2>1, SameRoom DEF Heap
<1>6. Found(t, out)
  <2>1. \A d \in out : Free(t, d)
    BY <1>2, <1>4 DEF Heap, Lists, Found, Free
  <2>2. ASSUME NEW d \in Inner(s), ~InUse(t, d), d \notin out
        PROVE  \/ \E l \in Levels : d = t.dv[l]
               \/ \E l \in Levels, b \in Bins : d \in ToSet(t.bin[l][b])
               \/ \E i \in SlotIds : d \in ToSet(t.slot_bin[i])
    <3>1. ~InUse(s, d) /\ d \notin loose
      BY <1>2, <1>4, <2>2
    <3> QED BY <3>1 DEF Heap, Lists, Found, SameLists
  <2> QED BY <1>4, <2>1, <2>2 DEF Found
<1>7. Apart(t, rest)
  <2> SUFFICES ASSUME NEW d \in Inner(s), ~InUse(t, d), ~InUse(t, NextOf(t, d)) PROVE d \in rest
    BY <1>4 DEF Apart
  <2>1. NextOf(t, d) = NextOf(s, d) /\ NextOf(s, d) \in DOMAIN s.mem /\ d \in DOMAIN s.mem
    BY <1>4, SameChunks, InnerChunk DEF Heap
  <2>2. d # c /\ NextOf(s, d) # c /\ ~InUse(s, d) /\ ~InUse(s, NextOf(s, d))
    BY <1>2, <2>1
  <2> QED BY <2>2 DEF Heap, Apart, Shut
<1>8. UsedBy(t) = UsedBy(s) \cup {c} /\ c \notin UsedBy(s)
  BY <1>2, <1>3, <1>4 DEF UsedBy
<1>9. \A d \in UsedBy(t) : This(t, d) = This(s, d)
  BY <1>4, SameChunks DEF UsedBy
<1> QED BY <1>1, <1>5, <1>6, <1>7, <1>8, <1>9 DEF Heap, Lists

\* A chunk is taken back.
LEMMA TakenBack ==
    ASSUME NEW s, NEW t, NEW loose, NEW open, NEW own,
           Heap(s, loose, open, own), Alike(s, t), SameLists(s, t), SameSlots(s, t),
           NEW c \in UsedBy(s), ~InUse(t, c),
           \A d \in DOMAIN s.mem : d # c => t.mem[d] = s.mem[d]
    PROVE  /\ Heap(t, loose \cup {c}, open \cup {c, FrontOf(s, c)}, own)
           /\ UsedBy(t) = UsedBy(s) \ {c}
           /\ \A d \in UsedBy(t) : This(t, d) = This(s, d)
<1> DEFINE out == loose \cup {c}
           rest == open \cup {c, FrontOf(s, c)}
<1>3. c \in Inner(s) /\ InUse(s, c)
  BY DEF UsedBy
<1>1. /\ Shape(t) /\ SlotSizes(t) /\ Object(t) /\ Binned(t, out) /\ DvSound(t, out)
      /\ SlotListed(t, out, own)
  BY <1>3, Untouched
<1>2. \A d \in DOMAIN s.mem : d # c => (InUse(t, d) <=> InUse(s, d)) /\ t.mem[d].bin = s.mem[d].bin
  BY DEF InUse, Has
<1>4. Inner(t) = Inner(s) /\ Inner(s) \subseteq DOMAIN s.mem
  BY SameChunks DEF Inner
<1>5. Room(t, own)
  <2>1. \A d \in Inner(s) : Has(s, d, "SLOT") /\ InUse(t, d) => t.mem[d].bin = own[d[1]]
    BY <1>2, <1>4, SlotBin DEF Heap
  <2> QED BY <2>1, SameRoom DEF Heap
<1>6. Found(t, out)
  <2>1. \A d \in out : Free(t, d)
    BY <1>2, <1>3, <1>4 DEF Heap, Lists, Found, Free
  <2>2. ASSUME NEW d \in Inner(s), ~InUse(t, d), d \notin out
        PROVE  \/ \E l \in Levels : d = t.dv[l]
               \/ \E l \in Levels, b \in Bins : d \in ToSet(t.bin[l][b])
               \/ \E i \in SlotIds : d \in ToSet(t.slot_bin[i])
    <3>1. ~InUse(s, d) /\ d \notin loose
      BY <1>2, <1>4, <2>2
    <3> QED BY <3>1 DEF Heap, Lists, Found, SameLists
  <2> QED BY <1>4, <2>1, <2>2 DEF Found
<1>7. Apart(t, rest)
  <2> SUFFICES ASSUME NEW d \in Inner(s), ~InUse(t, d), ~InUse(t, NextOf(t, d)) PROVE d \in rest
    BY <1>4 DEF Apart
  <2>1. NextOf(t, d) = NextOf(s, d) /\ NextOf(s, d) \in DOMAIN s.mem /\ d \in DOMAIN s.mem
        /\ FrontOf(s, NextOf(s, d)) = d
    BY <1>4, SameChunks, InnerChunk DEF Heap
  <2>2. CASE d # c /\ NextOf(s, d) # c
    <3>1. ~InUse(s, d) /\ ~InUse(s, NextOf(s, d))
      BY <1>2, <2>1, <2>2
    <3> QED BY <3>1 DEF Heap, Apart
  <2> QED BY <2>1, <2>2
<1>8. UsedBy(t) = UsedBy(s) \ {c}
  BY <1>2, <1>3, <1>4 DEF UsedBy
<1>9. \A d \in UsedBy(t) : This(t, d) = This(s, d)
  BY <1>4, SameChunks DEF UsedBy
<1> QED BY <1>1, <1>5, <1>6, <1>7, <1>8, <1>9 DEF Heap, Lists

-----------------------------------------------------------------------------
(* Steps that put a chunk into a list or take it out *)

\* Only the lists and the bin of one chunk, which was not or will not be in
\* use, change.
LEMMA Relisted ==
    ASSUME NEW s, NEW t, NEW loose, NEW open, NEW own,
           Heap(s, loose, open, own), Alike(s, t), SameSlots(s, t),
           \A d \in DOMAIN s.mem : t.mem[d].flags = s.mem[d].flags,
           \A d \in DOMAIN s.mem : InUse(s, d) => t.mem[d].bin = s.mem[d].bin
    PROVE  /\ Shape(t) /\ SlotSizes(t) /\ Room(t, own) /\ Apart(t, open)
           /\ Inner(t) = Inner(s)
           /\ \A d \in DOMAIN s.mem : InUse(t, d) <=> InUse(s, d)
           /\ UsedBy(t) = UsedBy(s) /\ \A d \in UsedBy(s) : This(t, d) = This(s, d)
<1>1. Shape(t) /\ SlotSizes(t)
  BY SameShape, SameSizes DEF Heap
<1>2. Inner(t) = Inner(s) /\ Inner(s) \subseteq DOMAIN s.mem
  BY SameChunks DEF Inner
<1>3. \A d \in DOMAIN s.mem : InUse(t, d) <=> InUse(s, d)
  BY DEF InUse, Has
<1>4. Room(t, own)
  <2>1. \A d \in Inner(s) : Has(s, d, "SLOT") /\ InUse(t, d) => t.mem[d].bin = own[d[1]]
    BY <1>2, <1>3, SlotBin DEF Heap
  <2> QED BY <2>1, SameRoom DEF Heap
<1>5. Apart(t, open)
  <2> SUFFICES ASSUME NEW d \in Inner(s), ~InUse(t, d), ~InUse(t, NextOf(t, d)) PROVE d \in open
    BY <1>2 DEF Apart
  <2>1. NextOf(t, d) = NextOf(s, d) /\ NextOf(s, d) \in DOMAIN s.mem /\ d \in DOMAIN s.mem
    BY <1>2, SameChunks, InnerChunk DEF Heap
  <2>2. ~InUse(s, d) /\ ~InUse(s, NextOf(s, d))
    BY <1>3, <2>1
  <2> QED BY <2>2 DEF Heap, Apart
<1>6. UsedBy(t) = UsedBy(s) /\ \A d \in UsedBy(s) : This(t, d) = This(s, d)
  BY <1>2, <1>3, SameChunks DEF UsedBy
<1> QED BY <1>1, <1>2, <1>3, <1>4, <1>5, <1>6

\* What the lists of slots say stays true when they do not change.
LEMMA SlotsKept ==
    ASSUME NEW s, NEW t, NEW loose, NEW out, NEW open, NEW own,
           Heap(s, loose, open, own), Alike(s, t), SameSlots(s, t), t.slot_bin = s.slot_bin,
           \A d \in DOMAIN s.mem : t.mem[d].flags = s.mem[d].flags,
           \A d \in out : d \in loose \/ \A i \in SlotIds : d \notin ToSet(s.slot_bin[i])
    PROVE  SlotListed(t, out, own)
<1> SUFFICES ASSUME NEW i \in SlotIds, NEW d \in ToSet(s.slot_bin[i])
             PROVE  InSlot(t, out, own, i, d)
  BY DEF Heap, Lists, SlotListed
<1>1. InSlot(s, loose, own, i, d)
  BY DEF Heap, Lists, SlotListed
<1>2. ~InUse(t, d) /\ d \notin out
  BY <1>1 DEF InSlot, Free, Inner, InUse, Has
<1> QED BY <1>1, <1>2, StillInSlot DEF Heap

\* What dv_ says stays true when it does not change.
LEMMA DvsKept ==
    ASSUME NEW s, NEW t, NEW loose, NEW out, NEW open, NEW own,
           Heap(s, loose, open, own), Alike(s, t), t.dv = s.dv,
           \A d \in DOMAIN s.mem : t.mem[d].flags = s.mem[d].flags,
           \A d \in out : d \in loose \/ \A l \in Levels : d # s.dv[l]
    PROVE  DvSound(t, out)
<1> SUFFICES ASSUME NEW l \in Levels, t.dv[l] # NULL
             PROVE  /\ Free(t, t.dv[l]) /\ ~Has(t, t.dv[l], "DIRECT") /\ t.dv[l] \notin out
                    /\ Level(t, t.dv[l]) = l
  BY DEF DvSound
<1> DEFINE d == s.dv[l]
<1>1. t.dv[l] = d /\ Free(s, d) /\ ~Has(s, d, "DIRECT") /\ d \notin loose /\ Level(s, d) = l
  BY DEF Heap, Lists, DvSound
<1>2. d \in Inner(s) /\ d \in DOMAIN s.mem
  BY <1>1 DEF Free, Inner
<1> QED BY <1>1, <1>2, SameChunks DEF Free, InUse, Has

\* A chunk is in at most one list.
LEMMA OneList ==
    ASSUME NEW s, NEW loose, NEW open, NEW own, Heap(s, loose, open, own), NEW c
    PROVE  /\ \A l \in Levels, b \in Bins : c \in ToSet(s.bin[l][b]) =>
                /\ c \in Inner(s) /\ c \in DOMAIN s.mem /\ ~InUse(s, c) /\ ~Has(s, c, "DIRECT")
                /\ ~Has(s, c, "SLOT") /\ c \notin loose
                /\ Level(s, c) = l /\ s.mem[c].bin = b /\ b = BinOf(s, c) /\ ~WholeBlock(s, c)
                /\ \A k \in Levels : c # s.dv[k]
                /\ \A i \in SlotIds : c \notin ToSet(s.slot_bin[i])
           /\ \A l \in Levels : c = s.dv[l] /\ c # NULL =>
                /\ c \in Inner(s) /\ c \in DOMAIN s.mem /\ ~InUse(s, c) /\ ~Has(s, c, "DIRECT")
                /\ ~Has(s, c, "SLOT") /\ c \notin loose /\ Level(s, c) = l
                /\ \A k \in Levels, b \in Bins : c \notin ToSet(s.bin[k][b])
                /\ \A i \in SlotIds : c \notin ToSet(s.slot_bin[i])
           /\ \A i \in SlotIds : c \in ToSet(s.slot_bin[i]) =>
                /\ c \in Inner(s) /\ c \in DOMAIN s.mem /\ ~InUse(s, c)
                /\ Has(s, c, "SLOT") /\ Has(s, c, "DIRECT") /\ c \notin loose
                /\ own[c[1]] = i /\ ~SlotWhole(s, c, i)
           /\ c \in Inner(s) => c \in Address /\ c # NULL
<1>1. c \in Inner(s) => c \in DOMAIN s.mem /\ c \in Address /\ c # NULL
  <2>1. c \in Inner(s) => c \in DOMAIN s.mem
    BY DEF Inner
  <2> QED BY <2>1, Headers DEF Heap
<1>2. c \in DOMAIN s.mem /\ Has(s, c, "SLOT") => Has(s, c, "DIRECT")
  BY Kind DEF Heap
<1>3. ASSUME NEW l \in Levels, NEW b \in Bins, c \in ToSet(s.bin[l][b])
      PROVE  InBin(s, loose, l, b, c)
  BY <1>3 DEF Heap, Lists, Binned
<1>4. ASSUME NEW l \in Levels, c = s.dv[l], c # NULL
      PROVE  Free(s, c) /\ ~Has(s, c, "DIRECT") /\ c \notin loose /\ Level(s, c) = l
  BY <1>4 DEF Heap, Lists, DvSound
<1>5. ASSUME NEW i \in SlotIds, c \in ToSet(s.slot_bin[i])
      PROVE  InSlot(s, loose, own, i, c)
  BY <1>5 DEF Heap, Lists, SlotListed
<1>6. ASSUME NEW l \in Levels, NEW b \in Bins, c \in ToSet(s.bin[l][b]), NEW k \in Levels
      PROVE  c # s.dv[k]
  <2> SUFFICES ASSUME c = s.dv[k] PROVE FALSE
    OBVIOUS
  <2>1. InBin(s, loose, l, b, c) /\ c # NULL
    BY <1>1, <1>3, <1>6 DEF InBin, Free
  <2>2. k = l
    BY <1>4, <2>1 DEF InBin
  <2> QED BY <2>1, <2>2 DEF InBin
<1>7. \A l \in Levels, b \in Bins : c \in ToSet(s.bin[l][b]) =>
        /\ c \in Inner(s) /\ c \in DOMAIN s.mem /\ ~InUse(s, c) /\ ~Has(s, c, "DIRECT")
        /\ ~Has(s, c, "SLOT") /\ c \notin loose
        /\ Level(s, c) = l /\ s.mem[c].bin = b /\ b = BinOf(s, c) /\ ~WholeBlock(s, c)
  BY <1>1, <1>2, <1>3 DEF InBin, Free
<1>8. \A l \in Levels : c = s.dv[l] /\ c # NULL =>
        /\ c \in Inner(s) /\ c \in DOMAIN s.mem /\ ~InUse(s, c) /\ ~Has(s, c, "DIRECT")
        /\ ~Has(s, c, "SLOT") /\ c \notin loose /\ Level(s, c) = l
  BY <1>1, <1>2, <1>4 DEF Free
<1>9. \A i \in SlotIds : c \in ToSet(s.slot_bin[i]) =>
        /\ c \in Inner(s) /\ c \in DOMAIN s.mem /\ ~InUse(s, c)
        /\ Has(s, c, "SLOT") /\ Has(s, c, "DIRECT") /\ c \notin loose
        /\ own[c[1]] = i /\ ~SlotWhole(s, c, i)
  BY <1>1, <1>2, <1>5 DEF InSlot, Free
<1> QED BY <1>1, <1>6, <1>7, <1>8, <1>9

\* What is known of a member of a bin,
LEMMA BinMember ==
    ASSUME NEW s, NEW loose, NEW open, NEW own, Heap(s, loose, open, own),
           NEW l \in Levels, NEW b \in Bins, NEW c \in ToSet(s.bin[l][b])
    PROVE  /\ c \in Inner(s) /\ c \in DOMAIN s.mem /\ ~InUse(s, c) /\ ~Has(s, c, "DIRECT")
           /\ ~Has(s, c, "SLOT") /\ c \notin loose
           /\ Level(s, c) = l /\ s.mem[c].bin = b /\ b = BinOf(s, c) /\ ~WholeBlock(s, c)
           /\ \A k \in Levels : c # s.dv[k]
           /\ \A i \in SlotIds : c \notin ToSet(s.slot_bin[i])
BY OneList

\* of dv_,
LEMMA DvMember ==
    ASSUME NEW s, NEW loose, NEW open, NEW own, Heap(s, loose, open, own),
           NEW l \in Levels, s.dv[l] # NULL
    PROVE  LET c == s.dv[l] IN
           /\ c \in Inner(s) /\ c \in DOMAIN s.mem /\ ~InUse(s, c) /\ ~Has(s, c, "DIRECT")
           /\ ~Has(s, c, "SLOT") /\ c \notin loose /\ Level(s, c) = l
           /\ \A k \in Levels, b \in Bins : c \notin ToSet(s.bin[k][b])
           /\ \A i \in SlotIds : c \notin ToSet(s.slot_bin[i])
BY OneList

\* of a member of the list of a slot,
LEMMA SlotMember ==
    ASSUME NEW s, NEW loose, NEW open, NEW own, Heap(s, loose, open, own),
           NEW i \in SlotIds, NEW c \in ToSet(s.slot_bin[i])
    PROVE  /\ c \in Inner(s) /\ c \in DOMAIN s.mem /\ ~InUse(s, c)
           /\ Has(s, c, "SLOT") /\ Has(s, c, "DIRECT") /\ c \notin loose
           /\ own[c[1]] = i /\ ~SlotWhole(s, c, i)
BY OneList

\* and of a chunk in no list.
LEMMA LooseMember ==
    ASSUME NEW s, NEW loose, NEW open, NEW own, Heap(s, loose, open, own), NEW c \in loose
    PROVE  /\ c \in Inner(s) /\ ~InUse(s, c) /\ c \in DOMAIN s.mem /\ c \in Address /\ c # NULL
           /\ \A l \in Levels, b \in Bins : c \notin ToSet(s.bin[l][b])
           /\ \A l \in Levels : c # s.dv[l]
           /\ \A i \in SlotIds : c \notin ToSet(s.slot_bin[i])
<1>1. c \in Inner(s) /\ ~InUse(s, c)
  BY DEF Heap, Lists, Found, Free
<1> QED BY <1>1, OneList DEF Inner

\* pick_chunk: the chunk leaves its bin and nothing else changes.
LEMMA Picked ==
    ASSUME NEW s, NEW loose, NEW open, NEW own, Heap(s, loose, open, own),
           NEW l \in Levels, NEW b \in Bins, NEW p \in ToSet(s.bin[l][b])
    PROVE  LET t == PickChunk(s, p) IN
           /\ Heap(t, loose \cup {p}, open, own) /\ Kept(s, t) /\ Alike(s, t)
           /\ t.dv = s.dv /\ t.slot = s.slot
           /\ \A d \in DOMAIN s.mem : InUse(t, d) <=> InUse(s, d)
<1> DEFINE t == PickChunk(s, p)
           rest == Unlink(s.bin[l][b], p)
           out == loose \cup {p}
<1>1. /\ p \in Inner(s) /\ p \in DOMAIN s.mem /\ ~InUse(s, p) /\ ~Has(s, p, "DIRECT")
      /\ ~Has(s, p, "SLOT") /\ p \notin loose
      /\ Level(s, p) = l /\ s.mem[p].bin = b
      /\ \A k \in Levels : p # s.dv[k]
      /\ \A i \in SlotIds : p \notin ToSet(s.slot_bin[i])
  BY BinMember
<1>2. DOMAIN s = Fields /\ DOMAIN s.mem[p] = {"prev", "this", "flags", "bin", "color"}
  BY <1>1 DEF Heap, Shape, Memory, HeaderOK
<1>3. s.bin \in [Levels -> [Bins -> Seq(Address)]] /\ s.bitmap \in [Levels -> SUBSET Bins]
  BY DEF Heap, Lists, Object
<1>4. /\ DOMAIN t = Fields /\ t.size = s.size /\ t.used = s.used /\ t.reserve = s.reserve
      /\ t.dv = s.dv /\ t.slot = s.slot /\ t.slot_bin = s.slot_bin
      /\ t.inited = s.inited /\ t.panicked = s.panicked /\ t.errors = s.errors
  BY <1>2 DEF PickChunk, Fields
<1>5. t.mem = [s.mem EXCEPT ![p].bin = 0]
  BY <1>2 DEF PickChunk, Fields
<1>6. t.bin = [s.bin EXCEPT ![l][b] = rest]
  BY <1>1, <1>2 DEF PickChunk, Fields
<1>7. t.bitmap = [s.bitmap EXCEPT ![l] = IF rest = <<>> THEN @ \ {b} ELSE @]
  BY <1>1, <1>2 DEF PickChunk, Fields
<1>8. s.bin[l][b] \in Seq(Address) /\ IsInjective(s.bin[l][b])
  BY <1>3 DEF Heap, Lists, Binned
<1>9. rest \in Seq(Address) /\ IsInjective(rest) /\ ToSet(rest) = ToSet(s.bin[l][b]) \ {p}
  BY <1>8, Unlinked
<1> HIDE DEF t, rest, out
<1>10. 0 \in Bins
  BY Bounds DEF Bins
<1>11. Alike(s, t)
  <2>1. \A c \in DOMAIN s.mem : HeaderOK(s.mem[c])
    BY DEF Heap, Shape, Memory
  <2>2. DOMAIN t.mem = DOMAIN s.mem /\ \A c \in DOMAIN s.mem : c # p => t.mem[c] = s.mem[c]
    BY <1>5
  <2>3. t.mem[p] = [s.mem[p] EXCEPT !.bin = 0]
    BY <1>1, <1>5
  <2>4. HeaderOK(t.mem[p]) /\ Kindred(t.mem[p], s.mem[p]) /\ t.mem[p].flags = s.mem[p].flags
    BY <1>1, <1>2, <1>10, <2>1, <2>3 DEF HeaderOK, Kindred
  <2> QED BY <1>4, <2>1, <2>2, <2>4 DEF Alike, Kindred
<1>12. /\ \A d \in DOMAIN s.mem : t.mem[d].flags = s.mem[d].flags
       /\ \A d \in DOMAIN s.mem : d # p => t.mem[d] = s.mem[d]
  BY <1>1, <1>2, <1>5
<1>13. SameSlots(s, t)
  BY <1>4 DEF SameSlots
<1>14. /\ Shape(t) /\ SlotSizes(t) /\ Room(t, own) /\ Apart(t, open) /\ Inner(t) = Inner(s)
       /\ \A d \in DOMAIN s.mem : InUse(t, d) <=> InUse(s, d)
       /\ UsedBy(t) = UsedBy(s) /\ \A d \in UsedBy(s) : This(t, d) = This(s, d)
  BY <1>1, <1>11, <1>12, <1>13, Relisted
<1>15. SlotListed(t, out, own)
  BY <1>1, <1>4, <1>11, <1>12, <1>13, SlotsKept DEF out
<1>16. DvSound(t, out)
  BY <1>1, <1>4, <1>11, <1>12, DvsKept DEF out
<1>17. Object(t)
  BY <1>3, <1>4, <1>6, <1>7, <1>9 DEF Heap, Lists, Object
<1>18. \A k \in Levels, a \in Bins : ~(k = l /\ a = b) =>
         t.bin[k][a] = s.bin[k][a] /\ (a \in t.bitmap[k] <=> a \in s.bitmap[k])
  BY <1>3, <1>6, <1>7
<1>19. t.bin[l][b] = rest /\ (b \in t.bitmap[l] <=> rest # <<>>)
  <2>1. b \in s.bitmap[l]
    <3>1. s.bin[l][b] # <<>>
      BY <1>8, Empty
    <3> QED BY <3>1 DEF Heap, Lists, Binned
  <2> QED BY <1>3, <1>6, <1>7, <2>1
<1>20. Binned(t, out)
  <2>1. ASSUME NEW k \in Levels, NEW a \in Bins
        PROVE  (a \in t.bitmap[k] <=> t.bin[k][a] # <<>>) /\ IsInjective(t.bin[k][a])
    BY <1>9, <1>18, <1>19 DEF Heap, Lists, Binned
  <2>2. ASSUME NEW k \in Levels, NEW a \in Bins, NEW d \in ToSet(t.bin[k][a])
        PROVE  InBin(t, out, k, a, d)
    <3>1. d \in ToSet(s.bin[k][a]) /\ (k = l /\ a = b => d # p)
      BY <1>9, <1>18, <1>19
    <3>2. InBin(s, loose, k, a, d)
      BY <3>1 DEF Heap, Lists, Binned
    <3>3. d # p
      BY <1>1, <3>1, <3>2 DEF InBin
    <3>4. d \in DOMAIN s.mem /\ ~InUse(s, d)
      BY <3>2 DEF InBin, Free, Inner
    <3>5. ~InUse(t, d) /\ t.mem[d].bin = a /\ d \notin out /\ d # t.dv[k]
      BY <1>4, <1>12, <1>14, <3>2, <3>3, <3>4 DEF InBin, out
    <3> QED BY <1>11, <3>2, <3>5, StillInBin
  <2> QED BY <2>1, <2>2 DEF Binned
<1>21. Found(t, out)
  <2>1. \A d \in out : Free(t, d)
    <3>1. \A d \in loose : d \in Inner(s) /\ ~InUse(s, d)
      BY DEF Heap, Lists, Found, Free
    <3> QED BY <1>1, <1>14, <3>1 DEF Free, out, Inner
  <2>2. ASSUME NEW d \in Inner(s), ~InUse(t, d), d \notin out
        PROVE  \/ \E k \in Levels : d = t.dv[k]
               \/ \E k \in Levels, a \in Bins : d \in ToSet(t.bin[k][a])
               \/ \E i \in SlotIds : d \in ToSet(t.slot_bin[i])
    <3>1. ~InUse(s, d) /\ d \notin loose /\ d # p
      BY <1>14, <2>2 DEF out, Inner
    <3>2. CASE \E k \in Levels, a \in Bins : d \in ToSet(s.bin[k][a])
      <4>1. PICK k \in Levels, a \in Bins : d \in ToSet(s.bin[k][a])
        BY <3>2
      <4>2. d \in ToSet(t.bin[k][a])
        BY <1>9, <1>18, <1>19, <3>1, <4>1
      <4> QED BY <4>2
    <3> QED BY <1>4, <3>1, <3>2 DEF Heap, Lists, Found
  <2> QED BY <1>14, <2>1, <2>2 DEF Found
<1>22. Kept(s, t)
  BY <1>4, <1>14 DEF Kept
<1> QED BY <1>4, <1>11, <1>14, <1>15, <1>16, <1>17, <1>20, <1>21, <1>22 DEF Heap, Lists, t, out

\* The bin a chunk belongs to exists.
LEMMA BinExists ==
    ASSUME NEW s, NEW own, Shape(s), Room(s, own), NEW c \in Inner(s), ~Has(s, c, "DIRECT")
    PROVE  BinOf(s, c) \in Bins /\ This(s, c) <= DEFAULT_BLOCK_SIZE - BlockOverhead
<1>1. c \in DOMAIN s.mem /\ This(s, c) >= 2 * FINE /\ 4 * FINE <= c[2]
      /\ c[2] + This(s, c) <= s.size[c[1]] - 2 * FINE
  BY InnerChunk
<1>2. This(s, c) \in Nat /\ c[2] \in Nat /\ s.size[c[1]] \in Nat
  BY <1>1, Headers
<1>3. s.size[c[1]] = DEFAULT_BLOCK_SIZE /\ ~Has(s, c, "SLOT")
  BY <1>1, Kind
<1>4. This(s, c) <= DEFAULT_BLOCK_SIZE - BlockOverhead
  BY <1>1, <1>2, <1>3, Grains
<1>5. CASE Level(s, c) = 1
  <2>1. This(s, c) >= BIG_LEAST_SIZE
    BY <1>3, <1>5 DEF Level, Room
  <2>2. This(s, c) <= DEFAULT_BLOCK_SIZE
    BY <1>2, <1>4, Grains
  <2>3. BigBin(This(s, c)) \in Bins
    BY <1>2, <2>1, <2>2, BigBinRange
  <2> QED BY <1>4, <1>5, <2>3 DEF BinOf
<1>6. CASE Level(s, c) # 1
  <2>1. This(s, c) >= SMALL_LEAST_SIZE
    BY <1>1, Grains
  <2>2. SmallBin(This(s, c)) \in Bins
    BY <1>2, <2>1, SmallBinRange
  <2> QED BY <1>4, <1>6, <2>2 DEF BinOf
<1> QED BY <1>5, <1>6

\* push_chunk: the chunk is in its bin and nothing else changes.
LEMMA Pushed ==
    ASSUME NEW s, NEW loose, NEW open, NEW own, Heap(s, loose, open, own),
           NEW c \in loose, ~Has(s, c, "DIRECT"), ~WholeBlock(s, c)
    PROVE  LET t == PushChunk(s, c, BinOf(s, c)) IN
           /\ Heap(t, loose \ {c}, open, own) /\ Kept(s, t) /\ Alike(s, t)
           /\ t.dv = s.dv /\ t.slot = s.slot
           /\ \A d \in DOMAIN s.mem : InUse(t, d) <=> InUse(s, d)
<1> DEFINE b == BinOf(s, c)
           t == PushChunk(s, c, BinOf(s, c))
           l == Level(s, c)
           list == <<c>> \o s.bin[l][b]
           out == loose \ {c}
<1>1. c \in Inner(s) /\ ~InUse(s, c) /\ c \in DOMAIN s.mem /\ c \in Address
  <2>1. c \in Inner(s) /\ ~InUse(s, c)
    BY DEF Heap, Lists, Found, Free
  <2> QED BY <2>1, OneList DEF Inner
<1>2. DOMAIN s = Fields /\ DOMAIN s.mem[c] = {"prev", "this", "flags", "bin", "color"}
  BY <1>1 DEF Heap, Shape, Memory, HeaderOK
<1>3. s.bin \in [Levels -> [Bins -> Seq(Address)]] /\ s.bitmap \in [Levels -> SUBSET Bins]
  BY DEF Heap, Lists, Object
<1>4. b \in Bins /\ l \in Levels
  BY <1>1, BinExists DEF Heap, Level, Levels
<1>5. /\ DOMAIN t = Fields /\ t.size = s.size /\ t.used = s.used /\ t.reserve = s.reserve
      /\ t.dv = s.dv /\ t.slot = s.slot /\ t.slot_bin = s.slot_bin
      /\ t.inited = s.inited /\ t.panicked = s.panicked /\ t.errors = s.errors
  BY <1>2 DEF PushChunk, Fields
<1>6. t.mem = [s.mem EXCEPT ![c].bin = b, ![c].flags = @ \ {"USED"}]
  BY <1>2 DEF PushChunk, Fields
<1>7. t.bin = [s.bin EXCEPT ![l][b] = list]
  BY <1>2 DEF PushChunk, Fields
<1>8. t.bitmap = [s.bitmap EXCEPT ![l] = @ \cup {b}]
  BY <1>2 DEF PushChunk, Fields
<1>9. s.bin[l][b] \in Seq(Address) /\ IsInjective(s.bin[l][b])
  BY <1>3, <1>4 DEF Heap, Lists, Binned
<1>10. \A k \in Levels, a \in Bins : c \notin ToSet(s.bin[k][a])
  BY OneList
<1>11. list \in Seq(Address) /\ IsInjective(list) /\ ToSet(list) = ToSet(s.bin[l][b]) \cup {c}
       /\ list # <<>>
  BY <1>1, <1>4, <1>9, <1>10, Consed
<1>12. b = BinOf(s, c) /\ l = Level(s, c)
  OBVIOUS
<1> HIDE DEF t, list, out, b, l
<1>13. t.mem[c] = [s.mem[c] EXCEPT !.bin = b, !.flags = @ \ {"USED"}]
  BY <1>1, <1>6
<1>14. /\ t.mem[c].flags = s.mem[c].flags /\ t.mem[c].bin = b /\ HeaderOK(t.mem[c])
       /\ Kindred(t.mem[c], s.mem[c])
  <2>1. HeaderOK(s.mem[c]) /\ "USED" \notin s.mem[c].flags
    BY <1>1 DEF Heap, Shape, Memory, InUse, Has
  <2>2. s.mem[c].flags \ {"USED"} = s.mem[c].flags
    BY <2>1
  <2> QED BY <1>2, <1>4, <1>13, <2>1, <2>2 DEF HeaderOK, Kindred
<1>15. DOMAIN t.mem = DOMAIN s.mem /\ \A d \in DOMAIN s.mem : d # c => t.mem[d] = s.mem[d]
  BY <1>6
<1>16. Alike(s, t)
  <2>1. \A d \in DOMAIN s.mem : HeaderOK(s.mem[d])
    BY DEF Heap, Shape, Memory
  <2> QED BY <1>5, <1>14, <1>15, <2>1 DEF Alike, Kindred
<1>17. \A d \in DOMAIN s.mem : t.mem[d].flags = s.mem[d].flags
  BY <1>14, <1>15
<1>18. SameSlots(s, t)
  BY <1>5 DEF SameSlots
<1>19. /\ Shape(t) /\ SlotSizes(t) /\ Room(t, own) /\ Apart(t, open) /\ Inner(t) = Inner(s)
       /\ \A d \in DOMAIN s.mem : InUse(t, d) <=> InUse(s, d)
       /\ UsedBy(t) = UsedBy(s) /\ \A d \in UsedBy(s) : This(t, d) = This(s, d)
  BY <1>1, <1>15, <1>16, <1>17, <1>18, Relisted
<1>20. SlotListed(t, out, own)
  BY <1>5, <1>16, <1>17, <1>18, SlotsKept DEF out
<1>21. DvSound(t, out)
  BY <1>5, <1>16, <1>17, DvsKept DEF out
<1>22. Object(t)
  BY <1>3, <1>4, <1>5, <1>7, <1>8, <1>11 DEF Heap, Lists, Object
<1>23. \A k \in Levels, a \in Bins : ~(k = l /\ a = b) =>
         t.bin[k][a] = s.bin[k][a] /\ (a \in t.bitmap[k] <=> a \in s.bitmap[k])
  BY <1>3, <1>4, <1>7, <1>8
<1>24. t.bin[l][b] = list /\ b \in t.bitmap[l]
  BY <1>3, <1>4, <1>7, <1>8
<1>25. Binned(t, out)
  <2>1. ASSUME NEW k \in Levels, NEW a \in Bins
        PROVE  (a \in t.bitmap[k] <=> t.bin[k][a] # <<>>) /\ IsInjective(t.bin[k][a])
    BY <1>11, <1>23, <1>24 DEF Heap, Lists, Binned
  <2>2. ASSUME NEW k \in Levels, NEW a \in Bins, NEW d \in ToSet(t.bin[k][a])
        PROVE  InBin(t, out, k, a, d)
    <3>1. CASE d = c
      <4>1. k = l /\ a = b
        BY <1>10, <1>23, <2>2, <3>1
      <4>2. \A j \in Levels : c # s.dv[j]
        BY <1>1, OneList
      <4>3. ~Has(t, c, "DIRECT") /\ Level(t, c) = l /\ BinOf(t, c) = b /\ ~WholeBlock(t, c)
        BY <1>1, <1>12, <1>16, SameChunks
      <4>4. Free(t, c)
        BY <1>1, <1>19 DEF Free
      <4> QED BY <1>4, <1>5, <1>14, <3>1, <4>1, <4>2, <4>3, <4>4 DEF InBin, out
    <3>2. CASE d # c
      <4>1. d \in ToSet(s.bin[k][a])
        BY <1>11, <1>23, <1>24, <2>2, <3>2
      <4>2. InBin(s, loose, k, a, d)
        BY <4>1 DEF Heap, Lists, Binned
      <4>3. d \in DOMAIN s.mem
        BY <4>2 DEF InBin, Free, Inner
      <4>4. ~InUse(t, d) /\ t.mem[d].bin = a /\ d \notin out /\ d # t.dv[k]
        BY <1>5, <1>15, <1>19, <3>2, <4>2, <4>3 DEF InBin, out, Free
      <4> QED BY <1>16, <4>2, <4>4, StillInBin
    <3> QED BY <3>1, <3>2
  <2> QED BY <2>1, <2>2 DEF Binned
<1>26. Found(t, out)
  <2>1. \A d \in out : Free(t, d)
    <3>1. \A d \in loose : d \in Inner(s) /\ ~InUse(s, d)
      BY DEF Heap, Lists, Found, Free
    <3> QED BY <1>19, <3>1 DEF Free, out, Inner
  <2>2. ASSUME NEW d \in Inner(s), ~InUse(t, d), d \notin out
        PROVE  \/ \E k \in Levels : d = t.dv[k]
               \/ \E k \in Levels, a \in Bins : d \in ToSet(t.bin[k][a])
               \/ \E i \in SlotIds : d \in ToSet(t.slot_bin[i])
    <3>1. CASE d = c
      BY <1>4, <1>11, <1>24, <3>1
    <3>2. CASE d # c
      <4>1. ~InUse(s, d) /\ d \notin loose
        BY <1>19, <2>2, <3>2 DEF out, Inner
      <4>2. CASE \E k \in Levels, a \in Bins : d \in ToSet(s.bin[k][a])
        <5>1. PICK k \in Levels, a \in Bins : d \in ToSet(s.bin[k][a])
          BY <4>2
        <5>2. d \in ToSet(t.bin[k][a])
          BY <1>11, <1>23, <1>24, <5>1
        <5> QED BY <5>2
      <4> QED BY <1>5, <4>1, <4>2 DEF Heap, Lists, Found
    <3> QED BY <3>1, <3>2
  <2> QED BY <1>19, <2>1, <2>2 DEF Found
<1>27. Kept(s, t)
  BY <1>5, <1>19 DEF Kept
<1> QED BY <1>5, <1>16, <1>19, <1>20, <1>21, <1>22, <1>25, <1>26, <1>27 DEF Heap, Lists, t, out

SameMem(s, t) ==
    /\ DOMAIN t = Fields /\ t.mem = s.mem /\ t.size = s.size
    /\ t.used = s.used /\ t.reserve = s.reserve /\ SameSlots(s, t)

\* Only lists change.
LEMMA SameMemory ==
    ASSUME NEW s, NEW t, NEW loose, NEW open, NEW own,
           Heap(s, loose, open, own), SameMem(s, t)
    PROVE  /\ Alike(s, t) /\ SameSlots(s, t)
           /\ \A d \in DOMAIN s.mem : t.mem[d] = s.mem[d]
           /\ \A d \in DOMAIN s.mem : t.mem[d].flags = s.mem[d].flags
           /\ Shape(t) /\ SlotSizes(t) /\ Room(t, own) /\ Apart(t, open)
           /\ Inner(t) = Inner(s) /\ Inner(s) \subseteq DOMAIN s.mem
           /\ UsedBy(t) = UsedBy(s) /\ \A d \in UsedBy(s) : This(t, d) = This(s, d)
<1>1. Alike(s, t)
  BY DEF SameMem, Alike, Kindred, Heap, Shape, Memory
<1>2. SameSlots(s, t) /\ \A d \in DOMAIN s.mem : t.mem[d] = s.mem[d]
  BY DEF SameMem
<1> QED BY <1>1, <1>2, Relisted DEF Inner

\* Bins that do not change stay right.
LEMMA BinsKept ==
    ASSUME NEW s, NEW t, NEW loose, NEW out, NEW open, NEW own,
           Heap(s, loose, open, own), SameMem(s, t), t.bin = s.bin, t.bitmap = s.bitmap,
           \A l \in Levels, b \in Bins : \A d \in ToSet(s.bin[l][b]) :
              d # t.dv[l] /\ (d \in out => d \in loose)
    PROVE  Binned(t, out)
<1>1. ASSUME NEW l \in Levels, NEW b \in Bins, NEW d \in ToSet(t.bin[l][b])
      PROVE  InBin(t, out, l, b, d)
  <2>1. InBin(s, loose, l, b, d)
    BY DEF Heap, Lists, Binned
  <2>2. ~InUse(t, d) /\ t.mem[d].bin = b /\ d \notin out /\ d # t.dv[l]
    BY <2>1 DEF InBin, Free, InUse, Has, SameMem
  <2> QED BY <2>1, <2>2, SameMemory, StillInBin
<1> QED BY <1>1 DEF Heap, Lists, Binned

\* Neither headers nor lists change.
LEMMA SameHeap ==
    ASSUME NEW s, NEW t, NEW loose, NEW open, NEW own,
           Heap(s, loose, open, own), SameMem(s, t), SameLists(s, t)
    PROVE  Heap(t, loose, open, own)
<1>1. /\ Shape(t) /\ SlotSizes(t) /\ Room(t, own) /\ Apart(t, open) /\ Alike(s, t)
      /\ SameSlots(s, t) /\ \A d \in DOMAIN s.mem : t.mem[d].flags = s.mem[d].flags
      /\ Inner(t) = Inner(s)
  BY SameMemory
<1>2. Object(t)
  BY DEF Heap, Lists, Object, SameLists
<1>3. Binned(t, loose)
  <2>1. \A l \in Levels, b \in Bins : \A d \in ToSet(s.bin[l][b]) : d # t.dv[l]
    BY DEF Heap, Lists, Binned, InBin, SameLists
  <2> QED BY <2>1, BinsKept DEF SameLists
<1>4. DvSound(t, loose)
  BY <1>1, DvsKept DEF SameLists
<1>5. SlotListed(t, loose, own)
  BY <1>1, SlotsKept DEF SameLists
<1>6. Found(t, loose)
  BY <1>1 DEF Heap, Lists, Found, SameLists, SameMem, Free, InUse, Has
<1> QED BY <1>1, <1>2, <1>3, <1>4, <1>5, <1>6 DEF Heap, Lists

\* A chunk with a neighbour in use needs not be open.
LEMMA OpenLess ==
    ASSUME NEW s, NEW loose, NEW open, NEW own, NEW rest, Heap(s, loose, open, own),
           \A x \in open : x \in rest \/ x \notin Inner(s) \/ InUse(s, x) \/ InUse(s, NextOf(s, x))
    PROVE  Heap(s, loose, rest, own)
BY DEF Heap, Apart

\* dv_ gives up its chunk.
LEMMA DvDropped ==
    ASSUME NEW s, NEW t, NEW loose, NEW open, NEW own, Heap(s, loose, open, own),
           SameMem(s, t), NEW l \in Levels, s.dv[l] # NULL,
           t.bin = s.bin, t.bitmap = s.bitmap, t.slot_bin = s.slot_bin,
           t.dv = [s.dv EXCEPT ![l] = NULL]
    PROVE  Heap(t, loose \cup {s.dv[l]}, open, own)
<1> DEFINE d0 == s.dv[l]
           out == loose \cup {s.dv[l]}
<1>1. /\ Shape(t) /\ SlotSizes(t) /\ Room(t, own) /\ Apart(t, open) /\ Alike(s, t)
      /\ SameSlots(s, t) /\ \A d \in DOMAIN s.mem : t.mem[d].flags = s.mem[d].flags
      /\ Inner(t) = Inner(s)
  BY SameMemory
<1>2. /\ d0 \in Inner(s) /\ ~InUse(s, d0) /\ Level(s, d0) = l
      /\ \A k \in Levels, b \in Bins : d0 \notin ToSet(s.bin[k][b])
      /\ \A i \in SlotIds : d0 \notin ToSet(s.slot_bin[i])
  BY DvMember
<1>3. s.dv \in [Levels -> Address \cup {NULL}]
  BY DEF Heap, Lists, Object
<1>4. Object(t)
  BY <1>3 DEF Heap, Lists, Object
<1>5. t.dv[l] = NULL /\ \A k \in Levels : k # l => t.dv[k] = s.dv[k]
  BY <1>3
<1> HIDE DEF d0
<1>6. out = loose \cup {d0}
  BY DEF d0
<1> HIDE DEF out
<1>7. Binned(t, out)
  <2>1. ASSUME NEW k \in Levels, NEW b \in Bins, NEW d \in ToSet(s.bin[k][b])
        PROVE  d # t.dv[k] /\ (d \in out => d \in loose)
    <3>1. d \in Inner(s) /\ d # s.dv[k] /\ d # d0
      BY <1>2, BinMember
    <3>2. d # NULL
      BY <3>1, OneList
    <3> QED BY <1>5, <1>6, <3>1, <3>2
  <2> QED BY <2>1, BinsKept
<1>8. DvSound(t, out)
  <2> SUFFICES ASSUME NEW k \in Levels, t.dv[k] # NULL
               PROVE  /\ Free(t, t.dv[k]) /\ ~Has(t, t.dv[k], "DIRECT") /\ t.dv[k] \notin out
                      /\ Level(t, t.dv[k]) = k
    BY DEF DvSound
  <2>1. k # l /\ t.dv[k] = s.dv[k]
    BY <1>5
  <2>2. /\ Free(s, s.dv[k]) /\ ~Has(s, s.dv[k], "DIRECT") /\ s.dv[k] \notin loose
        /\ Level(s, s.dv[k]) = k
    BY <2>1 DEF Heap, Lists, DvSound
  <2>3. s.dv[k] # d0
    BY <1>2, <2>1, <2>2
  <2> QED BY <1>1, <1>6, <2>1, <2>2, <2>3 DEF Free, InUse, Has, SameMem, Level
<1>9. SlotListed(t, out, own)
  BY <1>1, <1>2, <1>6, SlotsKept
<1>10. Found(t, out)
  <2>1. \A d \in out : Free(t, d)
    <3>1. \A d \in out : Free(s, d)
      BY <1>2, <1>6 DEF Heap, Lists, Found, Free
    <3> QED BY <1>1, <3>1 DEF Free, InUse, Has, SameMem
  <2>2. ASSUME NEW d \in Inner(s), ~InUse(t, d), d \notin out
        PROVE  \/ \E k \in Levels : d = t.dv[k]
               \/ \E k \in Levels, a \in Bins : d \in ToSet(t.bin[k][a])
               \/ \E i \in SlotIds : d \in ToSet(t.slot_bin[i])
    <3>1. ~InUse(s, d) /\ d \notin loose /\ d # s.dv[l]
      BY <1>6, <2>2 DEF InUse, Has, SameMem, d0
    <3> QED BY <1>5, <3>1 DEF Heap, Lists, Found
  <2> QED BY <1>1, <2>1, <2>2 DEF Found
<1> QED BY <1>1, <1>4, <1>7, <1>8, <1>9, <1>10 DEF Heap, Lists, out

\* A chunk becomes dv_.
LEMMA DvPut ==
    ASSUME NEW s, NEW t, NEW loose, NEW open, NEW own, Heap(s, loose, open, own),
           SameMem(s, t), NEW l \in Levels, s.dv[l] = NULL,
           NEW c \in loose, ~Has(s, c, "DIRECT"), Level(s, c) = l,
           t.bin = s.bin, t.bitmap = s.bitmap, t.slot_bin = s.slot_bin,
           t.dv = [s.dv EXCEPT ![l] = c]
    PROVE  Heap(t, loose \ {c}, open, own)
<1> DEFINE out == loose \ {c}
<1>1. /\ Shape(t) /\ SlotSizes(t) /\ Room(t, own) /\ Apart(t, open) /\ Alike(s, t)
      /\ SameSlots(s, t) /\ \A d \in DOMAIN s.mem : t.mem[d].flags = s.mem[d].flags
      /\ Inner(t) = Inner(s)
  BY SameMemory
<1>2. /\ c \in Inner(s) /\ ~InUse(s, c) /\ c \in Address
      /\ \A k \in Levels, b \in Bins : c \notin ToSet(s.bin[k][b])
      /\ \A k \in Levels : c # s.dv[k]
      /\ \A i \in SlotIds : c \notin ToSet(s.slot_bin[i])
  BY LooseMember
<1>3. s.dv \in [Levels -> Address \cup {NULL}]
  BY DEF Heap, Lists, Object
<1>4. Object(t)
  BY <1>2, <1>3 DEF Heap, Lists, Object
<1>5. t.dv[l] = c /\ \A k \in Levels : k # l => t.dv[k] = s.dv[k]
  BY <1>3
<1> HIDE DEF out
<1>7. Binned(t, out)
  <2>1. ASSUME NEW k \in Levels, NEW b \in Bins, NEW d \in ToSet(s.bin[k][b])
        PROVE  d # t.dv[k] /\ (d \in out => d \in loose)
    <3>1. d # s.dv[k] /\ d # c
      BY <1>2, BinMember
    <3> QED BY <1>5, <3>1 DEF out
  <2> QED BY <2>1, BinsKept
<1>8. DvSound(t, out)
  <2> SUFFICES ASSUME NEW k \in Levels, t.dv[k] # NULL
               PROVE  /\ Free(t, t.dv[k]) /\ ~Has(t, t.dv[k], "DIRECT") /\ t.dv[k] \notin out
                      /\ Level(t, t.dv[k]) = k
    BY DEF DvSound
  <2>1. CASE k = l
    BY <1>1, <1>2, <1>5, <2>1 DEF out, Free, InUse, Has, SameMem, Level
  <2>2. CASE k # l
    <3>1. /\ Free(s, s.dv[k]) /\ ~Has(s, s.dv[k], "DIRECT") /\ s.dv[k] \notin loose
          /\ Level(s, s.dv[k]) = k /\ t.dv[k] = s.dv[k]
      BY <1>5, <2>2 DEF Heap, Lists, DvSound
    <3> QED BY <1>1, <3>1 DEF Free, InUse, Has, SameMem, Level, out
  <2> QED BY <2>1, <2>2
<1>9. SlotListed(t, out, own)
  BY <1>1, SlotsKept DEF out
<1>10. Found(t, out)
  <2>1. \A d \in out : Free(t, d)
    <3>1. \A d \in out : Free(s, d)
      BY DEF Heap, Lists, Found, Free, out
    <3> QED BY <1>1, <3>1 DEF Free, InUse, Has, SameMem
  <2>2. ASSUME NEW d \in Inner(s), ~InUse(t, d), d \notin out
        PROVE  \/ \E k \in Levels : d = t.dv[k]
               \/ \E k \in Levels, a \in Bins : d \in ToSet(t.bin[k][a])
               \/ \E i \in SlotIds : d \in ToSet(t.slot_bin[i])
    <3>0. d \in Address /\ d # NULL
      BY OneList
    <3>1. ~InUse(s, d) /\ (d = c \/ d \notin loose)
      BY <2>2 DEF InUse, Has, SameMem, out
    <3>2. CASE d = c
      BY <1>5, <3>2
    <3>3. CASE d # c
      <4>1. \A k \in Levels : d = s.dv[k] => d = t.dv[k]
        BY <1>5, <3>0
      <4> QED BY <3>1, <3>3, <4>1 DEF Heap, Lists, Found
    <3> QED BY <3>2, <3>3
  <2> QED BY <1>1, <2>1, <2>2 DEF Found
<1> QED BY <1>1, <1>4, <1>7, <1>8, <1>9, <1>10 DEF Heap, Lists, out

\* A chunk leaves the list of its slot.
LEMMA SlotPopped ==
    ASSUME NEW s, NEW t, NEW loose, NEW open, NEW own, Heap(s, loose, open, own),
           SameMem(s, t), NEW id \in SlotIds, NEW c \in ToSet(s.slot_bin[id]),
           t.bin = s.bin, t.bitmap = s.bitmap, t.dv = s.dv,
           NEW list \in Seq(Address), IsInjective(list),
           ToSet(list) = ToSet(s.slot_bin[id]) \ {c},
           t.slot_bin = [s.slot_bin EXCEPT ![id] = list]
    PROVE  Heap(t, loose \cup {c}, open, own)
<1> DEFINE out == loose \cup {c}
<1>1. /\ Shape(t) /\ SlotSizes(t) /\ Room(t, own) /\ Apart(t, open) /\ Alike(s, t)
      /\ SameSlots(s, t) /\ \A d \in DOMAIN s.mem : t.mem[d].flags = s.mem[d].flags
      /\ Inner(t) = Inner(s)
  BY SameMemory
<1>2. /\ c \in Inner(s) /\ ~InUse(s, c) /\ c \in DOMAIN s.mem /\ Has(s, c, "SLOT")
      /\ own[c[1]] = id /\ c # NULL
  BY SlotMember, OneList
<1>3. s.slot_bin \in [SlotIds -> Seq(Address)]
  BY DEF Heap, Lists, Object
<1>4. Object(t)
  BY <1>3 DEF Heap, Lists, Object
<1>5. t.slot_bin[id] = list /\ \A k \in SlotIds : k # id => t.slot_bin[k] = s.slot_bin[k]
  BY <1>3
<1> HIDE DEF out
<1>7. Binned(t, out)
  <2>1. ASSUME NEW k \in Levels, NEW b \in Bins, NEW d \in ToSet(s.bin[k][b])
        PROVE  d # t.dv[k] /\ (d \in out => d \in loose)
    <3>1. (\A j \in Levels : d # s.dv[j]) /\ ~Has(s, d, "SLOT")
      BY BinMember, SMTT(60)
    <3> QED BY <1>2, <3>1 DEF out
  <2> QED BY <2>1, BinsKept
<1>8. DvSound(t, out)
  <2>1. \A l \in Levels : c # s.dv[l]
    BY <1>2, DvMember
  <2> QED BY <1>1, <2>1, DvsKept DEF out
<1>9. SlotListed(t, out, own)
  <2>1. ASSUME NEW i \in SlotIds, NEW d \in ToSet(t.slot_bin[i])
        PROVE  InSlot(t, out, own, i, d)
    <3>1. d \in ToSet(s.slot_bin[i]) /\ (i = id => d # c)
      BY <1>5, <2>1
    <3>2. InSlot(s, loose, own, i, d)
      BY <3>1 DEF Heap, Lists, SlotListed
    <3>3. d # c
      BY <1>2, <3>1, <3>2 DEF InSlot
    <3>4. ~InUse(t, d) /\ d \notin out
      BY <3>2, <3>3 DEF InSlot, Free, InUse, Has, SameMem, out
    <3> QED BY <1>1, <3>2, <3>4, StillInSlot DEF Heap
  <2>2. ASSUME NEW i \in SlotIds PROVE IsInjective(t.slot_bin[i])
    BY <1>5 DEF Heap, Lists, SlotListed
  <2> QED BY <2>1, <2>2 DEF SlotListed
<1>10. Found(t, out)
  <2>1. \A d \in out : Free(t, d)
    <3>1. \A d \in out : Free(s, d)
      BY <1>2 DEF Heap, Lists, Found, Free, out
    <3> QED BY <1>1, <3>1 DEF Free, InUse, Has, SameMem
  <2>2. ASSUME NEW d \in Inner(s), ~InUse(t, d), d \notin out
        PROVE  \/ \E k \in Levels : d = t.dv[k]
               \/ \E k \in Levels, a \in Bins : d \in ToSet(t.bin[k][a])
               \/ \E i \in SlotIds : d \in ToSet(t.slot_bin[i])
    <3>1. ~InUse(s, d) /\ d \notin loose /\ d # c
      BY <2>2 DEF InUse, Has, SameMem, out
    <3>2. \A i \in SlotIds : d \in ToSet(s.slot_bin[i]) => d \in ToSet(t.slot_bin[i])
      BY <1>5, <3>1
    <3> QED BY <3>1, <3>2 DEF Heap, Lists, Found
  <2> QED BY <1>1, <2>1, <2>2 DEF Found
<1> QED BY <1>1, <1>4, <1>7, <1>8, <1>9, <1>10 DEF Heap, Lists, out

\* A chunk enters the list of its slot.
LEMMA SlotPushed ==
    ASSUME NEW s, NEW t, NEW loose, NEW open, NEW own, Heap(s, loose, open, own),
           SameMem(s, t), NEW id \in SlotIds, NEW c \in loose,
           Has(s, c, "SLOT"), own[c[1]] = id, ~SlotWhole(s, c, id),
           t.bin = s.bin, t.bitmap = s.bitmap, t.dv = s.dv,
           t.slot_bin = [s.slot_bin EXCEPT ![id] = <<c>> \o @]
    PROVE  Heap(t, loose \ {c}, open, own)
<1> DEFINE out == loose \ {c}
           list == <<c>> \o s.slot_bin[id]
<1>1. /\ Shape(t) /\ SlotSizes(t) /\ Room(t, own) /\ Apart(t, open) /\ Alike(s, t)
      /\ SameSlots(s, t) /\ \A d \in DOMAIN s.mem : t.mem[d].flags = s.mem[d].flags
      /\ Inner(t) = Inner(s)
  BY SameMemory
<1>2. /\ c \in Inner(s) /\ ~InUse(s, c) /\ c \in DOMAIN s.mem /\ c \in Address
      /\ \A i \in SlotIds : c \notin ToSet(s.slot_bin[i])
  BY LooseMember
<1>3. s.slot_bin \in [SlotIds -> Seq(Address)] /\ IsInjective(s.slot_bin[id])
  BY DEF Heap, Lists, Object, SlotListed
<1>4. /\ list \in Seq(Address) /\ IsInjective(list)
      /\ ToSet(list) = ToSet(s.slot_bin[id]) \cup {c}
  BY <1>2, <1>3, Consed
<1>5. t.slot_bin[id] = list /\ \A k \in SlotIds : k # id => t.slot_bin[k] = s.slot_bin[k]
  BY <1>3
<1> HIDE DEF list
<1>6. Object(t)
  <2>1. t.slot_bin \in [SlotIds -> Seq(Address)]
    <3>1. DOMAIN t.slot_bin = SlotIds /\ t.slot_bin = [k \in SlotIds |-> t.slot_bin[k]]
      BY <1>3
    <3>2. \A k \in SlotIds : t.slot_bin[k] \in Seq(Address)
      BY <1>3, <1>4, <1>5
    <3> QED BY <3>1, <3>2
  <2> QED BY <2>1 DEF Heap, Lists, Object
<1> HIDE DEF out
<1>7. Binned(t, out)
  <2>1. ASSUME NEW k \in Levels, NEW b \in Bins, NEW d \in ToSet(s.bin[k][b])
        PROVE  d # t.dv[k] /\ (d \in out => d \in loose)
    <3>1. d # s.dv[k]
      BY BinMember
    <3> QED BY <3>1 DEF out
  <2> QED BY <2>1, BinsKept
<1>8. DvSound(t, out)
  BY <1>1, DvsKept DEF out
<1>9. SlotListed(t, out, own)
  <2>1. ASSUME NEW i \in SlotIds, NEW d \in ToSet(t.slot_bin[i])
        PROVE  InSlot(t, out, own, i, d)
    <3>1. CASE d = c
      <4>1. i = id
        BY <1>2, <1>5, <2>1, <3>1
      <4>2. Free(t, c) /\ Has(t, c, "SLOT")
        BY <1>1, <1>2 DEF Free, InUse, Has, SameMem
      <4>3. t.slot[id].user = s.slot[id].user /\ t.slot[id].max = s.slot[id].max
        BY <1>1 DEF SameSlots, Heap, SlotSizes
      <4>4. ~SlotWhole(t, c, id)
        BY <4>3 DEF SlotWhole, This, SameMem
      <4> QED BY <3>1, <4>1, <4>2, <4>4 DEF InSlot, out
    <3>2. CASE d # c
      <4>1. d \in ToSet(s.slot_bin[i])
        BY <1>4, <1>5, <2>1, <3>2
      <4>2. InSlot(s, loose, own, i, d)
        BY <4>1 DEF Heap, Lists, SlotListed
      <4>3. ~InUse(t, d) /\ d \notin out
        BY <4>2 DEF InSlot, Free, InUse, Has, SameMem, out
      <4> QED BY <1>1, <4>2, <4>3, StillInSlot DEF Heap
    <3> QED BY <3>1, <3>2
  <2>2. ASSUME NEW i \in SlotIds PROVE IsInjective(t.slot_bin[i])
    BY <1>4, <1>5 DEF Heap, Lists, SlotListed
  <2> QED BY <2>1, <2>2 DEF SlotListed
<1>10. Found(t, out)
  <2>1. \A d \in out : Free(t, d)
    <3>1. \A d \in out : Free(s, d)
      BY DEF Heap, Lists, Found, Free, out
    <3> QED BY <1>1, <3>1 DEF Free, InUse, Has, SameMem
  <2>2. ASSUME NEW d \in Inner(s), ~InUse(t, d), d \notin out
        PROVE  \/ \E k \in Levels : d = t.dv[k]
               \/ \E k \in Levels, a \in Bins : d \in ToSet(t.bin[k][a])
               \/ \E i \in SlotIds : d \in ToSet(t.slot_bin[i])
    <3>1. ~InUse(s, d) /\ (d = c \/ d \notin loose)
      BY <2>2 DEF InUse, Has, SameMem, out
    <3>2. c \in ToSet(t.slot_bin[id])
      BY <1>4, <1>5
    <3>3. \A i \in SlotIds : d \in ToSet(s.slot_bin[i]) => d \in ToSet(t.slot_bin[i])
      BY <1>4, <1>5
    <3> QED BY <3>1, <3>2, <3>3 DEF Heap, Lists, Found
  <2> QED BY <1>1, <2>1, <2>2 DEF Found
<1> QED BY <1>1, <1>6, <1>7, <1>8, <1>9, <1>10 DEF Heap, Lists, out

-----------------------------------------------------------------------------
(* Steps that cut, merge, add and remove chunks *)

\* The lists do not change, and what they hold stays what it was.
LEMMA ListsKept ==
    ASSUME NEW s, NEW t, NEW loose, NEW out, NEW open, NEW own, NEW to,
           Heap(s, loose, open, own), SlotSizes(t), SameLists(s, t),
           \A i \in SlotIds : t.slot[i].user = s.slot[i].user /\ t.slot[i].max = s.slot[i].max,
           \A d \in Inner(s) : InUse(s, d) \/ d \in loose \/
              /\ d \in Inner(t) /\ t.mem[d].flags = s.mem[d].flags /\ d \notin out
              /\ to[d[1]] = own[d[1]]
              /\ (\E l \in Levels : d = s.dv[l]) \/ (This(t, d) = This(s, d)
                                                     /\ t.mem[d].bin = s.mem[d].bin)
    PROVE  Object(t) /\ Binned(t, out) /\ DvSound(t, out) /\ SlotListed(t, out, to)
<1>1. Object(t)
  BY DEF Heap, Lists, Object, SameLists
<1>2. ASSUME NEW l \in Levels, NEW b \in Bins, NEW d \in ToSet(s.bin[l][b])
      PROVE  InBin(t, out, l, b, d)
  <2>0. \A k \in Levels : d # s.dv[k]
    BY BinMember
  <2>1. InBin(s, loose, l, b, d) /\ \A k \in Levels : d # s.dv[k]
    BY <2>0 DEF Heap, Lists, Binned
  <2>2. /\ d \in Inner(t) /\ t.mem[d].flags = s.mem[d].flags /\ d \notin out
        /\ This(t, d) = This(s, d) /\ t.mem[d].bin = s.mem[d].bin
    BY <2>1 DEF InBin, Free
  <2> QED BY <2>1, <2>2 DEF InBin, Free, InUse, Has, Level, BinOf, WholeBlock, SameLists
<1>3. Binned(t, out)
  BY <1>2 DEF Heap, Lists, Binned, SameLists
<1>4. ASSUME NEW l \in Levels, s.dv[l] # NULL
      PROVE  /\ Free(t, s.dv[l]) /\ ~Has(t, s.dv[l], "DIRECT") /\ s.dv[l] \notin out
             /\ Level(t, s.dv[l]) = l
  <2> DEFINE d == s.dv[l]
  <2>1. Free(s, d) /\ ~Has(s, d, "DIRECT") /\ d \notin loose /\ Level(s, d) = l
    BY <1>4 DEF Heap, Lists, DvSound
  <2>2. d \in Inner(t) /\ t.mem[d].flags = s.mem[d].flags /\ d \notin out
    BY <2>1 DEF Free
  <2> QED BY <2>1, <2>2 DEF Free, InUse, Has, Level
<1>5. DvSound(t, out)
  BY <1>4 DEF DvSound, SameLists
<1>6. ASSUME NEW i \in SlotIds, NEW d \in ToSet(s.slot_bin[i])
      PROVE  InSlot(t, out, to, i, d)
  <2>1. InSlot(s, loose, own, i, d)
    BY DEF Heap, Lists, SlotListed
  <2>2. ~Has(s, d, "DIRECT") => FALSE
    BY SlotMember
  <2>3. \A l \in Levels : d # s.dv[l]
    <3>1. d # NULL
      BY <2>1, OneList DEF InSlot, Free
    <3> QED BY <2>2, <3>1, DvMember
  <2>4. /\ d \in Inner(t) /\ t.mem[d].flags = s.mem[d].flags /\ d \notin out
        /\ This(t, d) = This(s, d) /\ to[d[1]] = own[d[1]]
    BY <2>1, <2>3 DEF InSlot, Free
  <2> QED BY <2>1, <2>4 DEF InSlot, Free, InUse, Has, SlotWhole
<1>7. SlotListed(t, out, to)
  BY <1>6 DEF Heap, Lists, SlotListed, SameLists
<1> QED BY <1>1, <1>3, <1>5, <1>7

\* exploit_new_chunk
LEMMA CutHeaders ==
    ASSUME NEW s, Shape(s), NEW c \in Inner(s), ~InUse(s, c),
           NEW size \in Nat, size >= 2 * FINE, This(s, c) >= size + 2 * FINE
    PROVE  LET t == ExploitNewChunk(s, c, size)
               n == NewChunk(s, c, size)
               e == NextOf(s, c)
           IN  /\ DOMAIN t = Fields /\ \A f \in Fields \ {"mem"} : t[f] = s[f]
               /\ n \notin DOMAIN s.mem /\ DOMAIN t.mem = DOMAIN s.mem \cup {n}
               /\ n \in Address /\ n[1] = c[1] /\ n[2] = c[2] + This(s, c) - size
               /\ e \in DOMAIN s.mem /\ e # c /\ e # n /\ c # n
               /\ \A d \in DOMAIN s.mem :
                    /\ t.mem[d].flags = s.mem[d].flags /\ t.mem[d].bin = s.mem[d].bin
                    /\ DOMAIN t.mem[d] = DOMAIN s.mem[d]
                    /\ d # c => This(t, d) = This(s, d)
                    /\ d # e => t.mem[d].prev = s.mem[d].prev
               /\ This(t, c) = This(s, c) - size /\ t.mem[e].prev = size
               /\ t.mem[n] = Header(This(s, c) - size, size, s.mem[c].flags)
               /\ t.size = s.size
<1> DEFINE t == ExploitNewChunk(s, c, size)
           n == NewChunk(s, c, size)
           e == NextOf(s, c)
           left == This(s, c) - size
           cut == [s.mem EXCEPT ![c].this = left, ![e].prev = size]
<1>1. /\ c \in DOMAIN s.mem /\ Between(s, c) /\ e \in DOMAIN s.mem /\ e[1] = c[1]
      /\ e[2] = c[2] + This(s, c)
  BY InnerChunk
<1>2. /\ c = <<c[1], c[2]>> /\ c[1] \in BlockIds /\ c[2] \in Nat /\ This(s, c) \in Nat
  BY <1>1, Headers
<1>3. DOMAIN s = Fields /\ \A d \in DOMAIN s.mem :
        DOMAIN s.mem[d] = {"prev", "this", "flags", "bin", "color"}
  BY DEF Shape, Memory, HeaderOK
<1>4. n = <<c[1], c[2] + This(s, c) - size>>
  BY DEF NewChunk
<1>5. n[1] = c[1] /\ n[2] = c[2] + This(s, c) - size /\ n \in Address
  BY <1>2, <1>4, Grains DEF Address
<1>6. c[2] < n[2] /\ n[2] < e[2]
  BY <1>1, <1>2, <1>5, Grains
<1>7. n \notin DOMAIN s.mem
  BY <1>1, <1>2, <1>5, <1>6 DEF Between
<1>8. e # c /\ e # n /\ c # n
  BY <1>1, <1>2, <1>5, <1>6
<1>9. t = [s EXCEPT !.mem = Put(cut, n, Header(left, size, s.mem[c].flags))]
  BY DEF ExploitNewChunk
<1> HIDE DEF n, e, t
<1>10. DOMAIN t = Fields /\ t.mem = Put(cut, n, Header(left, size, s.mem[c].flags))
       /\ \A f \in Fields \ {"mem"} : t[f] = s[f]
  BY <1>3, <1>9 DEF Fields
<1>11. DOMAIN cut = DOMAIN s.mem
  OBVIOUS
<1>12. cut[c] = [s.mem[c] EXCEPT !.this = left] /\ cut[e] = [s.mem[e] EXCEPT !.prev = size]
       /\ \A d \in DOMAIN s.mem : d # c /\ d # e => cut[d] = s.mem[d]
  BY <1>1, <1>8
<1>13. \A d \in DOMAIN s.mem :
         /\ cut[d].flags = s.mem[d].flags /\ cut[d].bin = s.mem[d].bin
         /\ DOMAIN cut[d] = DOMAIN s.mem[d]
         /\ d # c => cut[d].this = s.mem[d].this
         /\ d # e => cut[d].prev = s.mem[d].prev
  BY <1>1, <1>3, <1>8, <1>12
<1>14. cut[c].this = left /\ cut[e].prev = size
  BY <1>1, <1>3, <1>12
<1> HIDE DEF cut
<1>15. DOMAIN t.mem = DOMAIN s.mem \cup {n} /\ t.mem[n] = Header(left, size, s.mem[c].flags)
       /\ \A d \in DOMAIN s.mem : t.mem[d] = cut[d]
  BY <1>7, <1>10, <1>11 DEF Put
<1>16. t.size = s.size
  BY <1>10 DEF Fields
<1> QED BY <1>1, <1>5, <1>7, <1>8, <1>10, <1>13, <1>14, <1>15, <1>16 DEF This, t, n, e

\* The two parts take the place of the chunk that was cut.
LEMMA CutShape ==
    ASSUME NEW s, Shape(s), NEW c \in Inner(s), ~InUse(s, c),
           NEW size \in Nat, size >= 2 * FINE, This(s, c) >= size + 2 * FINE
    PROVE  LET t == ExploitNewChunk(s, c, size)
               n == NewChunk(s, c, size)
           IN  /\ Shape(t) /\ Inner(t) = Inner(s) \cup {n}
               /\ NextOf(t, c) = n /\ NextOf(t, n) = NextOf(s, c)
               /\ This(t, n) = size
               /\ \A d \in Inner(s) : d # c => NextOf(t, d) = NextOf(s, d)
<1> DEFINE t == ExploitNewChunk(s, c, size)
           n == NewChunk(s, c, size)
           e == NextOf(s, c)
           left == This(s, c) - size
<1>1. /\ DOMAIN t = Fields /\ \A f \in Fields \ {"mem"} : t[f] = s[f]
      /\ n \notin DOMAIN s.mem /\ DOMAIN t.mem = DOMAIN s.mem \cup {n}
      /\ n \in Address /\ n[1] = c[1] /\ n[2] = c[2] + This(s, c) - size
      /\ e \in DOMAIN s.mem /\ e # c /\ e # n /\ c # n
      /\ \A d \in DOMAIN s.mem :
           /\ t.mem[d].flags = s.mem[d].flags /\ t.mem[d].bin = s.mem[d].bin
           /\ DOMAIN t.mem[d] = DOMAIN s.mem[d]
           /\ d # c => This(t, d) = This(s, d)
           /\ d # e => t.mem[d].prev = s.mem[d].prev
      /\ This(t, c) = left /\ t.mem[e].prev = size
      /\ t.mem[n] = Header(left, size, s.mem[c].flags)
      /\ t.size = s.size
  BY CutHeaders
<1>2. /\ c \in DOMAIN s.mem /\ Between(s, c) /\ e[1] = c[1] /\ e[2] = c[2] + This(s, c)
      /\ s.mem[e].prev = This(s, c) /\ ~IsHead(e) /\ FrontOf(s, c) # c
      /\ 4 * FINE <= c[2] /\ c[2] + This(s, c) <= s.size[c[1]] - 2 * FINE
      /\ ~IsHead(c) /\ ~IsTail(s, c)
  <2>1. FrontOf(s, c)[2] + This(s, FrontOf(s, c)) = c[2] /\ This(s, FrontOf(s, c)) >= 2 * FINE
        /\ FrontOf(s, c) \in DOMAIN s.mem
    BY InnerChunk
  <2>2. This(s, FrontOf(s, c)) \in Nat /\ FrontOf(s, c)[2] \in Nat
    BY <2>1, Headers
  <2>3. FrontOf(s, c) # c
    BY <2>1, <2>2, Grains
  <2> QED BY <2>3, InnerChunk DEF Inner
<1>3. /\ c = <<c[1], c[2]>> /\ c[1] \in BlockIds /\ c[2] \in Nat /\ This(s, c) \in Nat
      /\ s.size[c[1]] \in Nat /\ c[1] \in ToSet(s.used)
  BY <1>2, Headers
<1>4. left \in Nat /\ left >= 2 * FINE /\ left + size = This(s, c)
  BY <1>3, Grains
<1>5. c[2] < n[2] /\ n[2] < e[2] /\ n[2] \in Nat /\ n = <<c[1], n[2]>> /\ e = <<c[1], e[2]>>
      /\ e[2] \in Nat /\ n[2] = c[2] + left /\ e[2] = n[2] + size
  <2>1. n = <<n[1], n[2]>> /\ e = <<e[1], e[2]>> /\ e[2] \in Nat /\ n[2] \in Nat
    BY <1>1, Headers, Pair
  <2> QED BY <1>1, <1>2, <1>3, <1>4, <2>1, Grains
<1>6. t.mem[n].flags = s.mem[c].flags /\ t.mem[n].prev = left /\ This(t, n) = size
      /\ t.mem[n].bin = 0 /\ DOMAIN t.mem[n] = {"prev", "this", "flags", "bin", "color"}
  BY <1>1 DEF Header, This
<1> HIDE DEF t, n, e, left
<1>7. /\ t.size = s.size /\ t.used = s.used /\ t.reserve = s.reserve
  BY <1>1 DEF Fields
<1>8. Memory(t)
  <2>1. ASSUME NEW d \in DOMAIN s.mem PROVE HeaderOK(t.mem[d])
    <3>1. HeaderOK(s.mem[d])
      BY DEF Shape, Memory
    <3>2. t.mem[d].this \in Nat
      BY <1>1, <1>4, <3>1 DEF HeaderOK, This
    <3>3. t.mem[d].prev \in Nat
      BY <1>1, <3>1 DEF HeaderOK
    <3> QED BY <1>1, <3>1, <3>2, <3>3 DEF HeaderOK
  <2>2. HeaderOK(t.mem[n])
    <3>1. HeaderOK(s.mem[c]) /\ 0 \in Bins
      BY <1>2, Bounds DEF Shape, Memory, Bins
    <3>2. t.mem[n].this = size
      BY <1>6 DEF This
    <3> QED BY <1>4, <1>6, <3>1, <3>2 DEF HeaderOK
  <2> QED BY <1>1, <2>1, <2>2 DEF Shape, Memory
<1>9. ASSUME NEW b \in ToSet(s.used) PROVE Edges(t, b)
  <2> DEFINE h == BlockHead(b)
             x == TailChunk(s, b)
  <2>1. Edges(s, b) /\ h \in DOMAIN s.mem /\ x \in DOMAIN s.mem
        /\ h \notin Inner(s) /\ x \notin Inner(s)
    BY Edge DEF Shape, Blocks
  <2>2. TailChunk(t, b) = x /\ h # c /\ x # c
    BY <1>7, <2>1 DEF TailChunk
  <2> HIDE DEF h, x
  <2>3. /\ h \in DOMAIN t.mem /\ x \in DOMAIN t.mem
        /\ t.mem[h].flags = s.mem[h].flags /\ t.mem[x].flags = s.mem[x].flags
        /\ This(t, h) = This(s, h) /\ This(t, x) = This(s, x)
    BY <1>1, <2>1, <2>2
  <2> QED BY <1>7, <2>1, <2>2, <2>3 DEF Edges, InUse, Has, h, x
<1>10. Blocks(t)
  BY <1>7, <1>9 DEF Blocks, Shape
<1>11. ASSUME NEW d \in DOMAIN s.mem, ~IsTail(s, d)
       PROVE  /\ NextOf(s, d) \in DOMAIN s.mem /\ s.mem[NextOf(s, d)].prev = This(s, d)
              /\ This(s, d) >= 2 * FINE /\ Between(s, d) /\ This(s, d) \in Nat
              /\ NextOf(s, d) = <<d[1], d[2] + This(s, d)>> /\ d[2] \in Nat
  BY <1>11, Headers, Grains DEF Shape, Chain, NextOf, This
<1>12. ASSUME NEW d \in DOMAIN s.mem, ~IsTail(s, d), NextOf(s, d) = e PROVE d = c
  <2>1. This(s, d) = This(s, c) /\ d[1] = c[1] /\ d[2] + This(s, d) = e[2]
    BY <1>2, <1>5, <1>11, <1>12
  <2>2. d[2] = c[2]
    BY <1>2, <1>3, <1>11, <1>12, <2>1
  <2>3. d = <<d[1], d[2]>>
    BY Headers
  <2> QED BY <1>3, <2>1, <2>2, <2>3
<1>13. ASSUME NEW d \in DOMAIN t.mem
       PROVE  /\ d[1] \in ToSet(t.used)
              /\ BLOCK_TYPE_SIZE <= d[2] /\ d[2] <= t.size[d[1]] - CHUNK_FREE_SIZE
              /\ t.mem[d].flags \ {"USED"} = t.mem[BlockHead(d[1])].flags \ {"USED"}
  <2>1. ASSUME NEW x \in DOMAIN s.mem
        PROVE  /\ x[1] \in ToSet(s.used) /\ BlockHead(x[1]) \in DOMAIN s.mem
               /\ BLOCK_TYPE_SIZE <= x[2] /\ x[2] <= s.size[x[1]] - CHUNK_FREE_SIZE
               /\ s.mem[x].flags \ {"USED"} = s.mem[BlockHead(x[1])].flags \ {"USED"}
    BY Edge DEF Shape, Chain
  <2>2. CASE d \in DOMAIN s.mem
    BY <1>1, <1>7, <2>1, <2>2
  <2>3. CASE d = n
    <3>1. BLOCK_TYPE_SIZE <= n[2] /\ n[2] <= s.size[n[1]] - CHUNK_FREE_SIZE
      BY <1>1, <1>2, <1>3, <1>4, <1>5, Grains
    <3> QED BY <1>1, <1>2, <1>6, <1>7, <2>1, <2>3, <3>1
  <2> QED BY <1>1, <2>2, <2>3
<1>14. NextOf(t, c) = n /\ NextOf(t, n) = e
  BY <1>1, <1>5, <1>6 DEF NextOf, This
<1>15. \A d \in DOMAIN s.mem : d # c => NextOf(t, d) = NextOf(s, d)
  BY <1>1 DEF NextOf, This
<1>16. \A d \in DOMAIN s.mem : IsTail(t, d) <=> IsTail(s, d)
  BY <1>7 DEF IsTail
<1>17. ASSUME NEW d \in DOMAIN t.mem, ~IsTail(t, d)
       PROVE  /\ NextOf(t, d) \in DOMAIN t.mem /\ t.mem[NextOf(t, d)].prev = This(t, d)
              /\ This(t, d) >= SMALL_LEAST_SIZE /\ Between(t, d)
  <2>1. CASE d = n
    <3>1. Between(t, n)
      <4> SUFFICES ASSUME NEW x \in DOMAIN t.mem, x[1] = n[1]
                   PROVE  x[2] <= n[2] \/ x[2] >= n[2] + This(t, n)
        BY DEF Between
      <4>1. x \in DOMAIN s.mem => x[2] \in Nat /\ (x[2] <= c[2] \/ x[2] >= c[2] + This(s, c))
        BY <1>1, <1>2, Headers DEF Between
      <4> QED BY <1>1, <1>2, <1>3, <1>5, <1>6, <4>1
    <3> QED BY <1>1, <1>6, <1>14, <2>1, <3>1, Grains
  <2>2. CASE d = c
    <3>1. Between(t, c)
      <4> SUFFICES ASSUME NEW x \in DOMAIN t.mem, x[1] = c[1]
                   PROVE  x[2] <= c[2] \/ x[2] >= c[2] + This(t, c)
        BY DEF Between
      <4>1. x \in DOMAIN s.mem => x[2] \in Nat /\ (x[2] <= c[2] \/ x[2] >= c[2] + This(s, c))
        BY <1>2, Headers DEF Between
      <4> QED BY <1>1, <1>2, <1>3, <1>4, <1>5, <4>1
    <3> QED BY <1>1, <1>4, <1>6, <1>14, <2>2, <3>1, Grains
  <2>3. CASE d # n /\ d # c
    <3>1. d \in DOMAIN s.mem /\ ~IsTail(s, d)
      BY <1>1, <1>16, <1>17, <2>3
    <3>2. /\ NextOf(s, d) \in DOMAIN s.mem /\ s.mem[NextOf(s, d)].prev = This(s, d)
          /\ This(s, d) >= 2 * FINE /\ Between(s, d) /\ This(s, d) \in Nat /\ d[2] \in Nat
      BY <1>11, <3>1
    <3>3. NextOf(s, d) # e
      BY <1>12, <2>3, <3>1
    <3>4. NextOf(t, d) = NextOf(s, d) /\ This(t, d) = This(s, d)
      BY <1>1, <1>15, <2>3, <3>1
    <3>5. Between(t, d)
      <4> SUFFICES ASSUME NEW x \in DOMAIN t.mem, x[1] = d[1]
                   PROVE  x[2] <= d[2] \/ x[2] >= d[2] + This(s, d)
        BY <3>4 DEF Between
      <4>1. CASE x \in DOMAIN s.mem
        BY <3>2, <4>1 DEF Between
      <4>2. CASE x = n
        <5>1. d[1] = c[1]
          BY <1>1, <4>2
        <5>2. d[2] <= c[2] \/ d[2] >= c[2] + This(s, c)
          BY <1>2, <3>1, <5>1 DEF Between
        <5>3. c[2] <= d[2] \/ c[2] >= d[2] + This(s, d)
          BY <1>2, <3>2, <5>1 DEF Between
        <5>4. d[2] # c[2]
          <6>1. d = <<d[1], d[2]>>
            BY <3>1, Headers
          <6> QED BY <1>3, <2>3, <5>1, <6>1
        <5> QED BY <1>2, <1>3, <1>5, <3>2, <4>2, <5>2, <5>3, <5>4
      <4> QED BY <1>1, <4>1, <4>2
    <3> QED BY <1>1, <3>2, <3>3, <3>4, <3>5, Grains
  <2> QED BY <2>1, <2>2, <2>3
<1>18. ASSUME NEW d \in DOMAIN t.mem, ~IsHead(d)
       PROVE  FrontOf(t, d) \in DOMAIN t.mem /\ This(t, FrontOf(t, d)) = t.mem[d].prev
  <2>1. CASE d = n
    <3>1. FrontOf(t, n) = c
      BY <1>1, <1>3, <1>4, <1>5, <1>6 DEF FrontOf
    <3> QED BY <1>1, <1>2, <1>6, <2>1, <3>1
  <2>2. CASE d = e
    <3>1. FrontOf(t, e) = n
      BY <1>1, <1>5 DEF FrontOf
    <3> QED BY <1>1, <1>6, <2>2, <3>1
  <2>3. CASE d # n /\ d # e
    <3>1. d \in DOMAIN s.mem
      BY <1>1, <2>3
    <3>2. FrontOf(s, d) \in DOMAIN s.mem /\ This(s, FrontOf(s, d)) = s.mem[d].prev
      BY <1>18, <3>1 DEF Shape, Chain
    <3>3. FrontOf(t, d) = FrontOf(s, d) /\ t.mem[d].prev = s.mem[d].prev
      BY <1>1, <2>3, <3>1 DEF FrontOf
    <3>4. FrontOf(s, d) # c
      <4> SUFFICES ASSUME FrontOf(s, d) = c PROVE FALSE
        OBVIOUS
      <4>1. d = <<d[1], d[2]>> /\ d[2] \in Nat /\ s.mem[d].prev \in Nat
        BY <3>1, Headers
      <4>2. c[1] = d[1] /\ c[2] = d[2] - s.mem[d].prev
        BY DEF FrontOf
      <4>3. d[2] = c[2] + This(s, c)
        BY <1>3, <3>2, <4>1, <4>2
      <4> QED BY <1>2, <1>5, <2>3, <4>1, <4>2, <4>3
    <3> QED BY <1>1, <3>2, <3>3, <3>4
  <2> QED BY <2>1, <2>2, <2>3
<1>19. Chain(t)
  BY <1>13, <1>17, <1>18 DEF Chain
<1>20. ~IsHead(n) /\ ~IsTail(t, n)
  BY <1>1, <1>2, <1>3, <1>5, <1>7, Grains DEF IsHead, IsTail
<1>21. Inner(t) = Inner(s) \cup {n}
  BY <1>1, <1>16, <1>20 DEF Inner
<1> QED BY <1>6, <1>8, <1>10, <1>14, <1>15, <1>19, <1>21 DEF Shape, Inner, t, n, e

\* exploit_new_chunk: the rear part is a free chunk in no list.
LEMMA Cut ==
    ASSUME NEW s, NEW loose, NEW open, NEW own, Heap(s, loose, open, own),
           NEW c \in Inner(s), ~InUse(s, c), c \notin open,
           c \in loose \/ \E l \in Levels : c = s.dv[l],
           NEW size \in Nat, size >= 2 * FINE, This(s, c) >= size + 2 * FINE,
           Has(s, c, "BIG") /\ ~Has(s, c, "SLOT") =>
             size >= BIG_LEAST_SIZE /\ This(s, c) >= size + BIG_LEAST_SIZE,
           Has(s, c, "DIRECT") => Has(s, c, "SLOT"),
           Has(s, c, "SLOT") =>
             /\ size >= s.slot[own[c[1]]].user + CHUNK_PADDING_SIZE
             /\ This(s, c) >= size + s.slot[own[c[1]]].user + CHUNK_PADDING_SIZE
    PROVE  LET t == ExploitNewChunk(s, c, size)
               n == NewChunk(s, c, size)
           IN  /\ Heap(t, loose \cup {n}, open \cup {c}, own) /\ Kept(s, t)
               /\ SameLists(s, t) /\ t.slot = s.slot
               /\ n \in Inner(t) /\ n \notin Inner(s) /\ NextOf(t, c) = n /\ This(t, n) = size
               /\ This(t, c) = This(s, c) - size /\ c # n /\ n[1] = c[1]
               /\ \A f \in Flags : (Has(t, n, f) <=> Has(s, c, f)) /\ (Has(t, c, f) <=> Has(s, c, f))
<1> DEFINE t == ExploitNewChunk(s, c, size)
           n == NewChunk(s, c, size)
           e == NextOf(s, c)
           out == loose \cup {n}
           rest == open \cup {c}
<1>0. Shape(s) /\ c \in DOMAIN s.mem
  BY DEF Heap, Inner
<1>1. /\ DOMAIN t = Fields /\ \A f \in Fields \ {"mem"} : t[f] = s[f]
      /\ n \notin DOMAIN s.mem /\ DOMAIN t.mem = DOMAIN s.mem \cup {n}
      /\ n \in Address /\ n[1] = c[1]
      /\ c # n
      /\ \A d \in DOMAIN s.mem :
           /\ t.mem[d].flags = s.mem[d].flags /\ t.mem[d].bin = s.mem[d].bin
           /\ d # c => This(t, d) = This(s, d)
      /\ This(t, c) = This(s, c) - size
      /\ t.mem[n] = Header(This(s, c) - size, size, s.mem[c].flags)
      /\ t.size = s.size
  BY <1>0, CutHeaders
<1>2. /\ Shape(t) /\ Inner(t) = Inner(s) \cup {n}
      /\ NextOf(t, c) = n /\ NextOf(t, n) = e
      /\ This(t, n) = size
      /\ \A d \in Inner(s) : d # c => NextOf(t, d) = NextOf(s, d)
  BY <1>0, CutShape
<1>3. t.mem[n].flags = s.mem[c].flags
  BY <1>1 DEF Header
<1>4. This(s, c) \in Nat
  BY <1>0, Headers
<1> HIDE DEF t, n, e, out, rest
<1>5. /\ SameLists(s, t) /\ t.slot = s.slot
      /\ t.inited = s.inited /\ t.panicked = s.panicked /\ t.errors = s.errors
  BY <1>1 DEF SameLists, Fields
<1>6. \A f \in Flags : (Has(t, n, f) <=> Has(s, c, f)) /\ (Has(t, c, f) <=> Has(s, c, f))
  BY <1>0, <1>1, <1>3 DEF Has
<1>7. \A d \in DOMAIN s.mem : \A f \in Flags : Has(t, d, f) <=> Has(s, d, f)
  BY <1>1 DEF Has
<1>8. SlotSizes(t)
  BY <1>5 DEF Heap, SlotSizes
<1>9. Inner(s) \subseteq DOMAIN s.mem
  BY DEF Inner
<1>10. Room(t, own)
  <2>1. ASSUME NEW d \in Inner(s), d # c
        PROVE  /\ Has(t, d, "BIG") /\ ~Has(t, d, "SLOT") => This(t, d) >= BIG_LEAST_SIZE
               /\ Has(t, d, "DIRECT") /\ ~Has(t, d, "SLOT") => Fills(t, d)
               /\ Has(t, d, "SLOT") => OfSlot(t, d, own[d[1]])
    <3>1. This(t, d) = This(s, d) /\ t.mem[d].bin = s.mem[d].bin
      BY <1>1, <1>9, <2>1
    <3>2. \A f \in Flags : Has(t, d, f) <=> Has(s, d, f)
      BY <1>7, <1>9
    <3> QED BY <1>1, <1>5, <3>1, <3>2 DEF Heap, Room, Fills, OfSlot, Flags, InUse
  <2>2. ASSUME NEW d \in {c, n}
        PROVE  /\ Has(t, d, "BIG") /\ ~Has(t, d, "SLOT") => This(t, d) >= BIG_LEAST_SIZE
               /\ Has(t, d, "DIRECT") /\ ~Has(t, d, "SLOT") => Fills(t, d)
               /\ Has(t, d, "SLOT") => OfSlot(t, d, own[d[1]])
    <3>1. (Has(t, d, "BIG") <=> Has(s, c, "BIG")) /\ (Has(t, d, "SLOT") <=> Has(s, c, "SLOT"))
          /\ (Has(t, d, "DIRECT") <=> Has(s, c, "DIRECT")) /\ (InUse(t, d) <=> InUse(s, c))
      BY <1>6 DEF Flags, InUse
    <3>2. Has(t, d, "BIG") /\ ~Has(t, d, "SLOT") => This(t, d) >= BIG_LEAST_SIZE
      BY <1>1, <1>2, <1>4, <3>1, Grains
    <3>3. ASSUME Has(s, c, "SLOT") PROVE OfSlot(t, d, own[d[1]])
      <4>1. OfSlot(s, c, own[c[1]])
        BY <3>3 DEF Heap, Room
      <4>2. s.slot[own[c[1]]].user \in Nat
        BY <4>1 DEF OfSlot, Heap, SlotSizes
      <4>3. This(t, d) >= s.slot[own[c[1]]].user + CHUNK_PADDING_SIZE
        BY <1>1, <1>2, <1>4, <3>3, <4>2, Grains
      <4>4. d[1] = c[1]
        BY <1>1
      <4> QED BY <1>1, <1>5, <3>1, <4>1, <4>3, <4>4 DEF OfSlot
    <3> QED BY <3>1, <3>2, <3>3
  <2> QED BY <1>2, <2>1, <2>2 DEF Room
<1>11. Object(t) /\ Binned(t, out) /\ DvSound(t, out) /\ SlotListed(t, out, own)
  <2>1. \A i \in SlotIds : t.slot[i].user = s.slot[i].user /\ t.slot[i].max = s.slot[i].max
    BY <1>5
  <2>2. \A d \in Inner(s) : InUse(s, d) \/ d \in loose \/
              /\ d \in Inner(t) /\ t.mem[d].flags = s.mem[d].flags /\ d \notin out
              /\ own[d[1]] = own[d[1]]
              /\ (\E l \in Levels : d = s.dv[l]) \/ (This(t, d) = This(s, d)
                                                     /\ t.mem[d].bin = s.mem[d].bin)
    BY <1>1, <1>2, <1>9 DEF out
  <2> QED BY <1>5, <1>8, <2>1, <2>2, ListsKept, ZenonT(60)
<1>12. \A d \in Inner(s) : InUse(t, d) <=> InUse(s, d)
  BY <1>7, <1>9 DEF Flags, InUse
<1>13. ~InUse(t, n) /\ ~InUse(t, c)
  BY <1>6 DEF Flags, InUse
<1>14. Found(t, out)
  <2>1. \A d \in out : Free(t, d)
    BY <1>2, <1>12, <1>13 DEF out, Heap, Lists, Found, Free
  <2>2. ASSUME NEW d \in Inner(s), ~InUse(t, d), d \notin out
        PROVE  \/ \E k \in Levels : d = t.dv[k]
               \/ \E k \in Levels, a \in Bins : d \in ToSet(t.bin[k][a])
               \/ \E i \in SlotIds : d \in ToSet(t.slot_bin[i])
    <3>1. ~InUse(s, d) /\ d \notin loose
      BY <1>12, <2>2 DEF out
    <3> QED BY <1>5, <3>1 DEF Heap, Lists, Found, SameLists
  <2> QED BY <1>2, <2>1, <2>2 DEF Found, out
<1>15. Apart(t, rest)
  <2>1. ASSUME NEW d \in Inner(s), d # c, ~InUse(t, d), ~InUse(t, NextOf(t, d)) PROVE d \in rest
    <3>1. NextOf(t, d) = NextOf(s, d) /\ NextOf(s, d) \in DOMAIN s.mem
      BY <1>0, <1>2, <2>1, InnerChunk
    <3>2. ~InUse(s, d) /\ ~InUse(s, NextOf(s, d))
      BY <1>7, <1>9, <2>1, <3>1 DEF InUse, Flags
    <3> QED BY <3>2 DEF Heap, Apart, rest
  <2>2. InUse(t, NextOf(t, n))
    <3>1. e \in DOMAIN s.mem
      BY <1>0, InnerChunk DEF e
    <3>2. InUse(s, e)
      BY DEF Heap, Apart, e
    <3> QED BY <1>2, <1>7, <3>1, <3>2 DEF InUse, Flags
  <2> QED BY <1>2, <2>1, <2>2 DEF Apart, rest
<1>16. UsedBy(t) = UsedBy(s) /\ \A d \in UsedBy(s) : This(t, d) = This(s, d)
  BY <1>1, <1>2, <1>9, <1>12, <1>13 DEF UsedBy
<1>17. Kept(s, t)
  BY <1>5, <1>16 DEF Kept
<1>18. n \in Inner(t) /\ n \notin Inner(s)
  BY <1>1, <1>2, <1>9
<1> QED BY <1>1, <1>2, <1>5, <1>6, <1>8, <1>10, <1>11, <1>14, <1>15, <1>17, <1>18
        DEF Heap, Lists, t, n, out, rest

\* NextOf and FrontOf are inverses.
LEMMA Linked ==
    ASSUME NEW s, Shape(s), NEW x \in DOMAIN s.mem
    PROVE  /\ \A y \in DOMAIN s.mem : ~IsTail(s, x) /\ ~IsTail(s, y)
                /\ NextOf(s, x) = NextOf(s, y) => x = y
           /\ ~IsHead(x) => FrontOf(s, x) \in DOMAIN s.mem /\ NextOf(s, FrontOf(s, x)) = x
                /\ s.mem[x].prev = This(s, FrontOf(s, x))
           /\ ~IsTail(s, x) => NextOf(s, x) \in DOMAIN s.mem
                /\ s.mem[NextOf(s, x)].prev = This(s, x) /\ This(s, x) >= 2 * FINE
                /\ Between(s, x)
<1>1. ASSUME NEW y \in DOMAIN s.mem, ~IsTail(s, y)
      PROVE  /\ NextOf(s, y) \in DOMAIN s.mem /\ s.mem[NextOf(s, y)].prev = This(s, y)
             /\ NextOf(s, y) = <<y[1], y[2] + This(s, y)>> /\ This(s, y) \in Nat /\ y[2] \in Nat
             /\ y = <<y[1], y[2]>> /\ This(s, y) >= 2 * FINE /\ Between(s, y)
  BY <1>1, Headers, Grains DEF Shape, Chain, NextOf, This
<1>2. ASSUME NEW y \in DOMAIN s.mem, ~IsTail(s, x), ~IsTail(s, y), NextOf(s, x) = NextOf(s, y)
      PROVE  x = y
  <2>1. This(s, x) = This(s, y)
    BY <1>1, <1>2
  <2>2. x[1] = y[1] /\ x[2] + This(s, x) = y[2] + This(s, y)
    BY <1>1, <1>2
  <2>3. x[2] = y[2]
    BY <1>1, <1>2, <2>1, <2>2
  <2> QED BY <1>1, <1>2, <2>2, <2>3
<1>3. ASSUME ~IsHead(x)
      PROVE  FrontOf(s, x) \in DOMAIN s.mem /\ NextOf(s, FrontOf(s, x)) = x
             /\ s.mem[x].prev = This(s, FrontOf(s, x))
  <2> DEFINE p == FrontOf(s, x)
  <2>1. p \in DOMAIN s.mem /\ This(s, p) = s.mem[x].prev
    BY <1>3 DEF Shape, Chain
  <2>2. x = <<x[1], x[2]>> /\ x[2] \in Nat /\ s.mem[x].prev \in Nat
    BY Headers
  <2>3. p = <<x[1], x[2] - s.mem[x].prev>>
    BY DEF FrontOf
  <2> HIDE DEF p
  <2>4. NextOf(s, p) = <<x[1], x[2]>>
    BY <2>1, <2>2, <2>3 DEF NextOf, This
  <2> QED BY <2>1, <2>2, <2>4 DEF p
<1> QED BY <1>1, <1>2, <1>3

\* merge: what changes in the headers.
LEMMA MergeHeaders ==
    ASSUME NEW s, Shape(s), NEW c \in Inner(s), NEW d \in Inner(s), NextOf(s, c) = d,
           ~InUse(s, c), ~InUse(s, d)
    PROVE  LET t == Merge(s, c, d)
               g == NextOf(s, d)
           IN  /\ DOMAIN t = Fields /\ \A f \in Fields \ {"mem"} : t[f] = s[f]
               /\ DOMAIN t.mem = DOMAIN s.mem \ {d}
               /\ g \in DOMAIN s.mem /\ g # c /\ g # d /\ c # d
               /\ \A x \in DOMAIN t.mem :
                    /\ t.mem[x].flags = s.mem[x].flags /\ t.mem[x].bin = s.mem[x].bin
                    /\ DOMAIN t.mem[x] = DOMAIN s.mem[x]
                    /\ x # c => This(t, x) = This(s, x)
                    /\ x # g => t.mem[x].prev = s.mem[x].prev
               /\ This(t, c) = This(s, c) + This(s, d)
               /\ t.mem[g].prev = This(s, c) + This(s, d)
               /\ t.size = s.size
<1> DEFINE t == Merge(s, c, d)
           g == NextOf(s, d)
           this == This(s, c) + This(s, d)
           grown == [s.mem EXCEPT ![c].this = this, ![c].flags = @ \cup s.mem[d].flags,
                                  ![g].prev = this]
<1>1. /\ c \in DOMAIN s.mem /\ d \in DOMAIN s.mem /\ g \in DOMAIN s.mem
      /\ d[2] = c[2] + This(s, c) /\ g[2] = d[2] + This(s, d)
      /\ This(s, c) >= 2 * FINE /\ This(s, d) >= 2 * FINE /\ d[1] = c[1]
  BY InnerChunk
<1>2. c[2] \in Nat /\ This(s, c) \in Nat /\ This(s, d) \in Nat
  BY <1>1, Headers
<1>3. DOMAIN s = Fields /\ \A x \in DOMAIN s.mem :
        DOMAIN s.mem[x] = {"prev", "this", "flags", "bin", "color"}
  BY DEF Shape, Memory, HeaderOK
<1>4. g # c /\ g # d /\ c # d
  BY <1>1, <1>2, Grains
<1>5. s.mem[c].flags \cup s.mem[d].flags = s.mem[c].flags
  <2>1. s.mem[c].flags \ {"USED"} = s.mem[d].flags \ {"USED"}
    BY <1>1 DEF Shape, Chain
  <2> QED BY <2>1 DEF InUse, Has
<1>6. t = [s EXCEPT !.mem = Without(grown, {d})]
  BY DEF Merge
<1> HIDE DEF t, g, this
<1>7. DOMAIN t = Fields /\ t.mem = Without(grown, {d})
      /\ \A f \in Fields \ {"mem"} : t[f] = s[f]
  BY <1>3, <1>6 DEF Fields
<1>8. DOMAIN grown = DOMAIN s.mem
  OBVIOUS
<1>9. /\ grown[c] = [s.mem[c] EXCEPT !.this = this, !.flags = @ \cup s.mem[d].flags]
      /\ grown[g] = [s.mem[g] EXCEPT !.prev = this]
      /\ \A x \in DOMAIN s.mem : x # c /\ x # g => grown[x] = s.mem[x]
  BY <1>1, <1>3, <1>4
<1>10. \A x \in DOMAIN s.mem :
         /\ grown[x].flags = s.mem[x].flags /\ grown[x].bin = s.mem[x].bin
         /\ DOMAIN grown[x] = DOMAIN s.mem[x]
         /\ x # c => grown[x].this = s.mem[x].this
         /\ x # g => grown[x].prev = s.mem[x].prev
  BY <1>1, <1>3, <1>4, <1>5, <1>9
<1>11. grown[c].this = this /\ grown[g].prev = this
  BY <1>1, <1>3, <1>9
<1> HIDE DEF grown
<1>12. DOMAIN t.mem = DOMAIN s.mem \ {d}
       /\ \A x \in DOMAIN t.mem : t.mem[x] = grown[x]
  BY <1>7, <1>8 DEF Without
<1>13. t.size = s.size
  BY <1>7 DEF Fields
<1>14. \A x \in DOMAIN t.mem :
         /\ t.mem[x].flags = s.mem[x].flags /\ t.mem[x].bin = s.mem[x].bin
         /\ DOMAIN t.mem[x] = DOMAIN s.mem[x]
         /\ x # c => This(t, x) = This(s, x)
         /\ x # g => t.mem[x].prev = s.mem[x].prev
  BY <1>10, <1>12 DEF This
<1>15. c \in DOMAIN t.mem /\ g \in DOMAIN t.mem
  BY <1>1, <1>4, <1>12
<1>16. This(t, c) = this /\ t.mem[g].prev = this
  BY <1>11, <1>12, <1>15 DEF This
<1> QED BY <1>1, <1>4, <1>7, <1>12, <1>13, <1>14, <1>16 DEF t, g, this

\* The merged chunk takes the place of the two.
LEMMA MergeShape ==
    ASSUME NEW s, Shape(s), NEW c \in Inner(s), NEW d \in Inner(s), NextOf(s, c) = d,
           ~InUse(s, c), ~InUse(s, d)
    PROVE  LET t == Merge(s, c, d) IN
           /\ Shape(t) /\ Inner(t) = Inner(s) \ {d}
           /\ NextOf(t, c) = NextOf(s, d) /\ FrontOf(t, c) = FrontOf(s, c)
           /\ \A x \in Inner(t) : x # c => NextOf(t, x) = NextOf(s, x)
<1> DEFINE t == Merge(s, c, d)
           g == NextOf(s, d)
           this == This(s, c) + This(s, d)
<1>1. /\ DOMAIN t = Fields /\ \A f \in Fields \ {"mem"} : t[f] = s[f]
      /\ DOMAIN t.mem = DOMAIN s.mem \ {d}
      /\ g \in DOMAIN s.mem /\ g # c /\ g # d /\ c # d
      /\ \A x \in DOMAIN t.mem :
           /\ t.mem[x].flags = s.mem[x].flags /\ t.mem[x].bin = s.mem[x].bin
           /\ DOMAIN t.mem[x] = DOMAIN s.mem[x]
           /\ x # c => This(t, x) = This(s, x)
           /\ x # g => t.mem[x].prev = s.mem[x].prev
      /\ This(t, c) = this /\ t.mem[g].prev = this
      /\ t.size = s.size
  BY MergeHeaders
<1>2. /\ c \in DOMAIN s.mem /\ d \in DOMAIN s.mem
      /\ d[1] = c[1] /\ g[1] = c[1] /\ d[2] = c[2] + This(s, c) /\ g[2] = d[2] + This(s, d)
      /\ Between(s, c) /\ Between(s, d) /\ ~IsHead(g) /\ ~IsHead(d)
      /\ FrontOf(s, d) = c /\ FrontOf(s, g) = d
      /\ This(s, c) >= 2 * FINE /\ This(s, d) >= 2 * FINE
  BY InnerChunk
<1>3. /\ c = <<c[1], c[2]>> /\ c[2] \in Nat /\ This(s, c) \in Nat /\ This(s, d) \in Nat
      /\ g = <<g[1], g[2]>> /\ d = <<d[1], d[2]>>
  BY <1>1, <1>2, Headers
<1>4. this \in Nat /\ this >= 2 * FINE /\ g[2] = c[2] + this /\ this = This(s, c) + This(s, d)
      /\ g = <<c[1], c[2] + this>>
  BY <1>2, <1>3, Grains
<1>5. ~IsTail(s, c) /\ ~IsHead(c) /\ ~IsTail(s, d)
  BY DEF Inner
<1> HIDE DEF t, this
<1>7. /\ t.size = s.size /\ t.used = s.used /\ t.reserve = s.reserve
  BY <1>1 DEF Fields
<1>8. Memory(t)
  <2>1. ASSUME NEW x \in DOMAIN t.mem PROVE HeaderOK(t.mem[x])
    <3>1. HeaderOK(s.mem[x])
      BY <1>1 DEF Shape, Memory
    <3>2. t.mem[x].this \in Nat
      BY <1>1, <1>4, <3>1 DEF HeaderOK, This
    <3>3. t.mem[x].prev \in Nat
      BY <1>1, <1>4, <3>1 DEF HeaderOK
    <3> QED BY <1>1, <3>1, <3>2, <3>3 DEF HeaderOK
  <2> QED BY <1>1, <2>1 DEF Shape, Memory
<1>9. ASSUME NEW b \in ToSet(s.used)
      PROVE  Edges(t, b) /\ BlockHead(b) \in DOMAIN t.mem
  <2> DEFINE h == BlockHead(b)
             x == TailChunk(s, b)
  <2>1. Edges(s, b) /\ h \in DOMAIN s.mem /\ x \in DOMAIN s.mem
        /\ h \notin Inner(s) /\ x \notin Inner(s)
    BY Edge DEF Shape, Blocks
  <2>2. TailChunk(t, b) = x /\ h # c /\ x # c /\ h # d /\ x # d
    BY <1>7, <2>1 DEF TailChunk
  <2> HIDE DEF h, x
  <2>3. /\ h \in DOMAIN t.mem /\ x \in DOMAIN t.mem
        /\ t.mem[h].flags = s.mem[h].flags /\ t.mem[x].flags = s.mem[x].flags
        /\ This(t, h) = This(s, h) /\ This(t, x) = This(s, x)
    BY <1>1, <2>1, <2>2
  <2> QED BY <1>7, <2>1, <2>2, <2>3 DEF Edges, InUse, Has, h, x
<1>10. Blocks(t)
  BY <1>7, <1>9 DEF Blocks, Shape
<1>11. ASSUME NEW x \in DOMAIN t.mem
       PROVE  /\ x[1] \in ToSet(t.used)
              /\ BLOCK_TYPE_SIZE <= x[2] /\ x[2] <= t.size[x[1]] - CHUNK_FREE_SIZE
              /\ t.mem[x].flags \ {"USED"} = t.mem[BlockHead(x[1])].flags \ {"USED"}
  <2>1. /\ x \in DOMAIN s.mem /\ x[1] \in ToSet(s.used)
        /\ BLOCK_TYPE_SIZE <= x[2] /\ x[2] <= s.size[x[1]] - CHUNK_FREE_SIZE
        /\ s.mem[x].flags \ {"USED"} = s.mem[BlockHead(x[1])].flags \ {"USED"}
    BY <1>1 DEF Shape, Chain
  <2>2. BlockHead(x[1]) \in DOMAIN t.mem
    BY <1>9, <2>1
  <2> QED BY <1>1, <1>7, <2>1, <2>2
<1>12. NextOf(t, c) = g
  BY <1>1, <1>4 DEF NextOf, This
<1>13. FrontOf(t, c) = FrontOf(s, c)
  BY <1>1, <1>2 DEF FrontOf
<1>14. \A x \in DOMAIN t.mem : x # c => NextOf(t, x) = NextOf(s, x)
  BY <1>1 DEF NextOf, This
<1>15. \A x \in DOMAIN s.mem : IsTail(t, x) <=> IsTail(s, x)
  BY <1>7 DEF IsTail
<1>16. ASSUME NEW x \in DOMAIN t.mem, ~IsTail(t, x)
       PROVE  /\ NextOf(t, x) \in DOMAIN t.mem /\ t.mem[NextOf(t, x)].prev = This(t, x)
              /\ This(t, x) >= SMALL_LEAST_SIZE /\ Between(t, x)
  <2>1. CASE x = c
    <3>1. Between(t, c)
      <4> SUFFICES ASSUME NEW y \in DOMAIN t.mem, y[1] = c[1]
                   PROVE  y[2] <= c[2] \/ y[2] >= c[2] + this
        BY <1>1 DEF Between
      <4>1. y \in DOMAIN s.mem /\ y # d
        BY <1>1
      <4>2. y = <<y[1], y[2]>> /\ y[2] \in Nat
        BY <4>1, Headers
      <4>3. y[2] <= c[2] \/ y[2] >= c[2] + This(s, c)
        BY <1>2, <4>1 DEF Between
      <4>4. y[2] <= d[2] \/ y[2] >= d[2] + This(s, d)
        BY <1>2, <4>1 DEF Between
      <4>5. y[2] # d[2]
        BY <1>2, <1>3, <4>1, <4>2
      <4> QED BY <1>2, <1>3, <1>4, <4>2, <4>3, <4>4, <4>5
    <3> QED BY <1>1, <1>4, <1>12, <2>1, <3>1, Grains
  <2>2. CASE x # c
    <3>1. x \in DOMAIN s.mem /\ x # d /\ ~IsTail(s, x)
      BY <1>1, <1>15, <1>16
    <3>2. /\ NextOf(s, x) \in DOMAIN s.mem /\ s.mem[NextOf(s, x)].prev = This(s, x)
          /\ This(s, x) >= 2 * FINE /\ Between(s, x)
      BY <3>1, Linked
    <3>3. NextOf(s, x) # d
      BY <1>2, <1>5, <2>2, <3>1, Linked
    <3>4. NextOf(s, x) # g
      BY <1>2, <1>5, <3>1, Linked
    <3>5. NextOf(t, x) = NextOf(s, x) /\ This(t, x) = This(s, x)
      BY <1>1, <1>14, <2>2
    <3>6. Between(t, x)
      BY <1>1, <3>2, <3>5 DEF Between
    <3> QED BY <1>1, <3>2, <3>3, <3>4, <3>5, <3>6, Grains
  <2> QED BY <2>1, <2>2
<1>17. ASSUME NEW x \in DOMAIN t.mem, ~IsHead(x)
       PROVE  FrontOf(t, x) \in DOMAIN t.mem /\ This(t, FrontOf(t, x)) = t.mem[x].prev
  <2>1. CASE x = g
    <3>1. FrontOf(t, g) = c
      BY <1>1, <1>3, <1>4 DEF FrontOf
    <3> QED BY <1>1, <1>2, <2>1, <3>1
  <2>2. CASE x # g
    <3>1. x \in DOMAIN s.mem /\ x # d
      BY <1>1
    <3>2. FrontOf(s, x) \in DOMAIN s.mem /\ s.mem[x].prev = This(s, FrontOf(s, x))
          /\ NextOf(s, FrontOf(s, x)) = x
      BY <1>17, <3>1, Linked
    <3>3. FrontOf(s, x) # d /\ FrontOf(s, x) # c
      BY <2>2, <3>1, <3>2
    <3>4. FrontOf(t, x) = FrontOf(s, x) /\ t.mem[x].prev = s.mem[x].prev
      BY <1>1, <2>2 DEF FrontOf
    <3> QED BY <1>1, <3>2, <3>3, <3>4
  <2> QED BY <2>1, <2>2
<1>18. Chain(t)
  BY <1>11, <1>16, <1>17 DEF Chain
<1>19. Inner(t) = Inner(s) \ {d}
  BY <1>1, <1>15 DEF Inner
<1> QED BY <1>8, <1>10, <1>12, <1>13, <1>14, <1>18, <1>19 DEF Shape, Inner, t

\* merge: one free chunk takes the place of two neighbours.
LEMMA Merged ==
    ASSUME NEW s, NEW loose, NEW open, NEW own, Heap(s, loose, open, own),
           NEW c \in Inner(s), NEW d \in loose, NextOf(s, c) = d, ~InUse(s, c),
           c \in loose \/ \E l \in Levels : c = s.dv[l],
           Has(s, c, "DIRECT") => Has(s, c, "SLOT")
    PROVE  LET t == Merge(s, c, d) IN
           /\ Heap(t, loose \ {d}, (open \ {c, d}) \cup (IF d \in open THEN {c} ELSE {}), own)
           /\ Kept(s, t) /\ SameLists(s, t) /\ t.slot = s.slot
           /\ c \in Inner(t) /\ c # d /\ NextOf(t, c) = NextOf(s, d) /\ DOMAIN t.mem \subseteq DOMAIN s.mem
           /\ NextOf(s, d) \in DOMAIN t.mem
           /\ \A x \in DOMAIN t.mem : \A f \in Flags : Has(t, x, f) <=> Has(s, x, f)
<1> DEFINE t == Merge(s, c, d)
           g == NextOf(s, d)
           out == loose \ {d}
           rest == (open \ {c, d}) \cup (IF d \in open THEN {c} ELSE {})
<1>0. Shape(s) /\ c \in DOMAIN s.mem /\ d \in Inner(s) /\ ~InUse(s, d) /\ d \in DOMAIN s.mem
  BY LooseMember DEF Heap, Inner
<1>1. /\ DOMAIN t = Fields /\ \A f \in Fields \ {"mem"} : t[f] = s[f]
      /\ DOMAIN t.mem = DOMAIN s.mem \ {d}
      /\ g \in DOMAIN s.mem /\ g # c /\ g # d /\ c # d
      /\ \A x \in DOMAIN t.mem :
           /\ t.mem[x].flags = s.mem[x].flags /\ t.mem[x].bin = s.mem[x].bin
           /\ x # c => This(t, x) = This(s, x)
      /\ This(t, c) = This(s, c) + This(s, d)
      /\ t.size = s.size
  BY <1>0, MergeHeaders
<1>2. /\ Shape(t) /\ Inner(t) = Inner(s) \ {d} /\ NextOf(t, c) = g
      /\ \A x \in Inner(t) : x # c => NextOf(t, x) = NextOf(s, x)
  BY <1>0, MergeShape
<1>3. This(s, c) \in Nat /\ This(s, d) \in Nat
  BY <1>0, Headers
<1>4. \A x \in Inner(s) : NextOf(s, x) = d => x = c
  BY <1>0, Linked DEF Inner
<1> HIDE DEF t, g, out, rest
<1>5. /\ SameLists(s, t) /\ t.slot = s.slot
      /\ t.inited = s.inited /\ t.panicked = s.panicked /\ t.errors = s.errors
  BY <1>1 DEF SameLists, Fields
<1>7. \A x \in DOMAIN t.mem : \A f \in Flags : Has(t, x, f) <=> Has(s, x, f)
  BY <1>1 DEF Has
<1>8. SlotSizes(t)
  BY <1>5 DEF Heap, SlotSizes
<1>9. Inner(s) \subseteq DOMAIN s.mem /\ Inner(t) \subseteq DOMAIN t.mem
  BY DEF Inner
<1>10. Room(t, own)
  <2> SUFFICES ASSUME NEW x \in Inner(t)
        PROVE  /\ Has(t, x, "BIG") /\ ~Has(t, x, "SLOT") => This(t, x) >= BIG_LEAST_SIZE
               /\ Has(t, x, "DIRECT") /\ ~Has(t, x, "SLOT") => Fills(t, x)
               /\ Has(t, x, "SLOT") => OfSlot(t, x, own[x[1]])
    BY DEF Room
  <2>1. /\ \A f \in Flags : Has(t, x, f) <=> Has(s, x, f)
        /\ t.mem[x].bin = s.mem[x].bin /\ x \in Inner(s)
    BY <1>1, <1>2, <1>7, <1>9
  <2>2. This(t, x) \in Nat /\ This(s, x) \in Nat /\ This(t, x) >= This(s, x)
        /\ (x # c => This(t, x) = This(s, x))
    <3>1. x \in DOMAIN t.mem
      BY <1>9
    <3>2. x \in DOMAIN s.mem
      BY <1>1, <3>1
    <3>3. This(s, x) \in Nat
      BY <1>0, <3>2, Headers
    <3> QED BY <1>1, <1>3, <3>1, <3>3
  <2>3. Has(t, x, "BIG") /\ ~Has(t, x, "SLOT") => This(t, x) >= BIG_LEAST_SIZE
    BY <2>1, <2>2, Grains DEF Heap, Room, Flags
  <2>4. Has(t, x, "DIRECT") /\ ~Has(t, x, "SLOT") => Fills(t, x)
    <3>1. Has(t, x, "DIRECT") /\ ~Has(t, x, "SLOT") => x # c /\ Fills(s, x)
      BY <2>1 DEF Heap, Room, Flags
    <3> QED BY <1>1, <2>2, <3>1 DEF Fills
  <2>5. ASSUME Has(t, x, "SLOT") PROVE OfSlot(t, x, own[x[1]])
    <3>1. OfSlot(s, x, own[x[1]])
      BY <2>1, <2>5 DEF Heap, Room, Flags
    <3>2. s.slot[own[x[1]]].user \in Nat
      BY <3>1 DEF OfSlot, Heap, SlotSizes
    <3>3. This(t, x) >= s.slot[own[x[1]]].user + CHUNK_PADDING_SIZE
      BY <2>2, <3>1, <3>2, Grains DEF OfSlot
    <3> QED BY <1>1, <1>5, <2>1, <3>1, <3>3 DEF OfSlot, Flags, InUse
  <2> QED BY <2>3, <2>4, <2>5
<1>11. Object(t) /\ Binned(t, out) /\ DvSound(t, out) /\ SlotListed(t, out, own)
  <2>1. \A i \in SlotIds : t.slot[i].user = s.slot[i].user /\ t.slot[i].max = s.slot[i].max
    BY <1>5
  <2>2. \A x \in Inner(s) : InUse(s, x) \/ x \in loose \/
              /\ x \in Inner(t) /\ t.mem[x].flags = s.mem[x].flags /\ x \notin out
              /\ own[x[1]] = own[x[1]]
              /\ (\E l \in Levels : x = s.dv[l]) \/ (This(t, x) = This(s, x)
                                                     /\ t.mem[x].bin = s.mem[x].bin)
    BY <1>1, <1>2, <1>9 DEF out
  <2> QED BY <1>5, <1>8, <2>1, <2>2, ListsKept
<1>12. \A x \in Inner(t) : InUse(t, x) <=> InUse(s, x)
  BY <1>7, <1>9 DEF Flags, InUse
<1>14. Found(t, out)
  <2>1. \A x \in out : Free(t, x)
    BY <1>2, <1>12 DEF out, Heap, Lists, Found, Free
  <2>2. ASSUME NEW x \in Inner(t), ~InUse(t, x), x \notin out
        PROVE  \/ \E k \in Levels : x = t.dv[k]
               \/ \E k \in Levels, a \in Bins : x \in ToSet(t.bin[k][a])
               \/ \E i \in SlotIds : x \in ToSet(t.slot_bin[i])
    <3>1. ~InUse(s, x) /\ x \notin loose /\ x \in Inner(s)
      BY <1>2, <1>12, <2>2 DEF out
    <3> QED BY <1>5, <3>1 DEF Heap, Lists, Found, SameLists
  <2> QED BY <2>1, <2>2 DEF Found
<1>15. Apart(t, rest)
  <2>1. ASSUME NEW x \in Inner(t), x # c, ~InUse(t, x), ~InUse(t, NextOf(t, x)) PROVE x \in rest
    <3>1. NextOf(t, x) = NextOf(s, x) /\ NextOf(s, x) \in DOMAIN s.mem /\ x \in Inner(s) /\ x # d
      BY <1>0, <1>2, <2>1, InnerChunk
    <3>2. NextOf(s, x) # d
      BY <1>4, <2>1, <3>1
    <3>3. ~InUse(s, x) /\ ~InUse(s, NextOf(s, x))
      BY <1>1, <1>7, <1>12, <2>1, <3>1, <3>2 DEF InUse, Flags
    <3> QED BY <2>1, <3>1, <3>3 DEF Heap, Apart, rest
  <2>2. ASSUME ~InUse(t, NextOf(t, c)) PROVE c \in rest
    <3>1. ~InUse(s, g)
      BY <1>1, <1>2, <1>7, <2>2 DEF InUse, Flags
    <3>2. d \in open
      BY <1>0, <3>1 DEF Heap, Apart, g
    <3> QED BY <3>2 DEF rest
  <2> QED BY <2>1, <2>2 DEF Apart
<1>16. UsedBy(t) = UsedBy(s) /\ \A x \in UsedBy(s) : This(t, x) = This(s, x)
  BY <1>0, <1>1, <1>2, <1>9, <1>12 DEF UsedBy
<1>17. Kept(s, t)
  BY <1>5, <1>16 DEF Kept
<1> QED BY <1>1, <1>2, <1>5, <1>7, <1>8, <1>10, <1>11, <1>14, <1>15, <1>17
        DEF Heap, Lists, t, g, out, rest

-----------------------------------------------------------------------------
(* Steps that add and remove blocks *)

\* free_block: a block with no chunk in use leaves the heap.
LEMMA BlockFreed ==
    ASSUME NEW s, NEW loose, NEW open, NEW own, Heap(s, loose, open, own),
           NEW c \in loose, \A d \in Inner(s) : d[1] = c[1] => d = c,
           \A x \in open : x[1] = c[1]
    PROVE  LET t == FreeBlock(s, c[1]) IN
           Heap(t, loose \ {c}, {}, own) /\ Kept(s, t) /\ SameLists(s, t)
<1> DEFINE b == c[1]
           t == FreeBlock(s, b)
           keep == ~Has(s, FirstChunk(b), "DIRECT") /\ Len(s.reserve) < MaxReserve
           out == loose \ {c}
<1>0. /\ Shape(s) /\ c \in DOMAIN s.mem /\ c \in Inner(s) /\ ~InUse(s, c)
      /\ b \in ToSet(s.used) /\ b \in BlockIds
  <2>1. Shape(s) /\ c \in DOMAIN s.mem /\ c \in Inner(s) /\ ~InUse(s, c)
    BY LooseMember DEF Heap
  <2> QED BY <2>1, Headers
<1>1. DOMAIN s = Fields
  BY <1>0 DEF Shape, Memory
<1>2. /\ DOMAIN t = Fields /\ SameLists(s, t) /\ t.slot = s.slot
      /\ t.inited = s.inited /\ t.panicked = s.panicked /\ t.errors = s.errors
      /\ t.used = Unlink(s.used, b)
      /\ t.reserve = (IF keep THEN <<b>> \o s.reserve ELSE s.reserve)
      /\ t.size = (IF keep THEN s.size ELSE Without(s.size, {b}))
      /\ t.mem = Forget(s.mem, b)
  BY <1>1 DEF FreeBlock, Fields, SameLists
<1>3. /\ s.used \in Seq(BlockIds) /\ s.reserve \in Seq(BlockIds)
      /\ IsInjective(s.used) /\ IsInjective(s.reserve)
      /\ ToSet(s.used) \cap ToSet(s.reserve) = {}
      /\ DOMAIN s.size = ToSet(s.used) \cup ToSet(s.reserve)
      /\ \A x \in DOMAIN s.size : s.size[x] \in Nat /\ s.size[x] % FINE = 0
      /\ \A x \in ToSet(s.reserve) : s.size[x] = DEFAULT_BLOCK_SIZE
      /\ \A x \in ToSet(s.used) : Edges(s, x)
      /\ Len(s.reserve) <= MaxReserve /\ MaxReserve \in Nat
  BY <1>0, ZMallocAssumption DEF Shape, Blocks
<1>k. keep => Len(s.reserve) < MaxReserve
  OBVIOUS
<1>4. keep => s.size[b] = DEFAULT_BLOCK_SIZE
  <2>1. FirstChunk(b) \in DOMAIN s.mem /\ FirstChunk(b)[1] = b
    BY <1>0, First DEF Inner
  <2> QED BY <1>0, <2>1, Kind
<1> HIDE DEF t, keep, out, b
<1>5. t.used \in Seq(BlockIds) /\ IsInjective(t.used) /\ ToSet(t.used) = ToSet(s.used) \ {b}
  BY <1>2, <1>3, Unlinked
<1>6. /\ t.reserve \in Seq(BlockIds) /\ IsInjective(t.reserve)
      /\ ToSet(t.reserve) = ToSet(s.reserve) \cup (IF keep THEN {b} ELSE {})
      /\ Len(t.reserve) <= MaxReserve
  <2>1. CASE keep
    <3>1. t.reserve = <<b>> \o s.reserve /\ b \notin ToSet(s.reserve)
      BY <1>0, <1>2, <1>3, <2>1
    <3>2. Len(t.reserve) = Len(s.reserve) + 1 /\ Len(s.reserve) \in Nat
      BY <1>0, <1>3, <3>1
    <3>3. Len(t.reserve) <= MaxReserve
      BY <1>3, <1>k, <2>1, <3>2
    <3> QED BY <1>0, <1>3, <2>1, <3>1, <3>3, Consed
  <2>2. CASE ~keep
    BY <1>2, <1>3, <2>2
  <2> QED BY <2>1, <2>2
<1>7. /\ DOMAIN t.size = ToSet(t.used) \cup ToSet(t.reserve)
      /\ \A x \in DOMAIN t.size : t.size[x] = s.size[x] /\ x \in DOMAIN s.size
  <2>1. CASE keep
    BY <1>0, <1>2, <1>3, <1>5, <1>6, <2>1
  <2>2. CASE ~keep
    BY <1>0, <1>2, <1>3, <1>5, <1>6, <2>2 DEF Without
  <2> QED BY <2>1, <2>2
<1>8. /\ DOMAIN t.mem = {x \in DOMAIN s.mem : x[1] # b}
      /\ \A x \in DOMAIN t.mem : t.mem[x] = s.mem[x]
  BY <1>2 DEF Forget
<1>9. ASSUME NEW x \in DOMAIN t.mem
      PROVE  /\ x \in DOMAIN s.mem /\ x[1] # b /\ x[1] \in ToSet(s.used) /\ x[1] \in ToSet(t.used)
             /\ t.size[x[1]] = s.size[x[1]]
             /\ This(t, x) = This(s, x) /\ NextOf(t, x) = NextOf(s, x)
             /\ FrontOf(t, x) = FrontOf(s, x)
             /\ (IsTail(t, x) <=> IsTail(s, x))
             /\ \A f \in Flags : Has(t, x, f) <=> Has(s, x, f)
  <2>1. x \in DOMAIN s.mem /\ x[1] # b /\ t.mem[x] = s.mem[x]
    BY <1>8
  <2>2. x[1] \in ToSet(s.used)
    BY <1>0, <2>1, Headers
  <2>3. t.size[x[1]] = s.size[x[1]] /\ x[1] \in ToSet(t.used)
    BY <1>5, <1>7, <2>1, <2>2
  <2> QED BY <2>1, <2>2, <2>3 DEF This, NextOf, FrontOf, IsTail, Has
<1>10. Memory(t)
  BY <1>0, <1>2, <1>8 DEF Shape, Memory
<1>11. ASSUME NEW x \in ToSet(t.used) PROVE Edges(t, x) /\ BlockHead(x) \in DOMAIN t.mem
  <2> DEFINE h == BlockHead(x)
             e == TailChunk(s, x)
  <2>1. Edges(s, x) /\ h \in DOMAIN s.mem /\ e \in DOMAIN s.mem /\ x # b /\ x \in DOMAIN t.size
    BY <1>3, <1>5, <1>7 DEF Edges
  <2>2. h[1] = x /\ e[1] = x
    BY DEF BlockHead, TailChunk
  <2>3. TailChunk(t, x) = e
    BY <1>7, <2>1 DEF TailChunk
  <2> HIDE DEF h, e
  <2>4. h \in DOMAIN t.mem /\ e \in DOMAIN t.mem
    BY <1>8, <2>1, <2>2
  <2> QED BY <1>7, <1>8, <2>1, <2>3, <2>4 DEF Edges, InUse, Has, This, h, e
<1>12. Blocks(t)
  <2>1. ToSet(t.used) \cap ToSet(t.reserve) = {}
    BY <1>3, <1>5, <1>6
  <2>2. \A x \in DOMAIN t.size : t.size[x] \in Nat /\ t.size[x] % FINE = 0
    BY <1>3, <1>7
  <2>3. \A x \in ToSet(t.reserve) : t.size[x] = DEFAULT_BLOCK_SIZE
    BY <1>3, <1>4, <1>6, <1>7
  <2> QED BY <1>5, <1>6, <1>7, <1>11, <2>1, <2>2, <2>3 DEF Blocks
<1>13. Chain(t)
  <2> SUFFICES ASSUME NEW x \in DOMAIN t.mem
      PROVE /\ x[1] \in ToSet(t.used)
            /\ BLOCK_TYPE_SIZE <= x[2] /\ x[2] <= t.size[x[1]] - CHUNK_FREE_SIZE
            /\ t.mem[x].flags \ {"USED"} = t.mem[BlockHead(x[1])].flags \ {"USED"}
            /\ IsTail(t, x) \/ /\ NextOf(t, x) \in DOMAIN t.mem
                               /\ t.mem[NextOf(t, x)].prev = This(t, x)
                               /\ This(t, x) >= SMALL_LEAST_SIZE
                               /\ Between(t, x)
            /\ IsHead(x) \/ /\ FrontOf(t, x) \in DOMAIN t.mem
                            /\ This(t, FrontOf(t, x)) = t.mem[x].prev
    BY DEF Chain
  <2>1. /\ x[1] \in ToSet(s.used)
        /\ BLOCK_TYPE_SIZE <= x[2] /\ x[2] <= s.size[x[1]] - CHUNK_FREE_SIZE
        /\ s.mem[x].flags \ {"USED"} = s.mem[BlockHead(x[1])].flags \ {"USED"}
        /\ IsTail(s, x) \/ /\ NextOf(s, x) \in DOMAIN s.mem
                           /\ s.mem[NextOf(s, x)].prev = This(s, x)
                           /\ This(s, x) >= SMALL_LEAST_SIZE
                           /\ Between(s, x)
        /\ IsHead(x) \/ /\ FrontOf(s, x) \in DOMAIN s.mem
                        /\ This(s, FrontOf(s, x)) = s.mem[x].prev
    BY <1>0, <1>9 DEF Shape, Chain
  <2>2. NextOf(s, x)[1] = x[1] /\ FrontOf(s, x)[1] = x[1]
    BY DEF NextOf, FrontOf
  <2>3. IsTail(s, x) \/ NextOf(s, x) \in DOMAIN t.mem
    BY <1>8, <1>9, <2>1, <2>2
  <2>4. IsHead(x) \/ FrontOf(s, x) \in DOMAIN t.mem
    BY <1>8, <1>9, <2>1, <2>2
  <2>5. BlockHead(x[1]) \in DOMAIN t.mem
    BY <1>9, <1>11
  <2>6. Between(s, x) => Between(t, x)
    BY <1>8, <1>9 DEF Between
  <2> QED BY <1>8, <1>9, <2>1, <2>3, <2>4, <2>5, <2>6
<1>14. Inner(t) = {x \in Inner(s) : x[1] # b}
  BY <1>8, <1>9 DEF Inner
<1>15. Inner(t) = Inner(s) \ {c}
  BY <1>0, <1>14 DEF b
<1>16. Inner(t) \subseteq DOMAIN t.mem
  BY DEF Inner
<1>17. SlotSizes(t)
  BY <1>2 DEF Heap, SlotSizes
<1>18. Room(t, own)
  <2> SUFFICES ASSUME NEW x \in Inner(t)
        PROVE  /\ Has(t, x, "BIG") /\ ~Has(t, x, "SLOT") => This(t, x) >= BIG_LEAST_SIZE
               /\ Has(t, x, "DIRECT") /\ ~Has(t, x, "SLOT") => Fills(t, x)
               /\ Has(t, x, "SLOT") => OfSlot(t, x, own[x[1]])
    BY DEF Room
  <2>1. x \in Inner(s) /\ x \in DOMAIN t.mem
    BY <1>15, <1>16
  <2> QED BY <1>2, <1>8, <1>9, <2>1 DEF Heap, Room, Fills, OfSlot, Flags, InUse
<1>19. Object(t) /\ Binned(t, out) /\ DvSound(t, out) /\ SlotListed(t, out, own)
  <2>1. \A i \in SlotIds : t.slot[i].user = s.slot[i].user /\ t.slot[i].max = s.slot[i].max
    BY <1>2
  <2>2. \A x \in Inner(s) : InUse(s, x) \/ x \in loose \/
              /\ x \in Inner(t) /\ t.mem[x].flags = s.mem[x].flags /\ x \notin out
              /\ own[x[1]] = own[x[1]]
              /\ (\E l \in Levels : x = s.dv[l]) \/ (This(t, x) = This(s, x)
                                                     /\ t.mem[x].bin = s.mem[x].bin)
    BY <1>8, <1>9, <1>15, <1>16 DEF out
  <2>3. SameLists(s, t) /\ Heap(s, loose, open, own)
    BY <1>2
  <2> HIDE DEF out
  <2> QED BY <1>17, <2>1, <2>2, <2>3, ListsKept
<1>20. \A x \in Inner(t) : InUse(t, x) <=> InUse(s, x)
  BY <1>9, <1>16 DEF Flags, InUse
<1>21. Found(t, out)
  <2>1. \A x \in out : Free(t, x)
    BY <1>15, <1>20 DEF out, Heap, Lists, Found, Free
  <2>2. ASSUME NEW x \in Inner(t), ~InUse(t, x), x \notin out
        PROVE  \/ \E k \in Levels : x = t.dv[k]
               \/ \E k \in Levels, a \in Bins : x \in ToSet(t.bin[k][a])
               \/ \E i \in SlotIds : x \in ToSet(t.slot_bin[i])
    <3>1. ~InUse(s, x) /\ x \notin loose /\ x \in Inner(s)
      BY <1>15, <1>20, <2>2 DEF out
    <3> QED BY <1>2, <3>1 DEF Heap, Lists, Found, SameLists
  <2> QED BY <2>1, <2>2 DEF Found
<1>22. Apart(t, {})
  <2> SUFFICES ASSUME NEW x \in Inner(t), ~InUse(t, x) PROVE InUse(t, NextOf(t, x))
    BY DEF Apart
  <2>1. /\ NextOf(t, x) = NextOf(s, x) /\ NextOf(s, x) \in DOMAIN s.mem /\ x \in Inner(s)
        /\ NextOf(s, x)[1] = x[1] /\ x[1] # b /\ ~InUse(s, x)
    BY <1>0, <1>9, <1>15, <1>16, <1>20, InnerChunk
  <2>2. x \notin open
    BY <2>1 DEF b
  <2>3. InUse(s, NextOf(s, x))
    BY <2>1, <2>2 DEF Heap, Apart
  <2>4. NextOf(s, x) \in DOMAIN t.mem
    BY <1>8, <2>1
  <2> QED BY <1>9, <2>1, <2>3, <2>4 DEF InUse, Flags
<1>23. UsedBy(t) = UsedBy(s) /\ \A x \in UsedBy(s) : This(t, x) = This(s, x)
  <2>1. UsedBy(t) = UsedBy(s)
    BY <1>0, <1>15, <1>20 DEF UsedBy
  <2>2. \A x \in UsedBy(t) : This(t, x) = This(s, x)
    BY <1>9, <1>16 DEF UsedBy
  <2> QED BY <2>1, <2>2
<1>24. Kept(s, t)
  BY <1>2, <1>23 DEF Kept
<1>25. Shape(t)
  BY <1>10, <1>12, <1>13 DEF Shape
<1> QED BY <1>2, <1>17, <1>18, <1>19, <1>21, <1>22, <1>24, <1>25 DEF Heap, Lists, t, out, b

\* alloc_block: what its caller knows of the block it adds to the heap.
BlockFits(s, n, flags, id) ==
    /\ n \in Nat /\ n >= 8 * FINE /\ n % FINE = 0
    /\ "USED" \notin flags /\ flags \cup {"USED"} \in Kinds
    /\ "DIRECT" \notin flags => n = DEFAULT_BLOCK_SIZE
    /\ "BIG" \in flags /\ "SLOT" \notin flags => n >= BIG_LEAST_SIZE + BlockOverhead
    /\ "SLOT" \in flags => /\ id \in SlotIds /\ s.slot[id].user > 0
                           /\ n = s.slot[id].max + BlockOverhead
                           /\ s.slot[id].max >= s.slot[id].user + CHUNK_PADDING_SIZE

AddedTo(s, t, b, n, flags, from) ==
    /\ DOMAIN t = Fields /\ \A f \in Fields \ {"mem", "size", "used", "reserve"} : t[f] = s[f]
    /\ t.used = <<b>> \o s.used /\ t.size = Put(s.size, b, n) /\ t.reserve = from
    /\ Len(from) <= Len(s.reserve)
    /\ DOMAIN t.mem = DOMAIN s.mem \cup {BlockHead(b), FirstChunk(b), <<b, n - CHUNK_FREE_SIZE>>}
    /\ t.mem[BlockHead(b)] = Header(0, CHUNK_FREE_SIZE, flags \cup {"USED"})
    /\ t.mem[FirstChunk(b)] = Header(CHUNK_FREE_SIZE, n - BlockOverhead, flags)
    /\ t.mem[<<b, n - CHUNK_FREE_SIZE>>]
         = Header(n - BlockOverhead, CHUNK_FREE_SIZE, flags \cup {"USED"})
    /\ \A c \in DOMAIN s.mem : c[1] # b => t.mem[c] = s.mem[c]

\* alloc_block takes a block of reserve_block_list_, or a new one, or has none.
LEMMA BlockTaken ==
    ASSUME NEW s, Shape(s), NEW bytes, NEW flags, NEW id, NEW n, n = BlockBytes(bytes, flags),
           BlockFits(s, n, flags, id)
    PROVE  LET r == AllocBlock(s, bytes, flags) IN
           \/ r.c = NULL /\ r.s = s
           \/ \E b \in BlockIds, from \in Seq(BlockIds) :
                /\ r.c = FirstChunk(b) /\ b \notin ToSet(s.used)
                /\ IsInjective(from) /\ ToSet(from) = ToSet(s.reserve) \ {b}
                /\ AddedTo(s, r.s, b, n, flags, from)
<1> DEFINE r == AllocBlock(s, bytes, flags)
           cached == "DIRECT" \notin flags /\ s.reserve # <<>>
           b == IF cached THEN Head(s.reserve) ELSE Min(SysBlocks(s))
           from == IF cached THEN Tail(s.reserve) ELSE s.reserve
           h == BlockHead(b)
           f == FirstChunk(b)
           e == <<b, n - CHUNK_FREE_SIZE>>
           edge == flags \cup {"USED"}
           this == n - BlockOverhead
           head == Put(s.mem, h, Header(0, CHUNK_FREE_SIZE, edge))
           ends == Put(head, e, Header(this, CHUNK_FREE_SIZE, edge))
<1>1. CASE ~cached /\ SysBlocks(s) = {}
  BY <1>1 DEF AllocBlock
<1>2. CASE cached \/ SysBlocks(s) # {}
  <2>1. /\ r.c = f
        /\ r.s = [s EXCEPT !.reserve = from, !.used = <<b>> \o @, !.size = Put(@, b, n),
                           !.mem = Put(ends, f, Header(CHUNK_FREE_SIZE, this, flags))]
    BY <1>2 DEF AllocBlock
  <2>2. DOMAIN s = Fields
    BY DEF Shape, Memory
  <2>3. /\ s.reserve \in Seq(BlockIds) /\ IsInjective(s.reserve)
        /\ ToSet(s.used) \cap ToSet(s.reserve) = {}
    BY DEF Shape, Blocks
  <2>4. /\ b \in BlockIds /\ b \notin ToSet(s.used) /\ from \in Seq(BlockIds)
        /\ IsInjective(from) /\ ToSet(from) = ToSet(s.reserve) \ {b}
        /\ Len(from) <= Len(s.reserve)
    <3>1. CASE cached
      <4>1. /\ Tail(s.reserve) \in Seq(BlockIds) /\ Head(s.reserve) \in BlockIds
            /\ Head(s.reserve) \in ToSet(s.reserve)
            /\ IsInjective(Tail(s.reserve))
            /\ ToSet(Tail(s.reserve)) = ToSet(s.reserve) \ {Head(s.reserve)}
        BY <2>3, <3>1, Tailed
      <4>2. Len(Tail(s.reserve)) <= Len(s.reserve)
        BY <2>3, <3>1
      <4> QED BY <2>3, <3>1, <4>1, <4>2
    <3>2. CASE ~cached
      <4>1. SysBlocks(s) \subseteq Nat /\ SysBlocks(s) # {}
        BY <1>2, <3>2 DEF SysBlocks, BlockIds
      <4>2. Min(SysBlocks(s)) \in SysBlocks(s)
        BY <4>1, MinOf
      <4>3. Len(from) <= Len(s.reserve)
        <5>1. Len(s.reserve) \in Nat /\ from = s.reserve
          BY <2>3, <3>2
        <5> HIDE DEF from
        <5> QED BY <5>1
      <4>4. /\ b \in BlockIds /\ b \notin ToSet(s.used) /\ from \in Seq(BlockIds)
            /\ IsInjective(from) /\ ToSet(from) = ToSet(s.reserve) \ {b}
        BY <2>3, <3>2, <4>2 DEF SysBlocks
      <4> HIDE DEF from, b
      <4> QED BY <4>3, <4>4
    <3> QED BY <3>1, <3>2
  <2>5. h # f /\ h # e /\ f # e /\ h[1] = b /\ f[1] = b /\ e[1] = b
    BY Grains DEF BlockFits, BlockHead, FirstChunk
  <2> HIDE DEF r, cached, b, from, h, f, e, edge, this
  <2>6. /\ DOMAIN r.s = Fields
        /\ \A x \in Fields \ {"mem", "size", "used", "reserve"} : r.s[x] = s[x]
        /\ r.s.used = <<b>> \o s.used /\ r.s.size = Put(s.size, b, n) /\ r.s.reserve = from
        /\ r.s.mem = Put(ends, f, Header(CHUNK_FREE_SIZE, this, flags))
    BY <2>1, <2>2 DEF Fields
  <2> DEFINE m == Put(ends, f, Header(CHUNK_FREE_SIZE, this, flags))
  <2>7. /\ DOMAIN m = DOMAIN s.mem \cup {h, f, e}
        /\ m[h] = Header(0, CHUNK_FREE_SIZE, edge)
        /\ m[f] = Header(CHUNK_FREE_SIZE, this, flags)
        /\ m[e] = Header(this, CHUNK_FREE_SIZE, edge)
        /\ \A c \in DOMAIN s.mem : c # h /\ c # f /\ c # e => m[c] = s.mem[c]
    BY <2>5 DEF Put
  <2>8. AddedTo(s, r.s, b, n, flags, from)
    <3> HIDE DEF m
    <3>1. \A c \in DOMAIN s.mem : c[1] # b => r.s.mem[c] = s.mem[c]
      BY <2>5, <2>6, <2>7 DEF m
    <3>2. r.s.mem = m
      BY <2>6 DEF m
    <3> QED BY <2>4, <2>6, <2>7, <3>1, <3>2 DEF AddedTo, h, f, e, edge, this
  <2>9. r.c = FirstChunk(b)
    BY <2>1 DEF f
  <2> QED BY <2>4, <2>8, <2>9 DEF r
<1> QED BY <1>1, <1>2 DEF SysBlocks

\* The headers of the block that was added.
LEMMA AddedHeaders ==
    ASSUME NEW s, Shape(s), NEW t, NEW b \in BlockIds, NEW from \in Seq(BlockIds),
           NEW flags, NEW id, NEW n, BlockFits(s, n, flags, id),
           b \notin ToSet(s.used), AddedTo(s, t, b, n, flags, from)
    PROVE  LET h == <<b, 2 * FINE>>
               f == <<b, 4 * FINE>>
               e == <<b, n - 2 * FINE>>
           IN  /\ h = BlockHead(b) /\ f = FirstChunk(b) /\ e = TailChunk(t, b)
               /\ h # f /\ h # e /\ f # e
               /\ DOMAIN t.mem = DOMAIN s.mem \cup {h, f, e} /\ t.size[b] = n
               /\ \A x \in DOMAIN s.mem : x[1] # b /\ x[1] \in ToSet(s.used)
                    /\ t.mem[x] = s.mem[x] /\ t.size[x[1]] = s.size[x[1]]
               /\ t.mem[h] = Header(0, 2 * FINE, flags \cup {"USED"})
               /\ t.mem[f] = Header(2 * FINE, n - 6 * FINE, flags)
               /\ t.mem[e] = Header(n - 6 * FINE, 2 * FINE, flags \cup {"USED"})
               /\ NextOf(t, h) = f /\ FrontOf(t, f) = h /\ NextOf(t, f) = e /\ FrontOf(t, e) = f
               /\ IsHead(h) /\ ~IsHead(f) /\ ~IsHead(e)
               /\ ~IsTail(t, h) /\ ~IsTail(t, f) /\ IsTail(t, e)
               /\ {h, f, e} \cap DOMAIN s.mem = {}
<1> DEFINE h == <<b, 2 * FINE>>
           f == <<b, 4 * FINE>>
           e == <<b, n - 2 * FINE>>
<1>1. FINE \in Nat /\ FINE >= 1 /\ n \in Nat /\ n >= 8 * FINE /\ b \in Nat
  BY Grains DEF BlockFits, BlockIds
<1>2. h = BlockHead(b) /\ f = FirstChunk(b) /\ e = <<b, n - CHUNK_FREE_SIZE>>
  BY <1>1, Grains DEF BlockHead, FirstChunk
<1>3. t.size[b] = n /\ \A x \in DOMAIN s.size \ {b} : t.size[x] = s.size[x]
  BY DEF AddedTo, Put
<1>4. e = TailChunk(t, b)
  BY <1>2, <1>3 DEF TailChunk
<1>5. h # f /\ h # e /\ f # e
  BY <1>1
<1>6. h[1] = b /\ f[1] = b /\ e[1] = b /\ h[2] = 2 * FINE /\ f[2] = 4 * FINE /\ e[2] = n - 2 * FINE
  BY <1>1
<1> HIDE DEF h, f, e
<1>7. /\ DOMAIN t.mem = DOMAIN s.mem \cup {h, f, e}
      /\ t.mem[h] = Header(0, 2 * FINE, flags \cup {"USED"})
      /\ t.mem[f] = Header(2 * FINE, n - 6 * FINE, flags)
      /\ t.mem[e] = Header(n - 6 * FINE, 2 * FINE, flags \cup {"USED"})
      /\ \A x \in DOMAIN s.mem : x[1] # b => t.mem[x] = s.mem[x]
  BY <1>1, <1>2, Grains DEF AddedTo
<1>8. ASSUME NEW x \in DOMAIN s.mem
      PROVE  /\ x[1] # b /\ x[1] \in ToSet(s.used)
             /\ t.mem[x] = s.mem[x] /\ t.size[x[1]] = s.size[x[1]]
  <2>1. x[1] \in ToSet(s.used)
    BY Headers
  <2>2. x[1] \in DOMAIN s.size
    BY <2>1 DEF Shape, Blocks
  <2> QED BY <1>3, <1>7, <2>1, <2>2
<1>9. /\ This(t, h) = 2 * FINE /\ This(t, f) = n - 6 * FINE
      /\ t.mem[f].prev = 2 * FINE /\ t.mem[e].prev = n - 6 * FINE
  BY <1>7 DEF Header, This
<1>10. NextOf(t, h) = f /\ FrontOf(t, f) = h /\ NextOf(t, f) = e /\ FrontOf(t, e) = f
  <2>1. NextOf(t, h) = <<b, 2 * FINE + 2 * FINE>> /\ FrontOf(t, f) = <<b, 4 * FINE - 2 * FINE>>
    BY <1>6, <1>9 DEF NextOf, FrontOf, This
  <2>2. /\ NextOf(t, f) = <<b, 4 * FINE + (n - 6 * FINE)>>
        /\ FrontOf(t, e) = <<b, (n - 2 * FINE) - (n - 6 * FINE)>>
    BY <1>6, <1>9 DEF NextOf, FrontOf, This
  <2> QED BY <1>1, <2>1, <2>2 DEF h, f, e
<1>11. IsHead(h) /\ ~IsHead(f) /\ ~IsHead(e) /\ ~IsTail(t, h) /\ ~IsTail(t, f) /\ IsTail(t, e)
  BY <1>1, <1>3, <1>6, Grains DEF IsHead, IsTail
<1>12. {h, f, e} \cap DOMAIN s.mem = {}
  BY <1>6, <1>8
<1> QED BY <1>2, <1>3, <1>4, <1>5, <1>7, <1>8, <1>10, <1>11, <1>12 DEF h, f, e

\* The block that was added is one free chunk between two edges.
LEMMA AddedShape ==
    ASSUME NEW s, Shape(s), NEW t, NEW b \in BlockIds, NEW from \in Seq(BlockIds),
           NEW flags, NEW id, NEW n, BlockFits(s, n, flags, id),
           b \notin ToSet(s.used), AddedTo(s, t, b, n, flags, from),
           IsInjective(from), ToSet(from) = ToSet(s.reserve) \ {b}
    PROVE  /\ Shape(t) /\ Inner(t) = Inner(s) \cup {FirstChunk(b)}
           /\ \A x \in Inner(s) : NextOf(t, x) = NextOf(s, x)
<1> DEFINE h == <<b, 2 * FINE>>
           f == <<b, 4 * FINE>>
           e == <<b, n - 2 * FINE>>
<1>1. /\ h = BlockHead(b) /\ f = FirstChunk(b) /\ e = TailChunk(t, b)
      /\ h # f /\ h # e /\ f # e
      /\ DOMAIN t.mem = DOMAIN s.mem \cup {h, f, e} /\ t.size[b] = n
      /\ \A x \in DOMAIN s.mem : x[1] # b /\ x[1] \in ToSet(s.used)
           /\ t.mem[x] = s.mem[x] /\ t.size[x[1]] = s.size[x[1]]
      /\ t.mem[h] = Header(0, 2 * FINE, flags \cup {"USED"})
      /\ t.mem[f] = Header(2 * FINE, n - 6 * FINE, flags)
      /\ t.mem[e] = Header(n - 6 * FINE, 2 * FINE, flags \cup {"USED"})
      /\ NextOf(t, h) = f /\ FrontOf(t, f) = h /\ NextOf(t, f) = e /\ FrontOf(t, e) = f
      /\ IsHead(h) /\ ~IsHead(f) /\ ~IsHead(e)
      /\ ~IsTail(t, h) /\ ~IsTail(t, f) /\ IsTail(t, e)
      /\ {h, f, e} \cap DOMAIN s.mem = {}
  BY AddedHeaders
<1>2. FINE \in Nat /\ FINE >= 1 /\ n \in Nat /\ n >= 8 * FINE
  BY Grains DEF BlockFits
<1>3. /\ h[1] = b /\ f[1] = b /\ e[1] = b /\ h[2] = 2 * FINE /\ f[2] = 4 * FINE
      /\ e[2] = n - 2 * FINE /\ h \in Address /\ f \in Address /\ e \in Address
  BY <1>2 DEF Address
<1> HIDE DEF h, f, e
<1>4. /\ s.used \in Seq(BlockIds) /\ IsInjective(s.used)
      /\ ToSet(s.used) \cap ToSet(s.reserve) = {}
      /\ DOMAIN s.size = ToSet(s.used) \cup ToSet(s.reserve)
      /\ \A x \in DOMAIN s.size : s.size[x] \in Nat /\ s.size[x] % FINE = 0
      /\ \A x \in ToSet(s.reserve) : s.size[x] = DEFAULT_BLOCK_SIZE
      /\ \A x \in ToSet(s.used) : Edges(s, x)
      /\ s.reserve \in Seq(BlockIds) /\ Len(s.reserve) <= MaxReserve
  BY DEF Shape, Blocks
<1>5. /\ t.used = <<b>> \o s.used /\ t.size = Put(s.size, b, n) /\ t.reserve = from
      /\ DOMAIN t = Fields /\ Len(from) <= Len(s.reserve)
  BY DEF AddedTo
<1>6. t.used \in Seq(BlockIds) /\ IsInjective(t.used) /\ ToSet(t.used) = ToSet(s.used) \cup {b}
  BY <1>4, <1>5, Consed
<1>7. /\ DOMAIN t.size = DOMAIN s.size \cup {b}
      /\ \A x \in DOMAIN s.size : x # b => t.size[x] = s.size[x]
  BY <1>5 DEF Put
<1>8. HeaderOK(t.mem[h]) /\ HeaderOK(t.mem[f]) /\ HeaderOK(t.mem[e])
  <2>1. flags \subseteq Flags /\ flags \cup {"USED"} \subseteq Flags
    BY DEF BlockFits, Kinds, Flags
  <2>2. 0 \in Bins
    BY Bounds DEF Bins
  <2> QED BY <1>1, <1>2, <2>1, <2>2 DEF HeaderOK, Header
<1>9. Memory(t)
  <2>1. \A x \in DOMAIN s.mem : HeaderOK(s.mem[x]) /\ x \in Address
    BY DEF Shape, Memory
  <2> QED BY <1>1, <1>3, <1>5, <1>8, <2>1 DEF Memory
<1>10. \A x \in {h, f, e} : /\ t.mem[x].flags \ {"USED"} = flags \ {"USED"} /\ x[1] = b
                            /\ t.mem[BlockHead(b)].flags \ {"USED"} = flags \ {"USED"}
  BY <1>1, <1>3 DEF Header
<1>11. /\ This(t, h) = 2 * FINE /\ This(t, f) = n - 6 * FINE /\ This(t, e) = 2 * FINE
       /\ t.mem[f].prev = 2 * FINE /\ t.mem[e].prev = n - 6 * FINE
       /\ t.mem[h].flags = flags \cup {"USED"} /\ t.mem[e].flags = flags \cup {"USED"}
       /\ t.mem[f].flags = flags
  BY <1>1 DEF Header, This
<1>12. Edges(t, b)
  <2>1. InUse(t, e) /\ t.mem[h].flags \in Kinds
    BY <1>11 DEF InUse, Has, BlockFits
  <2>2. ~Has(t, h, "DIRECT") => n = DEFAULT_BLOCK_SIZE
    BY <1>11 DEF Has, BlockFits
  <2> QED BY <1>1, <1>2, <1>11, <2>1, <2>2, Grains DEF Edges
<1>13. ASSUME NEW x \in ToSet(s.used) PROVE Edges(t, x)
  <2>1. x # b /\ x \in DOMAIN s.size /\ Edges(s, x)
    BY <1>4
  <2>2. t.size[x] = s.size[x] /\ TailChunk(t, x) = TailChunk(s, x)
    BY <1>7, <2>1 DEF TailChunk
  <2>3. BlockHead(x) \in DOMAIN s.mem /\ TailChunk(s, x) \in DOMAIN s.mem
    BY <2>1 DEF Edges
  <2>4. t.mem[BlockHead(x)] = s.mem[BlockHead(x)] /\ t.mem[TailChunk(s, x)] = s.mem[TailChunk(s, x)]
        /\ BlockHead(x) \in DOMAIN t.mem /\ TailChunk(s, x) \in DOMAIN t.mem
    BY <1>1, <2>3
  <2> QED BY <2>1, <2>2, <2>4 DEF Edges, InUse, Has, This
<1>14. Blocks(t)
  <2>1. ToSet(t.used) \cap ToSet(t.reserve) = {}
    BY <1>4, <1>5, <1>6
  <2>2. DOMAIN t.size = ToSet(t.used) \cup ToSet(t.reserve)
    BY <1>4, <1>5, <1>6, <1>7
  <2>0. n % FINE = 0
    BY DEF BlockFits
  <2>3. \A x \in DOMAIN t.size : t.size[x] \in Nat /\ t.size[x] % FINE = 0
    BY <1>1, <1>2, <1>4, <1>7, <2>0
  <2>5. Len(t.reserve) <= MaxReserve
    <3>1. Len(from) \in Nat /\ Len(s.reserve) \in Nat /\ MaxReserve \in Nat
      BY <1>4, ZMallocAssumption
    <3> QED BY <1>4, <1>5, <3>1
  <2>4. \A x \in ToSet(t.reserve) : t.size[x] = DEFAULT_BLOCK_SIZE
    BY <1>4, <1>5, <1>7
  <2> QED BY <1>5, <1>6, <1>12, <1>13, <2>1, <2>2, <2>3, <2>4, <2>5 DEF Blocks
<1>15. ASSUME NEW x \in DOMAIN s.mem
       PROVE  /\ x \in DOMAIN t.mem /\ This(t, x) = This(s, x) /\ NextOf(t, x) = NextOf(s, x)
              /\ FrontOf(t, x) = FrontOf(s, x) /\ (IsTail(t, x) <=> IsTail(s, x))
  BY <1>1 DEF This, NextOf, FrontOf, IsTail
<1>16. \A x \in DOMAIN s.mem : Between(s, x) => Between(t, x)
  BY <1>1, <1>3, <1>15 DEF Between
<1>17. Between(t, h) /\ Between(t, f)
  <2>1. \A x \in DOMAIN t.mem : x[1] = b => x \in {h, f, e}
    <3>1. \A x \in DOMAIN s.mem : x[1] # b
      BY <1>1
    <3>2. DOMAIN t.mem = DOMAIN s.mem \cup {h, f, e}
      BY <1>1
    <3> QED BY <3>1, <3>2
  <2>2. /\ h[2] + This(t, h) = 4 * FINE /\ f[2] + This(t, f) = n - 2 * FINE
        /\ 2 * FINE <= 4 * FINE /\ 4 * FINE <= n - 2 * FINE
    BY <1>2, <1>3, <1>11
  <2>3. /\ \A x \in {h, f, e} : x[2] <= h[2] \/ x[2] >= h[2] + This(t, h)
        /\ \A x \in {h, f, e} : x[2] <= f[2] \/ x[2] >= f[2] + This(t, f)
    BY <1>2, <1>3, <2>2
  <2> QED BY ONLY <1>3, <2>1, <2>3 DEF Between
<1>18. Chain(t)
  <2> SUFFICES ASSUME NEW x \in DOMAIN t.mem
      PROVE /\ x[1] \in ToSet(t.used)
            /\ BLOCK_TYPE_SIZE <= x[2] /\ x[2] <= t.size[x[1]] - CHUNK_FREE_SIZE
            /\ t.mem[x].flags \ {"USED"} = t.mem[BlockHead(x[1])].flags \ {"USED"}
            /\ IsTail(t, x) \/ /\ NextOf(t, x) \in DOMAIN t.mem
                               /\ t.mem[NextOf(t, x)].prev = This(t, x)
                               /\ This(t, x) >= SMALL_LEAST_SIZE
                               /\ Between(t, x)
            /\ IsHead(x) \/ /\ FrontOf(t, x) \in DOMAIN t.mem
                            /\ This(t, FrontOf(t, x)) = t.mem[x].prev
    BY DEF Chain
  <2>1. CASE x \in DOMAIN s.mem
    <3>1. /\ x[1] \in ToSet(s.used)
          /\ BLOCK_TYPE_SIZE <= x[2] /\ x[2] <= s.size[x[1]] - CHUNK_FREE_SIZE
          /\ s.mem[x].flags \ {"USED"} = s.mem[BlockHead(x[1])].flags \ {"USED"}
          /\ IsTail(s, x) \/ /\ NextOf(s, x) \in DOMAIN s.mem
                             /\ s.mem[NextOf(s, x)].prev = This(s, x)
                             /\ This(s, x) >= SMALL_LEAST_SIZE
                             /\ Between(s, x)
          /\ IsHead(x) \/ /\ FrontOf(s, x) \in DOMAIN s.mem
                          /\ This(s, FrontOf(s, x)) = s.mem[x].prev
      BY <2>1 DEF Shape, Chain
    <3>2. BlockHead(x[1]) \in DOMAIN s.mem
      BY <1>4, <3>1 DEF Edges
    <3> QED BY <1>1, <1>6, <1>15, <1>16, <2>1, <3>1, <3>2
  <2>2. CASE x = h
    BY <1>1, <1>2, <1>3, <1>6, <1>10, <1>11, <1>17, <2>2, Grains
  <2>3. CASE x = f
    BY <1>1, <1>2, <1>3, <1>6, <1>10, <1>11, <1>17, <2>3, Grains
  <2>4. CASE x = e
    BY <1>1, <1>2, <1>3, <1>6, <1>10, <1>11, <2>4, Grains
  <2> QED BY <1>1, <2>1, <2>2, <2>3, <2>4
<1>19. Inner(t) = Inner(s) \cup {f}
  BY <1>1, <1>15 DEF Inner
<1>20. \A x \in Inner(s) : NextOf(t, x) = NextOf(s, x)
  BY <1>15 DEF Inner
<1> QED BY <1>1, <1>9, <1>14, <1>18, <1>19, <1>20 DEF Shape

\* The heap with one more block, whose chunk is in no list.
LEMMA AddedHeap ==
    ASSUME NEW s, NEW own \in [BlockIds -> Nat], Heap(s, {}, {}, own), NEW t,
           NEW b \in BlockIds, NEW from \in Seq(BlockIds), NEW flags, NEW id, NEW n,
           BlockFits(s, n, flags, id), id \in Nat, b \notin ToSet(s.used),
           AddedTo(s, t, b, n, flags, from),
           IsInjective(from), ToSet(from) = ToSet(s.reserve) \ {b}
    PROVE  LET f == FirstChunk(b)
               to == [own EXCEPT ![b] = id]
           IN  /\ Heap(t, {f}, {}, to) /\ Kept(s, t) /\ SameLists(s, t) /\ t.slot = s.slot
               /\ This(t, f) = n - 6 * FINE /\ f \notin Inner(s) /\ f \in Inner(t)
               /\ \A g \in Flags : Has(t, f, g) <=> g \in flags
               /\ \A x \in Inner(s) : x \in Inner(t) /\ x \in DOMAIN s.mem /\ t.mem[x] = s.mem[x]
                                      /\ x[1] # b
               /\ f[1] = b
<1> DEFINE h == <<b, 2 * FINE>>
           f == <<b, 4 * FINE>>
           e == <<b, n - 2 * FINE>>
           to == [own EXCEPT ![b] = id]
<1>0. Shape(s)
  BY DEF Heap
<1>1. /\ h = BlockHead(b) /\ f = FirstChunk(b) /\ e = TailChunk(t, b)
      /\ h # f /\ h # e /\ f # e
      /\ DOMAIN t.mem = DOMAIN s.mem \cup {h, f, e} /\ t.size[b] = n
      /\ \A x \in DOMAIN s.mem : x[1] # b /\ x[1] \in ToSet(s.used)
           /\ t.mem[x] = s.mem[x] /\ t.size[x[1]] = s.size[x[1]]
      /\ t.mem[h] = Header(0, 2 * FINE, flags \cup {"USED"})
      /\ t.mem[f] = Header(2 * FINE, n - 6 * FINE, flags)
      /\ t.mem[e] = Header(n - 6 * FINE, 2 * FINE, flags \cup {"USED"})
      /\ NextOf(t, h) = f /\ FrontOf(t, f) = h /\ NextOf(t, f) = e /\ FrontOf(t, e) = f
      /\ IsHead(h) /\ ~IsHead(f) /\ ~IsHead(e)
      /\ ~IsTail(t, h) /\ ~IsTail(t, f) /\ IsTail(t, e)
      /\ {h, f, e} \cap DOMAIN s.mem = {}
  BY <1>0, AddedHeaders
<1>2. /\ Shape(t) /\ Inner(t) = Inner(s) \cup {f}
      /\ \A x \in Inner(s) : NextOf(t, x) = NextOf(s, x)
  <2>1. /\ Shape(t) /\ Inner(t) = Inner(s) \cup {FirstChunk(b)}
        /\ \A x \in Inner(s) : NextOf(t, x) = NextOf(s, x)
    <3> HIDE DEF h, f, e, to
    <3> QED BY <1>0, AddedShape
  <2> QED BY <1>1, <2>1
<1>3. FINE \in Nat /\ FINE >= 1 /\ n \in Nat /\ n >= 8 * FINE
  BY Grains DEF BlockFits
<1>4. /\ SameLists(s, t) /\ t.slot = s.slot /\ SameRest(s, t)
  BY DEF AddedTo, SameLists, SameRest, Fields
<1>5. /\ Inner(s) \subseteq DOMAIN s.mem /\ f[1] = b /\ f \notin Inner(s)
  BY <1>1 DEF Inner
<1>6. \A x \in BlockIds : to[x] = IF x = b THEN id ELSE own[x]
  OBVIOUS
<1> HIDE DEF h, f, e, to
<1>7. ASSUME NEW x \in Inner(s)
      PROVE  /\ x \in DOMAIN s.mem /\ x \in DOMAIN t.mem /\ t.mem[x] = s.mem[x] /\ x[1] # b
             /\ to[x[1]] = own[x[1]] /\ This(t, x) = This(s, x) /\ t.size[x[1]] = s.size[x[1]]
             /\ \A g \in Flags : Has(t, x, g) <=> Has(s, x, g)
             /\ (InUse(t, x) <=> InUse(s, x))
  <2>1. x \in DOMAIN s.mem /\ t.mem[x] = s.mem[x] /\ x[1] # b /\ t.size[x[1]] = s.size[x[1]]
    BY <1>1, <1>5
  <2>2. x[1] \in BlockIds
    BY <1>0, <2>1, Headers
  <2> QED BY <1>1, <1>6, <2>1, <2>2 DEF This, Has, InUse
<1>8. /\ This(t, f) = n - 6 * FINE /\ ~InUse(t, f)
      /\ \A g \in Flags : Has(t, f, g) <=> g \in flags
  BY <1>1 DEF Header, This, Has, InUse, BlockFits
<1>9. SlotSizes(t)
  BY <1>4 DEF Heap, SlotSizes
<1>10. Room(t, to)
  <2> SUFFICES ASSUME NEW x \in Inner(t)
        PROVE  /\ Has(t, x, "BIG") /\ ~Has(t, x, "SLOT") => This(t, x) >= BIG_LEAST_SIZE
               /\ Has(t, x, "DIRECT") /\ ~Has(t, x, "SLOT") => Fills(t, x)
               /\ Has(t, x, "SLOT") => OfSlot(t, x, to[x[1]])
    BY DEF Room
  <2>1. CASE x \in Inner(s)
    BY <1>4, <1>7, <2>1 DEF Heap, Room, Fills, OfSlot, Flags
  <2>2. CASE x = f
    <3>1. to[x[1]] = id /\ t.size[x[1]] = n /\ x = FirstChunk(x[1])
      BY <1>1, <1>5, <1>6, <2>2
    <3>2. Fills(t, x)
      BY <1>8, <2>2, <3>1, Grains DEF Fills
    <3>3. Has(t, x, "BIG") /\ ~Has(t, x, "SLOT") => This(t, x) >= BIG_LEAST_SIZE
      BY <1>3, <1>8, <2>2, Grains, SMTT(60) DEF BlockFits, Flags
    <3>4. "SLOT" \in flags => /\ id \in SlotIds /\ t.slot[id].user > 0
                              /\ n = t.slot[id].max + BlockOverhead
                              /\ t.slot[id].max >= t.slot[id].user + CHUNK_PADDING_SIZE
      BY <1>4 DEF BlockFits
    <3>5. \A i \in SlotIds : t.slot[i].user > 0 => t.slot[i].max \in Int
      <4> SUFFICES ASSUME NEW i \in SlotIds, t.slot[i].user > 0 PROVE t.slot[i].max \in Int
        OBVIOUS
      <4>1. /\ t.slot[i].block \in Nat /\ t.slot[i].block <= MaxBytes + FINE
            /\ t.slot[i].max = CeilPowerOf2(t.slot[i].block + BlockOverhead + CHUNK_PADDING_SIZE)
                                   - BlockOverhead
        BY <1>9 DEF SlotSizes
      <4> DEFINE x0 == t.slot[i].block + BlockOverhead + CHUNK_PADDING_SIZE
      <4>2. FINE <= 2^28
        BY Bounds
      <4>3. x0 \in Nat /\ x0 <= 2^32
        BY <4>1, <4>2, Grains, SMTT(60) DEF MaxBytes
      <4> HIDE DEF x0
      <4>4. CeilPowerOf2(x0) \in Nat
        BY <4>3, CeilPower
      <4> QED BY <4>1, <4>4, Grains DEF x0
    <3>6. Has(t, x, "SLOT") => OfSlot(t, x, to[x[1]])
      <4> SUFFICES ASSUME "SLOT" \in flags PROVE OfSlot(t, x, id)
        BY <1>8, <2>2, <3>1 DEF Flags
      <4>1. n - 6 * FINE = t.slot[id].max
        BY <1>3, <3>4, <3>5, Grains
      <4> QED BY <1>8, <2>2, <3>1, <3>4, <4>1 DEF OfSlot
    <3> QED BY <3>2, <3>3, <3>6
  <2> QED BY <1>2, <2>1, <2>2
<1>11. Object(t) /\ Binned(t, {f}) /\ DvSound(t, {f}) /\ SlotListed(t, {f}, to)
  <2>1. \A i \in SlotIds : t.slot[i].user = s.slot[i].user /\ t.slot[i].max = s.slot[i].max
    BY <1>4
  <2>2. \A x \in Inner(s) : InUse(s, x) \/ x \in {} \/
              /\ x \in Inner(t) /\ t.mem[x].flags = s.mem[x].flags /\ x \notin {f}
              /\ to[x[1]] = own[x[1]]
              /\ (\E l \in Levels : x = s.dv[l]) \/ (This(t, x) = This(s, x)
                                                     /\ t.mem[x].bin = s.mem[x].bin)
    BY <1>2, <1>5, <1>7
  <2>3. SameLists(s, t) /\ Heap(s, {}, {}, own)
    BY <1>4
  <2> DEFINE out == {f}
             none == {}
  <2>4. \A x \in Inner(s) : InUse(s, x) \/ x \in none \/
              /\ x \in Inner(t) /\ t.mem[x].flags = s.mem[x].flags /\ x \notin out
              /\ to[x[1]] = own[x[1]]
              /\ (\E l \in Levels : x = s.dv[l]) \/ (This(t, x) = This(s, x)
                                                     /\ t.mem[x].bin = s.mem[x].bin)
    BY <2>2
  <2>6. Heap(s, none, none, own)
    BY <2>3
  <2> HIDE DEF out, none
  <2>5. Object(t) /\ Binned(t, out) /\ DvSound(t, out) /\ SlotListed(t, out, to)
    <3>1. SlotSizes(t)
      BY <1>9
    <3> QED BY <3>1, <2>1, <2>3, <2>4, <2>6, ListsKept
  <2> QED BY <2>5 DEF out
<1>12. Found(t, {f})
  <2>1. Free(t, f)
    BY <1>2, <1>8 DEF Free
  <2>2. ASSUME NEW x \in Inner(t), ~InUse(t, x), x # f
        PROVE  \/ \E k \in Levels : x = t.dv[k]
               \/ \E k \in Levels, a \in Bins : x \in ToSet(t.bin[k][a])
               \/ \E i \in SlotIds : x \in ToSet(t.slot_bin[i])
    <3>1. ~InUse(s, x) /\ x \in Inner(s)
      BY <1>2, <1>7, <2>2
    <3> QED BY <1>4, <3>1 DEF Heap, Lists, Found, SameLists
  <2> QED BY <2>1, <2>2 DEF Found
<1>13. Apart(t, {})
  <2> SUFFICES ASSUME NEW x \in Inner(t), ~InUse(t, x) PROVE InUse(t, NextOf(t, x))
    BY DEF Apart
  <2>1. CASE x = f
    BY <1>1, <2>1 DEF Header, InUse, Has
  <2>2. CASE x \in Inner(s)
    <3>1. ~InUse(s, x) /\ NextOf(t, x) = NextOf(s, x) /\ InUse(s, NextOf(s, x))
      BY <1>2, <1>7, <2>2 DEF Heap, Apart
    <3>2. NextOf(s, x) \in DOMAIN s.mem
      BY <1>0, <2>2, InnerChunk
    <3> QED BY <1>1, <3>1, <3>2 DEF InUse, Has
  <2> QED BY <1>2, <2>1, <2>2
<1>14. UsedBy(t) = UsedBy(s)
  BY <1>2, <1>5, <1>7, <1>8 DEF UsedBy
<1>15. Kept(s, t)
  BY <1>4, <1>7, <1>14 DEF Kept, SameRest, UsedBy
<1>16. Heap(t, {f}, {}, to)
  BY <1>2, <1>9, <1>10, <1>11, <1>12, <1>13 DEF Heap, Lists
<1>17. \A x \in Inner(s) : x \in Inner(t) /\ x \in DOMAIN s.mem /\ t.mem[x] = s.mem[x] /\ x[1] # b
  BY <1>2, <1>7
<1> QED BY <1>1, <1>2, <1>4, <1>5, <1>8, <1>15, <1>16, <1>17 DEF to

\* alloc_block, as the requests use it: no block, or one that is a single chunk.
Added(s, r, n, flags, id) ==
    \/ r.c = NULL /\ r.s = s
    \/ \E to \in [BlockIds -> Nat] :
         /\ Heap(r.s, {r.c}, {}, to) /\ Kept(s, r.s) /\ SameLists(s, r.s)
         /\ r.s.slot = s.slot /\ r.c # NULL
         /\ r.c \notin Inner(s) /\ r.c \in Inner(r.s) /\ This(r.s, r.c) = n - 6 * FINE
         /\ \A g \in Flags : Has(r.s, r.c, g) <=> g \in flags
         /\ \A x \in Inner(s) : x \in Inner(r.s) /\ x \in DOMAIN s.mem /\ r.s.mem[x] = s.mem[x]
         /\ to[r.c[1]] = id

\* alloc_block
LEMMA BlockAdded ==
    ASSUME NEW s, NEW own \in [BlockIds -> Nat], Heap(s, {}, {}, own),
           NEW bytes, NEW flags, NEW id \in Nat, NEW n, n = BlockBytes(bytes, flags),
           BlockFits(s, n, flags, id)
    PROVE  Added(s, AllocBlock(s, bytes, flags), n, flags, id)
<1> DEFINE r == AllocBlock(s, bytes, flags)
<1>1. Shape(s)
  BY DEF Heap
<1>2. \/ r.c = NULL /\ r.s = s
      \/ \E b \in BlockIds, from \in Seq(BlockIds) :
           /\ r.c = FirstChunk(b) /\ b \notin ToSet(s.used)
           /\ IsInjective(from) /\ ToSet(from) = ToSet(s.reserve) \ {b}
           /\ AddedTo(s, r.s, b, n, flags, from)
  BY <1>1, BlockTaken
<1> DEFINE t == r.s
<1> HIDE DEF r, t
<1>3. CASE r.c = NULL /\ r.s = s
  BY <1>3 DEF r, Added
<1>4. ASSUME NEW b \in BlockIds, NEW from \in Seq(BlockIds),
             r.c = FirstChunk(b), b \notin ToSet(s.used),
             IsInjective(from), ToSet(from) = ToSet(s.reserve) \ {b},
             AddedTo(s, t, b, n, flags, from)
      PROVE  \E to \in [BlockIds -> Nat] :
                /\ Heap(r.s, {r.c}, {}, to) /\ Kept(s, r.s) /\ SameLists(s, r.s)
                /\ r.s.slot = s.slot /\ r.c # NULL
                /\ r.c \notin Inner(s) /\ r.c \in Inner(r.s) /\ This(r.s, r.c) = n - 6 * FINE
                /\ \A g \in Flags : Has(r.s, r.c, g) <=> g \in flags
                /\ \A x \in Inner(s) : x \in Inner(r.s) /\ x \in DOMAIN s.mem /\ r.s.mem[x] = s.mem[x]
                /\ to[r.c[1]] = id
  <2> DEFINE f == FirstChunk(b)
             to == [own EXCEPT ![b] = id]
  <2>1. /\ Heap(t, {f}, {}, to) /\ Kept(s, t) /\ SameLists(s, t) /\ t.slot = s.slot
        /\ This(t, f) = n - 6 * FINE /\ f \notin Inner(s) /\ f \in Inner(t)
        /\ \A g \in Flags : Has(t, f, g) <=> g \in flags
        /\ \A x \in Inner(s) : x \in Inner(t) /\ x \in DOMAIN s.mem /\ t.mem[x] = s.mem[x]
                               /\ x[1] # b
        /\ f[1] = b
    <3>1. /\ BlockFits(s, n, flags, id) /\ b \notin ToSet(s.used)
          /\ AddedTo(s, t, b, n, flags, from) /\ IsInjective(from)
          /\ ToSet(from) = ToSet(s.reserve) \ {b} /\ Heap(s, {}, {}, own)
      BY <1>4
    <3>2. LET g == FirstChunk(b)
              too == [own EXCEPT ![b] = id]
           IN  /\ Heap(t, {g}, {}, too) /\ Kept(s, t) /\ SameLists(s, t) /\ t.slot = s.slot
               /\ This(t, g) = n - 6 * FINE /\ g \notin Inner(s) /\ g \in Inner(t)
               /\ \A k \in Flags : Has(t, g, k) <=> k \in flags
               /\ \A x \in Inner(s) : x \in Inner(t) /\ x \in DOMAIN s.mem /\ t.mem[x] = s.mem[x]
                                      /\ x[1] # b
               /\ g[1] = b
      BY ONLY <3>1, AddedHeap, own \in [BlockIds -> Nat], id \in Nat, b \in BlockIds, from \in Seq(BlockIds)
    <3> QED BY <3>2
  <2>2. to \in [BlockIds -> Nat] /\ to[b] = id
    OBVIOUS
  <2>3. f # NULL
    BY DEF FirstChunk, NULL
  <2> HIDE DEF f, to
  <2>4. r.c = f
    BY <1>4 DEF f
  <2> QED BY <2>1, <2>2, <2>3, <2>4 DEF t
<1> QED BY <1>2, <1>3, <1>4 DEF r, t, Added

-----------------------------------------------------------------------------
(* merge_and_release and free_memory *)

\* Kept is transitive.
LEMMA KeptOn ==
    ASSUME NEW s, NEW t, NEW u, Kept(s, t), Kept(t, u)
    PROVE  Kept(s, u)
  BY DEF Kept

\* A free chunk of a level that is not dv_ is in a bin.
LEMMA FreeInBin ==
    ASSUME NEW s, NEW loose, NEW open, NEW own, Heap(s, loose, open, own),
           NEW p \in Inner(s), ~InUse(s, p), p \notin loose, ~Has(s, p, "DIRECT"),
           NEW l \in Levels, Level(s, p) = l, p # s.dv[l]
    PROVE  \E b \in Bins : p \in ToSet(s.bin[l][b])
<1>1. Shape(s) /\ p \in DOMAIN s.mem
  BY DEF Heap, Inner
<1>2. p # NULL
  BY <1>1, Headers
<1>3. \A k \in Levels : p = s.dv[k] => k = l
  BY <1>2, DvMember
<1>4. \A i \in SlotIds : p \notin ToSet(s.slot_bin[i])
  BY SlotMember
<1>5. \E k \in Levels, b \in Bins : p \in ToSet(s.bin[k][b])
  BY <1>3, <1>4 DEF Heap, Lists, Found
<1>6. PICK k \in Levels, b \in Bins : p \in ToSet(s.bin[k][b])
  BY <1>5
<1>7. Level(s, p) = k
  BY <1>6, BinMember
<1> QED BY <1>6, <1>7

\* A chunk that merge_and_release holds: in no list, or dv_.
Mine(s, c, l) == IF c = s.dv[l] THEN {} ELSE {c}
Holds(s, c, l) ==
    c \in Inner(s) /\ ~InUse(s, c) /\ ~Has(s, c, "DIRECT") /\ Level(s, c) = l

\* Neighbours are of one kind.
LEMMA SameKind ==
    ASSUME NEW s, Shape(s), NEW c \in Inner(s)
    PROVE  \A d \in {FrontOf(s, c), NextOf(s, c)} :
             /\ d \in DOMAIN s.mem /\ d[1] = c[1] /\ Level(s, d) = Level(s, c)
             /\ \A f \in {"BIG", "DIRECT", "SLOT"} : Has(s, d, f) <=> Has(s, c, f)
<1>1. /\ FrontOf(s, c) \in DOMAIN s.mem /\ FrontOf(s, c)[1] = c[1]
      /\ NextOf(s, c) \in DOMAIN s.mem /\ NextOf(s, c)[1] = c[1] /\ c \in DOMAIN s.mem
  BY InnerChunk
<1> QED BY <1>1, Kind

\* merge_and_release, first half: the free chunk in front is swallowed.
LEMMA FrontMerged ==
    ASSUME NEW s, NEW own, NEW c, NEW l \in Levels,
           Heap(s, {c}, {c, FrontOf(s, c)}, own), ~Has(s, c, "DIRECT"), Level(s, c) = l
    PROVE  LET f == MergeFront(s, c, l) IN
           /\ Heap(f.s, Mine(f.s, f.c, l), {f.c}, own) /\ Kept(s, f.s) /\ Holds(f.s, f.c, l)
           /\ f.s.slot = s.slot
<1> DEFINE f == MergeFront(s, c, l)
           p == FrontOf(s, c)
           one == {c}
           two == {c, p}
<1>1. /\ Shape(s) /\ c \in Inner(s) /\ ~InUse(s, c) /\ c # NULL
      /\ \A k \in Levels : c # s.dv[k]
  <2>1. Shape(s)
    BY DEF Heap
  <2> QED BY <2>1, LooseMember
<1>2. /\ p \in DOMAIN s.mem /\ p[1] = c[1] /\ Level(s, p) = l /\ ~Has(s, p, "DIRECT")
      /\ NextOf(s, p) = c /\ c # p
  <2>1. p \in DOMAIN s.mem /\ p[1] = c[1] /\ Level(s, p) = l /\ ~Has(s, p, "DIRECT")
    BY <1>1, SameKind
  <2>2. NextOf(s, p) = c /\ p[2] + This(s, p) = c[2] /\ This(s, p) >= 2 * FINE
    BY <1>1, InnerChunk
  <2>3. p[2] \in Nat /\ c[2] \in Nat /\ This(s, p) \in Nat
    BY <1>1, <2>1, Headers DEF Inner
  <2> QED BY <2>1, <2>2, <2>3, Grains
<1>3. Kept(s, s)
  BY DEF Kept
<1>4. Heap(s, one, two, own)
  OBVIOUS
<1>5. CASE InUse(s, p)
  <2>1. f.s = s /\ f.c = c
    BY <1>5 DEF MergeFront
  <2> HIDE DEF f, p
  <2>2. \A x \in two : x \in one \/ x \notin Inner(s) \/ InUse(s, x) \/ InUse(s, NextOf(s, x))
    BY <1>5
  <2> HIDE DEF one, two
  <2>3. Heap(s, one, one, own)
    BY <1>4, <2>2, OpenLess
  <2> USE DEF one
  <2>4. Mine(s, c, l) = {c}
    BY <1>1 DEF Mine
  <2>5. Heap(s, Mine(s, c, l), {c}, own) /\ Holds(s, c, l)
    BY <1>1, <2>3, <2>4 DEF Holds
  <2> QED BY <1>3, <2>1, <2>5 DEF f
<1>6. CASE ~InUse(s, p)
  <2>0. p \in Inner(s)
    BY <1>1, <1>6, Neighbours
  <2> DEFINE m == IF p = s.dv[l] THEN s ELSE PickChunk(s, p)
             out == IF p = s.dv[l] THEN one ELSE one \cup {p}
  <2>1. f.s = Merge(m, p, c) /\ f.c = p
    BY <1>6 DEF MergeFront
  <2>2. /\ Heap(m, out, two, own) /\ Kept(s, m) /\ Alike(s, m) /\ m.dv = s.dv /\ m.slot = s.slot
        /\ \A d \in DOMAIN s.mem : InUse(m, d) <=> InUse(s, d)
    <3>1. CASE p = s.dv[l]
      <4>1. HeaderOK(s.mem[p]) /\ DOMAIN s = Fields /\ \A x \in DOMAIN s.mem : HeaderOK(s.mem[x])
        BY <1>1, <1>2 DEF Shape, Memory
      <4>2. Alike(s, s)
        BY <4>1 DEF Alike, Kindred
      <4>3. m = s /\ out = one
        BY <3>1
      <4> QED BY <1>3, <1>4, <4>2, <4>3
    <3>2. CASE p # s.dv[l]
      <4> HIDE DEF f, p, one, two
      <4>0. p \notin one
        BY <1>2 DEF one
      <4>1. PICK b \in Bins : p \in ToSet(s.bin[l][b])
        BY <1>2, <1>4, <1>6, <2>0, <3>2, <4>0, FreeInBin
      <4>2. LET t == PickChunk(s, p) IN
           /\ Heap(t, one \cup {p}, two, own) /\ Kept(s, t) /\ Alike(s, t)
           /\ t.dv = s.dv /\ t.slot = s.slot
           /\ \A d \in DOMAIN s.mem : InUse(t, d) <=> InUse(s, d)
        BY <1>4, <4>1, Picked
      <4>3. m = PickChunk(s, p) /\ out = one \cup {p}
        BY <3>2
      <4> QED BY <4>2, <4>3
    <3> QED BY <3>1, <3>2
  <2>3. c \in out /\ (p \in out \/ \E k \in Levels : p = m.dv[k])
    BY <2>2
  <2>4. out \ {c} = (IF p = s.dv[l] THEN {} ELSE {p})
    BY <1>2
  <2>5. (two \ {p, c}) \cup (IF c \in two THEN {p} ELSE {}) = {p}
    OBVIOUS
  <2> HIDE DEF f, p, one, two, m, out
  <2>6. /\ Inner(m) = Inner(s) /\ NextOf(m, p) = c /\ ~InUse(m, p) /\ ~Has(m, p, "DIRECT")
        /\ Level(m, p) = l
    <3>1. /\ Inner(m) = Inner(s) /\ NextOf(m, p) = NextOf(s, p) /\ Level(m, p) = Level(s, p)
          /\ (Has(m, p, "DIRECT") <=> Has(s, p, "DIRECT"))
      BY <1>2, <2>2, SameChunks
    <3> QED BY <1>2, <1>6, <2>2, <3>1
  <2>7. LET t == Merge(m, p, c) IN
           /\ Heap(t, out \ {c}, (two \ {p, c}) \cup (IF c \in two THEN {p} ELSE {}), own)
           /\ Kept(m, t) /\ SameLists(m, t) /\ t.slot = m.slot
           /\ p \in Inner(t)
           /\ \A x \in DOMAIN t.mem : \A g \in Flags : Has(t, x, g) <=> Has(m, x, g)
    BY <2>0, <2>2, <2>3, <2>6, Merged
  <2> DEFINE t == Merge(m, p, c)
  <2>8. /\ Heap(t, out \ {c}, {p}, own) /\ Kept(m, t) /\ t.dv = m.dv /\ t.slot = m.slot
        /\ p \in Inner(t) /\ p \in DOMAIN t.mem
        /\ \A g \in Flags : Has(t, p, g) <=> Has(m, p, g)
    BY <2>5, <2>7 DEF SameLists, Inner
  <2> HIDE DEF t
  <2>9. out \ {c} = Mine(t, p, l)
    BY <2>2, <2>4, <2>8 DEF Mine
  <2>10. Holds(t, p, l)
    BY <2>6, <2>8 DEF Holds, InUse, Level, Flags
  <2>11. Kept(s, t)
    BY <2>2, <2>8, KeptOn
  <2>12. f.s = t /\ f.c = p
    BY <2>1 DEF t
  <2> QED BY <2>2, <2>8, <2>9, <2>10, <2>11, <2>12 DEF f
<1> QED BY <1>5, <1>6

\* What is known of the chunk between the two halves.
LEMMA HeldChunk ==
    ASSUME NEW s, NEW open, NEW own, NEW c, NEW l \in Levels,
           Heap(s, Mine(s, c, l), open, own), Holds(s, c, l)
    PROVE  /\ Shape(s) /\ c \in Inner(s) /\ c \in DOMAIN s.mem /\ c # NULL
           /\ c \in Mine(s, c, l) \/ c = s.dv[l]
           /\ c # s.dv[l] => \A k \in Levels : c # s.dv[k]
           /\ NextOf(s, c) \in DOMAIN s.mem /\ NextOf(s, c) # c
           /\ Level(s, NextOf(s, c)) = l /\ ~Has(s, NextOf(s, c), "DIRECT")
           /\ ~InUse(s, NextOf(s, c)) => NextOf(s, c) \in Inner(s)
           /\ FINE \in Nat /\ This(s, c) \in Nat /\ s.size[c[1]] = DEFAULT_BLOCK_SIZE
<1>1. Shape(s) /\ c \in Inner(s) /\ c \in DOMAIN s.mem
  BY DEF Heap, Holds, Inner
<1>2. c # NULL /\ This(s, c) \in Nat /\ c[2] \in Nat
  BY <1>1, Headers
<1>3. c \in Mine(s, c, l) \/ c = s.dv[l]
  BY DEF Mine
<1>4. c # s.dv[l] => \A k \in Levels : c # s.dv[k]
  BY <1>2, DvMember DEF Holds
<1>5. /\ NextOf(s, c) \in DOMAIN s.mem /\ Level(s, NextOf(s, c)) = l
      /\ ~Has(s, NextOf(s, c), "DIRECT")
  BY <1>1, SameKind DEF Holds
<1>6. This(s, c) >= 2 * FINE /\ NextOf(s, c)[2] = c[2] + This(s, c)
  BY <1>1, InnerChunk
<1>7. NextOf(s, c) # c
  BY <1>2, <1>6, Grains
<1>8. ~InUse(s, NextOf(s, c)) => NextOf(s, c) \in Inner(s)
  BY <1>1, Neighbours
<1>9. s.size[c[1]] = DEFAULT_BLOCK_SIZE
  BY <1>1, Kind DEF Holds
<1> QED BY <1>1, <1>2, <1>3, <1>4, <1>5, <1>7, <1>8, <1>9, Grains

\* The chunk and its neighbour become one.
LEMMA NextMergedWith ==
    ASSUME NEW m, NEW own, NEW c, NEW n, NEW l \in Levels, NEW loose,
           Heap(m, loose, {c}, own), Holds(m, c, l), NextOf(m, c) = n, n \in loose,
           c # n, c \in loose \/ c = m.dv[l], loose \ {n} = Mine(m, c, l)
    PROVE  LET t == Merge(m, c, n) IN
           /\ Heap(t, Mine(t, c, l), {}, own) /\ Kept(m, t) /\ Holds(t, c, l)
           /\ t.slot = m.slot
<1> DEFINE t == Merge(m, c, n)
           one == {c}
<1>1. Heap(m, loose, one, own)
  OBVIOUS
<1>2. (one \ {c, n}) \cup (IF n \in one THEN {c} ELSE {}) = {}
  OBVIOUS
<1> HIDE DEF one
<1>3. c \in Inner(m) /\ ~InUse(m, c) /\ ~Has(m, c, "DIRECT")
  BY DEF Holds
<1>4. c \in loose \/ \E k \in Levels : c = m.dv[k]
  OBVIOUS
<1>5. /\ Heap(t, loose \ {n}, (one \ {c, n}) \cup (IF n \in one THEN {c} ELSE {}), own)
      /\ Kept(m, t) /\ SameLists(m, t) /\ t.slot = m.slot
      /\ c \in Inner(t)
      /\ \A x \in DOMAIN t.mem : \A f \in Flags : Has(t, x, f) <=> Has(m, x, f)
  BY <1>1, <1>3, <1>4, Merged
<1> HIDE DEF t
<1>6. Mine(t, c, l) = loose \ {n}
  BY <1>5 DEF Mine, SameLists
<1>7. Holds(t, c, l)
  BY <1>5 DEF Holds, Level, InUse, Flags, Inner
<1> QED BY <1>2, <1>5, <1>6, <1>7 DEF t

\* merge_and_release, second half: the free chunk behind is swallowed.
LEMMA NextMerged ==
    ASSUME NEW s, NEW own, NEW c, NEW l \in Levels,
           Heap(s, Mine(s, c, l), {c}, own), Holds(s, c, l)
    PROVE  LET t == MergeNext(s, c, l) IN
           /\ Heap(t, Mine(t, c, l), {}, own) /\ Kept(s, t) /\ Holds(t, c, l)
           /\ t.slot = s.slot
<1> DEFINE t == MergeNext(s, c, l)
           n == NextOf(s, c)
           one == {c}
           mine == Mine(s, c, l)
<1>1. /\ Shape(s) /\ c \in Inner(s) /\ c \in DOMAIN s.mem /\ c # NULL
      /\ c \in mine \/ c = s.dv[l]
      /\ c # s.dv[l] => \A k \in Levels : c # s.dv[k]
      /\ n \in DOMAIN s.mem /\ n # c /\ Level(s, n) = l /\ ~Has(s, n, "DIRECT")
      /\ ~InUse(s, n) => n \in Inner(s)
  BY HeldChunk
<1>2. Kept(s, s)
  BY DEF Kept
<1>3. Heap(s, mine, one, own) /\ n \notin mine
  BY <1>1 DEF Mine
<1> HIDE DEF mine
<1>4. CASE InUse(s, n)
  <2>1. t = s
    BY <1>4 DEF MergeNext
  <2>2. \A x \in one : x \in {} \/ x \notin Inner(s) \/ InUse(s, x) \/ InUse(s, NextOf(s, x))
    BY <1>4
  <2> DEFINE none == {}
  <2>3. \A x \in one : x \in none \/ x \notin Inner(s) \/ InUse(s, x) \/ InUse(s, NextOf(s, x))
    BY <2>2
  <2> HIDE DEF one, none, n, t
  <2>4. Heap(s, mine, none, own)
    BY <1>3, <2>3, OpenLess
  <2> QED BY <1>2, <2>1, <2>4 DEF none, mine, t
<1>5. CASE ~InUse(s, n) /\ n = s.dv[l]
  <2> DEFINE d == [s EXCEPT !.dv[l] = NULL]
             m == [s EXCEPT !.dv[l] = c]
  <2>1. t = Merge(m, c, n)
    BY <1>5 DEF MergeNext
  <2>2. DOMAIN s = Fields /\ s.dv \in [Levels -> Address \cup {NULL}]
    BY <1>1, <1>3 DEF Shape, Memory, Heap, Lists, Object
  <2>3. mine = {c} /\ s.dv[l] # NULL
    <3>1. n # NULL
      BY <1>1, Headers
    <3> QED BY <1>1, <1>5, <3>1 DEF mine, Mine
  <2>4. /\ SameMem(s, d) /\ d.bin = s.bin /\ d.bitmap = s.bitmap /\ d.slot_bin = s.slot_bin
        /\ d.dv = [s.dv EXCEPT ![l] = NULL] /\ d.mem = s.mem
    BY <2>2 DEF SameMem, SameSlots, Fields
  <2>5. /\ SameMem(d, m) /\ m.bin = d.bin /\ m.bitmap = d.bitmap /\ m.slot_bin = d.slot_bin
        /\ m.dv = [d.dv EXCEPT ![l] = c] /\ d.dv[l] = NULL /\ m.mem = s.mem /\ m.slot = s.slot
        /\ m.dv[l] = c /\ m.size = s.size /\ SameRest(s, m)
    BY <2>2 DEF SameMem, SameSlots, Fields, SameRest
  <2> HIDE DEF n, one, d, m, t
  <2>6. Heap(d, mine \cup {n}, one, own)
    BY <1>3, <1>5, <2>3, <2>4, DvDropped
  <2>7. ~Has(d, c, "DIRECT") /\ Level(d, c) = l
    BY <2>4 DEF Holds, Has, Level
  <2> DEFINE both == mine \cup {n}
  <2>8. c \in both /\ both \ {c} = {n} /\ Heap(d, both, one, own)
    BY <1>1, <2>3, <2>6
  <2> HIDE DEF both
  <2>9. Heap(m, both \ {c}, one, own)
    BY <2>5, <2>7, <2>8, DvPut
  <2>10. Holds(m, c, l) /\ NextOf(m, c) = n /\ Mine(m, c, l) = {} /\ {n} \ {n} = {}
    <3>1. Inner(m) = Inner(s)
      BY <2>5 DEF Inner, IsTail
    <3> QED BY <2>5, <3>1 DEF Holds, InUse, Has, Level, NextOf, Mine, n
  <2> DEFINE ns == {n}
  <2>11. Heap(m, ns, one, own) /\ n \in ns /\ ns \ {n} = Mine(m, c, l)
    BY <2>8, <2>9, <2>10
  <2> HIDE DEF ns
  <2>12. LET w == Merge(m, c, n) IN
           /\ Heap(w, Mine(w, c, l), {}, own) /\ Kept(m, w) /\ Holds(w, c, l)
           /\ w.slot = m.slot
    BY <1>1, <2>5, <2>10, <2>11, NextMergedWith DEF one
  <2>13. Kept(s, m)
    BY <2>5, <2>10 DEF Kept, SameRest, UsedBy, Inner, IsTail, InUse, Has, This
  <2>14. Heap(t, Mine(t, c, l), {}, own) /\ Kept(m, t) /\ Holds(t, c, l) /\ t.slot = m.slot
    BY <2>1, <2>12
  <2> QED BY <2>5, <2>13, <2>14, KeptOn DEF t
<1>6. CASE ~InUse(s, n) /\ n # s.dv[l]
  <2> DEFINE m == PickChunk(s, n)
             loose == mine \cup {n}
  <2>1. t = Merge(m, c, n)
    BY <1>6 DEF MergeNext
  <2> HIDE DEF n, one, t
  <2>2. PICK b \in Bins : n \in ToSet(s.bin[l][b])
    BY <1>1, <1>3, <1>6, FreeInBin
  <2>3. /\ Heap(m, loose, one, own) /\ Kept(s, m) /\ Alike(s, m)
        /\ m.dv = s.dv /\ m.slot = s.slot
        /\ \A d \in DOMAIN s.mem : InUse(m, d) <=> InUse(s, d)
    BY <1>3, <2>2, Picked
  <2> HIDE DEF m
  <2>4. /\ Inner(m) = Inner(s) /\ NextOf(m, c) = n /\ Level(m, c) = l /\ ~Has(m, c, "DIRECT")
    BY <1>1, <2>3, SameChunks DEF Holds, n
  <2>5. Holds(m, c, l)
    BY <1>1, <2>3, <2>4 DEF Holds
  <2>6. n \in loose /\ (c \in loose \/ c = m.dv[l]) /\ loose \ {n} = Mine(m, c, l)
    BY <1>1, <1>3, <2>3 DEF mine, Mine
  <2> HIDE DEF loose
  <2>7. LET w == Merge(m, c, n) IN
           /\ Heap(w, Mine(w, c, l), {}, own) /\ Kept(m, w) /\ Holds(w, c, l)
           /\ w.slot = m.slot
    BY <1>1, <2>3, <2>4, <2>5, <2>6, NextMergedWith DEF one
  <2>8. Heap(t, Mine(t, c, l), {}, own) /\ Kept(m, t) /\ Holds(t, c, l) /\ t.slot = m.slot
    BY <2>1, <2>7
  <2> QED BY <2>3, <2>8, KeptOn DEF t
<1> QED BY <1>4, <1>5, <1>6

\* merge_and_release: the chunk comes back merged, to a bin, to dv_, or as a block.
LEMMA Released ==
    ASSUME NEW s, NEW own, NEW c, NEW l \in Levels,
           Heap(s, {c}, {c, FrontOf(s, c)}, own), ~Has(s, c, "DIRECT"), Level(s, c) = l
    PROVE  LET t == MergeAndRelease(s, c, l) IN
           Heap(t, {}, {}, own) /\ Kept(s, t)
<1> DEFINE f == MergeFront(s, c, l)
           d == f.c
           m == MergeNext(f.s, d, l)
           t == MergeAndRelease(s, c, l)
<1>1. Heap(f.s, Mine(f.s, d, l), {d}, own) /\ Kept(s, f.s) /\ Holds(f.s, d, l)
  BY FrontMerged
<1> HIDE DEF f, d
<1>2. Heap(m, Mine(m, d, l), {}, own) /\ Kept(f.s, m) /\ Holds(m, d, l)
  BY <1>1, NextMerged
<1>3. \/ d = m.dv[l] /\ t = m
      \/ d # m.dv[l] /\ WholeBlock(m, d) /\ t = FreeBlock(m, d[1])
      \/ d # m.dv[l] /\ ~WholeBlock(m, d)
         /\ t = IF Has(m, d, "BIG") THEN PushBig(m, d) ELSE PushSmall(m, d)
  BY DEF MergeAndRelease, f, d
<1> HIDE DEF m, t
<1>4. Kept(s, m)
  BY <1>1, <1>2, KeptOn
<1>5. CASE d = m.dv[l] /\ t = m
  BY <1>2, <1>4, <1>5 DEF Mine, t
<1>6. CASE d # m.dv[l]
  <2> DEFINE one == {d}
             none == {}
  <2>1. Heap(m, one, none, own) /\ d \in one /\ one \ {d} = {} /\ ~Has(m, d, "DIRECT")
    BY <1>2, <1>6 DEF Mine, Holds
  <2>2. \A x \in none : x[1] = d[1]
    OBVIOUS
  <2> HIDE DEF one, none
  <2>3. CASE WholeBlock(m, d) /\ t = FreeBlock(m, d[1])
    <3>1. Shape(m) /\ d \in Inner(m) /\ This(m, d) \in Nat /\ m.size[d[1]] = DEFAULT_BLOCK_SIZE
      BY <1>2, HeldChunk
    <3>2. \A x \in Inner(m) : x[1] = d[1] => This(m, x) >= 2 * FINE
      BY <3>1, InnerChunk
    <3>3. This(m, d) > m.size[d[1]] - BlockOverhead - 2 * FINE /\ 2 * FINE \in Nat
      BY <2>3, <3>1, Grains DEF WholeBlock
    <3>4. \A x \in Inner(m) : x[1] = d[1] => x = d
      BY <3>1, <3>2, <3>3, Alone
    <3>5. Heap(FreeBlock(m, d[1]), one \ {d}, {}, own) /\ Kept(m, FreeBlock(m, d[1]))
      BY <2>1, <2>2, <3>4, BlockFreed
    <3> QED BY <1>4, <2>1, <2>3, <3>5, KeptOn DEF t
  <2>4. CASE ~WholeBlock(m, d) /\ t = IF Has(m, d, "BIG") THEN PushBig(m, d) ELSE PushSmall(m, d)
    <3>1. t = PushChunk(m, d, BinOf(m, d))
      BY <2>4 DEF PushBig, PushSmall, BinOf, Level
    <3>2. Heap(PushChunk(m, d, BinOf(m, d)), one \ {d}, none, own)
          /\ Kept(m, PushChunk(m, d, BinOf(m, d)))
      BY <2>1, <2>4, Pushed
    <3> QED BY <1>4, <2>1, <3>1, <3>2, KeptOn DEF t, none
  <2> QED BY <1>3, <1>6, <2>3, <2>4
<1> QED BY <1>3, <1>5, <1>6

\* u is s with chunk c marked free; the sums of bytes and calls may differ.
OnlyOut(s, c, u) ==
    /\ DOMAIN u = Fields /\ u.mem = Unused(s, c).mem /\ SameSlots(s, u)
    /\ \A f \in Fields \ {"mem", "bytes", "counter", "slot"} : u[f] = s[f]

\* What that leaves: chunk c is free, in no list, and may have free
\* neighbours until it is merged; nothing else changes.
Settled(s, own) == Heap(s, {}, {}, own)
WithOut(s, c, u, own) ==
    /\ Heap(u, {c}, {c, FrontOf(u, c)}, own) /\ SameRest(s, u)
    /\ Level(u, c) = Level(s, c) /\ Inner(u) = Inner(s) /\ FrontOf(u, c)[1] = c[1]
    /\ \A f \in {"BIG", "DIRECT", "SLOT"} : Has(u, c, f) <=> Has(s, c, f)
    /\ UsedBy(u) = UsedBy(s) \ {c}
    /\ \A d \in UsedBy(u) : This(u, d) = This(s, d)

\* A chunk in use, marked free.
LEMMA TakenOut ==
    ASSUME NEW s, NEW own, Settled(s, own), NEW c \in UsedBy(s), NEW u, OnlyOut(s, c, u)
    PROVE  WithOut(s, c, u, own)
<1>00. Heap(s, {}, {}, own)
  BY DEF Settled
<1>0. /\ DOMAIN u = Fields /\ u.mem = Unused(s, c).mem /\ SameSlots(s, u)
      /\ \A f \in Fields \ {"mem", "bytes", "counter", "slot"} : u[f] = s[f]
  BY DEF OnlyOut
<1>1. Shape(s) /\ c \in Inner(s) /\ c \in DOMAIN s.mem /\ DOMAIN s = Fields
  BY <1>00 DEF Heap, UsedBy, Inner, Shape, Memory
<1>2. \A x \in DOMAIN s.mem : HeaderOK(s.mem[x])
  BY <1>00 DEF Heap, Shape, Memory
<1>3. /\ DOMAIN u.mem = DOMAIN s.mem
      /\ \A x \in DOMAIN s.mem : x # c => u.mem[x] = s.mem[x]
      /\ u.mem[c] = [[[s.mem[c] EXCEPT !.flags = @ \ {"USED"}] EXCEPT !.color = 0] EXCEPT !.bin = 0]
  BY <1>0, <1>1 DEF Unused, Fields
<1>4. /\ HeaderOK(u.mem[c]) /\ Kindred(u.mem[c], s.mem[c])
      /\ u.mem[c].flags = s.mem[c].flags \ {"USED"}
  <2>1. 0 \in Bins
    BY Bounds DEF Bins
  <2> QED BY <1>1, <1>2, <1>3, <2>1 DEF HeaderOK, Kindred
<1>5. Alike(s, u)
  <2>1. u.size = s.size /\ u.used = s.used /\ u.reserve = s.reserve
    BY <1>0 DEF Fields
  <2> QED BY <1>0, <1>1, <1>2, <1>3, <1>4, <2>1 DEF Alike, Kindred
<1>6. SameLists(s, u) /\ SameRest(s, u)
  BY <1>0 DEF SameLists, SameRest, Fields
<1>7. ~InUse(u, c)
  BY <1>4 DEF InUse, Has
<1> DEFINE none == {}
<1>8. Heap(s, none, none, own) /\ none \cup {c} = {c}
      /\ none \cup {c, FrontOf(s, c)} = {c, FrontOf(s, c)}
  BY <1>00
<1> HIDE DEF none
<1>9. /\ Heap(u, none \cup {c}, none \cup {c, FrontOf(s, c)}, own)
      /\ UsedBy(u) = UsedBy(s) \ {c}
      /\ \A d \in UsedBy(u) : This(u, d) = This(s, d)
  BY <1>0, <1>3, <1>5, <1>6, <1>7, <1>8, TakenBack
<1>10. /\ FrontOf(u, c) = FrontOf(s, c) /\ Level(u, c) = Level(s, c) /\ Inner(u) = Inner(s)
       /\ \A f \in {"BIG", "DIRECT", "SLOT"} : Has(u, c, f) <=> Has(s, c, f)
  BY <1>1, <1>5, SameChunks
<1>11. FrontOf(s, c)[1] = c[1]
  BY DEF FrontOf
<1>12. Heap(u, {c}, {c, FrontOf(u, c)}, own)
  BY <1>8, <1>9, <1>10
<1>13. /\ SameRest(s, u)
       /\ Level(u, c) = Level(s, c) /\ Inner(u) = Inner(s) /\ FrontOf(u, c)[1] = c[1]
       /\ \A f \in {"BIG", "DIRECT", "SLOT"} : Has(u, c, f) <=> Has(s, c, f)
       /\ UsedBy(u) = UsedBy(s) \ {c}
       /\ \A d \in UsedBy(u) : This(u, d) = This(s, d)
  BY <1>6, <1>9, <1>10, <1>11
<1> QED BY ONLY <1>12, <1>13 DEF WithOut

\* The chunk as free_memory and free_slot take it back, before they merge it.
MemoryBack(s, c, bytes, counter) ==
    [Unused(s, c) EXCEPT !.bytes = bytes, !.counter = counter]
SlotBack(s, c, id, bytes, part) ==
    [Unused(s, c) EXCEPT !.bytes = bytes, !.slot[id].bytes = part]

\* free_memory: the chunk leaves what is in use and nothing else does.
LEMMA MemoryFreed ==
    ASSUME NEW s, NEW own, Heap(s, {}, {}, own), NEW c \in UsedBy(s), ~Has(s, c, "SLOT"),
           NEW bytes, NEW counter
    PROVE  LET u == MemoryBack(s, c, bytes, counter)
               t == IF Has(s, c, "DIRECT") THEN FreeBlock(u, c[1])
                    ELSE MergeAndRelease(u, c, Level(u, c))
           IN  /\ Heap(t, {}, {}, own) /\ SameRest(s, t)
               /\ UsedBy(t) = UsedBy(s) \ {c}
               /\ \A d \in UsedBy(t) : This(t, d) = This(s, d)
<1> DEFINE u == MemoryBack(s, c, bytes, counter)
           t == IF Has(s, c, "DIRECT") THEN FreeBlock(u, c[1])
                ELSE MergeAndRelease(u, c, Level(u, c))
           open == {c, FrontOf(u, c)}
           one == {c}
<1>1. DOMAIN s = Fields
  BY DEF Heap, Shape, Memory
<1>2. /\ DOMAIN u = Fields /\ u.mem = Unused(s, c).mem /\ SameSlots(s, u)
      /\ \A f \in Fields \ {"mem", "bytes", "counter", "slot"} : u[f] = s[f]
  BY <1>1 DEF MemoryBack, Unused, Fields, SameSlots
<1>t. t = IF Has(s, c, "DIRECT") THEN FreeBlock(u, c[1]) ELSE MergeAndRelease(u, c, Level(u, c))
  OBVIOUS
<1> HIDE DEF u, t
<1>o. OnlyOut(s, c, u)
  BY <1>2 DEF OnlyOut
<1>q. one = {c} /\ open = {c, FrontOf(u, c)}
  OBVIOUS
<1>3. /\ Heap(u, one, open, own) /\ SameRest(s, u)
      /\ Level(u, c) = Level(s, c) /\ Inner(u) = Inner(s) /\ FrontOf(u, c)[1] = c[1]
      /\ \A f \in {"BIG", "DIRECT", "SLOT"} : Has(u, c, f) <=> Has(s, c, f)
      /\ UsedBy(u) = UsedBy(s) \ {c}
      /\ \A d \in UsedBy(u) : This(u, d) = This(s, d)
  <2>1. Settled(s, own)
    BY DEF Settled
  <2>2. WithOut(s, c, u, own)
    BY ONLY <1>o, <2>1, c \in UsedBy(s), TakenOut
  <2> QED BY ONLY <2>2, <1>q DEF WithOut
<1>4. Heap(t, {}, {}, own) /\ Kept(u, t)
  <2>1. CASE Has(s, c, "DIRECT")
    <3>1. Shape(u) /\ c \in Inner(u) /\ Room(u, own) /\ c \in DOMAIN u.mem
      BY <1>3 DEF Heap, UsedBy, Inner
    <3>2. Fills(u, c)
      BY <1>3, <2>1, <3>1 DEF Room
    <3>3. \A x \in Inner(u) : x[1] = c[1] => This(u, x) >= 2 * FINE
      BY <3>1, InnerChunk
    <3>4. u.size[c[1]] \in Nat
      BY <3>1, Headers
    <3>5. This(u, c) > u.size[c[1]] - BlockOverhead - 2 * FINE /\ 2 * FINE \in Nat
      BY <3>2, <3>4, Grains DEF Fills
    <3>6. \A x \in Inner(u) : x[1] = c[1] => x = c
      BY <3>1, <3>3, <3>5, Alone
    <3>7. c \in one /\ \A x \in open : x[1] = c[1]
      BY <1>3
    <3>8. one \ {c} = {}
      OBVIOUS
    <3> HIDE DEF one, open
    <3>9. Heap(FreeBlock(u, c[1]), one \ {c}, {}, own) /\ Kept(u, FreeBlock(u, c[1]))
      BY <1>3, <3>6, <3>7, BlockFreed
    <3> QED BY <1>t, <2>1, <3>8, <3>9
  <2>2. CASE ~Has(s, c, "DIRECT")
    <3>1. ~Has(u, c, "DIRECT") /\ Level(u, c) \in Levels
      BY <1>3, <2>2 DEF Level, Levels
    <3>2. Heap(MergeAndRelease(u, c, Level(u, c)), {}, {}, own)
          /\ Kept(u, MergeAndRelease(u, c, Level(u, c)))
      BY <1>3, <3>1, Released
    <3> QED BY <1>3, <1>t, <2>2, <3>2
  <2> QED BY <2>1, <2>2
<1> QED BY <1>3, <1>4 DEF Kept, SameRest, t, u

-----------------------------------------------------------------------------
(* clear_cache and check_health *)

\* dv_ is released when it is a whole block.
LEMMA DvReleased ==
    ASSUME NEW s, NEW own, Heap(s, {}, {}, own), NEW l \in Levels
    PROVE  Heap(DropDv(s, l), {}, {}, own) /\ Kept(s, DropDv(s, l))
<1> DEFINE c == s.dv[l]
           u == [s EXCEPT !.dv[l] = NULL]
           none == {}
           two == {c, FrontOf(u, c)}
<1>1. CASE c = NULL
  BY <1>1 DEF DropDv, Kept
<1>2. CASE c # NULL
  <2>1. DOMAIN s = Fields /\ s.dv \in [Levels -> Address \cup {NULL}]
    BY DEF Heap, Lists, Object, Shape, Memory
  <2>2. /\ SameMem(s, u) /\ u.bin = s.bin /\ u.bitmap = s.bitmap /\ u.slot_bin = s.slot_bin
        /\ u.dv = [s.dv EXCEPT ![l] = NULL] /\ SameRest(s, u)
    BY <2>1 DEF SameMem, SameSlots, SameRest, Fields
  <2>3. Heap(s, none, none, own) /\ none \cup {c} = {c} /\ \A x \in none : x \in two
    OBVIOUS
  <2>4. c \in Inner(s) /\ Level(s, c) = l /\ ~Has(s, c, "DIRECT")
    BY <1>2, DvMember
  <2>5. DropDv(s, l) = MergeAndRelease(u, c, l)
    BY <1>2 DEF DropDv
  <2> HIDE DEF u, c, none, two
  <2>6. Heap(u, none \cup {c}, none, own)
    BY <1>2, <2>2, <2>3, DvDropped DEF c
  <2>7. Heap(u, {c}, two, own)
    BY <2>3, <2>6, OpenLess
  <2>8. Level(u, c) = l /\ ~Has(u, c, "DIRECT")
    BY <2>2, <2>4 DEF SameMem, Level, Has
  <2>9. Heap(MergeAndRelease(u, c, l), {}, {}, own) /\ Kept(u, MergeAndRelease(u, c, l))
    BY <2>7, <2>8, Released DEF two
  <2>10. UsedBy(u) = UsedBy(s) /\ \A d \in UsedBy(s) : This(u, d) = This(s, d)
    BY <2>2, <2>3, SameMemory
  <2>11. Kept(s, u)
    BY <2>2, <2>10 DEF Kept, SameRest
  <2> QED BY <2>5, <2>9, <2>11, KeptOn
<1> QED BY <1>1, <1>2

\* The blocks in reserve are given back.
LEMMA ReserveDropped ==
    ASSUME NEW s, NEW own, Heap(s, {}, {}, own), NEW t, DOMAIN t = Fields,
           t.reserve = <<>>, t.size = Without(s.size, ToSet(s.reserve)),
           \A f \in Fields \ {"reserve", "size"} : t[f] = s[f]
    PROVE  Heap(t, {}, {}, own) /\ Kept(s, t)
<1> DEFINE none == {}
<1>1. Shape(s) /\ Heap(s, none, none, own)
  BY DEF Heap
<1>2. /\ t.mem = s.mem /\ t.used = s.used /\ t.slot = s.slot /\ SameLists(s, t) /\ SameRest(s, t)
  BY DEF Fields, SameLists, SameRest
<1>3. /\ s.used \in Seq(BlockIds)
      /\ IsInjective(s.used) /\ ToSet(s.used) \cap ToSet(s.reserve) = {}
      /\ DOMAIN s.size = ToSet(s.used) \cup ToSet(s.reserve)
      /\ \A b \in DOMAIN s.size : s.size[b] \in Nat /\ s.size[b] % FINE = 0
      /\ \A b \in ToSet(s.used) : Edges(s, b)
  BY <1>1 DEF Shape, Blocks
<1>4. DOMAIN t.size = ToSet(s.used) /\ \A b \in ToSet(s.used) : t.size[b] = s.size[b]
  BY <1>3 DEF Without
<1>5. \A c \in DOMAIN s.mem : c[1] \in ToSet(s.used) /\ t.size[c[1]] = s.size[c[1]]
  BY <1>1, <1>4, Headers
<1>6. \A c \in DOMAIN s.mem :
        /\ This(t, c) = This(s, c) /\ NextOf(t, c) = NextOf(s, c) /\ FrontOf(t, c) = FrontOf(s, c)
        /\ (IsTail(t, c) <=> IsTail(s, c)) /\ (Between(t, c) <=> Between(s, c))
        /\ \A f \in Flags : Has(t, c, f) <=> Has(s, c, f)
  BY <1>2, <1>5 DEF This, NextOf, FrontOf, IsTail, Between, Has
<1>7. Blocks(t)
  <2>1. <<>> \in Seq(BlockIds) /\ IsInjective(<<>>) /\ ToSet(<<>>) = {}
        /\ Len(<<>>) <= MaxReserve
    BY Empty, ZMallocAssumption
  <2>2. \A b \in ToSet(s.used) : Edges(t, b)
    <3> SUFFICES ASSUME NEW b \in ToSet(s.used) PROVE Edges(t, b)
      OBVIOUS
    <3>1. Edges(s, b) /\ t.size[b] = s.size[b] /\ TailChunk(t, b) = TailChunk(s, b)
      BY <1>3, <1>4 DEF TailChunk
    <3> QED BY <1>2, <3>1 DEF Edges, This, InUse, Has
  <2> QED BY <1>2, <1>3, <1>4, <2>1, <2>2 DEF Blocks
<1>8. Chain(t)
  <2>1. Chain(s)
    BY <1>1 DEF Shape
  <2> QED BY <1>2, <1>5, <1>6, <2>1 DEF Chain, This
<1>9. Memory(t)
  BY <1>1, <1>2 DEF Shape, Memory
<1>10. Inner(t) = Inner(s) /\ Inner(s) \subseteq DOMAIN s.mem
  BY <1>2, <1>6 DEF Inner
<1>11. SlotSizes(t)
  BY <1>2 DEF Heap, SlotSizes
<1>12. Room(t, own)
  <2> SUFFICES ASSUME NEW x \in Inner(s)
        PROVE  /\ Has(t, x, "BIG") /\ ~Has(t, x, "SLOT") => This(t, x) >= BIG_LEAST_SIZE
               /\ Has(t, x, "DIRECT") /\ ~Has(t, x, "SLOT") => Fills(t, x)
               /\ Has(t, x, "SLOT") => OfSlot(t, x, own[x[1]])
    BY <1>10 DEF Room
  <2> QED BY <1>2, <1>5, <1>6, <1>10 DEF Heap, Room, Fills, OfSlot, Flags, InUse
<1>13. Object(t) /\ Binned(t, none) /\ DvSound(t, none) /\ SlotListed(t, none, own)
  <2>1. \A i \in SlotIds : t.slot[i].user = s.slot[i].user /\ t.slot[i].max = s.slot[i].max
    BY <1>2
  <2>2. \A x \in Inner(s) : InUse(s, x) \/ x \in none \/
              /\ x \in Inner(t) /\ t.mem[x].flags = s.mem[x].flags /\ x \notin none
              /\ own[x[1]] = own[x[1]]
              /\ (\E l \in Levels : x = s.dv[l]) \/ (This(t, x) = This(s, x)
                                                     /\ t.mem[x].bin = s.mem[x].bin)
    BY <1>2, <1>6, <1>10
  <2> HIDE DEF none
  <2> QED BY <1>1, <1>2, <1>11, <2>1, <2>2, ListsKept
<1>14. Found(t, none)
  <2>1. \A x \in Inner(s) : InUse(t, x) <=> InUse(s, x)
    BY <1>2 DEF InUse, Has
  <2> QED BY <1>2, <1>10, <2>1 DEF Heap, Lists, Found, SameLists
<1>15. Apart(t, none)
  BY <1>2, <1>6, <1>10 DEF Heap, Apart, InUse, Has
<1>16. Kept(s, t)
  BY <1>2, <1>10 DEF Kept, SameRest, UsedBy, InUse, Has, This
<1> QED BY <1>7, <1>8, <1>9, <1>11, <1>12, <1>13, <1>14, <1>15, <1>16 DEF Heap, Shape, Lists

\* clear_cache: no chunk in use is touched.
LEMMA CacheCleared ==
    ASSUME NEW s, NEW own, Heap(s, {}, {}, own)
    PROVE  LET d == DropDv(DropDv(s, 0), 1)
               t == [d EXCEPT !.reserve = <<>>, !.size = Without(@, ToSet(d.reserve))]
           IN  Heap(t, {}, {}, own) /\ Kept(s, t)
<1> DEFINE e == DropDv(s, 0)
           d == DropDv(e, 1)
           t == [d EXCEPT !.reserve = <<>>, !.size = Without(@, ToSet(d.reserve))]
<1>1. Heap(e, {}, {}, own) /\ Kept(s, e)
  BY DvReleased DEF Levels
<1> HIDE DEF e
<1>2. Heap(d, {}, {}, own) /\ Kept(e, d)
  BY <1>1, DvReleased DEF Levels
<1> HIDE DEF d
<1>3. DOMAIN d = Fields
  BY <1>2 DEF Heap, Shape, Memory
<1>4. /\ DOMAIN t = Fields /\ t.reserve = <<>> /\ t.size = Without(d.size, ToSet(d.reserve))
      /\ \A f \in Fields \ {"reserve", "size"} : t[f] = d[f]
  BY <1>3 DEF Fields
<1> HIDE DEF t
<1>5. Heap(t, {}, {}, own) /\ Kept(d, t)
  BY <1>2, <1>4, ReserveDropped
<1>6. Kept(s, t)
  BY <1>1, <1>2, <1>5, KeptOn
<1> QED BY <1>5, <1>6 DEF t, d, e

\* check_health has nothing to count.
LEMMA NoBitmapErrors ==
    ASSUME NEW s, NEW loose, NEW open, NEW own, Heap(s, loose, open, own)
    PROVE  BitmapErrors(s) = 0
<1> DEFINE listed(x) == ToSet(s.bin[x[1]][x[2]])
           all == Levels \X Bins
           bits == {x \in all : (x[2] \in s.bitmap[x[1]]) # (listed(x) # {})}
           bins == UNION {{c \in listed(x) : s.mem[c].bin # x[2]} : x \in all}
           used == UNION {{c \in listed(x) : InUse(s, c)} : x \in all}
<1>1. ASSUME NEW x \in all
      PROVE  /\ (x[2] \in s.bitmap[x[1]]) <=> (listed(x) # {})
             /\ \A c \in listed(x) : s.mem[c].bin = x[2] /\ ~InUse(s, c)
  <2>1. x[1] \in Levels /\ x[2] \in Bins
    OBVIOUS
  <2>2. s.bin[x[1]][x[2]] \in Seq(Address)
    BY <2>1 DEF Heap, Lists, Object
  <2>3. (x[2] \in s.bitmap[x[1]]) <=> (s.bin[x[1]][x[2]] # <<>>)
    BY <2>1 DEF Heap, Lists, Binned
  <2>4. s.bin[x[1]][x[2]] = <<>> <=> listed(x) = {}
    BY <2>2, Empty
  <2>5. \A c \in listed(x) : s.mem[c].bin = x[2] /\ ~InUse(s, c)
    BY <2>1, BinMember
  <2> QED BY <2>3, <2>4, <2>5
<1>2. bits = {} /\ bins = {} /\ used = {}
  BY <1>1
<1>3. BitmapErrors(s) = Cardinality(bits) + Cardinality(bins) + Cardinality(used)
  BY DEF BitmapErrors
<1>4. Cardinality({}) = 0
  BY FS_EmptySet
<1> HIDE DEF bits, bins, used
<1> QED BY <1>2, <1>3, <1>4

-----------------------------------------------------------------------------
(* alloc_memory *)

\* t is s with the chunk c handed out, its header now h.
OutOf(s, t, c, h) ==
    /\ DOMAIN t = Fields /\ \A f \in Fields \ {"mem", "bytes", "counter", "slot"} : t[f] = s[f]
    /\ SameSlots(s, t) /\ t.mem = [s.mem EXCEPT ![c] = h]
    /\ DOMAIN h = {"prev", "this", "flags", "bin", "color"}
    /\ h.prev = s.mem[c].prev /\ h.this = s.mem[c].this /\ h.flags = s.mem[c].flags \cup {"USED"}

\* What a header in use may say of its bin: in a slot the number of the slot.
TagOf(s, c, h, own) ==
    /\ h.bin \in Bins \cup SlotIds
    /\ IF Has(s, c, "SLOT") THEN h.bin = own[c[1]] ELSE h.bin \in Bins

\* A chunk is handed out.
LEMMA GivenOut ==
    ASSUME NEW s, NEW loose, NEW open, NEW own, Heap(s, loose, open, own), NEW c \in loose,
           NEW t, NEW h, OutOf(s, t, c, h), TagOf(s, c, h, own)
    PROVE  /\ Heap(t, loose \ {c}, Shut(s, open, c), own)
           /\ UsedBy(t) = UsedBy(s) \cup {c} /\ c \notin UsedBy(s) /\ SameRest(s, t)
           /\ \A d \in UsedBy(t) : This(t, d) = This(s, d)
<1>1. c \in Inner(s) /\ c \in DOMAIN s.mem /\ ~InUse(s, c)
  BY LooseMember
<1>2. \A x \in DOMAIN s.mem : HeaderOK(s.mem[x])
  BY DEF Heap, Shape, Memory
<1>3. /\ DOMAIN t.mem = DOMAIN s.mem
      /\ \A x \in DOMAIN s.mem : x # c => t.mem[x] = s.mem[x]
      /\ t.mem[c] = h
  BY <1>1 DEF OutOf
<1>4. HeaderOK(h) /\ Kindred(h, s.mem[c])
  BY <1>1, <1>2 DEF HeaderOK, Kindred, OutOf, Flags, Has, TagOf
<1>5. Alike(s, t)
  <2>1. DOMAIN t = Fields /\ t.size = s.size /\ t.used = s.used /\ t.reserve = s.reserve
    BY DEF OutOf, Fields
  <2> QED BY <1>1, <1>2, <1>3, <1>4, <2>1 DEF Alike, Kindred
<1>6. SameLists(s, t) /\ SameSlots(s, t) /\ SameRest(s, t)
  BY DEF OutOf, SameLists, Fields, SameRest
<1>7. InUse(t, c)
  BY <1>3 DEF InUse, Has, OutOf
<1>8. Has(s, c, "SLOT") => t.mem[c].bin = own[c[1]]
  BY <1>3 DEF TagOf
<1>9. \A d \in DOMAIN s.mem : d # c => t.mem[d] = s.mem[d]
  BY <1>3
<1>10. /\ Heap(t, loose \ {c}, Shut(s, open, c), own)
       /\ UsedBy(t) = UsedBy(s) \cup {c} /\ c \notin UsedBy(s)
       /\ \A d \in UsedBy(t) : This(t, d) = This(s, d)
  <2>1. Heap(s, loose, open, own) /\ c \in loose
    OBVIOUS
  <2> QED BY ONLY <1>5, <1>6, <1>7, <1>8, <1>9, <2>1, Handed, SMTT(60)
<1> QED BY <1>6, <1>10

\* What a caller of alloc_memory or alloc_slot gets.
Lends(s, r, req) ==
    /\ \A d \in UsedBy(s) : This(r.s, d) = This(s, d)
    /\ \/ r.c = NULL /\ UsedBy(r.s) = UsedBy(s)
       \/ /\ r.c # NULL /\ r.c \notin UsedBy(s) /\ UsedBy(r.s) = UsedBy(s) \cup {r.c}
          /\ This(r.s, r.c) \in Nat /\ This(r.s, r.c) >= req + CHUNK_PADDING_SIZE

\* The header of the chunk that a caller gets.
LEMMA HandedHeader ==
    ASSUME NEW s, Shape(s), NEW c \in DOMAIN s.mem, NEW bin, NEW color
    PROVE  LET r == HandOut(s, c, bin, color) IN
           r.c = c /\ \E h : OutOf(s, r.s, c, h) /\ h.bin = bin
<1> DEFINE r == HandOut(s, c, bin, color)
           h == [s.mem[c] EXCEPT !.flags = @ \cup {"USED"}, !.color = color, !.bin = bin]
<1>1. DOMAIN s = Fields /\ DOMAIN s.mem[c] = {"prev", "this", "flags", "bin", "color"}
  BY DEF Shape, Memory, HeaderOK
<1>2. /\ DOMAIN h = {"prev", "this", "flags", "bin", "color"} /\ h.bin = bin
      /\ h.prev = s.mem[c].prev /\ h.this = s.mem[c].this /\ h.flags = s.mem[c].flags \cup {"USED"}
  BY <1>1
<1>3. /\ DOMAIN r.s = Fields /\ r.c = c
      /\ \A f \in Fields \ {"mem", "bytes", "counter", "slot"} : r.s[f] = s[f]
      /\ r.s.slot = s.slot
  BY <1>1 DEF HandOut, Fields
<1>4. r.s.mem = [s.mem EXCEPT ![c] = h]
  <2>1. r.s.mem = [[[s.mem EXCEPT ![c].flags = @ \cup {"USED"}] EXCEPT ![c].color = color]
                     EXCEPT ![c].bin = bin]
    BY <1>1 DEF HandOut, Fields
  <2> QED BY <2>1
<1>5. SameSlots(s, r.s)
  BY <1>3 DEF SameSlots
<1> HIDE DEF r, h
<1>6. OutOf(s, r.s, c, h)
  BY <1>2, <1>3, <1>4, <1>5 DEF OutOf
<1> QED BY <1>2, <1>3, <1>6 DEF r

\* alloc_memory hands out a whole chunk,
LEMMA OutHanded ==
    ASSUME NEW s, NEW loose, NEW open, NEW own, Heap(s, loose, open, own), NEW c \in loose,
           NEW bin \in Bins, ~Has(s, c, "SLOT"), NEW color, NEW req \in Nat,
           This(s, c) >= req + CHUNK_PADDING_SIZE
    PROVE  LET r == HandOut(s, c, bin, color) IN
           /\ Heap(r.s, loose \ {c}, Shut(s, open, c), own)
           /\ Lends(s, r, req) /\ SameRest(s, r.s) /\ r.c # NULL
<1> DEFINE r == HandOut(s, c, bin, color)
<1>1. Shape(s) /\ c \in DOMAIN s.mem /\ c # NULL
  BY LooseMember DEF Heap
<1>2. This(s, c) \in Nat
  BY <1>1, Headers
<1>3. r.c = c /\ \E h : OutOf(s, r.s, c, h) /\ h.bin = bin
  BY <1>1, HandedHeader
<1> HIDE DEF r
<1>4. PICK h : OutOf(s, r.s, c, h) /\ h.bin = bin
  BY <1>3
<1>5. /\ Heap(r.s, loose \ {c}, Shut(s, open, c), own)
      /\ UsedBy(r.s) = UsedBy(s) \cup {c} /\ c \notin UsedBy(s) /\ SameRest(s, r.s)
      /\ \A d \in UsedBy(r.s) : This(r.s, d) = This(s, d)
  <2> DEFINE t == r.s
  <2>1. OutOf(s, t, c, h)
    BY <1>4
  <2>3. TagOf(s, c, h, own)
    BY <1>4 DEF TagOf
  <2> HIDE DEF t
  <2>2. /\ Heap(t, loose \ {c}, Shut(s, open, c), own)
        /\ UsedBy(t) = UsedBy(s) \cup {c} /\ c \notin UsedBy(s) /\ SameRest(s, t)
        /\ \A d \in UsedBy(t) : This(t, d) = This(s, d)
    BY <2>1, <2>3, GivenOut
  <2> QED BY <2>2 DEF t
<1>6. Lends(s, r, req)
  BY <1>1, <1>2, <1>3, <1>5 DEF Lends
<1> QED BY <1>1, <1>3, <1>5, <1>6 DEF r

\* or the rear part of one.
LEMMA CarvedOut ==
    ASSUME NEW s, NEW loose, NEW own, Heap(s, loose, {}, own),
           NEW c \in Inner(s), ~InUse(s, c),
           c \in loose \/ \E l \in Levels : c = s.dv[l], ~Has(s, c, "DIRECT"),
           NEW size \in Nat, size >= 2 * FINE, This(s, c) >= size + 2 * FINE,
           Has(s, c, "BIG") => size >= BIG_LEAST_SIZE /\ This(s, c) >= size + BIG_LEAST_SIZE,
           NEW bin \in Bins, NEW color, NEW req \in Nat, size >= req + CHUNK_PADDING_SIZE
    PROVE  LET r == CarveOut(s, c, size, bin, color) IN
           /\ Heap(r.s, loose, {}, own) /\ Lends(s, r, req) /\ SameRest(s, r.s)
<1> DEFINE t == ExploitNewChunk(s, c, size)
           n == NewChunk(s, c, size)
           r == CarveOut(s, c, size, bin, color)
           none == {}
<1>1. Shape(s) /\ Heap(s, loose, none, own) /\ c \notin none /\ c \in DOMAIN s.mem
  BY DEF Heap, Inner
<1>2. ~Has(s, c, "SLOT")
  BY <1>1, Kind
<1>3. none \cup {c} = {c}
  OBVIOUS
<1>4. r = HandOut(t, n, bin, color)
  BY DEF CarveOut
<1> HIDE DEF none
<1>5. /\ Heap(t, loose \cup {n}, none \cup {c}, own) /\ Kept(s, t)
      /\ n \in Inner(t) /\ n \notin Inner(s) /\ NextOf(t, c) = n /\ This(t, n) = size
      /\ c # n
      /\ \A f \in Flags : (Has(t, n, f) <=> Has(s, c, f)) /\ (Has(t, c, f) <=> Has(s, c, f))
  BY <1>1, <1>2, Cut
<1> DEFINE held == loose \cup {n}
           open == none \cup {c}
<1>6. Heap(t, held, open, own) /\ n \in held
  BY <1>5
<1>7. held \ {n} = loose
  <2>1. n \notin loose
    BY <1>5 DEF Heap, Lists, Found, Free
  <2> QED BY <2>1
<1>8. Shut(t, open, n) = {}
  BY <1>3, <1>5 DEF Shut
<1> HIDE DEF t, n, r, held, open
<1>9. ~Has(t, n, "SLOT")
  BY <1>2, <1>5 DEF Flags
<1>10. LET q == HandOut(t, n, bin, color) IN
       /\ Heap(q.s, held \ {n}, Shut(t, open, n), own)
       /\ Lends(t, q, req) /\ SameRest(t, q.s) /\ q.c # NULL
  BY <1>5, <1>6, <1>9, OutHanded
<1>11. Heap(r.s, loose, {}, own) /\ Lends(t, r, req) /\ SameRest(t, r.s)
  BY <1>4, <1>7, <1>8, <1>10
<1>12. Lends(s, r, req) /\ SameRest(s, r.s)
  BY <1>5, <1>11 DEF Lends, Kept, SameRest
<1> QED BY <1>11, <1>12 DEF r

\* What Fetch gives to a request that looks from bin on for size bytes.
FetchedFor(s, f, l, bin) ==
    /\ f.c # NULL /\ f.c \in Inner(f.s) /\ f.c \in DOMAIN f.s.mem
    /\ ~Has(f.s, f.c, "DIRECT") /\ Level(f.s, f.c) = l
    /\ f.s.dv = s.dv /\ Kept(s, f.s)
    /\ \A d \in Inner(s) : This(f.s, d) = This(s, d)
    /\ \/ This(f.s, f.c) = DEFAULT_BLOCK_SIZE - 6 * FINE
       \/ \E b \in s.bitmap[l] : b >= bin /\ b \in Bins /\ b = BinOf(f.s, f.c)
    /\ \E to \in [BlockIds -> Nat] : Heap(f.s, {f.c}, {}, to)

\* What Fetch finds has the size that was asked for and leaves its bin.
LEMMA Fetched ==
    ASSUME NEW s, NEW own \in [BlockIds -> Nat], Heap(s, {}, {}, own), NEW l \in Levels,
           NEW bin \in Nat, NEW size
    PROVE  LET f == Fetch(s, l, bin, size) IN
           (f.c = NULL /\ f.s = s) \/ FetchedFor(s, f, l, bin)
<1> DEFINE above == {b \in s.bitmap[l] : b >= bin}
           f == Fetch(s, l, bin, size)
           c == Head(s.bin[l][Min(above)])
<1>1. Shape(s) /\ s.bitmap \in [Levels -> SUBSET Bins] /\ s.bin \in [Levels -> [Bins -> Seq(Address)]]
  BY DEF Heap, Lists, Object
<1>2. above \subseteq Nat /\ above \subseteq s.bitmap[l] /\ above \subseteq Bins
  BY <1>1 DEF Bins
<1>3. CASE above # {}
  <2>1. Min(above) \in above
    BY <1>2, <1>3, MinOf
  <2> DEFINE b == Min(above)
  <2>2. f.s = PickChunk(s, c) /\ f.c = c
    BY <1>3 DEF Fetch
  <2>3. b \in Bins /\ b \in s.bitmap[l] /\ b >= bin
    BY <1>2, <2>1
  <2>4. s.bin[l][b] # <<>> /\ s.bin[l][b] \in Seq(Address) /\ IsInjective(s.bin[l][b])
    BY <1>1, <2>3 DEF Heap, Lists, Binned
  <2>5. c \in ToSet(s.bin[l][b])
    BY <2>4, Tailed
  <2>6. /\ c \in Inner(s) /\ c \in DOMAIN s.mem /\ ~Has(s, c, "DIRECT")
        /\ Level(s, c) = l /\ b = BinOf(s, c)
    BY <2>3, <2>5, BinMember
  <2>7. c # NULL
    BY <1>1, <2>6, Headers
  <2> DEFINE t == PickChunk(s, c)
             none == {}
  <2>8. Heap(s, none, none, own) /\ none \cup {c} = {c}
    OBVIOUS
  <2> HIDE DEF b, c, none, f, above
  <2>9. Heap(t, none \cup {c}, none, own) /\ Kept(s, t) /\ Alike(s, t) /\ t.dv = s.dv
    BY <2>3, <2>5, <2>8, Picked
  <2> HIDE DEF t
  <2>10. /\ Inner(t) = Inner(s) /\ DOMAIN t.mem = DOMAIN s.mem
         /\ \A d \in DOMAIN s.mem : This(t, d) = This(s, d)
         /\ Level(t, c) = l /\ BinOf(t, c) = b /\ ~Has(t, c, "DIRECT")
    BY <2>6, <2>9, SameChunks
  <2>11. Heap(t, {c}, {}, own)
    BY <2>8, <2>9 DEF none
  <2>12. \A d \in Inner(s) : This(t, d) = This(s, d)
    BY <2>10 DEF Inner
  <2>13. f.s = t /\ f.c = c
    BY <2>2 DEF t
  <2> QED BY <2>3, <2>6, <2>7, <2>9, <2>10, <2>11, <2>12, <2>13 DEF f, FetchedFor
<1>4. CASE above = {}
  <2> DEFINE flags == IF l = 1 THEN {"BIG"} ELSE {}
             n == BlockBytes(size, flags)
  <2>1. f = AllocBlock(s, size, flags)
    BY <1>4 DEF Fetch
  <2>2. n = DEFAULT_BLOCK_SIZE
    <3>1. "DIRECT" \notin flags
      OBVIOUS
    <3> HIDE DEF flags
    <3> QED BY <3>1 DEF BlockBytes
  <2>3. BlockFits(s, n, flags, 0)
    <3>1. "USED" \notin flags /\ "DIRECT" \notin flags /\ "SLOT" \notin flags
      OBVIOUS
    <3>2. flags \cup {"USED"} \in Kinds
      BY DEF Kinds
    <3>3. DEFAULT_BLOCK_SIZE >= BIG_LEAST_SIZE + BlockOverhead
      BY Bounds
    <3> HIDE DEF flags
    <3> QED BY <2>2, <3>1, <3>2, <3>3, Grains, DefaultGrains DEF BlockFits
  <2> DEFINE r == AllocBlock(s, size, flags)
  <2>4. "DIRECT" \notin flags /\ (l = 1 <=> "BIG" \in flags)
    OBVIOUS
  <2> DEFINE zero == 0
  <2>0. n = BlockBytes(size, flags) /\ zero \in Nat /\ BlockFits(s, n, flags, zero)
    BY <2>3
  <2> HIDE DEF flags, n, zero
  <2>5. Added(s, r, n, flags, zero)
    BY <2>0, BlockAdded
  <2> HIDE DEF r, f
  <2>6. CASE r.c = NULL /\ r.s = s
    BY <2>1, <2>6 DEF r, f
  <2>7. ASSUME NEW to \in [BlockIds -> Nat],
             Heap(r.s, {r.c}, {}, to), Kept(s, r.s), SameLists(s, r.s), r.c # NULL,
             r.c \in Inner(r.s), This(r.s, r.c) = n - 6 * FINE,
             \A g \in Flags : Has(r.s, r.c, g) <=> g \in flags,
             \A x \in Inner(s) : x \in Inner(r.s) /\ x \in DOMAIN s.mem /\ r.s.mem[x] = s.mem[x]
        PROVE /\ r.c # NULL /\ r.c \in Inner(r.s) /\ r.c \in DOMAIN r.s.mem
              /\ ~Has(r.s, r.c, "DIRECT") /\ Level(r.s, r.c) = l
              /\ r.s.dv = s.dv /\ Kept(s, r.s)
              /\ \A d \in Inner(s) : This(r.s, d) = This(s, d)
              /\ This(r.s, r.c) = DEFAULT_BLOCK_SIZE - 6 * FINE
    <3>1. ~Has(r.s, r.c, "DIRECT") /\ Level(r.s, r.c) = l
      BY <2>4, <2>7 DEF Level, Flags, Levels
    <3>2. r.c \in DOMAIN r.s.mem /\ r.s.dv = s.dv
      BY <2>7 DEF Inner, SameLists
    <3>3. \A d \in Inner(s) : This(r.s, d) = This(s, d)
      BY <2>7 DEF This
    <3> QED BY <2>2, <2>7, <3>1, <3>2, <3>3
  <2>8. r = f
    BY <2>1 DEF r
  <2>9. CASE r.c # NULL
    <3>1. PICK to \in [BlockIds -> Nat] :
             /\ Heap(r.s, {r.c}, {}, to) /\ Kept(s, r.s) /\ SameLists(s, r.s)
             /\ r.s.slot = s.slot /\ r.c # NULL
             /\ r.c \notin Inner(s) /\ r.c \in Inner(r.s) /\ This(r.s, r.c) = n - 6 * FINE
             /\ \A g \in Flags : Has(r.s, r.c, g) <=> g \in flags
             /\ \A x \in Inner(s) : x \in Inner(r.s) /\ x \in DOMAIN s.mem /\ r.s.mem[x] = s.mem[x]
             /\ to[r.c[1]] = zero
      BY <2>5, <2>9 DEF Added
    <3>2. /\ r.c # NULL /\ r.c \in Inner(r.s) /\ r.c \in DOMAIN r.s.mem
          /\ ~Has(r.s, r.c, "DIRECT") /\ Level(r.s, r.c) = l
          /\ r.s.dv = s.dv /\ Kept(s, r.s)
          /\ \A d \in Inner(s) : This(r.s, d) = This(s, d)
          /\ This(r.s, r.c) = DEFAULT_BLOCK_SIZE - 6 * FINE
      BY <2>7, <3>1
    <3>3. Heap(r.s, {r.c}, {}, to)
      BY <3>1
    <3> HIDE <3>1
    <3> QED BY <2>8, <3>2, <3>3 DEF f, FetchedFor
  <2> QED BY <2>5, <2>6, <2>9 DEF Added
<1> QED BY <1>3, <1>4

PushedMem(m, c, b) == [m EXCEPT ![c].bin = b, ![c].flags = @ \ {"USED"}]
PushedBin(q, l, c, b) == [q EXCEPT ![l][b] = <<c>> \o @]
PushedBit(q, l, b) == [q EXCEPT ![l] = @ \cup {b}]

PushedTo(s, t, c, b) ==
    /\ DOMAIN t = Fields
    /\ t.mem = PushedMem(s.mem, c, b) /\ t.bin = PushedBin(s.bin, Level(s, c), c, b)
    /\ t.bitmap = PushedBit(s.bitmap, Level(s, c), b)
    /\ \A f \in Fields \ {"mem", "bin", "bitmap"} : t[f] = s[f]
    /\ t.dv = s.dv

\* push_chunk, field by field.
LEMMA PushFields ==
    ASSUME NEW s, DOMAIN s = Fields, NEW c, NEW b
    PROVE  PushedTo(s, PushChunk(s, c, b), c, b)
<1> DEFINE t == PushChunk(s, c, b)
           l == Level(s, c)
<1>1. /\ DOMAIN t = Fields /\ \A f \in Fields \ {"mem", "bin", "bitmap"} : t[f] = s[f]
      /\ t.dv = s.dv
  BY DEF PushChunk, Fields
<1>2. t.mem = PushedMem(s.mem, c, b)
  <2>1. t.mem = [s.mem EXCEPT ![c].bin = b, ![c].flags = @ \ {"USED"}]
    BY DEF PushChunk, Fields
  <2> QED BY <2>1 DEF PushedMem
<1>3. t.bin = PushedBin(s.bin, l, c, b)
  <2>1. t.bin = [s.bin EXCEPT ![l][b] = <<c>> \o @]
    BY DEF PushChunk, Fields
  <2> QED BY <2>1 DEF PushedBin
<1>4. t.bitmap = PushedBit(s.bitmap, l, b)
  <2>1. t.bitmap = [s.bitmap EXCEPT ![l] = @ \cup {b}]
    BY DEF PushChunk, Fields
  <2> QED BY <2>1 DEF PushedBit
<1> HIDE DEF t, l
<1> QED BY <1>1, <1>2, <1>3, <1>4 DEF t, l, PushedTo

\* Of two chunks of a level the new one becomes dv_, the old one goes to its bin.
LEMMA DvReplaced ==
    ASSUME NEW s, NEW own, NEW c, Heap(s, {c}, {}, own), NEW l \in Levels, Level(s, c) = l,
           ~Has(s, c, "DIRECT"), s.dv[l] # NULL => ~WholeBlock(s, s.dv[l])
    PROVE  LET d == s.dv[l]
               kept == IF d = NULL THEN s ELSE IF l = 1 THEN PushBig(s, d) ELSE PushSmall(s, d)
               t == [kept EXCEPT !.dv[l] = c]
           IN  /\ Heap(t, {}, {}, own) /\ Kept(s, t) /\ t.dv[l] = c /\ This(t, c) = This(s, c)
               /\ c \in Inner(t) /\ ~InUse(t, c) /\ ~Has(t, c, "DIRECT") /\ Level(t, c) = l
<1> DEFINE d == s.dv[l]
           kept == IF d = NULL THEN s ELSE IF l = 1 THEN PushBig(s, d) ELSE PushSmall(s, d)
           t == [kept EXCEPT !.dv[l] = c]
           one == {c}
           none == {}
<1>0. Heap(s, one, none, own) /\ c \in one /\ one \ {c} = {}
  OBVIOUS
<1> HIDE DEF one, none
<1>1. /\ Shape(s) /\ DOMAIN s = Fields /\ s.dv \in [Levels -> Address \cup {NULL}]
      /\ c \in Inner(s) /\ ~InUse(s, c) /\ c \in DOMAIN s.mem /\ \A k \in Levels : c # s.dv[k]
  <2>1. Shape(s) /\ DOMAIN s = Fields /\ s.dv \in [Levels -> Address \cup {NULL}]
    BY DEF Heap, Shape, Memory, Lists, Object
  <2> QED BY <1>0, <2>1, LooseMember
<1>2. CASE d = NULL
  <2>1. /\ SameMem(s, t) /\ t.bin = s.bin /\ t.bitmap = s.bitmap /\ t.slot_bin = s.slot_bin
        /\ t.dv = [s.dv EXCEPT ![l] = c] /\ t.mem = s.mem /\ t.dv[l] = c /\ SameRest(s, t)
        /\ t.size = s.size
    BY <1>1, <1>2 DEF SameMem, SameSlots, Fields, SameRest
  <2> HIDE DEF t, d
  <2>2. Heap(t, one \ {c}, none, own)
    BY <1>0, <1>2, <2>1, DvPut DEF d
  <2>3. Inner(t) = Inner(s)
    BY <2>1 DEF Inner, IsTail
  <2>4. Kept(s, t)
    BY <2>1, <2>3 DEF Kept, UsedBy, InUse, Has, This, SameRest
  <2>5. c \in Inner(t) /\ ~InUse(t, c) /\ ~Has(t, c, "DIRECT") /\ Level(t, c) = l /\ This(t, c) = This(s, c)
    BY <1>1, <2>1, <2>3 DEF InUse, Has, Level, This
  <2>6. Heap(t, {}, {}, own)
    BY <1>0, <2>2 DEF none
  <2> QED BY <2>1, <2>4, <2>5, <2>6 DEF t, d
<1>3. CASE d # NULL
  <2> DEFINE u == [s EXCEPT !.dv[l] = NULL]
             p == PushChunk(u, d, BinOf(u, d))
             both == one \cup {d}
  <2>1. /\ SameMem(s, u) /\ u.bin = s.bin /\ u.bitmap = s.bitmap /\ u.slot_bin = s.slot_bin
        /\ u.dv = [s.dv EXCEPT ![l] = NULL] /\ u.mem = s.mem /\ SameRest(s, u) /\ u.size = s.size
        /\ DOMAIN u = Fields /\ u.dv[l] = NULL
        /\ \A f \in Fields \ {"dv"} : u[f] = s[f]
    BY <1>1 DEF SameMem, SameSlots, Fields, SameRest
  <2>2. d \in Inner(s) /\ d \in DOMAIN s.mem /\ Level(s, d) = l /\ ~Has(s, d, "DIRECT")
    BY <1>0, <1>3, DvMember
  <2>3. kept = PushChunk(s, d, BinOf(s, d))
    BY <1>3, <2>2 DEF PushBig, PushSmall, BinOf
  <2>4. /\ Inner(u) = Inner(s) /\ BinOf(u, d) = BinOf(s, d) /\ Level(u, d) = Level(s, d)
        /\ (WholeBlock(u, d) <=> WholeBlock(s, d)) /\ (Has(u, d, "DIRECT") <=> Has(s, d, "DIRECT"))
    BY <2>1 DEF Inner, IsTail, BinOf, Level, Has, This, WholeBlock
  <2>t. /\ DOMAIN t = Fields /\ DOMAIN p = Fields
        /\ \A f \in Fields \ {"dv"} : t[f] = p[f]
        /\ t.dv = [p.dv EXCEPT ![l] = c] /\ p.dv = u.dv
    <3>1. /\ DOMAIN kept = Fields /\ DOMAIN p = Fields /\ p.dv = u.dv /\ kept.dv = s.dv
          /\ \A f \in Fields \ {"dv"} : kept[f] = p[f]
      <4> HIDE DEF kept, u, d
      <4>1. kept = PushChunk(s, d, BinOf(s, d)) /\ p = PushChunk(u, d, BinOf(s, d))
        BY <2>3, <2>4
      <4> DEFINE b == BinOf(s, d)
      <4>b. kept = PushChunk(s, d, b) /\ p = PushChunk(u, d, b)
        BY <4>1
      <4> HIDE DEF b
      <4>2. Level(u, d) = Level(s, d)
        BY <2>4
      <4> HIDE DEF p
      <4>p. PushedTo(s, kept, d, b) /\ PushedTo(u, p, d, b)
        BY <1>1, <2>1, <4>b, PushFields
      <4>3. DOMAIN kept = Fields /\ DOMAIN p = Fields /\ p.dv = u.dv /\ kept.dv = s.dv
        BY <4>p DEF PushedTo
      <4>4. ASSUME NEW f \in Fields \ {"dv"} PROVE kept[f] = p[f]
        <5>1. u.mem = s.mem /\ u.bin = s.bin /\ u.bitmap = s.bitmap /\ u[f] = s[f]
          BY <2>1 DEF Fields
        <5>2. /\ kept.mem = PushedMem(s.mem, d, b)
              /\ kept.bin = PushedBin(s.bin, Level(s, d), d, b)
              /\ kept.bitmap = PushedBit(s.bitmap, Level(s, d), b)
              /\ f \notin {"mem", "bin", "bitmap"} => kept[f] = s[f]
          BY <4>p DEF PushedTo
        <5>3. /\ p.mem = PushedMem(u.mem, d, b)
              /\ p.bin = PushedBin(u.bin, Level(u, d), d, b)
              /\ p.bitmap = PushedBit(u.bitmap, Level(u, d), b)
              /\ f \notin {"mem", "bin", "bitmap"} => p[f] = u[f]
          BY <4>p DEF PushedTo
        <5>4. p.mem = kept.mem
          BY <5>1, <5>2, <5>3
        <5>5. p.bin = kept.bin
          BY <4>2, <5>1, <5>2, <5>3
        <5>6. p.bitmap = kept.bitmap
          BY <4>2, <5>1, <5>2, <5>3
        <5> QED BY <5>1, <5>2, <5>3, <5>4, <5>5, <5>6
      <4> QED BY <4>3, <4>4
    <3> HIDE DEF kept, p, u, d
    <3>2. /\ DOMAIN t = DOMAIN kept /\ t.dv = [kept.dv EXCEPT ![l] = c]
          /\ \A f \in Fields \ {"dv"} : t[f] = kept[f]
      BY <3>1 DEF Fields
    <3>3. [kept.dv EXCEPT ![l] = c] = [p.dv EXCEPT ![l] = c]
      BY <1>1, <2>1, <3>1
    <3> QED BY <3>1, <3>2, <3>3
  <2>5. ~WholeBlock(s, d)
    BY <1>3
  <2>6. d # c
    BY <1>1
  <2> HIDE DEF t, d, u, kept, both
  <2>7. Heap(u, both, none, own)
    BY <1>0, <1>3, <2>1, DvDropped DEF d, both
  <2>8. d \in both /\ both \ {d} = one
    BY <1>0, <2>6 DEF both, one
  <2>9. Heap(p, one, none, own) /\ Kept(u, p) /\ Alike(u, p) /\ p.slot = u.slot
        /\ \A x \in DOMAIN u.mem : InUse(p, x) <=> InUse(u, x)
    <3>1. Heap(p, both \ {d}, none, own) /\ Kept(u, p) /\ Alike(u, p) /\ p.slot = u.slot
        /\ \A x \in DOMAIN u.mem : InUse(p, x) <=> InUse(u, x)
      BY <2>2, <2>4, <2>5, <2>7, <2>8, Pushed
    <3> HIDE DEF p
    <3> QED BY <2>8, <3>1
  <2> HIDE DEF p
  <2>10. /\ Inner(p) = Inner(u) /\ This(p, c) = This(u, c) /\ Level(p, c) = Level(u, c)
         /\ (Has(p, c, "DIRECT") <=> Has(u, c, "DIRECT"))
    BY <1>1, <2>1, <2>9, SameChunks
  <2>11. ~Has(p, c, "DIRECT") /\ Level(p, c) = l /\ This(p, c) = This(s, c) /\ ~InUse(p, c)
    BY <1>1, <2>1, <2>9, <2>10 DEF Level, Has, This, InUse
  <2>12. /\ SameMem(p, t) /\ t.bin = p.bin /\ t.bitmap = p.bitmap /\ t.slot_bin = p.slot_bin
         /\ t.mem = p.mem /\ t.size = p.size /\ SameRest(p, t)
    BY <2>t DEF SameMem, SameSlots, Fields, SameRest
  <2>13. p.dv[l] = NULL
    BY <2>1, <2>t
  <2>14. Heap(t, one \ {c}, none, own)
    BY <1>0, <2>9, <2>11, <2>12, <2>13, <2>t, DvPut
  <2>15. Inner(t) = Inner(p)
    BY <2>12 DEF Inner, IsTail
  <2>16. Kept(p, t)
    BY <2>12, <2>15 DEF Kept, UsedBy, InUse, Has, This, SameRest
  <2>17. Kept(s, u)
    <3>1. Inner(u) = Inner(s)
      BY <2>4
    <3> QED BY <2>1, <3>1 DEF Kept, UsedBy, InUse, Has, This, SameRest
  <2>18. Kept(s, t)
    BY <2>9, <2>16, <2>17, KeptOn
  <2>19. c \in Inner(t) /\ ~InUse(t, c) /\ ~Has(t, c, "DIRECT") /\ Level(t, c) = l /\ This(t, c) = This(s, c)
    BY <1>1, <2>4, <2>10, <2>11, <2>12, <2>15 DEF InUse, Has, Level, This
  <2>20. t.dv[l] = c
    BY <1>1, <2>1, <2>t
  <2>21. Heap(t, {}, {}, own)
    BY <1>0, <2>14 DEF none
  <2> QED BY <2>18, <2>19, <2>20, <2>21 DEF t, kept, d
<1> QED BY <1>2, <1>3

\* A request was answered, with a chunk or with NULL.
Served(s, r, req) ==
    /\ Lends(s, r, req) /\ SameRest(s, r.s)
    /\ \E own \in [BlockIds -> Nat] : Heap(r.s, {}, {}, own)

\* A request that got nothing changes nothing.
LEMMA NotServed ==
    ASSUME NEW s, NEW own \in [BlockIds -> Nat], Heap(s, {}, {}, own), NEW r, NEW req,
           r.c = NULL, r.s = s
    PROVE  Served(s, r, req)
  BY DEF Served, Lends, SameRest

\* A chunk that holds a request holds a smaller one.
LEMMA ServedLess ==
    ASSUME NEW s, NEW r, NEW most \in Nat, Served(s, r, most), NEW req \in Nat, req <= most
    PROVE  Served(s, r, req)
<1>1. This(r.s, r.c) \in Nat /\ This(r.s, r.c) >= most + CHUNK_PADDING_SIZE
        => This(r.s, r.c) >= req + CHUNK_PADDING_SIZE
  BY Grains
<1>2. Lends(s, r, req)
  BY <1>1 DEF Served, Lends
<1> QED BY <1>2 DEF Served

\* Changes before and after a chunk was handed out.
LEMMA LentOn ==
    ASSUME NEW s, NEW t, NEW r, NEW req, Kept(s, t), Lends(t, r, req), SameRest(t, r.s)
    PROVE  Lends(s, r, req) /\ SameRest(s, r.s)
  BY DEF Kept, Lends, SameRest

\* A request gets a chunk that is in no list,
LEMMA LooseGiven ==
    ASSUME NEW s, NEW own \in [BlockIds -> Nat], NEW c, Heap(s, {c}, {}, own),
           NEW bin \in Bins, ~Has(s, c, "DIRECT"), NEW color, NEW req \in Nat,
           This(s, c) >= req + CHUNK_PADDING_SIZE
    PROVE  Served(s, HandOut(s, c, bin, color), req)
<1> DEFINE one == {c}
           none == {}
           r == HandOut(s, c, bin, color)
<1>1. Heap(s, one, none, own) /\ c \in one /\ one \ {c} = {} /\ Shut(s, none, c) = {}
  BY DEF Shut
<1> HIDE DEF one, none, r
<1>2. ~Has(s, c, "SLOT")
  <2>1. c \in DOMAIN s.mem /\ Shape(s)
    BY <1>1, LooseMember DEF Heap
  <2> QED BY <2>1, Kind
<1>3. /\ Heap(r.s, one \ {c}, Shut(s, none, c), own)
      /\ Lends(s, r, req) /\ SameRest(s, r.s)
  BY <1>1, <1>2, OutHanded DEF r
<1>4. Heap(r.s, {}, {}, own)
  BY <1>1, <1>3
<1> QED BY <1>3, <1>4 DEF Served, r

\* one of a bin,
LEMMA ListGiven ==
    ASSUME NEW s, NEW own \in [BlockIds -> Nat], Heap(s, {}, {}, own), NEW l \in Levels,
           NEW b \in Bins, b \in s.bitmap[l], NEW bin \in Bins, NEW color, NEW req \in Nat,
           \A d \in ToSet(s.bin[l][b]) : This(s, d) >= req + CHUNK_PADDING_SIZE
    PROVE  LET c == Head(s.bin[l][b]) IN
           Served(s, HandOut(PickChunk(s, c), c, bin, color), req)
<1> DEFINE c == Head(s.bin[l][b])
           t == PickChunk(s, c)
           none == {}
           r == HandOut(t, c, bin, color)
<1>1. s.bin[l][b] # <<>> /\ s.bin[l][b] \in Seq(Address) /\ IsInjective(s.bin[l][b])
  BY DEF Heap, Lists, Binned, Object
<1>2. c \in ToSet(s.bin[l][b])
  BY <1>1, Tailed
<1>3. c \in DOMAIN s.mem /\ ~Has(s, c, "DIRECT")
  BY <1>2, BinMember
<1>4. Heap(s, none, none, own) /\ none \cup {c} = {c}
  OBVIOUS
<1>5. This(s, c) >= req + CHUNK_PADDING_SIZE
  BY <1>2
<1> HIDE DEF none, c
<1>6. Heap(t, none \cup {c}, none, own) /\ Kept(s, t) /\ Alike(s, t)
  BY <1>2, <1>4, Picked
<1> HIDE DEF t
<1>7. This(t, c) = This(s, c) /\ ~Has(t, c, "DIRECT")
  BY <1>3, <1>6, SameChunks
<1>8. Heap(t, {c}, {}, own)
  BY <1>4, <1>6 DEF none
<1> HIDE DEF r
<1>9. Served(t, r, req)
  <2>1. This(t, c) >= req + CHUNK_PADDING_SIZE
    BY <1>5, <1>7
  <2> QED BY <1>7, <1>8, <2>1, LooseGiven DEF r
<1>10. Served(s, r, req)
  BY <1>6, <1>9, LentOn DEF Served
<1> QED BY <1>10 DEF r, t, c

\* dv_ as a whole,
LEMMA DvGiven ==
    ASSUME NEW s, NEW own \in [BlockIds -> Nat], Heap(s, {}, {}, own), NEW l \in Levels,
           s.dv[l] # NULL, NEW bin \in Bins, NEW color, NEW req \in Nat,
           This(s, s.dv[l]) >= req + CHUNK_PADDING_SIZE
    PROVE  Served(s, HandOut([s EXCEPT !.dv[l] = NULL], s.dv[l], bin, color), req)
<1> DEFINE c == s.dv[l]
           t == [s EXCEPT !.dv[l] = NULL]
           none == {}
           r == HandOut(t, c, bin, color)
<1>1. DOMAIN s = Fields /\ s.dv \in [Levels -> Address \cup {NULL}]
  BY DEF Heap, Lists, Object, Shape, Memory
<1>2. /\ SameMem(s, t) /\ t.bin = s.bin /\ t.bitmap = s.bitmap /\ t.slot_bin = s.slot_bin
      /\ t.dv = [s.dv EXCEPT ![l] = NULL] /\ SameRest(s, t)
  BY <1>1 DEF SameMem, SameSlots, SameRest, Fields
<1>3. Heap(s, none, none, own) /\ none \cup {c} = {c}
  OBVIOUS
<1>4. ~Has(s, c, "DIRECT")
  BY DvMember
<1> HIDE DEF t, none
<1>5. Heap(t, none \cup {c}, none, own)
  BY <1>2, <1>3, DvDropped
<1>6. UsedBy(t) = UsedBy(s) /\ \A d \in UsedBy(s) : This(t, d) = This(s, d)
  BY <1>2, <1>3, SameMemory
<1>7. Kept(s, t)
  BY <1>2, <1>6 DEF Kept, SameRest
<1>8. Heap(t, {c}, {}, own)
  BY <1>3, <1>5 DEF none
<1>9. This(t, c) = This(s, c) /\ ~Has(t, c, "DIRECT")
  BY <1>2, <1>4 DEF SameMem, This, Has
<1> HIDE DEF r, c
<1>10. Served(t, r, req)
  <2>1. This(t, c) >= req + CHUNK_PADDING_SIZE
    BY <1>9 DEF c
  <2> QED BY <1>8, <1>9, <2>1, LooseGiven DEF r
<1>11. Served(s, r, req)
  BY <1>7, <1>10, LentOn DEF Served
<1> QED BY <1>11 DEF r, t, c

\* the rear part of dv_,
LEMMA DvSplit ==
    ASSUME NEW s, NEW own \in [BlockIds -> Nat], Heap(s, {}, {}, own), NEW l \in Levels,
           NEW c, c = s.dv[l], c # NULL,
           NEW size \in Nat, size >= 2 * FINE, This(s, c) >= size + 2 * FINE,
           l = 1 => size >= BIG_LEAST_SIZE /\ This(s, c) >= size + BIG_LEAST_SIZE,
           NEW bin \in Bins, NEW color, NEW req \in Nat, size >= req + CHUNK_PADDING_SIZE
    PROVE  Served(s, CarveOut(s, c, size, bin, color), req)
<1> DEFINE none == {}
           r == CarveOut(s, c, size, bin, color)
<1>1. c \in Inner(s) /\ ~InUse(s, c) /\ ~Has(s, c, "DIRECT") /\ Level(s, c) = l
  BY DvMember
<1>2. \E k \in Levels : c = s.dv[k]
  OBVIOUS
<1>3. Has(s, c, "BIG") => size >= BIG_LEAST_SIZE /\ This(s, c) >= size + BIG_LEAST_SIZE
  BY <1>1 DEF Level
<1>4. Heap(s, none, {}, own)
  OBVIOUS
<1> HIDE DEF none, r
<1>5. Heap(r.s, none, {}, own) /\ Lends(s, r, req) /\ SameRest(s, r.s)
  BY <1>1, <1>2, <1>3, <1>4, CarvedOut DEF r
<1> QED BY <1>5 DEF Served, none, r

\* or the rear part of a chunk whose rest becomes dv_.
LEMMA NewSplit ==
    ASSUME NEW s, NEW own \in [BlockIds -> Nat], NEW c, Heap(s, {c}, {}, own),
           NEW l \in Levels, Level(s, c) = l, ~Has(s, c, "DIRECT"),
           s.dv[l] # NULL => ~WholeBlock(s, s.dv[l]),
           NEW size \in Nat, size >= 2 * FINE, This(s, c) >= size + 2 * FINE,
           l = 1 => size >= BIG_LEAST_SIZE /\ This(s, c) >= size + BIG_LEAST_SIZE,
           NEW bin \in Bins, NEW color, NEW req \in Nat, size >= req + CHUNK_PADDING_SIZE
    PROVE  LET d == s.dv[l]
               kept == IF d = NULL THEN s ELSE IF l = 1 THEN PushBig(s, d) ELSE PushSmall(s, d)
           IN  Served(s, CarveOut([kept EXCEPT !.dv[l] = c], c, size, bin, color), req)
<1> DEFINE d == s.dv[l]
           kept == IF d = NULL THEN s ELSE IF l = 1 THEN PushBig(s, d) ELSE PushSmall(s, d)
           t == [kept EXCEPT !.dv[l] = c]
           r == CarveOut(t, c, size, bin, color)
<1>1. c # NULL
  <2> DEFINE one == {c}
  <2>1. Heap(s, one, {}, own) /\ c \in one
    OBVIOUS
  <2> HIDE DEF one
  <2> QED BY <2>1, LooseMember
<1>2. /\ Heap(t, {}, {}, own) /\ Kept(s, t) /\ t.dv[l] = c /\ This(t, c) = This(s, c)
  BY DvReplaced
<1> HIDE DEF t, r
<1>3. Served(t, r, req)
  BY <1>1, <1>2, DvSplit DEF r
<1>4. Served(s, r, req)
  BY <1>2, <1>3, LentOn DEF Served
<1> QED BY <1>4 DEF r, t

\* dv_ serves small requests as long as it is large enough.
LEMMA DvSmall ==
    ASSUME NEW s, NEW own, Heap(s, {}, {}, own), NEW l \in Levels, s.dv[l] # NULL,
           NEW size \in Nat, size <= BIG_MAX_REQUEST + FINE, ~Fits(s, s.dv[l], size)
    PROVE  ~WholeBlock(s, s.dv[l])
<1>1. Shape(s) /\ s.dv[l] \in DOMAIN s.mem
  BY DvMember DEF Heap
<1>2. This(s, s.dv[l]) \in Nat /\ This(s, s.dv[l]) < size
  BY <1>1, Headers DEF Fits
<1>3. BIG_MAX_REQUEST + FINE <= DEFAULT_BLOCK_SIZE - BlockOverhead
  BY Bounds
<1> QED BY <1>2, <1>3, Bounds DEF WholeBlock

\* alloc_memory serves a small request with a chunk of its bin, or returns NULL.
LEMMA SmallServed ==
    ASSUME NEW s, NEW own \in [BlockIds -> Nat], Heap(s, {}, {}, own),
           NEW req \in Nat, req < SMALL_MAX_REQUEST - FINE, NEW color
    PROVE  Served(s, SmallAlloc(s, req, color), SmallId(req) * FINE)
<1> DEFINE id == SmallId(req)
           size == id * FINE + CHUNK_PADDING_SIZE
           near == s.bitmap[0] \cap {id, id + 1}
           c == Head(s.bin[0][Min(near)])
           d == s.dv[0]
           f == Fetch(s, 0, id, size)
           kept == IF d = NULL THEN f.s ELSE PushSmall(f.s, d)
           r == SmallAlloc(s, req, color)
           need == id * FINE
<1>0. 0 \in Levels /\ Shape(s) /\ s.bitmap \in [Levels -> SUBSET Bins]
  BY DEF Levels, Heap, Lists, Object
<1>1. /\ id \in 1 .. BINMAP_SIZE - 1 /\ need \in Nat /\ id * FINE \in Nat /\ need = id * FINE
      /\ id * FINE >= FINE /\ id * FINE + FINE <= SMALL_MAX_REQUEST
  BY SmallRequest
<1>2. /\ size \in Nat /\ size = id * FINE + FINE /\ size >= 2 * FINE
      /\ size >= need + CHUNK_PADDING_SIZE /\ need \in Nat
      /\ size <= SMALL_MAX_REQUEST /\ id \in Nat /\ id \in Bins
  BY <1>1, Grains DEF Bins
<1>a. near # {} => r = HandOut(PickChunk(s, c), c, id, color)
  BY DEF SmallAlloc
<1>b. near = {} /\ CanSplit(s, d, size, SMALL_LEAST_SIZE) => r = CarveOut(s, d, size, id, color)
  BY DEF SmallAlloc
<1>c. near = {} /\ ~CanSplit(s, d, size, SMALL_LEAST_SIZE) /\ Fits(s, d, size) =>
        r = HandOut([s EXCEPT !.dv[0] = NULL], d, id, color)
  BY DEF SmallAlloc
<1>d. near = {} /\ ~CanSplit(s, d, size, SMALL_LEAST_SIZE) /\ ~Fits(s, d, size) =>
        r = IF f.c = NULL THEN f ELSE CarveOut([kept EXCEPT !.dv[0] = f.c], f.c, size, id, color)
  BY DEF SmallAlloc
<1> HIDE DEF id, size, r, need
<1>3. CASE near # {}
  <2> DEFINE b == Min(near)
  <2>1. near \subseteq Nat /\ near \subseteq Bins
    BY <1>0 DEF Bins
  <2>2. b \in near
    BY <1>3, <2>1, MinOf
  <2>3. b \in Bins /\ b \in s.bitmap[0] /\ b \in Nat /\ id <= b
    BY <1>2, <2>1, <2>2
  <2> HIDE DEF b, near
  <2>4. ASSUME NEW e \in ToSet(s.bin[0][b]) PROVE This(s, e) >= need + CHUNK_PADDING_SIZE
    <3>1. e \in Inner(s) /\ e \in DOMAIN s.mem /\ Level(s, e) = 0 /\ b = BinOf(s, e)
      BY <1>0, <2>3, BinMember
    <3>2. This(s, e) \in Nat /\ This(s, e) >= SMALL_LEAST_SIZE
      BY <1>0, <3>1, Headers, InnerChunk, Grains
    <3>3. b = SmallBin(This(s, e))
      BY <3>1 DEF BinOf
    <3>4. id * FINE + FINE <= This(s, e)
      BY <1>2, <2>3, <3>2, <3>3, SmallBinRange
    <3> QED BY <1>1, <3>2, <3>4, Grains
  <2>5. Served(s, HandOut(PickChunk(s, c), c, id, color), need)
    BY <1>0, <1>2, <2>3, <2>4, ListGiven DEF b
  <2> QED BY <1>3, <1>a, <2>5 DEF near, r, need, id
<1>4. CASE near = {} /\ CanSplit(s, d, size, SMALL_LEAST_SIZE)
  <2>1. d # NULL /\ This(s, d) >= size + 2 * FINE
    BY <1>4, Grains DEF CanSplit
  <2> DEFINE l == 0
  <2>2. l \in Levels /\ l # 1 /\ d = s.dv[l]
    BY <1>0
  <2> HIDE DEF near, l, d
  <2>3. Served(s, CarveOut(s, d, size, id, color), need)
    BY <1>2, <2>1, <2>2, DvSplit
  <2> QED BY <1>4, <1>b, <2>3 DEF near, r, d, need, id
<1>5. CASE near = {} /\ ~CanSplit(s, d, size, SMALL_LEAST_SIZE) /\ Fits(s, d, size)
  <2>1. d # NULL /\ This(s, d) \in Nat
    <3>1. d # NULL
      BY <1>5 DEF Fits
    <3> QED BY <1>0, <3>1, DvMember, Headers
  <2>2. This(s, d) >= need + CHUNK_PADDING_SIZE
    BY <1>2, <1>5, <2>1, Grains DEF Fits
  <2> HIDE DEF near
  <2>3. Served(s, HandOut([s EXCEPT !.dv[0] = NULL], d, id, color), need)
    BY <1>0, <1>2, <2>1, <2>2, DvGiven
  <2> QED BY <1>5, <1>c, <2>3 DEF near, r, need, id
<1>6. CASE near = {} /\ ~CanSplit(s, d, size, SMALL_LEAST_SIZE) /\ ~Fits(s, d, size)
  <2>1. (f.c = NULL /\ f.s = s) \/ FetchedFor(s, f, 0, id)
    BY <1>0, <1>2, Fetched
  <2>2. CASE f.c = NULL /\ f.s = s
    <3>1. r = f
      BY <1>6, <1>d, <2>2
    <3> HIDE DEF f
    <3> QED BY <2>2, <3>1, NotServed DEF r, need, id
  <2>3. CASE FetchedFor(s, f, 0, id)
    <3> DEFINE t == f.s
               e == f.c
    <3>0. r = CarveOut([kept EXCEPT !.dv[0] = e], e, size, id, color)
      BY <1>6, <1>d, <2>3 DEF FetchedFor
    <3>1. /\ e \in Inner(t) /\ e \in DOMAIN t.mem /\ ~Has(t, e, "DIRECT") /\ Level(t, e) = 0
          /\ t.dv = s.dv /\ Kept(s, t) /\ \A x \in Inner(s) : This(t, x) = This(s, x)
          /\ \/ This(t, e) = DEFAULT_BLOCK_SIZE - 6 * FINE
             \/ \E b \in s.bitmap[0] : b >= id /\ b \in Bins /\ b = BinOf(t, e)
      BY <2>3 DEF FetchedFor
    <3>2. PICK to \in [BlockIds -> Nat] : Heap(t, {e}, {}, to)
      BY <2>3 DEF FetchedFor
    <3>k. kept = IF d = NULL THEN t ELSE PushSmall(t, d)
      OBVIOUS
    <3> HIDE DEF t, e, f, kept
    <3>3. This(t, e) >= size + 2 * FINE
      <4>1. CASE This(t, e) = DEFAULT_BLOCK_SIZE - 6 * FINE
        BY <1>2, <4>1, Bounds
      <4>2. CASE \E b \in s.bitmap[0] : b >= id /\ b \in Bins /\ b = BinOf(t, e)
        <5>1. PICK b \in s.bitmap[0] : b >= id /\ b \in Bins /\ b = BinOf(t, e)
          BY <4>2
        <5>2. b \in Nat /\ id + 2 <= b /\ id + 2 \in Nat
          BY <1>2, <1>6, <5>1 DEF Bins
        <5>3. b = SmallBin(This(t, e))
          BY <3>1, <5>1 DEF BinOf
        <5>4. Shape(t)
          BY <3>2 DEF Heap
        <5>5. This(t, e) \in Nat /\ This(t, e) >= SMALL_LEAST_SIZE
          BY <3>1, <5>4, Headers, InnerChunk, Grains
        <5>6. (id + 2) * FINE + FINE <= This(t, e)
          BY <5>2, <5>3, <5>5, SmallBinRange
        <5>7. (id + 2) * FINE = id * FINE + 2 * FINE
          BY <1>2, Grains
        <5> QED BY <1>1, <1>2, <5>5, <5>6, <5>7, Grains
      <4> QED BY <3>1, <4>1, <4>2
    <3>4. t.dv[0] # NULL => ~WholeBlock(t, t.dv[0])
      <4> SUFFICES ASSUME s.dv[0] # NULL PROVE ~WholeBlock(t, s.dv[0])
        BY <3>1
      <4>1. size <= BIG_MAX_REQUEST + FINE
        BY <1>2, Bounds
      <4>2. ~WholeBlock(s, d)
        BY <1>0, <1>2, <1>6, <4>1, DvSmall
      <4>3. d \in Inner(s)
        BY <1>0, DvMember
      <4> QED BY <3>1, <4>2, <4>3 DEF WholeBlock
    <3>5. Served(t, r, need)
      <4>1. r = CarveOut([kept EXCEPT !.dv[0] = e], e, size, id, color)
        BY <3>0
      <4>2. kept = IF t.dv[0] = NULL THEN t
                   ELSE IF 0 = 1 THEN PushBig(t, t.dv[0]) ELSE PushSmall(t, t.dv[0])
        BY <3>1, <3>k
      <4> DEFINE l == 0
      <4>3. kept = IF t.dv[l] = NULL THEN t
                   ELSE IF l = 1 THEN PushBig(t, t.dv[l]) ELSE PushSmall(t, t.dv[l])
        BY <4>2
      <4>4. /\ l \in Levels /\ Level(t, e) = l /\ (t.dv[l] # NULL => ~WholeBlock(t, t.dv[l]))
            /\ l # 1 /\ r = CarveOut([kept EXCEPT !.dv[l] = e], e, size, id, color)
        BY <1>0, <3>1, <3>4, <4>1
      <4> HIDE DEF l
      <4>5. LET g == t.dv[l]
                k == IF g = NULL THEN t ELSE IF l = 1 THEN PushBig(t, g) ELSE PushSmall(t, g)
            IN  Served(t, CarveOut([k EXCEPT !.dv[l] = e], e, size, id, color), need)
        BY <1>2, <3>1, <3>2, <3>3, <4>4, NewSplit
      <4> QED BY <4>3, <4>4, <4>5
    <3>6. Served(s, r, need)
      BY <3>1, <3>5, LentOn DEF Served
    <3> QED BY <3>6 DEF r, need, id
  <2> QED BY <2>1, <2>2, <2>3
<1> QED BY <1>3, <1>4, <1>5, <1>6

\* The same for a big request.
LEMMA BigServed ==
    ASSUME NEW s, NEW own \in [BlockIds -> Nat], Heap(s, {}, {}, own),
           NEW req \in Nat, SMALL_MAX_REQUEST - FINE <= req, req < BIG_MAX_REQUEST, NEW color
    PROVE  Served(s, BigAlloc(s, req, color), req)
<1> DEFINE id == BigId(req)
           size == BigSize(req)
           c == Head(s.bin[1][id])
           d == s.dv[1]
           f == Fetch(s, 1, id, size)
           kept == IF d = NULL THEN f.s ELSE PushBig(f.s, d)
           r == BigAlloc(s, req, color)
           l == 1
<1>0. l \in Levels /\ l = 1 /\ Shape(s) /\ s.bitmap \in [Levels -> SUBSET Bins]
  BY DEF Levels, Heap, Lists, Object
<1>1. /\ size \in Nat /\ req + FINE <= size /\ BIG_LEAST_SIZE <= size
      /\ size <= BIG_MAX_REQUEST + FINE /\ id \in Bins
      /\ \A n \in Nat : n >= BIG_LEAST_SIZE /\ n <= DEFAULT_BLOCK_SIZE
           /\ id <= BigBin(n) => size <= n
  BY BigRequest
<1>2. /\ size >= 2 * FINE /\ size >= req + CHUNK_PADDING_SIZE /\ id \in Nat
      /\ BIG_LEAST_SIZE >= 2 * FINE
  BY <1>1, Grains DEF Bins
<1>a. id \in s.bitmap[l] => r = HandOut(PickChunk(s, c), c, id, color)
  BY DEF BigAlloc
<1>b. id \notin s.bitmap[l] /\ CanSplit(s, d, size, BIG_LEAST_SIZE) =>
        r = CarveOut(s, d, size, id, color)
  BY DEF BigAlloc
<1>c. id \notin s.bitmap[l] /\ ~CanSplit(s, d, size, BIG_LEAST_SIZE) /\ Fits(s, d, size) =>
        r = HandOut([s EXCEPT !.dv[l] = NULL], d, id, color)
  BY DEF BigAlloc
<1>d. id \notin s.bitmap[l] /\ ~CanSplit(s, d, size, BIG_LEAST_SIZE) /\ ~Fits(s, d, size) =>
        r = IF f.c = NULL THEN f
            ELSE IF CanSplit(f.s, f.c, size, BIG_LEAST_SIZE)
                 THEN CarveOut([kept EXCEPT !.dv[l] = f.c], f.c, size, id, color)
                 ELSE HandOut(f.s, f.c, id, color)
  BY DEF BigAlloc
<1>e. c = Head(s.bin[l][id]) /\ d = s.dv[l] /\ f = Fetch(s, l, id, size)
  OBVIOUS
<1>k. kept = IF d = NULL THEN f.s ELSE PushBig(f.s, d)
  OBVIOUS
<1> HIDE DEF id, size, r, l, c, d, f, kept
<1>f. ASSUME NEW t, Shape(t), NEW to, Room(t, to), NEW e \in Inner(t), ~Has(t, e, "DIRECT"),
             Level(t, e) = l, NEW b, b = BinOf(t, e), b >= id, b \in Bins
      PROVE  This(t, e) \in Nat /\ size <= This(t, e)
  <2>1. b = BigBin(This(t, e)) /\ Has(t, e, "BIG")
    BY <1>0, <1>f DEF BinOf, Level
  <2>2. This(t, e) <= DEFAULT_BLOCK_SIZE - BlockOverhead /\ e \in DOMAIN t.mem
    BY <1>f, BinExists DEF Inner
  <2>3. ~Has(t, e, "SLOT")
    BY <1>f, <2>2, Kind
  <2>4. This(t, e) >= BIG_LEAST_SIZE
    BY <1>f, <2>1, <2>3 DEF Room
  <2>5. This(t, e) \in Nat
    BY <1>f, <2>2, Headers
  <2>6. This(t, e) <= DEFAULT_BLOCK_SIZE
    BY <2>2, <2>5, Grains
  <2> QED BY <1>1, <1>2, <1>f, <2>1, <2>4, <2>5, <2>6 DEF Bins
<1>3. CASE id \in s.bitmap[l]
  <2>1. ASSUME NEW e \in ToSet(s.bin[l][id]) PROVE This(s, e) >= req + CHUNK_PADDING_SIZE
    <3>1. e \in Inner(s) /\ Level(s, e) = l /\ id = BinOf(s, e) /\ ~Has(s, e, "DIRECT")
      BY <1>0, <1>1, BinMember
    <3>2. Room(s, own) /\ id >= id
      BY <1>2 DEF Heap
    <3>3. This(s, e) \in Nat /\ size <= This(s, e)
      BY <1>0, <1>1, <1>f, <3>1, <3>2
    <3> QED BY <1>1, <1>2, <3>3, Grains
  <2>2. Served(s, HandOut(PickChunk(s, c), c, id, color), req)
    BY <1>0, <1>1, <1>3, <1>e, <2>1, ListGiven
  <2> QED BY <1>3, <1>a, <2>2 DEF r
<1>4. CASE id \notin s.bitmap[l] /\ CanSplit(s, d, size, BIG_LEAST_SIZE)
  <2>0. d # NULL /\ This(s, d) >= size + BIG_LEAST_SIZE
    BY <1>4 DEF CanSplit
  <2>1. This(s, d) \in Nat
    <3>1. d \in DOMAIN s.mem
      BY <1>0, <1>e, <2>0, DvMember
    <3> QED BY <1>0, <3>1, Headers
  <2>2. This(s, d) >= size + 2 * FINE
    BY <1>1, <1>2, <2>0, <2>1, Grains
  <2>3. Served(s, CarveOut(s, d, size, id, color), req)
    BY <1>0, <1>1, <1>2, <1>e, <2>0, <2>2, DvSplit
  <2> QED BY <1>4, <1>b, <2>3 DEF r
<1>5. CASE id \notin s.bitmap[l] /\ ~CanSplit(s, d, size, BIG_LEAST_SIZE) /\ Fits(s, d, size)
  <2>1. d # NULL /\ This(s, d) \in Nat
    <3>1. d # NULL
      BY <1>5 DEF Fits
    <3> QED BY <1>0, <1>e, <3>1, DvMember, Headers
  <2>2. This(s, d) >= req + CHUNK_PADDING_SIZE
    BY <1>1, <1>2, <1>5, <2>1, Grains DEF Fits
  <2>3. Served(s, HandOut([s EXCEPT !.dv[l] = NULL], d, id, color), req)
    BY <1>0, <1>1, <1>e, <2>1, <2>2, DvGiven
  <2> QED BY <1>5, <1>c, <2>3 DEF r
<1>6. CASE id \notin s.bitmap[l] /\ ~CanSplit(s, d, size, BIG_LEAST_SIZE) /\ ~Fits(s, d, size)
  <2>1. (f.c = NULL /\ f.s = s) \/ FetchedFor(s, f, l, id)
    BY <1>0, <1>2, <1>e, Fetched
  <2>2. CASE f.c = NULL /\ f.s = s
    <3>1. r = f
      BY <1>6, <1>d, <2>2
    <3> QED BY <2>2, <3>1, NotServed DEF r
  <2>3. CASE FetchedFor(s, f, l, id)
    <3> DEFINE t == f.s
               e == f.c
    <3>0. r = IF CanSplit(t, e, size, BIG_LEAST_SIZE)
              THEN CarveOut([kept EXCEPT !.dv[l] = e], e, size, id, color)
              ELSE HandOut(t, e, id, color)
      BY <1>6, <1>d, <2>3 DEF FetchedFor
    <3>1. /\ e \in Inner(t) /\ e \in DOMAIN t.mem /\ ~Has(t, e, "DIRECT") /\ Level(t, e) = l
          /\ t.dv = s.dv /\ Kept(s, t) /\ \A x \in Inner(s) : This(t, x) = This(s, x)
          /\ \/ This(t, e) = DEFAULT_BLOCK_SIZE - 6 * FINE
             \/ \E b \in s.bitmap[l] : b >= id /\ b \in Bins /\ b = BinOf(t, e)
          /\ e # NULL
      BY <2>3 DEF FetchedFor
    <3>2. PICK to \in [BlockIds -> Nat] : Heap(t, {e}, {}, to)
      BY <2>3 DEF FetchedFor
    <3>k. kept = IF t.dv[l] = NULL THEN t ELSE IF l = 1 THEN PushBig(t, t.dv[l]) ELSE PushSmall(t, t.dv[l])
      BY <1>0, <1>e, <1>k, <3>1
    <3> HIDE DEF t, e
    <3>3. This(t, e) \in Nat /\ size <= This(t, e)
      <4>1. Shape(t) /\ Room(t, to)
        BY <3>2 DEF Heap
      <4>2. This(t, e) \in Nat
        BY <3>1, <4>1, Headers
      <4>3. CASE This(t, e) = DEFAULT_BLOCK_SIZE - 6 * FINE
        BY <1>1, <4>2, <4>3, Bounds
      <4>4. CASE \E b \in s.bitmap[l] : b >= id /\ b \in Bins /\ b = BinOf(t, e)
        BY <1>f, <3>1, <4>1, <4>4
      <4> QED BY <3>1, <4>3, <4>4, <4>2
    <3>4. t.dv[l] # NULL => ~WholeBlock(t, t.dv[l])
      <4> SUFFICES ASSUME d # NULL PROVE ~WholeBlock(t, d)
        BY <1>e, <3>1
      <4>1. ~WholeBlock(s, d)
        BY <1>0, <1>1, <1>6, <1>e, DvSmall
      <4>2. d \in Inner(s)
        BY <1>0, <1>e, DvMember
      <4> QED BY <3>1, <4>1, <4>2 DEF WholeBlock
    <3>5. Served(t, r, req)
      <4>1. CASE CanSplit(t, e, size, BIG_LEAST_SIZE)
        <5>1. This(t, e) >= size + BIG_LEAST_SIZE /\ This(t, e) >= size + 2 * FINE
          BY <1>1, <1>2, <3>3, <4>1, Grains DEF CanSplit
        <5>2. LET g == t.dv[l]
                  k == IF g = NULL THEN t ELSE IF l = 1 THEN PushBig(t, g) ELSE PushSmall(t, g)
              IN  Served(t, CarveOut([k EXCEPT !.dv[l] = e], e, size, id, color), req)
          BY <1>0, <1>1, <1>2, <3>1, <3>2, <3>4, <5>1, NewSplit
        <5>3. Served(t, CarveOut([kept EXCEPT !.dv[l] = e], e, size, id, color), req)
          BY <3>k, <5>2
        <5> QED BY <3>0, <4>1, <5>3
      <4>2. CASE ~CanSplit(t, e, size, BIG_LEAST_SIZE)
        <5>1. This(t, e) >= req + CHUNK_PADDING_SIZE
          BY <1>1, <1>2, <3>3, Grains
        <5>2. Served(t, HandOut(t, e, id, color), req)
          BY <1>1, <3>1, <3>2, <5>1, LooseGiven
        <5> QED BY <3>0, <4>2, <5>2
      <4> QED BY <4>1, <4>2
    <3>6. Served(s, r, req)
      BY <3>1, <3>5, LentOn DEF Served
    <3> QED BY <3>6 DEF r
  <2> QED BY <2>1, <2>2, <2>3
<1> QED BY <1>3, <1>4, <1>5, <1>6

\* The block of a direct request holds it.
LEMMA BlockSize ==
    ASSUME NEW bytes \in Nat, bytes <= MaxBytes + 5 * FINE, NEW flags, "DIRECT" \in flags
    PROVE  /\ BlockBytes(bytes, flags) \in Nat
           /\ BlockBytes(bytes, flags) >= bytes + 7 * FINE
           /\ BlockBytes(bytes, flags) % FINE = 0
<1> DEFINE total == bytes + BlockOverhead + CHUNK_PADDING_SIZE
<1>1. total \in Nat /\ total = bytes + 7 * FINE /\ FINE <= 2^28 /\ FINE \in Nat /\ FINE > 0
  BY Grains, Bounds
<1>2. total <= 2^32
  BY <1>1 DEF MaxBytes
<1>3. BlockBytes(bytes, flags) = IF "SLOT" \in flags \/ PowerOf2 THEN CeilPowerOf2(total)
                                 ELSE AlignValue(total, FINE)
  BY DEF BlockBytes
<1> HIDE DEF total
<1>4. /\ CeilPowerOf2(total) \in Nat /\ CeilPowerOf2(total) >= total
      /\ CeilPowerOf2(total) % FINE = 0
  <2>1. total >= FINE
    BY <1>1
  <2> QED BY <1>1, <1>2, <2>1, CeilPower, CeilGrains
<1>5. /\ AlignValue(total, FINE) \in Nat /\ AlignValue(total, FINE) >= total
      /\ AlignValue(total, FINE) % FINE = 0
  <2>1. PICK q \in Nat : AlignValue(total, FINE) = q * FINE
    BY <1>1, AlignUp
  <2>2. (q * FINE) % FINE = 0
    BY <1>1, NoRest
  <2> QED BY <1>1, <2>1, <2>2, AlignUp
<1> QED BY <1>1, <1>3, <1>4, <1>5

\* The same for a request that gets a block of its own.
LEMMA DirectServed ==
    ASSUME NEW s, NEW own \in [BlockIds -> Nat], Heap(s, {}, {}, own),
           NEW req \in Nat, BIG_MAX_REQUEST <= req, req <= MaxBytes, NEW color
    PROVE  Served(s, DirectAlloc(s, req, color), req)
<1> DEFINE bytes == req + CHUNK_PADDING_SIZE + SMALL_LEAST_SIZE
           flags == {"DIRECT", "BIG"}
           f == AllocBlock(s, bytes, flags)
           id == DirectBin(req)
           h == HandOut(f.s, f.c, id, color)
           r == DirectAlloc(s, req, color)
           n == BlockBytes(bytes, flags)
           zero == 0
<1>1. bytes \in Nat /\ bytes = req + 3 * FINE /\ FINE \in Nat
  BY Grains
<1>2. "DIRECT" \in flags /\ "BIG" \in flags /\ "SLOT" \notin flags /\ "USED" \notin flags
      /\ flags \cup {"USED"} \in Kinds /\ zero \in Nat
  BY DEF Kinds
<1>3. (f.c = NULL => r = f)
      /\ (f.c # NULL /\ id = BIG_MAX_BIN_ID => r = [h EXCEPT !.s.counter[<<color, 1, BIG_LOG_BYTES_BIN_ID>>] = @ + This(f.s, f.c)])
      /\ (f.c # NULL /\ id # BIG_MAX_BIN_ID => r = h)
  BY DEF DirectAlloc
<1>4. id \in Bins
  BY DirectBinRange, Bounds DEF BIG_MAX_BIN_ID, Bins
<1>g. n = BlockBytes(bytes, flags) /\ f = AllocBlock(s, bytes, flags)
  OBVIOUS
<1> HIDE DEF bytes, flags, zero, n, f, id, r
<1>5. n \in Nat /\ n >= req + 10 * FINE /\ n % FINE = 0
  <2>1. bytes <= MaxBytes + 5 * FINE /\ 2^30 \in Nat
    BY <1>1, Bounds DEF MaxBytes
  <2>2. n \in Nat /\ n >= bytes + 7 * FINE /\ n % FINE = 0
    BY <1>1, <1>2, <1>g, <2>1, BlockSize
  <2> QED BY <1>1, <2>2
<1>6. BlockFits(s, n, flags, zero)
  <2>1. n >= 8 * FINE /\ n >= BIG_LEAST_SIZE + BlockOverhead
    BY <1>1, <1>5, Bounds
  <2> QED BY <1>2, <1>5, <2>1 DEF BlockFits
<1>7. Added(s, f, n, flags, zero)
  BY <1>2, <1>6, <1>g, BlockAdded
<1>8. CASE f.c = NULL /\ f.s = s
  BY <1>3, <1>8, NotServed DEF r
<1>9. CASE f.c # NULL
  <2> DEFINE t == f.s
             c == f.c
             one == {c}
             none == {}
  <2>1. PICK to \in [BlockIds -> Nat] :
           /\ Heap(t, {c}, {}, to) /\ Kept(s, t) /\ c \in Inner(t) /\ This(t, c) = n - 6 * FINE
           /\ \A g \in Flags : Has(t, c, g) <=> g \in flags
    BY <1>7, <1>9 DEF Added
  <2>2. ~Has(t, c, "SLOT") /\ This(t, c) >= req + CHUNK_PADDING_SIZE
    BY <1>1, <1>2, <1>5, <2>1, Grains DEF Flags
  <2>3. Heap(t, one, none, to) /\ c \in one /\ one \ {c} = {} /\ Shut(t, none, c) = {}
    BY <2>1 DEF Shut
  <2>4. h = HandOut(t, c, id, color)
    OBVIOUS
  <2> HIDE DEF t, c, one, none, h
  <2>5. /\ Heap(h.s, one \ {c}, Shut(t, none, c), to)
        /\ Lends(t, h, req) /\ SameRest(t, h.s)
    BY <1>4, <2>2, <2>3, <2>4, OutHanded
  <2>6. Heap(h.s, {}, {}, to)
    BY <2>3, <2>5
  <2>7. Lends(s, h, req) /\ SameRest(s, h.s)
    BY <2>1, <2>5, LentOn
  <2>8. CASE id # BIG_MAX_BIN_ID
    BY <1>3, <1>9, <2>6, <2>7, <2>8 DEF Served, c, t, h, r
  <2>9. CASE id = BIG_MAX_BIN_ID
    <3> DEFINE u == r.s
    <3>1. DOMAIN h.s = Fields /\ DOMAIN h = {"s", "c"}
      BY <2>4, <2>6 DEF Heap, Shape, Memory, HandOut
    <3>2. /\ DOMAIN u = Fields /\ \A g \in Fields \ {"counter"} : u[g] = h.s[g]
          /\ r.c = h.c
      BY <1>3, <1>9, <2>9, <3>1 DEF Fields
    <3> HIDE DEF u
    <3>3. SameMem(h.s, u) /\ SameLists(h.s, u) /\ SameRest(h.s, u)
      BY <3>2 DEF SameMem, SameLists, SameSlots, SameRest, Fields
    <3>4. Heap(u, {}, {}, to)
      BY <2>6, <3>3, SameHeap
    <3>5. UsedBy(u) = UsedBy(h.s) /\ \A x : This(u, x) = This(h.s, x)
      <4>1. u.mem = h.s.mem /\ u.size = h.s.size
        BY <3>3 DEF SameMem
      <4> QED BY <4>1 DEF UsedBy, Inner, IsTail, InUse, Has, This
    <3>6. Lends(s, r, req) /\ SameRest(s, r.s)
      BY <2>7, <3>2, <3>3, <3>5 DEF Lends, SameRest, u
    <3> QED BY <3>4, <3>6 DEF Served, u, r
  <2> QED BY <2>8, <2>9
<1> QED BY <1>7, <1>8, <1>9 DEF Added

-----------------------------------------------------------------------------
(* alloc_slot and free_slot *)

\* max is what a block of the slot has room for.
LEMMA SlotMax ==
    ASSUME NEW s, SlotSizes(s), NEW id \in SlotIds, s.slot[id].user > 0
    PROVE  /\ s.slot[id].user \in Nat /\ s.slot[id].user >= FINE
           /\ s.slot[id].block \in Nat /\ s.slot[id].max \in Nat
           /\ s.slot[id].max + BlockOverhead
                = CeilPowerOf2(s.slot[id].block + BlockOverhead + CHUNK_PADDING_SIZE)
           /\ (s.slot[id].max + BlockOverhead) % FINE = 0
           /\ s.slot[id].max >= s.slot[id].user + CHUNK_PADDING_SIZE
<1> DEFINE b == s.slot[id].block
           max == s.slot[id].max
           user == s.slot[id].user
<1>1. /\ user \in Nat /\ user >= FINE /\ b \in Nat /\ b <= MaxBytes + FINE
      /\ max = CeilPowerOf2(b + BlockOverhead + CHUNK_PADDING_SIZE) - BlockOverhead
      /\ max >= user + CHUNK_PADDING_SIZE
  BY DEF SlotSizes
<1> HIDE DEF b, max, user
<1> DEFINE w == b + BlockOverhead + CHUNK_PADDING_SIZE
<1>2. FINE \in Nat /\ w \in Nat /\ w = b + 7 * FINE
  BY <1>1, Grains
<1>3. w <= 2^32
  <2>1. 7 * FINE <= 2^30 /\ 2^30 \in Nat /\ 2^32 = 4 * 2^30 /\ FINE <= 2^30
    BY Bounds
  <2> QED BY <1>1, <1>2, <2>1 DEF MaxBytes
<1>4. max = CeilPowerOf2(w) - BlockOverhead
  BY <1>1
<1> HIDE DEF w
<1>5. CeilPowerOf2(w) \in Nat /\ CeilPowerOf2(w) % FINE = 0
  <2>1. w >= FINE
    BY <1>1, <1>2
  <2> QED BY <1>2, <1>3, <2>1, CeilPower, CeilGrains
<1>6. max \in Nat /\ max + BlockOverhead = CeilPowerOf2(w)
  BY <1>1, <1>2, <1>4, <1>5, Grains
<1> QED BY <1>1, <1>5, <1>6 DEF b, max, user, w

\* u is s before the chunk c was put in front of the list of the slot.
Fronted(u, s, id, c) ==
    /\ DOMAIN u = Fields /\ DOMAIN s = Fields
    /\ \A f \in Fields \ {"slot_bin"} : s[f] = u[f]
    /\ s.slot_bin = [u.slot_bin EXCEPT ![id] = <<c>> \o @]

\* The header of the chunk that a caller of alloc_slot gets.
LEMMA SlotHeader ==
    ASSUME NEW s, Shape(s), SlotSizes(s), NEW c \in DOMAIN s.mem, NEW id \in SlotIds,
           NEW v, DOMAIN v = Fields, \A f \in Fields : v[f] = s[f]
    PROVE  LET r == SlotOut(v, c, id) IN
           r.c = c /\ \E h : OutOf(s, r.s, c, h) /\ h.bin = id
<1> DEFINE r == SlotOut(v, c, id)
           h == [s.mem[c] EXCEPT !.flags = @ \cup {"USED"}, !.bin = id]
<1>1. DOMAIN s = Fields /\ DOMAIN s.mem[c] = {"prev", "this", "flags", "bin", "color"}
  BY DEF Shape, Memory, HeaderOK
<1>2. /\ DOMAIN h = {"prev", "this", "flags", "bin", "color"} /\ h.bin = id
      /\ h.prev = s.mem[c].prev /\ h.this = s.mem[c].this /\ h.flags = s.mem[c].flags \cup {"USED"}
  BY <1>1
<1>3. v.mem = s.mem /\ v.slot = s.slot
  BY DEF Fields
<1>4. /\ DOMAIN r.s = Fields /\ r.c = c
      /\ \A f \in Fields \ {"mem", "bytes", "counter", "slot"} : r.s[f] = s[f]
      /\ r.s.slot = [s.slot EXCEPT ![id].bytes = @ + This(v, c)]
  BY <1>3 DEF SlotOut, Fields
<1>5. r.s.mem = [s.mem EXCEPT ![c] = h]
  <2>1. r.s.mem = [[s.mem EXCEPT ![c].flags = @ \cup {"USED"}] EXCEPT ![c].bin = id]
    BY <1>3 DEF SlotOut, Fields
  <2> QED BY <2>1
<1>6. SameSlots(s, r.s)
  BY <1>4 DEF SameSlots, SlotSizes
<1> HIDE DEF r, h
<1>7. OutOf(s, r.s, c, h)
  BY <1>2, <1>4, <1>5, <1>6 DEF OutOf
<1> QED BY <1>2, <1>4, <1>7 DEF r

\* What SlotTake does with the first chunk of a slot, when it is large enough.
SlotLends(u, t, own, n, c, k) ==
    /\ Heap(t, {}, {}, own) /\ SameRest(u, t)
    /\ UsedBy(t) = UsedBy(u) \cup {n} /\ n \notin UsedBy(u) /\ n # NULL
    /\ \A d \in UsedBy(u) : This(t, d) = This(u, d)
    /\ This(t, n) \in Nat /\ This(t, n) >= k

Shortened(s, id) == [s EXCEPT !.slot_bin[id] = Tail(@)]

\* The first chunk of the list is handed out as a whole,
LEMMA WholeTaken ==
    ASSUME NEW u, NEW own, NEW c, Heap(u, {c}, {}, own), NEW id \in SlotIds,
           Has(u, c, "SLOT"), own[c[1]] = id, NEW k, This(u, c) >= k,
           NEW s, Fronted(u, s, id, c)
    PROVE  LET r == SlotOut(Shortened(s, id), c, id) IN
           r.c = c /\ SlotLends(u, r.s, own, c, c, k)
<1> DEFINE v == Shortened(s, id)
           r == SlotOut(v, c, id)
           one == {c}
           none == {}
<1>1. /\ Heap(u, one, none, own) /\ c \in one /\ one \ {c} = {} /\ Shut(u, none, c) = {}
  BY DEF Shut
<1>2. /\ Shape(u) /\ SlotSizes(u) /\ Object(u) /\ DOMAIN u = Fields
  BY <1>1 DEF Heap, Lists, Shape, Memory
<1>3. c \in DOMAIN u.mem /\ c \in Address /\ c # NULL
  <2> HIDE DEF one, none
  <2> QED BY <1>1, LooseMember
<1>4. u.slot_bin \in [SlotIds -> Seq(Address)]
  BY <1>2 DEF Object
<1>5. DOMAIN v = Fields /\ \A f \in Fields : v[f] = u[f]
  <2>1. u.slot_bin[id] \in Seq(Address)
    BY <1>4
  <2>2. Tail(<<c>> \o u.slot_bin[id]) = u.slot_bin[id]
    BY <1>3, <2>1, Consed
  <2>3. DOMAIN v = Fields /\ v.slot_bin = [s.slot_bin EXCEPT ![id] = Tail(@)]
        /\ \A f \in Fields \ {"slot_bin"} : v[f] = u[f]
    BY DEF Fronted, Fields, Shortened
  <2>4. v.slot_bin = u.slot_bin
    BY <1>4, <2>2, <2>3 DEF Fronted
  <2> HIDE DEF v
  <2> QED BY <2>3, <2>4
<1> HIDE DEF v
<1>6. r.c = c /\ \E h : OutOf(u, r.s, c, h) /\ h.bin = id
  BY <1>2, <1>3, <1>5, SlotHeader
<1> HIDE DEF r
<1>7. PICK h : OutOf(u, r.s, c, h) /\ h.bin = id
  BY <1>6
<1> DEFINE t == r.s
<1>8. /\ OutOf(u, t, c, h) /\ h.bin \in Bins \cup SlotIds
      /\ Has(u, c, "SLOT") => h.bin = own[c[1]]
  BY <1>7
<1> HIDE DEF t, one, none
<1>9. /\ Heap(t, one \ {c}, Shut(u, none, c), own)
      /\ UsedBy(t) = UsedBy(u) \cup {c} /\ c \notin UsedBy(u) /\ SameRest(u, t)
      /\ \A d \in UsedBy(t) : This(t, d) = This(u, d)
  <2>1. Heap(u, one, none, own) /\ c \in one
    BY ONLY <1>1
  <2>2. OutOf(u, t, c, h)
    BY ONLY <1>8
  <2>3. TagOf(u, c, h, own)
    BY <1>8 DEF TagOf
  <2> QED BY <2>1, <2>2, <2>3, GivenOut, SMTT(60)
<1>10. This(u, c) \in Nat
  BY <1>2, <1>3, Headers
<1>11. SlotLends(u, t, own, c, c, k)
  BY <1>1, <1>3, <1>9, <1>10 DEF SlotLends
<1> QED BY <1>6, <1>11 DEF t, r, v

\* or cut first, when the rest still holds a chunk of the slot.
LEMMA PartTaken ==
    ASSUME NEW u, NEW own, NEW c, Heap(u, {c}, {}, own), NEW id \in SlotIds,
           Has(u, c, "SLOT"), own[c[1]] = id, NEW size, size = u.slot[id].user + CHUNK_PADDING_SIZE,
           This(u, c) >= 2 * size, NEW s, Fronted(u, s, id, c)
    PROVE  LET n == NewChunk(s, c, size)
               r == SlotOut(ExploitNewChunk(s, c, size), n, id)
           IN  r.c = n /\ SlotLends(u, r.s, own, n, c, size)
<1> DEFINE n == NewChunk(s, c, size)
           e == ExploitNewChunk(u, c, size)
           x == ExploitNewChunk(s, c, size)
           r == SlotOut(x, n, id)
           v == SlotOut(e, n, id)
           one == {c}
           none == {}
           held == one \cup {n}
           open == none \cup {c}
<1>1. /\ Heap(u, one, none, own) /\ c \in one /\ one \ {c} = {} /\ Shut(u, none, c) = {}
      /\ c \notin none
  BY DEF Shut
<1>2. /\ Shape(u) /\ SlotSizes(u) /\ Object(u) /\ DOMAIN u = Fields /\ Room(u, own)
  BY <1>1 DEF Heap, Lists, Shape, Memory
<1>3. c \in DOMAIN u.mem /\ c \in Address /\ c # NULL /\ c \in Inner(u) /\ ~InUse(u, c)
  <2> HIDE DEF one, none
  <2> QED BY <1>1, LooseMember
<1>4. /\ This(u, c) \in Nat /\ u.size[c[1]] \in Nat /\ FINE \in Nat /\ FINE >= 1 /\ c[2] \in Nat
      /\ 4 * FINE <= c[2] /\ c[2] + This(u, c) <= u.size[c[1]] - 2 * FINE
  BY <1>2, <1>3, Headers, InnerChunk, Grains
<1>5. OfSlot(u, c, id)
  BY <1>2, <1>3 DEF Room
<1>6. /\ u.slot[id].user \in Nat /\ u.slot[id].user >= FINE /\ size \in Nat
      /\ size = u.slot[id].user + FINE /\ size >= 2 * FINE
      /\ u.slot[id].max \in Int /\ u.size[c[1]] = u.slot[id].max + 6 * FINE
  <2>1. u.slot[id].user \in Nat /\ u.slot[id].user >= FINE
    BY <1>2, <1>5 DEF SlotSizes, OfSlot
  <2>2. u.slot[id].max \in Int
    <3>1. u.slot[id].user > 0
      BY <1>4, <2>1
    <3> QED BY <1>2, <3>1, SlotMax
  <2> QED BY <1>4, <1>5, <2>1, <2>2, Grains DEF OfSlot
<1>7. /\ This(u, c) >= size + 2 * FINE /\ Has(u, c, "DIRECT")
      /\ size >= u.slot[own[c[1]]].user + CHUNK_PADDING_SIZE
      /\ This(u, c) >= size + u.slot[own[c[1]]].user + CHUNK_PADDING_SIZE
  BY <1>2, <1>3, <1>4, <1>6, Kind, Grains
<1>n. n = NewChunk(u, c, size)
  BY DEF NewChunk, Fronted, This, Fields
<1>8. /\ Heap(e, held, open, own) /\ Kept(u, e)
      /\ SameLists(u, e) /\ e.slot = u.slot
      /\ n \in Inner(e) /\ n \notin Inner(u) /\ NextOf(e, c) = n /\ This(e, n) = size
      /\ This(e, c) = This(u, c) - size /\ c # n /\ n[1] = c[1]
      /\ \A f \in Flags : (Has(e, n, f) <=> Has(u, c, f)) /\ (Has(e, c, f) <=> Has(u, c, f))
  <2> HIDE DEF one, none, n
  <2>1. LET m == NewChunk(u, c, size) IN
        /\ Heap(e, one \cup {m}, none \cup {c}, own) /\ Kept(u, e)
        /\ SameLists(u, e) /\ e.slot = u.slot
        /\ m \in Inner(e) /\ m \notin Inner(u) /\ NextOf(e, c) = m /\ This(e, m) = size
        /\ This(e, c) = This(u, c) - size /\ c # m /\ m[1] = c[1]
        /\ \A f \in Flags : (Has(e, m, f) <=> Has(u, c, f)) /\ (Has(e, c, f) <=> Has(u, c, f))
    BY <1>1, <1>3, <1>6, <1>7, Cut
  <2> QED BY <1>n, <2>1
<1>9. /\ held \ {n} = {c} /\ n \in held /\ Shut(e, open, n) = {}
  BY <1>8 DEF Shut
<1>10. Has(e, n, "SLOT") /\ Has(e, c, "SLOT") /\ own[n[1]] = id
  BY <1>8 DEF Flags
<1>11. /\ Shape(e) /\ SlotSizes(e) /\ n \in DOMAIN e.mem /\ DOMAIN e = Fields
  BY <1>8 DEF Heap, Inner, Shape, Memory
<1> HIDE DEF e, n, held, open, one, none
<1>12. v.c = n /\ \E h : OutOf(e, v.s, n, h) /\ h.bin = id
  BY <1>11, SlotHeader
<1> HIDE DEF v
<1>13. PICK h : OutOf(e, v.s, n, h) /\ h.bin = id
  BY <1>12
<1> DEFINE w == v.s
<1>14. /\ OutOf(e, w, n, h) /\ TagOf(e, n, h, own)
  BY <1>10, <1>13 DEF TagOf
<1> HIDE DEF w
<1>15. /\ Heap(w, held \ {n}, Shut(e, open, n), own)
       /\ UsedBy(w) = UsedBy(e) \cup {n} /\ n \notin UsedBy(e) /\ SameRest(e, w)
       /\ \A d \in UsedBy(w) : This(w, d) = This(e, d)
  BY ONLY <1>8, <1>9, <1>14, GivenOut
<1>16. Heap(w, one, none, own) /\ c \in one
  BY <1>1, <1>9, <1>15 DEF one, none
<1> DEFINE t == r.s
<1>17. /\ DOMAIN t = Fields /\ \A f \in Fields \ {"slot_bin"} : t[f] = w[f]
       /\ t.slot_bin = s.slot_bin /\ r.c = n /\ w.slot_bin = e.slot_bin
  <2>1. /\ DOMAIN x = Fields /\ DOMAIN e = Fields
        /\ \A f \in Fields \ {"mem"} : x[f] = s[f] /\ e[f] = u[f]
    BY DEF e, ExploitNewChunk, Fields, Fronted
  <2>2. x.mem = e.mem
    BY DEF e, ExploitNewChunk, Fields, Fronted, This, NextOf, NewChunk
  <2>3. \A f \in Fields \ {"slot_bin"} : x[f] = e[f]
    BY <2>1, <2>2 DEF Fronted
  <2>4. x.slot_bin = s.slot_bin
    BY <2>1 DEF Fields
  <2> HIDE DEF x
  <2>5. /\ DOMAIN t = Fields /\ DOMAIN w = Fields /\ r.c = n
        /\ \A f \in Fields \ {"mem", "bytes", "slot"} : t[f] = x[f] /\ w[f] = e[f]
    BY <2>1 DEF w, v, SlotOut, Fields
  <2>6. x.mem = e.mem /\ x.bytes = e.bytes /\ x.slot = e.slot
    BY <2>3 DEF Fields
  <2>7. t.mem = w.mem /\ t.bytes = w.bytes /\ t.slot = w.slot
    <3> HIDE DEF x
    <3>1. /\ t.mem = [[x.mem EXCEPT ![n].flags = @ \cup {"USED"}] EXCEPT ![n].bin = id]
          /\ w.mem = [[e.mem EXCEPT ![n].flags = @ \cup {"USED"}] EXCEPT ![n].bin = id]
      BY <2>1 DEF w, v, SlotOut, Fields
    <3>2. /\ t.bytes = x.bytes + x.mem[n].this /\ w.bytes = e.bytes + e.mem[n].this
      BY <2>1 DEF w, v, SlotOut, Fields, This
    <3>3. /\ t.slot = [x.slot EXCEPT ![id].bytes = @ + x.mem[n].this]
          /\ w.slot = [e.slot EXCEPT ![id].bytes = @ + e.mem[n].this]
      BY <2>1 DEF w, v, SlotOut, Fields, This
    <3> HIDE DEF t
    <3> QED BY <2>6, <3>1, <3>2, <3>3
  <2>8. \A f \in Fields \ {"slot_bin"} : t[f] = w[f]
    <3> HIDE DEF t
    <3> QED BY <2>3, <2>5, <2>7
  <2>9. t.slot_bin = s.slot_bin /\ w.slot_bin = e.slot_bin
    <3> HIDE DEF t
    <3> QED BY <2>4, <2>5 DEF Fields
  <2> HIDE DEF t
  <2> QED BY <2>5, <2>8, <2>9
<1> HIDE DEF t
<1>18. /\ t.bin = w.bin /\ t.bitmap = w.bitmap /\ t.dv = w.dv
       /\ t.slot_bin = [w.slot_bin EXCEPT ![id] = <<c>> \o @]
       /\ SameMem(w, t)
  <2>1. DOMAIN w = Fields
    BY <1>16 DEF Heap, Shape, Memory
  <2>2. t.mem = w.mem /\ t.size = w.size /\ t.used = w.used /\ t.reserve = w.reserve /\ t.slot = w.slot
        /\ t.bin = w.bin /\ t.bitmap = w.bitmap /\ t.dv = w.dv
    BY <1>17 DEF Fields
  <2>3. w.slot_bin = u.slot_bin
    BY <1>8, <1>17 DEF SameLists
  <2> QED BY <1>17, <2>2, <2>3 DEF SameMem, SameSlots, Fronted
<1>19. Has(w, c, "SLOT") /\ This(w, c) = This(u, c) - size /\ w.slot[id].user = u.slot[id].user
       /\ w.slot[id].max = u.slot[id].max
  <2>1. w.mem[c] = e.mem[c] /\ SameSlots(e, w)
    BY <1>8, <1>14 DEF OutOf
  <2>2. id \in DOMAIN e.slot
    BY <1>11 DEF SlotSizes
  <2> QED BY <1>8, <1>10, <2>1, <2>2 DEF Has, This, SameSlots
<1>20. ~SlotWhole(w, c, id)
  BY <1>4, <1>6, <1>19 DEF SlotWhole
<1>21. Heap(t, one \ {c}, none, own)
  BY <1>16, <1>18, <1>19, <1>20, SlotPushed
<1>22. UsedBy(t) = UsedBy(w) /\ \A d \in UsedBy(w) : This(t, d) = This(w, d)
  BY <1>16, <1>18, SameMemory
<1>23. SameRest(w, t)
  BY <1>17 DEF SameRest, Fields
<1>24. This(e, n) = size /\ n \in UsedBy(w) /\ n # NULL /\ n \notin UsedBy(u)
  BY <1>2, <1>8, <1>11, <1>15, Headers DEF Kept
<1>25. SlotLends(u, t, own, n, c, size)
  <2>1. SameRest(u, t)
    BY <1>8, <1>15, <1>23 DEF SameRest, Kept
  <2>2. UsedBy(t) = UsedBy(u) \cup {n} /\ \A d \in UsedBy(u) : This(t, d) = This(u, d)
    BY <1>8, <1>15, <1>22 DEF Kept
  <2>3. Heap(t, {}, {}, own)
    BY <1>1, <1>21 DEF one, none
  <2>4. This(t, n) = size
    BY <1>15, <1>22, <1>24
  <2> QED BY <1>6, <1>24, <2>1, <2>2, <2>3, <2>4 DEF SlotLends
<1> QED BY <1>17, <1>25 DEF t, n

\* What a call of alloc_slot may do.
SlotServed(s, r, req) ==
    /\ Lends(s, r, req) /\ r.s.inited = s.inited /\ r.s.panicked = s.panicked
    /\ r.s.errors = s.errors \/ r.s.errors = s.errors + 1
    /\ \E own \in [BlockIds -> Nat] : Heap(r.s, {}, {}, own)

\* A slot whose sizes do not fit serves no request.
LEMMA SlotRefused ==
    ASSUME NEW s, NEW own \in [BlockIds -> Nat], Heap(s, {}, {}, own), NEW req
    PROVE  SlotServed(s, SlotError(s), req)
<1> DEFINE r == SlotError(s)
           t == r.s
           none == {}
<1>1. DOMAIN s = Fields
  BY DEF Heap, Shape, Memory
<1>2. /\ r.c = NULL /\ DOMAIN t = Fields /\ t.errors = s.errors + 1
      /\ \A f \in Fields \ {"errors"} : t[f] = s[f]
  BY <1>1 DEF SlotError, Fields
<1>3. Heap(s, none, none, own)
  OBVIOUS
<1> HIDE DEF t, none
<1>4. SameMem(s, t) /\ SameLists(s, t)
  BY <1>2 DEF SameMem, SameLists, SameSlots, Fields
<1>5. Heap(t, none, none, own)
  BY <1>3, <1>4, SameHeap
<1>6. UsedBy(t) = UsedBy(s) /\ \A d \in UsedBy(s) : This(t, d) = This(s, d)
  BY <1>3, <1>4, SameMemory
<1>7. t.inited = s.inited /\ t.panicked = s.panicked
  BY <1>2 DEF Fields
<1> QED BY <1>2, <1>5, <1>6, <1>7 DEF SlotServed, Lends, t, none

\* alloc_slot takes from the list of the slot.
LEMMA SlotTaken ==
    ASSUME NEW u, NEW own \in [BlockIds -> Nat], NEW c, Heap(u, {c}, {}, own),
           NEW id \in SlotIds, Has(u, c, "SLOT"), own[c[1]] = id,
           NEW s, Fronted(u, s, id, c), NEW req \in Nat, req <= u.slot[id].user
    PROVE  SlotServed(u, SlotTake(s, id), req)
<1> DEFINE size == u.slot[id].user + CHUNK_PADDING_SIZE
           r == SlotTake(s, id)
           one == {c}
           none == {}
<1>1. Heap(u, one, none, own) /\ c \in one
  OBVIOUS
<1>2. /\ Shape(u) /\ SlotSizes(u) /\ Object(u) /\ DOMAIN u = Fields /\ Room(u, own)
  BY <1>1 DEF Heap, Lists, Shape, Memory
<1>3. c \in DOMAIN u.mem /\ c \in Address /\ c # NULL /\ c \in Inner(u) /\ ~InUse(u, c)
  <2> HIDE DEF one, none
  <2> QED BY <1>1, LooseMember
<1>4. OfSlot(u, c, id)
  BY <1>2, <1>3 DEF Room
<1>5. u.slot[id].user \in Nat /\ This(u, c) \in Nat /\ This(u, c) >= size /\ size \in Nat
      /\ size >= req + CHUNK_PADDING_SIZE /\ CHUNK_PADDING_SIZE \in Nat
  <2>1. u.slot[id].user \in Nat
    BY <1>2 DEF SlotSizes
  <2>2. This(u, c) \in Nat /\ CHUNK_PADDING_SIZE \in Nat
    BY <1>2, <1>3, Headers, Grains
  <2> QED BY <1>4, <2>1, <2>2 DEF OfSlot
<1>6. Head(s.slot_bin[id]) = c
  <2>1. u.slot_bin \in [SlotIds -> Seq(Address)]
    BY <1>2 DEF Object
  <2>2. s.slot_bin[id] = <<c>> \o u.slot_bin[id] /\ u.slot_bin[id] \in Seq(Address)
    BY <2>1 DEF Fronted
  <2> QED BY <1>3, <2>2, Consed
<1>7. s.slot[id].user + CHUNK_PADDING_SIZE = size /\ This(s, c) = This(u, c)
  BY DEF Fronted, Fields, This
<1> HIDE DEF one, none, size
<1>8. \E n : r.c = n /\ SlotLends(u, r.s, own, n, c, size)
  <2>1. CASE This(u, c) >= 2 * size
    <3> DEFINE n == NewChunk(s, c, size)
               x == SlotOut(ExploitNewChunk(s, c, size), n, id)
    <3>1. r = x
      BY <1>5, <1>6, <1>7, <2>1 DEF SlotTake
    <3>2. x.c = n /\ SlotLends(u, x.s, own, n, c, size)
      BY <2>1, PartTaken DEF size
    <3> QED BY <3>1, <3>2
  <2>2. CASE ~(This(u, c) >= 2 * size)
    <3> DEFINE x == SlotOut(Shortened(s, id), c, id)
    <3>1. r = x
      BY <1>5, <1>6, <1>7, <2>2 DEF SlotTake, Shortened
    <3>2. x.c = c /\ SlotLends(u, x.s, own, c, c, size)
      BY <1>5, WholeTaken
    <3> QED BY <3>1, <3>2
  <2> QED BY <2>1, <2>2
<1> HIDE DEF r
<1>9. PICK n : r.c = n /\ SlotLends(u, r.s, own, n, c, size)
  BY <1>8
<1>10. Lends(u, r, req)
  BY <1>5, <1>9 DEF SlotLends, Lends
<1>11. SlotServed(u, r, req)
  BY <1>9, <1>10 DEF SlotServed, SlotLends, SameRest
<1> QED BY <1>11 DEF r

\* The first call for a slot sets its sizes.
LEMMA SlotSet ==
    ASSUME NEW s, NEW own, Heap(s, {}, {}, own), NEW id \in SlotIds, s.slot[id].user = 0,
           NEW bytes \in Nat, bytes > 0, bytes <= MaxBytes, NEW block \in Nat, block <= MaxBytes,
           AlignValue(bytes, FINE) + CHUNK_PADDING_SIZE + BlockOverhead <= block
    PROVE  LET t == SetSlot(s, id, bytes, block) IN
           Heap(t, {}, {}, own) /\ Kept(s, t) /\ t.slot[id].user >= bytes
<1> DEFINE t == SetSlot(s, id, bytes, block)
           user == AlignValue(bytes, FINE)
           size == AlignValue(block, FINE)
           max == CeilPowerOf2(size + BlockOverhead + CHUNK_PADDING_SIZE) - BlockOverhead
           none == {}
<1>1. /\ Heap(s, none, none, own) /\ Shape(s) /\ SlotSizes(s) /\ Room(s, own)
      /\ Lists(s, none, own) /\ Apart(s, none) /\ DOMAIN s = Fields
  BY DEF Heap, Shape, Memory
<1>2. DOMAIN s.slot = SlotIds
  BY <1>1 DEF SlotSizes
<1>3. /\ DOMAIN t = Fields /\ \A f \in Fields \ {"slot"} : t[f] = s[f]
      /\ t.slot = [s.slot EXCEPT ![id] = [user |-> user, block |-> size, max |-> max, bytes |-> 0]]
  BY <1>1 DEF SetSlot, Fields
<1>4. t.mem = s.mem /\ t.size = s.size /\ t.used = s.used /\ t.reserve = s.reserve
      /\ t.dv = s.dv /\ t.bin = s.bin /\ t.bitmap = s.bitmap /\ t.slot_bin = s.slot_bin
      /\ t.inited = s.inited /\ t.panicked = s.panicked /\ t.errors = s.errors
  BY <1>3 DEF Fields
<1>5. /\ t.slot[id] = [user |-> user, block |-> size, max |-> max, bytes |-> 0]
      /\ DOMAIN t.slot = SlotIds /\ \A i \in SlotIds : i # id => t.slot[i] = s.slot[i]
  BY <1>2, <1>3
<1> HIDE DEF t, user, size, max, none
<1>6. /\ user \in Nat /\ user >= bytes /\ user >= FINE /\ FINE \in Nat /\ FINE >= 1
  <2>1. FINE \in Nat /\ FINE >= 1 /\ FINE > 0
    BY Grains
  <2>2. user \in Nat /\ bytes <= user /\ \E q \in Nat : user = q * FINE
    BY <2>1, AlignUp DEF user
  <2>3. PICK q \in Nat : user = q * FINE
    BY <2>2
  <2>4. q # 0
    BY <2>1, <2>2, <2>3
  <2>5. q * FINE >= FINE
    <3>1. PICK k \in Nat : q = k + 1
      <4>1. q - 1 \in Nat /\ q = (q - 1) + 1
        BY <2>4
      <4> QED BY <4>1
    <3>2. k * FINE \in Nat /\ q * FINE = k * FINE + FINE
      BY <2>1, <3>1
    <3> QED BY <2>1, <3>2
  <2> QED BY <2>1, <2>2, <2>3, <2>5
<1>7. size \in Nat /\ size >= block /\ size <= MaxBytes + FINE
  <2>1. size \in Nat /\ block <= size /\ size < block + FINE
    <3>1. FINE > 0
      BY <1>6
    <3> QED BY <1>6, <3>1, AlignUp DEF size
  <2>2. MaxBytes \in Nat
    BY Bounds DEF MaxBytes
  <2> QED BY <1>6, <2>1, <2>2
<1>8. max \in Int /\ max >= user + CHUNK_PADDING_SIZE
  <2> DEFINE w == size + BlockOverhead + CHUNK_PADDING_SIZE
  <2>1. w \in Nat /\ w = size + 7 * FINE
    BY <1>6, <1>7, Grains
  <2>2. w <= 2^32
    <3>1. 7 * FINE <= 2^30 /\ 2^30 \in Nat /\ 2^32 = 4 * 2^30 /\ FINE <= 2^30
      BY Bounds
    <3> QED BY <1>6, <1>7, <2>1, <3>1 DEF MaxBytes
  <2>3. max = CeilPowerOf2(w) - BlockOverhead
    BY DEF max
  <2> HIDE DEF w
  <2>4. CeilPowerOf2(w) \in Nat /\ CeilPowerOf2(w) >= w
    BY <2>1, <2>2, CeilPower
  <2>5. user + 7 * FINE <= block
    BY <1>6, Grains DEF user
  <2> QED BY <1>6, <1>7, <2>1, <2>3, <2>4, <2>5, Grains
<1>9. SlotSizes(t)
  <2>1. /\ DOMAIN t.slot[id] = {"user", "block", "max", "bytes"}
        /\ t.slot[id].user = user /\ t.slot[id].block = size /\ t.slot[id].max = max
    BY <1>5
  <2>2. \A i \in SlotIds : i # id =>
          /\ DOMAIN t.slot[i] = {"user", "block", "max", "bytes"}
          /\ t.slot[i].user \in Nat
          /\ t.slot[i].user > 0 =>
               /\ t.slot[i].user >= FINE
               /\ t.slot[i].block \in Nat /\ t.slot[i].block <= MaxBytes + FINE
               /\ t.slot[i].max = CeilPowerOf2(t.slot[i].block + BlockOverhead + CHUNK_PADDING_SIZE)
                                    - BlockOverhead
               /\ t.slot[i].max >= t.slot[i].user + CHUNK_PADDING_SIZE
    BY <1>1, <1>5 DEF SlotSizes
  <2>3. max = CeilPowerOf2(size + BlockOverhead + CHUNK_PADDING_SIZE) - BlockOverhead
    BY DEF max
  <2> QED BY <1>5, <1>6, <1>7, <1>8, <2>1, <2>2, <2>3 DEF SlotSizes
<1>10. Alike(s, t)
  <2>1. \A x \in DOMAIN s.mem : HeaderOK(s.mem[x])
    BY <1>1 DEF Shape, Memory
  <2> QED BY <1>3, <1>4, <2>1 DEF Alike, Kindred
<1>11. Shape(t)
  BY <1>1, <1>10, SameShape
<1>12. /\ Inner(t) = Inner(s) /\ Inner(s) \subseteq DOMAIN s.mem
       /\ \A c : Has(t, c, "SLOT") <=> Has(s, c, "SLOT")
       /\ \A c : InUse(t, c) <=> InUse(s, c)
       /\ \A c : This(t, c) = This(s, c) /\ NextOf(t, c) = NextOf(s, c)
  BY <1>4 DEF Inner, IsTail, Has, InUse, This, NextOf
<1>13. \A c \in Inner(s) : Has(s, c, "SLOT") => OfSlot(s, c, own[c[1]]) /\ own[c[1]] # id
  BY <1>1 DEF Room, OfSlot
<1>14. Room(t, own)
  <2>1. ASSUME NEW c \in Inner(s), Has(s, c, "SLOT") PROVE OfSlot(t, c, own[c[1]])
    BY <1>4, <1>5, <1>12, <1>13, <2>1 DEF OfSlot
  <2>2. \A c \in Inner(s) :
          /\ Has(t, c, "BIG") /\ ~Has(t, c, "SLOT") => This(t, c) >= BIG_LEAST_SIZE
          /\ Has(t, c, "DIRECT") /\ ~Has(t, c, "SLOT") => Fills(t, c)
    BY <1>1, <1>4 DEF Room, Has, This, Fills
  <2> QED BY <1>12, <2>1, <2>2 DEF Room
<1>15. SlotListed(t, none, own)
  <2>1. ASSUME NEW i \in SlotIds, NEW c \in ToSet(s.slot_bin[i]) PROVE InSlot(t, none, own, i, c)
    <3>1. InSlot(s, none, own, i, c) /\ c \in Inner(s)
      BY <1>1, <2>1 DEF Lists, SlotListed, InSlot, Free
    <3>2. i # id
      BY <1>13, <3>1 DEF InSlot
    <3> QED BY <1>5, <1>12, <3>1, <3>2 DEF InSlot, Free, SlotWhole
  <2> QED BY <1>1, <1>4, <2>1 DEF Lists, SlotListed
<1>16. Binned(t, none)
  <2>1. ASSUME NEW l \in Levels, NEW b \in Bins, NEW c, InBin(s, none, l, b, c)
        PROVE  InBin(t, none, l, b, c)
    BY <1>4, <1>12, <2>1 DEF InBin, Free, Has, Level, BinOf, This, WholeBlock
  <2> QED BY <1>1, <1>4, <2>1 DEF Lists, Binned
<1>17. DvSound(t, none)
  BY <1>1, <1>4, <1>12 DEF Lists, DvSound, Free, Has, Level
<1>18. Object(t) /\ Found(t, none)
  BY <1>1, <1>4, <1>12 DEF Lists, Object, Found, Free
<1>19. Apart(t, none)
  BY <1>1, <1>12 DEF Apart
<1>20. Heap(t, none, none, own)
  BY <1>9, <1>11, <1>14, <1>15, <1>16, <1>17, <1>18, <1>19 DEF Heap, Lists
<1>21. Kept(s, t)
  BY <1>4, <1>12 DEF Kept, UsedBy
<1>22. t.slot[id].user >= bytes
  BY <1>5, <1>6
<1> QED BY <1>20, <1>21, <1>22 DEF t, none

\* The block that alloc_slot asks for when the list of a slot is empty.
LEMMA SlotFits ==
    ASSUME NEW s, SlotSizes(s), NEW id \in SlotIds, s.slot[id].user > 0
    PROVE  LET flags == {"BIG", "DIRECT", "SLOT"} IN
           BlockFits(s, BlockBytes(s.slot[id].block, flags), flags, id)
<1> DEFINE flags == {"BIG", "DIRECT", "SLOT"}
           bytes == s.slot[id].block
           n == BlockBytes(bytes, flags)
<1>1. /\ s.slot[id].user \in Nat /\ s.slot[id].user >= FINE
      /\ bytes \in Nat /\ s.slot[id].max \in Nat
      /\ s.slot[id].max + BlockOverhead
           = CeilPowerOf2(bytes + BlockOverhead + CHUNK_PADDING_SIZE)
      /\ s.slot[id].max >= s.slot[id].user + CHUNK_PADDING_SIZE
      /\ (s.slot[id].max + BlockOverhead) % FINE = 0
  BY SlotMax
<1>2. n = CeilPowerOf2(bytes + BlockOverhead + CHUNK_PADDING_SIZE)
  BY DEF BlockBytes
<1>3. n \in Nat
  <2> HIDE DEF n
  <2> QED BY <1>1, <1>2, Grains
<1>4. "USED" \notin flags /\ flags \cup {"USED"} \in Kinds /\ "DIRECT" \in flags
      /\ "SLOT" \in flags
  BY DEF Kinds
<1>5. FINE \in Nat /\ n = s.slot[id].max + BlockOverhead /\ n >= 8 * FINE /\ n % FINE = 0
  BY <1>1, <1>2, <1>3, Grains
<1>6. BlockFits(s, n, flags, id)
  <2> HIDE DEF n, flags
  <2> QED BY <1>1, <1>3, <1>4, <1>5 DEF BlockFits
<1> QED BY <1>6

\* alloc_slot adds a block when the list is empty.
LEMMA SlotGot ==
    ASSUME NEW s, NEW own \in [BlockIds -> Nat], Heap(s, {}, {}, own), NEW id \in SlotIds,
           NEW req \in Nat, req > 0, req <= s.slot[id].user
    PROVE  LET f == AllocBlock(s, s.slot[id].block, {"BIG", "DIRECT", "SLOT"})
               r == IF s.slot_bin[id] # <<>> THEN SlotTake(s, id)
                    ELSE IF f.c = NULL THEN SlotError(f.s)
                    ELSE SlotTake([f.s EXCEPT !.slot_bin[id] = <<f.c>>], id)
           IN  SlotServed(s, r, req)
<1> DEFINE flags == {"BIG", "DIRECT", "SLOT"}
           bytes == s.slot[id].block
           n == BlockBytes(bytes, flags)
           f == AllocBlock(s, bytes, flags)
           x == [f.s EXCEPT !.slot_bin[id] = <<f.c>>]
           r == IF s.slot_bin[id] # <<>> THEN SlotTake(s, id)
                ELSE IF f.c = NULL THEN SlotError(f.s) ELSE SlotTake(x, id)
           none == {}
<1>1. /\ Heap(s, none, none, own) /\ Shape(s) /\ SlotSizes(s) /\ Object(s) /\ DOMAIN s = Fields
  BY DEF Heap, Shape, Memory, Lists
<1>2. s.slot_bin \in [SlotIds -> Seq(Address)] /\ s.slot_bin[id] \in Seq(Address)
  BY <1>1 DEF Object
<1>3. CASE s.slot_bin[id] # <<>>
  <2> DEFINE q == s.slot_bin[id]
             c == Head(q)
             u == Shortened(s, id)
             one == {c}
  <2>1. q \in Seq(Address) /\ q # <<>> /\ IsInjective(q)
    BY <1>1, <1>2, <1>3 DEF Heap, Lists, SlotListed
  <2> HIDE DEF q
  <2>2. /\ Tail(q) \in Seq(Address) /\ c \in ToSet(q) /\ q = <<c>> \o Tail(q)
        /\ IsInjective(Tail(q)) /\ ToSet(Tail(q)) = ToSet(q) \ {c}
    BY <2>1, Tailed
  <2> HIDE DEF c
  <2>3. /\ DOMAIN u = Fields /\ \A g \in Fields \ {"slot_bin"} : u[g] = s[g]
        /\ u.slot_bin = [s.slot_bin EXCEPT ![id] = Tail(q)]
    BY <1>1 DEF Shortened, Fields, q
  <2> HIDE DEF u
  <2>4. SameMem(s, u) /\ u.bin = s.bin /\ u.bitmap = s.bitmap /\ u.dv = s.dv
        /\ u.inited = s.inited /\ u.panicked = s.panicked /\ u.errors = s.errors
    BY <2>3 DEF SameMem, SameSlots, Fields
  <2>5. c \in ToSet(s.slot_bin[id]) /\ ToSet(Tail(q)) = ToSet(s.slot_bin[id]) \ {c}
    BY <2>2 DEF q
  <2>6. Heap(u, none \cup {c}, none, own)
    <3> HIDE DEF none
    <3> DEFINE list == Tail(q)
    <3>1. list \in Seq(Address) /\ IsInjective(list) /\ ToSet(list) = ToSet(s.slot_bin[id]) \ {c}
          /\ u.slot_bin = [s.slot_bin EXCEPT ![id] = list]
      BY <2>2, <2>3, <2>5
    <3> HIDE DEF list
    <3> QED BY ONLY <1>1, <2>4, <2>5, <3>1, SlotPopped, id \in SlotIds
  <2>7. Has(s, c, "SLOT") /\ own[c[1]] = id
    <3> HIDE DEF none
    <3> QED BY <1>1, <2>5, SlotMember
  <2>8. Heap(u, {c}, {}, own) /\ Has(u, c, "SLOT") /\ u.slot[id].user = s.slot[id].user
    BY <2>3, <2>6, <2>7 DEF Has, Fields
  <2>9. Fronted(u, s, id, c)
    BY <1>1, <1>2, <2>2, <2>3 DEF Fronted, q
  <2>10. SlotServed(u, SlotTake(s, id), req)
    BY <2>7, <2>8, <2>9, SlotTaken
  <2>11. UsedBy(u) = UsedBy(s) /\ \A d \in UsedBy(s) : This(u, d) = This(s, d)
    <3> HIDE DEF none
    <3> QED BY <1>1, <2>4, SameMemory
  <2>12. r = SlotTake(s, id)
    BY <1>3
  <2> HIDE DEF r
  <2>13. SlotServed(s, r, req)
    BY <2>4, <2>10, <2>11, <2>12 DEF SlotServed, Lends
  <2> QED BY <2>13 DEF r
<1>4. CASE s.slot_bin[id] = <<>>
  <2>4. BlockFits(s, n, flags, id)
    <3>1. s.slot[id].user > 0
      BY <1>1 DEF SlotSizes
    <3> QED BY <1>1, <3>1, SlotFits
  <2>5. id \in Nat
    BY Bounds, ZMallocAssumption DEF SlotIds
  <2>6. n = BlockBytes(bytes, flags) /\ f = AllocBlock(s, bytes, flags)
        /\ "SLOT" \in flags
    OBVIOUS
  <2> HIDE DEF n, flags, bytes, f
  <2>7. Added(s, f, n, flags, id)
    <3> HIDE DEF none
    <3>1. Added(s, AllocBlock(s, bytes, flags), n, flags, id)
      BY <2>4, <2>5, <2>6, BlockAdded
    <3> QED BY <2>6, <3>1
  <2>8. CASE f.c = NULL /\ f.s = s
    <3>1. r = SlotError(s)
      BY <1>4, <2>8
    <3>2. SlotServed(s, SlotError(s), req)
      BY SlotRefused
    <3> QED BY <3>1, <3>2 DEF f, bytes, flags
  <2>9. CASE f.c # NULL
    <3> DEFINE u == f.s
               c == f.c
    <3>1. PICK to \in [BlockIds -> Nat] :
             /\ Heap(u, {c}, {}, to) /\ Kept(s, u) /\ SameLists(s, u) /\ u.slot = s.slot
             /\ \A g \in Flags : Has(u, c, g) <=> g \in flags
             /\ to[c[1]] = id
      BY <2>7, <2>9 DEF Added
    <3>2. Has(u, c, "SLOT")
      BY <2>6, <3>1 DEF Flags
    <3>3. DOMAIN u = Fields /\ u.slot_bin = s.slot_bin
      BY <3>1 DEF Heap, Shape, Memory, SameLists
    <3>x. x = [u EXCEPT !.slot_bin[id] = <<c>>]
      OBVIOUS
    <3> HIDE DEF u, c, x
    <3>4. Fronted(u, x, id, c)
      <4>1. <<c>> = <<c>> \o <<>>
        OBVIOUS
      <4>2. /\ DOMAIN x = Fields /\ \A g \in Fields \ {"slot_bin"} : x[g] = u[g]
            /\ x.slot_bin = [u.slot_bin EXCEPT ![id] = <<c>>]
        BY <3>3, <3>x DEF Fields
      <4>3. u.slot_bin[id] = <<>>
        BY <1>4, <3>3
      <4>4. x.slot_bin = [u.slot_bin EXCEPT ![id] = <<c>> \o @]
        BY <4>1, <4>2, <4>3
      <4> QED BY <3>3, <4>2, <4>4 DEF Fronted
    <3>5. req <= u.slot[id].user
      BY <3>1
    <3>6. SlotServed(u, SlotTake(x, id), req)
      BY <3>1, <3>2, <3>4, <3>5, SlotTaken
    <3>7. r = SlotTake(x, id)
      BY <1>4, <2>9
    <3> HIDE DEF r
    <3>8. SlotServed(s, r, req)
      BY <3>1, <3>6, <3>7 DEF SlotServed, Lends, Kept
    <3> QED BY <3>8 DEF r, x, u, c, f, bytes, flags
  <2> QED BY <2>7, <2>8, <2>9 DEF Added
<1> QED BY <1>3, <1>4

\* alloc_slot serves a request with a chunk that holds it, or returns NULL.
LEMMA SlotServes ==
    ASSUME NEW s, NEW own \in [BlockIds -> Nat], Heap(s, {}, {}, own), NEW id \in SlotIds,
           NEW bytes \in Nat, bytes <= MaxBytes, NEW block \in Nat, block <= MaxBytes
    PROVE  SlotServed(s, SlotAlloc(s, id, bytes, block), bytes)
<1> DEFINE fresh == bytes > s.slot[id].user
           t == IF fresh THEN SetSlot(s, id, bytes, block) ELSE s
           f == AllocBlock(t, t.slot[id].block, {"BIG", "DIRECT", "SLOT"})
           g == IF t.slot_bin[id] # <<>> THEN SlotTake(t, id)
                ELSE IF f.c = NULL THEN SlotError(f.s)
                ELSE SlotTake([f.s EXCEPT !.slot_bin[id] = <<f.c>>], id)
           r == SlotAlloc(s, id, bytes, block)
           most == AlignValue(bytes, FINE) + CHUNK_PADDING_SIZE + BlockOverhead
<1>1. CASE \/ bytes = 0
           \/ bytes # 0 /\ fresh /\ s.slot[id].user # 0
           \/ bytes # 0 /\ fresh /\ s.slot[id].user = 0 /\ most > block
  <2>1. r = SlotError(s)
    BY <1>1 DEF SlotAlloc
  <2> HIDE DEF r
  <2> QED BY <2>1, SlotRefused DEF r
<1>2. CASE /\ bytes # 0 /\ ~(fresh /\ s.slot[id].user # 0)
           /\ ~(fresh /\ s.slot[id].user = 0 /\ most > block)
  <2>1. r = g
    BY <1>2 DEF SlotAlloc
  <2>2. s.slot[id].user \in Nat
    BY DEF Heap, SlotSizes
  <2>3. Heap(t, {}, {}, own) /\ Kept(s, t) /\ bytes <= t.slot[id].user
    <3>1. CASE fresh
      <4>1. s.slot[id].user = 0 /\ most <= block
        <5>1. most \in Int
          <6>1. FINE \in Nat /\ FINE > 0
            BY Grains
          <6>2. AlignValue(bytes, FINE) \in Nat
            BY <6>1, AlignUp
          <6> QED BY <6>1, <6>2, Grains
        <5> QED BY <1>2, <3>1, <5>1
      <4>2. bytes > 0
        BY <1>2
      <4> DEFINE v == SetSlot(s, id, bytes, block)
      <4>3. Heap(v, {}, {}, own) /\ Kept(s, v) /\ v.slot[id].user >= bytes
        BY <4>1, <4>2, SlotSet
      <4>4. v.slot[id].user \in Nat
        <5> HIDE DEF v
        <5> QED BY <4>3 DEF Heap, SlotSizes
      <4> HIDE DEF v
      <4>5. t = v
        BY <3>1 DEF v
      <4> HIDE DEF t
      <4> QED BY <4>3, <4>4, <4>5
    <3>2. CASE ~fresh
      BY <2>2, <3>2 DEF Kept
    <3> QED BY <3>1, <3>2
  <2>4. bytes > 0
    BY <1>2
  <2> HIDE DEF t
  <2>5. SlotServed(t, g, bytes)
    BY <2>3, <2>4, SlotGot
  <2> HIDE DEF g, r
  <2>6. SlotServed(s, r, bytes)
    BY <2>1, <2>3, <2>5 DEF SlotServed, Lends, Kept
  <2> QED BY <2>6 DEF r
<1> QED BY <1>1, <1>2

\* A free chunk of a slot is in its list.
LEMMA SlotFound ==
    ASSUME NEW s, NEW loose, NEW open, NEW own, Heap(s, loose, open, own),
           NEW p \in Inner(s), ~InUse(s, p), p \notin loose, Has(s, p, "SLOT"),
           NEW id \in SlotIds, own[p[1]] = id
    PROVE  p \in ToSet(s.slot_bin[id])
<1>1. Shape(s) /\ p \in DOMAIN s.mem
  BY DEF Heap, Inner
<1>2. p # NULL
  BY <1>1, Headers
<1>3. \A k \in Levels : p # s.dv[k]
  BY <1>2, DvMember
<1>4. \A l \in Levels, b \in Bins : p \notin ToSet(s.bin[l][b])
  BY BinMember
<1>5. \E i \in SlotIds : p \in ToSet(s.slot_bin[i])
  BY <1>3, <1>4 DEF Heap, Lists, Found
<1>6. PICK i \in SlotIds : p \in ToSet(s.slot_bin[i])
  BY <1>5
<1>7. i = id
  BY <1>6, SlotMember
<1> QED BY <1>6, <1>7

\* It leaves the list.
LEMMA SlotPicked ==
    ASSUME NEW s, NEW loose, NEW open, NEW own, Heap(s, loose, open, own),
           NEW id \in SlotIds, NEW p \in ToSet(s.slot_bin[id])
    PROVE  LET t == SlotPick(s, id, p) IN
           /\ Heap(t, loose \cup {p}, open, own) /\ Kept(s, t) /\ Alike(s, t)
           /\ t.slot = s.slot /\ t.mem = s.mem
<1> DEFINE t == SlotPick(s, id, p)
           list == Unlink(s.slot_bin[id], p)
<1>1. DOMAIN s = Fields /\ s.slot_bin \in [SlotIds -> Seq(Address)]
      /\ IsInjective(s.slot_bin[id]) /\ \A x \in DOMAIN s.mem : HeaderOK(s.mem[x])
  BY DEF Heap, Shape, Memory, Lists, Object, SlotListed
<1>2. list \in Seq(Address) /\ IsInjective(list) /\ ToSet(list) = ToSet(s.slot_bin[id]) \ {p}
  <2>1. s.slot_bin[id] \in Seq(Address)
    BY <1>1
  <2> QED BY <1>1, <2>1, Unlinked
<1>3. /\ DOMAIN t = Fields /\ t.slot_bin = [s.slot_bin EXCEPT ![id] = list]
      /\ \A f \in Fields \ {"slot_bin"} : t[f] = s[f]
  BY <1>1 DEF SlotPick, Fields
<1> HIDE DEF t, list
<1>4. /\ SameMem(s, t) /\ t.bin = s.bin /\ t.bitmap = s.bitmap /\ t.dv = s.dv
      /\ t.slot = s.slot /\ t.mem = s.mem
      /\ t.inited = s.inited /\ t.panicked = s.panicked /\ t.errors = s.errors
  BY <1>3 DEF SameMem, SameSlots, Fields
<1>5. Heap(t, loose \cup {p}, open, own)
  BY <1>2, <1>3, <1>4, SlotPopped
<1>6. Alike(s, t) /\ UsedBy(t) = UsedBy(s) /\ \A d \in UsedBy(s) : This(t, d) = This(s, d)
  BY <1>4, SameMemory
<1> QED BY <1>4, <1>5, <1>6 DEF Kept, t

\* free_slot swallows the free chunk in front,
LEMMA SlotFrontMerged ==
    ASSUME NEW s, NEW own, NEW c, NEW id \in SlotIds,
           Heap(s, {c}, {c, FrontOf(s, c)}, own), Has(s, c, "SLOT"), own[c[1]] = id
    PROVE  LET p == FrontOf(s, c)
               t == IF InUse(s, p) THEN s ELSE Merge(SlotPick(s, id, p), p, c)
               d == IF InUse(s, p) THEN c ELSE p
           IN  /\ Heap(t, {d}, {d}, own) /\ Kept(s, t) /\ t.slot = s.slot
               /\ Has(t, d, "SLOT") /\ d[1] = c[1]
<1> DEFINE p == FrontOf(s, c)
           t == IF InUse(s, p) THEN s ELSE Merge(SlotPick(s, id, p), p, c)
           d == IF InUse(s, p) THEN c ELSE p
           one == {c}
           two == {c, p}
<1>1. Shape(s) /\ c \in Inner(s) /\ ~InUse(s, c) /\ c # NULL
  <2>1. Shape(s)
    BY DEF Heap
  <2> QED BY <2>1, LooseMember
<1>2. p \in DOMAIN s.mem /\ p[1] = c[1] /\ Has(s, p, "SLOT") /\ NextOf(s, p) = c /\ c # p
  <2>1. p \in DOMAIN s.mem /\ p[1] = c[1] /\ Has(s, p, "SLOT")
    BY <1>1, SameKind
  <2>2. NextOf(s, p) = c /\ p[2] + This(s, p) = c[2] /\ This(s, p) >= 2 * FINE
    BY <1>1, InnerChunk
  <2>3. p[2] \in Nat /\ c[2] \in Nat /\ This(s, p) \in Nat
    BY <1>1, <2>1, Headers DEF Inner
  <2> QED BY <2>1, <2>2, <2>3, Grains
<1>3. Kept(s, s)
  BY DEF Kept
<1>4. Heap(s, one, two, own)
  OBVIOUS
<1>5. CASE InUse(s, p)
  <2>1. t = s /\ d = c
    BY <1>5
  <2> HIDE DEF t, d, p
  <2>2. \A x \in two : x \in one \/ x \notin Inner(s) \/ InUse(s, x) \/ InUse(s, NextOf(s, x))
    BY <1>5
  <2> HIDE DEF one, two
  <2>3. Heap(s, one, one, own)
    BY <1>4, <2>2, OpenLess
  <2>4. Heap(t, {d}, {d}, own)
    BY <2>1, <2>3 DEF one
  <2> QED BY <1>3, <2>1, <2>4 DEF t, d, p
<1>6. CASE ~InUse(s, p)
  <2>0. p \in Inner(s)
    BY <1>1, <1>6, Neighbours
  <2> DEFINE m == SlotPick(s, id, p)
             out == one \cup {p}
  <2>1. t = Merge(m, p, c) /\ d = p
    BY <1>6
  <2> HIDE DEF t, d, p
  <2>2. /\ Heap(m, out, two, own) /\ Kept(s, m) /\ Alike(s, m) /\ m.slot = s.slot /\ m.mem = s.mem
    <3>1. p \notin one /\ own[p[1]] = id
      BY <1>2
    <3> HIDE DEF one, two
    <3>2. p \in ToSet(s.slot_bin[id])
      BY <1>2, <1>4, <1>6, <2>0, <3>1, SlotFound
    <3> QED BY <1>4, <3>2, SlotPicked
  <2>3. c \in out /\ p \in out /\ out \ {c} = {p}
    BY <1>2
  <2>4. (two \ {p, c}) \cup (IF c \in two THEN {p} ELSE {}) = {p}
    OBVIOUS
  <2> HIDE DEF one, two, m, out
  <2>5. /\ Inner(m) = Inner(s) /\ NextOf(m, p) = c /\ ~InUse(m, p) /\ Has(m, p, "SLOT")
    <3>1. /\ Inner(m) = Inner(s) /\ NextOf(m, p) = NextOf(s, p)
      BY <1>2, <2>2, SameChunks
    <3> QED BY <1>2, <1>6, <2>2, <3>1 DEF InUse, Has
  <2>6. LET w == Merge(m, p, c) IN
           /\ Heap(w, out \ {c}, (two \ {p, c}) \cup (IF c \in two THEN {p} ELSE {}), own)
           /\ Kept(m, w) /\ SameLists(m, w) /\ w.slot = m.slot
           /\ p \in Inner(w)
           /\ \A x \in DOMAIN w.mem : \A g \in Flags : Has(w, x, g) <=> Has(m, x, g)
    BY <2>0, <2>2, <2>3, <2>5, Merged
  <2>7. /\ Heap(t, {p}, {p}, own) /\ Kept(m, t) /\ t.slot = m.slot /\ Has(t, p, "SLOT")
    <3>1. Heap(t, out \ {c}, {p}, own) /\ Kept(m, t) /\ t.slot = m.slot
      BY <2>1, <2>4, <2>6
    <3>2. p \in Inner(t) /\ \A x \in DOMAIN t.mem : \A g \in Flags : Has(t, x, g) <=> Has(m, x, g)
      BY <2>1, <2>6
    <3> QED BY <2>3, <2>5, <3>1, <3>2 DEF Inner, Flags
  <2>8. Kept(s, t)
    BY <2>2, <2>7, KeptOn
  <2>9. Heap(t, {d}, {d}, own) /\ Has(t, d, "SLOT") /\ d[1] = c[1] /\ t.slot = s.slot
    BY <1>2, <2>1, <2>2, <2>7
  <2> QED BY <2>8, <2>9 DEF t, d, p
<1> QED BY <1>5, <1>6

\* and the one behind.
LEMMA SlotNextMerged ==
    ASSUME NEW s, NEW own, NEW c, NEW id \in SlotIds,
           Heap(s, {c}, {c}, own), Has(s, c, "SLOT"), own[c[1]] = id
    PROVE  LET n == NextOf(s, c)
               t == IF InUse(s, n) THEN s ELSE Merge(SlotPick(s, id, n), c, n)
           IN  Heap(t, {c}, {}, own) /\ Kept(s, t) /\ t.slot = s.slot /\ Has(t, c, "SLOT")
<1> DEFINE n == NextOf(s, c)
           t == IF InUse(s, n) THEN s ELSE Merge(SlotPick(s, id, n), c, n)
           one == {c}
           none == {}
<1>1. Shape(s) /\ c \in Inner(s) /\ ~InUse(s, c) /\ c # NULL /\ c \in DOMAIN s.mem
  <2>1. Shape(s)
    BY DEF Heap
  <2> QED BY <2>1, LooseMember
<1>2. n \in DOMAIN s.mem /\ n[1] = c[1] /\ Has(s, n, "SLOT") /\ c # n
  <2>1. n \in DOMAIN s.mem /\ n[1] = c[1] /\ Has(s, n, "SLOT")
    BY <1>1, SameKind
  <2>2. n[2] = c[2] + This(s, c) /\ This(s, c) >= 2 * FINE
    BY <1>1, InnerChunk
  <2>3. c[2] \in Nat /\ This(s, c) \in Nat
    BY <1>1, Headers
  <2> QED BY <2>1, <2>2, <2>3, Grains
<1>3. Kept(s, s)
  BY DEF Kept
<1>4. Heap(s, one, one, own) /\ c \in one /\ n \notin one
  BY <1>2
<1>5. CASE InUse(s, n)
  <2>1. t = s
    BY <1>5
  <2>2. \A x \in one : x \in none \/ x \notin Inner(s) \/ InUse(s, x) \/ InUse(s, NextOf(s, x))
    BY <1>5
  <2> HIDE DEF one, none, n, t
  <2>3. Heap(s, one, none, own)
    BY <1>4, <2>2, OpenLess
  <2>4. Heap(t, {c}, {}, own)
    BY <2>1, <2>3 DEF one, none
  <2> QED BY <1>3, <2>1, <2>4 DEF t, n
<1>6. CASE ~InUse(s, n)
  <2> DEFINE m == SlotPick(s, id, n)
             out == one \cup {n}
  <2>0. n \in Inner(s)
    BY <1>1, <1>6, Neighbours
  <2>1. t = Merge(m, c, n)
    BY <1>6
  <2> HIDE DEF t, n
  <2>2. /\ Heap(m, out, one, own) /\ Kept(s, m) /\ Alike(s, m) /\ m.slot = s.slot /\ m.mem = s.mem
    <3>1. own[n[1]] = id
      BY <1>2
    <3> HIDE DEF one
    <3>2. n \in ToSet(s.slot_bin[id])
      BY <1>2, <1>4, <1>6, <2>0, <3>1, SlotFound
    <3> QED BY <1>4, <3>2, SlotPicked
  <2>3. c \in out /\ n \in out /\ out \ {n} = {c}
    BY <1>2
  <2>4. (one \ {c, n}) \cup (IF n \in one THEN {c} ELSE {}) = {}
    BY <1>2
  <2> HIDE DEF one, m, out
  <2>5. /\ Inner(m) = Inner(s) /\ NextOf(m, c) = n /\ ~InUse(m, c) /\ Has(m, c, "SLOT")
    <3>1. /\ Inner(m) = Inner(s) /\ NextOf(m, c) = NextOf(s, c)
      BY <1>1, <2>2, SameChunks
    <3> QED BY <1>1, <1>6, <2>2, <3>1 DEF InUse, Has, n
  <2>6. LET w == Merge(m, c, n) IN
           /\ Heap(w, out \ {n}, (one \ {c, n}) \cup (IF n \in one THEN {c} ELSE {}), own)
           /\ Kept(m, w) /\ SameLists(m, w) /\ w.slot = m.slot
           /\ c \in Inner(w)
           /\ \A x \in DOMAIN w.mem : \A g \in Flags : Has(w, x, g) <=> Has(m, x, g)
    BY <1>1, <2>2, <2>3, <2>5, Merged
  <2>7. /\ Heap(t, {c}, {}, own) /\ Kept(m, t) /\ t.slot = m.slot /\ Has(t, c, "SLOT")
    <3>1. Heap(t, out \ {n}, {}, own) /\ Kept(m, t) /\ t.slot = m.slot
      BY <2>1, <2>4, <2>6
    <3>2. c \in Inner(t) /\ \A x \in DOMAIN t.mem : \A g \in Flags : Has(t, x, g) <=> Has(m, x, g)
      BY <2>1, <2>6
    <3> QED BY <2>3, <2>5, <3>1, <3>2 DEF Inner, Flags
  <2>8. Kept(s, t)
    BY <2>2, <2>7, KeptOn
  <2> QED BY <2>2, <2>7, <2>8 DEF t, n
<1> QED BY <1>5, <1>6

\* A chunk with the size of its block is alone there.
LEMMA SlotBlockAlone ==
    ASSUME NEW s, NEW own, NEW c, NEW id \in SlotIds, Heap(s, {c}, {}, own),
           Has(s, c, "SLOT"), own[c[1]] = id, SlotWhole(s, c, id)
    PROVE  \A d \in Inner(s) : d[1] = c[1] => d = c
<1> DEFINE k == s.slot[id].user + CHUNK_PADDING_SIZE
<1>1. Shape(s) /\ Room(s, own) /\ SlotSizes(s)
  BY DEF Heap
<1>2. c \in Inner(s) /\ c \in DOMAIN s.mem
  BY LooseMember
<1>3. OfSlot(s, c, id)
  BY <1>1, <1>2 DEF Room
<1>4. s.slot[id].user \in Nat /\ s.slot[id].max \in Nat /\ CHUNK_PADDING_SIZE \in Nat /\ k \in Nat
      /\ This(s, c) \in Nat /\ s.size[c[1]] = s.slot[id].max + BlockOverhead
      /\ CHUNK_PADDING_SIZE >= 1 /\ BlockOverhead \in Nat
  BY <1>1, <1>2, <1>3, SlotMax, Headers, Grains DEF OfSlot
<1>5. \A d \in Inner(s) : d[1] = c[1] => This(s, d) >= k
  <2> SUFFICES ASSUME NEW d \in Inner(s), d[1] = c[1] PROVE This(s, d) >= k
    OBVIOUS
  <2>1. d \in DOMAIN s.mem
    BY DEF Inner
  <2>2. Has(s, d, "SLOT")
    BY <1>1, <1>2, <2>1, Kind
  <2>3. OfSlot(s, d, id)
    BY <1>1, <2>2 DEF Room
  <2> QED BY <2>3 DEF OfSlot
<1>6. This(s, c) > s.size[c[1]] - BlockOverhead - k
  BY <1>4 DEF SlotWhole
<1> HIDE DEF k
<1> QED BY <1>1, <1>2, <1>4, <1>5, <1>6, Alone

\* The merged chunk goes back to the slot, or its block goes.
SlotDone(m, id) ==
    IF SlotWhole(m.s, m.c, id) THEN FreeBlock(m.s, m.c[1])
    ELSE [m.s EXCEPT !.slot_bin[id] = <<m.c>> \o @]

\* The merged chunk goes back to the list, or its block goes.
LEMMA SlotReleased ==
    ASSUME NEW s, NEW own, NEW c, NEW id \in SlotIds,
           Heap(s, {c}, {c, FrontOf(s, c)}, own), Has(s, c, "SLOT"), own[c[1]] = id
    PROVE  LET m == SlotMerge(s, c, id)
               t == SlotDone(m, id)
           IN  Heap(t, {}, {}, own) /\ Kept(s, t)
<1> DEFINE p == FrontOf(s, c)
           v == IF InUse(s, p) THEN s ELSE Merge(SlotPick(s, id, p), p, c)
           d == IF InUse(s, p) THEN c ELSE p
           n == NextOf(v, d)
           w == IF InUse(v, n) THEN v ELSE Merge(SlotPick(v, id, n), d, n)
           m == SlotMerge(s, c, id)
           t == SlotDone(m, id)
           one == {d}
           none == {}
<1>1. m.s = w /\ m.c = d
  BY DEF SlotMerge
<1>2. Heap(v, {d}, {d}, own) /\ Kept(s, v) /\ Has(v, d, "SLOT") /\ d[1] = c[1]
  BY SlotFrontMerged
<1> HIDE DEF v, d
<1>3. own[d[1]] = id
  BY <1>2
<1>4. Heap(w, {d}, {}, own) /\ Kept(v, w) /\ Has(w, d, "SLOT")
  BY <1>2, <1>3, SlotNextMerged
<1> HIDE DEF m, w
<1>5. Kept(s, w)
  BY <1>2, <1>4, KeptOn
<1>6. Heap(w, one, none, own) /\ d \in one /\ one \ {d} = {} /\ \A x \in none : x[1] = d[1]
  BY <1>4
<1>7. CASE SlotWhole(w, d, id)
  <2>1. t = FreeBlock(w, d[1])
    BY <1>1, <1>7 DEF SlotDone
  <2> HIDE DEF t
  <2>2. \A x \in Inner(w) : x[1] = d[1] => x = d
    BY <1>3, <1>4, <1>7, SlotBlockAlone
  <2> HIDE DEF one, none
  <2>3. Heap(FreeBlock(w, d[1]), one \ {d}, {}, own) /\ Kept(w, FreeBlock(w, d[1]))
    BY <1>6, <2>2, BlockFreed
  <2>4. Heap(t, {}, {}, own) /\ Kept(s, t)
    BY <1>5, <1>6, <2>1, <2>3, KeptOn
  <2> QED BY <2>4 DEF t, m
<1>8. CASE ~SlotWhole(w, d, id)
  <2>1. t = [w EXCEPT !.slot_bin[id] = <<d>> \o @]
    BY <1>1, <1>8 DEF SlotDone
  <2> HIDE DEF t
  <2>2. DOMAIN w = Fields
    BY <1>4 DEF Heap, Shape, Memory
  <2>3. /\ DOMAIN t = Fields /\ t.slot_bin = [w.slot_bin EXCEPT ![id] = <<d>> \o @]
        /\ \A f \in Fields \ {"slot_bin"} : t[f] = w[f]
    BY <2>1, <2>2 DEF Fields
  <2>4. /\ SameMem(w, t) /\ t.bin = w.bin /\ t.bitmap = w.bitmap /\ t.dv = w.dv
        /\ t.inited = w.inited /\ t.panicked = w.panicked /\ t.errors = w.errors
    BY <2>3 DEF SameMem, SameSlots, Fields
  <2> HIDE DEF one, none
  <2>5. Heap(t, one \ {d}, none, own)
    BY <1>3, <1>4, <1>6, <1>8, <2>3, <2>4, SlotPushed
  <2>6. UsedBy(t) = UsedBy(w) /\ \A x \in UsedBy(w) : This(t, x) = This(w, x)
    BY <1>6, <2>4, SameMemory
  <2>7. Kept(w, t)
    BY <2>4, <2>6 DEF Kept
  <2>8. Heap(t, {}, {}, own) /\ Kept(s, t)
    BY <1>5, <1>6, <2>5, <2>7, KeptOn DEF none
  <2> QED BY <2>8 DEF t, m
<1> QED BY <1>7, <1>8

FreedSlot(s, c, bytes, part) ==
    LET id == s.mem[c].bin IN
    SlotDone(SlotMerge(SlotBack(s, c, id, bytes, part), c, id), id)

\* free_slot: the chunk leaves what is in use and nothing else does.
LEMMA SlotFreed ==
    ASSUME NEW s, NEW own, Heap(s, {}, {}, own), NEW c \in UsedBy(s), Has(s, c, "SLOT"),
           NEW bytes, NEW part
    PROVE  LET t == FreedSlot(s, c, bytes, part) IN
           /\ Heap(t, {}, {}, own) /\ SameRest(s, t)
           /\ UsedBy(t) = UsedBy(s) \ {c}
           /\ \A d \in UsedBy(t) : This(t, d) = This(s, d)
<1> DEFINE id == s.mem[c].bin
           u == SlotBack(s, c, id, bytes, part)
           m == SlotMerge(u, c, id)
           t == SlotDone(m, id)
<1>1. DOMAIN s = Fields /\ Shape(s) /\ Room(s, own) /\ SlotSizes(s) /\ c \in Inner(s) /\ InUse(s, c)
  BY DEF Heap, Shape, Memory, UsedBy
<1>2. own[c[1]] = id /\ id \in SlotIds
  BY <1>1, SlotBin DEF Room, OfSlot
<1> HIDE DEF id
<1>3. /\ DOMAIN u = Fields /\ u.mem = Unused(s, c).mem
      /\ \A f \in Fields \ {"mem", "bytes", "counter", "slot"} : u[f] = s[f]
  BY <1>1 DEF SlotBack, Unused, Fields
<1>4. SameSlots(s, u)
  <2>1. u.slot = [s.slot EXCEPT ![id].bytes = part]
    BY <1>1 DEF SlotBack, Unused, Fields
  <2> HIDE DEF u
  <2> QED BY <1>1, <1>2, <2>1 DEF SameSlots, SlotSizes
<1> HIDE DEF u
<1>o. OnlyOut(s, c, u)
  BY <1>3, <1>4 DEF OnlyOut
<1>5. /\ Heap(u, {c}, {c, FrontOf(u, c)}, own) /\ SameRest(s, u)
      /\ Level(u, c) = Level(s, c) /\ Inner(u) = Inner(s) /\ FrontOf(u, c)[1] = c[1]
      /\ \A f \in {"BIG", "DIRECT", "SLOT"} : Has(u, c, f) <=> Has(s, c, f)
      /\ UsedBy(u) = UsedBy(s) \ {c}
      /\ \A d \in UsedBy(u) : This(u, d) = This(s, d)
  <2>1. Settled(s, own)
    BY DEF Settled
  <2>2. WithOut(s, c, u, own)
    BY ONLY <1>o, <2>1, c \in UsedBy(s), TakenOut
  <2> QED BY ONLY <2>2 DEF WithOut
<1>6. Has(u, c, "SLOT")
  BY <1>5
<1>7. Heap(t, {}, {}, own) /\ Kept(u, t)
  BY <1>2, <1>5, <1>6, SlotReleased
<1> HIDE DEF t
<1>8. t = FreedSlot(s, c, bytes, part)
  BY DEF FreedSlot, t, m, u, id
<1> QED BY <1>5, <1>7, <1>8 DEF Kept, SameRest

\* The heap at the start.
LEMMA Initial ==
    ASSUME NEW s, NEW own, DOMAIN s = Fields,
           \A f \in Fields \ {"inited", "panicked", "errors"} : s[f] = InitObject[f]
    PROVE  Heap(s, {}, {}, own) /\ UsedBy(s) = {}
<1> DEFINE none == {}
<1>1. /\ s.mem = <<>> /\ s.size = <<>> /\ s.used = <<>> /\ s.reserve = <<>>
      /\ s.bitmap = [l \in Levels |-> {}]
      /\ s.bin = [l \in Levels |-> [b \in Bins |-> <<>>]]
      /\ s.dv = [l \in Levels |-> NULL]
      /\ s.slot = [i \in SlotIds |-> [user |-> 0, block |-> 0, max |-> 0, bytes |-> 0]]
      /\ s.slot_bin = [i \in SlotIds |-> <<>>]
  BY DEF InitObject, Fields
<1>2. DOMAIN s.mem = {} /\ DOMAIN s.size = {}
  BY <1>1
<1>3. /\ <<>> \in Seq(BlockIds) /\ <<>> \in Seq(Address) /\ ToSet(<<>>) = {} /\ IsInjective(<<>>)
  BY Empty
<1>4. Inner(s) = {} /\ UsedBy(s) = {}
  BY <1>2 DEF Inner, UsedBy
<1>5. Memory(s) /\ Blocks(s) /\ Chain(s)
  <2>1. Len(s.reserve) = 0 /\ MaxReserve \in Nat
    BY <1>1, ZMallocAssumption
  <2> QED BY <1>1, <1>2, <1>3, <2>1 DEF Memory, Blocks, Chain
<1>6. SlotSizes(s)
  BY <1>1 DEF SlotSizes
<1>7. Object(s)
  <2>1. s.bitmap \in [Levels -> SUBSET Bins] /\ s.dv \in [Levels -> Address \cup {NULL}]
        /\ s.slot_bin \in [SlotIds -> Seq(Address)]
    BY <1>1, <1>3
  <2>2. [b \in Bins |-> <<>>] \in [Bins -> Seq(Address)]
    BY <1>3
  <2>3. s.bin \in [Levels -> [Bins -> Seq(Address)]]
    BY <1>1, <2>2
  <2> QED BY <2>1, <2>3 DEF Object
<1>8. Binned(s, none) /\ DvSound(s, none) /\ SlotListed(s, none, own)
  BY <1>1, <1>3 DEF Binned, DvSound, SlotListed
<1>9. Found(s, none) /\ Apart(s, none) /\ Room(s, own)
  BY <1>4 DEF Found, Apart, Room
<1> QED BY <1>4, <1>5, <1>6, <1>7, <1>8, <1>9 DEF Heap, Shape, Lists, none

\* The chunks are what lies between the edges of the blocks.
LEMMA ChunksAre ==
    ASSUME NEW s, Shape(s)
    PROVE  /\ Chunks(s) = Inner(s)
           /\ \A b \in ToSet(s.used) : ChunksOf(s, b) = {c \in Inner(s) : c[1] = b}
<1>1. ASSUME NEW c \in DOMAIN s.mem, NEW b
      PROVE  c \in ChunksOf(s, b) <=> c \in Inner(s) /\ c[1] = b
  <2>1. c = <<c[1], c[2]>>
    BY Headers
  <2> QED BY <2>1 DEF ChunksOf, Inner, IsHead, IsTail, BlockHead
<1>2. \A b : ChunksOf(s, b) \subseteq DOMAIN s.mem
  BY DEF ChunksOf
<1>3. Inner(s) \subseteq DOMAIN s.mem
  BY DEF Inner
<1>4. \A b : ChunksOf(s, b) = {c \in Inner(s) : c[1] = b}
  BY <1>1, <1>2, <1>3
<1>5. \A c \in Inner(s) : c[1] \in ToSet(s.used)
  BY <1>3, Headers
<1> QED BY <1>4, <1>5 DEF Chunks

-----------------------------------------------------------------------------
(* The inductive invariant: the heap is well formed, and what is lent is   *)
(* exactly what is in use, each chunk large enough for its request.        *)

LentSound(s, held) ==
    /\ DOMAIN held = UsedBy(s)
    /\ \A c \in DOMAIN held : This(s, c) >= held[c].req + CHUNK_PADDING_SIZE /\ held[c].req \in Nat

Sound(s) == \E own \in [BlockIds -> Nat] : Heap(s, {}, {}, own)

IInv ==
    /\ z.inited \in BOOLEAN /\ z.panicked \in BOOLEAN /\ z.errors \in 0 .. MaxErrors
    /\ ~z.inited => UsedBy(z) = {}
    /\ Sound(z) /\ LentSound(z, live)

\* Blocks may belong to slots.
LEMMA OwnExists == \E own : own \in [BlockIds -> Nat]
<1>1. [b \in BlockIds |-> 0] \in [BlockIds -> Nat]
  OBVIOUS
<1> QED BY <1>1

\* It holds at the start.
LEMMA InitSound == Init => IInv
<1> SUFFICES ASSUME Init PROVE IInv
  OBVIOUS
<1>1. PICK own : own \in [BlockIds -> Nat]
  BY OwnExists
<1>2. DOMAIN z = Fields /\ \A f \in Fields \ {"inited", "panicked", "errors"} : z[f] = InitObject[f]
  BY DEF Init, InitObject, Fields
<1>3. Heap(z, {}, {}, own) /\ UsedBy(z) = {}
  BY <1>2, Initial
<1>4. z.inited = FALSE /\ z.panicked = FALSE /\ z.errors = 0
  BY DEF Init, InitObject
<1>5. DOMAIN live = {}
  BY DEF Init
<1>6. MaxErrors \in Nat
  BY ZMallocAssumption
<1>7. z.errors \in 0 .. MaxErrors
  BY <1>4, <1>6
<1>8. Sound(z) /\ LentSound(z, live)
  BY <1>1, <1>3, <1>5 DEF Sound, LentSound
<1> QED BY <1>3, <1>4, <1>7, <1>8 DEF IInv

\* Before a call the object is initialised, and the heap sound.
LEMMA ReadySound ==
    ASSUME IInv
    PROVE  LET s == Ready(z) IN
           /\ s.inited = TRUE /\ s.panicked \in BOOLEAN /\ s.errors \in 0 .. MaxErrors
           /\ Sound(s) /\ LentSound(s, live)
<1>1. CASE z.inited
  BY <1>1 DEF Ready, IInv
<1>2. CASE ~z.inited
  <2> DEFINE s == InitObject
  <2>1. PICK own : own \in [BlockIds -> Nat]
    BY OwnExists
  <2>2. DOMAIN s = Fields /\ s.inited = TRUE /\ s.panicked = FALSE /\ s.errors = 0
    BY DEF InitObject, Fields
  <2>3. \A f \in Fields \ {"inited", "panicked", "errors"} : s[f] = InitObject[f]
    OBVIOUS
  <2>4. Ready(z) = s
    BY <1>2 DEF Ready
  <2> HIDE DEF s
  <2>5. Heap(s, {}, {}, own) /\ UsedBy(s) = {}
    BY <2>2, <2>3, Initial
  <2>6. MaxErrors \in Nat
    BY ZMallocAssumption
  <2>7. s.errors \in 0 .. MaxErrors
    BY <2>2, <2>6
  <2>8. DOMAIN live = {}
    BY <1>2 DEF IInv, LentSound
  <2>9. Sound(s) /\ LentSound(s, live)
    BY <2>1, <2>5, <2>8 DEF Sound, LentSound
  <2> QED BY <2>2, <2>4, <2>7, <2>9
<1> QED BY <1>1, <1>2

\* A chunk that was handed out is lent.
LEMMA Loaned ==
    ASSUME NEW s, NEW r, NEW req \in Nat, Lends(s, r, req), LentSound(s, live), NEW slot
    PROVE  LentSound(r.s, Lent(r, req, slot))
<1> DEFINE held == Lent(r, req, slot)
           t == r.s
<1>1. CASE r.c = NULL /\ UsedBy(t) = UsedBy(s)
  BY <1>1 DEF Lends, LentSound, Lent
<1>2. CASE /\ r.c # NULL /\ r.c \notin UsedBy(s) /\ UsedBy(t) = UsedBy(s) \cup {r.c}
           /\ This(t, r.c) \in Nat /\ This(t, r.c) >= req + CHUNK_PADDING_SIZE
  <2>1. held = Put(live, r.c, [req |-> req, slot |-> slot])
    BY <1>2 DEF Lent
  <2> HIDE DEF held
  <2>2. /\ DOMAIN held = UsedBy(t) /\ held[r.c].req = req
        /\ \A c \in UsedBy(s) : held[c] = live[c]
    BY <1>2, <2>1 DEF Put, LentSound
  <2>3. \A c \in UsedBy(s) : This(t, c) = This(s, c)
    BY DEF Lends
  <2> QED BY <1>2, <2>2, <2>3 DEF LentSound, held
<1> QED BY <1>1, <1>2 DEF Lends

\* What is lent stays lent.
LEMMA HeldOn ==
    ASSUME NEW s, NEW t, NEW held, LentSound(s, held), UsedBy(t) = UsedBy(s),
           \A c \in UsedBy(s) : This(t, c) = This(s, c)
    PROVE  LentSound(t, held)
BY DEF LentSound

\* A chunk that was taken back is no longer lent.
LEMMA GivenBack ==
    ASSUME NEW s, NEW t, NEW c, LentSound(s, live), UsedBy(t) = UsedBy(s) \ {c},
           \A d \in UsedBy(t) : This(t, d) = This(s, d)
    PROVE  LentSound(t, Returned(c))
<1>1. DOMAIN Returned(c) = UsedBy(t) /\ \A d \in UsedBy(t) : Returned(c)[d] = live[d]
  BY DEF LentSound, Returned, Without
<1> QED BY <1>1 DEF LentSound

-----------------------------------------------------------------------------
(* Every action keeps it. *)

\* alloc_memory
LEMMA AllocMemoryKeeps ==
    ASSUME IInv, NEW req \in Requests, NEW color \in Colors, AllocMemory(req, color)
    PROVE  IInv'
<1> DEFINE s == Ready(z)
           r == Alloc(z, req, color)
<1>1. req \in Nat /\ req <= MaxBytes
  <2>1. MaxBytes \in Nat
    BY Bounds DEF MaxBytes
  <2> QED BY <2>1, ZMallocAssumption
<1>2. /\ s.inited = TRUE /\ s.panicked \in BOOLEAN /\ s.errors \in 0 .. MaxErrors
      /\ Sound(s) /\ LentSound(s, live)
  BY ReadySound
<1>3. PICK own \in [BlockIds -> Nat] : Heap(s, {}, {}, own)
  BY <1>2 DEF Sound
<1>4. \/ req < SMALL_MAX_REQUEST - FINE /\ r = SmallAlloc(s, req, color)
      \/ SMALL_MAX_REQUEST - FINE <= req /\ req < BIG_MAX_REQUEST /\ r = BigAlloc(s, req, color)
      \/ BIG_MAX_REQUEST <= req /\ r = DirectAlloc(s, req, color)
  BY <1>1, Bounds DEF Alloc
<1> HIDE DEF s, r
<1>5. Served(s, r, req)
  <2>1. CASE req < SMALL_MAX_REQUEST - FINE /\ r = SmallAlloc(s, req, color)
    <3>1. Served(s, r, SmallId(req) * FINE)
      BY <1>1, <1>3, <2>1, SmallServed
    <3>2. SmallId(req) * FINE \in Nat /\ req <= SmallId(req) * FINE
      BY <1>1, <2>1, SmallRequest
    <3> QED BY <1>1, <3>1, <3>2, ServedLess
  <2> QED BY <1>1, <1>3, <1>4, <2>1, BigServed, DirectServed
<1>6. z' = r.s /\ live' = Lent(r, req, FALSE)
  BY DEF AllocMemory, r
<1>7. LentSound(r.s, Lent(r, req, FALSE))
  BY <1>1, <1>2, <1>5, Loaned DEF Served
<1>8. LentSound(z', live') /\ Sound(z')
  BY <1>5, <1>6, <1>7 DEF Served, Sound
<1>9. (LentSound(z, live))' /\ (Sound(z))'
  BY <1>8 DEF LentSound, Sound
<1> QED BY <1>2, <1>5, <1>6, <1>9 DEF IInv, Served, SameRest

\* alloc_slot
LEMMA AllocSlotKeeps ==
    ASSUME IInv, NEW id \in Slots, NEW q \in SlotRequests, AllocSlot(id, q[1], q[2])
    PROVE  IInv'
<1> DEFINE s == Ready(z)
           r == IF id \in SlotIds THEN SlotAlloc(s, id, q[1], q[2]) ELSE SlotError(s)
<1>1. q[1] \in Nat /\ q[1] <= MaxBytes /\ q[2] \in Nat /\ q[2] <= MaxBytes
  <2>1. MaxBytes \in Nat
    BY Bounds DEF MaxBytes
  <2> QED BY <2>1, ZMallocAssumption
<1>2. /\ s.inited = TRUE /\ s.panicked \in BOOLEAN /\ s.errors \in 0 .. MaxErrors
      /\ Sound(s) /\ LentSound(s, live)
  BY ReadySound
<1>3. PICK own \in [BlockIds -> Nat] : Heap(s, {}, {}, own)
  BY <1>2 DEF Sound
<1> HIDE DEF s
<1>4. SlotServed(s, r, q[1])
  BY <1>1, <1>3, SlotServes, SlotRefused
<1>5. z' = r.s /\ live' = Lent(r, q[1], TRUE) /\ r.s.errors <= MaxErrors
  BY DEF AllocSlot, s
<1> HIDE DEF r
<1>6. LentSound(r.s, Lent(r, q[1], TRUE))
  BY <1>1, <1>2, <1>4, Loaned DEF SlotServed
<1>7. LentSound(z', live') /\ Sound(z')
  BY <1>4, <1>5, <1>6 DEF SlotServed, Sound
<1>8. (LentSound(z, live))' /\ (Sound(z))'
  BY <1>7 DEF LentSound, Sound
<1>9. z'.errors \in 0 .. MaxErrors /\ MaxErrors \in Nat
  BY <1>2, <1>4, <1>5, ZMallocAssumption DEF SlotServed
<1> QED BY <1>2, <1>4, <1>5, <1>8, <1>9 DEF IInv, SlotServed

\* Only an error is counted.
LEMMA OnlyErrors ==
    ASSUME IInv, NEW n \in 0 .. MaxErrors, z' = [z EXCEPT !.errors = n], live' = live
    PROVE  IInv'
<1>1. PICK own \in [BlockIds -> Nat] : Heap(z, {}, {}, own)
  BY DEF IInv, Sound
<1> DEFINE t == [z EXCEPT !.errors = n]
           none == {}
<1>2. DOMAIN z = Fields
  BY <1>1 DEF Heap, Shape, Memory
<1>3. DOMAIN t = Fields /\ t.errors = n /\ \A f \in Fields \ {"errors"} : t[f] = z[f]
  BY <1>2 DEF Fields
<1>4. Heap(z, none, none, own)
  BY <1>1
<1>t. z' = t
  OBVIOUS
<1> HIDE DEF t, none
<1>5. SameMem(z, t) /\ SameLists(z, t)
  BY <1>3 DEF SameMem, SameLists, SameSlots, Fields
<1>6. Heap(t, none, none, own)
  BY <1>4, <1>5, SameHeap
<1>7. UsedBy(t) = UsedBy(z) /\ \A d \in UsedBy(z) : This(t, d) = This(z, d)
  BY <1>4, <1>5, SameMemory
<1>8. LentSound(t, live)
  BY <1>7, HeldOn DEF IInv
<1>9. Sound(t)
  BY <1>1, <1>6 DEF Sound, none
<1>10. t.inited = z.inited /\ t.panicked = z.panicked
  BY <1>3 DEF Fields
<1>11. (LentSound(z, live))' /\ (Sound(z))' /\ (UsedBy(z))' = UsedBy(t)
  BY <1>t, <1>8, <1>9 DEF LentSound, Sound, UsedBy
<1> QED BY <1>t, <1>3, <1>7, <1>10, <1>11 DEF IInv

\* Freeing a free chunk counts an error and does nothing else.
LEMMA FreeTwiceKeeps ==
    ASSUME IInv, NEW c, FreeTwice(c)
    PROVE  IInv'
<1> DEFINE n == z.errors + 1
<1>1. n \in 0 .. MaxErrors
  BY ZMallocAssumption DEF FreeTwice, IInv
<1>2. z' = [z EXCEPT !.errors = n] /\ live' = live
  BY DEF FreeTwice
<1> HIDE DEF n
<1> QED BY <1>1, <1>2, OnlyErrors

\* What freeing leaves.
LEMMA Freed ==
    ASSUME IInv, NEW own \in [BlockIds -> Nat], Heap(z, {}, {}, own), NEW c \in UsedBy(z),
           NEW t, Heap(t, {}, {}, own), SameRest(z, t), UsedBy(t) = UsedBy(z) \ {c},
           \A d \in UsedBy(t) : This(t, d) = This(z, d), z' = t, live' = Returned(c)
    PROVE  IInv'
<1>1. LentSound(t, Returned(c))
  BY GivenBack DEF IInv
<1>2. Sound(t)
  BY DEF Sound
<1>3. (LentSound(z, live))' /\ (Sound(z))' /\ (UsedBy(z))' = UsedBy(t)
  BY <1>1, <1>2 DEF LentSound, Sound, UsedBy
<1> QED BY <1>3 DEF IInv, SameRest

\* free_memory
LEMMA FreeMemoryKeeps ==
    ASSUME IInv, NEW c \in Chunks(z), FreeMemory(c)
    PROVE  IInv'
<1>1. PICK own \in [BlockIds -> Nat] : Heap(z, {}, {}, own)
  BY DEF IInv, Sound
<1>2. CASE FreeTwice(c)
  BY <1>2, FreeTwiceKeeps
<1>3. CASE ~FreeTwice(c)
  <2> DEFINE bytes == Unused(z, c).bytes - This(z, c)
             counter == Uncount(z, c)
             u == MemoryBack(z, c, bytes, counter)
             t == IF Has(z, c, "DIRECT") THEN FreeBlock(u, c[1])
                  ELSE MergeAndRelease(u, c, Level(u, c))
  <2>1. InUse(z, c) /\ ~Has(z, c, "SLOT") /\ live' = Returned(c)
    BY <1>3 DEF FreeMemory, CanFree
  <2>2. c \in UsedBy(z)
    BY <1>1, <2>1, ChunksAre DEF Heap, UsedBy
  <2>3. z' = t
    <3>1. u = [Unused(z, c) EXCEPT !.bytes = @ - This(z, c), !.counter = Uncount(z, c)]
      BY DEF MemoryBack
    <3> HIDE DEF u
    <3> QED BY <1>3, <3>1 DEF FreeMemory
  <2> HIDE DEF bytes, counter
  <2>4. /\ Heap(t, {}, {}, own) /\ SameRest(z, t) /\ UsedBy(t) = UsedBy(z) \ {c}
        /\ \A d \in UsedBy(t) : This(t, d) = This(z, d)
    BY <1>1, <2>1, <2>2, MemoryFreed
  <2> HIDE DEF t, u
  <2> QED BY <1>1, <2>1, <2>2, <2>3, <2>4, Freed
<1> QED BY <1>2, <1>3

\* free_slot
LEMMA FreeSlotKeeps ==
    ASSUME IInv, NEW c \in Chunks(z), FreeSlot(c)
    PROVE  IInv'
<1>1. PICK own \in [BlockIds -> Nat] : Heap(z, {}, {}, own)
  BY DEF IInv, Sound
<1>2. CASE FreeTwice(c)
  BY <1>2, FreeTwiceKeeps
<1>3. CASE ~FreeTwice(c)
  <2> DEFINE id == z.mem[c].bin
             bytes == Unused(z, c).bytes - This(z, c)
             part == Unused(z, c).slot[id].bytes - This(z, c)
             t == FreedSlot(z, c, bytes, part)
  <2>1. InUse(z, c) /\ Has(z, c, "SLOT") /\ live' = Returned(c)
    BY <1>3 DEF FreeSlot
  <2>2. c \in UsedBy(z)
    BY <1>1, <2>1, ChunksAre DEF Heap, UsedBy
  <2>3. z' = t
    BY <1>3 DEF FreeSlot, SlotBack, SlotDone, FreedSlot
  <2> HIDE DEF bytes, part
  <2>4. /\ Heap(t, {}, {}, own) /\ SameRest(z, t) /\ UsedBy(t) = UsedBy(z) \ {c}
        /\ \A d \in UsedBy(t) : This(t, d) = This(z, d)
    BY ONLY <1>1, <2>1, <2>2, SlotFreed
  <2> HIDE DEF t
  <2> QED BY <1>1, <2>1, <2>2, <2>3, <2>4, Freed
<1> QED BY <1>2, <1>3

\* clear_cache
LEMMA ClearCacheKeeps ==
    ASSUME IInv, ClearCache
    PROVE  IInv'
<1> DEFINE d == DropDv(DropDv(z, 0), 1)
           t == [d EXCEPT !.reserve = <<>>, !.size = Without(@, ToSet(d.reserve))]
<1>1. PICK own \in [BlockIds -> Nat] : Heap(z, {}, {}, own)
  BY DEF IInv, Sound
<1>2. z' = t /\ live' = live
  BY DEF ClearCache
<1>3. Heap(t, {}, {}, own) /\ Kept(z, t)
  BY <1>1, CacheCleared
<1> HIDE DEF t
<1>4. LentSound(t, live) /\ Sound(t)
  BY <1>1, <1>3, HeldOn DEF IInv, Kept, Sound
<1>5. (LentSound(z, live))' /\ (Sound(z))' /\ (UsedBy(z))' = UsedBy(t)
  BY <1>2, <1>4 DEF LentSound, Sound, UsedBy
<1> QED BY <1>2, <1>3, <1>5 DEF IInv, Kept

\* check_health
LEMMA CheckHealthKeeps ==
    ASSUME IInv, CheckHealth
    PROVE  IInv'
<1>1. PICK own \in [BlockIds -> Nat] : Heap(z, {}, {}, own)
  BY DEF IInv, Sound
<1>2. BitmapErrors(z) = 0
  BY <1>1, NoBitmapErrors
<1> DEFINE n == z.errors + BitmapErrors(z)
<1>3. n \in 0 .. MaxErrors
  BY <1>2, ZMallocAssumption DEF IInv
<1>4. z' = [z EXCEPT !.errors = n] /\ live' = live
  BY DEF CheckHealth
<1> HIDE DEF n
<1> QED BY <1>3, <1>4, OnlyErrors

\* check_panic: the object stays as it is, or the process ends.
LEMMA CheckPanicKeeps ==
    ASSUME IInv, CheckPanic
    PROVE  IInv'
<1>1. CASE UNCHANGED vars
  <2>1. z' = z /\ live' = live
    BY <1>1 DEF vars
  <2> QED BY <2>1 DEF IInv, Sound, LentSound, UsedBy
<1>2. CASE z' = [InitObject EXCEPT !.panicked = TRUE, !.errors = z.errors] /\ live' = <<>>
  <2> DEFINE t == [InitObject EXCEPT !.panicked = TRUE, !.errors = z.errors]
  <2>1. PICK own : own \in [BlockIds -> Nat]
    BY OwnExists
  <2>2. /\ DOMAIN t = Fields /\ t.inited = TRUE /\ t.panicked = TRUE /\ t.errors = z.errors
        /\ \A f \in Fields \ {"inited", "panicked", "errors"} : t[f] = InitObject[f]
    BY DEF InitObject, Fields
  <2>3. z' = t /\ live' = <<>>
    BY <1>2
  <2> HIDE DEF t
  <2>4. Heap(t, {}, {}, own) /\ UsedBy(t) = {}
    BY <2>2, Initial
  <2>5. Sound(t) /\ LentSound(t, <<>>)
    BY <2>1, <2>4 DEF Sound, LentSound
  <2>6. (LentSound(z, live))' /\ (Sound(z))'
    BY <2>3, <2>5 DEF LentSound, Sound
  <2> QED BY <2>2, <2>3, <2>6 DEF IInv
<1> QED BY <1>1, <1>2 DEF CheckPanic

\* Every step keeps the invariant.
LEMMA NextKeeps == IInv /\ [Next]_vars => IInv'
<1> SUFFICES ASSUME IInv, [Next]_vars PROVE IInv'
  OBVIOUS
<1>1. ASSUME NEW req \in Requests, NEW color \in Colors, AllocMemory(req, color) PROVE IInv'
  BY <1>1, AllocMemoryKeeps
<1>2. ASSUME NEW c \in Chunks(z), FreeMemory(c) PROVE IInv'
  BY <1>2, FreeMemoryKeeps
<1>3. ASSUME NEW c \in Chunks(z), FreeSlot(c) PROVE IInv'
  BY <1>3, FreeSlotKeeps
<1>4. ASSUME NEW id \in Slots, NEW r \in SlotRequests, AllocSlot(id, r[1], r[2]) PROVE IInv'
  BY <1>4, AllocSlotKeeps
<1>5. CASE UNCHANGED vars
  <2>1. z' = z /\ live' = live
    BY <1>5 DEF vars
  <2> QED BY <2>1 DEF IInv, Sound, LentSound, UsedBy
<1> QED BY <1>1, <1>2, <1>3, <1>4, <1>5, ClearCacheKeeps, CheckHealthKeeps, CheckPanicKeeps DEF Next

\* After any sequence of calls of alloc_memory, alloc_slot, free_memory, free_slot,
\* clear_cache and the two checks the heap is well formed and what is lent is
\* exactly what is in use (zmalloc.h), for every value of the constants.
THEOREM AlwaysSound == Spec => []IInv
<1>1. Init => IInv
  BY InitSound
<1>2. IInv /\ [Next]_vars => IInv'
  BY NextKeeps
<1> QED BY <1>1, <1>2, PTL DEF Spec

-----------------------------------------------------------------------------
(* What the invariant says of the properties of the model. *)

\* What Listed holds.
LEMMA ListedMember ==
    ASSUME NEW c
    PROVE  c \in Listed <=> \/ \E l \in Levels, b \in Bins : c \in ToSet(z.bin[l][b])
                            \/ \E i \in SlotIds : c \in ToSet(z.slot_bin[i])
<1> DEFINE binned == {ToSet(z.bin[l][b]) : l \in Levels, b \in Bins}
           slotted == {ToSet(z.slot_bin[i]) : i \in SlotIds}
<1>1. \A S : S \in binned <=> \E l \in Levels, b \in Bins : S = ToSet(z.bin[l][b])
  OBVIOUS
<1>2. \A S : S \in slotted <=> \E i \in SlotIds : S = ToSet(z.slot_bin[i])
  OBVIOUS
<1>3. Listed = (UNION binned) \cup (UNION slotted)
  BY DEF Listed
<1> HIDE DEF binned, slotted
<1>4. c \in UNION binned <=> \E l \in Levels, b \in Bins : c \in ToSet(z.bin[l][b])
  BY <1>1
<1>5. c \in UNION slotted <=> \E i \in SlotIds : c \in ToSet(z.slot_bin[i])
  BY <1>2
<1>6. c \in Listed <=> c \in UNION binned \/ c \in UNION slotted
  BY <1>3
<1> DEFINE inBins == \E l \in Levels, b \in Bins : c \in ToSet(z.bin[l][b])
           inSlots == \E i \in SlotIds : c \in ToSet(z.slot_bin[i])
<1>7. (c \in UNION binned <=> inBins) /\ (c \in UNION slotted <=> inSlots)
  BY <1>4, <1>5, Zenon
<1>8. c \in Listed <=> inBins \/ inSlots
  <2> HIDE DEF inBins, inSlots
  <2> QED BY <1>6, <1>7
<1> QED BY <1>8

\* The lists and dv_ hold the free chunks and nothing else.
LEMMA ListedAre ==
    ASSUME NEW own, Heap(z, {}, {}, own)
    PROVE  Listed \cup Dvs = FreeChunks
<1>1. Chunks(z) = Inner(z)
  BY ChunksAre DEF Heap
<1>2. ASSUME NEW c \in FreeChunks PROVE c \in Listed \cup Dvs
  <2>1. c \in Inner(z) /\ ~InUse(z, c) /\ c \in DOMAIN z.mem /\ Shape(z)
    BY <1>1 DEF FreeChunks, Inner, Heap
  <2>2. c # NULL
    BY <2>1, Headers
  <2>3. \/ \E l \in Levels : c = z.dv[l]
        \/ \E l \in Levels, b \in Bins : c \in ToSet(z.bin[l][b])
        \/ \E i \in SlotIds : c \in ToSet(z.slot_bin[i])
    BY <2>1 DEF Heap, Lists, Found
  <2> QED BY <2>2, <2>3, ListedMember DEF Dvs
<1>3. ASSUME NEW c \in Dvs PROVE c \in FreeChunks
  <2>1. PICK l \in Levels : c = z.dv[l] /\ z.dv[l] # NULL
    BY DEF Dvs
  <2>2. c \in Inner(z) /\ ~InUse(z, c)
    BY <2>1, DvMember
  <2> QED BY <1>1, <2>2 DEF FreeChunks
<1>4. ASSUME NEW c \in Listed PROVE c \in FreeChunks
  <2>1. \/ \E l \in Levels, b \in Bins : c \in ToSet(z.bin[l][b])
        \/ \E i \in SlotIds : c \in ToSet(z.slot_bin[i])
    BY ListedMember
  <2>2. c \in Inner(z) /\ ~InUse(z, c)
    BY <2>1, BinMember, SlotMember
  <2> QED BY <1>1, <2>2 DEF FreeChunks
<1> QED BY <1>2, <1>3, <1>4

\* TypeOK
LEMMA TypesHold ==
    ASSUME IInv
    PROVE  TypeOK
<1>1. PICK own : Heap(z, {}, {}, own)
  BY DEF IInv, Sound
<1>2. Shape(z)
  BY <1>1 DEF Heap
<1>3. /\ z.used \in Seq(BlockIds) /\ z.reserve \in Seq(BlockIds)
      /\ IsInjective(z.used) /\ IsInjective(z.reserve)
      /\ ToSet(z.used) \cap ToSet(z.reserve) = {}
      /\ DOMAIN z.size = ToSet(z.used) \cup ToSet(z.reserve)
  BY <1>2 DEF Shape, Blocks
<1>4. IsInjective(z.used \o z.reserve)
  BY <1>3, Joined
<1>5. ASSUME NEW c \in DOMAIN z.mem
      PROVE  /\ c[1] \in ToSet(z.used) /\ c[2] \in 1 .. z.size[c[1]]
             /\ z.mem[c].flags \subseteq Flags /\ z.mem[c].bin \in Bins \cup SlotIds
  <2>1. /\ c[1] \in ToSet(z.used) /\ c[2] \in Nat /\ z.size[c[1]] \in Nat
        /\ 2 * FINE <= c[2] /\ c[2] <= z.size[c[1]] - 2 * FINE
    BY <1>2, Headers
  <2>2. HeaderOK(z.mem[c])
    BY <1>2 DEF Shape, Memory
  <2> QED BY <2>1, <2>2, Grains DEF HeaderOK
<1>6. Listed \cup Dvs \subseteq Chunks(z)
  BY <1>1, ListedAre DEF FreeChunks
<1> QED BY <1>3, <1>4, <1>5, <1>6 DEF TypeOK, IInv

\* Tiled
LEMMA TilesHold ==
    ASSUME IInv
    PROVE  Tiled
<1>1. PICK own : Heap(z, {}, {}, own)
  BY DEF IInv, Sound
<1>2. Shape(z)
  BY <1>1 DEF Heap
<1> SUFFICES ASSUME NEW b \in ToSet(z.used), NEW c \in ChunksOf(z, b) \cup {BlockHead(b)}
    PROVE /\ c \in DOMAIN z.mem /\ NextOf(z, c) \in DOMAIN z.mem
          /\ \A d \in ChunksOf(z, b) : ~(c[2] < d[2] /\ d[2] < NextOf(z, c)[2])
          /\ z.mem[NextOf(z, c)].prev = This(z, c)
          /\ This(z, c) >= SMALL_LEAST_SIZE
  BY DEF Tiled
<1>3. c \in DOMAIN z.mem /\ c[1] = b
  <2>1. BlockHead(b) \in DOMAIN z.mem /\ BlockHead(b)[1] = b
    BY <1>2, First DEF BlockHead
  <2> QED BY <2>1 DEF ChunksOf
<1>4. ~IsTail(z, c)
  <2>1. CASE c = BlockHead(b)
    <3>1. c[2] = 2 * FINE /\ z.size[b] \in Nat /\ z.size[b] >= 8 * FINE
      BY <1>2, <1>3, <2>1, Headers, Grains DEF BlockHead
    <3> QED BY <1>3, <3>1, Grains DEF IsTail
  <2>2. CASE c \in ChunksOf(z, b)
    BY <1>2, <2>2, ChunksAre DEF Inner
  <2> QED BY <2>1, <2>2
<1>5. /\ NextOf(z, c) \in DOMAIN z.mem
      /\ z.mem[NextOf(z, c)].prev = This(z, c) /\ This(z, c) >= SMALL_LEAST_SIZE
      /\ Between(z, c)
  BY <1>2, <1>3, <1>4 DEF Shape, Chain
<1>6. ASSUME NEW d \in ChunksOf(z, b) PROVE ~(c[2] < d[2] /\ d[2] < NextOf(z, c)[2])
  <2>1. d \in DOMAIN z.mem /\ d[1] = b
    BY DEF ChunksOf
  <2>2. c[2] \in Nat /\ d[2] \in Nat /\ This(z, c) \in Nat
    BY <1>2, <1>3, <2>1, Headers
  <2>3. NextOf(z, c)[2] = c[2] + This(z, c)
    BY DEF NextOf, This
  <2>4. d[2] <= c[2] \/ d[2] >= c[2] + This(z, c)
    BY <1>3, <1>5, <2>1 DEF Between
  <2> QED BY <2>2, <2>3, <2>4
<1> QED BY <1>3, <1>5, <1>6

\* FreeFound
LEMMA FindsHold ==
    ASSUME IInv
    PROVE  FreeFound
<1>1. PICK own : Heap(z, {}, {}, own)
  BY DEF IInv, Sound
<1>2. Shape(z) /\ Chunks(z) = Inner(z)
  BY <1>1, ChunksAre DEF Heap
<1>3. ASSUME NEW c \in FreeChunks PROVE InUse(z, NextOf(z, c)) /\ InUse(z, FrontOf(z, c))
  <2>1. c \in Inner(z) /\ ~InUse(z, c)
    BY <1>2 DEF FreeChunks
  <2>2. InUse(z, NextOf(z, c))
    BY <1>1, <2>1 DEF Heap, Apart
  <2>3. CASE FrontOf(z, c) \in Inner(z)
    <3>1. NextOf(z, FrontOf(z, c)) = c
      BY <1>2, <2>1, InnerChunk
    <3> QED BY <1>1, <2>1, <2>2, <2>3, <3>1 DEF Heap, Apart
  <2>4. CASE FrontOf(z, c) \notin Inner(z)
    BY <1>2, <2>1, <2>2, <2>4, Neighbours
  <2> QED BY <2>2, <2>3, <2>4
<1>4. ASSUME NEW l \in Levels, NEW b \in Bins
      PROVE  /\ (b \in z.bitmap[l]) <=> (z.bin[l][b] # <<>>)
             /\ IsInjective(z.bin[l][b])
             /\ \A c \in ToSet(z.bin[l][b]) :
                  /\ c \notin Dvs /\ Level(z, c) = l
                  /\ b = IF l = 1 THEN BigBin(This(z, c)) ELSE SmallBin(This(z, c))
  <2>1. ASSUME NEW c \in ToSet(z.bin[l][b])
        PROVE  /\ c \notin Dvs /\ Level(z, c) = l
               /\ b = IF l = 1 THEN BigBin(This(z, c)) ELSE SmallBin(This(z, c))
    <3>1. Level(z, c) = l /\ b = BinOf(z, c) /\ \A k \in Levels : c # z.dv[k]
      BY <1>1, BinMember
    <3> QED BY <3>1 DEF Dvs, BinOf
  <2> QED BY <1>1, <2>1 DEF Heap, Lists, Binned
<1> QED BY <1>1, <1>3, <1>4, ListedAre DEF FreeFound

\* LentKept
LEMMA LendsHold ==
    ASSUME IInv
    PROVE  LentKept
<1>1. PICK own : Heap(z, {}, {}, own)
  BY DEF IInv, Sound
<1>2. Shape(z) /\ Chunks(z) = Inner(z)
  BY <1>1, ChunksAre DEF Heap
<1>3. DOMAIN live = {c \in Chunks(z) : InUse(z, c)}
  BY <1>2 DEF IInv, LentSound, UsedBy
<1>4. ASSUME NEW c \in DOMAIN live PROVE This(z, c) - CHUNK_PADDING_SIZE >= live[c].req
  <2>1. This(z, c) >= live[c].req + CHUNK_PADDING_SIZE /\ live[c].req \in Nat
    BY DEF IInv, LentSound
  <2>2. c \in DOMAIN z.mem
    BY DEF IInv, LentSound, UsedBy, Inner
  <2>3. This(z, c) \in Nat
    BY <1>2, <2>2, Headers
  <2> QED BY <2>1, <2>3, Grains
<1> QED BY <1>3, <1>4 DEF LentKept

\* Drained
LEMMA DrainHolds ==
    ASSUME IInv
    PROVE  Drained
<1>1. PICK own : Heap(z, {}, {}, own)
  BY DEF IInv, Sound
<1>2. Shape(z) /\ Room(z, own) /\ SlotSizes(z)
  BY <1>1 DEF Heap
<1> SUFFICES ASSUME live = <<>>, NEW b \in ToSet(z.used)
    PROVE FirstChunk(b) \in Dvs /\ ChunksOf(z, b) = {FirstChunk(b)}
  BY DEF Drained
<1> DEFINE f == FirstChunk(b)
<1>3. UsedBy(z) = {}
  BY DEF IInv, LentSound
<1>4. f \in Inner(z) /\ f[1] = b /\ f \in DOMAIN z.mem
  BY <1>2, First DEF Inner
<1> HIDE DEF f
<1>5. ~InUse(z, f)
  BY <1>3, <1>4 DEF UsedBy
<1>6. NextOf(z, f) \notin Inner(z)
  BY <1>1, <1>3, <1>4, <1>5 DEF Heap, Apart, UsedBy
<1>7. f[2] = 4 * FINE /\ This(z, f) \in Nat /\ z.size[b] \in Nat
  <2>1. FirstChunk(f[1]) = <<f[1], 4 * FINE>> /\ This(z, f) \in Nat /\ z.size[b] \in Nat
    BY <1>2, <1>4, Headers
  <2> QED BY <1>4, <2>1 DEF f
<1>8. This(z, f) = z.size[b] - 6 * FINE
  <2>1. f[2] + This(z, f) = z.size[f[1]] - 2 * FINE
    BY <1>2, <1>4, <1>6, Neighbours
  <2> QED BY <1>4, <1>7, <2>1, Grains
<1>9. \A d \in Inner(z) : d[1] = f[1] => d = f
  <2>1. \A d \in Inner(z) : d[1] = f[1] => This(z, d) >= 2 * FINE
    BY <1>2, InnerChunk
  <2>2. This(z, f) > z.size[f[1]] - BlockOverhead - 2 * FINE /\ 2 * FINE \in Nat
    BY <1>4, <1>7, <1>8, Grains
  <2> QED BY <1>2, <1>4, <2>1, <2>2, Alone
<1>10. \A l \in Levels, k \in Bins : f \notin ToSet(z.bin[l][k])
  <2> SUFFICES ASSUME NEW l \in Levels, NEW k \in Bins, f \in ToSet(z.bin[l][k]) PROVE FALSE
    OBVIOUS
  <2>1. ~Has(z, f, "DIRECT") /\ ~WholeBlock(z, f)
    BY <1>1, BinMember
  <2>2. z.size[b] = DEFAULT_BLOCK_SIZE
    BY <1>2, <1>4, <2>1, Kind
  <2> QED BY <1>7, <1>8, <2>1, <2>2, Grains DEF WholeBlock
<1>11. \A i \in SlotIds : f \notin ToSet(z.slot_bin[i])
  <2> SUFFICES ASSUME NEW i \in SlotIds, f \in ToSet(z.slot_bin[i]) PROVE FALSE
    OBVIOUS
  <2>1. Has(z, f, "SLOT") /\ own[f[1]] = i /\ ~SlotWhole(z, f, i)
    BY <1>1, SlotMember
  <2>2. OfSlot(z, f, i)
    BY <1>2, <1>4, <2>1 DEF Room
  <2>3. /\ z.slot[i].user \in Nat /\ z.slot[i].user > 0 /\ z.slot[i].max \in Nat
        /\ z.size[b] = z.slot[i].max + BlockOverhead
    BY <1>2, <1>4, <2>2, SlotMax DEF OfSlot
  <2> QED BY <1>7, <1>8, <2>1, <2>3, Grains DEF SlotWhole
<1>12. f \in Dvs
  <2>1. \E l \in Levels : f = z.dv[l]
    BY <1>1, <1>4, <1>5, <1>10, <1>11 DEF Heap, Lists, Found
  <2>2. f # NULL
    BY <1>2, <1>4, Headers
  <2> QED BY <2>1, <2>2 DEF Dvs
<1>13. ChunksOf(z, b) = {f}
  <2>1. ChunksOf(z, b) = {c \in Inner(z) : c[1] = b}
    BY <1>2, ChunksAre
  <2> QED BY <1>4, <1>9, <2>1
<1> QED BY <1>12, <1>13 DEF f

\* The chunks of a block always tile it, each header knows the chunk in front, no two
\* free chunks are neighbours, and each free chunk is dv_ or once in the bin where
\* alloc_memory will look for its size (exploit_new_chunk, merge_and_release).
THEOREM HeapSoundAlways == Spec => []HeapSound
<1>1. IInv => HeapSound
  BY TypesHold, TilesHold, FindsHold DEF HeapSound
<1> QED BY <1>1, AlwaysSound, PTL

\* What alloc_memory and alloc_slot return stays with the caller: as long as it is not
\* freed, no call touches, moves or shrinks it, and it has the bytes asked for.
THEOREM LentKeptAlways == Spec => []LentKept
<1>1. IInv => LentKept
  BY LendsHold
<1> QED BY <1>1, AlwaysSound, PTL

\* When everything was freed, in whatever order, the allocator holds at most the block
\* of each dv_, whole (merge_and_release, free_block).
THEOREM DrainedAlways == Spec => []Drained
<1>1. IInv => Drained
  BY DrainHolds
<1> QED BY <1>1, AlwaysSound, PTL

\* check_health never finds a bitmap that differs from its bins, nor a chunk in the wrong
\* bin or a chunk in use in a bin (zmalloc.h), whatever was called before.
THEOREM HealthAlways == Spec => [](BitmapErrors(z) = 0)
<1>1. IInv => BitmapErrors(z) = 0
  <2> SUFFICES ASSUME IInv PROVE BitmapErrors(z) = 0
    OBVIOUS
  <2>1. PICK own : Heap(z, {}, {}, own)
    BY DEF IInv, Sound
  <2> DEFINE none == {}
  <2>2. Heap(z, none, none, own)
    BY <2>1
  <2> HIDE DEF none
  <2> QED BY ONLY <2>2, NoBitmapErrors
<1> QED BY <1>1, AlwaysSound, PTL

=============================================================================
