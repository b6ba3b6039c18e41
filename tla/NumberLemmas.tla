----------------------------- MODULE NumberLemmas -----------------------------
(***************************************************************************)
(* Least and greatest numbers, for the proofs that read a file by its      *)
(* first or last row of a kind, and remainders, for those about time that  *)
(* passes in periods.                                                      *)
(***************************************************************************)
EXTENDS Integers, WellFoundedInduction, TLAPS

(* A nonempty set of numbers has a least one ...                           *)
LEMMA LeastNumber ==
  ASSUME NEW S \in SUBSET Nat, S # {}
  PROVE  \E n \in S : \A m \in S : n <= m
<1>1. \E n \in S : \A m \in S : ~(<<m, n>> \in OpToRel(<, Nat))
  BY NatLessThanWellFounded, WFMin, Zenon
<1>2. \A m, n \in Nat : m < n => <<m, n>> \in OpToRel(<, Nat)
  BY DEF OpToRel
<1>3. PICK n \in S : \A m \in S : ~(<<m, n>> \in OpToRel(<, Nat))
  BY <1>1
<1>4. ASSUME NEW m \in S PROVE n <= m
  <2>1. ~(m < n)
    BY <1>2, <1>3, Zenon
  <2> QED
    BY <2>1
<1> QED
  BY <1>4

(* ... and a bounded one a greatest.                                       *)
LEMMA GreatestNumber ==
  ASSUME NEW S \in SUBSET Nat, S # {}, NEW bound \in Nat, \A n \in S : n <= bound
  PROVE  \E n \in S : \A m \in S : m <= n
<1> DEFINE T == {t \in Nat : \E n \in S : t = bound - n}
<1>1. T # {}
  <2>1. PICK n \in S : TRUE
    OBVIOUS
  <2>2. bound - n \in T
    BY <2>1
  <2> QED
    BY <2>2
<1>2. PICK t \in T : \A u \in T : t <= u
  BY <1>1, LeastNumber
<1>3. PICK n \in S : t = bound - n
  OBVIOUS
<1>4. ASSUME NEW m \in S PROVE m <= n
  <2>1. bound - m \in T
    OBVIOUS
  <2> QED
    BY <1>2, <1>3, <2>1
<1> QED
  BY <1>4

(* A multiple of p that is closer to zero than p is zero.                  *)
LEMMA SmallMultiple ==
  ASSUME NEW p \in Nat \ {0}, NEW k \in Int, -p < k * p, k * p < p
  PROVE  k = 0
<1>1. CASE k >= 1
  <2>1. k * p >= 1 * p
    BY <1>1
  <2> QED
    BY <2>1
<1>2. CASE k <= -1
  <2>1. k * p <= (-1) * p
    BY <1>2
  <2> QED
    BY <2>1
<1> QED
  BY <1>1, <1>2

(* The remainder is the only one.                                          *)
LEMMA Remainder ==
  ASSUME NEW p \in Nat \ {0}, NEW q \in Int, NEW r \in 0 .. p - 1, NEW n \in Nat, n = q * p + r
  PROVE  n % p = r
<1>1. n % p \in 0 .. p - 1 /\ n \div p \in Int /\ n = p * (n \div p) + (n % p)
  OBVIOUS
<1> DEFINE d == n \div p
           s == n % p
<1>2. d \in Int /\ s \in 0 .. p - 1 /\ n = d * p + s
  BY <1>1
<1> HIDE DEF d, s
<1>3. (q - d) * p = s - r
  BY <1>2
<1>4. q - d = 0
  BY <1>2, <1>3, SmallMultiple
<1> QED
  BY <1>2, <1>3, <1>4 DEF s
=============================================================================
