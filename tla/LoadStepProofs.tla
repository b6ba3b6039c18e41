--------------------------- MODULE LoadStepProofs ----------------------------
(***************************************************************************)
(* Proofs about LoadStep, for every outage and all thresholds that satisfy *)
(* its assumptions: sums and medians of the samples of a window, windows   *)
(* that mix two loads, fitted lines, the step that is found, and how far   *)
(* its estimate is off.                                                    *)
(***************************************************************************)
EXTENDS LoadStep, NumberLemmas, FiniteSetTheorems, TLAPS

(* Induction, as a fact about the set of numbers that have a property.     *)
LEMMA Induction ==
  ASSUME NEW S \in SUBSET Nat, 0 \in S, \A n \in S : n + 1 \in S
  PROVE  S = Nat
<1>1. CASE Nat \ S # {}
  <2>1. PICK n \in Nat \ S : \A m \in Nat \ S : n <= m
    BY <1>1, LeastNumber
  <2>2. n - 1 \in Nat /\ n - 1 \notin Nat \ S
    BY <2>1
  <2> QED
    BY <2>1, <2>2
<1> QED
  BY <1>1

(* The least and the greatest of some places.                              *)
LEMMA MinIsLeast ==
  ASSUME NEW S \in SUBSET Nat, S # {}
  PROVE  Min(S) \in S /\ \A m \in S : Min(S) <= m
BY LeastNumber DEF Min

LEMMA MaxIsGreatest ==
  ASSUME NEW S \in SUBSET Nat, S # {}, NEW bound \in Nat, \A n \in S : n <= bound
  PROVE  Max(S) \in S /\ \A m \in S : m <= Max(S)
BY GreatestNumber DEF Max

-----------------------------------------------------------------------------
(* Sums.  The recursion defines a function: one for the places up to n     *)
(* exists for every n, and they agree.                                     *)

Term(f, j) == IF j \in DOMAIN f THEN f[j] ELSE 0

SumsTo(f, n, p) ==
  /\ p \in [0 .. n -> Int]
  /\ p[0] = 0
  /\ \A j \in 1 .. n : p[j] = p[j - 1] + Term(f, j)

LEMMA SumsToExist ==
  ASSUME NEW f, \A j \in DOMAIN f : f[j] \in Int, NEW n \in Nat
  PROVE  \E p : SumsTo(f, n, p)
<1> DEFINE S == {m \in Nat : \E p : SumsTo(f, m, p)}
<1>1. 0 \in S
  <2>1. SumsTo(f, 0, [j \in 0 .. 0 |-> 0])
    BY DEF SumsTo
  <2> QED
    BY <2>1
<1>2. ASSUME NEW m \in S PROVE m + 1 \in S
  <2>1. PICK p : SumsTo(f, m, p)
    OBVIOUS
  <2> DEFINE q == [j \in 0 .. m + 1 |-> IF j = m + 1 THEN p[m] + Term(f, j) ELSE p[j]]
  <2>2. Term(f, m + 1) \in Int /\ p[m] \in Int
    BY <2>1 DEF Term, SumsTo
  <2>3. q \in [0 .. m + 1 -> Int] /\ q[0] = 0
    BY <2>1, <2>2 DEF SumsTo
  <2>4. ASSUME NEW j \in 1 .. m + 1 PROVE q[j] = q[j - 1] + Term(f, j)
    <3>1. CASE j = m + 1
      BY <3>1
    <3>2. CASE j # m + 1
      BY <2>1, <3>2 DEF SumsTo
    <3> QED
      BY <3>1, <3>2
  <2>5. SumsTo(f, m + 1, q)
    BY <2>3, <2>4 DEF SumsTo
  <2> QED
    BY <2>5
<1> HIDE DEF S
<1>3. S = Nat
  <2>1. S \in SUBSET Nat
    BY DEF S
  <2> QED
    BY <1>1, <1>2, <2>1, Induction
<1> QED
  BY <1>3 DEF S

LEMMA SumsToAgree ==
  ASSUME NEW f, NEW m \in Nat, NEW n \in Nat, m <= n,
         NEW p, SumsTo(f, m, p), NEW q, SumsTo(f, n, q)
  PROVE  p[m] = q[m]
<1> DEFINE S == {k \in Nat : k <= m => p[k] = q[k]}
<1>1. 0 \in S
  BY DEF SumsTo
<1>2. ASSUME NEW k \in S PROVE k + 1 \in S
  <2>1. CASE k + 1 <= m
    <3>1. p[k + 1] = p[k] + Term(f, k + 1) /\ q[k + 1] = q[k] + Term(f, k + 1)
      BY <2>1 DEF SumsTo
    <3> QED
      BY <2>1, <3>1
  <2> QED
    BY <2>1
<1> HIDE DEF S
<1>3. S = Nat
  <2>1. S \in SUBSET Nat
    BY DEF S
  <2> QED
    BY <1>1, <1>2, <2>1, Induction
<1> QED
  BY <1>3 DEF S

(* The function that the recursion describes ...                           *)
LEMMA SumsExist ==
  ASSUME NEW f, \A j \in DOMAIN f : f[j] \in Int
  PROVE  \E g \in [Nat -> Int] :
           g = [j \in Nat |-> IF j = 0 THEN 0 ELSE g[j - 1] + (IF j \in DOMAIN f THEN f[j] ELSE 0)]
<1> DEFINE upTo(n) == CHOOSE p : SumsTo(f, n, p)
           g == [n \in Nat |-> upTo(n)[n]]
<1>1. \A n \in Nat : SumsTo(f, n, upTo(n))
  BY SumsToExist
<1> HIDE DEF upTo
<1>2. g \in [Nat -> Int]
  BY <1>1 DEF SumsTo
<1>3. g[0] = 0
  BY <1>1 DEF SumsTo
<1>4. ASSUME NEW n \in Nat, n # 0 PROVE g[n] = g[n - 1] + Term(f, n)
  <2>1. upTo(n)[n] = upTo(n)[n - 1] + Term(f, n)
    BY <1>1, <1>4 DEF SumsTo
  <2>2. upTo(n - 1)[n - 1] = upTo(n)[n - 1]
    BY <1>1, <1>4, SumsToAgree
  <2> QED
    BY <1>4, <2>1, <2>2
<1> HIDE DEF g
<1>5. g = [j \in Nat |-> IF j = 0 THEN 0 ELSE g[j - 1] + (IF j \in DOMAIN f THEN f[j] ELSE 0)]
  BY <1>2, <1>3, <1>4 DEF Term
<1> QED
  BY <1>2, <1>5

(* ... is the one the model sums with, and its values are numbers.         *)
LEMMA SumIsRecursive ==
  ASSUME NEW f, \A j \in DOMAIN f : f[j] \in Int
  PROVE  SumUpTo(f) =
           [j \in Nat |-> IF j = 0 THEN 0 ELSE SumUpTo(f)[j - 1] + (IF j \in DOMAIN f THEN f[j] ELSE 0)]
<1> DEFINE Rec(g) == [j \in Nat |-> IF j = 0 THEN 0 ELSE g[j - 1] + (IF j \in DOMAIN f THEN f[j] ELSE 0)]
<1>1. SumUpTo(f) = CHOOSE g : g = Rec(g)
  BY DEF SumUpTo
<1>2. \E g : g = Rec(g)
  <2>1. PICK g \in [Nat -> Int] :
          g = [j \in Nat |-> IF j = 0 THEN 0 ELSE g[j - 1] + (IF j \in DOMAIN f THEN f[j] ELSE 0)]
    BY SumsExist
  <2>2. g = Rec(g)
    BY <2>1, Zenon
  <2> QED
    BY <2>2, Zenon
<1> HIDE DEF Rec
<1>3. SumUpTo(f) = Rec(SumUpTo(f))
  BY <1>1, <1>2, Zenon
<1> QED
  BY <1>3, Zenon DEF Rec

LEMMA SumSteps ==
  ASSUME NEW f, \A j \in DOMAIN f : f[j] \in Int
  PROVE  /\ SumUpTo(f)[0] = 0
         /\ \A n \in Nat : SumUpTo(f)[n + 1] = SumUpTo(f)[n] + Term(f, n + 1)
         /\ \A n \in Nat : SumUpTo(f)[n] \in Int
<1> DEFINE s == SumUpTo(f)
<1>1. s = [j \in Nat |-> IF j = 0 THEN 0 ELSE s[j - 1] + (IF j \in DOMAIN f THEN f[j] ELSE 0)]
  BY SumIsRecursive
<1> HIDE DEF s
<1>2. s[0] = 0
  BY <1>1
<1>3. ASSUME NEW n \in Nat PROVE s[n + 1] = s[n] + Term(f, n + 1)
  BY <1>1 DEF Term
<1> DEFINE S == {n \in Nat : s[n] \in Int}
<1>4. 0 \in S
  BY <1>2
<1>5. ASSUME NEW n \in S PROVE n + 1 \in S
  <2>1. Term(f, n + 1) \in Int
    BY DEF Term
  <2> QED
    BY <1>3, <2>1
<1>6. S = Nat
  BY <1>4, <1>5, Induction
<1> QED
  BY <1>2, <1>3, <1>6 DEF s

(* A sum of multiples is the multiple of the sums, and sums are monotone.  *)
Combines(h, p, f, q, g) ==
  /\ p \in Int /\ q \in Int
  /\ \E W \in SUBSET Nat : f \in [W -> Int] /\ g \in [W -> Int] /\ h \in [W -> Int]
  /\ \A j \in DOMAIN h : h[j] = p * f[j] + q * g[j]

LEMMA SumLinear ==
  ASSUME NEW h, NEW p, NEW f, NEW q, NEW g, Combines(h, p, f, q, g), NEW n \in Nat
  PROVE  SumUpTo(h)[n] = p * SumUpTo(f)[n] + q * SumUpTo(g)[n]
<1> PICK W \in SUBSET Nat : f \in [W -> Int] /\ g \in [W -> Int] /\ h \in [W -> Int]
  BY DEF Combines
<1>0. p \in Int /\ q \in Int /\ \A j \in W : h[j] = p * f[j] + q * g[j]
  BY DEF Combines
<1> DEFINE F == SumUpTo(f)
           G == SumUpTo(g)
           H == SumUpTo(h)
           S == {m \in Nat : H[m] = p * F[m] + q * G[m]}
<1>1. /\ F[0] = 0 /\ G[0] = 0 /\ H[0] = 0
      /\ \A m \in Nat : F[m] \in Int /\ G[m] \in Int /\ H[m] \in Int
      /\ \A m \in Nat : /\ F[m + 1] = F[m] + Term(f, m + 1)
                        /\ G[m + 1] = G[m] + Term(g, m + 1)
                        /\ H[m + 1] = H[m] + Term(h, m + 1)
  BY SumSteps
<1> HIDE DEF F, G, H
<1>2. 0 \in S
  BY <1>0, <1>1
<1>3. ASSUME NEW m \in S PROVE m + 1 \in S
  <2>1. CASE m + 1 \in W
    <3>1. /\ Term(f, m + 1) = f[m + 1] /\ Term(g, m + 1) = g[m + 1]
          /\ Term(h, m + 1) = p * f[m + 1] + q * g[m + 1]
      BY <1>0, <2>1 DEF Term
    <3>2. f[m + 1] \in Int /\ g[m + 1] \in Int
      BY <2>1
    <3>3. H[m] = p * F[m] + q * G[m]
      OBVIOUS
    <3>4. \A a, b, c, d \in Int : (p * a + q * b) + (p * c + q * d) = p * (a + c) + q * (b + d)
      BY <1>0
    <3> QED
      BY <1>0, <1>1, <3>1, <3>2, <3>3, <3>4
  <2>2. CASE m + 1 \notin W
    BY <1>0, <1>1, <2>2 DEF Term
  <2> QED
    BY <2>1, <2>2
<1>4. S = Nat
  BY <1>2, <1>3, Induction
<1> QED
  BY <1>4 DEF F, G, H

LEMMA SumMonotone ==
  ASSUME NEW W \in SUBSET Nat, NEW f \in [W -> Int], NEW g \in [W -> Int], NEW n \in Nat,
         \A j \in W : j <= n => f[j] <= g[j]
  PROVE  SumUpTo(f)[n] <= SumUpTo(g)[n]
<1> DEFINE F == SumUpTo(f)
           G == SumUpTo(g)
           S == {m \in Nat : m <= n => F[m] <= G[m]}
<1>1. /\ F[0] = 0 /\ G[0] = 0
      /\ \A m \in Nat : F[m] \in Int /\ G[m] \in Int
      /\ \A m \in Nat : F[m + 1] = F[m] + Term(f, m + 1) /\ G[m + 1] = G[m] + Term(g, m + 1)
  BY SumSteps
<1> HIDE DEF F, G
<1>2. 0 \in S
  BY <1>1
<1>3. ASSUME NEW m \in S PROVE m + 1 \in S
  <2>1. CASE m + 1 \in W
    BY <1>1, <2>1 DEF Term
  <2>2. CASE m + 1 \notin W
    BY <1>1, <2>2 DEF Term
  <2> QED
    BY <2>1, <2>2
<1>4. S = Nat
  BY <1>2, <1>3, Induction
<1> QED
  BY <1>4 DEF F, G

(* A window's samples are counted by a sum of ones.                        *)
Ones(W)    == [j \in W |-> 1]
UpTo(W, n) == {j \in W : j <= n}

LEMMA CountIsSum ==
  ASSUME NEW W \in SUBSET Nat, 0 \notin W, NEW n \in Nat
  PROVE  IsFiniteSet(UpTo(W, n)) /\ Cardinality(UpTo(W, n)) = SumUpTo(Ones(W))[n]
<1> DEFINE F == SumUpTo(Ones(W))
           S == {m \in Nat : IsFiniteSet(UpTo(W, m)) /\ Cardinality(UpTo(W, m)) = F[m]}
<1>1. /\ F[0] = 0
      /\ \A m \in Nat : F[m] \in Int
      /\ \A m \in Nat : F[m + 1] = F[m] + Term(Ones(W), m + 1)
  <2>1. \A j \in DOMAIN Ones(W) : Ones(W)[j] \in Int
    BY DEF Ones
  <2> QED
    BY <2>1, SumSteps
<1> HIDE DEF F
<1>2. 0 \in S
  <2>1. \A j \in W : ~(j <= 0)
    OBVIOUS
  <2>2. UpTo(W, 0) = {}
    BY <2>1, Zenon DEF UpTo
  <2> QED
    BY <1>1, <2>2, FS_EmptySet
<1>3. ASSUME NEW m \in S PROVE m + 1 \in S
  <2>0. \A j \in W : (j <= m + 1 <=> j <= m \/ j = m + 1) /\ ~(m + 1 <= m)
    OBVIOUS
  <2>1. CASE m + 1 \in W
    <3>1. UpTo(W, m + 1) = UpTo(W, m) \cup {m + 1} /\ m + 1 \notin UpTo(W, m)
      BY <2>0, <2>1, Zenon DEF UpTo
    <3>2. F[m + 1] = F[m] + 1
      BY <1>1, <2>1 DEF Term, Ones
    <3> QED
      BY <3>1, <3>2, FS_AddElement
  <2>2. CASE m + 1 \notin W
    <3>1. UpTo(W, m + 1) = UpTo(W, m)
      BY <2>0, <2>2, Zenon DEF UpTo
    <3>2. F[m + 1] = F[m]
      BY <1>1, <2>2 DEF Term, Ones
    <3> QED
      BY <3>1, <3>2
  <2> QED
    BY <2>1, <2>2
<1> HIDE DEF S
<1>4. S = Nat
  <2>1. S \in SUBSET Nat
    BY DEF S
  <2> QED
    BY <1>2, <1>3, <2>1, Induction
<1> QED
  BY <1>4 DEF S, F

(* A window of places up to N.                                             *)
LEMMA WindowCounts ==
  ASSUME NEW N \in Nat, NEW W \in SUBSET (1 .. N), W # {}
  PROVE  /\ Max(W) \in W /\ \A j \in W : j <= Max(W)
         /\ IsFiniteSet(W)
         /\ Cardinality(W) \in Nat \ {0}
         /\ Cardinality(W) = SumUpTo(Ones(W))[Max(W)]
<1>1. Max(W) \in W /\ \A j \in W : j <= Max(W)
  BY MaxIsGreatest
<1>2. UpTo(W, Max(W)) = W
  BY <1>1 DEF UpTo
<1>3. IsFiniteSet(W) /\ Cardinality(W) = SumUpTo(Ones(W))[Max(W)]
  <2>1. W \in SUBSET Nat /\ 0 \notin W
    OBVIOUS
  <2>2. Max(W) \in Nat
    BY <1>1, <2>1, Zenon
  <2> QED
    BY <1>2, <2>1, <2>2, CountIsSum
<1>4. Cardinality(W) \in Nat \ {0}
  BY <1>3, FS_CardinalityType, FS_EmptySet
<1> QED
  BY <1>1, <1>3, <1>4

-----------------------------------------------------------------------------
(* Steady windows: one load, or a mixture that a window of at most a       *)
(* sample a second does not hide.                                          *)

LEMMA SumPositive ==
  ASSUME NEW W \in SUBSET Nat, NEW f \in [W -> Int], \A j \in W : f[j] >= 0,
         NEW k \in W, k # 0, f[k] >= 1, NEW n \in Nat, k <= n
  PROVE  SumUpTo(f)[n] >= 1
<1> DEFINE F == SumUpTo(f)
           S == {m \in Nat : F[m] >= 0 /\ (k <= m => F[m] >= 1)}
<1>1. /\ F[0] = 0
      /\ \A m \in Nat : F[m] \in Int
      /\ \A m \in Nat : F[m + 1] = F[m] + Term(f, m + 1)
  BY SumSteps
<1> HIDE DEF F
<1>2. 0 \in S
  BY <1>1
<1>3. ASSUME NEW m \in S PROVE m + 1 \in S
  <2>1. Term(f, m + 1) \in Nat /\ (m + 1 = k => Term(f, m + 1) >= 1)
    BY DEF Term
  <2> QED
    BY <1>1, <2>1
<1>4. S = Nat
  BY <1>2, <1>3, Induction
<1> QED
  BY <1>4 DEF F

TwoLoads(rows, W, b, t) == \A j \in W : rows[j].load = b \/ rows[j].load = b + t

Higher(rows, W, b) == [j \in W |-> IF rows[j].load = b THEN 0 ELSE 1]

(* n^2 times the variance of samples with two loads.                       *)
LEMMA VarianceOfTwoLoads ==
  ASSUME NEW N \in Nat, NEW W \in SUBSET (1 .. N), W # {}, NEW rows,
         NEW b \in Nat, NEW t \in Nat, TwoLoads(rows, W, b, t)
  PROVE  LET n      == Cardinality(W)
             h      == SumUpTo(Higher(rows, W, b))[Max(W)]
             sum    == Sum([j \in W |-> rows[j].load])
             square == Sum([j \in W |-> rows[j].load * rows[j].load])
         IN  h \in Int /\ n * square - sum * sum = t * t * (h * (n - h))
<1> DEFINE n      == Cardinality(W)
           u      == Higher(rows, W, b)
           load   == [j \in W |-> rows[j].load]
           loads  == [j \in W |-> rows[j].load * rows[j].load]
           h      == SumUpTo(u)[Max(W)]
           sum    == SumUpTo(load)[Max(W)]
           square == SumUpTo(loads)[Max(W)]
<1>1. W \in SUBSET Nat
  OBVIOUS
<1>2. Max(W) \in Nat
  BY <1>1, WindowCounts, Zenon
<1>3. n = SumUpTo(Ones(W))[Max(W)] /\ n \in Nat
  BY WindowCounts
<1>4. u \in [W -> Int] /\ Ones(W) \in [W -> Int]
  BY DEF Higher, Ones
<1>5. ASSUME NEW j \in W
      PROVE  /\ load[j] \in Int /\ load[j] = b * Ones(W)[j] + t * u[j]
             /\ loads[j] \in Int /\ loads[j] = (b * b) * Ones(W)[j] + (2 * b * t + t * t) * u[j]
  <2>1. Ones(W)[j] = 1
    BY DEF Ones
  <2>2. CASE rows[j].load = b
    <3>1. u[j] = 0
      BY <2>2 DEF Higher
    <3> QED
      BY <2>1, <2>2, <3>1
  <2>3. CASE rows[j].load # b
    <3>1. u[j] = 1 /\ rows[j].load = b + t
      BY <2>3 DEF Higher, TwoLoads
    <3>2. (b + t) * (b + t) = b * b + (2 * b * t + t * t)
      OBVIOUS
    <3> QED
      BY <2>1, <3>1, <3>2
  <2> QED
    BY <2>2, <2>3
<1>6. load \in [W -> Int] /\ loads \in [W -> Int]
  BY <1>5
<1> DEFINE bb == b * b
           tt == 2 * b * t + t * t
<1>7. bb \in Int /\ tt \in Int
  OBVIOUS
<1>8. h \in Int
  BY <1>2, <1>4, SumSteps
<1> HIDE DEF u, load, loads, n
<1>9. sum = b * n + t * h
  <2>1. Combines(load, b, Ones(W), t, u)
    BY <1>1, <1>4, <1>5, <1>6 DEF Combines
  <2> QED
    BY <1>2, <1>3, <2>1, SumLinear
<1>10. square = bb * n + tt * h
  <2>1. \A j \in W : loads[j] = bb * Ones(W)[j] + tt * u[j]
    BY <1>5
  <2> HIDE DEF bb, tt
  <2>2. Combines(loads, bb, Ones(W), tt, u)
    BY <1>1, <1>4, <1>6, <1>7, <2>1 DEF Combines
  <2> QED
    BY <1>2, <1>3, <2>2, SumLinear
<1> HIDE DEF h, sum, square
<1>11. n * square - sum * sum = t * t * (h * (n - h))
  <2>1. \A x, y \in Int : x * (b * b * x + (2 * b * t + t * t) * y) - (b * x + t * y) * (b * x + t * y)
                           = t * t * (y * (x - y))
    OBVIOUS
  <2> QED
    BY <1>3, <1>8, <1>9, <1>10, <2>1
<1>12. Sum(load) = sum /\ Sum(loads) = square
  <2>1. DOMAIN load = W /\ DOMAIN loads = W
    BY <1>6
  <2> QED
    BY <2>1 DEF Sum, sum, square
<1> QED
  BY <1>8, <1>11, <1>12 DEF u, load, loads, h, n

(* One load is steady ...                                                  *)
LEMMA OneLoadIsSteady ==
  ASSUME NEW N \in Nat, NEW W \in SUBSET (1 .. N), W # {}, NEW rows,
         NEW b \in Nat, \A j \in W : rows[j].load = b
  PROVE  Steady(rows, W)
<1>1. TwoLoads(rows, W, b, 0)
  BY DEF TwoLoads
<1> DEFINE n      == Cardinality(W)
           h      == SumUpTo(Higher(rows, W, b))[Max(W)]
           sum    == Sum([j \in W |-> rows[j].load])
           square == Sum([j \in W |-> rows[j].load * rows[j].load])
<1>2. h \in Int /\ n * square - sum * sum = 0 * 0 * (h * (n - h))
  BY <1>1, VarianceOfTwoLoads
<1>3. n \in Nat
  BY WindowCounts
<1> HIDE DEF n, h, sum, square
<1>4. n * square - sum * sum = 0
  BY <1>2, <1>3
<1>5. n * n * MaxPlateauStd * MaxPlateauStd >= 0
  <2>1. \A x \in Nat : x * x \in Nat
    OBVIOUS
  <2>2. n * n * MaxPlateauStd * MaxPlateauStd = (n * n) * (MaxPlateauStd * MaxPlateauStd)
    BY <1>3, LoadStepAssumption
  <2>3. n * n \in Nat /\ MaxPlateauStd * MaxPlateauStd \in Nat
    BY <1>3, <2>1, LoadStepAssumption
  <2>4. \A x, y \in Nat : x * y >= 0
    OBVIOUS
  <2> QED
    BY <2>2, <2>3, <2>4
<1> QED
  BY <1>4, <1>5 DEF Steady, n, sum, square

(* ... and the mixture of two a step apart is not: s^2 h (n - h) is at     *)
(* least s^2 (n - 1), and that is more than n^2 times the bound's square   *)
(* in a window of n samples if it is in the longest.                       *)
LEMMA LongestWindow ==
  ASSUME NEW P \in Nat \ {0}, NEW d \in Nat, NEW s \in Nat,
         s * P > d * (P + 1) * (P + 1), NEW n \in 2 .. P + 1
  PROVE  s * (n - 1) > n * n * d
<1> DEFINE Q == (P + 1) * (P + 1)
<1>1. (n - 1) * Q - P * (n * n) = (P + 1 - n) * (P * (n - 1) - 1)
  OBVIOUS
<1>2. P * (n - 1) >= 1
  OBVIOUS
<1>3. (P + 1 - n) * (P * (n - 1) - 1) >= 0
  <2>1. P + 1 - n \in Nat /\ P * (n - 1) - 1 \in Nat
    BY <1>2
  <2>2. \A x, y \in Nat : x * y >= 0
    OBVIOUS
  <2> QED
    BY <2>1, <2>2
<1>4. (n - 1) * Q >= P * (n * n)
  BY <1>1, <1>3
<1>5. s * ((n - 1) * Q) >= s * (P * (n * n))
  <2>1. \A x, y \in Int : x >= y => s * x >= s * y
    OBVIOUS
  <2> QED
    BY <1>4, <2>1
<1>6. s * (P * (n * n)) = (s * P) * (n * n)
  OBVIOUS
<1>7. (s * P) * (n * n) > (d * Q) * (n * n)
  <2>1. s * P > d * Q
    OBVIOUS
  <2>2. n * n >= 1
    OBVIOUS
  <2>3. \A x, y, z \in Int : x > y /\ z >= 1 => x * z > y * z
    OBVIOUS
  <2> QED
    BY <2>1, <2>2, <2>3
<1>8. (s * (n - 1)) * Q > (n * n * d) * Q
  BY <1>5, <1>6, <1>7
<1>9. Q >= 1
  OBVIOUS
<1>10. \A x, y, z \in Int : z >= 1 /\ x * z > y * z => x > y
  OBVIOUS
<1> HIDE DEF Q
<1> QED
  BY <1>8, <1>9, <1>10

LEMMA MixtureIsUnsteady ==
  ASSUME NEW N \in Nat, NEW W \in SUBSET (1 .. N), NEW rows,
         NEW b \in Nat, NEW t \in Nat, t >= MinLoadStep, TwoLoads(rows, W, b, t),
         Cardinality(W) <= PlateauDuration + 1,
         NEW low \in W, rows[low].load = b, NEW high \in W, rows[high].load = b + t
  PROVE  ~Steady(rows, W)
<1> DEFINE n      == Cardinality(W)
           u      == Higher(rows, W, b)
           v      == [j \in W |-> 1 - u[j]]
           h      == SumUpTo(u)[Max(W)]
           sum    == Sum([j \in W |-> rows[j].load])
           square == Sum([j \in W |-> rows[j].load * rows[j].load])
<1>1. h \in Int /\ n * square - sum * sum = t * t * (h * (n - h))
  <2>1. W # {}
    OBVIOUS
  <2> QED
    BY <2>1, VarianceOfTwoLoads
<1>2. /\ n \in Nat \ {0} /\ n = SumUpTo(Ones(W))[Max(W)]
      /\ W \in SUBSET Nat /\ Max(W) \in Nat /\ low <= Max(W) /\ high <= Max(W)
  <2>1. W # {} /\ W \in SUBSET Nat
    OBVIOUS
  <2>2. Max(W) \in W /\ \A j \in W : j <= Max(W)
    BY <2>1, WindowCounts
  <2>3. Max(W) \in Nat
    BY <2>1, <2>2, Zenon
  <2> QED
    BY <2>1, <2>2, <2>3, WindowCounts
<1>3. low # 0 /\ high # 0 /\ low # high /\ t # 0
  BY LoadStepAssumption
<1>4. /\ u \in [W -> Int] /\ v \in [W -> Int] /\ Ones(W) \in [W -> Int]
      /\ \A j \in W : u[j] >= 0 /\ v[j] >= 0 /\ v[j] = 1 * Ones(W)[j] + (-1) * u[j]
      /\ u[high] >= 1 /\ v[low] >= 1
  BY <1>3 DEF Higher, Ones
<1> HIDE DEF u, v
<1>5. h >= 1
  BY <1>2, <1>3, <1>4, SumPositive
<1>6. SumUpTo(v)[Max(W)] >= 1
  BY <1>2, <1>3, <1>4, SumPositive
<1>7. SumUpTo(v)[Max(W)] = n - h
  <2>1. Combines(v, 1, Ones(W), -1, u)
    BY <1>2, <1>4 DEF Combines
  <2>2. SumUpTo(v)[Max(W)] = 1 * SumUpTo(Ones(W))[Max(W)] + (-1) * h
    BY <1>2, <2>1, SumLinear
  <2> QED
    BY <1>1, <1>2, <2>2
<1> HIDE DEF h, n, sum, square
<1>8. h * (n - h) >= n - 1
  <2>1. h * (n - h) - (n - 1) = (h - 1) * (n - h - 1)
    BY <1>1, <1>2
  <2>2. \A x, y \in Nat : x * y >= 0
    OBVIOUS
  <2>3. h - 1 \in Nat /\ n - h - 1 \in Nat
    BY <1>1, <1>2, <1>5, <1>6, <1>7
  <2>4. (h - 1) * (n - h - 1) >= 0
    BY <2>2, <2>3
  <2>5. h * (n - h) \in Int
    BY <1>1, <1>2
  <2> QED
    BY <1>2, <2>1, <2>4, <2>5
<1>9. t * t * (h * (n - h)) >= (t * t) * (n - 1)
  <2>1. \A x, y \in Int, z \in Nat : x >= y => z * x >= z * y
    OBVIOUS
  <2>2. t * t \in Nat /\ h * (n - h) \in Int
    BY <1>1, <1>2
  <2> QED
    BY <1>2, <1>8, <2>1, <2>2
<1>10. (t * t) * (n - 1) > n * n * (MaxPlateauStd * MaxPlateauStd)
  <2> DEFINE d == MaxPlateauStd * MaxPlateauStd
             s == t * t
             P == PlateauDuration
             M == MinLoadStep
  <2>1. P \in Nat \ {0} /\ d \in Nat /\ s \in Nat /\ M \in Nat /\ n \in 2 .. P + 1
    BY LoadStepAssumption, <1>1, <1>2, <1>5, <1>6, <1>7 DEF n
  <2>2. s >= M * M
    BY LoadStepAssumption
  <2>3. M * M * P > d * (P + 1) * (P + 1)
    BY StepsAreUnsteady, LoadStepAssumption
  <2>4. s * P >= M * M * P
    <3>1. \A x, y, z \in Nat : x >= y => x * z >= y * z
      OBVIOUS
    <3>2. M * M \in Nat
      BY <2>1
    <3> HIDE DEF s, M
    <3> QED
      BY <2>1, <2>2, <3>1, <3>2
  <2> HIDE DEF d, s, P, M
  <2>5. s * P > d * (P + 1) * (P + 1)
    <3>1. s * P \in Int /\ M * M * P \in Int /\ d * (P + 1) * (P + 1) \in Int
      BY <2>1
    <3> QED
      BY <2>3, <2>4, <3>1
  <2> QED
    BY <2>1, <2>5, LongestWindow DEF d, s
<1>11. n * n * MaxPlateauStd * MaxPlateauStd = n * n * (MaxPlateauStd * MaxPlateauStd)
  BY <1>2, LoadStepAssumption
<1>12. ~(n * square - sum * sum <= n * n * MaxPlateauStd * MaxPlateauStd)
  <2>1. /\ t * t * (h * (n - h)) \in Int /\ (t * t) * (n - 1) \in Int
        /\ n * n * (MaxPlateauStd * MaxPlateauStd) \in Int
    BY <1>1, <1>2, LoadStepAssumption
  <2> QED
    BY <1>1, <1>9, <1>10, <1>11, <2>1
<1> QED
  BY <1>12 DEF Steady, n, sum, square

-----------------------------------------------------------------------------
(* A median lies among the samples: twice it is the sum of two of them.    *)
LEMMA MedianOfSamples ==
  ASSUME NEW N \in Nat, NEW W \in SUBSET (1 .. N), W # {}, NEW rows,
         NEW bound \in Nat, \A j \in W : rows[j].load \in 0 .. bound
  PROVE  \E j, k \in W : TwiceMedian(rows, W) = rows[j].load + rows[k].load
<1> DEFINE n         == Cardinality(W)
           rank(j)   == Cardinality({k \in W : rows[k].load <= rows[j].load})
           at(r)     == {rows[j].load : j \in {j \in W : r <= rank(j)}}
           ranked(r) == Min(at(r))
           loads     == {rows[j].load : j \in W}
<1>1. n \in Nat \ {0}
  BY WindowCounts
<1>2. PICK top \in W : \A k \in W : rows[k].load <= rows[top].load
  <2> HIDE DEF n, rank, at, ranked
  <2>1. /\ \A j \in W : rows[j].load \in Nat /\ rows[j].load <= bound
        /\ \E j \in W : TRUE
    <3>1. \A x \in 0 .. bound : x \in Nat /\ x <= bound
      OBVIOUS
    <3>2. \A j \in W : rows[j].load \in 0 .. bound
      OBVIOUS
    <3>3. \E j \in W : TRUE
      OBVIOUS
    <3> QED
      BY <3>1, <3>2, <3>3, Zenon
  <2>3. loads \in SUBSET Nat /\ loads # {} /\ \A m \in loads : m <= bound
    BY <2>1, Zenon
  <2>2. PICK most \in loads : \A m \in loads : m <= most
    <3> HIDE DEF loads
    <3> QED
      BY <2>3, GreatestNumber
  <2>4. PICK top \in W : rows[top].load = most
    BY <2>2, Zenon
  <2>5. \A k \in W : rows[k].load <= rows[top].load
    BY <2>2, <2>4, Zenon
  <2> QED
    BY <2>5
<1>3. rank(top) = n
  <2>1. {k \in W : rows[k].load <= rows[top].load} = W
    BY <1>2
  <2> QED
    BY <2>1
<1>4. ASSUME NEW r \in Nat, r <= n PROVE ranked(r) \in loads
  <2>1. rows[top].load \in at(r)
    BY <1>3, <1>4
  <2>2. at(r) \in SUBSET Nat /\ at(r) \subseteq loads
    <3> HIDE DEF rank
    <3> QED
      OBVIOUS
  <2> HIDE DEF at, loads
  <2>3. Min(at(r)) \in at(r)
    BY <2>1, <2>2, MinIsLeast
  <2> QED
    BY <2>2, <2>3, Zenon
<1>5. TwiceMedian(rows, W) = ranked((n + 1) \div 2) + ranked(n \div 2 + 1)
  BY Zenon DEF TwiceMedian
<1>6. /\ (n + 1) \div 2 \in Nat /\ (n + 1) \div 2 <= n
      /\ n \div 2 + 1 \in Nat /\ n \div 2 + 1 <= n
  <2> HIDE DEF n
  <2> QED
    BY <1>1
<1>7. ranked((n + 1) \div 2) \in loads /\ ranked(n \div 2 + 1) \in loads
  <2> HIDE DEF n, ranked, loads
  <2> QED
    BY <1>4, <1>6
<1> HIDE DEF ranked, n
<1>8. PICK j \in W : ranked((n + 1) \div 2) = rows[j].load
  BY <1>7, Zenon
<1>9. PICK k \in W : ranked(n \div 2 + 1) = rows[k].load
  BY <1>7, Zenon
<1> QED
  BY <1>5, <1>8, <1>9, Zenon

-----------------------------------------------------------------------------
(* The recursion of the greatest common divisor has a solution: the usual  *)
(* one.                                                                    *)
Euclid(G) == [p \in Nat \X Nat |-> IF p[2] = 0 THEN p[1] ELSE G[<<p[2], p[1] % p[2]>>]]

Divides(d, n) == \E m \in Nat : n = d * m

CommonDivisors(a, b) == {d \in Nat \ {0} : Divides(d, a) /\ Divides(d, b)}

Greatest(a, b) == IF a = 0 /\ b = 0 THEN 0 ELSE Max(CommonDivisors(a, b))

LEMMA DivisorsOfRemainder ==
  ASSUME NEW a \in Nat, NEW b \in Nat \ {0}, NEW d \in Nat \ {0}, Divides(d, b)
  PROVE  Divides(d, a) <=> Divides(d, a % b)
<1> DEFINE q == a \div b
           r == a % b
<1>1. a = q * b + r /\ q \in Nat /\ r \in Nat
  OBVIOUS
<1> HIDE DEF q, r
<1>2. PICK k \in Nat : b = d * k
  BY DEF Divides
<1>3. \A m \in Nat : a = d * m => r = d * (m - q * k)
  BY <1>1, <1>2
<1>4. \A m \in Nat : r = d * m => a = d * (m + q * k)
  BY <1>1, <1>2
<1>5. \A m \in Int : r = d * m => m \in Nat
  <2>1. \A m \in Int : d * m >= 0 => m >= 0
    OBVIOUS
  <2> QED
    BY <1>1, <2>1
<1>6. \A m \in Nat : m - q * k \in Int /\ m + q * k \in Nat
  BY <1>1, <1>2
<1>7. Divides(d, a) => Divides(d, r)
  BY <1>3, <1>5, <1>6 DEF Divides
<1>8. Divides(d, r) => Divides(d, a)
  BY <1>4, <1>6 DEF Divides
<1> QED
  BY <1>7, <1>8 DEF r

LEMMA GreatestIsEuclid ==
  ASSUME NEW a \in Nat, NEW b \in Nat
  PROVE  Greatest(a, b) = IF b = 0 THEN a ELSE Greatest(b, a % b)
<1>1. CASE b = 0 /\ a = 0
  BY <1>1 DEF Greatest
<1>2. CASE b = 0 /\ a # 0
  <2>1. \A d \in Nat : d * 0 = 0
    OBVIOUS
  <2>2. a = a * 1
    OBVIOUS
  <2>3. a \in CommonDivisors(a, b)
    BY <1>2, <2>1, <2>2 DEF CommonDivisors, Divides
  <2>4. ASSUME NEW d \in CommonDivisors(a, b) PROVE d <= a
    <3>1. PICK m \in Nat : a = d * m
      BY DEF CommonDivisors, Divides
    <3>2. d \in Nat /\ m # 0
      BY <1>2, <3>1 DEF CommonDivisors
    <3> QED
      BY <3>1, <3>2
  <2>5. \A x \in CommonDivisors(a, b) : x \in Nat
    BY DEF CommonDivisors
  <2>6. Max(CommonDivisors(a, b)) \in CommonDivisors(a, b) /\ a <= Max(CommonDivisors(a, b))
    BY <2>3, <2>4, <2>5, MaxIsGreatest
  <2>7. Max(CommonDivisors(a, b)) = a
    BY <2>4, <2>5, <2>6
  <2> QED
    BY <1>2, <2>7 DEF Greatest
<1>3. CASE b # 0
  <2>1. CommonDivisors(a, b) = CommonDivisors(b, a % b)
    BY <1>3, DivisorsOfRemainder, Zenon DEF CommonDivisors
  <2> QED
    BY <1>3, <2>1, Zenon DEF Greatest
<1> QED
  BY <1>1, <1>2, <1>3

LEMMA GcdIsEuclid == Gcd = Euclid(Gcd)
<1>1. Gcd = CHOOSE G : G = Euclid(G)
  BY Zenon DEF Gcd, Euclid
<1> DEFINE G == [p \in Nat \X Nat |-> Greatest(p[1], p[2])]
<1>2. G = Euclid(G)
  <2>1. ASSUME NEW p \in Nat \X Nat
        PROVE  G[p] = IF p[2] = 0 THEN p[1] ELSE G[<<p[2], p[1] % p[2]>>]
    <3>1. p[1] \in Nat /\ p[2] \in Nat
      OBVIOUS
    <3>2. G[p] = IF p[2] = 0 THEN p[1] ELSE Greatest(p[2], p[1] % p[2])
      BY <3>1, GreatestIsEuclid
    <3>3. p[2] # 0 => <<p[2], p[1] % p[2]>> \in Nat \X Nat
      BY <3>1
    <3>4. \A x, y \in Nat : G[<<x, y>>] = Greatest(x, y)
      OBVIOUS
    <3>5. p[2] # 0 => p[1] % p[2] \in Nat
      BY <3>1
    <3> HIDE DEF G
    <3> QED
      BY <3>1, <3>2, <3>4, <3>5
  <2>2. G = [p \in Nat \X Nat |-> G[p]]
    OBVIOUS
  <2> HIDE DEF G
  <2> QED
    BY <2>1, <2>2, Zenon DEF Euclid
<1> HIDE DEF G
<1> QED
  BY <1>1, <1>2, Zenon

(* What the model takes it of: a multiple of the denominator, and that.    *)
LEMMA GcdOfMultiple ==
  ASSUME NEW den \in Nat \ {0}, NEW k \in Nat
  PROVE  Gcd[<<k * den, den>>] = den
<1>1. \A a, b \in Nat : Gcd[<<a, b>>] = IF b = 0 THEN a ELSE Gcd[<<b, a % b>>]
  <2>1. ASSUME NEW G, G = Euclid(G)
        PROVE  \A a, b \in Nat : G[<<a, b>>] = IF b = 0 THEN a ELSE G[<<b, a % b>>]
    BY <2>1 DEF Euclid
  <2> QED
    BY <2>1, GcdIsEuclid
<1>2. k * den \in Nat
  OBVIOUS
<1>3. (k * den) % den = 0
  BY Remainder
<1>4. Gcd[<<k * den, den>>] = Gcd[<<den, 0>>]
  BY <1>1, <1>2, <1>3
<1> QED
  BY <1>1, <1>4

-----------------------------------------------------------------------------
(* Fitted lines.  n times the denominator is the sum of the squares of     *)
(* n x - sx, and they are not all zero for two samples at different times. *)
LEMMA DenominatorIsPositive ==
  ASSUME NEW N \in Nat, NEW W \in SUBSET (1 .. N), NEW x \in [W -> Int],
         NEW j \in W, NEW k \in W, x[j] # x[k]
  PROVE  LET sx  == Sum(x)
             sxx == Sum([l \in W |-> x[l] * x[l]])
         IN  /\ sx \in Int /\ sxx \in Int
             /\ Cardinality(W) * sxx - sx * sx \in Nat \ {0}
<1> DEFINE n   == Cardinality(W)
           top == Max(W)
           xx  == [l \in W |-> x[l] * x[l]]
           sx  == SumUpTo(x)[top]
           sxx == SumUpTo(xx)[top]
           dev == [l \in W |-> (n * x[l] - sx) * (n * x[l] - sx)]
           mid == [l \in W |-> (-2 * n * sx) * x[l] + (sx * sx) * Ones(W)[l]]
<1>1. W # {} /\ W \in SUBSET Nat
  OBVIOUS
<1>2. /\ n \in Nat \ {0} /\ n = SumUpTo(Ones(W))[top]
      /\ top \in Nat /\ \A l \in W : l <= top
  <2>1. top \in W
    BY <1>1, WindowCounts
  <2>2. top \in Nat
    BY <1>1, <2>1, Zenon
  <2> QED
    BY <1>1, <2>2, WindowCounts
<1> HIDE DEF n, top
<1>3. xx \in [W -> Int] /\ Ones(W) \in [W -> Int]
  BY DEF Ones
<1>4. sx \in Int /\ sxx \in Int
  BY <1>1, <1>2, <1>3, SumSteps
<1> HIDE DEF sx, sxx
<1>5. SumUpTo(mid)[top] = (-2 * n * sx) * sx + (sx * sx) * n
  <2>1. -2 * n * sx \in Int /\ sx * sx \in Int
    BY <1>2, <1>4
  <2> DEFINE p == -2 * n * sx
             q == sx * sx
  <2>2. p \in Int /\ q \in Int
    BY <2>1
  <2>3. mid = [l \in W |-> p * x[l] + q * Ones(W)[l]]
    OBVIOUS
  <2> HIDE DEF p, q, mid
  <2>4. Combines(mid, p, x, q, Ones(W))
    BY <1>1, <1>3, <2>2, <2>3 DEF Combines
  <2>5. SumUpTo(mid)[top] = p * SumUpTo(x)[top] + q * SumUpTo(Ones(W))[top]
    BY <1>2, <2>4, SumLinear
  <2> QED
    BY <1>2, <2>5 DEF sx, p, q
<1>6. SumUpTo(dev)[top] = (n * n) * sxx + 1 * SumUpTo(mid)[top]
  <2>1. ASSUME NEW l \in W
        PROVE  /\ mid[l] \in Int /\ dev[l] \in Int
               /\ dev[l] = (n * n) * xx[l] + 1 * mid[l]
    <3>1. x[l] \in Int /\ Ones(W)[l] = 1
      BY DEF Ones
    <3> DEFINE z == x[l]
               p == -2 * n * sx
               q == sx * sx
               d == n * z - sx
    <3>2. z \in Int /\ p \in Int /\ q \in Int /\ d \in Int /\ n * n \in Int
      BY <1>2, <1>4, <3>1
    <3>3. d * d = (n * n) * (z * z) + (p * z + q)
      BY <1>2, <1>4, <3>1
    <3>4. mid[l] = p * z + q * Ones(W)[l] /\ dev[l] = d * d /\ xx[l] = z * z
      OBVIOUS
    <3> HIDE DEF z, p, q, d, mid, dev, xx
    <3>5. p * z + q \in Int /\ d * d \in Int /\ z * z \in Int
      BY <3>2
    <3> QED
      BY <3>1, <3>2, <3>3, <3>4, <3>5
  <2>2. mid \in [W -> Int] /\ dev \in [W -> Int]
    BY <2>1
  <2>3. n * n \in Int
    BY <1>2
  <2> HIDE DEF mid, dev, xx
  <2>4. DOMAIN dev = W
    BY <2>2
  <2>5. Combines(dev, n * n, xx, 1, mid)
    BY <1>1, <1>3, <2>1, <2>2, <2>3, <2>4 DEF Combines
  <2> QED
    BY <1>2, <2>5, SumLinear DEF sxx
<1>7. SumUpTo(dev)[top] >= 1
  <2>1. ASSUME NEW l \in W PROVE dev[l] \in Int /\ dev[l] >= 0 /\ (n * x[l] # sx => dev[l] >= 1)
    <3>1. \A y \in Int : y * y \in Int /\ y * y >= 0 /\ (y # 0 => y * y >= 1)
      OBVIOUS
    <3>2. n * x[l] - sx \in Int /\ (n * x[l] # sx => n * x[l] - sx # 0)
      BY <1>2, <1>4
    <3> QED
      BY <3>1, <3>2
  <2>2. dev \in [W -> Int]
    BY <2>1
  <2>3. PICK l \in {j, k} : n * x[l] # sx
    <3>1. \A y, z \in Int : y # z => n * y # n * z
      BY <1>2
    <3> QED
      BY <3>1
  <2> HIDE DEF dev
  <2>4. l \in W /\ l # 0 /\ l <= top /\ dev[l] >= 1 /\ \A m \in W : dev[m] >= 0
    BY <1>2, <2>1, <2>3
  <2> QED
    BY <1>1, <1>2, <2>2, <2>4, SumPositive
<1>8. n * (n * sxx - sx * sx) >= 1
  <2>1. (n * n) * sxx + 1 * ((-2 * n * sx) * sx + (sx * sx) * n) = n * (n * sxx - sx * sx)
    BY <1>2, <1>4
  <2> HIDE DEF dev, mid
  <2> QED
    BY <1>5, <1>6, <1>7, <2>1
<1>9. n * sxx - sx * sx >= 1
  <2>1. \A y \in Int : n * y >= 1 => y >= 1
    BY <1>2
  <2>2. n * sxx - sx * sx \in Int
    BY <1>2, <1>4
  <2> QED
    BY <1>8, <2>1, <2>2
<1>10. Sum(x) = sx /\ Sum(xx) = sxx
  <2>1. DOMAIN x = W /\ DOMAIN xx = W
    OBVIOUS
  <2> QED
    BY <2>1 DEF Sum, sx, sxx, top
<1>11. n * sxx - sx * sx \in Nat \ {0}
  BY <1>2, <1>4, <1>9
<1> QED
  BY <1>4, <1>10, <1>11 DEF n, xx

(* A window of one load and one voltage, over some time. *)
Uniform(N, rows, W, i, b, v) ==
  /\ N \in Nat /\ W \in SUBSET (1 .. N) /\ b \in Nat /\ v \in Int /\ rows[i].at \in Int
  /\ \A j \in W : rows[j].load = b /\ rows[j].v = v /\ rows[j].at \in Int
  /\ \E j, k \in W : rows[j].at # rows[k].at

(* The line through samples of one voltage is flat, and it has that        *)
(* voltage at the transition.                                              *)
LEMMA LineOfOneVoltage ==
  ASSUME NEW N, NEW W, NEW rows, NEW i, NEW b, NEW v, Uniform(N, rows, W, i, b, v)
  PROVE  LET line == LineAtTransition(rows, W, i)
         IN  /\ line.slope = 0
             /\ line.den \in Nat \ {0}
             /\ line.valueDen \in Nat \ {0}
             /\ line.value = (v - 120) * line.valueDen
<1> /\ N \in Nat /\ W \in SUBSET (1 .. N) /\ v \in Int /\ rows[i].at \in Int
    /\ \A l \in W : rows[l].v = v /\ rows[l].at \in Int
  BY DEF Uniform
<1> PICK j \in W, k \in W : rows[j].at # rows[k].at
  BY DEF Uniform
<1> DEFINE c    == v - 120
           x    == [l \in W |-> rows[l].at - rows[i].at]
           y    == [l \in W |-> rows[l].v - 120]
           xx   == [l \in W |-> x[l] * x[l]]
           xy   == [l \in W |-> x[l] * y[l]]
           n    == Cardinality(W)
           top  == Max(W)
           sx   == Sum(x)
           sy   == Sum(y)
           sxx  == Sum(xx)
           sxy  == Sum(xy)
           den  == n * sxx - sx * sx
           at   == sy * sxx - sx * sxy
           g    == Gcd[<<Abs(at), den>>]
           line == [slope |-> n * sxy - sx * sy, den |-> den,
                    value |-> at \div g, valueDen |-> den \div g]
<1>1. LineAtTransition(rows, W, i) = line
  BY Zenon DEF LineAtTransition
<1>2. /\ W # {} /\ W \in SUBSET Nat /\ c \in Int
      /\ n \in Nat \ {0} /\ n = SumUpTo(Ones(W))[top] /\ top \in Nat
  <2>1. W # {} /\ W \in SUBSET Nat /\ c \in Int
    OBVIOUS
  <2>2. top \in W
    BY <2>1, WindowCounts
  <2>3. top \in Nat
    BY <2>1, <2>2, Zenon
  <2> QED
    BY <2>1, <2>3, WindowCounts
<1>3. x \in [W -> Int] /\ x[j] # x[k]
  OBVIOUS
<1>4. /\ y \in [W -> Int] /\ \A l \in W : y[l] = c
  OBVIOUS
<1> HIDE DEF x, y, c
<1>5. xx \in [W -> Int] /\ xy \in [W -> Int]
  BY <1>3, <1>4
<1>6. sx \in Int /\ sxx \in Int /\ den \in Nat \ {0}
  BY <1>3, DenominatorIsPositive
<1>7. sx = SumUpTo(x)[top] /\ sy = SumUpTo(y)[top] /\ sxy = SumUpTo(xy)[top]
  <2>1. DOMAIN x = W /\ DOMAIN y = W /\ DOMAIN xy = W
    BY <1>3, <1>4
  <2> QED
    BY <2>1 DEF Sum
<1> DEFINE ones == Ones(W)
<1>8. ones \in [W -> Int] /\ \A l \in W : ones[l] = 1
  BY DEF Ones
<1> HIDE DEF ones, n, top, sx, sy, sxx, sxy, xx, xy
<1>9. sy = c * n
  <2>1. \A l \in W : y[l] = c * ones[l] + 0 * ones[l]
    BY <1>2, <1>4, <1>8
  <2>2. Combines(y, c, ones, 0, ones)
    BY <1>2, <1>4, <1>8, <2>1 DEF Combines
  <2>3. SumUpTo(y)[top] = c * SumUpTo(ones)[top] + 0 * SumUpTo(ones)[top]
    BY <1>2, <2>2, SumLinear
  <2> QED
    BY <1>2, <1>7, <2>3 DEF ones
<1>10. sxy = c * sx
  <2>1. \A l \in W : xy[l] = c * x[l] + 0 * ones[l]
    BY <1>2, <1>3, <1>4, <1>8 DEF xy
  <2>2. Combines(xy, c, x, 0, ones)
    BY <1>2, <1>3, <1>5, <1>8, <2>1 DEF Combines
  <2>3. SumUpTo(xy)[top] = c * SumUpTo(x)[top] + 0 * SumUpTo(ones)[top]
    BY <1>2, <2>2, SumLinear
  <2> QED
    BY <1>2, <1>6, <1>7, <2>3 DEF ones
<1>11. n * sxy - sx * sy = 0
  BY <1>2, <1>6, <1>9, <1>10
<1>12. at = c * den
  BY <1>2, <1>6, <1>9, <1>10
<1> HIDE DEF at, den
<1>13. Abs(at) = Abs(c) * den /\ Abs(c) \in Nat
  <2>1. \A d \in Nat \ {0} : (c < 0 => c * d < 0) /\ (c >= 0 => c * d >= 0) /\ -(c * d) = (-c) * d
    BY <1>2
  <2> QED
    BY <1>2, <1>6, <1>12, <2>1 DEF Abs
<1>14. g = den
  BY <1>6, <1>13, GcdOfMultiple
<1> HIDE DEF g
<1>15. at \div g = c /\ den \div g = 1
  BY <1>2, <1>6, <1>12, <1>14
<1>16. /\ line.slope = 0 /\ line.den = den /\ line.value = c /\ line.valueDen = 1
  BY <1>11, <1>15
<1> QED
  BY <1>1, <1>2, <1>6, <1>16 DEF c

-----------------------------------------------------------------------------
(* Lines fitted to any samples.  What Gcd computes divides both numbers,   *)
(* for every pair that is not of zeros.                                    *)
DividesBoth(g, a, b) == g \in Nat \ {0} /\ Divides(g, a) /\ Divides(g, b)

LEMMA GcdDivides ==
  ASSUME NEW a \in Nat, NEW b \in Nat \ {0}
  PROVE  DividesBoth(Gcd[<<a, b>>], a, b)
<1> DEFINE Good(c) == \A k \in Nat : k # 0 \/ c # 0 => DividesBoth(Gcd[<<k, c>>], k, c)
           S == {n \in Nat : \A c \in 0 .. n : Good(c)}
<1>1. \A k, c \in Nat : Gcd[<<k, c>>] = IF c = 0 THEN k ELSE Gcd[<<c, k % c>>]
  <2>1. ASSUME NEW G, G = Euclid(G)
        PROVE  \A k, c \in Nat : G[<<k, c>>] = IF c = 0 THEN k ELSE G[<<c, k % c>>]
    BY <2>1 DEF Euclid
  <2> QED
    BY <2>1, GcdIsEuclid
<1>2. Good(0)
  <2>1. \A k \in Nat : k = k * 1 /\ 0 = k * 0
    OBVIOUS
  <2> QED
    BY <1>1, <2>1 DEF DividesBoth, Divides
<1>3. ASSUME NEW n \in Nat, \A c \in 0 .. n : Good(c) PROVE Good(n + 1)
  <2>1. ASSUME NEW k \in Nat PROVE DividesBoth(Gcd[<<k, n + 1>>], k, n + 1)
    <3> DEFINE c == n + 1
               m == k % c
    <3>1. c \in Nat \ {0} /\ m \in 0 .. n
      OBVIOUS
    <3> HIDE DEF m, c
    <3>2. DividesBoth(Gcd[<<c, m>>], c, m)
      BY <1>3, <3>1
    <3>3. Gcd[<<k, c>>] = Gcd[<<c, m>>]
      BY <1>1, <3>1 DEF m
    <3> DEFINE g == Gcd[<<c, m>>]
    <3>4. g \in Nat \ {0} /\ Divides(g, c) /\ Divides(g, k % c)
      BY <3>2 DEF DividesBoth, m
    <3> HIDE DEF g
    <3>5. Divides(g, k)
      BY <3>1, <3>4, DivisorsOfRemainder
    <3> QED
      BY <3>3, <3>4, <3>5 DEF DividesBoth, g, c
  <2> QED
    BY <2>1
<1> HIDE DEF Good
<1>4. S = Nat
  <2>1. 0 \in S
    BY <1>2
  <2>2. ASSUME NEW n \in S PROVE n + 1 \in S
    <3>1. Good(n + 1)
      BY <1>3
    <3> QED
      BY <3>1
  <2> QED
    BY <2>1, <2>2, Induction
<1>5. Good(b)
  <2>1. b \in S
    BY <1>4
  <2> QED
    BY <2>1
<1> QED
  BY <1>5 DEF Good

(* So the fraction of two numbers has the value of its reduced form.       *)
LEMMA ReducedFraction ==
  ASSUME NEW a \in Int, NEW b \in Nat \ {0}
  PROVE  LET g == Gcd[<<Abs(a), b>>]
         IN  /\ g \in Nat \ {0}
             /\ a \div g \in Int /\ b \div g \in Nat \ {0}
             /\ a = (a \div g) * g /\ b = (b \div g) * g
<1> DEFINE g == Gcd[<<Abs(a), b>>]
<1>1. Abs(a) \in Nat /\ (a = Abs(a) \/ a = -Abs(a))
  BY DEF Abs
<1>2. g \in Nat \ {0} /\ Divides(g, Abs(a)) /\ Divides(g, b)
  BY <1>1, GcdDivides DEF DividesBoth
<1> HIDE DEF g
<1>3. PICK m \in Nat : Abs(a) = g * m
  BY <1>2 DEF Divides
<1>4. PICK k \in Nat : b = g * k
  BY <1>2 DEF Divides
<1>5. \E c \in Int : a = c * g
  <2>1. a = m * g \/ a = (-m) * g
    BY <1>1, <1>2, <1>3
  <2> QED
    BY <2>1
<1>6. PICK c \in Int : a = c * g
  BY <1>5
<1>7. a \div g = c
  BY <1>2, <1>6
<1>8. b \div g = k /\ b = k * g
  BY <1>2, <1>4
<1>9. k # 0
  BY <1>2, <1>8
<1> QED
  BY <1>2, <1>6, <1>7, <1>8, <1>9 DEF g

(* Numbers whose sum is zero have both signs, or are all zero.             *)
LEMMA SumOfZero ==
  ASSUME NEW N \in Nat, NEW W \in SUBSET (1 .. N), NEW r \in [W -> Int], SumUpTo(r)[Max(W)] = 0
  PROVE  /\ (\A j \in W : r[j] >= 0) => \A j \in W : r[j] = 0
         /\ (\A j \in W : r[j] <= 0) => \A j \in W : r[j] = 0
<1> DEFINE top == Max(W)
           neg == [j \in W |-> -r[j]]
<1>1. ASSUME NEW k \in W
      PROVE  W \in SUBSET Nat /\ k # 0 /\ top \in Nat /\ k <= top
  <2>1. top \in W /\ k <= top
    BY WindowCounts
  <2>2. W \in SUBSET Nat /\ k # 0
    OBVIOUS
  <2> QED
    BY <2>1, <2>2, Zenon
<1>2. ASSUME \A j \in W : r[j] >= 0, NEW k \in W, r[k] # 0 PROVE FALSE
  <2>1. r[k] >= 1
    BY <1>2
  <2>2. SumUpTo(r)[top] >= 1
    BY <1>1, <1>2, <2>1, SumPositive
  <2> QED
    BY <2>2
<1>3. ASSUME \A j \in W : r[j] <= 0, NEW k \in W, r[k] # 0 PROVE FALSE
  <2>1. neg \in [W -> Int] /\ neg[k] >= 1 /\ \A j \in W : neg[j] >= 0
    BY <1>3
  <2>2. \A j \in W : neg[j] = -1 * r[j] + 0 * r[j]
    OBVIOUS
  <2> HIDE DEF neg
  <2>3. SumUpTo(neg)[top] >= 1
    BY <1>1, <2>1, SumPositive
  <2>4. Combines(neg, -1, r, 0, r)
    BY <1>1, <2>1, <2>2 DEF Combines
  <2>5. SumUpTo(neg)[top] = -1 * SumUpTo(r)[top] + 0 * SumUpTo(r)[top]
    BY <1>1, <2>4, SumLinear
  <2> QED
    BY <2>3, <2>5
<1> QED
  BY <1>2, <1>3

(* Numbers that balance in sum and in moment change their sign twice: with *)
(* one change, from not negative to not positive, they are all zero.       *)
LEMMA OneCrossing ==
  ASSUME NEW N \in Nat, NEW W \in SUBSET (1 .. N), NEW x \in [W -> Int], NEW r \in [W -> Int],
         SumUpTo(r)[Max(W)] = 0, SumUpTo([j \in W |-> x[j] * r[j]])[Max(W)] = 0,
         NEW c \in Int,
         \A j \in W : (x[j] < c => r[j] >= 0) /\ (x[j] >= c => r[j] <= 0)
  PROVE  \A j \in W : r[j] = 0
<1> DEFINE top == Max(W)
           xr  == [j \in W |-> x[j] * r[j]]
           q   == [j \in W |-> (c - x[j]) * r[j]]
<1> SUFFICES ASSUME W # {} PROVE \A j \in W : r[j] = 0
  OBVIOUS
<1>1. W \in SUBSET Nat /\ top \in Nat
  <2>1. top \in W
    BY WindowCounts
  <2>2. W \in SUBSET Nat
    OBVIOUS
  <2> QED
    BY <2>1, <2>2, Zenon
<1>2. ASSUME NEW j \in W
      PROVE  /\ xr[j] \in Int /\ q[j] \in Int /\ q[j] = c * r[j] + (-1) * xr[j]
             /\ q[j] >= 0
             /\ q[j] = 0 => r[j] = 0 \/ x[j] >= c
  <2> DEFINE a == x[j]
             b == r[j]
  <2>1. a \in Int /\ b \in Int /\ q[j] = (c - a) * b /\ xr[j] = a * b
    OBVIOUS
  <2>2. (a < c => b >= 0) /\ (a >= c => b <= 0)
    OBVIOUS
  <2> HIDE DEF a, b, q, xr
  <2>3. a * b \in Int /\ (c - a) * b = c * b + (-1) * (a * b)
    BY <2>1
  <2>4. \A u, v \in Int : u >= 0 /\ v >= 0 => u * v >= 0
    OBVIOUS
  <2>5. \A u, v \in Int : u <= 0 /\ v <= 0 => u * v >= 0
    OBVIOUS
  <2>6. (c - a) * b >= 0
    <3>1. c - a \in Int /\ (a < c => c - a >= 0) /\ (a >= c => c - a <= 0)
      BY <2>1
    <3> QED
      BY <2>1, <2>2, <2>4, <2>5, <3>1
  <2>7. (c - a) * b = 0 => b = 0 \/ a >= c
    <3>1. \A u, v \in Int : u * v = 0 => u = 0 \/ v = 0
      OBVIOUS
    <3>2. (c - a) * b = 0 => c - a = 0 \/ b = 0
      BY <2>1, <3>1
    <3> QED
      BY <2>1, <3>2
  <2> QED
    BY <2>1, <2>3, <2>6, <2>7 DEF a, b
<1>3. xr \in [W -> Int] /\ q \in [W -> Int]
  BY <1>2
<1> HIDE DEF q, top
<1>4. SumUpTo(xr)[top] = 0
  BY DEF top
<1> HIDE DEF xr
<1>5. Combines(q, c, r, -1, xr)
  BY <1>1, <1>2, <1>3 DEF Combines
<1>6. SumUpTo(q)[top] = c * SumUpTo(r)[top] + (-1) * SumUpTo(xr)[top]
  BY <1>1, <1>5, SumLinear
<1>7. SumUpTo(q)[Max(W)] = 0
  BY <1>4, <1>6 DEF top
<1>8. \A j \in W : q[j] = 0
  BY <1>2, <1>3, <1>7, SumOfZero
<1>9. \A j \in W : r[j] <= 0
  BY <1>2, <1>8
<1> QED
  BY <1>9, SumOfZero

(* A fitted line: what its samples lie above it, times its denominator,    *)
(* balances in sum and in moment.                                          *)
Residuals(W, x, y, slope, at, den) == [j \in W |-> den * y[j] - at - slope * x[j]]

Fitted(N, W, x, y, slope, at, den) ==
  LET r == Residuals(W, x, y, slope, at, den)
  IN  /\ N \in Nat /\ W \in SUBSET (1 .. N) /\ x \in [W -> Int] /\ y \in [W -> Int]
      /\ slope \in Int /\ at \in Int /\ den \in Nat \ {0}
      /\ \A j, k \in W : j < k => x[j] < x[k]
      /\ \E j, k \in W : j < k
      /\ SumUpTo(r)[Max(W)] = 0
      /\ SumUpTo([j \in W |-> x[j] * r[j]])[Max(W)] = 0

LEMMA LineIsFitted ==
  ASSUME NEW N \in Nat, NEW W \in SUBSET (1 .. N), NEW rows, NEW i,
         rows[i].at \in Int, \A l \in W : rows[l].at \in Int /\ rows[l].v \in Int,
         \A j, k \in W : j < k => rows[j].at < rows[k].at,
         NEW first \in W, NEW second \in W, first < second
  PROVE  LET line == LineAtTransition(rows, W, i)
             x    == [l \in W |-> rows[l].at - rows[i].at]
             y    == [l \in W |-> rows[l].v - 120]
         IN  /\ line.value \in Int /\ line.valueDen \in Nat \ {0}
             /\ \E g \in Nat \ {0} :
                  /\ line.den = line.valueDen * g
                  /\ Fitted(N, W, x, y, line.slope, line.value * g, line.den)
<1> DEFINE x    == [l \in W |-> rows[l].at - rows[i].at]
           y    == [l \in W |-> rows[l].v - 120]
           xx   == [l \in W |-> x[l] * x[l]]
           xy   == [l \in W |-> x[l] * y[l]]
           n    == Cardinality(W)
           top  == Max(W)
           sx   == Sum(x)
           sy   == Sum(y)
           sxx  == Sum(xx)
           sxy  == Sum(xy)
           slope == n * sxy - sx * sy
           den  == n * sxx - sx * sx
           at   == sy * sxx - sx * sxy
           g    == Gcd[<<Abs(at), den>>]
           line == [slope |-> slope, den |-> den,
                    value |-> at \div g, valueDen |-> den \div g]
           r    == Residuals(W, x, y, slope, at, den)
           xr   == [l \in W |-> x[l] * r[l]]
           ones == Ones(W)
<1>1. LineAtTransition(rows, W, i) = line
  BY Zenon DEF LineAtTransition
<1>2. /\ W # {} /\ W \in SUBSET Nat
      /\ n \in Nat \ {0} /\ n = SumUpTo(Ones(W))[top] /\ top \in Nat
  <2>1. W # {} /\ W \in SUBSET Nat
    OBVIOUS
  <2>2. top \in W
    BY <2>1, WindowCounts
  <2>3. top \in Nat
    BY <2>1, <2>2, Zenon
  <2> QED
    BY <2>1, <2>3, WindowCounts
<1>3. /\ x \in [W -> Int] /\ y \in [W -> Int] /\ x[first] # x[second]
      /\ \A j, k \in W : j < k => x[j] < x[k]
  <2>1. /\ \A l \in W : x[l] = rows[l].at - rows[i].at /\ x[l] \in Int
        /\ \A l \in W : y[l] \in Int
    OBVIOUS
  <2>2. x \in [W -> Int] /\ y \in [W -> Int]
    BY <2>1
  <2> HIDE DEF x, y
  <2>3. ASSUME NEW j \in W, NEW k \in W, j < k PROVE x[j] < x[k]
    <3>1. rows[j].at < rows[k].at
      BY <2>3
    <3> QED
      BY <2>1, <3>1
  <2>4. x[first] < x[second] /\ x[first] \in Int
    BY <2>1, <2>3
  <2> QED
    BY <2>1, <2>2, <2>3, <2>4
<1> HIDE DEF x, y
<1>4. xx \in [W -> Int] /\ xy \in [W -> Int] /\ ones \in [W -> Int] /\ \A l \in W : ones[l] = 1
  BY <1>3 DEF Ones
<1>5. sx \in Int /\ sxx \in Int /\ den \in Nat \ {0}
  BY <1>3, DenominatorIsPositive
<1>6. /\ sx = SumUpTo(x)[top] /\ sy = SumUpTo(y)[top]
      /\ sxx = SumUpTo(xx)[top] /\ sxy = SumUpTo(xy)[top]
  <2>1. DOMAIN x = W /\ DOMAIN y = W /\ DOMAIN xy = W /\ DOMAIN xx = W
    BY <1>3, <1>4
  <2> HIDE DEF xx, xy
  <2> QED
    BY <2>1, Zenon DEF Sum
<1>7. sy \in Int /\ sxy \in Int
  <2>1. DOMAIN y = W /\ DOMAIN xy = W
    BY <1>3, <1>4
  <2>2. (\A l \in W : y[l] \in Int) /\ (\A l \in W : xy[l] \in Int)
    BY <1>3, <1>4
  <2> HIDE DEF top, sy, sxy, xy
  <2>3. SumUpTo(y)[top] \in Int /\ SumUpTo(xy)[top] \in Int
    BY <1>2, <2>1, <2>2, SumSteps
  <2> QED
    BY <1>6, <2>3
<1> HIDE DEF ones, n, top, sx, sy, sxx, sxy
<1>8. slope \in Int /\ at \in Int
  BY <1>2, <1>5, <1>7
<1> DEFINE s == slope
           d == den
           a == at
<1>9. s \in Int /\ d \in Nat \ {0} /\ a \in Int
  BY <1>5, <1>8
<1> HIDE DEF s, d, a
<1> DEFINE t == [l \in W |-> a * ones[l] + s * x[l]]
           u == [l \in W |-> a * x[l] + s * xx[l]]
<1>10. t \in [W -> Int] /\ u \in [W -> Int]
  <2>1. \A l \in W : a * ones[l] + s * x[l] \in Int /\ a * x[l] + s * xx[l] \in Int
    <3>1. \A p, q \in Int : a * p + s * q \in Int
      BY <1>9
    <3>2. \A l \in W : ones[l] \in Int /\ x[l] \in Int /\ xx[l] \in Int
      BY <1>3, <1>4
    <3> QED
      BY <3>1, <3>2
  <2> QED
    BY <2>1
<1>11. SumUpTo(t)[top] = a * n + s * sx /\ SumUpTo(u)[top] = a * sx + s * sxx
  <2>1. DOMAIN t = W /\ DOMAIN u = W
    OBVIOUS
  <2>2. \A l \in W : t[l] = a * ones[l] + s * x[l] /\ u[l] = a * x[l] + s * xx[l]
    OBVIOUS
  <2> HIDE DEF t, u, xx
  <2>3. Combines(t, a, ones, s, x) /\ Combines(u, a, x, s, xx)
    BY <1>2, <1>3, <1>4, <1>9, <1>10, <2>1, <2>2 DEF Combines
  <2>4. SumUpTo(t)[top] = a * SumUpTo(ones)[top] + s * SumUpTo(x)[top]
    BY <1>2, <2>3, SumLinear
  <2>5. SumUpTo(u)[top] = a * SumUpTo(x)[top] + s * SumUpTo(xx)[top]
    BY <1>2, <2>3, SumLinear
  <2> QED
    BY <1>2, <1>6, <2>4, <2>5 DEF ones
<1>12. ASSUME NEW l \in W
       PROVE  /\ r[l] \in Int /\ xr[l] \in Int
              /\ r[l] = d * y[l] + (-1) * t[l]
              /\ xr[l] = d * xy[l] + (-1) * u[l]
  <2>1. r[l] = d * y[l] - a - s * x[l] /\ xr[l] = x[l] * r[l] /\ xy[l] = x[l] * y[l] /\ xx[l] = x[l] * x[l]
    BY DEF Residuals, d, a, s
  <2>2. t[l] = a * ones[l] + s * x[l] /\ u[l] = a * x[l] + s * xx[l] /\ ones[l] = 1
    BY <1>4
  <2>3. x[l] \in Int /\ y[l] \in Int
    BY <1>3
  <2> HIDE DEF t, u, xx, xy, xr, r, at, den, slope
  <2> DEFINE p == x[l]
             q == y[l]
  <2>4. p \in Int /\ q \in Int
    BY <2>3
  <2> HIDE DEF p, q
  <2>5. /\ d * q - a - s * p \in Int /\ p * (d * q - a - s * p) \in Int
        /\ d * q - a - s * p = d * q + (-1) * (a * 1 + s * p)
    BY <1>9, <2>4
  <2>6. p * (d * q - a - s * p) = d * (p * q) + (-1) * (a * p + s * (p * p))
    <3>1. p * (d * q - a - s * p) = p * (d * q) - p * a - p * (s * p)
      BY <1>9, <2>4
    <3>2. p * (d * q) = d * (p * q) /\ p * a = a * p /\ p * (s * p) = s * (p * p)
      BY <1>9, <2>4
    <3>3. d * (p * q) \in Int /\ a * p \in Int /\ s * (p * p) \in Int
      BY <1>9, <2>4
    <3> QED
      BY <3>1, <3>2, <3>3
  <2>7. r[l] = d * q - a - s * p /\ xr[l] = p * (d * q - a - s * p)
    BY <2>1 DEF p, q
  <2>8. t[l] = a * 1 + s * p /\ u[l] = a * p + s * (p * p) /\ xy[l] = p * q
    BY <2>1, <2>2 DEF p, q
  <2> QED
    BY <2>5, <2>6, <2>7, <2>8 DEF q
<1>13. r \in [W -> Int] /\ xr \in [W -> Int] /\ DOMAIN r = W /\ DOMAIN xr = W
  <2>1. DOMAIN r = W
    BY DEF Residuals
  <2> QED
    BY <1>12, <2>1 DEF Residuals
<1> HIDE DEF r, xr, t, u, xx, xy, slope, den, at
<1>14. SumUpTo(r)[top] = d * sy + (-1) * (a * n + s * sx)
  <2>1. Combines(r, d, y, -1, t)
    BY <1>2, <1>3, <1>9, <1>10, <1>12, <1>13 DEF Combines
  <2>2. SumUpTo(r)[top] = d * SumUpTo(y)[top] + (-1) * SumUpTo(t)[top]
    BY <1>2, <2>1, SumLinear
  <2> QED
    BY <1>6, <1>11, <2>2
<1>15. SumUpTo(xr)[top] = d * sxy + (-1) * (a * sx + s * sxx)
  <2>1. Combines(xr, d, xy, -1, u)
    BY <1>2, <1>4, <1>9, <1>10, <1>12, <1>13 DEF Combines
  <2>2. SumUpTo(xr)[top] = d * SumUpTo(xy)[top] + (-1) * SumUpTo(u)[top]
    BY <1>2, <2>1, SumLinear
  <2> QED
    BY <1>6, <1>11, <2>2
<1>16. d * sy + (-1) * (a * n + s * sx) = 0
  <2>1. (n * sxx - sx * sx) * sy + (-1) * ((sy * sxx - sx * sxy) * n + (n * sxy - sx * sy) * sx) = 0
    BY <1>2, <1>5, <1>7
  <2> QED
    BY <2>1 DEF d, a, s, den, at, slope
<1>17. d * sxy + (-1) * (a * sx + s * sxx) = 0
  <2>1. (n * sxx - sx * sx) * sxy + (-1) * ((sy * sxx - sx * sxy) * sx + (n * sxy - sx * sy) * sxx) = 0
    BY <1>2, <1>5, <1>7
  <2> QED
    BY <2>1 DEF d, a, s, den, at, slope
<1>18. /\ g \in Nat \ {0} /\ line.value \in Int /\ line.valueDen \in Nat \ {0}
       /\ at = line.value * g /\ den = line.valueDen * g
  BY <1>5, <1>8, ReducedFraction
<1>19. Fitted(N, W, x, y, slope, at, den)
  <2>1. SumUpTo(r)[Max(W)] = 0 /\ SumUpTo([l \in W |-> x[l] * r[l]])[Max(W)] = 0
    BY <1>14, <1>15, <1>16, <1>17 DEF top, xr
  <2> QED
    BY <1>3, <1>5, <1>8, <2>1 DEF Fitted, r
<1>20. line.slope = slope /\ line.den = den
  OBVIOUS
<1> HIDE DEF g, line
<1>21. /\ line.value \in Int /\ line.valueDen \in Nat \ {0}
       /\ \E h \in Nat \ {0} :
            /\ line.den = line.valueDen * h
            /\ Fitted(N, W, x, y, line.slope, line.value * h, line.den)
  BY <1>18, <1>19, <1>20
<1> QED
  BY <1>1, <1>21, Zenon DEF x, y

LEMMA ResidualType ==
  ASSUME NEW N, NEW W, NEW x, NEW y, NEW slope, NEW at, NEW den,
         Fitted(N, W, x, y, slope, at, den)
  PROVE  LET r == Residuals(W, x, y, slope, at, den)
         IN  /\ r \in [W -> Int]
             /\ \A j \in W : r[j] = den * y[j] - at - slope * x[j]
<1> DEFINE r == Residuals(W, x, y, slope, at, den)
<1>1. /\ x \in [W -> Int] /\ y \in [W -> Int]
      /\ slope \in Int /\ at \in Int /\ den \in Nat \ {0}
  BY DEF Fitted
<1>2. /\ r = [j \in W |-> den * y[j] - at - slope * x[j]]
      /\ \A j \in W : r[j] = den * y[j] - at - slope * x[j]
  BY DEF Residuals
<1>3. \A j \in W : den * y[j] - at - slope * x[j] \in Int
  <2>1. \A p, q \in Int : den * p - at - slope * q \in Int
    BY <1>1
  <2>2. \A j \in W : x[j] \in Int /\ y[j] \in Int
    BY <1>1
  <2> QED
    BY <2>1, <2>2
<1> HIDE DEF r
<1> QED
  BY <1>2, <1>3 DEF r

(* What never rises has no rising line.                                    *)
LEMMA FallingLine ==
  ASSUME NEW N, NEW W, NEW x, NEW y, NEW slope, NEW at, NEW den,
         Fitted(N, W, x, y, slope, at, den),
         \A j, k \in W : j < k => y[j] >= y[k]
  PROVE  slope <= 0
<1> DEFINE r == Residuals(W, x, y, slope, at, den)
<1>1. /\ N \in Nat /\ W \in SUBSET (1 .. N) /\ x \in [W -> Int] /\ y \in [W -> Int]
      /\ slope \in Int /\ at \in Int /\ den \in Nat \ {0}
      /\ \A j, k \in W : j < k => x[j] < x[k]
      /\ SumUpTo(r)[Max(W)] = 0
      /\ SumUpTo([j \in W |-> x[j] * r[j]])[Max(W)] = 0
  BY DEF Fitted
<1>2. PICK first \in W, second \in W : first < second
  BY DEF Fitted
<1>3. r \in [W -> Int] /\ \A j \in W : r[j] = den * y[j] - at - slope * x[j]
  BY ResidualType
<1> HIDE DEF r
<1> SUFFICES ASSUME slope > 0 PROVE FALSE
  BY <1>1
<1>4. ASSUME NEW j \in W, NEW k \in W, j < k PROVE r[j] > r[k]
  <2>1. /\ x[j] \in Int /\ x[k] \in Int /\ y[j] \in Int /\ y[k] \in Int
        /\ x[j] < x[k] /\ y[k] <= y[j]
    BY <1>1, <1>4
  <2>2. \A a, b \in Int : a <= b => den * a <= den * b
    BY <1>1
  <2>3. \A a, b \in Int : a < b => slope * a < slope * b
    BY <1>1
  <2>4. den * y[k] <= den * y[j] /\ slope * x[j] < slope * x[k]
    BY <2>1, <2>2, <2>3
  <2>5. \A a \in Int : den * a \in Int /\ slope * a \in Int
    BY <1>1
  <2> QED
    BY <1>1, <1>3, <2>1, <2>4, <2>5
<1>5. \A j \in W : r[j] \in Int /\ j \in Nat
  BY <1>1, <1>3
<1>6. \A j \in W : r[j] = 0
  <2>1. CASE \A j \in W : r[j] >= 0
    BY <1>1, <1>3, <2>1, SumOfZero
  <2>2. CASE ~(\A j \in W : r[j] >= 0)
    <3> DEFINE below == {j \in W : r[j] < 0}
    <3>1. below # {} /\ below \in SUBSET Nat
      BY <1>5, <2>2
    <3>2. PICK k \in below : \A j \in below : k <= j
      BY <3>1, LeastNumber
    <3>3. k \in W /\ r[k] < 0 /\ x[k] \in Int
      BY <1>1, <3>2
    <3>4. ASSUME NEW j \in W
          PROVE  (x[j] < x[k] => r[j] >= 0) /\ (x[j] >= x[k] => r[j] <= 0)
      <4>1. CASE j < k
        <5>1. r[j] >= 0
          BY <1>5, <3>2, <3>3, <4>1
        <5>2. x[j] < x[k] /\ x[j] \in Int
          BY <1>1, <3>3, <4>1
        <5> QED
          BY <3>3, <5>1, <5>2
      <4>2. CASE j = k
        BY <1>5, <3>3, <4>2
      <4>3. CASE k < j
        <5>1. r[k] > r[j] /\ x[k] < x[j] /\ x[j] \in Int
          BY <1>1, <1>4, <3>3, <4>3
        <5> QED
          BY <1>5, <3>3, <5>1
      <4> QED
        BY <1>5, <3>3, <4>1, <4>2, <4>3
    <3> QED
      BY <1>1, <1>3, <3>3, <3>4, OneCrossing
  <2> QED
    BY <2>1, <2>2
<1> QED
  BY <1>2, <1>4, <1>6

(* A falling line is at the transition not below what follows it, and not  *)
(* above what precedes it.                                                 *)
LEMMA LineBefore ==
  ASSUME NEW N, NEW W, NEW x, NEW y, NEW slope, NEW at, NEW den,
         Fitted(N, W, x, y, slope, at, den), slope <= 0,
         NEW b \in Int, \A j \in W : x[j] >= 0 /\ y[j] >= b
  PROVE  at >= b * den
<1> DEFINE r == Residuals(W, x, y, slope, at, den)
<1>1. /\ N \in Nat /\ W \in SUBSET (1 .. N) /\ x \in [W -> Int] /\ y \in [W -> Int]
      /\ slope \in Int /\ at \in Int /\ den \in Nat \ {0}
      /\ SumUpTo(r)[Max(W)] = 0
  BY DEF Fitted
<1>2. W # {}
  BY DEF Fitted
<1>3. r \in [W -> Int] /\ \A j \in W : r[j] = den * y[j] - at - slope * x[j]
  BY ResidualType
<1> HIDE DEF r
<1> SUFFICES ASSUME at < b * den PROVE FALSE
  BY <1>1
<1>4. ASSUME NEW j \in W PROVE r[j] > 0
  <2>1. x[j] \in Int /\ y[j] \in Int /\ x[j] >= 0 /\ y[j] >= b
    BY <1>1
  <2>2. \A a \in Int : a >= b => den * a >= b * den
    BY <1>1
  <2>3. \A a \in Int : a >= 0 => slope * a <= 0
    BY <1>1
  <2>4. \A a \in Int : den * a \in Int /\ slope * a \in Int
    BY <1>1
  <2>5. den * y[j] >= b * den /\ slope * x[j] <= 0 /\ den * y[j] \in Int /\ slope * x[j] \in Int
    BY <2>1, <2>2, <2>3, <2>4
  <2> QED
    BY <1>1, <1>3, <2>5
<1>5. \A j \in W : r[j] \in Int
  BY <1>3
<1>6. \A j \in W : r[j] >= 0
  BY <1>4, <1>5
<1>7. \A j \in W : r[j] = 0
  BY <1>1, <1>3, <1>6, SumOfZero
<1> QED
  BY <1>2, <1>4, <1>7

LEMMA LineAfter ==
  ASSUME NEW N, NEW W, NEW x, NEW y, NEW slope, NEW at, NEW den,
         Fitted(N, W, x, y, slope, at, den), slope <= 0,
         NEW b \in Int, \A j \in W : x[j] <= 0 /\ y[j] <= b
  PROVE  at <= b * den
<1> DEFINE r == Residuals(W, x, y, slope, at, den)
<1>1. /\ N \in Nat /\ W \in SUBSET (1 .. N) /\ x \in [W -> Int] /\ y \in [W -> Int]
      /\ slope \in Int /\ at \in Int /\ den \in Nat \ {0}
      /\ SumUpTo(r)[Max(W)] = 0
  BY DEF Fitted
<1>2. W # {}
  BY DEF Fitted
<1>3. r \in [W -> Int] /\ \A j \in W : r[j] = den * y[j] - at - slope * x[j]
  BY ResidualType
<1> HIDE DEF r
<1> SUFFICES ASSUME at > b * den PROVE FALSE
  BY <1>1
<1>4. ASSUME NEW j \in W PROVE r[j] < 0
  <2>1. x[j] \in Int /\ y[j] \in Int /\ x[j] <= 0 /\ y[j] <= b
    BY <1>1
  <2>2. \A a \in Int : a <= b => den * a <= b * den
    BY <1>1
  <2>3. \A a \in Int : a <= 0 => slope * a >= 0
    BY <1>1
  <2>4. \A a \in Int : den * a \in Int /\ slope * a \in Int
    BY <1>1
  <2>5. den * y[j] <= b * den /\ slope * x[j] >= 0 /\ den * y[j] \in Int /\ slope * x[j] \in Int
    BY <2>1, <2>2, <2>3, <2>4
  <2> QED
    BY <1>1, <1>3, <2>5
<1>5. \A j \in W : r[j] \in Int
  BY <1>3
<1>6. \A j \in W : r[j] <= 0
  BY <1>4, <1>5
<1>7. \A j \in W : r[j] = 0
  BY <1>1, <1>3, <1>6, SumOfZero
<1> QED
  BY <1>2, <1>4, <1>7

(* n times what a line has at the transition, for samples of which one is  *)
(* above the others: the mean, and the slope times the distance.           *)
LEMMA LineOfMixture ==
  ASSUME NEW N, NEW W, NEW x, NEW y, NEW slope, NEW at, NEW den,
         Fitted(N, W, x, y, slope, at, den),
         NEW b \in Int, \A j \in W : y[j] >= b, NEW k \in W, y[k] >= b + 1
  PROVE  LET n  == Cardinality(W)
             sx == SumUpTo(x)[Max(W)]
         IN  sx \in Int /\ n * at >= n * (b * den) + den - slope * sx
<1> DEFINE r   == Residuals(W, x, y, slope, at, den)
           n   == Cardinality(W)
           top == Max(W)
           sx  == SumUpTo(x)[top]
           sy  == SumUpTo(y)[top]
           e   == [j \in W |-> y[j] - b]
           ones == Ones(W)
           t   == [j \in W |-> at * ones[j] + slope * x[j]]
<1>1. /\ N \in Nat /\ W \in SUBSET (1 .. N) /\ x \in [W -> Int] /\ y \in [W -> Int]
      /\ slope \in Int /\ at \in Int /\ den \in Nat \ {0}
      /\ SumUpTo(r)[Max(W)] = 0
  BY DEF Fitted
<1>2. r \in [W -> Int] /\ \A j \in W : r[j] = den * y[j] - at - slope * x[j]
  BY ResidualType
<1>3. /\ W \in SUBSET Nat /\ n \in Nat \ {0} /\ n = SumUpTo(Ones(W))[top] /\ top \in Nat
      /\ k # 0 /\ k <= top
  <2>1. W \in SUBSET Nat /\ W # {} /\ k # 0
    BY <1>1
  <2>2. top \in W /\ k <= top
    BY <1>1, <2>1, WindowCounts
  <2>3. top \in Nat
    BY <2>1, <2>2, Zenon
  <2> QED
    BY <1>1, <2>1, <2>2, <2>3, WindowCounts
<1>4. ones \in [W -> Int] /\ (\A j \in W : ones[j] = 1) /\ SumUpTo(ones)[top] = n
  BY <1>3 DEF Ones
<1> HIDE DEF r, n, top, ones
<1>5. sx \in Int /\ sy \in Int
  <2>1. DOMAIN x = W /\ DOMAIN y = W
    BY <1>1
  <2>2. (\A j \in W : x[j] \in Int) /\ (\A j \in W : y[j] \in Int)
    BY <1>1
  <2> QED
    BY <1>3, <2>1, <2>2, SumSteps
<1>6. e \in [W -> Int] /\ \A j \in W : e[j] >= 0 /\ e[j] = 1 * y[j] + (-b) * ones[j]
  <2>1. \A j \in W : y[j] \in Int /\ ones[j] = 1
    BY <1>1, <1>4
  <2> QED
    BY <2>1
<1>7. e[k] >= 1
  BY <1>1
<1>8. t \in [W -> Int]
  <2>1. \A p, q \in Int : at * p + slope * q \in Int
    BY <1>1
  <2>2. \A j \in W : ones[j] \in Int /\ x[j] \in Int
    BY <1>1, <1>4
  <2> QED
    BY <2>1, <2>2
<1>9. ASSUME NEW j \in W PROVE t[j] = at * ones[j] + slope * x[j] /\ r[j] = den * y[j] + (-1) * t[j]
  <2>1. t[j] = at * ones[j] + slope * x[j] /\ ones[j] = 1 /\ r[j] = den * y[j] - at - slope * x[j]
    BY <1>2, <1>4
  <2>2. \A p, q \in Int : den * p - at - slope * q = den * p + (-1) * (at * 1 + slope * q)
    BY <1>1
  <2>3. x[j] \in Int /\ y[j] \in Int
    BY <1>1
  <2> QED
    BY <2>1, <2>2, <2>3
<1> HIDE DEF e, t
<1>10. sy >= n * b + 1
  <2>1. SumUpTo(e)[top] >= 1
    BY <1>3, <1>6, <1>7, SumPositive
  <2>2. Combines(e, 1, y, -b, ones)
    BY <1>1, <1>3, <1>4, <1>6 DEF Combines
  <2>3. SumUpTo(e)[top] = 1 * SumUpTo(y)[top] + (-b) * SumUpTo(ones)[top]
    BY <1>3, <2>2, SumLinear
  <2> QED
    BY <1>3, <1>4, <1>5, <2>1, <2>3
<1>11. den * sy = at * n + slope * sx
  <2>1. Combines(t, at, ones, slope, x)
    BY <1>1, <1>3, <1>4, <1>8, <1>9 DEF Combines
  <2>2. SumUpTo(t)[top] = at * SumUpTo(ones)[top] + slope * SumUpTo(x)[top]
    BY <1>3, <2>1, SumLinear
  <2>3. Combines(r, den, y, -1, t)
    BY <1>1, <1>2, <1>3, <1>8, <1>9 DEF Combines
  <2>4. SumUpTo(r)[top] = den * SumUpTo(y)[top] + (-1) * SumUpTo(t)[top]
    BY <1>3, <2>3, SumLinear
  <2>5. 0 = den * sy + (-1) * (at * n + slope * sx)
    BY <1>1, <1>4, <2>2, <2>4 DEF top
  <2>6. den * sy \in Int /\ at * n + slope * sx \in Int
    BY <1>1, <1>3, <1>5
  <2> QED
    BY <2>5, <2>6
<1>12. den * sy >= den * (n * b + 1)
  <2>1. \A p, q \in Int : p >= q => den * p >= den * q
    BY <1>1
  <2>2. n * b + 1 \in Int
    BY <1>3
  <2> QED
    BY <1>5, <1>10, <2>1, <2>2
<1> HIDE DEF sx, sy
<1>13. n * at >= n * (b * den) + den - slope * sx
  <2>1. den * (n * b + 1) = n * (b * den) + den /\ at * n = n * at
    BY <1>1, <1>3
  <2>2. n * (b * den) + den \in Int /\ n * at \in Int /\ slope * sx \in Int
    BY <1>1, <1>3, <1>5
  <2>3. den * sy = n * at + slope * sx /\ den * sy >= n * (b * den) + den
    BY <1>11, <1>12, <2>1
  <2>4. n * (b * den) \in Int /\ den \in Int
    BY <1>1, <1>3
  <2>5. \A p, q, f, g \in Int : q + p >= f + g => q >= f + g - p
    OBVIOUS
  <2> QED
    BY <2>2, <2>3, <2>4, <2>5, Zenon
<1> QED
  BY <1>5, <1>13 DEF n, sx, top

(* A flat line cannot pass below all samples up to a time and above all    *)
(* samples from it on.                                                     *)
LEMMA NoCrossing ==
  ASSUME NEW N, NEW W, NEW x, NEW y, NEW slope, NEW at, NEW den,
         Fitted(N, W, x, y, slope, at, den),
         slope <= 0, NEW S \in Nat \ {0}, (-slope) * S <= den,
         NEW L \in Nat, \A j \in W : x[j] \in 0 .. L,
         NEW c \in Int, NEW u \in Int, NEW v \in Int,
         \A j \in W : (x[j] < c => y[j] >= u) /\ (x[j] >= c => y[j] <= v),
         at < u * den, S * at - L * den > S * (v * den)
  PROVE  FALSE
<1> DEFINE r == Residuals(W, x, y, slope, at, den)
<1>1. /\ N \in Nat /\ W \in SUBSET (1 .. N) /\ x \in [W -> Int] /\ y \in [W -> Int]
      /\ slope \in Int /\ at \in Int /\ den \in Nat \ {0}
      /\ SumUpTo(r)[Max(W)] = 0
      /\ SumUpTo([j \in W |-> x[j] * r[j]])[Max(W)] = 0
  BY DEF Fitted
<1>2. W # {}
  BY DEF Fitted
<1>3. r \in [W -> Int] /\ \A j \in W : r[j] = den * y[j] - at - slope * x[j]
  BY ResidualType
<1> HIDE DEF r
<1>4. ASSUME NEW j \in W PROVE (x[j] < c => r[j] > 0) /\ (x[j] >= c => r[j] < 0)
  <2> DEFINE a == x[j]
             b == y[j]
             m == -slope
  <2>1. /\ a \in Int /\ b \in Int /\ 0 <= a /\ a <= L
        /\ (a < c => b >= u) /\ (a >= c => b <= v)
    BY <1>1
  <2>2. m \in Nat /\ m * S <= den
    BY <1>1
  <2>3. r[j] = den * b - at + m * a
    <3>1. \A p \in Int : -(slope * p) = (-slope) * p /\ slope * p \in Int
      BY <1>1
    <3>2. den * b \in Int
      BY <1>1, <2>1
    <3> QED
      BY <1>1, <1>3, <2>1, <3>1, <3>2
  <2> HIDE DEF a, b, m
  <2>4. m * a >= 0 /\ m * a \in Int /\ den * b \in Int
    BY <1>1, <2>1, <2>2
  <2>5. CASE a < c
    <3>1. den * b >= u * den
      BY <1>1, <2>1, <2>5
    <3> QED
      BY <1>1, <2>1, <2>3, <2>4, <2>5, <3>1 DEF a
  <2>6. CASE a >= c
    <3>1. den * b <= v * den
      BY <1>1, <2>1, <2>6
    <3>2. S * (m * a) <= L * den
      <4>1. (m * S) * a <= den * a
        BY <1>1, <2>1, <2>2
      <4>2. den * a <= L * den
        BY <1>1, <2>1
      <4>3. (m * S) * a = S * (m * a) /\ S * (m * a) \in Int /\ den * a \in Int /\ L * den \in Int
        BY <1>1, <2>1, <2>2
      <4> QED
        BY <4>1, <4>2, <4>3
    <3>3. S * (den * b) <= S * (v * den)
      <4>1. \A p, q \in Int : p <= q => S * p <= S * q
        OBVIOUS
      <4>2. v * den \in Int
        BY <1>1
      <4> QED
        BY <2>4, <3>1, <4>1, <4>2
    <3>4. S * (den * b - at + m * a) < 0
      <4>1. S * (den * b - at + m * a) = S * (den * b) - S * at + S * (m * a)
        BY <1>1, <2>4
      <4>2. /\ S * (den * b) \in Int /\ S * at \in Int /\ S * (m * a) \in Int
            /\ L * den \in Int /\ S * (v * den) \in Int
        BY <1>1, <2>4
      <4> QED
        BY <3>2, <3>3, <4>1, <4>2
    <3>5. r[j] < 0
      <4>1. \A p \in Int : S * p < 0 => p < 0
        OBVIOUS
      <4>2. den * b - at + m * a \in Int
        BY <1>1, <2>4
      <4> QED
        BY <2>3, <3>4, <4>1, <4>2
    <3> QED
      BY <2>1, <2>6, <3>5 DEF a
  <2> QED
    BY <2>1, <2>5, <2>6
<1>5. \A j \in W : r[j] \in Int /\ x[j] \in Int
  BY <1>1, <1>3
<1>6. \A j \in W : (x[j] < c => r[j] >= 0) /\ (x[j] >= c => r[j] <= 0)
  BY <1>4, <1>5
<1>7. \A j \in W : r[j] = 0
  BY <1>1, <1>3, <1>6, OneCrossing
<1>8. PICK j \in W : TRUE
  BY <1>2
<1>9. (x[j] < c => 0 > 0) /\ (x[j] >= c => 0 < 0)
  BY <1>4, <1>7
<1> QED
  BY <1>5, <1>9

(* A drop that is underrated by more than a quantum would be more than the *)
(* flat line after it can hide: after samples of one voltage ...           *)
LEMMA HiddenByOne ==
  ASSUME NEW D1 \in Nat \ {0}, NEW D2 \in Nat \ {0}, NEW p \in Int, NEW V2 \in Int, NEW d \in Int,
         NEW S \in Nat \ {0}, NEW L \in Nat, L <= S,
         (p * D1) * D2 - V2 * D1 < (d - 1) * (D1 * D2)
  PROVE  S * V2 - L * D2 > S * ((p - d) * D2)
<1>1. V2 > (p - d + 1) * D2
  <2>1. D1 * V2 > D1 * ((p - d + 1) * D2)
    <3> DEFINE q == D1 * D2
               z == D1 * V2
    <3>1. q \in Int /\ z \in Int
      OBVIOUS
    <3>2. (p * D1) * D2 = p * q /\ V2 * D1 = z /\ D1 * ((p - d + 1) * D2) = (p - d + 1) * q
      OBVIOUS
    <3>3. p * q - z < (d - 1) * q
      BY <3>2
    <3>4. (p - d + 1) * q = p * q - (d - 1) * q /\ p * q \in Int /\ (d - 1) * q \in Int
      BY <3>1
    <3> HIDE DEF q
    <3>5. z > (p - d + 1) * q
      BY <3>1, <3>3, <3>4
    <3> QED
      BY <3>2, <3>5
  <2>2. \A a, b \in Int : D1 * a > D1 * b => a > b
    OBVIOUS
  <2>3. (p - d + 1) * D2 \in Int
    OBVIOUS
  <2> QED
    BY <2>1, <2>2, <2>3
<1>2. S * V2 > S * ((p - d + 1) * D2)
  <2>1. \A a, b \in Int : a > b => S * a > S * b
    OBVIOUS
  <2>2. (p - d + 1) * D2 \in Int
    OBVIOUS
  <2> QED
    BY <1>1, <2>1, <2>2
<1>3. S * ((p - d + 1) * D2) = S * ((p - d) * D2) + S * D2
  OBVIOUS
<1>4. L * D2 <= S * D2
  OBVIOUS
<1>5. S * V2 \in Int /\ L * D2 \in Int /\ S * D2 \in Int /\ S * ((p - d) * D2) \in Int
  OBVIOUS
<1> DEFINE a == S * V2
           b == L * D2
           e == S * D2
           f == S * ((p - d) * D2)
<1>6. a > f + e /\ b <= e
  BY <1>2, <1>3, <1>4
<1> HIDE DEF a, b, e, f
<1>7. a - b > f
  BY <1>5, <1>6 DEF a, b, e, f
<1> QED
  BY <1>7, Zenon DEF a, b, f

(* ... and after a mixture of n samples, at distances that sum up to -sx.  *)
LEMMA HiddenByTwo ==
  ASSUME NEW D1 \in Nat \ {0}, NEW D2 \in Nat \ {0}, NEW V1 \in Int, NEW V2 \in Int, NEW d \in Int,
         NEW S \in Nat \ {0}, NEW L \in Nat, NEW n \in Nat \ {0}, NEW sx \in Int, NEW b \in Int,
         V1 * D2 - V2 * D1 < (d - 1) * (D1 * D2),
         (n * S) * V1 >= D1 * (b * (n * S) + S + sx),
         n * L - sx <= (n + 1) * S
  PROVE  S * V2 - L * D2 > S * ((b - d) * D2)
<1> DEFINE m == n * S
           q == b * m + S + sx
<1>1. m \in Nat \ {0} /\ q \in Int
  OBVIOUS
<1>2. m * (V2 * D1) > (m * V1) * D2 - m * ((d - 1) * (D1 * D2))
  <2>1. V2 * D1 > V1 * D2 - (d - 1) * (D1 * D2)
    <3>1. V1 * D2 \in Int /\ V2 * D1 \in Int /\ (d - 1) * (D1 * D2) \in Int
      OBVIOUS
    <3>2. \A x, y, z \in Int : x - y < z => y > x - z
      OBVIOUS
    <3> QED
      BY <3>1, <3>2
  <2>2. \A x, y \in Int : x > y => m * x > m * y
    BY <1>1
  <2>3. V1 * D2 - (d - 1) * (D1 * D2) \in Int /\ V2 * D1 \in Int
    OBVIOUS
  <2> HIDE DEF m
  <2>4. m * (V2 * D1) > m * (V1 * D2 - (d - 1) * (D1 * D2))
    BY <2>1, <2>2, <2>3
  <2>5. m * (V1 * D2 - (d - 1) * (D1 * D2)) = (m * V1) * D2 - m * ((d - 1) * (D1 * D2))
    BY <1>1
  <2> QED
    BY <2>4, <2>5
<1>3. (m * V1) * D2 >= (D1 * q) * D2
  <2>1. m * V1 >= D1 * q
    OBVIOUS
  <2>2. \A x, y \in Int : x >= y => x * D2 >= y * D2
    OBVIOUS
  <2>3. m * V1 \in Int /\ D1 * q \in Int
    BY <1>1
  <2> HIDE DEF m, q
  <2> QED
    BY <2>1, <2>2, <2>3
<1> HIDE DEF m, q
<1>4. D1 * (m * V2) > D1 * (D2 * (q - m * (d - 1)))
  <2>1. m * (V2 * D1) = D1 * (m * V2) /\ D1 * (m * V2) \in Int
    BY <1>1
  <2>2. (D1 * q) * D2 - m * ((d - 1) * (D1 * D2)) = D1 * (D2 * (q - m * (d - 1)))
    BY <1>1
  <2>3. /\ (m * V1) * D2 \in Int /\ (D1 * q) * D2 \in Int /\ m * ((d - 1) * (D1 * D2)) \in Int
    BY <1>1
  <2>4. \A v, x, y, z \in Int : v > x - z /\ x >= y => v > y - z
    OBVIOUS
  <2>5. D1 * (m * V2) > (D1 * q) * D2 - m * ((d - 1) * (D1 * D2))
    BY <1>2, <1>3, <2>1, <2>3, <2>4
  <2> QED
    BY <2>2, <2>5
<1>5. m * V2 > D2 * (q - m * (d - 1))
  <2>1. \A x, y \in Int : D1 * x > D1 * y => x > y
    OBVIOUS
  <2>2. m * V2 \in Int /\ D2 * (q - m * (d - 1)) \in Int
    BY <1>1
  <2> QED
    BY <1>4, <2>1, <2>2
<1>6. D2 * (n * L) <= D2 * (m + S + sx)
  <2>1. n * L <= m + S + sx
    <3>1. (n + 1) * S = m + S /\ n * L \in Int /\ m \in Int
      BY DEF m
    <3>2. n * L - sx <= m + S
      BY <3>1
    <3> QED
      BY <3>1, <3>2
  <2>2. \A x, y \in Int : x <= y => D2 * x <= D2 * y
    OBVIOUS
  <2>3. n * L \in Int /\ m + S + sx \in Int
    BY <1>1
  <2> QED
    BY <2>1, <2>2, <2>3
<1>7. m * V2 - D2 * (n * L) > D2 * (q - m * (d - 1)) - D2 * (m + S + sx)
  <2>1. \A v, x, y, z \in Int : v > x /\ y <= z => v - y > x - z
    OBVIOUS
  <2>2. /\ m * V2 \in Int /\ D2 * (q - m * (d - 1)) \in Int
        /\ D2 * (n * L) \in Int /\ D2 * (m + S + sx) \in Int
    BY <1>1
  <2> QED
    BY <1>5, <1>6, <2>1, <2>2
<1>8. D2 * (q - m * (d - 1)) - D2 * (m + S + sx) = n * (S * ((b - d) * D2))
  <2>1. q - m * (d - 1) - (m + S + sx) = (b - d) * m
    <3>1. q - m * (d - 1) = q - (m * d - m)
      BY <1>1
    <3>2. (b - d) * m = b * m - m * d /\ b * m \in Int /\ m * d \in Int
      BY <1>1
    <3> QED
      BY <1>1, <3>1, <3>2 DEF q
  <2>2. D2 * (q - m * (d - 1)) - D2 * (m + S + sx) = D2 * (q - m * (d - 1) - (m + S + sx))
    BY <1>1
  <2>3. D2 * ((b - d) * m) = n * (S * ((b - d) * D2))
    BY DEF m
  <2> QED
    BY <2>1, <2>2, <2>3
<1>9. m * V2 - D2 * (n * L) = n * (S * V2 - L * D2)
  BY DEF m
<1> DEFINE x == S * V2 - L * D2
           y == S * ((b - d) * D2)
<1>10. x \in Int /\ y \in Int
  OBVIOUS
<1>11. n * x > n * y
  BY <1>7, <1>8, <1>9
<1> HIDE DEF x, y
<1>12. x > y
  BY <1>10, <1>11
<1> QED
  BY <1>12, Zenon DEF x, y

-----------------------------------------------------------------------------
(* The polls of an outage, and the rows that the extraction uses.          *)
Time(s, i) == s.phase + (i - 1) * s.cadence

Used(s) == {i \in 1 .. Polls(s) : ~(i = s.oddAt /\ s.odd \in {"lost", "LB"})}

LEMMA SignalType ==
  ASSUME NEW s \in Signal
  PROVE  /\ s.base \in Nat /\ s.step \in Nat /\ s.drop \in Nat /\ s.rise \in Nat /\ s.fall \in Nat
         /\ s.lag \in Nat /\ s.droop \in Nat /\ s.length \in Nat /\ s.cadence \in Nat \ {0}
         /\ s.phase \in Nat /\ s.oddAt \in Nat \ {0} /\ s.ends \in BOOLEAN
         /\ s.odd \in {"none", "lost", "void", "LB", "CAL"}
<1>1. s \in [base : Nat, step : Nat, drop : Nat, rise : Nat, fall : Nat, lag : Nat, droop : Nat,
              length : Nat, cadence : Nat \ {0}, phase : Nat,
              odd : {"none", "lost", "void", "LB", "CAL"}, oddAt : Nat \ {0}, ends : BOOLEAN]
  BY DEF Signal
<1> QED
  BY <1>1

LEMMA TimesIncrease ==
  ASSUME NEW s \in Signal
  PROVE  /\ \A i \in Int : Time(s, i) \in Int
         /\ \A i \in Nat \ {0} : Time(s, i) \in Nat
         /\ \A i, j \in Int : i < j => Time(s, j) - Time(s, i) >= j - i
         /\ \A i \in Int : Time(s, i + 1) = Time(s, i) + s.cadence
<1> DEFINE c == s.cadence
           p == s.phase
<1>1. c \in Nat \ {0} /\ p \in Nat
  BY SignalType
<1> HIDE DEF c, p
<1>2. \A i \in Int : p + (i - 1) * c \in Int /\ p + (i + 1 - 1) * c = p + (i - 1) * c + c
  BY <1>1
<1>3. \A i \in Nat \ {0} : p + (i - 1) * c \in Nat
  BY <1>1
<1>4. ASSUME NEW i \in Int, NEW j \in Int, i < j
      PROVE  (p + (j - 1) * c) - (p + (i - 1) * c) >= j - i
  <2>1. (p + (j - 1) * c) - (p + (i - 1) * c) = (j - i) * c
    BY <1>1
  <2>2. \A d \in Nat : d * c >= d
    BY <1>1
  <2> QED
    BY <1>1, <1>4, <2>1, <2>2
<1>5. \A i \in Int : Time(s, i) = p + (i - 1) * c
  BY DEF Time, c, p
<1>6. \A i \in Int : Time(s, i + 1) = Time(s, i) + c
  <2>1. \A i \in Int : i + 1 \in Int
    OBVIOUS
  <2> QED
    BY <1>2, <1>5, <2>1
<1> QED
  BY <1>2, <1>3, <1>4, <1>5, <1>6 DEF c

LEMMA PollsAreInTheOutage ==
  ASSUME NEW s \in Signal
  PROVE  /\ Polls(s) \in Int
         /\ \A i \in Nat \ {0} : i \in 1 .. Polls(s) <=> Time(s, i) <= s.length
<1> DEFINE c == s.cadence
           d == s.length - s.phase
           q == d \div c
<1>1. c \in Nat \ {0} /\ d \in Int /\ s.phase \in Nat /\ s.length \in Nat
  BY SignalType
<1>2. q \in Int /\ q * c <= d /\ d < (q + 1) * c
  <2> HIDE DEF c, d
  <2> QED
    BY <1>1
<1>3. Polls(s) = q + 1
  BY DEF Polls
<1> HIDE DEF q, c
<1>4. ASSUME NEW i \in Nat \ {0}
      PROVE  i <= q + 1 <=> (i - 1) * c <= d
  <2> HIDE DEF d
  <2>1. \A x, y \in Int : x <= y => x * c <= y * c
    BY <1>1
  <2>2. i - 1 <= q => (i - 1) * c <= q * c
    BY <1>2, <2>1
  <2>3. q + 1 <= i - 1 => (q + 1) * c <= (i - 1) * c
    BY <1>2, <2>1
  <2>4. q * c \in Int /\ (q + 1) * c \in Int /\ (i - 1) * c \in Int
    BY <1>1, <1>2
  <2> QED
    BY <1>1, <1>2, <2>2, <2>3, <2>4
<1>5. ASSUME NEW i \in Nat \ {0}
      PROVE  (i - 1) * c <= d <=> Time(s, i) <= s.length
  BY <1>1 DEF Time, c
<1> QED
  BY <1>2, <1>3, <1>4, <1>5

(* The rows that are used are all polls but a lost one or one with LB, if  *)
(* the outage is seen to end, has no void row and no CAL, and three polls. *)
LEMMA EventIsUsed ==
  ASSUME NEW s \in Signal
  PROVE  NaturalEvent(Rows(s)) =
           IF /\ s.ends
              /\ ~(s.odd \in {"void", "CAL"} /\ s.oddAt \in 1 .. Polls(s))
              /\ Cardinality(Used(s)) >= 3
           THEN Used(s) ELSE {}
<1> DEFINE rows      == Rows(s)
           P         == Polls(s)
           polled    == {i \in 1 .. P : ~Lost(s, i)}
           D         == {0} \cup polled \cup (IF s.ends THEN {P + 1} ELSE {})
           onBattery == {i \in DOMAIN rows : IsOb(rows[i])}
           start     == Min(onBattery)
           after     == {i \in DOMAIN rows : i > start /\ ~IsOb(rows[i])}
           run       == {i \in DOMAIN rows : start <= i /\ i < Min(after)}
           event     == {i \in run : Usable(rows[i])}
           cond      == /\ onBattery # {} /\ after # {}
                        /\ "OL" \in rows[Min(after)].status
                        /\ \A i \in run : "CAL" \notin rows[i].status
                        /\ \A i \in event : rows[i].valid
                        /\ Cardinality(event) >= 3
<1>1. NaturalEvent(rows) = IF cond THEN event ELSE {}
  BY Zenon DEF NaturalEvent
<1>2. P \in Int /\ s.ends \in BOOLEAN /\ s.oddAt \in Nat \ {0}
  BY SignalType, PollsAreInTheOutage
<1>3. DOMAIN rows = D /\ \A i \in D : rows[i] = Row(s, i)
  BY Zenon DEF Rows
<1>4. ASSUME NEW i \in D
      PROVE  /\ rows[i].status = IF i \notin 1 .. P THEN {"OL"}
                                 ELSE IF i = s.oddAt /\ s.odd \in {"LB", "CAL"} THEN {"OB", s.odd} ELSE {"OB"}
             /\ rows[i].valid <=> ~(i = s.oddAt /\ s.odd = "void")
  <2>1. rows[i] = Row(s, i)
    BY <1>3, Zenon
  <2> HIDE DEF rows, D
  <2>2. Row(s, i).status = IF i \notin 1 .. P THEN {"OL"}
                           ELSE IF i = s.oddAt /\ s.odd \in {"LB", "CAL"} THEN {"OB", s.odd} ELSE {"OB"}
    <3> DEFINE status == IF i \notin 1 .. P THEN {"OL"}
                         ELSE IF i = s.oddAt /\ s.odd \in {"LB", "CAL"} THEN {"OB", s.odd} ELSE {"OB"}
               t     == s.phase + (i - 1) * s.cadence
               valid == ~(i = s.oddAt /\ s.odd = "void")
    <3>1. Row(s, i) = [at |-> t, v |-> Voltage(s, t), load |-> Load(s, t), status |-> status, valid |-> valid]
      BY Zenon DEF Row
    <3> HIDE DEF status, t, valid
    <3>2. Row(s, i).status = status
      BY <3>1
    <3> QED
      BY <3>2 DEF status
  <2>3. Row(s, i).valid <=> ~(i = s.oddAt /\ s.odd = "void")
    BY Zenon DEF Row
  <2> QED
    BY <2>1, <2>2, <2>3, Zenon
<1>5. \A i \in D : IsOb(rows[i]) <=> i \in 1 .. P
  BY <1>4 DEF IsOb
<1>6. \A i \in D : i \in 1 .. P <=> i \in polled
  BY <1>2
<1> HIDE DEF rows, P
<1>7. onBattery = polled
  BY <1>3, <1>5, <1>6
<1>8. CASE polled = {}
  <2>1. ~cond
    BY <1>7, <1>8, Zenon
  <2>2. Used(s) = {}
    BY <1>8 DEF Used, Lost, P
  <2> QED
    BY <1>1, <2>1, <2>2, Zenon DEF rows
<1>9. CASE polled # {}
  <2>1. start \in polled /\ \A i \in polled : start <= i
    <3>1. polled \in SUBSET Nat
      OBVIOUS
    <3> QED
      BY <1>7, <1>9, <3>1, MinIsLeast
  <2>2. after = IF s.ends THEN {P + 1} ELSE {}
    <3>1. start \in 1 .. P
      BY <2>1
    <3> HIDE DEF start
    <3>2. \A i \in D : (i > start /\ ~IsOb(rows[i])) <=> s.ends /\ i = P + 1
      BY <1>2, <1>5, <3>1
    <3>3. \A i \in after : s.ends /\ i = P + 1
      BY <1>3, <3>2
    <3>4. s.ends => P + 1 \in after
      BY <1>3, <3>2
    <3> HIDE DEF after, D, polled
    <3> QED
      BY <3>3, <3>4
  <2>3. CASE ~s.ends
    BY <1>1, <2>2, <2>3, Zenon DEF rows
  <2>4. CASE s.ends
    <3>1. Min(after) = P + 1
      <4>0. P + 1 \in Nat
        BY <1>2, <2>1
      <4>1. after = {P + 1}
        BY <2>2, <2>4
      <4> HIDE DEF after
      <4>2. \A x \in after : x = P + 1
        BY <4>1
      <4>3. after \in SUBSET Nat /\ after # {}
        BY <4>0, <4>1
      <4> QED
        BY <4>2, <4>3, MinIsLeast
    <3>2. run = polled
      <4> HIDE DEF after, start
      <4>1. \A i \in D : (start <= i /\ i < P + 1) <=> i \in polled
        BY <1>2, <2>1
      <4>2. polled \subseteq D
        OBVIOUS
      <4>3. run = {i \in D : start <= i /\ i < P + 1}
        BY <1>3, <3>1, Zenon
      <4> HIDE DEF D, polled, run
      <4> QED
        BY <4>1, <4>2, <4>3, Zenon
    <3>3. event = Used(s)
      <4>1. event = {i \in polled : Usable(rows[i])}
        BY <3>2, Zenon
      <4>2. \A i \in polled : i \in D /\ i \in 1 .. P
        OBVIOUS
      <4> HIDE DEF event
      <4>3. \A i \in polled : Usable(rows[i]) <=> ~(i = s.oddAt /\ s.odd = "LB")
        BY <1>4, <4>2 DEF Usable
      <4>4. \A i \in 1 .. P : i \in polled <=> ~(i = s.oddAt /\ s.odd = "lost")
        BY DEF Lost
      <4>5. \A i \in event : i \in 1 .. P /\ ~(i = s.oddAt /\ s.odd \in {"lost", "LB"})
        BY <4>1, <4>2, <4>3, <4>4
      <4>6. \A i \in 1 .. P : ~(i = s.oddAt /\ s.odd \in {"lost", "LB"}) => i \in event
        BY <4>1, <4>2, <4>3, <4>4
      <4> HIDE DEF polled
      <4> QED
        BY <4>5, <4>6, Zenon DEF Used, P
    <3>4. "OL" \in rows[Min(after)].status
      <4>1. P + 1 \in D /\ P + 1 \notin 1 .. P
        BY <1>2, <2>4
      <4> HIDE DEF after
      <4> QED
        BY <1>4, <3>1, <4>1
    <3>5. (\A i \in run : "CAL" \notin rows[i].status) <=> ~(s.odd = "CAL" /\ s.oddAt \in 1 .. P)
      <4>1. \A i \in polled : i \in D /\ i \in 1 .. P
        OBVIOUS
      <4>2. \A i \in polled : "CAL" \in rows[i].status <=> i = s.oddAt /\ s.odd = "CAL"
        BY <1>4, <4>1
      <4>3. s.odd = "CAL" /\ s.oddAt \in 1 .. P => s.oddAt \in polled
        BY DEF Lost
      <4> HIDE DEF run
      <4> QED
        BY <3>2, <4>1, <4>2, <4>3
    <3>6. (\A i \in event : rows[i].valid) <=> ~(s.odd = "void" /\ s.oddAt \in 1 .. P)
      <4>1. \A i \in Used(s) : i \in D /\ i \in 1 .. P
        BY DEF Used, Lost, P
      <4>2. \A i \in Used(s) : ~rows[i].valid <=> i = s.oddAt /\ s.odd = "void"
        BY <1>4, <4>1
      <4>3. s.odd = "void" /\ s.oddAt \in 1 .. P => s.oddAt \in Used(s)
        BY DEF Used, P
      <4> HIDE DEF event
      <4> QED
        BY <3>3, <4>1, <4>2, <4>3
    <3>7. onBattery # {} /\ after # {}
      <4> HIDE DEF after, onBattery
      <4> QED
        BY <1>7, <1>9, <2>2, <2>4
    <3>8. cond <=> /\ ~(s.odd \in {"void", "CAL"} /\ s.oddAt \in 1 .. P)
                   /\ Cardinality(Used(s)) >= 3
      <4> HIDE DEF after, onBattery, run, event
      <4> QED
        BY <3>3, <3>4, <3>5, <3>6, <3>7
    <3> HIDE DEF cond, event
    <3> QED
      BY <1>1, <2>4, <3>3, <3>8, Zenon DEF rows, P
  <2> QED
    BY <2>3, <2>4
<1> QED
  BY <1>8, <1>9

LEMMA UsedPolls ==
  ASSUME NEW s \in Signal, Used(s) # {}
  PROVE  /\ Polls(s) \in Nat \ {0} /\ Used(s) \in SUBSET (1 .. Polls(s))
         /\ Used(s) \in SUBSET (Nat \ {0})
         /\ Min(Used(s)) \in Used(s) /\ Max(Used(s)) \in Used(s)
         /\ \A l \in Used(s) : Min(Used(s)) <= l /\ l <= Max(Used(s))
<1>1. Used(s) \in SUBSET (1 .. Polls(s))
  BY DEF Used
<1>2. Polls(s) \in Nat \ {0}
  BY <1>1, PollsAreInTheOutage
<1> DEFINE E == Used(s)
<1> HIDE DEF E
<1>3. E \in SUBSET (1 .. Polls(s)) /\ E # {}
  BY <1>1 DEF E
<1>4. E \in SUBSET (Nat \ {0}) /\ E \in SUBSET Nat /\ \A l \in E : l <= Polls(s)
  BY <1>2, <1>3
<1>5. Min(E) \in E /\ \A l \in E : Min(E) <= l
  BY <1>3, <1>4, MinIsLeast
<1>6. Max(E) \in E /\ \A l \in E : l <= Max(E)
  <2>1. Polls(s) \in Nat
    BY <1>2
  <2> QED
    BY <1>3, <1>4, <2>1, MaxIsGreatest
<1> QED
  BY <1>2, <1>3, <1>4, <1>5, <1>6, Zenon DEF E

LEMMA RowsOfUsed ==
  ASSUME NEW s \in Signal, NEW l \in Used(s)
  PROVE  /\ Rows(s)[l].at = Time(s, l)
         /\ Rows(s)[l].load = Load(s, Time(s, l))
         /\ Rows(s)[l].v = Voltage(s, Time(s, l))
<1> DEFINE D == {0} \cup {i \in 1 .. Polls(s) : ~Lost(s, i)} \cup (IF s.ends THEN {Polls(s) + 1} ELSE {})
<1>1. l \in D
  BY DEF Used, Lost
<1>2. Rows(s) = [i \in D |-> Row(s, i)]
  BY Zenon DEF Rows
<1> HIDE DEF D
<1>3. Rows(s)[l] = Row(s, l)
  BY <1>1, <1>2, Zenon
<1> DEFINE t      == Time(s, l)
           v      == Voltage(s, t)
           load   == Load(s, t)
           status == IF l \notin 1 .. Polls(s) THEN {"OL"}
                     ELSE IF l = s.oddAt /\ s.odd \in {"LB", "CAL"} THEN {"OB", s.odd} ELSE {"OB"}
           valid  == ~(l = s.oddAt /\ s.odd = "void")
<1>4. Row(s, l) = [at |-> t, v |-> v, load |-> load, status |-> status, valid |-> valid]
  BY Zenon DEF Row, Time
<1> HIDE DEF t, v, load, status, valid
<1> QED
  BY <1>3, <1>4 DEF t, v, load

LEMMA LoadsOfUsed ==
  ASSUME NEW s \in Signal, NEW l \in Used(s)
  PROVE  /\ Rows(s)[l].load \in {s.base, s.base + s.step}
         /\ High(s, Time(s, l)) => Rows(s)[l].load = s.base + s.step
         /\ ~High(s, Time(s, l)) => Rows(s)[l].load = s.base
BY RowsOfUsed DEF Load

(* A voltage that neither lags nor droops: two plateaus. *)
Prompt(s) == s.lag = 0 /\ s.droop > s.length

LEMMA TwoPlateaus ==
  ASSUME NEW s \in Signal, Prompt(s), NEW l \in Used(s)
  PROVE  LET t == Time(s, l)
             b == s.base
             u == s.step
             d == s.drop
         IN  /\ Rows(s)[l].load \in {b, b + u}
             /\ High(s, t) => Rows(s)[l].load = b + u /\ Rows(s)[l].v = 130 - d
             /\ ~High(s, t) => Rows(s)[l].load = b /\ Rows(s)[l].v = 130
<1>1. l \in Nat \ {0} /\ l \in 1 .. Polls(s)
  BY UsedPolls
<1>2. Time(s, l) \in Nat /\ Time(s, l) <= s.length
  BY <1>1, TimesIncrease, PollsAreInTheOutage
<1>3. s.lag = 0 /\ s.droop \in Nat /\ s.length \in Nat /\ s.drop \in Nat /\ s.base \in Nat /\ s.step \in Nat
  BY SignalType DEF Prompt
<1>4. Time(s, l) - s.lag = Time(s, l) /\ ~(Time(s, l) >= s.droop)
  BY <1>2, <1>3 DEF Prompt
<1>5. Voltage(s, Time(s, l)) = IF High(s, Time(s, l)) THEN 130 - s.drop ELSE 130
  BY <1>3, <1>4 DEF Voltage
<1> QED
  BY <1>3, <1>5, RowsOfUsed DEF Load

(* The windows around a transition at the poll i: the samples from first   *)
(* and up to last, which alone may lie outside the plateau's duration.     *)
Surrounds(s, E, i, pre, post, first, last) ==
  /\ E \in SUBSET (1 .. Polls(s)) /\ i \in E /\ first \in E /\ last \in E /\ first < i /\ i <= last
  /\ pre = {j \in E : first <= j /\ j < i} /\ post = {j \in E : i <= j /\ j <= last}
  /\ Min(pre) = first /\ Max(post) = last
  /\ first = Min(E) \/ Time(s, i) - Time(s, first) >= PlateauDuration
  /\ last = Max(E) \/ Time(s, last) - Time(s, i) >= PlateauDuration
  /\ \A j \in pre : j # first => Time(s, i) - Time(s, j) < PlateauDuration
  /\ \A j \in post : j # last => Time(s, j) - Time(s, i) < PlateauDuration

LEMMA WindowsSurround ==
  ASSUME NEW s \in Signal, NEW i \in Used(s), i # Min(Used(s))
  PROVE  LET w == PlateauWindow(Rows(s), Used(s), i)
         IN  Surrounds(s, Used(s), i, w.pre, w.post, Min(w.pre), Max(w.post))
<1> DEFINE E     == Used(s)
           T     == Rows(s)[i].at
           early == {j \in E : j < i /\ T - Rows(s)[j].at >= PlateauDuration}
           late  == {j \in E : i <= j /\ Rows(s)[j].at - T >= PlateauDuration}
           first == IF early = {} THEN Min(E) ELSE Max(early)
           last  == IF late = {} THEN Max(E) ELSE Min(late)
           pre   == {j \in E : first <= j /\ j < i}
           post  == {j \in E : i <= j /\ j <= last}
           w     == PlateauWindow(Rows(s), E, i)
<1>1. w = [pre |-> pre, post |-> post]
  BY Zenon DEF PlateauWindow, PlateauWindows
<1>2. /\ E # {} /\ Polls(s) \in Nat /\ E \in SUBSET (1 .. Polls(s)) /\ E \in SUBSET Nat
      /\ Min(E) \in E /\ Max(E) \in E /\ \A l \in E : Min(E) <= l /\ l <= Max(E)
      /\ i \in E /\ i # Min(E)
  BY UsedPolls
<1>3a. \A l \in E : l \in Nat
  BY <1>2, Zenon
<1>3. \A j \in E : Rows(s)[j].at = Time(s, j)
  BY RowsOfUsed
<1>4. \A j \in E : Time(s, j) \in Int
  BY <1>2, TimesIncrease
<1>5. PlateauDuration \in Nat \ {0}
  BY LoadStepAssumption
<1>6. \A j \in E : /\ j \in early <=> j < i /\ Time(s, i) - Time(s, j) >= PlateauDuration
                   /\ j \in late <=> i <= j /\ Time(s, j) - Time(s, i) >= PlateauDuration
  BY <1>2, <1>3
<1>7. early \in SUBSET E /\ late \in SUBSET E
  OBVIOUS
<1> HIDE DEF E, early, late
<1>8. /\ first \in E /\ first < i
      /\ first = Min(E) \/ Time(s, i) - Time(s, first) >= PlateauDuration
      /\ \A j \in E : first < j /\ j < i => Time(s, i) - Time(s, j) < PlateauDuration
  <2>1. CASE early = {}
    <3>1. first = Min(E)
      BY <2>1
    <3>2. \A j \in E : ~(j < i /\ Time(s, i) - Time(s, j) >= PlateauDuration)
      BY <1>6, <2>1
    <3>3. Min(E) \in E /\ Min(E) < i
      <4>1. Min(E) \in Nat /\ i \in Nat /\ Min(E) <= i /\ i # Min(E) /\ Min(E) \in E
        BY <1>2, <1>3a, Zenon
      <4> QED
        BY <4>1
    <3> HIDE DEF first
    <3> QED
      BY <1>2, <1>4, <1>5, <3>1, <3>2, <3>3
  <2>2. CASE early # {}
    <3>1. first = Max(early)
      BY <2>2
    <3>2. early \in SUBSET Nat /\ \A j \in early : j <= i
      BY <1>2, <1>6, <1>7
    <3>3. i \in Nat
      BY <1>2
    <3> HIDE DEF first
    <3>4. first \in early /\ \A j \in early : j <= first
      BY <2>2, <3>1, <3>2, <3>3, MaxIsGreatest
    <3> QED
      BY <1>2, <1>4, <1>5, <1>6, <1>7, <3>4
  <2> QED
    BY <2>1, <2>2
<1>9. /\ last \in E /\ i <= last
      /\ last = Max(E) \/ Time(s, last) - Time(s, i) >= PlateauDuration
      /\ \A j \in E : i <= j /\ j < last => Time(s, j) - Time(s, i) < PlateauDuration
  <2>1. CASE late = {}
    <3>1. last = Max(E)
      BY <2>1
    <3> QED
      BY <1>2, <1>4, <1>5, <1>6, <2>1, <3>1
  <2>2. CASE late # {}
    <3>1. last = Min(late)
      BY <2>2
    <3>2. late \in SUBSET Nat
      BY <1>2, <1>7
    <3> HIDE DEF last
    <3>3. last \in late /\ \A j \in late : last <= j
      BY <2>2, <3>1, <3>2, MinIsLeast
    <3> QED
      BY <1>2, <1>4, <1>5, <1>6, <1>7, <3>3
  <2> QED
    BY <2>1, <2>2
<1> HIDE DEF first, last
<1>10. Min(pre) = first
  <2>1. first \in pre /\ pre \in SUBSET Nat /\ \A j \in pre : first <= j
    <3>1. first \in Nat /\ first <= first
      BY <1>8, <1>3a
    <3> QED
      BY <1>8, <1>3a, <3>1, Zenon
  <2> HIDE DEF pre
  <2>2. Min(pre) \in pre /\ Min(pre) <= first
    BY <2>1, MinIsLeast
  <2>3. Min(pre) \in Nat /\ first \in Nat /\ first <= Min(pre)
    BY <2>1, <2>2, Zenon
  <2> QED
    BY <2>2, <2>3
<1>11. Max(post) = last
  <2>1. last \in post /\ post \in SUBSET Nat /\ (\A j \in post : j <= last) /\ last \in Nat
    <3>1. last \in Nat /\ last <= last
      BY <1>9, <1>3a
    <3> QED
      BY <1>9, <1>3a, <3>1, Zenon
  <2> HIDE DEF post
  <2>2. Max(post) \in post /\ last <= Max(post)
    BY <2>1, MaxIsGreatest
  <2>3. Max(post) \in Nat /\ Max(post) <= last
    BY <2>1, <2>2, Zenon
  <2> QED
    BY <2>1, <2>2, <2>3
<1>12. /\ \A j \in pre : j # first => Time(s, i) - Time(s, j) < PlateauDuration
       /\ \A j \in post : j # last => Time(s, j) - Time(s, i) < PlateauDuration
  BY <1>2, <1>8, <1>9
<1>13. Surrounds(s, E, i, pre, post, first, last)
  <2>1. pre = {j \in E : first <= j /\ j < i} /\ post = {j \in E : i <= j /\ j <= last}
    OBVIOUS
  <2> HIDE DEF pre, post
  <2> QED
    BY <1>2, <1>8, <1>9, <1>10, <1>11, <1>12, <2>1, Zenon DEF Surrounds
<1>14. w.pre = pre /\ w.post = post
  <2> HIDE DEF pre, post, w
  <2> QED
    BY <1>1
<1> HIDE DEF pre, post, w
<1>15. Surrounds(s, E, i, w.pre, w.post, Min(w.pre), Max(w.post))
  BY <1>10, <1>11, <1>13, <1>14
<1> QED
  BY <1>15 DEF w, E

LEMMA IsMin ==
  ASSUME NEW S \in SUBSET Nat, NEW m \in S, \A n \in S : m <= n
  PROVE  Min(S) = m
<1>1. Min(S) \in S /\ Min(S) <= m
  BY MinIsLeast
<1>2. Min(S) \in Nat /\ m \in Nat /\ m <= Min(S)
  BY <1>1, Zenon
<1> QED
  BY <1>1, <1>2

LEMMA IsMax ==
  ASSUME NEW S \in SUBSET Nat, NEW m \in S, \A n \in S : n <= m
  PROVE  Max(S) = m
<1>0. m \in Nat
  OBVIOUS
<1>1. Max(S) \in S /\ m <= Max(S)
  BY <1>0, MaxIsGreatest
<1>2. Max(S) \in Nat /\ Max(S) <= m
  BY <1>1, Zenon
<1> QED
  BY <1>0, <1>1, <1>2

(* A window spans at most one sample more than its seconds.                *)
LEMMA WindowSizes ==
  ASSUME NEW s \in Signal, NEW E, NEW i, NEW pre, NEW post, NEW first, NEW last,
         Surrounds(s, E, i, pre, post, first, last)
  PROVE  Cardinality(pre) <= PlateauDuration + 1 /\ Cardinality(post) <= PlateauDuration + 1
<1> DEFINE P == PlateauDuration
           A == (i - P + 1) .. (i - 1)
           B == i .. (i + P - 1)
<1>1. /\ P \in Nat \ {0} /\ i \in Nat /\ first \in Nat /\ last \in Nat
      /\ \A j \in E : j \in Nat
  BY LoadStepAssumption DEF Surrounds
<1>2. /\ IsFiniteSet(A) /\ Cardinality(A) = P - 1
      /\ IsFiniteSet(B) /\ Cardinality(B) = P
  BY <1>1, FS_Interval
<1>3. /\ IsFiniteSet(A \cup {first}) /\ Cardinality(A \cup {first}) <= P
      /\ IsFiniteSet(B \cup {last}) /\ Cardinality(B \cup {last}) <= P + 1
  <2> HIDE DEF A, B
  <2>1. ASSUME NEW T, NEW x, NEW n \in Nat, IsFiniteSet(T), Cardinality(T) = n
        PROVE  IsFiniteSet(T \cup {x}) /\ Cardinality(T \cup {x}) <= n + 1
    <3>1. /\ IsFiniteSet(T \cup {x})
          /\ Cardinality(T \cup {x}) = IF x \in T THEN Cardinality(T) ELSE Cardinality(T) + 1
      BY <2>1, FS_AddElement
    <3> QED
      BY <2>1, <3>1
  <2>2. P - 1 \in Nat /\ P - 1 + 1 = P
    BY <1>1
  <2>3. /\ IsFiniteSet(A \cup {first}) /\ Cardinality(A \cup {first}) <= P - 1 + 1
        /\ IsFiniteSet(B \cup {last}) /\ Cardinality(B \cup {last}) <= P + 1
    BY <1>1, <1>2, <2>1, <2>2
  <2> QED
    BY <2>2, <2>3
<1>4. /\ \A j \in pre : j \in E /\ j < i /\ (j # first => Time(s, i) - Time(s, j) < P)
      /\ \A j \in post : j \in E /\ i <= j /\ (j # last => Time(s, j) - Time(s, i) < P)
  BY DEF Surrounds
<1>5. ASSUME NEW j \in Nat
      PROVE  /\ j < i => Time(s, i) - Time(s, j) >= i - j
             /\ i < j => Time(s, j) - Time(s, i) >= j - i
             /\ Time(s, j) \in Int /\ Time(s, i) \in Int
  <2>1. i \in Int /\ j \in Int
    BY <1>1
  <2> QED
    BY <2>1, TimesIncrease, Zenon
<1>6. ASSUME NEW j \in pre, j # first PROVE j \in A
  BY <1>1, <1>4, <1>5, <1>6
<1>7. ASSUME NEW j \in post, j # last PROVE j \in B
  BY <1>1, <1>4, <1>5, <1>7
<1> HIDE DEF A, B
<1>8. pre \subseteq A \cup {first} /\ post \subseteq B \cup {last}
  BY <1>6, <1>7
<1>9. Cardinality(pre) <= Cardinality(A \cup {first}) /\ Cardinality(post) <= Cardinality(B \cup {last})
  BY <1>3, <1>8, FS_Subset
<1>10. Cardinality(pre) \in Nat /\ Cardinality(post) \in Nat /\ Cardinality(A \cup {first}) \in Nat /\ Cardinality(B \cup {last}) \in Nat
  BY <1>3, <1>8, FS_Subset, FS_CardinalityType
<1> QED
  BY <1>1, <1>3, <1>9, <1>10

(* No gap is too long from one poll to another. *)
Unbroken(s, first, last) ==
  \A j \in Used(s) : first <= j /\ j < last =>
    \E k \in Used(s) : Time(s, j) < Time(s, k) /\ Time(s, k) <= Time(s, j) + MaxGap

LEMMA TimesOfUsed ==
  ASSUME NEW s \in Signal
  PROVE  /\ \A j \in Used(s) : j \in Nat \ {0} /\ Time(s, j) \in Nat
         /\ \A j, k \in Used(s) : j < k <=> Time(s, j) < Time(s, k)
         /\ \A j, k \in Used(s) : j <= k <=> Time(s, j) <= Time(s, k)
<1>1. \A j \in Used(s) : j \in Nat \ {0}
  BY DEF Used
<1>2. \A j \in Used(s) : Time(s, j) \in Nat
  BY <1>1, TimesIncrease
<1>3. \A j, k \in Used(s) : j < k => Time(s, j) < Time(s, k)
  <2>1. \A j, k \in Used(s) : j < k => Time(s, k) - Time(s, j) >= k - j
    BY <1>1, TimesIncrease
  <2> QED
    BY <1>1, <1>2, <2>1
<1> QED
  BY <1>1, <1>2, <1>3

LEMMA ContiguousIsUnbroken ==
  ASSUME NEW s \in Signal, NEW i, NEW pre, NEW post, NEW first, NEW last,
         Surrounds(s, Used(s), i, pre, post, first, last)
  PROVE  Contiguous(Rows(s), pre \cup post, MaxGap) <=> Unbroken(s, first, last)
<1> DEFINE E == Used(s)
           W == pre \cup post
           at(j) == Time(s, j)
           later(j) == {k \in W : j < k}
<1>1. /\ \A j \in E : j \in Nat /\ at(j) \in Nat
      /\ \A j, k \in E : j < k <=> at(j) < at(k)
      /\ \A j, k \in E : j <= k <=> at(j) <= at(k)
  BY TimesOfUsed
<1>2. /\ first \in E /\ last \in E /\ i \in E /\ first < i /\ i <= last
      /\ pre = {j \in E : first <= j /\ j < i} /\ post = {j \in E : i <= j /\ j <= last}
  BY DEF Surrounds
<1>3. \A j \in E : j \in W <=> first <= j /\ j <= last
  BY <1>1, <1>2
<1>4. W \subseteq E /\ W \in SUBSET Nat
  BY <1>1, <1>2
<1>5. \A j \in E : Rows(s)[j].at = at(j)
  BY RowsOfUsed
<1>6. MaxGap \in Nat
  BY LoadStepAssumption
<1> HIDE DEF E, W, at
<1>7. ASSUME NEW j \in W, later(j) # {}
      PROVE  /\ Min(later(j)) \in W /\ j < Min(later(j))
             /\ \A k \in W : j < k => Min(later(j)) <= k
  <2> DEFINE L == later(j)
  <2>1. L \in SUBSET Nat /\ L # {}
    BY <1>4, <1>7
  <2>2. \A k \in L : k \in W /\ j < k
    OBVIOUS
  <2>3. \A k \in W : j < k => k \in L
    OBVIOUS
  <2> HIDE DEF L
  <2>4. Min(L) \in L /\ \A k \in L : Min(L) <= k
    BY <2>1, MinIsLeast
  <2>5. Min(L) \in W /\ j < Min(L) /\ \A k \in W : j < k => Min(L) <= k
    BY <2>2, <2>3, <2>4, Zenon
  <2> QED
    BY <2>5 DEF L
<1>8. Contiguous(Rows(s), W, MaxGap) <=>
        \A j \in W : later(j) # {} => /\ 0 < Rows(s)[Min(later(j))].at - Rows(s)[j].at
                                      /\ Rows(s)[Min(later(j))].at - Rows(s)[j].at <= MaxGap
  BY Zenon DEF Contiguous
<1>9. ASSUME Contiguous(Rows(s), W, MaxGap), NEW j \in E, first <= j, j < last
      PROVE  \E k \in E : at(j) < at(k) /\ at(k) <= at(j) + MaxGap
  <2>1. j \in W /\ last \in W
    BY <1>1, <1>2, <1>3, <1>9
  <2>2. later(j) # {}
    BY <1>9, <2>1
  <2> DEFINE m == Min(later(j))
  <2>3. m \in E /\ j < m
    BY <1>4, <1>7, <2>1, <2>2
  <2>4. 0 < Rows(s)[m].at - Rows(s)[j].at /\ Rows(s)[m].at - Rows(s)[j].at <= MaxGap
    BY <1>8, <1>9, <2>1, <2>2, Zenon
  <2> HIDE DEF m
  <2>5. at(j) < at(m) /\ at(m) <= at(j) + MaxGap
    BY <1>1, <1>5, <1>6, <2>3, <2>4
  <2> QED
    BY <2>3, <2>5
<1>10. ASSUME Unbroken(s, first, last), NEW j \in W, later(j) # {}
       PROVE  /\ 0 < Rows(s)[Min(later(j))].at - Rows(s)[j].at
              /\ Rows(s)[Min(later(j))].at - Rows(s)[j].at <= MaxGap
  <2> DEFINE m == Min(later(j))
  <2>1. m \in W /\ j < m /\ \A k \in W : j < k => m <= k
    BY <1>7, <1>10
  <2>2. m \in E /\ j \in E /\ first <= j /\ m <= last
    BY <1>3, <1>4, <2>1
  <2> HIDE DEF m
  <2>3. m \in Nat /\ j \in Nat /\ last \in Nat /\ first \in Nat
    BY <1>1, <1>2, <2>2
  <2>4. PICK k \in E : at(j) < at(k) /\ at(k) <= at(j) + MaxGap
    <3>1. j < last
      BY <2>1, <2>2, <2>3
    <3> QED
      BY <1>10, <2>2, <3>1 DEF Unbroken, E, at
  <2>5. m <= k
    <3>1. j < k /\ k \in Nat
      BY <1>1, <2>2, <2>4
    <3>2. CASE k <= last
      <4>1. k \in W
        BY <1>3, <2>2, <2>3, <3>1, <3>2
      <4> QED
        BY <2>1, <3>1, <4>1
    <3>3. CASE ~(k <= last)
      BY <2>2, <2>3, <3>1, <3>3
    <3> QED
      BY <3>2, <3>3
  <2>6. at(j) < at(m) /\ at(m) <= at(k)
    BY <1>1, <2>1, <2>2, <2>5
  <2>7. 0 < Rows(s)[m].at - Rows(s)[j].at /\ Rows(s)[m].at - Rows(s)[j].at <= MaxGap
    BY <1>1, <1>5, <1>6, <2>2, <2>4, <2>6
  <2> QED
    BY <2>7 DEF m
<1> QED
  <2>1. Contiguous(Rows(s), W, MaxGap) => Unbroken(s, first, last)
    BY <1>9 DEF Unbroken, E, at
  <2>2. Unbroken(s, first, last) => Contiguous(Rows(s), W, MaxGap)
    BY <1>8, <1>10, Zenon
  <2> QED
    BY <2>1, <2>2 DEF W

-----------------------------------------------------------------------------
(* The windows of the extraction and the plateaus of the reference.        *)
PlateausSeen(s, i, pre, first, last) ==
  /\ Time(s, i) - Time(s, first) >= PlateauDuration
  /\ Time(s, last) - Time(s, i) >= PlateauDuration
  /\ Unbroken(s, first, last)
  /\ \A j \in pre : Time(s, j) < s.rise
  /\ s.rise <= Time(s, i) /\ Time(s, last) < s.fall

LEMMA SeenIsUsed ==
  Seen = {Time(signal, i) : i \in Used(signal)}
BY Zenon DEF Seen, Used, Time, At, Polls

LEMMA WindowsShow ==
  ASSUME signal \in Signal, NEW i, NEW pre, NEW post, NEW first, NEW last,
         Surrounds(signal, Used(signal), i, pre, post, first, last),
         PlateausSeen(signal, i, pre, first, last)
  PROVE  Shown /\ Time(signal, i) = Min({t \in Seen : t >= signal.rise})
<1> DEFINE E      == Used(signal)
           at(j)  == Time(signal, j)
           T      == at(i)
           risen  == {t \in Seen : t >= signal.rise}
           before == {t \in Seen : t <= T - PlateauDuration}
           after  == {t \in Seen : t >= T + PlateauDuration}
<1>1. /\ \A j \in E : j \in Nat /\ at(j) \in Nat
      /\ \A j, k \in E : j < k <=> at(j) < at(k)
      /\ \A j, k \in E : j <= k <=> at(j) <= at(k)
  BY TimesOfUsed
<1>2. /\ first \in E /\ last \in E /\ i \in E /\ first < i /\ i <= last
      /\ pre = {j \in E : first <= j /\ j < i} /\ post = {j \in E : i <= j /\ j <= last}
      /\ \A j \in pre : j # first => T - at(j) < PlateauDuration
      /\ \A j \in post : j # last => at(j) - T < PlateauDuration
  BY DEF Surrounds
<1>3. /\ T - at(first) >= PlateauDuration /\ at(last) - T >= PlateauDuration
      /\ Unbroken(signal, first, last)
      /\ \A j \in pre : at(j) < signal.rise
      /\ signal.rise <= T /\ at(last) < signal.fall
  BY DEF PlateausSeen
<1>4. /\ PlateauDuration \in Nat \ {0} /\ MaxGap \in Nat
      /\ signal.rise \in Nat /\ signal.fall \in Nat
  BY LoadStepAssumption, SignalType
<1>5. /\ \A t \in Seen : \E j \in E : t = at(j)
      /\ \A j \in E : at(j) \in Seen
  BY SeenIsUsed, Zenon
<1> HIDE DEF E, at
<1>6. Seen \in SUBSET Nat
  BY <1>1, <1>5
<1>7. first \in pre
  <2>1. first \in Nat /\ first <= first
    BY <1>1, <1>2
  <2> QED
    BY <1>2, <2>1
<1>8. Min(risen) = T /\ risen # {}
  <2>1. risen \in SUBSET Nat /\ T \in risen
    BY <1>2, <1>3, <1>5, <1>6
  <2>2. ASSUME NEW t \in risen PROVE T <= t
    <3>1. PICK j \in E : t = at(j)
      BY <1>5
    <3>2. t >= signal.rise
      OBVIOUS
    <3>3. CASE j < first
      <4>1. at(j) < at(first) /\ at(first) < signal.rise
        BY <1>1, <1>2, <1>3, <1>7, <3>3
      <4> QED
        BY <1>1, <1>2, <1>4, <3>1, <3>2, <4>1
    <3>4. CASE first <= j /\ j < i
      <4>1. at(j) < signal.rise
        BY <1>2, <1>3, <3>4
      <4> QED
        BY <1>1, <1>4, <3>1, <3>2, <4>1
    <3>5. CASE i <= j
      BY <1>1, <1>2, <3>1, <3>5
    <3> QED
      BY <1>1, <1>2, <3>3, <3>4, <3>5
  <2> HIDE DEF risen, T
  <2> QED
    BY <2>1, <2>2, IsMin
<1>9. Max(before) = at(first) /\ before # {}
  <2>1. before \in SUBSET Nat /\ at(first) \in before
    <3>1. at(first) <= T - PlateauDuration
      BY <1>1, <1>2, <1>3, <1>4
    <3> QED
      BY <1>2, <1>5, <1>6, <3>1, Zenon
  <2>2. ASSUME NEW t \in before PROVE t <= at(first)
    <3>1. PICK j \in E : t = at(j)
      BY <1>5
    <3>2. t <= T - PlateauDuration
      OBVIOUS
    <3>3. j < i
      BY <1>1, <1>2, <1>4, <3>1, <3>2
    <3>4. CASE first < j
      <4>1. j \in pre /\ j # first
        BY <1>1, <1>2, <3>3, <3>4
      <4> QED
        BY <1>1, <1>2, <1>4, <3>1, <3>2, <4>1
    <3> QED
      BY <1>1, <1>2, <3>1, <3>4
  <2> HIDE DEF before
  <2>3. at(first) \in Nat
    BY <1>1, <1>2
  <2> QED
    BY <2>1, <2>2, <2>3, IsMax
<1>10. Min(after) = at(last) /\ after # {}
  <2>1. after \in SUBSET Nat /\ at(last) \in after
    <3>1. at(last) >= T + PlateauDuration
      BY <1>1, <1>2, <1>3, <1>4
    <3> QED
      BY <1>2, <1>5, <1>6, <3>1, Zenon
  <2>2. ASSUME NEW t \in after PROVE at(last) <= t
    <3>1. PICK j \in E : t = at(j)
      BY <1>5
    <3>2. t >= T + PlateauDuration
      OBVIOUS
    <3>3. i <= j
      BY <1>1, <1>2, <1>4, <3>1, <3>2
    <3>4. CASE j < last
      <4>1. j \in post /\ j # last
        BY <1>1, <1>2, <3>3, <3>4
      <4> QED
        BY <1>1, <1>2, <1>4, <3>1, <3>2, <4>1
    <3> QED
      BY <1>1, <1>2, <3>1, <3>4
  <2> HIDE DEF after
  <2> QED
    BY <2>1, <2>2, IsMin
<1>11. ASSUME NEW t \in Seen, at(first) <= t, t < at(last)
       PROVE  \E u \in Seen : t < u /\ u <= t + MaxGap
  <2>1. PICK j \in E : t = at(j)
    BY <1>5
  <2>2. first <= j /\ j < last
    BY <1>1, <1>2, <1>11, <2>1
  <2>3. PICK k \in E : at(j) < at(k) /\ at(k) <= at(j) + MaxGap
    BY <1>3, <2>2 DEF Unbroken, E, at
  <2> QED
    BY <1>5, <2>1, <2>3
<1> HIDE DEF risen, before, after
<1>12. /\ risen # {} /\ before # {} /\ after # {}
       /\ Min(after) < signal.fall
       /\ \A t \in Seen : (Max(before) <= t /\ t < Min(after)) =>
            \E u \in Seen : t < u /\ u <= t + MaxGap
  BY <1>3, <1>8, <1>9, <1>10, <1>11
<1>13. Shown
  BY <1>8, <1>12, Zenon DEF Shown, risen, before, after
<1> QED
  BY <1>8, <1>13 DEF risen, at

LEMMA ShownInWindows ==
  ASSUME signal \in Signal, Shown
  PROVE  /\ Cardinality(Used(signal)) >= 3
         /\ \E i \in Used(signal) :
              /\ i # Min(Used(signal))
              /\ Time(signal, i) = Min({t \in Seen : t >= signal.rise})
              /\ \A pre, post, first, last :
                   Surrounds(signal, Used(signal), i, pre, post, first, last) =>
                     PlateausSeen(signal, i, pre, first, last)
<1> DEFINE E      == Used(signal)
           at(j)  == Time(signal, j)
           risen  == {t \in Seen : t >= signal.rise}
           T      == Min(risen)
           before == {t \in Seen : t <= T - PlateauDuration}
           after  == {t \in Seen : t >= T + PlateauDuration}
<1>1. /\ \A j \in E : j \in Nat /\ at(j) \in Nat
      /\ \A j, k \in E : j < k <=> at(j) < at(k)
      /\ \A j, k \in E : j <= k <=> at(j) <= at(k)
  BY TimesOfUsed
<1>2. /\ risen # {} /\ before # {} /\ after # {}
      /\ Min(after) < signal.fall
      /\ \A t \in Seen : (Max(before) <= t /\ t < Min(after)) =>
            \E u \in Seen : t < u /\ u <= t + MaxGap
  BY Zenon DEF Shown
<1>3. /\ PlateauDuration \in Nat \ {0} /\ MaxGap \in Nat
      /\ signal.rise \in Nat /\ signal.fall \in Nat
  BY LoadStepAssumption, SignalType
<1>4. /\ \A t \in Seen : \E j \in E : t = at(j)
      /\ \A j \in E : at(j) \in Seen
  BY SeenIsUsed, Zenon
<1> HIDE DEF E, at
<1>5. Seen \in SUBSET Nat
  BY <1>1, <1>4
<1>6. T \in Seen /\ T >= signal.rise /\ \A t \in Seen : t >= signal.rise => T <= t
  <2>1. risen \in SUBSET Nat /\ risen \in SUBSET Seen /\ (\A t \in risen : t >= signal.rise)
        /\ \A t \in Seen : t >= signal.rise => t \in risen
    BY <1>5
  <2> HIDE DEF risen
  <2>2. T \in risen /\ \A t \in risen : T <= t
    BY <1>2, <2>1, MinIsLeast
  <2> HIDE DEF T
  <2> QED
    BY <2>1, <2>2
<1> HIDE DEF T
<1>7. Max(before) \in Seen /\ Max(before) <= T - PlateauDuration
  <2>1. before \in SUBSET Nat /\ before \in SUBSET Seen /\ T \in Nat
        /\ (\A t \in before : t <= T - PlateauDuration /\ t <= T)
    <3>1. T \in Nat
      BY <1>5, <1>6, Zenon
    <3>2. \A t \in Nat : t <= T - PlateauDuration => t <= T
      BY <1>3, <3>1
    <3> QED
      BY <1>5, <3>1, <3>2, Zenon
  <2> HIDE DEF before
  <2>2. Max(before) \in before
    BY <1>2, <2>1, MaxIsGreatest
  <2> QED
    BY <2>1, <2>2
<1>8. Min(after) \in Seen /\ Min(after) >= T + PlateauDuration
  <2>1. after \in SUBSET Nat /\ after \in SUBSET Seen /\ T \in Nat
        /\ (\A t \in after : t >= T + PlateauDuration)
    BY <1>5, <1>6
  <2> HIDE DEF after
  <2>2. Min(after) \in after
    BY <1>2, <2>1, MinIsLeast
  <2> QED
    BY <2>1, <2>2
<1>9. PICK i \in E : at(i) = T
  BY <1>4, <1>6
<1>10. PICK f \in E : at(f) = Max(before)
  BY <1>4, <1>7
<1>11. PICK l \in E : at(l) = Min(after)
  BY <1>4, <1>8
<1> HIDE DEF before, after
<1>12. f < i /\ i < l /\ at(i) - at(f) >= PlateauDuration /\ at(l) - at(i) >= PlateauDuration
  <2>1. at(f) \in Nat /\ at(i) \in Nat /\ at(l) \in Nat
    BY <1>1
  <2>2. at(f) <= T - PlateauDuration /\ at(l) >= T + PlateauDuration
    BY <1>7, <1>8, <1>10, <1>11
  <2>3. at(f) < at(i) /\ at(i) < at(l)
    BY <1>3, <1>9, <2>1, <2>2
  <2> QED
    BY <1>1, <1>3, <1>9, <2>1, <2>2, <2>3
<1>13. E \in SUBSET (1 .. Polls(signal)) /\ Min(E) \in E /\ Max(E) \in E
       /\ \A j \in E : Min(E) <= j /\ j <= Max(E)
  BY UsedPolls DEF E
<1>14. i # Min(E)
  <2>1. Min(E) <= f /\ Min(E) \in Nat /\ f \in Nat /\ i \in Nat
    BY <1>1, <1>13, Zenon
  <2> QED
    BY <1>12, <2>1
<1>15. Cardinality(E) >= 3
  <2>1. f \in Nat /\ i \in Nat /\ l \in Nat
    BY <1>1
  <2>2. f # i /\ i # l /\ f # l
    BY <1>12, <2>1
  <2>3. IsFiniteSet({f, i, l}) /\ Cardinality({f, i, l}) = 3
    <3>1. IsFiniteSet({f}) /\ Cardinality({f}) = 1
      BY FS_Singleton
    <3>2. IsFiniteSet({f} \cup {i}) /\ Cardinality({f} \cup {i}) = 2
      BY <2>2, <3>1, FS_AddElement
    <3>3. l \notin {f} \cup {i}
      BY <2>2
    <3>4. IsFiniteSet({f} \cup {i} \cup {l}) /\ Cardinality({f} \cup {i} \cup {l}) = 3
      BY <3>2, <3>3, FS_AddElement
    <3>5. {f, i, l} = {f} \cup {i} \cup {l}
      OBVIOUS
    <3> QED
      BY <3>4, <3>5
  <2>4. IsFiniteSet(E)
    <3>1. Polls(signal) \in Int
      BY PollsAreInTheOutage
    <3>2. IsFiniteSet(1 .. Polls(signal))
      BY <3>1, FS_Interval
    <3> QED
      BY <1>13, <3>2, FS_Subset
  <2>5. {f, i, l} \in SUBSET E
    OBVIOUS
  <2>6. Cardinality({f, i, l}) <= Cardinality(E) /\ Cardinality(E) \in Nat
    BY <2>4, <2>5, FS_Subset, FS_CardinalityType
  <2> QED
    BY <2>3, <2>6
<1>16. ASSUME NEW pre, NEW post, NEW first, NEW last,
              Surrounds(signal, E, i, pre, post, first, last)
       PROVE  PlateausSeen(signal, i, pre, first, last)
  <2>1. /\ first \in E /\ last \in E /\ first < i /\ i <= last
        /\ pre = {j \in E : first <= j /\ j < i} /\ post = {j \in E : i <= j /\ j <= last}
        /\ first = Min(E) \/ at(i) - at(first) >= PlateauDuration
        /\ last = Max(E) \/ at(last) - at(i) >= PlateauDuration
        /\ \A j \in pre : j # first => at(i) - at(j) < PlateauDuration
        /\ \A j \in post : j # last => at(j) - at(i) < PlateauDuration
    BY <1>16 DEF Surrounds, at
  <2>2. /\ f \in Nat /\ i \in Nat /\ l \in Nat /\ first \in Nat /\ last \in Nat
        /\ at(f) \in Nat /\ at(i) \in Nat /\ at(l) \in Nat /\ at(first) \in Nat /\ at(last) \in Nat
    BY <1>1, <2>1
  <2>3. f <= first
    <3>1. CASE first < f
      <4>1. f \in pre /\ f # first
        BY <1>12, <2>1, <2>2, <3>1
      <4> QED
        BY <1>3, <1>12, <2>1, <2>2, <4>1
    <3> QED
      BY <2>2, <3>1
  <2>4. last <= l
    <3>1. CASE l < last
      <4>1. l \in post /\ l # last
        BY <1>12, <2>1, <2>2, <3>1
      <4> QED
        BY <1>3, <1>12, <2>1, <2>2, <4>1
    <3> QED
      BY <2>2, <3>1
  <2>5. at(i) - at(first) >= PlateauDuration
    <3>1. CASE first = Min(E)
      <4>1. first <= f
        BY <1>13, <3>1, Zenon
      <4>2. first = f
        BY <2>2, <2>3, <4>1
      <4> QED
        BY <1>12, <4>2
    <3> QED
      BY <2>1, <3>1
  <2>6. at(last) - at(i) >= PlateauDuration
    <3>1. CASE last = Max(E)
      <4>1. l <= last
        BY <1>13, <3>1, Zenon
      <4>2. last = l
        BY <2>2, <2>4, <4>1
      <4> QED
        BY <1>12, <4>2
    <3> QED
      BY <2>1, <3>1
  <2>7. Unbroken(signal, first, last)
    <3>1. ASSUME NEW j \in E, first <= j, j < last
          PROVE  \E k \in E : at(j) < at(k) /\ at(k) <= at(j) + MaxGap
      <4>1. f <= j /\ j < l
        BY <1>1, <2>2, <2>3, <2>4, <3>1
      <4>2. Max(before) <= at(j) /\ at(j) < Min(after)
        BY <1>1, <1>10, <1>11, <4>1
      <4>3. PICK u \in Seen : at(j) < u /\ u <= at(j) + MaxGap
        BY <1>2, <1>4, <4>2
      <4> QED
        BY <1>4, <4>3
    <3> QED
      BY <3>1 DEF Unbroken, E, at
  <2>8. ASSUME NEW j \in pre PROVE at(j) < signal.rise
    <3>1. j \in E /\ j < i
      BY <2>1
    <3>2. at(j) < at(i) /\ at(j) \in Nat
      BY <1>1, <3>1
    <3>3. ~(at(j) >= signal.rise)
      BY <1>4, <1>6, <1>9, <2>2, <3>1, <3>2
    <3> QED
      BY <1>3, <3>2, <3>3
  <2>9. signal.rise <= at(i) /\ at(last) < signal.fall
    <3>1. at(last) <= at(l)
      BY <1>1, <2>1, <2>4
    <3> QED
      BY <1>2, <1>3, <1>6, <1>9, <1>11, <2>2, <3>1
  <2> QED
    BY <2>5, <2>6, <2>7, <2>8, <2>9 DEF PlateausSeen, at
<1>17. at(i) = Min({t \in Seen : t >= signal.rise})
  BY <1>9 DEF T
<1> QED
  BY <1>14, <1>15, <1>16, <1>17 DEF E, at

-----------------------------------------------------------------------------
(* What the windows measure where the plateaus are.                        *)
Measures(rows, W, i, b, v) ==
  LET line == LineAtTransition(rows, W, i)
  IN  /\ Steady(rows, W) /\ TwiceMedian(rows, W) = 2 * b
      /\ line.slope = 0 /\ line.den \in Nat \ {0} /\ line.valueDen \in Nat \ {0}
      /\ line.value = (v - 120) * line.valueDen

LEMMA UniformMeasures ==
  ASSUME NEW N, NEW W, NEW rows, NEW i, NEW b, NEW v, Uniform(N, rows, W, i, b, v)
  PROVE  Measures(rows, W, i, b, v)
<1>1. /\ N \in Nat /\ W \in SUBSET (1 .. N) /\ W # {} /\ b \in Nat
      /\ \A j \in W : rows[j].load = b
  BY DEF Uniform
<1>2. Steady(rows, W)
  BY <1>1, OneLoadIsSteady
<1>3. TwiceMedian(rows, W) = 2 * b
  <2>1. \A j \in W : rows[j].load \in 0 .. b
    BY <1>1
  <2>2. PICK j \in W, k \in W : TwiceMedian(rows, W) = rows[j].load + rows[k].load
    BY <1>1, <2>1, MedianOfSamples
  <2>3. rows[j].load = b /\ rows[k].load = b
    BY <1>1
  <2> QED
    BY <1>1, <2>2, <2>3
<1> DEFINE line == LineAtTransition(rows, W, i)
<1>4. /\ line.slope = 0 /\ line.den \in Nat \ {0} /\ line.valueDen \in Nat \ {0}
      /\ line.value = (v - 120) * line.valueDen
  BY LineOfOneVoltage
<1> QED
  BY <1>2, <1>3, <1>4, Zenon DEF Measures

LEMMA SurroundsType ==
  ASSUME NEW s \in Signal, NEW i, NEW pre, NEW post, NEW first, NEW last,
         Surrounds(s, Used(s), i, pre, post, first, last)
  PROVE  /\ Polls(s) \in Nat
         /\ pre \in SUBSET (1 .. Polls(s)) /\ pre \in SUBSET Used(s) /\ first \in pre
         /\ post \in SUBSET (1 .. Polls(s)) /\ post \in SUBSET Used(s) /\ i \in post /\ last \in post
         /\ i \in Used(s) /\ i \notin pre
         /\ \A j \in pre : j < i
         /\ \A j \in post : i <= j /\ j <= last
<1>1. /\ Used(s) \in SUBSET (1 .. Polls(s)) /\ i \in Used(s) /\ first \in Used(s) /\ last \in Used(s)
      /\ first < i /\ i <= last
      /\ pre = {j \in Used(s) : first <= j /\ j < i} /\ post = {j \in Used(s) : i <= j /\ j <= last}
  BY DEF Surrounds
<1>2. \A j \in Used(s) : j \in Nat
  BY TimesOfUsed
<1>3. i <= i /\ first <= first /\ last <= last /\ ~(i < i)
  BY <1>1, <1>2
<1>4. first \in pre /\ i \in post /\ last \in post /\ i \notin pre
  BY <1>1, <1>3, Zenon
<1>5. Polls(s) \in Nat
  <2>1. Used(s) # {}
    BY <1>1
  <2> QED
    BY <2>1, UsedPolls
<1> QED
  BY <1>1, <1>4, <1>5, Zenon

LEMMA TwoSamplesBefore ==
  ASSUME NEW s \in Signal, NEW i, NEW pre, NEW post, NEW first, NEW last,
         Surrounds(s, Used(s), i, pre, post, first, last),
         Unbroken(s, first, last), Time(s, i) - Time(s, first) >= PlateauDuration
  PROVE  \E k \in pre : Time(s, k) # Time(s, first)
<1>1. /\ first \in Used(s) /\ last \in Used(s) /\ i \in Used(s) /\ first < i /\ i <= last
      /\ pre = {j \in Used(s) : first <= j /\ j < i}
  BY DEF Surrounds
<1>2. /\ \A j \in Used(s) : j \in Nat /\ Time(s, j) \in Nat
      /\ \A j, k \in Used(s) : j < k <=> Time(s, j) < Time(s, k)
  BY TimesOfUsed
<1>3. first <= first /\ first < last
  BY <1>1, <1>2
<1>4. PICK k \in Used(s) : Time(s, first) < Time(s, k) /\ Time(s, k) <= Time(s, first) + MaxGap
  BY <1>1, <1>3 DEF Unbroken
<1>5. Time(s, k) < Time(s, i)
  BY <1>1, <1>2, <1>4, WindowsAreFilled, LoadStepAssumption
<1>6. first < k /\ k < i
  BY <1>1, <1>2, <1>4, <1>5
<1>7. k \in pre
  BY <1>1, <1>2, <1>6
<1> QED
  BY <1>1, <1>2, <1>4, <1>7

LEMMA PlateausMeasured ==
  ASSUME NEW s \in Signal, Prompt(s),
         NEW i, NEW pre, NEW post, NEW first, NEW last,
         Surrounds(s, Used(s), i, pre, post, first, last),
         PlateausSeen(s, i, pre, first, last)
  PROVE  LET before == LineAtTransition(Rows(s), pre, i)
             after  == LineAtTransition(Rows(s), post, i)
         IN  /\ Steady(Rows(s), pre) /\ TwiceMedian(Rows(s), pre) = 2 * s.base
             /\ Steady(Rows(s), post) /\ TwiceMedian(Rows(s), post) = 2 * (s.base + s.step)
             /\ before.slope = 0 /\ before.den \in Nat \ {0} /\ before.valueDen \in Nat \ {0}
             /\ before.value = 10 * before.valueDen
             /\ after.slope = 0 /\ after.den \in Nat \ {0} /\ after.valueDen \in Nat \ {0}
             /\ after.value = (10 - s.drop) * after.valueDen
<1> DEFINE rows == Rows(s)
           N    == Polls(s)
<1>1. /\ N \in Nat
      /\ pre \in SUBSET (1 .. N) /\ pre \in SUBSET Used(s) /\ first \in pre
      /\ post \in SUBSET (1 .. N) /\ post \in SUBSET Used(s) /\ i \in post /\ last \in post
      /\ i \in Used(s)
      /\ \A j \in pre : j < i
      /\ \A j \in post : i <= j /\ j <= last
  BY SurroundsType
<1>2. s.base \in Nat /\ s.step \in Nat /\ s.drop \in Nat /\ s.rise \in Nat /\ s.fall \in Nat
  BY SignalType
<1>3. /\ Time(s, i) - Time(s, first) >= PlateauDuration
      /\ Time(s, last) - Time(s, i) >= PlateauDuration
      /\ Unbroken(s, first, last)
      /\ \A j \in pre : Time(s, j) < s.rise
      /\ s.rise <= Time(s, i) /\ Time(s, last) < s.fall
  BY DEF PlateausSeen
<1>4. /\ \A j \in Used(s) : j \in Nat \ {0} /\ Time(s, j) \in Nat
      /\ \A j, k \in Used(s) : j < k <=> Time(s, j) < Time(s, k)
      /\ \A j, k \in Used(s) : j <= k <=> Time(s, j) <= Time(s, k)
  BY TimesOfUsed
<1>5. ASSUME NEW j \in pre PROVE rows[j].load = s.base /\ rows[j].v = 130
  <2>1. Time(s, j) < s.rise /\ j \in Used(s)
    BY <1>1, <1>3
  <2>2. ~High(s, Time(s, j))
    BY <1>2, <1>4, <2>1 DEF High
  <2> QED
    BY <2>1, <2>2, TwoPlateaus
<1>6. ASSUME NEW j \in post PROVE rows[j].load = s.base + s.step /\ rows[j].v = 130 - s.drop
  <2>1. j \in Used(s) /\ i <= j /\ j <= last /\ last \in Used(s)
    BY <1>1
  <2>2. Time(s, i) <= Time(s, j) /\ Time(s, j) <= Time(s, last)
    BY <1>1, <1>4, <2>1
  <2>3. High(s, Time(s, j))
    BY <1>1, <1>2, <1>3, <1>4, <2>1, <2>2 DEF High
  <2> QED
    BY <2>1, <2>3, TwoPlateaus
<1>7. \A j \in Used(s) : rows[j].at = Time(s, j)
  BY RowsOfUsed
<1> HIDE DEF rows, N
<1>8. /\ \A j \in Used(s) : rows[j].at \in Int
      /\ s.base + s.step \in Nat /\ 130 \in Int /\ 130 - s.drop \in Int
  BY <1>2, <1>4, <1>7
<1> DEFINE before == LineAtTransition(rows, pre, i)
           after  == LineAtTransition(rows, post, i)
<1>9. \E j, k \in pre : rows[j].at # rows[k].at
  <2>1. PICK k \in pre : Time(s, k) # Time(s, first)
    BY <1>3, TwoSamplesBefore
  <2> QED
    BY <1>1, <1>7, <2>1
<1>10. \E j, k \in post : rows[j].at # rows[k].at
  <2>1. Time(s, last) # Time(s, i)
    BY <1>1, <1>3, <1>4, LoadStepAssumption
  <2> QED
    BY <1>1, <1>7, <2>1
<1>11. Uniform(N, rows, pre, i, s.base, 130) /\ Uniform(N, rows, post, i, s.base + s.step, 130 - s.drop)
  BY <1>1, <1>2, <1>5, <1>6, <1>8, <1>9, <1>10 DEF Uniform
<1>12. Measures(rows, pre, i, s.base, 130) /\ Measures(rows, post, i, s.base + s.step, 130 - s.drop)
  BY <1>11, UniformMeasures
<1>13. 130 - 120 = 10 /\ 130 - s.drop - 120 = 10 - s.drop
  BY <1>2
<1>14. /\ Steady(rows, pre) /\ TwiceMedian(rows, pre) = 2 * s.base
       /\ Steady(rows, post) /\ TwiceMedian(rows, post) = 2 * (s.base + s.step)
       /\ before.slope = 0 /\ before.den \in Nat \ {0} /\ before.valueDen \in Nat \ {0}
       /\ before.value = (130 - 120) * before.valueDen
       /\ after.slope = 0 /\ after.den \in Nat \ {0} /\ after.valueDen \in Nat \ {0}
       /\ after.value = (130 - s.drop - 120) * after.valueDen
  BY <1>12, Zenon DEF Measures
<1> QED
  BY <1>13, <1>14 DEF rows

(* A step that is found is where the plateaus are.                         *)
LEMMA StepIsSeen ==
  ASSUME NEW s \in Signal,
         NEW i \in Used(s), NEW w, NEW first, NEW last,
         Surrounds(s, Used(s), i, w.pre, w.post, first, last),
         PlateauIsValid(Rows(s), i, w),
         TwiceMedian(Rows(s), w.post) - TwiceMedian(Rows(s), w.pre) >= 2 * MinLoadStep
  PROVE  PlateausSeen(s, i, w.pre, first, last)
<1> DEFINE rows == Rows(s)
           N    == Polls(s)
           pre  == w.pre
           post == w.post
           b    == s.base
           u    == s.step
<1>1. /\ N \in Nat
      /\ pre \in SUBSET (1 .. N) /\ pre \in SUBSET Used(s) /\ first \in pre
      /\ post \in SUBSET (1 .. N) /\ post \in SUBSET Used(s) /\ i \in post /\ last \in post
      /\ \A j \in pre : j < i
      /\ \A j \in post : i <= j /\ j <= last
      /\ Min(pre) = first /\ Max(post) = last
  <2>1. Min(w.pre) = first /\ Max(w.post) = last
    BY Zenon DEF Surrounds
  <2> QED
    BY <2>1, SurroundsType
<1>2. b \in Nat /\ u \in Nat /\ s.rise \in Nat /\ s.fall \in Nat
  BY SignalType
<1>3. /\ \A j \in Used(s) : j \in Nat \ {0} /\ Time(s, j) \in Nat
      /\ \A j, k \in Used(s) : j < k <=> Time(s, j) < Time(s, k)
      /\ \A j, k \in Used(s) : j <= k <=> Time(s, j) <= Time(s, k)
  BY TimesOfUsed
<1>4. /\ \A j \in Used(s) : rows[j].load \in {b, b + u}
      /\ \A j \in Used(s) : rows[j].load = b + u /\ u # 0 => High(s, Time(s, j))
      /\ \A j \in Used(s) : rows[j].load = b /\ u # 0 => ~High(s, Time(s, j))
  <2>1. ASSUME NEW j \in Used(s)
        PROVE  /\ rows[j].load \in {b, b + u}
               /\ High(s, Time(s, j)) => rows[j].load = b + u
               /\ ~High(s, Time(s, j)) => rows[j].load = b
    BY LoadsOfUsed
  <2>2. u # 0 => b + u # b
    BY <1>2
  <2> QED
    BY <2>1, <2>2, Zenon
<1>5. \A j \in Used(s) : rows[j].at = Time(s, j)
  BY RowsOfUsed
<1>6. /\ rows[i].at - rows[first].at >= PlateauDuration
      /\ rows[last].at - rows[i].at >= PlateauDuration
      /\ Contiguous(rows, pre \cup post, MaxGap)
      /\ Steady(rows, pre) /\ Steady(rows, post)
  BY <1>1 DEF PlateauIsValid, ValidIn
<1>7. Cardinality(pre) <= PlateauDuration + 1 /\ Cardinality(post) <= PlateauDuration + 1
  BY WindowSizes
<1>8. Unbroken(s, first, last)
  BY <1>6, ContiguousIsUnbroken
<1> HIDE DEF rows, N, pre, post, b, u
<1>9. pre # {} /\ post # {} /\ TwoLoads(rows, pre, b, u) /\ TwoLoads(rows, post, b, u)
  BY <1>1, <1>4 DEF TwoLoads
<1>10. /\ \A j \in pre : rows[j].load \in 0 .. b + u
       /\ \A j \in post : rows[j].load \in 0 .. b + u
  <2>1. b \in 0 .. b + u /\ b + u \in 0 .. b + u
    BY <1>2
  <2> QED
    BY <2>1, <1>9 DEF TwoLoads
<1>11. b + u \in Nat
  BY <1>2
<1>12. PICK p \in pre, q \in pre : TwiceMedian(rows, pre) = rows[p].load + rows[q].load
  BY <1>1, <1>9, <1>10, <1>11, MedianOfSamples
<1>13. PICK x \in post, y \in post : TwiceMedian(rows, post) = rows[x].load + rows[y].load
  BY <1>1, <1>9, <1>10, <1>11, MedianOfSamples
<1>14. (rows[x].load + rows[y].load) - (rows[p].load + rows[q].load) >= 2 * MinLoadStep
  BY <1>12, <1>13 DEF rows, pre, post
<1>15. /\ rows[x].load \in {b, b + u} /\ rows[y].load \in {b, b + u}
       /\ rows[p].load \in {b, b + u} /\ rows[q].load \in {b, b + u}
  BY <1>9 DEF TwoLoads
<1>16. u >= MinLoadStep /\ u # 0
  BY <1>2, <1>14, <1>15, LoadStepAssumption
<1>17. /\ (\A j \in pre : rows[j].load = b) \/ (\A j \in pre : rows[j].load = b + u)
       /\ (\A j \in post : rows[j].load = b) \/ (\A j \in post : rows[j].load = b + u)
  <2>1. ASSUME NEW W \in SUBSET (1 .. N), TwoLoads(rows, W, b, u), Steady(rows, W),
               Cardinality(W) <= PlateauDuration + 1
        PROVE  (\A j \in W : rows[j].load = b) \/ (\A j \in W : rows[j].load = b + u)
    <3>1. \A low, high \in W : ~(rows[low].load = b /\ rows[high].load = b + u)
      BY <1>1, <1>2, <1>16, <2>1, MixtureIsUnsteady
    <3> QED
      BY <2>1, <3>1, Zenon DEF TwoLoads
  <2> QED
    BY <1>1, <1>6, <1>7, <1>9, <2>1
<1>18. /\ \A j \in pre : rows[j].load = b
       /\ \A j \in post : rows[j].load = b + u
  <2>1. ~(\A j \in pre : rows[j].load = b + u)
    <3>1. SUFFICES ASSUME \A j \in pre : rows[j].load = b + u PROVE FALSE
      OBVIOUS
    <3>2. rows[p].load = b + u /\ rows[q].load = b + u
      BY <3>1
    <3> QED
      BY <1>2, <1>14, <1>15, <3>2, LoadStepAssumption
  <2>2. ~(\A j \in post : rows[j].load = b)
    <3>1. SUFFICES ASSUME \A j \in post : rows[j].load = b PROVE FALSE
      OBVIOUS
    <3>2. rows[x].load = b /\ rows[y].load = b
      BY <3>1
    <3> QED
      BY <1>2, <1>14, <1>15, <3>2, LoadStepAssumption
  <2> QED
    BY <1>17, <2>1, <2>2, Zenon
<1>19. High(s, Time(s, i)) /\ High(s, Time(s, last))
  BY <1>1, <1>4, <1>16, <1>18
<1>20. s.rise <= Time(s, i) /\ Time(s, i) < s.fall /\ Time(s, last) < s.fall
  BY <1>19 DEF High
<1>21. ASSUME NEW j \in pre PROVE Time(s, j) < s.rise
  <2>1. j \in Used(s) /\ i \in Used(s) /\ j < i
    BY <1>1
  <2>2. ~High(s, Time(s, j))
    BY <1>4, <1>16, <1>18, <2>1
  <2>3. Time(s, j) < Time(s, i) /\ Time(s, j) \in Nat /\ Time(s, i) \in Nat
    BY <1>3, <2>1
  <2> QED
    BY <1>2, <1>20, <2>2, <2>3 DEF High
<1>22. Time(s, i) - Time(s, first) >= PlateauDuration /\ Time(s, last) - Time(s, i) >= PlateauDuration
  <2>1. i \in Used(s) /\ first \in Used(s) /\ last \in Used(s)
    BY <1>1
  <2> QED
    BY <1>5, <1>6, <2>1
<1> QED
  BY <1>8, <1>20, <1>21, <1>22 DEF PlateausSeen, pre

(* What the step must be for the measurements to be taken as evidence.     *)
Evident(s, tight) ==
  /\ s.step >= MinLoadStep /\ s.base > 0 /\ s.base + s.step <= MaxLoad
  /\ AtMost(MinVoltageStep, s.drop, tight)
  /\ AtMost(s.step, MinKInverse * s.drop, tight)
  /\ AtMost(100 * s.drop, MaxKPer100 * s.step, tight)

(* Fractions of one denominator compare as their numerators.               *)
Scaled(x, y, a, b, d) == a \in Int /\ b \in Int /\ d \in Nat \ {0} /\ x = a * d /\ y = b * d

LEMMA AtMostScales ==
  ASSUME NEW x, NEW y, NEW a, NEW b, NEW d, Scaled(x, y, a, b, d)
  PROVE  (x < y <=> a < b) /\ (x <= y <=> a <= b)
<1>1. a \in Int /\ b \in Int /\ d \in Nat \ {0} /\ x = a * d /\ y = b * d
  BY DEF Scaled
<1>2. a < b => a * d < b * d
  BY <1>1
<1>3. b < a => b * d < a * d
  BY <1>1
<1>4. a * d \in Int /\ b * d \in Int
  BY <1>1
<1> QED
  BY <1>1, <1>2, <1>3, <1>4

LEMMA StepAtPlateaus ==
  ASSUME NEW s \in Signal, Prompt(s), NEW i \in Used(s), NEW tight \in BOOLEAN,
         NEW w, w = PlateauWindow(Rows(s), Used(s), i), NEW first, NEW last,
         Surrounds(s, Used(s), i, w.pre, w.post, first, last),
         PlateausSeen(s, i, w.pre, first, last)
  PROVE  LET step == StepAt(Rows(s), Used(s), i, tight)
         IN  /\ step # NoStep <=> Evident(s, tight)
             /\ step # NoStep => /\ step.sag = s.drop * step.den
                                 /\ step.rise = 2 * s.step
                                 /\ step.at = Time(s, i)
<1> DEFINE rows     == Rows(s)
           preLoad  == TwiceMedian(rows, w.pre)
           postLoad == TwiceMedian(rows, w.post)
           rise     == postLoad - preLoad
           pre      == LineAtTransition(rows, w.pre, i)
           post     == LineAtTransition(rows, w.post, i)
           sag      == pre.value * post.valueDen - post.value * pre.valueDen
           den      == pre.valueDen * post.valueDen
           cond     == /\ PlateauIsValid(rows, i, w)
                       /\ rise >= 2 * MinLoadStep
                       /\ preLoad \in 1 .. 2 * MaxLoad /\ postLoad \in 1 .. 2 * MaxLoad
                       /\ Flat(pre, tight) /\ Flat(post, tight)
                       /\ AtMost(MinVoltageStep * den, sag, tight)
                       /\ AtMost(rise * den, 2 * MinKInverse * sag, tight)
                       /\ AtMost(200 * sag, MaxKPer100 * rise * den, tight)
           at       == rows[i].at
           found_   == [sag |-> sag, den |-> den, rise |-> rise, at |-> at]
           step     == StepAt(rows, Used(s), i, tight)
           u        == s.step
           d        == s.drop
           b        == s.base
<1>1. step = IF cond THEN found_ ELSE NoStep
  BY Zenon DEF StepAt
<1>2. /\ Steady(rows, w.pre) /\ preLoad = 2 * b
      /\ Steady(rows, w.post) /\ postLoad = 2 * (b + u)
      /\ pre.slope = 0 /\ pre.den \in Nat \ {0} /\ pre.valueDen \in Nat \ {0}
      /\ pre.value = 10 * pre.valueDen
      /\ post.slope = 0 /\ post.den \in Nat \ {0} /\ post.valueDen \in Nat \ {0}
      /\ post.value = (10 - d) * post.valueDen
  BY PlateausMeasured
<1>3. b \in Nat /\ u \in Nat /\ d \in Nat
  BY SignalType
<1>4. /\ MinLoadStep \in Nat \ {0} /\ MinVoltageStep \in Nat \ {0} /\ SlopeSeconds \in Nat \ {0}
      /\ MinKInverse \in Nat \ {0} /\ MaxKPer100 \in Nat \ {0} /\ MaxLoad \in Nat
  BY LoadStepAssumption
<1>5. PlateauIsValid(rows, i, w)
  <2>1. /\ i \in Used(s) /\ first \in Used(s) /\ last \in Used(s)
        /\ Min(w.pre) = first /\ Max(w.post) = last
    BY DEF Surrounds
  <2>2. \A j \in Used(s) : rows[j].at = Time(s, j)
    BY RowsOfUsed
  <2>3. /\ Time(s, i) - Time(s, first) >= PlateauDuration
        /\ Time(s, last) - Time(s, i) >= PlateauDuration
        /\ Unbroken(s, first, last)
    BY DEF PlateausSeen
  <2>4. Contiguous(rows, w.pre \cup w.post, MaxGap)
    BY <2>3, ContiguousIsUnbroken
  <2>5. /\ rows[i].at - rows[Min(w.pre)].at >= PlateauDuration
        /\ rows[Max(w.post)].at - rows[i].at >= PlateauDuration
    BY <2>1, <2>2, <2>3
  <2> HIDE DEF rows
  <2>6. ValidIn(rows, i, w, MaxGap)
    BY <2>4, <2>5, Zenon DEF ValidIn
  <2> QED
    BY <1>2, <2>6, Zenon DEF PlateauIsValid
<1>6. at = Time(s, i)
  BY RowsOfUsed
<1> HIDE DEF preLoad, postLoad, pre, post, step, rows, u, d, b, at
<1>7. rise = 2 * u
  BY <1>2, <1>3
<1>8. den \in Nat \ {0} /\ sag = d * den
  <2> DEFINE p == pre.valueDen
             q == post.valueDen
  <2>1. p \in Nat \ {0} /\ q \in Nat \ {0}
    BY <1>2
  <2>2. sag = (10 * p) * q - ((10 - d) * q) * p
    BY <1>2
  <2> HIDE DEF p, q
  <2>3. (10 * p) * q - ((10 - d) * q) * p = d * (p * q)
    BY <1>3, <2>1
  <2>4. p * q \in Nat \ {0}
    BY <2>1
  <2> QED
    BY <2>2, <2>3, <2>4 DEF p, q
<1> HIDE DEF rise, den, sag
<1>9. Flat(pre, tight) /\ Flat(post, tight)
  <2>1. Abs(0) * SlopeSeconds = 0
    BY <1>4 DEF Abs
  <2>2. \A n \in Nat \ {0} : AtMost(0, n, tight)
    BY DEF AtMost
  <2>3. Abs(pre.slope) * SlopeSeconds = 0 /\ Abs(post.slope) * SlopeSeconds = 0
    BY <1>2, <2>1
  <2> QED
    BY <1>2, <2>2, <2>3 DEF Flat
<1>10. /\ preLoad \in 1 .. 2 * MaxLoad /\ postLoad \in 1 .. 2 * MaxLoad <=> b > 0 /\ b + u <= MaxLoad
       /\ rise >= 2 * MinLoadStep <=> u >= MinLoadStep
  BY <1>2, <1>3, <1>4, <1>7
<1>11. AtMost(MinVoltageStep * den, sag, tight) <=> AtMost(MinVoltageStep, d, tight)
  <2>1. Scaled(MinVoltageStep * den, sag, MinVoltageStep, d, den)
    BY <1>3, <1>4, <1>8 DEF Scaled
  <2> QED
    BY <2>1, AtMostScales DEF AtMost
<1>12. AtMost(rise * den, 2 * MinKInverse * sag, tight) <=> AtMost(u, MinKInverse * d, tight)
  <2>1. Scaled(rise * den, 2 * MinKInverse * sag, u, MinKInverse * d, 2 * den)
    BY <1>3, <1>4, <1>7, <1>8 DEF Scaled
  <2> QED
    BY <2>1, AtMostScales DEF AtMost
<1>13. AtMost(200 * sag, MaxKPer100 * rise * den, tight) <=> AtMost(100 * d, MaxKPer100 * u, tight)
  <2>1. Scaled(200 * sag, MaxKPer100 * rise * den, 100 * d, MaxKPer100 * u, 2 * den)
    BY <1>3, <1>4, <1>7, <1>8 DEF Scaled
  <2> QED
    BY <2>1, AtMostScales DEF AtMost
<1>14. cond <=> Evident(s, tight)
  BY <1>5, <1>9, <1>10, <1>11, <1>12, <1>13, Zenon DEF Evident, u, d, b
<1> HIDE DEF cond
<1>15. found_ # NoStep
  <2>1. DOMAIN found_ = {"sag", "den", "rise", "at"} /\ DOMAIN NoStep = {"none"}
    BY DEF NoStep
  <2>2. "none" \notin {"sag", "den", "rise", "at"}
    OBVIOUS
  <2> HIDE DEF found_
  <2> QED
    BY <2>1, <2>2
<1>16. found_.sag = sag /\ found_.den = den /\ found_.rise = rise /\ found_.at = at
  OBVIOUS
<1> HIDE DEF found_
<1>17. step # NoStep <=> Evident(s, tight)
  BY <1>1, <1>14, <1>15
<1>18. step # NoStep => step.sag = d * step.den /\ step.rise = 2 * u /\ step.at = Time(s, i)
  BY <1>1, <1>6, <1>7, <1>8, <1>16
<1> QED
  BY <1>17, <1>18 DEF step, rows, d, u

LEMMA StepAtIsSeen ==
  ASSUME NEW s \in Signal, NEW i \in Used(s), NEW tight \in BOOLEAN,
         NEW w, w = PlateauWindow(Rows(s), Used(s), i), NEW first, NEW last,
         Surrounds(s, Used(s), i, w.pre, w.post, first, last),
         StepAt(Rows(s), Used(s), i, tight) # NoStep
  PROVE  PlateausSeen(s, i, w.pre, first, last)
<1>1. /\ PlateauIsValid(Rows(s), i, w)
      /\ TwiceMedian(Rows(s), w.post) - TwiceMedian(Rows(s), w.pre) >= 2 * MinLoadStep
  BY Zenon DEF StepAt
<1> QED
  BY <1>1, StepIsSeen, Zenon

-----------------------------------------------------------------------------
(* A voltage that lags and droops.                                         *)

(* The distances of successive polls from the one after them, of which one *)
(* may be missing.                                                         *)
LEMMA SumOfDistances ==
  ASSUME NEW first \in Nat \ {0}, NEW i \in Nat, first < i, NEW k \in Int,
         NEW W, W = (first .. i - 1) \ {k}, NEW f, f = [j \in W |-> i - j]
  PROVE  2 * SumUpTo(f)[i - 1] =
           (i - first) * (i - first + 1) - (IF k \in first .. i - 1 THEN 2 * (i - k) ELSE 0)
<1> DEFINE F    == SumUpTo(f)
           gone(t) == IF k \in first .. t THEN 2 * (i - k) ELSE 0
           full(t) == (t - first + 1) * (2 * i - t - first)
           S    == {t \in Nat : /\ t < first => F[t] = 0
                                /\ first <= t /\ t < i => 2 * F[t] = full(t) - gone(t)}
<1>1. /\ F[0] = 0
      /\ \A t \in Nat : F[t] \in Int
      /\ \A t \in Nat : F[t + 1] = F[t] + Term(f, t + 1)
  <2>1. \A j \in DOMAIN f : f[j] \in Int
    OBVIOUS
  <2> QED
    BY <2>1, SumSteps
<1> HIDE DEF F
<1>2. 0 \in S
  BY <1>1
<1>3. ASSUME NEW t \in S PROVE t + 1 \in S
  <2>1. F[t] \in Int /\ F[t + 1] = F[t] + Term(f, t + 1)
    BY <1>1
  <2>2. CASE t + 1 < first
    <3>1. Term(f, t + 1) = 0
      BY <2>2 DEF Term
    <3> QED
      BY <2>1, <2>2, <3>1
  <2>3. CASE first <= t + 1 /\ t + 1 < i
    <3>1. Term(f, t + 1) = IF t + 1 = k THEN 0 ELSE i - (t + 1)
      BY <2>3 DEF Term
    <3>2. 2 * F[t] = full(t) - gone(t)
      <4>1. CASE t < first
        <5>1. t + 1 = first /\ F[t] = 0
          BY <2>3, <4>1
        <5>2. full(t) = 0 * (2 * i - t - first) /\ gone(t) = 0
          BY <5>1
        <5> QED
          BY <5>1, <5>2
      <4>2. CASE ~(t < first)
        BY <2>3, <4>2
      <4> QED
        BY <4>1, <4>2
    <3>3. gone(t + 1) = gone(t) + (IF t + 1 = k THEN 2 * (i - (t + 1)) ELSE 0)
      BY <2>3
    <3>4. full(t + 1) = full(t) + 2 * (i - (t + 1))
      <4>1. (t + 1 - first + 1) * (2 * i - (t + 1) - first) = (t - first + 1) * (2 * i - t - first) + 2 * (i - (t + 1))
        OBVIOUS
      <4> QED
        BY <4>1
    <3>5. full(t) \in Int /\ gone(t) \in Int
      OBVIOUS
    <3> HIDE DEF full, gone
    <3>6. 2 * F[t + 1] = full(t + 1) - gone(t + 1)
      BY <2>1, <3>1, <3>2, <3>3, <3>4, <3>5
    <3> QED
      BY <2>3, <3>6
  <2>4. CASE i <= t + 1
    BY <2>4
  <2> QED
    BY <2>2, <2>3, <2>4
<1> HIDE DEF S, full, gone
<1>4. S = Nat
  <2>1. S \in SUBSET Nat
    BY DEF S
  <2> QED
    BY <1>2, <1>3, <2>1, Induction
<1>5. 2 * F[i - 1] = full(i - 1) - gone(i - 1)
  <2>1. i - 1 \in S /\ first <= i - 1 /\ i - 1 < i
    BY <1>4
  <2> QED
    BY <2>1 DEF S
<1>6. full(i - 1) = (i - first) * (i - first + 1)
  <2>1. (i - 1 - first + 1) * (2 * i - (i - 1) - first) = (i - first) * (i - first + 1)
    OBVIOUS
  <2> QED
    BY <2>1 DEF full
<1> QED
  BY <1>5, <1>6 DEF F, gone

LEMMA CountOfPolls ==
  ASSUME NEW first \in Nat, NEW i \in Nat, first < i, NEW k \in Int
  PROVE  Cardinality((first .. i - 1) \ {k}) = (i - first) - (IF k \in first .. i - 1 THEN 1 ELSE 0)
<1> DEFINE A == first .. i - 1
<1>1. IsFiniteSet(A) /\ Cardinality(A) = i - first
  BY FS_Interval
<1> HIDE DEF A
<1>2. CASE k \in A
  <2>1. Cardinality(A \ {k}) = Cardinality(A) - 1
    BY <1>1, <1>2, FS_RemoveElement
  <2> QED
    BY <1>1, <1>2, <2>1 DEF A
<1>3. CASE k \notin A
  <2>1. A \ {k} = A
    BY <1>3
  <2>2. Cardinality(A \ {k}) = i - first
    BY <1>1, <2>1
  <2> QED
    BY <1>3, <2>2 DEF A
<1> QED
  BY <1>2, <1>3

(* The polls before a transition between plateaus are first to i - 1, but  *)
(* for one at most; and then none is missing after it.                     *)
LEMMA PollsAround ==
  ASSUME NEW s \in Signal, NEW i, NEW pre, NEW post, NEW first, NEW last,
         Surrounds(s, Used(s), i, pre, post, first, last),
         PlateausSeen(s, i, pre, first, last)
  PROVE  LET m == i - first
             c == s.cadence
             P == PlateauDuration
             G == MaxGap
             L == Time(s, last) - Time(s, i)
         IN  /\ first \in Nat \ {0} /\ i \in Nat /\ first < i /\ L \in Nat
             /\ \E k \in Int :
                  /\ pre = (first .. i - 1) \ {k}
                  /\ \/ k \notin first .. i - 1 /\ (m - 1) * c < P /\ c <= G /\ L < P + G
                     \/ k \in first .. i - 1 /\ m >= 3 /\ (m - 2) * c < P /\ 2 * c <= G /\ L < P + c
<1> DEFINE E == Used(s)
           c == s.cadence
           P == PlateauDuration
           G == MaxGap
           m == i - first
           L == Time(s, last) - Time(s, i)
           k == IF s.odd \in {"lost", "LB"} THEN s.oddAt ELSE 0
<1>1. c \in Nat \ {0} /\ s.oddAt \in Nat \ {0} /\ P \in Nat \ {0} /\ G \in Nat \ {0} /\ k \in Nat
  BY SignalType, LoadStepAssumption
<1>2. /\ first \in E /\ last \in E /\ i \in E /\ first < i /\ i <= last
      /\ pre = {j \in E : first <= j /\ j < i} /\ post = {j \in E : i <= j /\ j <= last}
      /\ \A j \in pre : j # first => Time(s, i) - Time(s, j) < P
      /\ \A j \in post : j # last => Time(s, j) - Time(s, i) < P
  BY Zenon DEF Surrounds
<1>3. /\ Time(s, i) - Time(s, first) >= P /\ L >= P
      /\ Unbroken(s, first, last)
  BY DEF PlateausSeen
<1>4. /\ \A j \in E : j \in Nat \ {0} /\ Time(s, j) \in Nat
      /\ \A j, l \in E : j < l <=> Time(s, j) < Time(s, l)
      /\ \A j, l \in E : j <= l <=> Time(s, j) <= Time(s, l)
  BY TimesOfUsed
<1>5. E = {j \in 1 .. Polls(s) : j # k} /\ Polls(s) \in Nat
  <2>1. E = {j \in 1 .. Polls(s) : ~(j = s.oddAt /\ s.odd \in {"lost", "LB"})}
    BY DEF Used
  <2>2. Polls(s) \in Nat
    BY SurroundsType
  <2> QED
    BY <1>1, <2>1, <2>2
<1>6. ASSUME NEW j \in Int, NEW l \in Int PROVE Time(s, l) - Time(s, j) = (l - j) * c
  <2>1. s.phase \in Nat
    BY SignalType
  <2> DEFINE p == s.phase
  <2> HIDE DEF p, c
  <2>2. (p + (l - 1) * c) - (p + (j - 1) * c) = (l - j) * c
    BY <1>1, <2>1 DEF p
  <2> QED
    BY <2>2, Zenon DEF Time, p, c
<1>7. L \in Nat /\ i < last
  BY <1>1, <1>2, <1>3, <1>4
<1> HIDE DEF E, k
<1>8. \A j \in Int : first <= j /\ j <= last /\ j # k => j \in E
  BY <1>1, <1>2, <1>4, <1>5
<1>9. k \notin E
  BY <1>5
<1>10. pre = (first .. i - 1) \ {k}
  BY <1>1, <1>2, <1>4, <1>8, <1>9
<1>11. ASSUME NEW j \in E, first <= j, j < last
       PROVE  \E l \in E : j < l /\ (l - j) * c <= G
  <2>1. PICK l \in E : Time(s, j) < Time(s, l) /\ Time(s, l) <= Time(s, j) + MaxGap
    BY <1>3, <1>11 DEF Unbroken, E
  <2>2. j < l
    BY <1>4, <2>1
  <2>3. Time(s, l) - Time(s, j) = (l - j) * c
    BY <1>4, <1>6
  <2> QED
    BY <1>1, <1>4, <2>1, <2>2, <2>3
<1>12. \A p, q \in Int : p <= q => p * c <= q * c
  BY <1>1
<1>13. c <= G
  <2>1. PICK l \in E : first < l /\ (l - first) * c <= G
    <3>1. first < last /\ first <= first
      BY <1>2, <1>4
    <3> QED
      BY <1>2, <1>11, <3>1
  <2>2. 1 * c <= (l - first) * c
    BY <1>2, <1>4, <1>12, <2>1
  <2>3. 1 * c = c /\ (l - first) * c \in Int
    BY <1>1, <1>2, <1>4
  <2> QED
    BY <1>1, <2>1, <2>2, <2>3
<1>14. m >= 2
  <2>1. m * c = Time(s, i) - Time(s, first)
    BY <1>2, <1>4, <1>6
  <2>2. m \in Nat /\ m >= 1
    BY <1>2, <1>4
  <2>3. m = 1 => m * c = c
    BY <1>1
  <2> QED
    BY <1>1, <1>2, <1>3, <1>4, <1>13, <2>1, <2>2, <2>3, WindowsAreFilled
<1>15. CASE k \notin first .. i - 1
  <2>1. first + 1 \in pre
    BY <1>2, <1>4, <1>10, <1>14, <1>15
  <2>2. Time(s, i) - Time(s, first + 1) < P
    BY <1>2, <1>4, <2>1
  <2>3. (m - 1) * c < P
    <3>1. i \in Int /\ first + 1 \in Int /\ i - (first + 1) = m - 1
      BY <1>2, <1>4
    <3> QED
      BY <1>6, <2>2, <3>1
  <2>4. L < P + G
    <3> DEFINE before == {j \in E : i <= j /\ j < last}
    <3>1. i \in before /\ before \in SUBSET Nat /\ last \in Nat /\ \A j \in before : j <= last
      BY <1>2, <1>4, <1>7
    <3>2. PICK j \in before : \A l \in before : l <= j
      BY <3>1, GreatestNumber
    <3>3. j \in E /\ i <= j /\ j < last /\ j \in post
      BY <1>2, <1>4, <3>2
    <3>4. Time(s, j) - Time(s, i) < P
      BY <1>2, <1>4, <3>3
    <3>5. PICK l \in E : Time(s, j) < Time(s, l) /\ Time(s, l) <= Time(s, j) + MaxGap
      <4>1. first <= j
        BY <1>2, <1>4, <3>3
      <4> QED
        BY <1>3, <3>3, <4>1 DEF Unbroken, E
    <3>6. last <= l
      <4>1. j < l
        BY <1>4, <3>3, <3>5
      <4>2. CASE l < last
        <5>1. l \in before
          BY <1>2, <1>4, <3>3, <4>1, <4>2
        <5> QED
          BY <1>4, <3>2, <3>3, <4>1, <5>1
      <4> QED
        BY <1>2, <1>4, <4>2
    <3>7. Time(s, last) <= Time(s, l)
      BY <1>2, <1>4, <3>6
    <3> QED
      BY <1>1, <1>2, <1>4, <3>3, <3>4, <3>5, <3>7
  <2> QED
    BY <1>2, <1>4, <1>7, <1>10, <1>13, <1>15, <2>3, <2>4
<1>16. CASE k \in first .. i - 1
  <2>1. first < k /\ k < i /\ k \in Nat
    BY <1>2, <1>4, <1>9, <1>16
  <2>2. k - 1 \in E /\ first <= k - 1 /\ k - 1 < last
    BY <1>2, <1>4, <1>8, <2>1
  <2>3. PICK l \in E : k - 1 < l /\ (l - (k - 1)) * c <= G
    BY <1>11, <2>2
  <2>4. l - (k - 1) >= 2
    BY <1>4, <1>9, <2>1, <2>3
  <2>5. 2 * c <= G
    <3>1. 2 * c <= (l - (k - 1)) * c
      BY <1>4, <1>12, <2>1, <2>4
    <3>2. (l - (k - 1)) * c \in Int
      BY <1>1, <1>4, <2>1
    <3> QED
      BY <1>1, <2>3, <3>1, <3>2
  <2>6. m >= 3
    <3>1. m * c = Time(s, i) - Time(s, first)
      BY <1>2, <1>4, <1>6
    <3>2. m \in Nat
      BY <1>2, <1>4
    <3>3. m = 2 => m * c = 2 * c
      BY <1>1
    <3> QED
      BY <1>1, <1>2, <1>3, <1>4, <1>14, <2>5, <3>1, <3>2, <3>3, WindowsAreFilled
  <2>7. (m - 2) * c < P
    <3>1. PICK d \in {first + 1, first + 2} : d \in pre
      BY <1>2, <1>4, <1>10, <2>6
    <3>2. d # first /\ d \in Int /\ i - d >= m - 2 /\ i - d \in Int
      BY <1>2, <1>4, <3>1
    <3>3. (i - d) * c < P
      <4>1. Time(s, i) - Time(s, d) < P
        BY <1>2, <3>1, <3>2
      <4>2. Time(s, i) - Time(s, d) = (i - d) * c
        BY <1>2, <1>4, <1>6, <3>2
      <4> QED
        BY <4>1, <4>2
    <3>4. (m - 2) * c <= (i - d) * c
      BY <1>2, <1>4, <1>12, <3>2
    <3>5. (m - 2) * c \in Int /\ (i - d) * c \in Int
      BY <1>1, <1>2, <1>4, <3>2
    <3> QED
      BY <1>1, <3>3, <3>4, <3>5
  <2>8. L < P + c
    <3>1. last - 1 \in post /\ last - 1 # last
      BY <1>2, <1>4, <1>7, <1>8, <2>1
    <3>2. Time(s, last - 1) - Time(s, i) < P
      BY <1>2, <3>1
    <3>3. Time(s, last) - Time(s, last - 1) = c
      <4>1. last \in Int /\ last - 1 \in Int /\ last - (last - 1) = 1 /\ 1 * c = c
        BY <1>1, <1>2, <1>4
      <4> QED
        BY <1>6, <4>1
    <3>4. Time(s, last - 1) \in Nat
      BY <1>2, <1>4, <3>1
    <3> QED
      BY <1>1, <1>2, <1>4, <3>2, <3>3, <3>4
  <2> QED
    BY <1>2, <1>4, <1>7, <1>10, <1>16, <2>5, <2>6, <2>7, <2>8
<1> QED
  BY <1>15, <1>16 DEF E

(* How far two flat lines can drift between the plateaus: the arithmetic.  *)
LEMMA DriftOfAll ==
  ASSUME NEW m \in Nat, NEW c \in Nat, NEW P \in Nat \ {0}, NEW G \in Nat, NEW L \in Nat, NEW S \in Nat,
         (m - 1) * c < P, c <= G, L < P + G, 3 * P + 2 * G <= 2 * S
  PROVE  c * (m * (m + 1)) + 2 * (m * L) <= 2 * ((m + 1) * S)
<1> DEFINE d == (m - 1) * c
           mL == m * L
           mS == m * S
           mP == m * P
           mc == m * c
           md == m * d
<1>1. /\ d \in Int /\ mL \in Int /\ mS \in Int /\ mP \in Int /\ mc \in Int /\ md \in Int
  OBVIOUS
<1>2. c * (m * (m + 1)) = md + 2 * mc
  OBVIOUS
<1>3. md <= m * (P - 1)
  OBVIOUS
<1>4. m * (P - 1) = mP - m
  OBVIOUS
<1>5. 2 * mL <= m * (2 * S - P - 2)
  <2>1. 2 * L <= 2 * S - P - 2
    OBVIOUS
  <2>2. \A p, q \in Int : p <= q => m * p <= m * q
    OBVIOUS
  <2>3. m * (2 * L) <= m * (2 * S - P - 2)
    BY <2>1, <2>2
  <2>4. m * (2 * L) = 2 * mL
    OBVIOUS
  <2> QED
    BY <2>3, <2>4
<1>6. m * (2 * S - P - 2) = 2 * mS - (mP + 2 * m)
  OBVIOUS
<1>7. mc <= S
  <2>1. mc = d + c
    OBVIOUS
  <2> QED
    BY <1>1, <2>1
<1>8. (m + 1) * S = mS + S
  OBVIOUS
<1> HIDE DEF d, mL, mS, mP, mc, md
<1>9. md + 2 * mc + 2 * mL <= 2 * (mS + S)
  BY <1>1, <1>3, <1>4, <1>5, <1>6, <1>7
<1> QED
  BY <1>2, <1>8, <1>9 DEF mL

LEMMA DriftWithoutOne ==
  ASSUME NEW m \in Nat, m >= 1, NEW c \in Nat, NEW P \in Nat \ {0}, NEW G \in Nat,
         NEW L \in Nat, NEW S \in Nat, NEW j \in Nat \ {0},
         (m - 2) * c < P, 2 * c <= G, L < P + c, 3 * P + 2 * G <= 2 * S
  PROVE  c * (m * (m + 1) - 2 * j) + 2 * ((m - 1) * L) <= 2 * (m * S)
<1> DEFINE n  == m - 1
           d  == (m - 2) * c
           nL == n * L
           nS == n * S
           nP == n * P
           nc == n * c
           nd == n * d
<1>1. /\ n \in Nat /\ d \in Int /\ nL \in Int /\ nS \in Int /\ nP \in Int /\ nc \in Int /\ nd \in Int
  OBVIOUS
<1>2. c * (m * (m + 1) - 2 * j) <= nd + 4 * nc
  <2>1. c * (m * (m + 1) - 2) = nd + 4 * nc
    OBVIOUS
  <2>2. m * (m + 1) - 2 * j <= m * (m + 1) - 2 /\ m * (m + 1) \in Int
    OBVIOUS
  <2>3. \A p, q \in Int : p <= q => c * p <= c * q
    OBVIOUS
  <2> QED
    BY <2>1, <2>2, <2>3
<1>3. nd <= n * (P - 1) /\ n * (P - 1) = nP - n
  OBVIOUS
<1>4. 2 * nL <= n * (2 * S - P - 2 - 2 * c)
  <2>1. 2 * L <= 2 * S - P - 2 - 2 * c
    OBVIOUS
  <2>2. \A p, q \in Int : p <= q => n * p <= n * q
    BY <1>1
  <2>3. n * (2 * L) <= n * (2 * S - P - 2 - 2 * c)
    BY <2>1, <2>2
  <2>4. n * (2 * L) = 2 * nL
    OBVIOUS
  <2> QED
    BY <2>3, <2>4
<1>5. n * (2 * S - P - 2 - 2 * c) = 2 * nS - (nP + 2 * n + 2 * nc)
  OBVIOUS
<1>6. nc <= S
  <2>1. nc = d + c
    OBVIOUS
  <2> QED
    BY <1>1, <2>1
<1>7. m * S = nS + S
  OBVIOUS
<1>8. c * (m * (m + 1) - 2 * j) \in Int
  OBVIOUS
<1> DEFINE z == c * (m * (m + 1) - 2 * j)
<1> HIDE DEF n, d, nL, nS, nP, nc, nd
<1>9. z \in Int /\ z <= nd + 4 * nc
  BY <1>2, <1>8
<1> HIDE DEF z
<1>10. z + 2 * nL <= 2 * (nS + S)
  BY <1>1, <1>3, <1>4, <1>5, <1>6, <1>9
<1> QED
  BY <1>7, <1>10, Zenon DEF z, nL, n

(* The distances of the samples before the transition, and as often the    *)
(* length of what follows it.                                              *)
LEMMA DriftIsSmall ==
  ASSUME NEW s \in Signal, NEW i, NEW pre, NEW post, NEW first, NEW last,
         Surrounds(s, Used(s), i, pre, post, first, last),
         PlateausSeen(s, i, pre, first, last),
         NEW x, x = [j \in pre |-> Time(s, j) - Time(s, i)]
  PROVE  LET n  == Cardinality(pre)
             sx == SumUpTo(x)[Max(pre)]
             L  == Time(s, last) - Time(s, i)
         IN  /\ n \in Nat \ {0} /\ sx \in Int /\ L \in Nat
             /\ sx <= 0 /\ L <= SlopeSeconds
             /\ n * L - sx <= (n + 1) * SlopeSeconds
<1> DEFINE m == i - first
           c == s.cadence
           P == PlateauDuration
           G == MaxGap
           S == SlopeSeconds
           L == Time(s, last) - Time(s, i)
           top == Max(pre)
<1>1. /\ first \in Nat \ {0} /\ i \in Nat /\ first < i /\ L \in Nat
      /\ \E k \in Int :
           /\ pre = (first .. i - 1) \ {k}
           /\ \/ k \notin first .. i - 1 /\ (m - 1) * c < P /\ c <= G /\ L < P + G
              \/ k \in first .. i - 1 /\ m >= 3 /\ (m - 2) * c < P /\ 2 * c <= G /\ L < P + c
  BY PollsAround
<1>2. PICK k \in Int :
           /\ pre = (first .. i - 1) \ {k}
           /\ \/ k \notin first .. i - 1 /\ (m - 1) * c < P /\ c <= G /\ L < P + G
              \/ k \in first .. i - 1 /\ m >= 3 /\ (m - 2) * c < P /\ 2 * c <= G /\ L < P + c
  BY <1>1
<1>3. c \in Nat \ {0} /\ P \in Nat \ {0} /\ G \in Nat \ {0} /\ S \in Nat \ {0} /\ 3 * P + 2 * G <= 2 * S
  BY SignalType, LoadStepAssumption, DriftsAreSmall
<1> DEFINE f == [j \in pre |-> i - j]
           gone == IF k \in first .. i - 1 THEN 2 * (i - k) ELSE 0
           n == Cardinality(pre)
<1>4. 2 * SumUpTo(f)[i - 1] = m * (m + 1) - gone
  BY <1>1, <1>2, SumOfDistances
<1>5. n = m - (IF k \in first .. i - 1 THEN 1 ELSE 0)
  BY <1>1, <1>2, CountOfPolls
<1>6. pre \in SUBSET (1 .. i - 1) /\ pre \in SUBSET Nat /\ first \in Nat /\ m \in Nat \ {0} /\ pre # {}
  <2>1. first \in pre
    BY SurroundsType
  <2> QED
    BY <1>1, <1>2, <2>1
<1>7. /\ f \in [pre -> Int] /\ x \in [pre -> Int]
      /\ \A j \in pre : x[j] = (-c) * f[j] + 0 * f[j] /\ x[j] <= 0
  <2>1. ASSUME NEW j \in pre PROVE Time(s, j) - Time(s, i) = (-c) * (i - j) /\ (-c) * (i - j) <= 0
    <3>1. s.phase \in Nat /\ j \in Int /\ j < i
      BY <1>2, <1>6, SignalType, SurroundsType
    <3> DEFINE p == s.phase
    <3> HIDE DEF p, c
    <3>2. (p + (j - 1) * c) - (p + (i - 1) * c) = (-c) * (i - j)
      BY <1>1, <1>3, <3>1 DEF p
    <3>3. (-c) * (i - j) <= 0
      BY <1>1, <1>3, <3>1
    <3> QED
      BY <3>2, <3>3, Zenon DEF Time, p, c
  <2>2. \A j \in pre : i - j \in Int /\ (-c) * (i - j) \in Int /\ 0 * (i - j) = 0
    BY <1>1, <1>3, <1>6
  <2>3. \A j \in pre : x[j] = Time(s, j) - Time(s, i) /\ f[j] = i - j
    OBVIOUS
  <2>4. DOMAIN x = pre
    OBVIOUS
  <2> HIDE DEF f
  <2>5. \A j \in pre : x[j] = (-c) * f[j] + 0 * f[j] /\ x[j] <= 0 /\ x[j] \in Int /\ f[j] \in Int
    BY <2>1, <2>2, <2>3
  <2> QED
    BY <2>4, <2>5 DEF f
<1>8. top \in pre /\ (\A j \in pre : j <= top) /\ top \in Nat /\ n \in Nat \ {0}
  <2>1. i - 1 \in Nat
    BY <1>1
  <2>2. top \in pre /\ (\A j \in pre : j <= top) /\ n \in Nat \ {0}
    BY <1>6, <2>1, WindowCounts
  <2> QED
    BY <1>6, <2>2, Zenon
<1> HIDE DEF f, n, top
<1>9. \A t \in Nat : SumUpTo(f)[t] \in Int /\ SumUpTo(f)[t + 1] = SumUpTo(f)[t] + Term(f, t + 1)
  <2>1. \A j \in DOMAIN f : f[j] \in Int
    BY <1>7
  <2> QED
    BY <2>1, SumSteps
<1>10. SumUpTo(f)[top] = SumUpTo(f)[i - 1]
  <2>1. CASE top = i - 1
    BY <2>1
  <2>2. CASE top # i - 1
    <3>1. i - 1 \notin pre
      BY <1>1, <1>2, <1>6, <1>8, <2>2
    <3>2. k = i - 1 /\ m >= 3
      <4>1. i - 1 \in first .. i - 1
        BY <1>1
      <4>2. k = i - 1
        BY <1>2, <3>1, <4>1, Zenon
      <4> QED
        BY <1>2, <4>1, <4>2, Zenon
    <3>3. i - 2 \in pre
      <4>1. first \in Nat /\ i \in Nat
        BY <1>1, Zenon
      <4>2. i - 2 \in (first .. i - 1) \ {k}
        BY <3>2, <4>1
      <4> QED
        BY <1>2, <4>2, Zenon
    <3>4. top = i - 2
      <4>1. i \in Nat /\ pre \in SUBSET (1 .. i - 1) /\ top \in pre /\ i - 2 <= top
        BY <1>1, <1>6, <1>8, <3>3, Zenon
      <4> QED
        BY <2>2, <4>1
    <3>5. Term(f, i - 1) = 0
      BY <1>7, <3>1 DEF Term
    <3>6. i - 1 = top + 1
      BY <1>1, <3>4
    <3> QED
      BY <1>8, <1>9, <3>5, <3>6
  <2> QED
    BY <2>1, <2>2
<1> DEFINE sx == SumUpTo(x)[top]
           F  == SumUpTo(f)[top]
<1>11. sx = (-c) * F /\ F \in Int /\ sx \in Int
  <2>1. DOMAIN x = pre
    BY <1>7
  <2>2. Combines(x, -c, f, 0, f)
    BY <1>3, <1>6, <1>7, <2>1 DEF Combines
  <2>3. sx = (-c) * F + 0 * F
    BY <1>8, <2>2, SumLinear
  <2>4. F \in Int
    BY <1>8, <1>9
  <2> HIDE DEF F, sx
  <2>5. (-c) * F \in Int
    BY <1>3, <2>4
  <2> QED
    BY <2>3, <2>4, <2>5
<1>12. 2 * F = m * (m + 1) - gone
  BY <1>4, <1>10
<1>13. 2 * (-sx) = c * (m * (m + 1) - gone)
  <2> DEFINE w == m * (m + 1) - gone
  <2>1. 2 * (c * F) = c * (2 * F)
    BY <1>3, <1>11
  <2>2. -sx = c * F
    BY <1>3, <1>11
  <2> HIDE DEF F, sx, c, gone, m
  <2> QED
    BY <1>12, <2>1, <2>2
<1> HIDE DEF sx, F
<1>14. sx <= 0
  <2> DEFINE z == [j \in pre |-> 0]
  <2>1. z \in [pre -> Int] /\ \A j \in pre : z[j] = 0 /\ x[j] <= z[j]
    BY <1>7
  <2>2. \A j \in pre : z[j] = 0 * x[j] + 0 * x[j]
    BY <1>7
  <2>3. DOMAIN z = pre
    OBVIOUS
  <2> HIDE DEF z
  <2>4. SumUpTo(x)[top] <= SumUpTo(z)[top]
    BY <1>6, <1>7, <1>8, <2>1, SumMonotone
  <2>5. Combines(z, 0, x, 0, x)
    BY <1>6, <1>7, <2>1, <2>2, <2>3 DEF Combines
  <2>6. SumUpTo(z)[top] = 0 * SumUpTo(x)[top] + 0 * SumUpTo(x)[top]
    BY <1>8, <2>5, SumLinear
  <2> QED
    BY <1>11, <2>4, <2>6 DEF sx
<1>15. L <= S /\ n * L - sx <= (n + 1) * S
  <2> DEFINE nL == n * L
             nS == (n + 1) * S
  <2>1. nL \in Int /\ nS \in Int
    BY <1>1, <1>3, <1>8
  <2>2. 2 * (-sx) + 2 * nL <= 2 * nS /\ L <= S
    <3>1. CASE k \notin first .. i - 1
      <4>1. n = m /\ gone = 0 /\ (m - 1) * c < P /\ c <= G /\ L < P + G
        BY <1>2, <1>5, <1>6, <3>1
      <4>2. m \in Nat /\ c \in Nat /\ P \in Nat \ {0} /\ G \in Nat /\ S \in Nat
        BY <1>3, <1>6
      <4>3. c * (m * (m + 1)) + 2 * (m * L) <= 2 * ((m + 1) * S)
        BY <1>1, <1>3, <4>1, <4>2, DriftOfAll
      <4>4. m * (m + 1) - 0 = m * (m + 1)
        BY <4>2
      <4>5. 2 * (-sx) = c * (m * (m + 1))
        BY <1>13, <4>1, <4>4
      <4>6. L <= S
        BY <1>1, <1>3, <4>1
      <4> HIDE DEF m, c, P, G, S, L, gone
      <4> QED
        BY <4>1, <4>3, <4>5, <4>6
    <3>2. CASE k \in first .. i - 1
      <4>1. /\ n = m - 1 /\ gone = 2 * (i - k) /\ (m - 2) * c < P /\ 2 * c <= G /\ L < P + c
            /\ i - k \in Nat \ {0} /\ m >= 1
        BY <1>1, <1>2, <1>5, <1>6, <3>2
      <4>2. m \in Nat /\ c \in Nat /\ P \in Nat \ {0} /\ G \in Nat /\ S \in Nat
        BY <1>3, <1>6
      <4>3. c * (m * (m + 1) - 2 * (i - k)) + 2 * ((m - 1) * L) <= 2 * (m * S)
        BY <1>1, <1>3, <4>1, <4>2, DriftWithoutOne
      <4>4. n + 1 = m
        BY <4>1, <4>2
      <4>5. L <= S
        BY <1>1, <1>3, <4>1
      <4> HIDE DEF m, c, P, G, S, L, gone
      <4>6. 2 * (-sx) = c * (m * (m + 1) - 2 * (i - k))
        BY <1>13, <4>1
      <4> QED
        BY <4>1, <4>3, <4>4, <4>5, <4>6
    <3> QED
      BY <3>1, <3>2
  <2> HIDE DEF nL, nS
  <2>3. nL - sx <= nS
    BY <1>11, <2>1, <2>2
  <2> QED
    BY <2>2, <2>3, Zenon DEF nL, nS
<1> QED
  BY <1>1, <1>8, <1>11, <1>14, <1>15 DEF n, sx, top

-----------------------------------------------------------------------------
(* What the windows measure of a voltage that lags and droops.             *)
Drooped(s, t) == IF t >= s.droop THEN 1 ELSE 0
Dropped(s, t) == IF t - s.lag >= s.rise THEN s.drop ELSE 0

LEMMA SamplesSeen ==
  ASSUME NEW s \in Signal, NEW i, NEW pre, NEW post, NEW first, NEW last,
         Surrounds(s, Used(s), i, pre, post, first, last),
         PlateausSeen(s, i, pre, first, last)
  PROVE  /\ \A j \in pre : /\ Rows(s)[j].load = s.base
                           /\ Rows(s)[j].v = 130 - Drooped(s, Time(s, j))
         /\ \A j \in post : /\ Rows(s)[j].load = s.base + s.step
                            /\ Rows(s)[j].v = 130 - Dropped(s, Time(s, j)) - Drooped(s, Time(s, j))
<1>1. /\ pre \in SUBSET Used(s) /\ post \in SUBSET Used(s) /\ last \in Used(s) /\ i \in Used(s)
      /\ \A j \in post : i <= j /\ j <= last
  BY SurroundsType
<1>2. /\ s.base \in Nat /\ s.step \in Nat /\ s.drop \in Nat /\ s.rise \in Nat /\ s.fall \in Nat
      /\ s.lag \in Nat /\ s.droop \in Nat
  BY SignalType
<1>3. /\ \A j \in pre : Time(s, j) < s.rise
      /\ s.rise <= Time(s, i) /\ Time(s, last) < s.fall
  BY DEF PlateausSeen
<1>4. /\ \A j \in Used(s) : Time(s, j) \in Nat
      /\ \A j, k \in Used(s) : j <= k <=> Time(s, j) <= Time(s, k)
  BY TimesOfUsed
<1>5. ASSUME NEW j \in pre
      PROVE  Rows(s)[j].load = s.base /\ Rows(s)[j].v = 130 - Drooped(s, Time(s, j))
  <2>1. Time(s, j) < s.rise /\ j \in Used(s) /\ Time(s, j) \in Nat
    BY <1>1, <1>3, <1>4
  <2>2. ~High(s, Time(s, j)) /\ ~High(s, Time(s, j) - s.lag)
    BY <1>2, <2>1 DEF High
  <2>3. Voltage(s, Time(s, j)) = 130 - Drooped(s, Time(s, j))
    BY <1>2, <2>1, <2>2 DEF Voltage, Drooped
  <2> QED
    BY <2>1, <2>2, <2>3, RowsOfUsed, LoadsOfUsed
<1>6. ASSUME NEW j \in post
      PROVE  /\ Rows(s)[j].load = s.base + s.step
             /\ Rows(s)[j].v = 130 - Dropped(s, Time(s, j)) - Drooped(s, Time(s, j))
  <2>1. j \in Used(s) /\ i <= j /\ j <= last /\ Time(s, j) \in Nat
    BY <1>1, <1>4
  <2>2. Time(s, i) <= Time(s, j) /\ Time(s, j) <= Time(s, last)
    BY <1>1, <1>4, <2>1
  <2>3. High(s, Time(s, j)) /\ (High(s, Time(s, j) - s.lag) <=> Time(s, j) - s.lag >= s.rise)
    BY <1>1, <1>2, <1>3, <1>4, <2>1, <2>2 DEF High
  <2>4. Voltage(s, Time(s, j)) = 130 - Dropped(s, Time(s, j)) - Drooped(s, Time(s, j))
    BY <1>2, <2>1, <2>3 DEF Voltage, Drooped, Dropped
  <2> QED
    BY <2>1, <2>3, <2>4, RowsOfUsed, LoadsOfUsed
<1> QED
  BY <1>5, <1>6

LEMMA LoadsSeen ==
  ASSUME NEW s \in Signal, NEW i, NEW pre, NEW post, NEW first, NEW last,
         Surrounds(s, Used(s), i, pre, post, first, last),
         PlateausSeen(s, i, pre, first, last)
  PROVE  TwiceMedian(Rows(s), post) - TwiceMedian(Rows(s), pre) = 2 * s.step
<1> DEFINE rows == Rows(s)
<1>1. /\ Polls(s) \in Nat /\ pre \in SUBSET (1 .. Polls(s)) /\ pre # {}
      /\ post \in SUBSET (1 .. Polls(s)) /\ post # {}
  BY SurroundsType
<1>2. /\ \A j \in pre : rows[j].load = s.base
      /\ \A j \in post : rows[j].load = s.base + s.step
      /\ s.base \in Nat /\ s.base + s.step \in Nat /\ s.step \in Nat
  BY SamplesSeen, SignalType
<1> HIDE DEF rows
<1>3. /\ \A j \in pre : rows[j].load \in 0 .. s.base
      /\ \A j \in post : rows[j].load \in 0 .. s.base + s.step
  BY <1>2
<1>4. PICK j \in pre, k \in pre : TwiceMedian(rows, pre) = rows[j].load + rows[k].load
  BY <1>1, <1>2, <1>3, MedianOfSamples
<1>5. PICK l \in post, m \in post : TwiceMedian(rows, post) = rows[l].load + rows[m].load
  BY <1>1, <1>2, <1>3, MedianOfSamples
<1>6. TwiceMedian(rows, pre) = 2 * s.base /\ TwiceMedian(rows, post) = 2 * (s.base + s.step)
  BY <1>2, <1>4, <1>5
<1> QED
  BY <1>2, <1>6 DEF rows

(* A line that is fitted to one of the windows, and falls.                 *)
Distances(s, W, i) == [j \in W |-> Time(s, j) - Time(s, i)]
Quanta(s, W)       == [j \in W |-> Rows(s)[j].v - 120]

FallsThrough(s, W, i, line) ==
  /\ line.value \in Int /\ line.valueDen \in Nat \ {0} /\ line.slope \in Int /\ line.slope <= 0
  /\ \E g \in Nat \ {0} :
       /\ line.den = line.valueDen * g
       /\ Fitted(Polls(s), W, Distances(s, W, i), Quanta(s, W), line.slope, line.value * g, line.den)

LEMMA FittedLineFalls ==
  ASSUME NEW s \in Signal, NEW i \in Used(s), NEW W \in SUBSET Used(s),
         NEW first \in W, NEW second \in W, first < second,
         \A j \in W : Rows(s)[j].v \in Int,
         \A j, k \in W : j < k => Rows(s)[j].v >= Rows(s)[k].v
  PROVE  FallsThrough(s, W, i, LineAtTransition(Rows(s), W, i))
<1> DEFINE rows == Rows(s)
           line == LineAtTransition(rows, W, i)
           x    == Distances(s, W, i)
           y    == Quanta(s, W)
           N    == Polls(s)
<1>1. N \in Nat /\ W \in SUBSET (1 .. N)
  <2>1. Used(s) # {}
    OBVIOUS
  <2> QED
    BY <2>1, UsedPolls
<1>2. /\ \A j \in Used(s) : j \in Nat /\ Time(s, j) \in Nat
      /\ \A j, k \in Used(s) : j < k <=> Time(s, j) < Time(s, k)
  BY TimesOfUsed
<1>3. \A j \in Used(s) : rows[j].at = Time(s, j)
  BY RowsOfUsed
<1> HIDE DEF rows, N
<1>4. /\ rows[i].at \in Int /\ \A j \in W : rows[j].at \in Int /\ rows[j].v \in Int
      /\ \A j, k \in W : j < k => rows[j].at < rows[k].at
  BY <1>2, <1>3 DEF rows
<1>5. x = [j \in W |-> rows[j].at - rows[i].at] /\ y = [j \in W |-> rows[j].v - 120]
  BY <1>3 DEF Distances, Quanta, rows
<1>6. /\ line.value \in Int /\ line.valueDen \in Nat \ {0}
      /\ \E g \in Nat \ {0} :
           /\ line.den = line.valueDen * g
           /\ Fitted(N, W, [j \in W |-> rows[j].at - rows[i].at], [j \in W |-> rows[j].v - 120],
                     line.slope, line.value * g, line.den)
  BY <1>1, <1>4, LineIsFitted
<1> HIDE DEF x, y, line
<1>7. PICK g \in Nat \ {0} :
        line.den = line.valueDen * g /\ Fitted(N, W, x, y, line.slope, line.value * g, line.den)
  BY <1>5, <1>6, Zenon
<1>8. \A j, k \in W : j < k => y[j] >= y[k]
  BY <1>4 DEF y, rows, Quanta
<1>9. line.slope <= 0 /\ line.slope \in Int
  <2>1. line.slope <= 0
    BY <1>7, <1>8, FallingLine
  <2> QED
    BY <1>7, <2>1, Zenon DEF Fitted
<1> QED
  BY <1>6, <1>7, <1>9, Zenon DEF FallsThrough, x, y, N, line, rows

LEMMA QuantaSeen ==
  ASSUME NEW s \in Signal, NEW i, NEW pre, NEW post, NEW first, NEW last,
         Surrounds(s, Used(s), i, pre, post, first, last),
         PlateausSeen(s, i, pre, first, last)
  PROVE  LET L == Time(s, last) - Time(s, i)
             x == Distances(s, pre, i)
             z == Distances(s, post, i)
             y == Quanta(s, pre)
             v == Quanta(s, post)
         IN  /\ L \in Nat
             /\ \A j \in pre : x[j] \in Int /\ x[j] <= 0 /\ (y[j] = 9 \/ y[j] = 10)
             /\ \A j, k \in pre : j < k => y[j] >= y[k]
             /\ \A j \in post :
                  /\ z[j] \in 0 .. L
                  /\ z[j] < (s.rise + s.lag) - Time(s, i) => v[j] \in {9, 10}
                  /\ z[j] >= (s.rise + s.lag) - Time(s, i) => v[j] \in {9 - s.drop, 10 - s.drop}
             /\ \A j, k \in post : j < k => v[j] >= v[k]
             /\ \A j \in pre, k \in post :
                  y[j] = 9 => v[k] = 9 - (IF z[k] < (s.rise + s.lag) - Time(s, i) THEN 0 ELSE s.drop)
<1> DEFINE L == Time(s, last) - Time(s, i)
           x == Distances(s, pre, i)
           z == Distances(s, post, i)
           y == Quanta(s, pre)
           v == Quanta(s, post)
           at(j) == Time(s, j)
           c == s.rise + s.lag
           d == s.drop
<1>1. /\ pre \in SUBSET Used(s) /\ post \in SUBSET Used(s) /\ last \in Used(s) /\ i \in Used(s)
      /\ \A j \in pre : j < i
      /\ \A j \in post : i <= j /\ j <= last
  BY SurroundsType
<1>2. /\ d \in Nat /\ s.lag \in Nat /\ s.rise \in Nat /\ s.droop \in Nat /\ c \in Nat
  BY SignalType
<1>3. /\ \A j \in Used(s) : at(j) \in Nat
      /\ \A j, k \in Used(s) : j < k <=> at(j) < at(k)
      /\ \A j, k \in Used(s) : j <= k <=> at(j) <= at(k)
  BY TimesOfUsed
<1>4. /\ \A j \in pre : Rows(s)[j].v = 130 - Drooped(s, at(j))
      /\ \A j \in post : Rows(s)[j].v = 130 - Dropped(s, at(j)) - Drooped(s, at(j))
  BY SamplesSeen
<1>5. /\ \A j \in pre : x[j] = at(j) - at(i) /\ y[j] = Rows(s)[j].v - 120
      /\ \A j \in post : z[j] = at(j) - at(i) /\ v[j] = Rows(s)[j].v - 120
  BY DEF Distances, Quanta
<1>6. /\ \A j \in pre : y[j] = 10 - (IF at(j) >= s.droop THEN 1 ELSE 0)
      /\ \A j \in post : v[j] = 10 - (IF at(j) >= c THEN d ELSE 0) - (IF at(j) >= s.droop THEN 1 ELSE 0)
  <2>1. \A j \in post : at(j) - s.lag >= s.rise <=> at(j) >= c
    BY <1>1, <1>2, <1>3
  <2> HIDE DEF at, y, v, c
  <2>2. ASSUME NEW j \in pre PROVE y[j] = 10 - (IF at(j) >= s.droop THEN 1 ELSE 0)
    BY <1>4, <1>5 DEF Drooped
  <2>3. ASSUME NEW j \in post
        PROVE  v[j] = 10 - (IF at(j) >= c THEN d ELSE 0) - (IF at(j) >= s.droop THEN 1 ELSE 0)
    BY <1>2, <1>4, <1>5, <2>1 DEF Drooped, Dropped
  <2> QED
    BY <2>2, <2>3
<1> HIDE DEF x, y, z, v, at, c
<1>7. /\ \A j \in pre : at(j) \in Nat /\ at(j) < at(i)
      /\ \A j \in post : at(j) \in Nat /\ at(i) <= at(j) /\ at(j) <= at(last)
      /\ at(i) \in Nat /\ at(last) \in Nat
  BY <1>1, <1>3
<1>8. L \in Nat
  <2>1. i <= last
    BY DEF Surrounds
  <2> QED
    BY <1>1, <1>3, <1>7, <2>1 DEF at
<1>9. L = at(last) - at(i)
  BY DEF at
<1>10. \A j \in pre : x[j] \in Int /\ x[j] <= 0 /\ (y[j] = 9 \/ y[j] = 10)
  BY <1>5, <1>6, <1>7
<1>11. \A j, k \in pre : j < k => y[j] >= y[k]
  BY <1>1, <1>2, <1>3, <1>6
<1>12. ASSUME NEW j \in post
       PROVE  /\ z[j] \in 0 .. L
              /\ z[j] < c - at(i) <=> at(j) < c
              /\ z[j] < c - at(i) => v[j] \in {9, 10}
              /\ z[j] >= c - at(i) => v[j] \in {9 - d, 10 - d}
  <2> HIDE DEF L
  <2> QED
    BY <1>2, <1>5, <1>6, <1>7, <1>8, <1>9
<1>13. \A j, k \in post : j < k => v[j] >= v[k]
  BY <1>1, <1>2, <1>3, <1>6
<1>14. ASSUME NEW j \in pre, NEW k \in post, y[j] = 9
       PROVE  v[k] = 9 - (IF z[k] < c - at(i) THEN 0 ELSE d)
  <2>1. at(j) >= s.droop
    BY <1>2, <1>6, <1>7, <1>14
  <2>2. at(k) >= s.droop
    BY <1>2, <1>7, <2>1
  <2>3. v[k] = 10 - (IF at(k) >= c THEN d ELSE 0) - 1
    BY <1>6, <2>2
  <2> QED
    BY <1>2, <1>7, <1>12, <2>3
<1> QED
  BY <1>8, <1>10, <1>11, <1>12, <1>13, <1>14, Zenon DEF x, y, z, v, at, c

LEMMA LinesSeen ==
  ASSUME NEW s \in Signal, NEW i, NEW pre, NEW post, NEW first, NEW last,
         Surrounds(s, Used(s), i, pre, post, first, last),
         PlateausSeen(s, i, pre, first, last)
  PROVE  /\ FallsThrough(s, pre, i, LineAtTransition(Rows(s), pre, i))
         /\ FallsThrough(s, post, i, LineAtTransition(Rows(s), post, i))
<1>1. /\ pre \in SUBSET Used(s) /\ post \in SUBSET Used(s) /\ last \in post /\ i \in post
      /\ i \in Used(s) /\ first \in pre
      /\ \A j \in post : i <= j /\ j <= last
  BY SurroundsType
<1>2. /\ Time(s, i) - Time(s, first) >= PlateauDuration
      /\ Time(s, last) - Time(s, i) >= PlateauDuration
      /\ Unbroken(s, first, last)
  BY DEF PlateausSeen
<1>3. /\ \A j \in Used(s) : j \in Nat /\ Time(s, j) \in Nat
      /\ \A j, k \in Used(s) : j < k <=> Time(s, j) < Time(s, k)
  BY TimesOfUsed
<1>4. ASSUME NEW W, W = pre \/ W = post
      PROVE  /\ \A j \in W : Rows(s)[j].v \in Int
             /\ \A j, k \in W : j < k => Rows(s)[j].v >= Rows(s)[k].v
  <2>1. \A j \in W : Rows(s)[j].v \in Int
    BY <1>4, SamplesSeen, SignalType DEF Drooped, Dropped
  <2>2. \A j \in W : Quanta(s, W)[j] = Rows(s)[j].v - 120
    BY DEF Quanta
  <2>3. \A j, k \in W : j < k => Quanta(s, W)[j] >= Quanta(s, W)[k]
    BY <1>4, QuantaSeen
  <2> QED
    BY <2>1, <2>2, <2>3
<1>5. FallsThrough(s, pre, i, LineAtTransition(Rows(s), pre, i))
  <2>1. PICK k \in pre : Time(s, k) # Time(s, first)
    BY <1>2, TwoSamplesBefore
  <2>2. k < first \/ first < k
    BY <1>1, <1>3, <2>1
  <2> QED
    BY <1>1, <1>4, <2>2, FittedLineFalls
<1>6. FallsThrough(s, post, i, LineAtTransition(Rows(s), post, i))
  <2>1. i < last
    BY <1>1, <1>2, <1>3, LoadStepAssumption
  <2> QED
    BY <1>1, <1>4, <2>1, FittedLineFalls
<1> QED
  BY <1>5, <1>6

(* A positive factor of both sides. *)
LEMMA ScalesDown ==
  ASSUME NEW a \in Int, NEW b \in Int, NEW g \in Nat \ {0}, a * g <= b * g
  PROVE  a <= b
<1>1. a > b => a * g > b * g
  OBVIOUS
<1> QED
  BY <1>1

(* The line before the transition ends at most where the voltage began,    *)
(* and the one after it begins at least where the voltage ended.           *)
LEMMA SagAtMost ==
  ASSUME NEW s \in Signal, NEW i, NEW pre, NEW post, NEW first, NEW last,
         Surrounds(s, Used(s), i, pre, post, first, last),
         PlateausSeen(s, i, pre, first, last)
  PROVE  LET before == LineAtTransition(Rows(s), pre, i)
             after  == LineAtTransition(Rows(s), post, i)
         IN  /\ before.value <= 10 * before.valueDen
             /\ after.value >= (9 - s.drop) * after.valueDen
<1> DEFINE before == LineAtTransition(Rows(s), pre, i)
           after  == LineAtTransition(Rows(s), post, i)
           x == Distances(s, pre, i)
           z == Distances(s, post, i)
           y == Quanta(s, pre)
           v == Quanta(s, post)
           N == Polls(s)
<1> HIDE DEF before, after, N
<1>1. FallsThrough(s, pre, i, before) /\ FallsThrough(s, post, i, after)
  BY LinesSeen DEF before, after
<1>2. s.drop \in Nat
  BY SignalType
<1>3. /\ \A j \in pre : x[j] <= 0 /\ y[j] <= 10
      /\ \A j \in post : z[j] >= 0 /\ v[j] >= 9 - s.drop
  <2>1. \A j \in pre : x[j] \in Int /\ x[j] <= 0 /\ (y[j] = 9 \/ y[j] = 10)
    BY QuantaSeen
  <2>2. PICK L \in Nat, c \in Int :
          \A j \in post : /\ z[j] \in 0 .. L
                          /\ z[j] < c => v[j] \in {9, 10}
                          /\ z[j] >= c => v[j] \in {9 - s.drop, 10 - s.drop}
    <3>1. (s.rise + s.lag) - Time(s, i) \in Int /\ Time(s, last) - Time(s, i) \in Nat
      <4>1. i \in Used(s)
        BY SurroundsType
      <4> QED
        BY <4>1, QuantaSeen, SignalType, TimesOfUsed
    <3>2. \A j \in post : /\ z[j] \in 0 .. (Time(s, last) - Time(s, i))
                          /\ z[j] < (s.rise + s.lag) - Time(s, i) => v[j] \in {9, 10}
                          /\ z[j] >= (s.rise + s.lag) - Time(s, i) => v[j] \in {9 - s.drop, 10 - s.drop}
      BY QuantaSeen
    <3> QED
      BY <3>1, <3>2
  <2> HIDE DEF x, y, z, v
  <2>3. \A j \in post : z[j] >= 0 /\ v[j] >= 9 - s.drop
    BY <1>2, <2>2
  <2> QED
    BY <2>1, <2>3
<1> HIDE DEF x, y, z, v
<1>4. before.value <= 10 * before.valueDen
  <2>1. /\ before.slope <= 0 /\ before.value \in Int /\ before.valueDen \in Nat \ {0}
        /\ \E g \in Nat \ {0} : before.den = before.valueDen * g
             /\ Fitted(N, pre, x, y, before.slope, before.value * g, before.den)
    BY <1>1, Zenon DEF FallsThrough, x, y, N
  <2>2. PICK g \in Nat \ {0} : before.den = before.valueDen * g
             /\ Fitted(N, pre, x, y, before.slope, before.value * g, before.den)
    BY <2>1
  <2>3. before.value * g <= 10 * before.den
    BY <1>3, <2>1, <2>2, LineAfter
  <2>4. 10 * before.den = (10 * before.valueDen) * g /\ 10 * before.valueDen \in Int
    BY <2>1, <2>2
  <2> QED
    BY <2>1, <2>3, <2>4, ScalesDown
<1>5. after.value >= (9 - s.drop) * after.valueDen
  <2>1. /\ after.slope <= 0 /\ after.value \in Int /\ after.valueDen \in Nat \ {0}
        /\ \E g \in Nat \ {0} : after.den = after.valueDen * g
             /\ Fitted(N, post, z, v, after.slope, after.value * g, after.den)
    BY <1>1, Zenon DEF FallsThrough, z, v, N
  <2>2. PICK g \in Nat \ {0} : after.den = after.valueDen * g
             /\ Fitted(N, post, z, v, after.slope, after.value * g, after.den)
    BY <2>1
  <2> DEFINE b == 9 - s.drop
  <2>3. b \in Int
    BY <1>2
  <2>4. \A j \in post : z[j] >= 0 /\ v[j] >= b
    BY <1>3
  <2> HIDE DEF b
  <2>5. after.value * g >= b * after.den
    BY <2>1, <2>2, <2>3, <2>4, LineBefore
  <2>6. b * after.den = (b * after.valueDen) * g /\ b * after.valueDen \in Int
    BY <2>1, <2>2, <2>3
  <2>7. (b * after.valueDen) * g <= after.value * g
    BY <2>1, <2>3, <2>5, <2>6
  <2>8. b * after.valueDen <= after.value
    BY <2>1, <2>6, <2>7, ScalesDown
  <2> QED
    BY <2>1, <2>6, <2>8 DEF b
<1> QED
  BY <1>4, <1>5 DEF before, after

(* A flat line after the transition shows of the drop all but what         *)
(* SlopeSeconds of it can hide.                                            *)
LEMMA DropIsSeen ==
  ASSUME NEW s \in Signal, NEW i, NEW pre, NEW post, NEW first, NEW last,
         Surrounds(s, Used(s), i, pre, post, first, last),
         PlateausSeen(s, i, pre, first, last),
         NEW after, FallsThrough(s, post, i, after), (-after.slope) * SlopeSeconds <= after.den,
         after.value < 9 * after.valueDen,
         NEW b \in Int,
         \A j \in post : Distances(s, post, i)[j] >= (s.rise + s.lag) - Time(s, i)
                           => Quanta(s, post)[j] <= b
  PROVE  ~(SlopeSeconds * after.value - (Time(s, last) - Time(s, i)) * after.valueDen
             > SlopeSeconds * (b * after.valueDen))
<1> DEFINE z == Distances(s, post, i)
           v == Quanta(s, post)
           L == Time(s, last) - Time(s, i)
           c == (s.rise + s.lag) - Time(s, i)
           N == Polls(s)
           S == SlopeSeconds
           V == after.value
           D == after.valueDen
<1> SUFFICES ASSUME S * V - L * D > S * (b * D) PROVE FALSE
  OBVIOUS
<1>1. /\ L \in Nat
      /\ \A j \in post : z[j] \in 0 .. L
      /\ \A j \in post : z[j] < c => v[j] \in {9, 10}
  BY QuantaSeen
<1>2. c \in Int
  <2>1. i \in Used(s)
    BY SurroundsType
  <2> QED
    BY <2>1, SignalType, TimesOfUsed
<1>3. \A j \in post : z[j] >= c => v[j] <= b
  OBVIOUS
<1>4. S \in Nat \ {0}
  BY LoadStepAssumption
<1> HIDE DEF z, v, L, c, N, S
<1>5. /\ after.slope <= 0 /\ after.slope \in Int /\ V \in Int /\ D \in Nat \ {0}
      /\ \E g \in Nat \ {0} : after.den = D * g /\ Fitted(N, post, z, v, after.slope, V * g, after.den)
  BY Zenon DEF FallsThrough, z, v, N
<1>6. PICK g \in Nat \ {0} : after.den = D * g /\ Fitted(N, post, z, v, after.slope, V * g, after.den)
  BY <1>5
<1>7. V * g < 9 * after.den
  <2>1. \A k \in Int : V < k => V * g < k * g
    BY <1>5
  <2>2. (9 * D) * g = 9 * (D * g) /\ 9 * D \in Int
    BY <1>5
  <2> QED
    BY <1>6, <2>1, <2>2
<1>8. S * (V * g) - L * after.den > S * (b * after.den)
  <2>1. \A x, y \in Int : x > y => x * g > y * g
    OBVIOUS
  <2>2. S * V - L * D \in Int /\ S * (b * D) \in Int
    BY <1>1, <1>4, <1>5
  <2>3. (S * V - L * D) * g > (S * (b * D)) * g
    BY <2>1, <2>2
  <2>4. (S * V - L * D) * g = S * (V * g) - L * (D * g)
    BY <1>1, <1>4, <1>5
  <2>5. (S * (b * D)) * g = S * (b * (D * g))
    BY <1>4, <1>5
  <2> QED
    BY <1>6, <2>3, <2>4, <2>5
<1>9. \A j \in post : (z[j] < c => v[j] >= 9) /\ (z[j] >= c => v[j] <= b)
  BY <1>1, <1>3
<1>10. (-after.slope) * S <= after.den
  BY DEF S
<1> DEFINE U == V * g
           E == after.den
           a == after.slope
<1>11. /\ Fitted(N, post, z, v, a, U, E) /\ a <= 0 /\ (-a) * S <= E
       /\ U < 9 * E /\ S * U - L * E > S * (b * E)
  BY <1>5, <1>6, <1>7, <1>8, <1>10
<1> HIDE DEF U, E, a
<1>12. 9 \in Int /\ \A j \in post : z[j] \in 0 .. L
  BY <1>1
<1> QED
  BY <1>1, <1>2, <1>4, <1>9, <1>11, <1>12, NoCrossing

(* The line through samples of one voltage ends in it; through a mixture,  *)
(* it ends the higher the farther its samples are from the transition.     *)
LEMMA VoltageBefore ==
  ASSUME NEW s \in Signal, NEW i, NEW pre, NEW post, NEW first, NEW last,
         Surrounds(s, Used(s), i, pre, post, first, last),
         PlateausSeen(s, i, pre, first, last),
         LET before == LineAtTransition(Rows(s), pre, i)
         IN  (-before.slope) * SlopeSeconds <= before.den
  PROVE  LET before == LineAtTransition(Rows(s), pre, i)
             y  == Quanta(s, pre)
             n  == Cardinality(pre)
             sx == SumUpTo(Distances(s, pre, i))[Max(pre)]
             m  == n * SlopeSeconds
         IN  \/ (\A j \in pre : y[j] = 10) /\ before.value = 10 * before.valueDen
             \/ (\A j \in pre : y[j] = 9) /\ before.value = 9 * before.valueDen
             \/ /\ \E j \in pre : y[j] = 9
                /\ m * before.value >= before.valueDen * (9 * m + SlopeSeconds + sx)
<1> DEFINE before == LineAtTransition(Rows(s), pre, i)
           x  == Distances(s, pre, i)
           y  == Quanta(s, pre)
           n  == Cardinality(pre)
           sx == SumUpTo(x)[Max(pre)]
           S  == SlopeSeconds
           m  == n * S
           N  == Polls(s)
           V  == before.value
           D  == before.valueDen
<1>1. FallsThrough(s, pre, i, before)
  BY LinesSeen
<1>2. \A j \in pre : x[j] \in Int /\ x[j] <= 0 /\ (y[j] = 9 \/ y[j] = 10)
  BY QuantaSeen
<1>3. n \in Nat \ {0} /\ sx \in Int /\ sx <= 0
  BY DriftIsSmall DEF Distances
<1>4. S \in Nat \ {0}
  BY LoadStepAssumption
<1>5. ASSUME NEW b \in {9, 10}, \A j \in pre : y[j] = b PROVE V = b * D
  <2>1. \A j \in pre : Rows(s)[j].load = s.base
    BY SamplesSeen
  <2>2. ASSUME NEW j \in pre PROVE Rows(s)[j].v = b + 120
    <3>1. Rows(s)[j].v - 120 = b
      BY <1>5 DEF Quanta
    <3>2. Rows(s)[j].v \in Int
      BY SamplesSeen DEF Drooped
    <3> QED
      BY <3>1, <3>2
  <2>3. /\ N \in Nat /\ pre \in SUBSET (1 .. N) /\ s.base \in Nat /\ b + 120 \in Int
        /\ pre \in SUBSET Used(s) /\ first \in pre /\ i \in Used(s)
    BY SurroundsType, SignalType
  <2>4. \A j \in Used(s) : Rows(s)[j].at = Time(s, j) /\ Time(s, j) \in Nat
    BY RowsOfUsed, TimesOfUsed
  <2>5. PICK k \in pre : Time(s, k) # Time(s, first)
    BY TwoSamplesBefore DEF PlateausSeen
  <2>6. /\ Rows(s)[i].at \in Int /\ \A j \in pre : Rows(s)[j].at \in Int
        /\ \E j, l \in pre : Rows(s)[j].at # Rows(s)[l].at
    BY <2>3, <2>4, <2>5
  <2>7. Uniform(N, Rows(s), pre, i, s.base, b + 120)
    BY <2>1, <2>2, <2>3, <2>6 DEF Uniform
  <2>8. V = (b + 120 - 120) * D
    BY <2>7, LineOfOneVoltage
  <2>9. b + 120 - 120 = b
    OBVIOUS
  <2> QED
    BY <2>8, <2>9
<1> HIDE DEF before, x, y, n, sx, S, N
<1>6. ASSUME NEW k \in pre, y[k] = 10, NEW l \in pre, y[l] = 9
      PROVE  m * V >= D * (9 * m + S + sx)
  <2>1. /\ before.slope <= 0 /\ before.slope \in Int /\ V \in Int /\ D \in Nat \ {0}
        /\ \E g \in Nat \ {0} : before.den = D * g /\ Fitted(N, pre, x, y, before.slope, V * g, before.den)
    BY <1>1, Zenon DEF FallsThrough, x, y, N
  <2>2. PICK g \in Nat \ {0} : before.den = D * g /\ Fitted(N, pre, x, y, before.slope, V * g, before.den)
    BY <2>1
  <2> DEFINE E == before.den
             a == before.slope
             U == V * g
  <2>3. E = D * g /\ E \in Nat \ {0} /\ U \in Int /\ a \in Int /\ a <= 0
    BY <2>1, <2>2
  <2>4. n * U >= n * (9 * E) + E - a * sx
    <3>1. 9 \in Int /\ \A j \in pre : y[j] >= 9
      BY <1>2
    <3>2. y[k] >= 9 + 1
      BY <1>6
    <3>3. /\ Fitted(N, pre, x, y, a, U, E)
      BY <2>2
    <3> HIDE DEF U, E, a
    <3> QED
      BY <3>1, <3>2, <3>3, LineOfMixture DEF n, sx
  <2>5. (-a) * S <= E
    BY DEF before, S
  <2> HIDE DEF E, a, U
  <2>6. (a * sx) * S <= E * (-sx)
    <3> DEFINE t == -sx
    <3>1. t \in Nat /\ (a * sx) * S = ((-a) * S) * t /\ (-a) * S \in Int
      BY <1>3, <1>4, <2>3
    <3> HIDE DEF t
    <3>2. \A p, q \in Int : p <= q => p * t <= q * t
      BY <3>1
    <3>3. ((-a) * S) * t <= E * t
      BY <2>3, <2>5, <3>1, <3>2
    <3> QED
      BY <3>1, <3>3 DEF t
  <2>7. (n * U) * S >= (n * (9 * E) + E - a * sx) * S
    <3>1. n * U \in Int /\ n * (9 * E) + E - a * sx \in Int
      BY <1>3, <2>3
    <3>2. \A p, q \in Int : p >= q => p * S >= q * S
      BY <1>4
    <3> QED
      BY <2>4, <3>1, <3>2
  <2>8. (n * U) * S >= E * (9 * m + S + sx)
    <3>1. (n * (9 * E) + E - a * sx) * S = (n * (9 * E)) * S + E * S - (a * sx) * S
      BY <1>3, <1>4, <2>3
    <3>2. E * (9 * m + S + sx) = (n * (9 * E)) * S + E * S - E * (-sx)
      BY <1>3, <1>4, <2>3
    <3>3. /\ (n * (9 * E)) * S \in Int /\ E * S \in Int /\ (a * sx) * S \in Int /\ E * (-sx) \in Int
          /\ (n * U) * S \in Int
      BY <1>3, <1>4, <2>3
    <3> QED
      BY <2>6, <2>7, <3>1, <3>2, <3>3
  <2>9. (n * U) * S = (m * V) * g /\ E * (9 * m + S + sx) = (D * (9 * m + S + sx)) * g
    BY <1>3, <1>4, <2>1, <2>3 DEF U
  <2>10. m * V \in Int /\ D * (9 * m + S + sx) \in Int
    BY <1>3, <1>4, <2>1
  <2> HIDE DEF m
  <2> QED
    BY <2>8, <2>9, <2>10, ScalesDown
<1>7. (\A j \in pre : y[j] = 10) \/ (\A j \in pre : y[j] = 9) \/ \E k, l \in pre : y[k] = 10 /\ y[l] = 9
  BY <1>2
<1>8. \/ (\A j \in pre : y[j] = 10) /\ V = 10 * D
      \/ (\A j \in pre : y[j] = 9) /\ V = 9 * D
      \/ (\E l \in pre : y[l] = 9) /\ m * V >= D * (9 * m + S + sx)
  BY <1>5, <1>6, <1>7
<1> QED
  BY <1>8, Zenon DEF before, x, y, n, sx, S

LEMMA SagAtLeast ==
  ASSUME NEW s \in Signal, NEW i, NEW pre, NEW post, NEW first, NEW last,
         Surrounds(s, Used(s), i, pre, post, first, last),
         PlateausSeen(s, i, pre, first, last),
         LET before == LineAtTransition(Rows(s), pre, i)
             after  == LineAtTransition(Rows(s), post, i)
         IN  /\ (-before.slope) * SlopeSeconds <= before.den
             /\ (-after.slope) * SlopeSeconds <= after.den
             /\ before.value * after.valueDen - after.value * before.valueDen
                  >= 2 * (before.valueDen * after.valueDen)
  PROVE  LET before == LineAtTransition(Rows(s), pre, i)
             after  == LineAtTransition(Rows(s), post, i)
         IN  before.value * after.valueDen - after.value * before.valueDen
               >= (s.drop - 1) * (before.valueDen * after.valueDen)
<1> DEFINE before == LineAtTransition(Rows(s), pre, i)
           after  == LineAtTransition(Rows(s), post, i)
           V1 == before.value
           V2 == after.value
           D1 == before.valueDen
           D2 == after.valueDen
           S  == SlopeSeconds
           L  == Time(s, last) - Time(s, i)
           d  == s.drop
           n  == Cardinality(pre)
           sx == SumUpTo(Distances(s, pre, i))[Max(pre)]
           m  == n * S
           y  == Quanta(s, pre)
           z  == Distances(s, post, i)
           v  == Quanta(s, post)
           c  == (s.rise + s.lag) - Time(s, i)
<1> SUFFICES ASSUME ~(V1 * D2 - V2 * D1 >= (d - 1) * (D1 * D2)) PROVE FALSE
  OBVIOUS
<1>1. FallsThrough(s, pre, i, before) /\ FallsThrough(s, post, i, after)
  BY LinesSeen
<1>2. V1 \in Int /\ V2 \in Int /\ D1 \in Nat \ {0} /\ D2 \in Nat \ {0}
  BY <1>1, Zenon DEF FallsThrough
<1>3. d \in Nat /\ S \in Nat \ {0}
  BY SignalType, LoadStepAssumption
<1>4. /\ n \in Nat \ {0} /\ sx \in Int /\ L \in Nat
      /\ L <= S /\ n * L - sx <= (n + 1) * S
  BY DriftIsSmall DEF Distances
<1>5. /\ (-after.slope) * S <= after.den
      /\ V1 * D2 - V2 * D1 >= 2 * (D1 * D2)
  OBVIOUS
<1>6. V1 <= 10 * D1
  BY SagAtMost
<1>7. \/ (\A j \in pre : y[j] = 10) /\ V1 = 10 * D1
      \/ (\A j \in pre : y[j] = 9) /\ V1 = 9 * D1
      \/ (\E j \in pre : y[j] = 9) /\ m * V1 >= D1 * (9 * m + S + sx)
  BY VoltageBefore
<1>8. first \in pre
  BY SurroundsType
<1>9. /\ \A j \in pre, k \in post : y[j] = 9 => v[k] = 9 - (IF z[k] < c THEN 0 ELSE d)
      /\ \A j \in post : z[j] >= c => v[j] \in {9 - d, 10 - d}
      /\ \A j \in post : z[j] \in 0 .. L
  BY QuantaSeen
<1>10. c \in Int
  <2>1. i \in Used(s)
    BY SurroundsType
  <2> QED
    BY <2>1, SignalType, TimesOfUsed
<1>11. \A b \in Int : (\A j \in post : z[j] >= c => v[j] <= b) /\ V2 < 9 * D2
                        => ~(S * V2 - L * D2 > S * (b * D2))
  BY <1>1, <1>5, DropIsSeen
<1> HIDE DEF before, after, S, L, d, n, sx, y, z, v, c
<1>12. V2 < 9 * D2
  <2> DEFINE q == D1 * D2
             w == V2 * D1
  <2>1. V1 * D2 <= 10 * q
    <3>1. \A a, b \in Int : a <= b => a * D2 <= b * D2
      BY <1>2
    <3>2. V1 * D2 <= (10 * D1) * D2
      BY <1>2, <1>6, <3>1
    <3> QED
      BY <1>2, <3>2
  <2>2. q \in Int /\ q > 0 /\ w \in Int /\ V1 * D2 \in Int
    BY <1>2
  <2>3. V1 * D2 - w >= 2 * q
    BY <1>5
  <2> HIDE DEF q, w
  <2>4. w < 9 * q
    BY <2>1, <2>2, <2>3
  <2>5. V2 >= 9 * D2 => V2 * D1 >= (9 * D2) * D1
    BY <1>2
  <2>6. (9 * D2) * D1 = 9 * (D1 * D2)
    BY <1>2
  <2> QED
    BY <1>2, <2>2, <2>4, <2>5, <2>6 DEF q, w
<1>13. V1 * D2 - V2 * D1 < (d - 1) * (D1 * D2)
  <2>1. V1 * D2 - V2 * D1 \in Int /\ (d - 1) * (D1 * D2) \in Int
    BY <1>2, <1>3
  <2> QED
    BY <2>1
<1>14. ASSUME NEW p \in {9, 10}, \A j \in pre : y[j] = p, V1 = p * D1 PROVE FALSE
  <2>1. p \in Int /\ p - d \in Int
    BY <1>3
  <2>2. ASSUME NEW j \in post, z[j] >= c PROVE v[j] <= p - d
    <3>1. CASE p = 10
      BY <1>3, <1>9, <2>2, <3>1
    <3>2. CASE p = 9
      <4>1. y[first] = 9
        BY <1>8, <1>14, <3>2
      <4>2. v[j] = 9 - d
        BY <1>3, <1>8, <1>9, <1>10, <2>2, <4>1
      <4> QED
        BY <1>3, <3>2, <4>2
    <3> QED
      BY <3>1, <3>2
  <2>3. (p * D1) * D2 - V2 * D1 < (d - 1) * (D1 * D2)
    BY <1>13, <1>14
  <2>4. S * V2 - L * D2 > S * ((p - d) * D2)
    BY <1>2, <1>3, <1>4, <2>1, <2>3, HiddenByOne
  <2> QED
    BY <1>11, <1>12, <2>1, <2>2, <2>4
<1>15. ASSUME NEW k \in pre, y[k] = 9, m * V1 >= D1 * (9 * m + S + sx) PROVE FALSE
  <2>1. 9 \in Int /\ 9 - d \in Int
    BY <1>3
  <2>2. ASSUME NEW j \in post, z[j] >= c PROVE v[j] <= 9 - d
    BY <1>3, <1>9, <1>10, <1>15, <2>2
  <2>3. S * V2 - L * D2 > S * ((9 - d) * D2)
    BY <1>2, <1>3, <1>4, <1>13, <1>15, <2>1, HiddenByTwo
  <2> QED
    BY <1>11, <1>12, <2>1, <2>2, <2>3
<1> HIDE DEF m
<1>16. CASE (\A j \in pre : y[j] = 10) /\ V1 = 10 * D1
  BY <1>14, <1>16
<1>17. CASE (\A j \in pre : y[j] = 9) /\ V1 = 9 * D1
  BY <1>14, <1>17
<1>18. CASE (\E j \in pre : y[j] = 9) /\ m * V1 >= D1 * (9 * m + S + sx)
  BY <1>15, <1>18
<1> QED
  BY <1>7, <1>16, <1>17, <1>18

(* An estimate is at most one quantum off. *)
LEMMA StepAtIsClose ==
  ASSUME NEW s \in Signal, NEW i \in Used(s), NEW tight \in BOOLEAN,
         NEW w, w = PlateauWindow(Rows(s), Used(s), i), NEW first, NEW last,
         Surrounds(s, Used(s), i, w.pre, w.post, first, last),
         StepAt(Rows(s), Used(s), i, tight) # NoStep
  PROVE  LET step == StepAt(Rows(s), Used(s), i, tight)
         IN  /\ step.rise = 2 * s.step
             /\ step.sag >= (s.drop - 1) * step.den
             /\ step.sag <= (s.drop + 1) * step.den
<1> DEFINE rows == Rows(s)
           rise == TwiceMedian(rows, w.post) - TwiceMedian(rows, w.pre)
           before == LineAtTransition(rows, w.pre, i)
           after  == LineAtTransition(rows, w.post, i)
           sag  == before.value * after.valueDen - after.value * before.valueDen
           den  == before.valueDen * after.valueDen
           at   == rows[i].at
           step == StepAt(rows, Used(s), i, tight)
           found_ == [sag |-> sag, den |-> den, rise |-> rise, at |-> at]
<1>1. /\ step = found_
      /\ Flat(before, tight) /\ Flat(after, tight) /\ AtMost(MinVoltageStep * den, sag, tight)
  BY Zenon DEF StepAt
<1>2. step.rise = rise /\ step.sag = sag /\ step.den = den
  <2> HIDE DEF step, rise, sag, den, at
  <2> QED
    BY <1>1
<1> HIDE DEF step
<1>3. PlateausSeen(s, i, w.pre, first, last)
  BY StepAtIsSeen
<1>4. rise = 2 * s.step
  BY <1>3, LoadsSeen
<1>5. FallsThrough(s, w.pre, i, before) /\ FallsThrough(s, w.post, i, after)
  BY <1>3, LinesSeen
<1> DEFINE V1 == before.value
           V2 == after.value
           D1 == before.valueDen
           D2 == after.valueDen
           d  == s.drop
<1>6. /\ V1 \in Int /\ D1 \in Nat \ {0} /\ before.slope \in Int /\ before.slope <= 0
      /\ V2 \in Int /\ D2 \in Nat \ {0} /\ after.slope \in Int /\ after.slope <= 0
      /\ before.den \in Int /\ after.den \in Int
  <2>1. \A W, line : FallsThrough(s, W, i, line) =>
          /\ line.value \in Int /\ line.valueDen \in Nat \ {0} /\ line.slope \in Int /\ line.slope <= 0
          /\ \E g \in Nat \ {0} : line.den = line.valueDen * g
    BY Zenon DEF FallsThrough
  <2>2. \A a, g \in Nat : a * g \in Int
    OBVIOUS
  <2> HIDE DEF before, after
  <2> QED
    BY <1>5, <2>1, <2>2
<1>7. d \in Nat /\ MinVoltageStep \in Nat /\ MinVoltageStep >= 2 /\ SlopeSeconds \in Nat
  BY SignalType, LoadStepAssumption, DriftsAreSmall
<1>8. (-before.slope) * SlopeSeconds <= before.den /\ (-after.slope) * SlopeSeconds <= after.den
  <2>1. /\ AtMost(Abs(before.slope) * SlopeSeconds, before.den, tight)
        /\ AtMost(Abs(after.slope) * SlopeSeconds, after.den, tight)
    BY <1>1, Zenon DEF Flat
  <2>2. \A a \in Int : a <= 0 => Abs(a) = -a
    BY DEF Abs
  <2>3. Abs(before.slope) = -before.slope /\ Abs(after.slope) = -after.slope
    BY <1>6, <2>2
  <2>4. \A a, b \in Int : AtMost(a, b, tight) => a <= b
    BY DEF AtMost
  <2>5. (-before.slope) * SlopeSeconds \in Int /\ (-after.slope) * SlopeSeconds \in Int
    BY <1>6, <1>7
  <2> HIDE DEF before, after
  <2> QED
    BY <1>6, <2>1, <2>3, <2>4, <2>5
<1> USE <1>6 DEF sag, den
<1>9. sag \in Int /\ den \in Nat \ {0}
  <2> HIDE DEF before, after
  <2> QED
    OBVIOUS
<1>10. sag >= 2 * den
  <2> HIDE DEF sag, den
  <2>1. MinVoltageStep * den <= sag
    BY <1>1, <1>7, <1>9 DEF AtMost
  <2>2. 2 * den <= MinVoltageStep * den /\ MinVoltageStep * den \in Int
    BY <1>7, <1>9
  <2> QED
    BY <1>9, <2>1, <2>2
<1>11. sag >= (d - 1) * den
  BY <1>3, <1>8, <1>10, SagAtLeast
<1>12. sag <= (d + 1) * den
  <2>1. V1 <= 10 * D1 /\ V2 >= (9 - d) * D2
    BY <1>3, SagAtMost
  <2> HIDE DEF before, after
  <2>2. V1 * D2 <= (10 * D1) * D2
    <3>1. \A a, b \in Int : a <= b => a * D2 <= b * D2
      OBVIOUS
    <3> QED
      BY <2>1, <3>1
  <2>3. V2 * D1 >= ((9 - d) * D2) * D1
    <3>1. \A a, b \in Int : a >= b => a * D1 >= b * D1
      OBVIOUS
    <3>2. (9 - d) * D2 \in Int
      BY <1>7
    <3> QED
      BY <2>1, <3>1, <3>2
  <2>4. (10 * D1) * D2 - ((9 - d) * D2) * D1 = (d + 1) * (D1 * D2)
    BY <1>7
  <2>5. V1 * D2 \in Int /\ V2 * D1 \in Int /\ (10 * D1) * D2 \in Int /\ ((9 - d) * D2) * D1 \in Int
    BY <1>7
  <2>6. V1 * D2 - V2 * D1 <= (10 * D1) * D2 - ((9 - d) * D2) * D1
    BY <2>2, <2>3, <2>5
  <2> QED
    BY <2>4, <2>6
<1> QED
  BY <1>2, <1>4, <1>11, <1>12, Zenon DEF step, rows

LEMMA ExtractionIsClose ==
  ASSUME signal \in Signal, NEW tight \in BOOLEAN,
         ExtractIrObservation(Rows(signal), tight) # NoStep
  PROVE  LET step == ExtractIrObservation(Rows(signal), tight)
         IN  /\ step.rise = 2 * signal.step
             /\ step.sag >= (signal.drop - 1) * step.den
             /\ step.sag <= (signal.drop + 1) * step.den
<1> DEFINE rows  == Rows(signal)
           E     == Used(signal)
           event == NaturalEvent(rows)
           steps == {i \in event : i # Min(event) /\ StepAt(rows, event, i, tight) # NoStep}
           step  == ExtractIrObservation(rows, tight)
           i     == Min(steps)
<1>1. step = StepAt(rows, event, i, tight) /\ steps # {}
  BY Zenon DEF ExtractIrObservation
<1>2. event = E \/ event = {}
  <2>1. signal.oddAt \in Nat \ {0}
    BY SignalType
  <2> QED
    BY <2>1, EventIsUsed, Zenon
<1>3. steps \in SUBSET event /\ \A j \in steps : j # Min(event) /\ StepAt(rows, event, j, tight) # NoStep
  OBVIOUS
<1>4. E \in SUBSET Nat
  BY TimesOfUsed
<1> HIDE DEF steps, event, step
<1>5. event = E /\ steps \in SUBSET Nat
  BY <1>1, <1>2, <1>3, <1>4
<1>6. i \in steps
  BY <1>1, <1>5, MinIsLeast
<1> HIDE DEF i
<1>7. i \in E /\ i # Min(E) /\ StepAt(rows, E, i, tight) # NoStep /\ step = StepAt(rows, E, i, tight)
  BY <1>1, <1>3, <1>5, <1>6
<1> DEFINE w == PlateauWindow(rows, E, i)
<1>8. Surrounds(signal, E, i, w.pre, w.post, Min(w.pre), Max(w.post))
  BY <1>7, WindowsSurround
<1>9. /\ step.rise = 2 * signal.step
      /\ step.sag >= (signal.drop - 1) * step.den
      /\ step.sag <= (signal.drop + 1) * step.den
  BY <1>7, <1>8, StepAtIsClose
<1> QED
  BY <1>9 DEF step

-----------------------------------------------------------------------------
(* The extraction finds the step that is shown, and no other.              *)
LEMMA Extraction ==
  ASSUME signal \in Signal, Prompt(signal), NEW tight \in BOOLEAN
  PROVE  LET step == ExtractIrObservation(Rows(signal), tight)
         IN  /\ step # NoStep <=>
                  /\ Shown /\ Evident(signal, tight) /\ signal.ends
                  /\ ~(signal.odd \in {"void", "CAL"} /\ At(signal.oddAt) <= signal.length)
             /\ step # NoStep =>
                  /\ step.sag = signal.drop * step.den
                  /\ step.rise = 2 * signal.step
                  /\ step.at = Min({t \in Seen : t >= signal.rise})
<1> DEFINE rows     == Rows(signal)
           E        == Used(signal)
           event    == NaturalEvent(rows)
           steps    == {i \in event : i # Min(event) /\ StepAt(rows, event, i, tight) # NoStep}
           step     == ExtractIrObservation(rows, tight)
           w(i)     == PlateauWindow(rows, E, i)
           complete == signal.ends /\ ~(signal.odd \in {"void", "CAL"} /\ At(signal.oddAt) <= signal.length)
           T        == Min({t \in Seen : t >= signal.rise})
<1>1. step = IF steps = {} THEN NoStep ELSE StepAt(rows, event, Min(steps), tight)
  BY Zenon DEF ExtractIrObservation
<1>2. event = IF complete /\ Cardinality(E) >= 3 THEN E ELSE {}
  <2>1. signal.oddAt \in Nat \ {0}
    BY SignalType
  <2>2. signal.oddAt \in 1 .. Polls(signal) <=> At(signal.oddAt) <= signal.length
    BY <2>1, PollsAreInTheOutage DEF At, Time
  <2> QED
    BY <2>2, EventIsUsed, Zenon
<1>3. E \in SUBSET Nat
  BY TimesOfUsed
<1>4. steps # {} => Min(steps) \in steps
  <2>1. steps \in SUBSET Nat
    BY <1>2, <1>3
  <2> HIDE DEF steps
  <2> QED
    BY <2>1, MinIsLeast
<1>5. \A i \in steps : i \in event /\ i # Min(event) /\ StepAt(rows, event, i, tight) # NoStep
  OBVIOUS
<1>6. \A i \in event : i # Min(event) /\ StepAt(rows, event, i, tight) # NoStep => i \in steps
  OBVIOUS
<1> HIDE DEF steps, step, event, rows, T
<1>7. ASSUME NEW i \in E, i # Min(E)
      PROVE  Surrounds(signal, E, i, w(i).pre, w(i).post, Min(w(i).pre), Max(w(i).post))
  BY <1>7, WindowsSurround DEF rows
<1>8. ASSUME step # NoStep
      PROVE  /\ Shown /\ Evident(signal, tight) /\ complete
             /\ step.sag = signal.drop * step.den /\ step.rise = 2 * signal.step /\ step.at = T
  <2> DEFINE i == Min(steps)
  <2>1. steps # {} /\ i \in steps
    BY <1>1, <1>4, <1>8
  <2>2. step = StepAt(rows, event, i, tight)
    BY <1>1, <2>1
  <2> HIDE DEF i
  <2>3. i \in event
    BY <1>5, <2>1
  <2>4. event = E /\ complete
    BY <1>2, <2>3
  <2>5. i \in E /\ i # Min(E) /\ step = StepAt(rows, E, i, tight)
    BY <1>5, <2>1, <2>2, <2>3, <2>4
  <2> DEFINE W == w(i)
             f == Min(W.pre)
             l == Max(W.post)
  <2>6. W = PlateauWindow(Rows(signal), Used(signal), i)
    BY DEF rows
  <2>7. Surrounds(signal, Used(signal), i, W.pre, W.post, f, l)
    BY <1>7, <2>5
  <2> HIDE DEF W, f, l
  <2>8. PlateausSeen(signal, i, W.pre, f, l)
    BY <1>8, <2>5, <2>6, <2>7, StepAtIsSeen DEF rows
  <2>9. Shown /\ Time(signal, i) = T
    BY <2>7, <2>8, WindowsShow DEF T
  <2>10. /\ Evident(signal, tight)
         /\ step.sag = signal.drop * step.den /\ step.rise = 2 * signal.step
         /\ step.at = Time(signal, i)
    BY <1>8, <2>5, <2>6, <2>7, <2>8, StepAtPlateaus DEF rows
  <2> QED
    BY <2>4, <2>9, <2>10
<1>9. ASSUME Shown, Evident(signal, tight), complete
      PROVE  step # NoStep
  <2>1. event = E
    BY <1>2, <1>9, ShownInWindows
  <2>2. PICK i \in E :
          /\ i # Min(E)
          /\ \A pre, post, first, last :
               Surrounds(signal, E, i, pre, post, first, last) => PlateausSeen(signal, i, pre, first, last)
    BY <1>9, ShownInWindows, Zenon
  <2> DEFINE W == w(i)
             f == Min(W.pre)
             l == Max(W.post)
  <2>3. W = PlateauWindow(Rows(signal), Used(signal), i)
    BY DEF rows
  <2>4. Surrounds(signal, Used(signal), i, W.pre, W.post, f, l)
    BY <1>7, <2>2
  <2>5. PlateausSeen(signal, i, W.pre, f, l)
    BY <2>2, <2>4, Zenon
  <2> HIDE DEF W, f, l
  <2>6. StepAt(rows, E, i, tight) # NoStep
    BY <1>9, <2>3, <2>4, <2>5, StepAtPlateaus DEF rows
  <2>7. i \in steps
    BY <1>6, <2>1, <2>2, <2>6
  <2>8. Min(steps) \in steps /\ steps # {}
    BY <1>4, <2>7
  <2>9. StepAt(rows, event, Min(steps), tight) # NoStep
    BY <1>5, <2>8, Zenon
  <2> QED
    BY <1>1, <2>8, <2>9
<1> QED
  BY <1>8, <1>9, Zenon DEF step, rows, T

-----------------------------------------------------------------------------
(* The theorems.                                                           *)
IInv ==
  /\ signal \in Signals
  /\ found = Pending \/ \E tight \in BOOLEAN : found = ExtractIrObservation(Rows(signal), tight)

LEMMA IInvHolds == Spec => []IInv
<1>1. Init => IInv
  BY DEF Init, IInv
<1>2. IInv /\ [Next]_vars => IInv'
  <2> SUFFICES ASSUME IInv, [Next]_vars PROVE IInv'
    OBVIOUS
  <2>1. CASE Extract
    <3>1. signal' = signal /\ \E tight \in BOOLEAN : found' = ExtractIrObservation(Rows(signal), tight)
      BY <2>1, Zenon DEF Extract
    <3> QED
      BY <3>1, Zenon DEF IInv
  <2>2. CASE UNCHANGED vars
    <3>1. signal' = signal /\ found' = found
      BY <2>2 DEF vars
    <3> QED
      BY <3>1, Zenon DEF IInv
  <2> QED
    BY <2>1, <2>2 DEF Next
<1> QED
  BY <1>1, <1>2, PTL DEF Spec

(* Between the bounds both outcomes of a comparison are evidence, and what *)
(* one of them takes for evidence is between the bounds or on one.         *)
LEMMA PlausibleIsEvident ==
  ASSUME signal \in Signal, NEW tight \in BOOLEAN
  PROVE  /\ Plausible => Evident(signal, tight)
         /\ Evident(signal, tight) => Plausible \/ OnBound
<1>1. signal.base \in Nat /\ signal.step \in Nat /\ signal.drop \in Nat
  BY SignalType
<1>2. MinVoltageStep \in Int /\ MinKInverse \in Int /\ MaxKPer100 \in Int /\ MaxLoad \in Int
  BY LoadStepAssumption
<1>3. \A x, y \in Int : (x < y => AtMost(x, y, tight)) /\ (AtMost(x, y, tight) => x < y \/ x = y)
  BY DEF AtMost
<1> DEFINE a == signal.drop * MinKInverse
           b == 100 * signal.drop
           c == MaxKPer100 * signal.step
<1>4. a \in Int /\ b \in Int /\ c \in Int /\ MinKInverse * signal.drop = a
  BY <1>1, <1>2
<1> HIDE DEF a, b, c
<1>5. /\ signal.drop > MinVoltageStep => AtMost(MinVoltageStep, signal.drop, tight)
      /\ AtMost(MinVoltageStep, signal.drop, tight) => signal.drop > MinVoltageStep \/ signal.drop = MinVoltageStep
  BY <1>1, <1>2, <1>3
<1>6. /\ a > signal.step => AtMost(signal.step, a, tight)
      /\ AtMost(signal.step, a, tight) => a > signal.step \/ a = signal.step
  BY <1>1, <1>3, <1>4
<1>7. /\ b < c => AtMost(b, c, tight)
      /\ AtMost(b, c, tight) => b < c \/ b = c
  BY <1>3, <1>4
<1> QED
  BY <1>4, <1>5, <1>6, <1>7, Zenon DEF Plausible, Evident, OnBound, a, b, c

(* An outage whose load rises once yields an observation exactly if polls  *)
(* show both plateaus, and its estimate is the true one: for every outage  *)
(* and every cadence, not only those of the run.                           *)
THEOREM StepIsFound == Spec => []FindsTheStepShown
<1>1. IInv => FindsTheStepShown
  <2> SUFFICES ASSUME IInv, found # Pending, signal.lag = 0, signal.droop > signal.length
               PROVE  IF /\ Plausible /\ Shown /\ signal.ends
                         /\ ~(signal.odd \in {"void", "CAL"} /\ At(signal.oddAt) <= signal.length)
                        THEN /\ found # NoStep
                             /\ found.sag = signal.drop * found.den
                             /\ found.rise = 2 * signal.step
                             /\ found.at = Min({t \in Seen : t >= signal.rise})
                        ELSE found = NoStep \/ OnBound
    BY Zenon DEF FindsTheStepShown
  <2>1. signal \in Signal
    BY SignalsAssumption DEF IInv
  <2>2. Prompt(signal)
    BY DEF Prompt
  <2>3. PICK tight \in BOOLEAN : found = ExtractIrObservation(Rows(signal), tight)
    BY Zenon DEF IInv
  <2>4. /\ found # NoStep <=>
             /\ Shown /\ Evident(signal, tight) /\ signal.ends
             /\ ~(signal.odd \in {"void", "CAL"} /\ At(signal.oddAt) <= signal.length)
        /\ found # NoStep =>
             /\ found.sag = signal.drop * found.den
             /\ found.rise = 2 * signal.step
             /\ found.at = Min({t \in Seen : t >= signal.rise})
    BY <2>1, <2>2, <2>3, Extraction, Zenon
  <2>5. Plausible => Evident(signal, tight)
    BY <2>1, PlausibleIsEvident, Zenon
  <2>6. Evident(signal, tight) => Plausible \/ OnBound
    BY <2>1, PlausibleIsEvident, Zenon
  <2> QED
    BY <2>4, <2>5, <2>6, Zenon
<1> QED
  BY <1>1, IInvHolds, PTL

(* Polls at one cadence up to the gap show plateaus of the duration and a  *)
(* cadence more.                                                           *)
LEMMA CadenceShows ==
  ASSUME signal \in Signal, signal.odd = "none",
         signal.cadence <= MaxGap, signal.phase < signal.cadence,
         signal.rise >= PlateauDuration + signal.cadence,
         signal.fall >= signal.rise + PlateauDuration + 2 * signal.cadence,
         signal.length >= signal.fall
  PROVE  Shown
<1> DEFINE E      == Used(signal)
           at(j)  == Time(signal, j)
           c      == signal.cadence
           risen  == {t \in Seen : t >= signal.rise}
           T      == Min(risen)
           before == {t \in Seen : t <= T - PlateauDuration}
           after  == {t \in Seen : t >= T + PlateauDuration}
<1>1. /\ c \in Nat \ {0} /\ signal.phase \in Nat /\ signal.rise \in Nat /\ signal.fall \in Nat
      /\ signal.length \in Nat /\ PlateauDuration \in Nat \ {0} /\ MaxGap \in Nat
  BY SignalType, LoadStepAssumption
<1>2. /\ \A j \in E : j \in Nat \ {0} /\ at(j) \in Nat
      /\ \A j, k \in E : j < k <=> at(j) < at(k)
      /\ \A j, k \in E : j <= k <=> at(j) <= at(k)
  BY TimesOfUsed
<1>3. \A j \in Nat \ {0} : /\ at(j) \in Nat
                           /\ at(j) <= signal.length <=> j \in E
                           /\ at(j + 1) = at(j) + c
  <2>1. signal.odd \notin {"lost", "LB"}
    OBVIOUS
  <2>2. E = 1 .. Polls(signal)
    BY <2>1 DEF Used
  <2> SUFFICES ASSUME NEW j \in Nat \ {0}
               PROVE  /\ at(j) \in Nat
                      /\ at(j) <= signal.length <=> j \in E
                      /\ at(j + 1) = at(j) + c
    OBVIOUS
  <2>3. at(j) \in Nat
    BY TimesIncrease
  <2>4. at(j) <= signal.length <=> j \in E
    BY <2>2, PollsAreInTheOutage
  <2>5. at(j + 1) = at(j) + c
    <3>1. j \in Int
      OBVIOUS
    <3> QED
      BY <3>1, TimesIncrease, Zenon
  <2> QED
    BY <2>3, <2>4, <2>5
<1>4. at(1) = signal.phase
  BY <1>1 DEF Time
<1>5. /\ \A t \in Seen : \E j \in E : t = at(j)
      /\ \A j \in E : at(j) \in Seen
  BY SeenIsUsed, Zenon
<1> HIDE DEF E, at
<1>6. Seen \in SUBSET Nat
  BY <1>2, <1>5
(* Some poll comes in every period of the cadence after the first poll.    *)
<1>7. ASSUME NEW x \in Nat, signal.phase < x, x + c <= signal.length + 1
      PROVE  \E j \in E : x <= at(j) /\ at(j) < x + c
  <2> DEFINE J == {j \in Nat \ {0} : x <= at(j)}
  <2>1. J # {}
    <3>1. x + 1 \in Nat \ {0} /\ 1 \in Int /\ x + 1 \in Int /\ 1 < x + 1
      BY <1>1, <1>7
    <3>2. at(x + 1) - at(1) >= x + 1 - 1
      BY <3>1, TimesIncrease DEF at
    <3>3. x <= at(x + 1)
      BY <1>1, <1>3, <1>4, <3>1, <3>2
    <3> QED
      BY <3>1, <3>3
  <2>2. J \in SUBSET Nat /\ \A j \in J : j \in Nat \ {0} /\ x <= at(j)
    OBVIOUS
  <2>3. \A j \in Nat \ {0} : x <= at(j) => j \in J
    OBVIOUS
  <2> HIDE DEF J
  <2>4. PICK j \in J : \A k \in J : j <= k
    BY <2>1, <2>2, LeastNumber
  <2>5. j # 1
    <3>1. at(1) < x
      BY <1>1, <1>4, <1>7
    <3> QED
      BY <1>1, <1>4, <1>7, <2>2, <3>1
  <2>6. j - 1 \in Nat \ {0} /\ ~(j <= j - 1) /\ j - 1 + 1 = j /\ j \in Nat \ {0}
    BY <2>2, <2>5
  <2>7. at(j - 1) < x
    <3>1. j - 1 \notin J
      BY <2>4, <2>6
    <3> QED
      BY <1>3, <1>7, <2>3, <2>6, <3>1
  <2>8. at(j) = at(j - 1) + c /\ at(j - 1) \in Nat
    BY <1>3, <2>6
  <2>9. x <= at(j) /\ at(j) < x + c /\ at(j) <= signal.length
    BY <1>1, <1>7, <2>2, <2>7, <2>8
  <2> QED
    BY <1>3, <2>6, <2>9
<1>8. PICK r \in E : signal.rise <= at(r) /\ at(r) < signal.rise + c
  <2>1. signal.phase < signal.rise /\ signal.rise + c <= signal.length + 1
    BY <1>1
  <2> QED
    BY <1>1, <1>7, <2>1
<1>9. risen # {} /\ T \in Seen /\ T >= signal.rise /\ T <= at(r)
  <2>1. risen \in SUBSET Nat /\ risen \in SUBSET Seen /\ \A t \in risen : t >= signal.rise
    BY <1>6
  <2>2. at(r) \in risen
    BY <1>5, <1>8
  <2> HIDE DEF risen
  <2>3. T \in risen /\ \A t \in risen : T <= t
    BY <2>1, <2>2, MinIsLeast
  <2> HIDE DEF T
  <2> QED
    BY <2>1, <2>2, <2>3
<1>10. T \in Nat /\ signal.rise <= T /\ T < signal.rise + c
  <2> HIDE DEF T
  <2> QED
    BY <1>1, <1>2, <1>6, <1>8, <1>9
<1> HIDE DEF T
<1>11. before # {}
  <2>1. at(1) <= signal.length /\ at(1) <= T - PlateauDuration
    BY <1>1, <1>4, <1>10
  <2>2. at(1) \in Seen
    BY <1>3, <1>5, <2>1
  <2> QED
    BY <2>1, <2>2
<1>12. PICK l \in E : T + PlateauDuration <= at(l) /\ at(l) < T + PlateauDuration + c
  <2>1. signal.phase < T + PlateauDuration /\ T + PlateauDuration + c <= signal.length + 1
    BY <1>1, <1>10
  <2>2. T + PlateauDuration \in Nat
    BY <1>1, <1>10
  <2> QED
    BY <1>7, <2>1, <2>2
<1>13. after # {} /\ Min(after) \in Seen /\ Min(after) <= at(l)
  <2>1. after \in SUBSET Nat /\ after \in SUBSET Seen
    BY <1>6
  <2>2. at(l) \in after
    BY <1>1, <1>2, <1>5, <1>10, <1>12
  <2> HIDE DEF after
  <2>3. Min(after) \in after /\ \A t \in after : Min(after) <= t
    BY <2>1, <2>2, MinIsLeast
  <2> QED
    BY <2>1, <2>2, <2>3
<1> HIDE DEF before, after
<1>14. Min(after) < signal.fall
  <2>1. Min(after) \in Nat /\ at(l) \in Nat
    BY <1>2, <1>6, <1>13, Zenon
  <2>2. at(l) < T + PlateauDuration + c /\ T + PlateauDuration + c <= signal.fall
    BY <1>1, <1>10, <1>12
  <2> QED
    BY <1>1, <1>10, <1>13, <2>1, <2>2
<1>15. ASSUME NEW t \in Seen, t < Min(after)
       PROVE  \E u \in Seen : t < u /\ u <= t + MaxGap
  <2>1. PICK j \in E : t = at(j)
    BY <1>5
  <2>2. PICK k \in E : Min(after) = at(k)
    BY <1>5, <1>13
  <2>3. j < k
    BY <1>2, <1>15, <2>1, <2>2
  <2>4. at(j + 1) = at(j) + c /\ at(j + 1) <= at(k)
    <3>1. j + 1 \in Nat \ {0} /\ j + 1 <= k /\ j \in Nat \ {0} /\ k \in Nat \ {0}
      BY <1>2, <2>3
    <3>2. at(j + 1) = at(j) + c
      BY <1>3, <3>1
    <3>3. CASE j + 1 = k
      BY <1>2, <3>2, <3>3
    <3>4. CASE j + 1 < k
      <4>1. at(k) - at(j + 1) >= k - (j + 1)
        <5>1. j + 1 \in Int /\ k \in Int
          BY <3>1
        <5> QED
          BY <3>4, <5>1, TimesIncrease DEF at
      <4>2. at(j + 1) \in Nat /\ at(k) \in Nat
        BY <1>3, <3>1
      <4> QED
        BY <3>1, <3>2, <3>4, <4>1, <4>2
    <3> QED
      BY <3>1, <3>2, <3>3, <3>4
  <2>5. j + 1 \in E
    <3>1. j + 1 \in Nat \ {0} /\ at(k) <= signal.length /\ at(j + 1) \in Nat
      BY <1>2, <1>3
    <3> QED
      BY <1>1, <1>2, <1>3, <2>4, <3>1
  <2>6. at(j + 1) \in Seen /\ t < at(j + 1) /\ at(j + 1) <= t + MaxGap
    BY <1>1, <1>2, <1>5, <2>1, <2>4, <2>5
  <2> QED
    BY <2>6
<1> QED
  BY <1>9, <1>11, <1>13, <1>14, <1>15, Zenon DEF Shown, risen, T, before, after

(* "The duration guard makes 1-second and roughly 11-second polling        *)
(* cadences equivalent": every cadence up to the gap, from every phase,    *)
(* finds a step between plateaus of the duration and a cadence more.       *)
THEOREM EveryCadenceFinds == Spec => []CadencesAgree
<1>1. IInv /\ FindsTheStepShown => CadencesAgree
  <2> SUFFICES ASSUME IInv, FindsTheStepShown,
                      found # Pending, signal.ends, signal.odd = "none", Plausible,
                      signal.lag = 0, signal.droop > signal.length,
                      signal.cadence <= MaxGap, signal.phase < signal.cadence,
                      signal.rise >= PlateauDuration + signal.cadence,
                      signal.fall >= signal.rise + PlateauDuration + 2 * signal.cadence,
                      signal.length >= signal.fall
               PROVE  found # NoStep
    BY Zenon DEF CadencesAgree
  <2>1. signal \in Signal
    BY SignalsAssumption DEF IInv
  <2>2. Shown
    BY <2>1, CadenceShows
  <2>3. signal.odd \notin {"void", "CAL"}
    OBVIOUS
  <2> QED
    BY <2>2, <2>3, Zenon DEF FindsTheStepShown
<1> QED
  BY <1>1, IInvHolds, StepIsFound, PTL

(* The estimate of every observation, of a voltage that follows the load   *)
(* late by any time and falls by a quantum of its own at any time, is at   *)
(* most that one quantum off.                                              *)
THEOREM EstimateIsClose == Spec => []EstimateWithinOneQuantum
<1>1. IInv => EstimateWithinOneQuantum
  <2> SUFFICES ASSUME IInv, found \notin {Pending, NoStep}
               PROVE  /\ found.rise = 2 * signal.step
                      /\ found.sag >= (signal.drop - 1) * found.den
                      /\ found.sag <= (signal.drop + 1) * found.den
    BY Zenon DEF EstimateWithinOneQuantum
  <2>1. signal \in Signal
    BY SignalsAssumption DEF IInv
  <2>2. PICK tight \in BOOLEAN : found = ExtractIrObservation(Rows(signal), tight)
    BY Zenon DEF IInv
  <2>3. ExtractIrObservation(Rows(signal), tight) # NoStep
    BY <2>2
  <2> QED
    BY <2>1, <2>2, <2>3, ExtractionIsClose, Zenon
<1> QED
  BY <1>1, IInvHolds, PTL
=============================================================================
