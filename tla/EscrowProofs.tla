---------------------------- MODULE EscrowProofs ----------------------------
(***************************************************************************)
(* Proofs about Escrow, for any addresses and entities, for every offer,   *)
(* verdict, list of effects and plan, and without a bound on time.         *)
(***************************************************************************)
EXTENDS Escrow, FunctionTheorems, FiniteSetTheorems, SequenceTheorems,
        NaturalsInduction, WellFoundedInduction, TLAPS

-----------------------------------------------------------------------------
(* Least elements. *)

LEMMA LeastNumber ==
    ASSUME NEW S \in SUBSET Nat, NEW s \in S
    PROVE  Min(S) \in S /\ \A j \in S : Min(S) <= j
<1> DEFINE R == OpToRel(<, Nat)
<1>1. IsWellFoundedOn(R, Nat)
  BY NatLessThanWellFounded
<1>2. \A i, j \in Nat : i < j => <<i, j>> \in R
  BY DEF OpToRel
<1> HIDE DEF R
<1>3. PICK i \in S : \A j \in S : ~(<<j, i>> \in R)
  BY <1>1, WFMin
<1>4. \A j \in S : i <= j
  <2> SUFFICES ASSUME NEW j \in S
               PROVE  i <= j
    OBVIOUS
  <2>1. ~(j < i)
    BY <1>2, <1>3
  <2> QED
    BY <2>1
<1>5. \E x \in S : \A y \in S : x <= y
  BY <1>4
<1> QED
  BY <1>5, Zenon DEF Min

-----------------------------------------------------------------------------
(* Sums of amounts. *)

\* Induction up to n, with the set of the numbers that are shown.
LEMMA UpTo ==
    ASSUME NEW n \in Nat, NEW S, 0 \in S, \A k \in 0..n : k \in S /\ k < n => k + 1 \in S
    PROVE  \A k \in 0..n : k \in S
<1> SUFFICES ASSUME NEW k \in 0..n, k \notin S
             PROVE  FALSE
  OBVIOUS
<1> DEFINE B == {j \in 0..n : j \notin S}
           m == Min(B)
<1>1. B \in SUBSET Nat /\ k \in B
  OBVIOUS
<1>2. m \in B /\ \A j \in B : m <= j
  BY <1>1, LeastNumber
<1> HIDE DEF m
<1>3. m \in 0..n /\ m \notin S /\ m # 0
  BY <1>2
<1>4. m - 1 \in 0..n /\ m - 1 \notin B
  BY <1>2, <1>3
<1>5. m - 1 \in S /\ m - 1 < n
  BY <1>3, <1>4
<1> QED
  BY <1>3, <1>4, <1>5

\* The sums of the first amounts of a list.
Subtotals(s) ==
    CHOOSE f : f = [k \in 0..Len(s) |-> IF k = 0 THEN 0 ELSE f[k - 1] + s[k]]

LEMMA AmountList ==
    ASSUME NEW n \in Nat, NEW s, DOMAIN s = 1..n, \A i \in 1..n : s[i] \in Nat,
           s = [i \in 1..n |-> s[i]]
    PROVE  s \in [1..n -> Nat] /\ s \in Seq(Nat) /\ Len(s) = n
<1>1. s \in [1..n -> Nat]
  OBVIOUS
<1>2. s \in Seq(Nat)
  BY <1>1, SeqDef
<1> QED
  BY <1>1, <1>2, LenProperties

LEMMA SubtotalsExist ==
    ASSUME NEW n \in Nat, NEW s \in [1..n -> Nat]
    PROVE  \E f \in [0..n -> Nat] : f[0] = 0 /\ \A k \in 1..n : f[k] = f[k - 1] + s[k]
<1> DEFINE Sums(k, f) == f[0] = 0 /\ \A j \in 1..k : f[j] = f[j - 1] + s[j]
           S == {k \in 0..n : \E f \in [0..k -> Nat] : Sums(k, f)}
<1>1. 0 \in S
  <2>1. [j \in 0..0 |-> 0] \in [0..0 -> Nat] /\ Sums(0, [j \in 0..0 |-> 0])
    OBVIOUS
  <2>2. 0 \in 0..n
    OBVIOUS
  <2>3. \E f \in [0..0 -> Nat] : Sums(0, f)
    BY <2>1, Zenon
  <2> HIDE DEF Sums
  <2> QED
    BY <2>2, <2>3
<1>2. ASSUME NEW k \in 0..n, k \in S, k < n
      PROVE  k + 1 \in S
  <2>1. PICK f \in [0..k -> Nat] : Sums(k, f)
    BY <1>2
  <2> DEFINE g == [j \in 0..(k + 1) |-> IF j <= k THEN f[j] ELSE f[k] + s[k + 1]]
  <2>2. g \in [0..(k + 1) -> Nat]
    <3>1. f[k] \in Nat /\ s[k + 1] \in Nat
      <4>1. k \in 0..k /\ k + 1 \in 1..n
        BY <1>2
      <4> QED
        BY <4>1
    <3> QED
      BY <3>1
  <2>3. g[0] = 0 /\ \A j \in 1..(k + 1) : g[j] = g[j - 1] + s[j]
    BY <2>1
  <2> HIDE DEF g
  <2>4. k + 1 \in 0..n
    BY <1>2
  <2> QED
    BY <2>2, <2>3, <2>4
<1>3. \A k \in 0..n : k \in S
  <2> HIDE DEF S
  <2> QED
    BY <1>1, <1>2, UpTo
<1>4. n \in S
  <2> HIDE DEF S
  <2> QED
    BY <1>3
<1> QED
  BY <1>4

\* What the sums are: nothing at first, then one amount more each.
LEMMA SubtotalSteps ==
    ASSUME NEW n \in Nat, NEW s \in [1..n -> Nat]
    PROVE  /\ Subtotals(s) \in [0..n -> Nat] /\ Subtotals(s)[0] = 0
           /\ \A k \in 1..n : Subtotals(s)[k] = Subtotals(s)[k - 1] + s[k]
           /\ TotalOf(s) = Subtotals(s)[n] /\ TotalOf(s) \in Nat
<1> DEFINE D(f) == [k \in 0..Len(s) |-> IF k = 0 THEN 0 ELSE f[k - 1] + s[k]]
           P == CHOOSE f : f = D(f)
<1>1. s \in Seq(Nat) /\ Len(s) = n
  BY AmountList
<1>2. \E f : f = D(f)
  <2>1. PICK f \in [0..n -> Nat] : f[0] = 0 /\ \A k \in 1..n : f[k] = f[k - 1] + s[k]
    BY SubtotalsExist
  <2>2. \A k \in 0..n : f[k] = IF k = 0 THEN 0 ELSE f[k - 1] + s[k]
    BY <2>1
  <2>3. f = D(f)
    BY <1>1, <2>2
  <2> QED
    BY <2>3
<1>3. P = D(P)
  BY <1>2, Zenon
<1>4. Subtotals(s) = P /\ TotalOf(s) = P[Len(s)]
  BY Zenon DEF Subtotals, TotalOf
<1> HIDE DEF P
<1>5. DOMAIN P = 0..n /\ P[0] = 0 /\ \A k \in 1..n : P[k] = P[k - 1] + s[k]
  BY <1>1, <1>3
<1>6. P = [k \in 0..n |-> P[k]]
  BY <1>1, <1>3
<1> DEFINE S == {k \in 0..n : P[k] \in Nat}
<1>7. 0 \in S /\ \A k \in 0..n : k \in S /\ k < n => k + 1 \in S
  BY <1>5
<1>8. \A k \in 0..n : k \in S
  <2> HIDE DEF S
  <2> QED
    BY <1>7, UpTo
<1>9. P \in [0..n -> Nat]
  BY <1>6, <1>8
<1> QED
  BY <1>1, <1>4, <1>5, <1>9
\* A list of zeros sums to nothing.
LEMMA NothingToSum ==
    ASSUME NEW n \in Nat, NEW s \in [1..n -> Nat], \A i \in 1..n : s[i] = 0
    PROVE  TotalOf(s) = 0
<1> DEFINE P == Subtotals(s)
           S == {k \in 0..n : P[k] = 0}
<1>1. /\ P \in [0..n -> Nat] /\ P[0] = 0 /\ TotalOf(s) = P[n]
      /\ \A k \in 1..n : P[k] = P[k - 1] + s[k]
  BY SubtotalSteps
<1> HIDE DEF P
<1>2. 0 \in S /\ \A k \in 0..n : k \in S /\ k < n => k + 1 \in S
  BY <1>1
<1>3. \A k \in 0..n : k \in S
  <2> HIDE DEF S
  <2> QED
    BY <1>2, UpTo
<1>4. P[n] = 0
  BY <1>3
<1> QED
  BY <1>1, <1>4

\* Another amount at one place changes the sum by their difference.
LEMMA OneAmountChanged ==
    ASSUME NEW n \in Nat, NEW s \in [1..n -> Nat], NEW t \in [1..n -> Nat], NEW p \in 1..n,
           \A i \in 1..n : i # p => t[i] = s[i]
    PROVE  TotalOf(t) + s[p] = TotalOf(s) + t[p]
<1> DEFINE P == Subtotals(s)
           Q == Subtotals(t)
           S == {k \in 0..n : IF k < p THEN Q[k] = P[k] ELSE Q[k] + s[p] = P[k] + t[p]}
<1>1. /\ P \in [0..n -> Nat] /\ P[0] = 0 /\ TotalOf(s) = P[n]
      /\ \A k \in 1..n : P[k] = P[k - 1] + s[k]
  BY SubtotalSteps
<1>2. /\ Q \in [0..n -> Nat] /\ Q[0] = 0 /\ TotalOf(t) = Q[n]
      /\ \A k \in 1..n : Q[k] = Q[k - 1] + t[k]
  BY SubtotalSteps
<1> HIDE DEF P, Q
<1>3. 0 \in S
  BY <1>1, <1>2
<1>4. ASSUME NEW k \in 0..n, k \in S, k < n
      PROVE  k + 1 \in S
  <2>1. k + 1 \in 1..n /\ (k + 1) - 1 = k
    BY <1>4
  <2>2. P[k + 1] = P[k] + s[k + 1] /\ Q[k + 1] = Q[k] + t[k + 1]
    BY <1>1, <1>2, <2>1
  <2>3. P[k] \in Nat /\ Q[k] \in Nat /\ s[k + 1] \in Nat /\ t[k + 1] \in Nat
        /\ s[p] \in Nat /\ t[p] \in Nat
    BY <1>1, <1>2, <2>1
  <2>4. CASE k + 1 < p
    <3>1. t[k + 1] = s[k + 1] /\ Q[k] = P[k]
      BY <1>4, <2>1, <2>4
    <3> QED
      BY <2>1, <2>2, <2>4, <3>1
  <2>5. CASE k + 1 = p
    <3>1. Q[k] = P[k]
      BY <1>4, <2>5
    <3>2. Q[k + 1] + s[p] = P[k + 1] + t[p]
      <4>1. \A a, b, c \in Nat : (a + b) + c = (a + c) + b
        OBVIOUS
      <4>2. (Q[k] + t[p]) + s[p] = (Q[k] + s[p]) + t[p]
        BY <2>3, <4>1, Zenon
      <4> QED
        BY <2>2, <2>5, <3>1, <4>2, Zenon
    <3>3. k + 1 \in 0..n /\ ~(k + 1 < p)
      BY <2>1, <2>5
    <3> QED
      BY <3>2, <3>3
  <2>6. CASE k + 1 > p
    <3>1. t[k + 1] = s[k + 1] /\ Q[k] + s[p] = P[k] + t[p]
      BY <1>4, <2>1, <2>6
    <3>2. Q[k + 1] + s[p] = P[k + 1] + t[p]
      <4> HIDE DEF S
      <4>1. PICK a, b, c, x, y \in Nat :
               a = Q[k] /\ b = P[k] /\ c = s[k + 1] /\ x = s[p] /\ y = t[p]
        BY <2>3, Zenon
      <4>2. a + x = b + y
        BY <3>1, <4>1, Zenon
      <4>3. (a + c) + x = (b + c) + y
        BY <4>2
      <4> QED
        BY <2>2, <3>1, <4>1, <4>3, Zenon
    <3>3. k + 1 \in 0..n /\ ~(k + 1 < p)
      BY <2>1, <2>6
    <3> QED
      BY <3>2, <3>3
  <2> QED
    BY <2>4, <2>5, <2>6
<1>5. \A k \in 0..n : k \in S
  <2> HIDE DEF S
  <2> QED
    BY <1>3, <1>4, UpTo
<1>6. Q[n] + s[p] = P[n] + t[p]
  BY <1>5
<1> QED
  BY <1>1, <1>2, <1>6

\* Two lists added amount by amount.
LEMMA SumsAdd ==
    ASSUME NEW n \in Nat, NEW s \in [1..n -> Nat], NEW t \in [1..n -> Nat],
           NEW u \in [1..n -> Nat], \A i \in 1..n : u[i] = s[i] + t[i]
    PROVE  TotalOf(u) = TotalOf(s) + TotalOf(t)
<1> DEFINE P == Subtotals(s)
           Q == Subtotals(t)
           R == Subtotals(u)
           S == {k \in 0..n : R[k] = P[k] + Q[k]}
<1>1. /\ P \in [0..n -> Nat] /\ P[0] = 0 /\ TotalOf(s) = P[n]
      /\ \A k \in 1..n : P[k] = P[k - 1] + s[k]
  BY SubtotalSteps
<1>2. /\ Q \in [0..n -> Nat] /\ Q[0] = 0 /\ TotalOf(t) = Q[n]
      /\ \A k \in 1..n : Q[k] = Q[k - 1] + t[k]
  BY SubtotalSteps
<1>3. /\ R \in [0..n -> Nat] /\ R[0] = 0 /\ TotalOf(u) = R[n]
      /\ \A k \in 1..n : R[k] = R[k - 1] + u[k]
  BY SubtotalSteps
<1> HIDE DEF P, Q, R
<1>4. 0 \in S
  BY <1>1, <1>2, <1>3
<1>5. ASSUME NEW k \in 0..n, k \in S, k < n
      PROVE  k + 1 \in S
  <2>1. k + 1 \in 1..n /\ (k + 1) - 1 = k
    BY <1>5
  <2>2. /\ P[k + 1] = P[k] + s[k + 1] /\ Q[k + 1] = Q[k] + t[k + 1]
        /\ R[k + 1] = R[k] + (s[k + 1] + t[k + 1]) /\ R[k] = P[k] + Q[k]
    BY <1>1, <1>2, <1>3, <1>5, <2>1
  <2>3. P[k] \in Nat /\ Q[k] \in Nat /\ s[k + 1] \in Nat /\ t[k + 1] \in Nat
    BY <1>1, <1>2, <2>1
  <2> QED
    BY <2>1, <2>2, <2>3
<1>6. \A k \in 0..n : k \in S
  <2> HIDE DEF S
  <2> QED
    BY <1>4, <1>5, UpTo
<1>7. R[n] = P[n] + Q[n]
  BY <1>6
<1> QED
  BY <1>1, <1>2, <1>3, <1>7

\* The sum of a prefix, which distribute_amount subtracts, is a subtotal.
LEMMA PrefixSum ==
    ASSUME NEW n \in Nat, NEW s \in [1..n -> Nat], NEW m \in 0..n
    PROVE  TotalOf(SubSeq(s, 1, m)) = Subtotals(s)[m]
<1> DEFINE t == SubSeq(s, 1, m)
           P == Subtotals(s)
           Q == Subtotals(t)
           S == {k \in 0..m : Q[k] = P[k]}
<1>1. s \in Seq(Nat) /\ Len(s) = n
  BY AmountList
<1>2. m \in Nat /\ t \in [1..m -> Nat] /\ \A i \in 1..m : t[i] = s[i]
  <2>1. m \in Nat /\ 1 \in Int /\ m \in Int
    OBVIOUS
  <2>2. \A i \in 1..m : i \in 1..n
    BY <2>1
  <2>3. t = [i \in 1..m |-> s[i]]
    BY <1>1, <2>1
  <2> QED
    BY <2>1, <2>2, <2>3
<1> HIDE DEF t
<1>3. /\ P \in [0..n -> Nat] /\ P[0] = 0
      /\ \A k \in 1..n : P[k] = P[k - 1] + s[k]
  BY SubtotalSteps
<1>4. /\ Q \in [0..m -> Nat] /\ Q[0] = 0 /\ TotalOf(t) = Q[m]
      /\ \A k \in 1..m : Q[k] = Q[k - 1] + t[k]
  BY <1>2, SubtotalSteps
<1> HIDE DEF P, Q
<1>5. 0 \in S /\ \A k \in 0..m : k \in S /\ k < m => k + 1 \in S
  BY <1>2, <1>3, <1>4
<1>6. \A k \in 0..m : k \in S
  <2> HIDE DEF S
  <2> QED
    BY <1>2, <1>5, UpTo
<1>7. Q[m] = P[m]
  BY <1>2, <1>6
<1> QED
  BY <1>4, <1>7 DEF t, P

-----------------------------------------------------------------------------
(* Splitting an amount. *)

\* The smaller and the larger of two numbers.
LEMMA TwoNumbers ==
    ASSUME NEW a \in Int, NEW b \in Int
    PROVE  /\ Min({a, b}) = IF a <= b THEN a ELSE b
           /\ Max({a, b}) = IF a <= b THEN b ELSE a
<1> DEFINE lo == IF a <= b THEN a ELSE b
           hi == IF a <= b THEN b ELSE a
<1>1. lo \in {a, b} /\ \A y \in {a, b} : lo <= y
  OBVIOUS
<1>2. \A x \in {a, b} : (\A y \in {a, b} : x <= y) => x = lo
  OBVIOUS
<1>3. hi \in {a, b} /\ \A y \in {a, b} : hi >= y
  OBVIOUS
<1>4. \A x \in {a, b} : (\A y \in {a, b} : x >= y) => x = hi
  OBVIOUS
<1> HIDE DEF lo, hi
<1>5. Min({a, b}) = lo
  BY <1>1, <1>2, Zenon DEF Min
<1>6. Max({a, b}) = hi
  BY <1>3, <1>4, Zenon DEF Max
<1> QED
  BY <1>5, <1>6 DEF lo, hi

\* Rounding down loses less than one unit.
LEMMA RoundedDown ==
    ASSUME NEW m \in Nat
    PROVE  /\ m \div BasisPoints \in Nat
           /\ (m \div BasisPoints) * BasisPoints <= m
           /\ m < (m \div BasisPoints) * BasisPoints + BasisPoints
BY DEF BasisPoints

LEMMA ProductGrows ==
    ASSUME NEW a \in Nat, NEW b \in Nat, NEW c \in Nat, b <= c
    PROVE  a * b \in Nat /\ a * c \in Nat /\ a * b <= a * c
<1>1. PICK d \in Nat : c = b + d
  <2>1. c - b \in Nat /\ c = b + (c - b)
    OBVIOUS
  <2> QED
    BY <2>1
<1>2. a * c = a * b + a * d
  BY <1>1
<1>3. a * b \in Nat /\ a * d \in Nat
  OBVIOUS
<1> QED
  BY <1>2, <1>3

\* Together the rounded shares never exceed the amount.
LEMMA RoundedSubtotals ==
    ASSUME NEW n \in Nat, NEW b \in [1..n -> Nat], NEW amount \in Nat,
           NEW f \in [1..n -> Nat],
           \A i \in 1..n : f[i] = (amount * b[i]) \div BasisPoints
    PROVE  \A k \in 0..n : Subtotals(f)[k] * BasisPoints <= amount * Subtotals(b)[k]
<1> DEFINE F == Subtotals(f)
           B == Subtotals(b)
           S == {k \in 0..n : F[k] * BasisPoints <= amount * B[k]}
<1>1. F \in [0..n -> Nat] /\ F[0] = 0 /\ \A k \in 1..n : F[k] = F[k - 1] + f[k]
  BY SubtotalSteps
<1>2. B \in [0..n -> Nat] /\ B[0] = 0 /\ \A k \in 1..n : B[k] = B[k - 1] + b[k]
  BY SubtotalSteps
<1> HIDE DEF F, B
<1>3. 0 \in S
  BY <1>1, <1>2 DEF BasisPoints
<1>4. ASSUME NEW k \in 0..n, k \in S, k < n
      PROVE  k + 1 \in S
  <2>1. k + 1 \in 1..n /\ k + 1 \in 0..n /\ (k + 1) - 1 = k
    BY <1>4
  <2>2. /\ F[k + 1] = F[k] + f[k + 1] /\ B[k + 1] = B[k] + b[k + 1]
        /\ f[k + 1] = (amount * b[k + 1]) \div BasisPoints
        /\ F[k] \in Nat /\ B[k] \in Nat /\ f[k + 1] \in Nat /\ b[k + 1] \in Nat
    BY <1>1, <1>2, <2>1
  <2>3. F[k] * BasisPoints <= amount * B[k]
    BY <1>4
  <2> HIDE DEF S
  <2>4. PICK x, y, u, v \in Nat :
           x = F[k] /\ y = B[k] /\ u = f[k + 1] /\ v = b[k + 1]
    BY <2>2, Zenon
  <2>5. u = (amount * v) \div BasisPoints /\ x * BasisPoints <= amount * y
    BY <2>2, <2>3, <2>4, Zenon
  <2>6. amount * v \in Nat
    OBVIOUS
  <2>7. u * BasisPoints <= amount * v
    BY <2>5, <2>6, RoundedDown
  <2>8. (x + u) * BasisPoints <= amount * (y + v)
    <3>1. amount * (y + v) = amount * y + amount * v /\ amount * y \in Nat
      OBVIOUS
    <3>2. (x + u) * BasisPoints = x * BasisPoints + u * BasisPoints
      BY DEF BasisPoints
    <3>3. x * BasisPoints \in Nat /\ u * BasisPoints \in Nat
      BY DEF BasisPoints
    <3> QED
      BY <2>5, <2>6, <2>7, <3>1, <3>2, <3>3
  <2>9. F[k + 1] * BasisPoints <= amount * B[k + 1]
    BY <2>2, <2>4, <2>8, Zenon
  <2> QED
    BY <2>1, <2>9 DEF S
<1>5. \A k \in 0..n : k \in S
  <2> HIDE DEF S
  <2> QED
    BY <1>3, <1>4, UpTo
<1> QED
  BY <1>5 DEF F, B
\* What distribute_amount pays when the shares are complete: all of the amount, to everybody
\* but the last the rounded share, and to the last at least its share.
LEMMA Distribution ==
    ASSUME NEW amount \in Nat, NEW shares \in Seq(Share), SharesAreComplete(shares)
    PROVE  LET n == Len(shares)
               p == DistributeAmount(amount, shares)
           IN  /\ n \in Nat \ {0} /\ p \in [1..n -> Nat] /\ TotalOf(p) = amount
               /\ \A i \in 1..n :
                    IF i < n
                    THEN /\ p[i] * BasisPoints <= amount * shares[i].bps
                         /\ amount * shares[i].bps <= p[i] * BasisPoints + BasisPoints
                    ELSE p[i] * BasisPoints >= amount * shares[i].bps
<1> DEFINE n == Len(shares)
           b == [i \in DOMAIN shares |-> shares[i].bps]
           f == [i \in DOMAIN shares |-> (amount * shares[i].bps) \div BasisPoints]
           p == DistributeAmount(amount, shares)
           F == Subtotals(f)
           B == Subtotals(b)
           rest == Max({0, amount - TotalOf(SubSeq(f, 1, n - 1))})
<1>1. n \in Nat /\ DOMAIN shares = 1..n /\ \A i \in 1..n : shares[i].bps \in 0..BasisPoints
  <2>1. n \in Nat /\ DOMAIN shares = 1..n /\ \A i \in 1..n : shares[i] \in Share
    <3> HIDE DEF b, f, p, F, B, rest
    <3> QED
      OBVIOUS
  <2>2. ASSUME NEW i \in 1..n
        PROVE  shares[i].bps \in 0..BasisPoints
    <3>1. PICK x \in Share : x = shares[i]
      BY <2>1
    <3>2. x.bps \in 0..BasisPoints
      BY DEF Share
    <3> QED
      BY <3>1, <3>2, Zenon
  <2> HIDE DEF n
  <2> QED
    BY <2>1, <2>2, Zenon
<1>2. \A i \in 1..n : shares[i].bps \in Nat /\ amount * shares[i].bps \in Nat
  <2> SUFFICES ASSUME NEW i \in 1..n
               PROVE  shares[i].bps \in Nat /\ amount * shares[i].bps \in Nat
    OBVIOUS
  <2>1. shares[i].bps \in Nat
    <3>1. 0..BasisPoints \subseteq Nat
      BY DEF BasisPoints
    <3> QED
      BY <1>1, <3>1, Zenon
  <2>2. PICK c \in Nat : c = shares[i].bps
    BY <2>1
  <2>3. amount * c \in Nat
    OBVIOUS
  <2> QED
    BY <2>1, <2>2, <2>3, Zenon
<1>3. b \in [1..n -> Nat] /\ \A i \in 1..n : b[i] = shares[i].bps
  BY <1>1, <1>2
<1>4. /\ f \in [1..n -> Nat]
      /\ \A i \in 1..n : f[i] = (amount * shares[i].bps) \div BasisPoints
  BY <1>1, <1>2, RoundedDown
<1>5. TotalOf(b) = BasisPoints
  BY Zenon DEF SharesAreComplete
<1>6. p = [i \in DOMAIN shares |-> IF i < n THEN f[i]
                       ELSE Max({0, amount - TotalOf(SubSeq(f, 1, i - 1))})]
  BY Zenon DEF DistributeAmount
<1> HIDE DEF b, f, n, p
<1>7. /\ B \in [0..n -> Nat] /\ B[0] = 0 /\ TotalOf(b) = B[n]
      /\ \A k \in 1..n : B[k] = B[k - 1] + b[k]
  BY <1>1, <1>3, SubtotalSteps
<1>8. /\ F \in [0..n -> Nat] /\ F[0] = 0 /\ TotalOf(f) = F[n]
      /\ \A k \in 1..n : F[k] = F[k - 1] + f[k]
  BY <1>1, <1>4, SubtotalSteps
<1>9. \A k \in 0..n : F[k] * BasisPoints <= amount * B[k]
  <2>1. \A i \in 1..n : f[i] = (amount * b[i]) \div BasisPoints
    BY <1>3, <1>4, Zenon
  <2> QED
    BY <1>1, <1>3, <1>4, <2>1, RoundedSubtotals
<1>10. n # 0
  <2>1. BasisPoints # 0
    BY DEF BasisPoints
  <2> QED
    BY <1>5, <1>7, <2>1
<1>11. n - 1 \in 0..n /\ n \in 1..n /\ n \in 0..n
  BY <1>1, <1>10
<1>12. TotalOf(SubSeq(f, 1, n - 1)) = F[n - 1]
  BY <1>1, <1>4, <1>11, PrefixSum
<1> HIDE DEF B, F
\* The numbers of the last share.
<1>13. PICK x, y, u, v \in Nat : x = F[n - 1] /\ y = B[n - 1] /\ u = f[n] /\ v = b[n]
  <2>1. F[n - 1] \in Nat /\ B[n - 1] \in Nat /\ f[n] \in Nat /\ b[n] \in Nat
    BY <1>3, <1>4, <1>7, <1>8, <1>11
  <2> QED
    BY <2>1, Zenon
<1>14. x * BasisPoints <= amount * y /\ y + v = BasisPoints
  <2>1. B[n] = B[n - 1] + b[n]
    BY <1>7, <1>11
  <2>2. F[n - 1] * BasisPoints <= amount * B[n - 1]
    BY <1>9, <1>11
  <2> QED
    BY <1>5, <1>7, <1>13, <2>1, <2>2, Zenon
<1>15. x <= amount /\ (amount - x) * BasisPoints >= amount * v
  <2>1. amount * BasisPoints = amount * y + amount * v
    <3>1. amount * (y + v) = amount * y + amount * v
      OBVIOUS
    <3> QED
      BY <1>14, <3>1
  <2>2. amount * y \in Nat /\ amount * v \in Nat
    OBVIOUS
  <2>3. PICK yy, vv \in Nat : yy = amount * y /\ vv = amount * v
    BY <2>2
  <2>4. x * 10000 <= yy /\ amount * 10000 = yy + vv
    BY <1>14, <2>1, <2>3 DEF BasisPoints
  <2>5. x <= amount /\ (amount - x) * 10000 >= vv
    BY <2>4
  <2> QED
    BY <2>3, <2>5 DEF BasisPoints
<1>16. rest = amount - x
  <2>1. rest = Max({0, amount - x})
    BY <1>12, <1>13, Zenon
  <2>2. amount - x \in Int /\ 0 \in Int /\ 0 <= amount - x
    BY <1>15
  <2> HIDE DEF rest
  <2> QED
    BY <2>1, <2>2, TwoNumbers
<1> HIDE DEF rest
<1>17. p \in [1..n -> Nat] /\ p[n] = amount - x /\ \A i \in 1..n : i < n => p[i] = f[i]
  <2>1. /\ DOMAIN p = 1..n /\ p[n] = rest /\ \A i \in 1..n : i < n => p[i] = f[i]
        /\ p = [i \in 1..n |-> p[i]]
    <3> DEFINE G(i) == Max({0, amount - TotalOf(SubSeq(f, 1, i - 1))})
    <3>1. p = [i \in 1..n |-> IF i < n THEN f[i] ELSE G(i)] /\ G(n) = rest
      BY <1>1, <1>6, Zenon DEF rest
    <3> HIDE DEF G
    <3> QED
      BY <1>1, <1>11, <3>1
  <2>2. \A i \in 1..n : i # n => i < n
    BY <1>1
  <2>3. \A i \in 1..n : p[i] \in Nat
    BY <1>4, <1>15, <1>16, <2>1, <2>2
  <2> QED
    BY <1>16, <2>1, <2>3
<1>18. TotalOf(p) = amount
  <2>1. \A i \in 1..n : i # n => i < n
    BY <1>1
  <2>2. TotalOf(p) + f[n] = TotalOf(f) + p[n]
    <3>1. \A i \in 1..n : i # n => p[i] = f[i]
      BY <1>17, <2>1
    <3> QED
      BY <1>1, <1>4, <1>11, <1>17, <3>1, OneAmountChanged
  <2>3. TotalOf(f) = x + u
    BY <1>8, <1>11, <1>13
  <2>4. TotalOf(p) \in Nat
    BY <1>1, <1>17, SubtotalSteps
  <2>5. TotalOf(p) + u = (x + u) + (amount - x)
    BY <1>13, <1>17, <2>2, <2>3
  <2> QED
    BY <2>4, <2>5
<1>19. ASSUME NEW i \in 1..n
       PROVE  IF i < n
              THEN /\ p[i] * BasisPoints <= amount * shares[i].bps
                   /\ amount * shares[i].bps <= p[i] * BasisPoints + BasisPoints
              ELSE p[i] * BasisPoints >= amount * shares[i].bps
  <2>1. CASE i < n
    <3>1. PICK m \in Nat : m = amount * shares[i].bps
      BY <1>2
    <3>2. p[i] = m \div BasisPoints
      BY <1>4, <1>17, <2>1, <3>1
    <3>3. PICK q \in Nat : q = m \div BasisPoints
      BY RoundedDown
    <3>4. q * BasisPoints <= m /\ m <= q * BasisPoints + BasisPoints
      <4>1. q * 10000 <= m /\ m < q * 10000 + 10000
        BY <3>3, RoundedDown DEF BasisPoints
      <4> QED
        BY <4>1 DEF BasisPoints
    <3> QED
      BY <2>1, <3>1, <3>2, <3>3, <3>4, Zenon
  <2>2. CASE i = n
    <3>1. p[i] = amount - x /\ shares[i].bps = v /\ ~(i < n)
      BY <1>1, <1>3, <1>13, <1>17, <2>2
    <3>2. p[i] * BasisPoints >= amount * shares[i].bps
      BY <1>15, <3>1, Zenon
    <3> QED
      BY <3>1, <3>2, Zenon
  <2>3. i < n \/ i = n
    BY <1>1
  <2> QED
    BY <2>1, <2>2, <2>3, Zenon
<1>20. n \in Nat \ {0}
  BY <1>1, <1>10
<1> QED
  BY <1>17, <1>18, <1>19, <1>20, Zenon DEF n, p

-----------------------------------------------------------------------------
(* Sorting the effects of a ruling. *)

\* A party's place in the sorted list is how many parties are not behind it.
LEMMA Places ==
    ASSUME NEW n \in Nat, NEW key \in [1..n -> Nat],
           \A i, j \in 1..n : i # j => key[i] # key[j]
    PROVE  \E p \in [1..n -> 1..n] :
              /\ \A i \in 1..n : \E k \in 1..n : p[k] = i
              /\ \A i, j \in 1..n : i < j => key[p[i]] < key[p[j]]
<1> DEFINE upto(k) == {j \in 1..n : key[j] <= key[k]}
           place == [k \in 1..n |-> Cardinality(upto(k))]
<1>1. IsFiniteSet(1..n) /\ Cardinality(1..n) = n
  BY FS_Interval
<1>2. ASSUME NEW k \in 1..n
      PROVE  IsFiniteSet(upto(k)) /\ Cardinality(upto(k)) \in 1..n
  <2>1. upto(k) \in SUBSET (1..n) /\ k \in upto(k)
    OBVIOUS
  <2> HIDE DEF upto
  <2>2. IsFiniteSet(upto(k)) /\ Cardinality(upto(k)) <= n
    BY <1>1, <2>1, FS_Subset
  <2>3. Cardinality(upto(k)) \in Nat /\ Cardinality(upto(k)) # 0
    BY <2>1, <2>2, FS_CardinalityType, FS_EmptySet
  <2> QED
    BY <2>2, <2>3
<1>3. ASSUME NEW k \in 1..n, NEW l \in 1..n, key[k] < key[l]
      PROVE  Cardinality(upto(k)) < Cardinality(upto(l))
  <2>1. upto(k) \in SUBSET upto(l) /\ l \in upto(l) /\ l \notin upto(k)
    BY <1>3
  <2>2. IsFiniteSet(upto(l)) /\ Cardinality(upto(l)) \in 1..n
        /\ Cardinality(upto(k)) \in 1..n
    BY <1>2
  <2> HIDE DEF upto
  <2>3. Cardinality(upto(k)) <= Cardinality(upto(l))
        /\ Cardinality(upto(l)) # Cardinality(upto(k))
    BY <2>1, <2>2, FS_Subset
  <2> QED
    BY <2>2, <2>3
<1>4. place \in [1..n -> 1..n]
      /\ \A k, l \in 1..n : key[k] < key[l] => place[k] < place[l]
  <2> HIDE DEF upto
  <2> QED
    BY <1>2, <1>3
<1> HIDE DEF place
<1>5. \A k, l \in 1..n : place[k] = place[l] => k = l
  <2> SUFFICES ASSUME NEW k \in 1..n, NEW l \in 1..n, place[k] = place[l], k # l
               PROVE  FALSE
    OBVIOUS
  <2>1. key[k] < key[l] \/ key[l] < key[k]
    OBVIOUS
  <2>2. place[k] < place[l] \/ place[l] < place[k]
    BY <1>4, <2>1
  <2>3. place[k] \in 1..n /\ place[l] \in 1..n
    BY <1>4
  <2> QED
    BY <2>2, <2>3
<1>6. place \in Injection(1..n, 1..n)
  BY <1>4, <1>5, Fun_IsInj
<1>7. place \in Surjection(1..n, 1..n)
  BY <1>1, <1>6, FS_Injection
<1>8. \A i \in 1..n : \E k \in 1..n : place[k] = i
  BY <1>7 DEF Surjection
<1> DEFINE p == [i \in 1..n |-> CHOOSE k \in 1..n : place[k] = i]
<1>9. p \in [1..n -> 1..n] /\ \A i \in 1..n : place[p[i]] = i
  <2>1. ASSUME NEW i \in 1..n
        PROVE  /\ (CHOOSE k \in 1..n : place[k] = i) \in 1..n
               /\ place[CHOOSE k \in 1..n : place[k] = i] = i
    BY <1>8, Zenon
  <2>2. p \in [1..n -> 1..n]
    BY <2>1
  <2>3. ASSUME NEW i \in 1..n
        PROVE  place[p[i]] = i
    <3>1. p[i] = CHOOSE k \in 1..n : place[k] = i
      OBVIOUS
    <3> QED
      BY <2>1, <3>1
  <2> QED
    BY <2>2, <2>3
<1> HIDE DEF p
<1>10. \A k \in 1..n : p[place[k]] = k
  BY <1>4, <1>5, <1>9
<1>11. \A i \in 1..n : \E k \in 1..n : p[k] = i
  BY <1>4, <1>10
<1>12. ASSUME NEW i \in 1..n, NEW j \in 1..n, i < j
       PROVE  key[p[i]] < key[p[j]]
  <2>1. p[i] \in 1..n /\ p[j] \in 1..n /\ place[p[i]] = i /\ place[p[j]] = j
    BY <1>9
  <2>2. p[i] # p[j] /\ ~(place[p[j]] < place[p[i]])
    <3>1. i # j /\ ~(j < i)
      BY <1>12
    <3> QED
      BY <2>1, <3>1
  <2>3. key[p[i]] \in Nat /\ key[p[j]] \in Nat /\ key[p[i]] # key[p[j]]
    BY <2>1, <2>2
  <2>4. ~(key[p[j]] < key[p[i]])
    BY <1>4, <2>1, <2>2
  <2> QED
    BY <2>3, <2>4
<1> QED
  BY <1>9, <1>11, <1>12

\* Sorting loses no effect and adds none.
LEMMA SortedEffects ==
    ASSUME NEW effects \in Seq(Effect),
           \A i, j \in DOMAIN effects : i # j => effects[i].party # effects[j].party
    PROVE  LET sorted == NormalizeDisputeReputationEffects(effects)
           IN  DOMAIN sorted = DOMAIN effects /\ ToSet(sorted) = ToSet(effects)
<1> DEFINE n == Len(effects)
           key == [i \in 1..n |-> effects[i].party]
<1>1. n \in Nat /\ DOMAIN effects = 1..n /\ \A i \in 1..n : effects[i] \in Effect
  OBVIOUS
<1>2. key \in [1..n -> Nat] /\ \A i, j \in 1..n : i # j => key[i] # key[j]
  BY <1>1, AgreementAssumption DEF Effect
<1>3. PICK p \in [1..n -> 1..n] :
        /\ \A i \in 1..n : \E k \in 1..n : p[k] = i
        /\ \A i, j \in 1..n : i < j => key[p[i]] < key[p[j]]
  <2> HIDE DEF key, n
  <2> QED
    BY <1>1, <1>2, Places
<1> DEFINE s == [i \in DOMAIN effects |-> effects[p[i]]]
<1>4. s \in [DOMAIN effects -> ToSet(effects)]
  BY <1>1, <1>3 DEF ToSet
<1>5. ToSet(s) = ToSet(effects)
  <2>1. DOMAIN s = 1..n /\ \A i \in 1..n : s[i] = effects[p[i]]
    BY <1>1
  <2> HIDE DEF s, n
  <2>2. ASSUME NEW x
        PROVE  x \in ToSet(s) <=> x \in ToSet(effects)
    <3>1. x \in ToSet(s) <=> \E i \in 1..n : x = effects[p[i]]
      BY <2>1 DEF ToSet
    <3>2. x \in ToSet(effects) <=> \E i \in 1..n : x = effects[i]
      BY <1>1 DEF ToSet
    <3> QED
      BY <1>3, <3>1, <3>2
  <2> QED
    BY <2>2
<1>6. \A i, j \in DOMAIN effects : i < j => s[i].party < s[j].party
  BY <1>1, <1>3
<1> HIDE DEF s
<1>7. \E sorted \in [DOMAIN effects -> ToSet(effects)] :
        /\ ToSet(sorted) = ToSet(effects)
        /\ \A i, j \in DOMAIN effects : i < j => sorted[i].party < sorted[j].party
  BY <1>4, <1>5, <1>6
<1>8. /\ NormalizeDisputeReputationEffects(effects) \in [DOMAIN effects -> ToSet(effects)]
      /\ ToSet(NormalizeDisputeReputationEffects(effects)) = ToSet(effects)
  BY <1>7, Zenon DEF NormalizeDisputeReputationEffects
<1> QED
  BY <1>8

\* Every effect of the list, and the opponent it gets, has an opponent.
Opposed(effects) ==
    \A i \in DOMAIN effects :
        LET against == DisputeReputationCounterparty(effects[i], effects)
        IN  /\ against # None
            /\ \E j \in DOMAIN effects :
                  /\ effects[j].party = against
                  /\ DisputeReputationCounterparty(effects[j], effects) # None

\* A list with winners and losers of different entities opposes them.
LEMMA EffectsOpposed ==
    ASSUME NEW effects, ToSet(effects) \subseteq Effect,
           \A e \in ToSet(effects) : \E x \in ToSet(effects) :
              x.outcome # e.outcome /\ ~SameEntity(e.party, x.party)
    PROVE  Opposed(effects)
<1> DEFINE against(e) == {x \in ToSet(effects) : x.outcome # e.outcome
                                                /\ ~SameEntity(e.party, x.party)}
           parties(e) == {x.party : x \in against(e)}
           other(e) == DisputeReputationCounterparty(e, effects)
<1>1. ASSUME NEW e \in ToSet(effects)
      PROVE  other(e) # None /\ \E x \in ToSet(effects) : x.party = other(e)
  <2>1. against(e) # {}
    OBVIOUS
  <2>2. other(e) = Min(parties(e))
    BY <2>1, Zenon DEF DisputeReputationCounterparty
  <2>3. parties(e) \subseteq Nat /\ \E s : s \in parties(e)
    <3>1. \A x \in against(e) : x.party \in Nat
      BY AgreementAssumption DEF Effect
    <3> HIDE DEF against
    <3> QED
      BY <2>1, <3>1
  <2>4. Min(parties(e)) \in parties(e)
    <3> HIDE DEF parties
    <3> QED
      BY <2>3, LeastNumber
  <2>5. other(e) \in Nat /\ \E x \in against(e) : x.party = other(e)
    <3> HIDE DEF other, against
    <3> QED
      BY <2>2, <2>3, <2>4
  <2> HIDE DEF other
  <2> QED
    BY <2>5 DEF None
<1> SUFFICES ASSUME NEW i \in DOMAIN effects
             PROVE  /\ other(effects[i]) # None
                    /\ \E j \in DOMAIN effects : effects[j].party = other(effects[i])
                                                /\ other(effects[j]) # None
  BY DEF Opposed
<1> HIDE DEF other
<1>2. effects[i] \in ToSet(effects)
  BY DEF ToSet
<1>3. PICK x \in ToSet(effects) : x.party = other(effects[i])
  BY <1>1, <1>2
<1>4. PICK j \in DOMAIN effects : effects[j] = x
  BY DEF ToSet
<1> QED
  BY <1>1, <1>2, <1>3, <1>4

\* What a ruling may name, sorted, is opposed.
LEMMA RulingOpposed ==
    ASSUME NEW parties, NEW effects \in Seq(Effect),
           DisputeReputationEffectsFit(parties, effects)
    PROVE  Opposed(NormalizeDisputeReputationEffects(effects))
<1> DEFINE sorted == NormalizeDisputeReputationEffects(effects)
<1>1. /\ \A i \in DOMAIN effects : effects[i] \in Effect
      /\ EffectsOppose(effects)
      /\ \A i, j \in DOMAIN effects :
            i # j => ~SameEntity(effects[i].party, effects[j].party)
  BY DEF DisputeReputationEffectsFit
<1>2. \A i, j \in DOMAIN effects : i # j => effects[i].party # effects[j].party
  BY <1>1 DEF SameEntity
<1>3. ToSet(sorted) = ToSet(effects)
  BY <1>2, SortedEffects
<1>4. ToSet(effects) \subseteq Effect
  BY <1>1 DEF ToSet
<1>5. ASSUME NEW e \in ToSet(effects)
      PROVE  \E x \in ToSet(effects) : x.outcome # e.outcome /\ ~SameEntity(e.party, x.party)
  <2>1. PICK i \in DOMAIN effects : e = effects[i]
    BY DEF ToSet
  <2>2. effects # <<>>
    BY <2>1
  <2>3. {effects[k].outcome : k \in DOMAIN effects} = {"Won", "Lost"}
    BY <1>1, <2>2 DEF EffectsOppose
  <2>4. PICK k \in DOMAIN effects : effects[k].outcome # e.outcome
    BY <2>3
  <2>5. ~SameEntity(e.party, effects[k].party)
    BY <1>1, <2>1, <2>4
  <2> QED
    BY <2>4, <2>5 DEF ToSet
<1> HIDE DEF sorted
<1> QED
  BY <1>3, <1>4, <1>5, EffectsOpposed DEF sorted

-----------------------------------------------------------------------------
(* The inductive invariant. *)

RowFields ==
    {"parties", "proposer", "escrow", "status", "expiresAt", "acceptedBy", "arbitrator",
     "disputed", "deadline", "prior", "resolution", "milestones", "released", "feeBps",
     "provider", "shares", "deposit", "approver"}
MilestoneFields == {"amount", "status", "result", "resolution"}

AgreementRow(a) ==
    /\ DOMAIN a = RowFields
    /\ a.status \in AgreementStatus
    /\ DOMAIN a.milestones \subseteq Nat \ {0}
    /\ \A i \in DOMAIN a.milestones : DOMAIN a.milestones[i] = MilestoneFields

\* As the links told, the address x belonged to none of the parties.
Outside(links, x, parties) == x # None => \A p \in parties : links[x] # links[p]

\* Whoever may order a payment had nothing of its own to gain from it when that was
\* checked: v holds the links of the check of the deal and of that of its arbitrator.
Independent(a, v) ==
    /\ \A r \in Recipients(EffectiveSettlementAllocations(a.provider, a.shares)) :
          v.deal[SettlementApprover(a.proposer, a.approver)] = v.deal[r] =>
             v.deal[a.proposer] = v.deal[r]
    /\ Outside(v.arbitrator, a.arbitrator, a.parties)

\* A dispute about a milestone has marked that milestone.
DisputeMarked(a) ==
    a.status = "Disputed" /\ a.disputed # Whole =>
        /\ a.disputed \in DOMAIN a.milestones
        /\ a.milestones[a.disputed].status = "Disputed"

\* A ruling on the whole agreement is the last one and in the top-level slot; one
\* on a milestone is in the milestone's slot, or at the top with that slot free.
Recorded(a, r) ==
    IF r.scope = Whole THEN a.status = "Resolved" /\ a.resolution = r
    ELSE /\ r.scope \in DOMAIN a.milestones
         /\ a.milestones[r.scope].status = "Resolved"
         /\ \/ a.milestones[r.scope].resolution = r
            \/ a.resolution = r /\ a.milestones[r.scope].resolution = NoResolution

RulingsRecorded(a, rs, old) ==
    /\ \A r \in rs : Recorded(a, r)
    /\ a.resolution = NoResolution \/ a.resolution \in rs
    /\ old => /\ rs = {}
              /\ \A i \in DOMAIN a.milestones : a.milestones[i].resolution = NoResolution

AgreementOK(a, rs, old, v) ==
    AgreementRow(a) /\ Independent(a, v) /\ DisputeMarked(a) /\ RulingsRecorded(a, rs, old)

JobFields ==
    {"requester", "provider", "arbitrator", "escrow", "sla", "window", "feeBps", "status",
     "submitDeadline", "result", "submittedAt", "challengeDeadline", "disputedAt",
     "deadline", "prior", "milestones"}
ToolMilestoneRow ==
    [amount : Nat, status : ToolMilestoneStatus, submitDeadline : Int, result : BOOLEAN,
     submittedAt : Int, challengeDeadline : Int, disputedAt : Int]

JobRow(j) ==
    /\ DOMAIN j = JobFields
    /\ j.status \in ToolJobStatus
    /\ j.submitDeadline \in Int /\ j.sla \in Nat /\ j.window \in Nat /\ j.result \in BOOLEAN
    /\ j.milestones \in Seq(ToolMilestoneRow)

\* Provider and requester were two entities, and the arbitrator was of a third.
JobIndependent(j, v) ==
    /\ v.deal[j.requester] # v.deal[j.provider]
    /\ Outside(v.arbitrator, j.arbitrator, {j.requester, j.provider})

\* Nothing is left of an earlier result or dispute but an arbitrator's name.
Transient(j) ==
    /\ (j.deadline # None) <=> (j.status = "Disputed")
    /\ (j.disputedAt # None) <=> (j.status = "Disputed")
    /\ j.prior # {} => j.status = "Disputed"
    /\ j.status = "Disputed" => j.arbitrator \in Arbitrators \ j.prior

\* Milestone i of the list ms is the one that row j repeats.
Mirrors(j, ms, i) ==
    /\ i \in DOMAIN ms
    /\ \A k \in 1..(i - 1) : ms[k].status = "Completed"
    /\ ms[i].status = IF j.status = "Open" THEN "Pending" ELSE j.status
    /\ ms[i].submitDeadline = j.submitDeadline
    /\ ms[i].result = j.result
    /\ ms[i].submittedAt = j.submittedAt
    /\ ms[i].challengeDeadline = j.challengeDeadline
    /\ ms[i].disputedAt = j.disputedAt
    /\ \A k \in (i + 1)..Len(ms) : ms[k] = ToolMilestone(ms[k].amount)

JobOK(j, v) ==
    /\ JobRow(j) /\ JobIndependent(j, v) /\ Transient(j)
    /\ j.milestones # <<>> => \E i \in DOMAIN j.milestones : Mirrors(j, j.milestones, i)

EscrowInv ==
    /\ now \in Nat
    /\ IF agreement = NoRow THEN rulings = {} ELSE AgreementOK(agreement, rulings, legacy, vetted)
    /\ agreement = NoRow \/ job = NoRow
    /\ job \in {NoRow, ClosedRow} \/ JobOK(job, vetted)
    /\ NobodyPaysThemselves

-----------------------------------------------------------------------------
(* What the methods of the agreement row leave alone. *)

\* The fields that say who is who never change.
SameDeal(a, b) ==
    /\ b.parties = a.parties /\ b.proposer = a.proposer /\ b.provider = a.provider
    /\ b.shares = a.shares /\ b.approver = a.approver

LEMMA ClosingKeepsRow ==
    ASSUME NEW a, AgreementRow(a)
    PROVE  /\ DOMAIN Closing(a) = RowFields
           /\ SameDeal(a, Closing(a))
           /\ Closing(a).status \in {"Active", "Completed"}
           /\ Closing(a).milestones = a.milestones
           /\ Closing(a).resolution = a.resolution
           /\ Closing(a).arbitrator = a.arbitrator
<1> DEFINE b == [a EXCEPT !.status = "Completed", !.deposit = 0]
           c == [a EXCEPT !.status = "Active"]
<1>1. DOMAIN a = RowFields
  BY DEF AgreementRow
<1>2. /\ DOMAIN b = RowFields /\ SameDeal(a, b) /\ b.status = "Completed"
      /\ b.milestones = a.milestones /\ b.resolution = a.resolution
      /\ b.arbitrator = a.arbitrator
  BY <1>1 DEF RowFields, SameDeal
<1>3. /\ DOMAIN c = RowFields /\ SameDeal(a, c) /\ c.status = "Active"
      /\ c.milestones = a.milestones /\ c.resolution = a.resolution
      /\ c.arbitrator = a.arbitrator
  BY <1>1 DEF RowFields, SameDeal
<1>4. Closing(a) = b \/ Closing(a) = c
  BY Zenon DEF Closing
<1> HIDE DEF b, c
<1> QED
  BY <1>2, <1>3, <1>4

LEMMA ReleaseKeepsRow ==
    ASSUME NEW a, AgreementRow(a), NEW amount
    PROVE  /\ AgreementRow(RecordEscrowRelease(a, amount))
           /\ SameDeal(a, RecordEscrowRelease(a, amount))
           /\ RecordEscrowRelease(a, amount).milestones = a.milestones
           /\ RecordEscrowRelease(a, amount).resolution = a.resolution
           /\ RecordEscrowRelease(a, amount).arbitrator = a.arbitrator
<1> DEFINE x == Min({a.released + amount, a.escrow})
           b == [a EXCEPT !.released = x]
<1>1. RecordEscrowRelease(a, amount) = b
  BY Zenon DEF RecordEscrowRelease
<1> HIDE DEF x
<1>2. DOMAIN b = RowFields /\ b.status = a.status /\ SameDeal(a, b)
      /\ b.milestones = a.milestones /\ b.resolution = a.resolution
      /\ b.arbitrator = a.arbitrator
  BY DEF AgreementRow, RowFields, SameDeal
<1> HIDE DEF b
<1>3. AgreementRow(b)
  BY <1>2 DEF AgreementRow
<1> QED
  BY <1>1, <1>2, <1>3

\* A row that changes neither its deal nor a ruling stays in order.
LEMMA RowGoesOn ==
    ASSUME NEW a, NEW rs, NEW old, NEW v, AgreementOK(a, rs, old, v), a.status # "Resolved",
           NEW b, NEW w, w.deal = v.deal, Outside(w.arbitrator, b.arbitrator, b.parties),
           DOMAIN b = RowFields, b.status \in AgreementStatus, SameDeal(a, b),
           b.resolution = a.resolution, DOMAIN b.milestones = DOMAIN a.milestones,
           \A i \in DOMAIN a.milestones :
              /\ DOMAIN b.milestones[i] = MilestoneFields
              /\ b.milestones[i].resolution = a.milestones[i].resolution
              /\ a.milestones[i].status = "Resolved" => b.milestones[i].status = "Resolved",
           DisputeMarked(b)
    PROVE  AgreementOK(b, rs, old, w)
<1>1. AgreementRow(b)
  BY DEF AgreementOK, AgreementRow
<1>2. Independent(b, w)
  BY DEF AgreementOK, Independent, SameDeal
<1>3. \A r \in rs : Recorded(b, r)
  BY DEF AgreementOK, RulingsRecorded, Recorded
<1>4. RulingsRecorded(b, rs, old)
  BY <1>3 DEF AgreementOK, RulingsRecorded
<1> QED
  BY <1>1, <1>2, <1>4 DEF AgreementOK

\* An arbitrator that the protocol selects is of no party's entity at that moment.
LEMMA ChosenIsOutside ==
    ASSUME NEW parties, NEW prior, NEW x \in Eligible(parties, prior)
    PROVE  Outside(entity, x, parties)
BY DEF Eligible, ArbitratorFits, SameEntity, Outside

\* The invariant of a step that leaves the job and the rulings alone.
LEMMA AgreementStep ==
    ASSUME EscrowInv, agreement # NoRow, UNCHANGED <<now, job, rulings, legacy>>,
           AgreementOK(agreement', rulings, legacy, vetted'),
           agreement'.status \in AgreementStatus, NobodyPaysThemselves'
    PROVE  EscrowInv'
<1>1. agreement' # NoRow /\ job' = NoRow
  BY DEF EscrowInv, NoRow, AgreementStatus
<1>2. AgreementOK(agreement', rulings', legacy', vetted')
  OBVIOUS
<1> QED
  BY <1>1, <1>2 DEF EscrowInv

\* Nobody else is paid by a step that pays nobody.
LEMMA NoPayment ==
    ASSUME EscrowInv, release' = release
    PROVE  NobodyPaysThemselves'
BY DEF EscrowInv, NobodyPaysThemselves

\* A row with a status is there.
LEMMA RowThere ==
    ASSUME EscrowInv, agreement.status \in AgreementStatus
    PROVE  /\ agreement # NoRow /\ AgreementOK(agreement, rulings, legacy, vetted)
           /\ AgreementRow(agreement) /\ DOMAIN agreement = RowFields
<1>1. agreement # NoRow
  BY DEF NoRow, AgreementStatus
<1> QED
  BY <1>1 DEF EscrowInv, AgreementOK, AgreementRow

-----------------------------------------------------------------------------
(* The steps of the agreement. *)

LEMMA AcceptKeeps ==
    ASSUME EscrowInv, NEW p, Accept(p)
    PROVE  EscrowInv'
<1> DEFINE a == [agreement EXCEPT !.acceptedBy = @ \cup {p}]
           b == [a EXCEPT !.status = "Active"]
<1>1. /\ agreement.status = "Proposed" /\ agreement.status \in AgreementStatus
      /\ agreement' = IF IsFullyAccepted(a) THEN b ELSE a
      /\ UNCHANGED <<now, job, rulings, legacy, vetted>> /\ release' = release
  BY DEF Accept, AgreementStatus
<1>2. /\ agreement # NoRow /\ AgreementOK(agreement, rulings, legacy, vetted)
      /\ AgreementRow(agreement) /\ DOMAIN agreement = RowFields
  BY <1>1, RowThere
<1>3. /\ DOMAIN a = RowFields /\ a.status = "Proposed" /\ SameDeal(agreement, a)
      /\ a.resolution = agreement.resolution /\ a.arbitrator = agreement.arbitrator
      /\ a.milestones = agreement.milestones
  BY <1>1, <1>2 DEF RowFields, SameDeal
<1> HIDE DEF a
<1>4. /\ DOMAIN b = RowFields /\ b.status = "Active" /\ SameDeal(agreement, b)
      /\ b.resolution = agreement.resolution /\ b.arbitrator = agreement.arbitrator
      /\ b.milestones = agreement.milestones
  BY <1>3 DEF RowFields, SameDeal
<1> HIDE DEF b
<1>5. /\ DOMAIN agreement' = RowFields /\ agreement'.status \in {"Proposed", "Active"}
      /\ SameDeal(agreement, agreement')
      /\ agreement'.resolution = agreement.resolution
      /\ agreement'.arbitrator = agreement.arbitrator
      /\ agreement'.milestones = agreement.milestones
  BY <1>1, <1>3, <1>4
<1>6. DisputeMarked(agreement') /\ agreement'.status \in AgreementStatus
  BY <1>5 DEF DisputeMarked, AgreementStatus
<1>7. Outside(vetted.arbitrator, agreement'.arbitrator, agreement'.parties)
  BY <1>2, <1>5 DEF AgreementOK, Independent, SameDeal
<1>8. AgreementOK(agreement', rulings, legacy, vetted')
  BY <1>1, <1>2, <1>5, <1>6, <1>7, RowGoesOn DEF AgreementRow
<1> QED
  BY <1>1, <1>2, <1>6, <1>8, NoPayment, AgreementStep

\* A payment is fair when its recipients are the payer's, or not of its author.
LEMMA FairPayment ==
    ASSUME NEW by, NEW to, NEW payer, NEW links, release' = Paid(by, to, payer, links),
           \A r \in to : by # None /\ links[by] = links[r] => links[payer] = links[r]
    PROVE  NobodyPaysThemselves'
<1>1. release'.by = by /\ release'.to = to /\ release'.payer = payer /\ release'.links = links
  BY DEF Paid
<1> QED
  BY <1>1 DEF NobodyPaysThemselves

\* A step that changes no milestone.
LEMMA QuietStep ==
    ASSUME EscrowInv, agreement.status \in AgreementStatus, agreement.status # "Resolved",
           UNCHANGED <<now, job, rulings, legacy>>, vetted'.deal = vetted.deal,
           DOMAIN agreement' = RowFields, agreement'.status \in AgreementStatus,
           SameDeal(agreement, agreement'), agreement'.resolution = agreement.resolution,
           agreement'.milestones = agreement.milestones,
           Outside(vetted'.arbitrator, agreement'.arbitrator, agreement'.parties),
           DisputeMarked(agreement'), NobodyPaysThemselves'
    PROVE  EscrowInv'
<1>1. /\ agreement # NoRow /\ AgreementOK(agreement, rulings, legacy, vetted)
      /\ AgreementRow(agreement)
  BY RowThere
<1>2. AgreementOK(agreement', rulings, legacy, vetted')
  BY <1>1, RowGoesOn DEF AgreementRow
<1> QED
  BY <1>1, <1>2, AgreementStep

LEMMA CancelKeeps ==
    ASSUME EscrowInv, Cancel
    PROVE  EscrowInv'
<1> DEFINE a == [agreement EXCEPT !.status = "Cancelled", !.deposit = 0]
<1>1. /\ agreement.status \in AgreementStatus /\ agreement.status # "Resolved"
      /\ agreement' = a /\ UNCHANGED <<now, job, rulings, legacy, vetted>>
      /\ release' = Paid(agreement.proposer, {agreement.proposer}, agreement.proposer,
                         vetted.deal)
  BY DEF Cancel, AgreementStatus
<1>2. AgreementOK(agreement, rulings, legacy, vetted) /\ DOMAIN agreement = RowFields
  BY <1>1, RowThere
<1>3. /\ DOMAIN a = RowFields /\ a.status = "Cancelled" /\ SameDeal(agreement, a)
      /\ a.resolution = agreement.resolution /\ a.arbitrator = agreement.arbitrator
      /\ a.milestones = agreement.milestones
  BY <1>2 DEF RowFields, SameDeal
<1> HIDE DEF a
<1>4. DisputeMarked(a) /\ a.status \in AgreementStatus
  BY <1>3 DEF DisputeMarked, AgreementStatus
<1>5. Outside(vetted.arbitrator, a.arbitrator, a.parties)
  BY <1>2, <1>3 DEF AgreementOK, Independent, SameDeal
<1>6. NobodyPaysThemselves'
  BY <1>1, FairPayment
<1> QED
  BY <1>1, <1>3, <1>4, <1>5, <1>6, QuietStep

LEMMA ReassignKeeps ==
    ASSUME EscrowInv, NEW x, Reassign(x)
    PROVE  EscrowInv'
<1> DEFINE d == now + Window
           q == agreement.prior \cup {agreement.arbitrator}
           a == [agreement EXCEPT !.prior = q, !.arbitrator = x, !.deadline = d]
<1>1. /\ agreement.status = "Disputed" /\ agreement.status \in AgreementStatus
      /\ agreement' = a /\ UNCHANGED <<now, job, rulings, legacy>> /\ release' = release
      /\ x \in Eligible(agreement.parties, q)
      /\ vetted'.deal = vetted.deal /\ vetted'.arbitrator = entity
  BY DEF Reassign, AgreementStatus, ArbitratorVetted
<1>2. AgreementOK(agreement, rulings, legacy, vetted) /\ DOMAIN agreement = RowFields
  BY <1>1, RowThere
<1> HIDE DEF d, q
<1>3. /\ DOMAIN a = RowFields /\ a.status = agreement.status /\ SameDeal(agreement, a)
      /\ a.resolution = agreement.resolution /\ a.arbitrator = x
      /\ a.milestones = agreement.milestones /\ a.disputed = agreement.disputed
  BY <1>2 DEF RowFields, SameDeal
<1> HIDE DEF a
<1>4. DisputeMarked(a)
  BY <1>2, <1>3 DEF DisputeMarked, AgreementOK
<1>5. Outside(vetted'.arbitrator, a.arbitrator, a.parties)
  BY <1>1, <1>3, ChosenIsOutside DEF SameDeal
<1> QED
  BY <1>1, <1>3, <1>4, <1>5, NoPayment, QuietStep

LEMMA ExpireKeeps ==
    ASSUME EscrowInv, ExpireAgreement
    PROVE  EscrowInv'
<1> DEFINE e == [agreement EXCEPT !.status = "Expired", !.deposit = 0]
           a == [e EXCEPT !.disputed = Whole, !.deadline = None, !.prior = {}]
<1>1. /\ agreement.status \in {"Proposed", "Active", "Disputed"}
      /\ agreement' = a /\ UNCHANGED <<now, job, rulings, legacy, vetted>>
      /\ release' = Paid(None, {agreement.proposer}, agreement.proposer, vetted.deal)
  BY DEF ExpireAgreement, NormalizeForExpiry, ClearDisputeState
<1>2. agreement.status \in AgreementStatus /\ agreement.status # "Resolved"
  BY <1>1 DEF AgreementStatus
<1>3. AgreementOK(agreement, rulings, legacy, vetted) /\ DOMAIN agreement = RowFields
  BY <1>2, RowThere
<1>4. /\ DOMAIN e = RowFields /\ e.status = "Expired" /\ SameDeal(agreement, e)
      /\ e.resolution = agreement.resolution /\ e.arbitrator = agreement.arbitrator
      /\ e.milestones = agreement.milestones
  BY <1>3 DEF RowFields, SameDeal
<1> HIDE DEF e
<1>5. /\ DOMAIN a = RowFields /\ a.status = "Expired" /\ SameDeal(agreement, a)
      /\ a.resolution = agreement.resolution /\ a.arbitrator = agreement.arbitrator
      /\ a.milestones = agreement.milestones
  BY <1>4 DEF RowFields, SameDeal
<1> HIDE DEF a
<1>6. DisputeMarked(a) /\ a.status \in AgreementStatus
  BY <1>5 DEF DisputeMarked, AgreementStatus
<1>7. Outside(vetted.arbitrator, a.arbitrator, a.parties)
  BY <1>3, <1>5 DEF AgreementOK, Independent, SameDeal
<1>8. NobodyPaysThemselves'
  BY <1>1, FairPayment
<1> QED
  BY <1>1, <1>2, <1>5, <1>6, <1>7, <1>8, QuietStep

\* A dispute marks the milestone it is about.
LEMMA DisputeKeeps ==
    ASSUME EscrowInv, NEW scope, NEW x, Dispute(scope, x)
    PROVE  EscrowInv'
<1> DEFINE d == now + Window
           a == [agreement EXCEPT !.status = "Disputed", !.disputed = scope,
                                  !.arbitrator = x, !.deadline = d]
           m == [agreement.milestones[scope] EXCEPT !.status = "Disputed"]
           ms == [agreement.milestones EXCEPT ![scope] = m]
           b == [a EXCEPT !.milestones = ms]
<1>1. /\ agreement.status = "Active" /\ agreement.status \in AgreementStatus
      /\ UNCHANGED <<now, job, rulings, legacy>> /\ release' = release
      /\ \/ scope = Whole
         \/ scope \in DOMAIN agreement.milestones
            /\ agreement.milestones[scope].status = "Pending"
      /\ x \in IF agreement.arbitrator # None THEN {agreement.arbitrator}
               ELSE Eligible(agreement.parties, {})
      /\ IF agreement.arbitrator # None THEN vetted' = vetted
         ELSE vetted'.deal = vetted.deal /\ vetted'.arbitrator = entity
  BY DEF Dispute, AgreementStatus, ArbitratorVetted
<1>2. agreement' = IF scope = Whole THEN a
                   ELSE [a EXCEPT !.milestones[scope].status = "Disputed"]
  BY Zenon DEF Dispute
<1>3. /\ agreement # NoRow /\ AgreementOK(agreement, rulings, legacy, vetted)
      /\ AgreementRow(agreement) /\ DOMAIN agreement = RowFields
  BY <1>1, RowThere
<1> HIDE DEF d
<1>4. /\ DOMAIN a = RowFields /\ a.status = "Disputed" /\ SameDeal(agreement, a)
      /\ a.resolution = agreement.resolution /\ a.arbitrator = x
      /\ a.milestones = agreement.milestones /\ a.disputed = scope
  BY <1>3 DEF RowFields, SameDeal
<1> HIDE DEF a
<1>5. vetted'.deal = vetted.deal /\ Outside(vetted'.arbitrator, x, agreement.parties)
  BY <1>1, <1>3, ChosenIsOutside DEF AgreementOK, Independent
<1>6. CASE scope = Whole
  <2>1. agreement' = a
    BY <1>2, <1>6
  <2>2. DisputeMarked(a) /\ a.status \in AgreementStatus
    BY <1>4, <1>6 DEF DisputeMarked, AgreementStatus
  <2>3. Outside(vetted'.arbitrator, a.arbitrator, a.parties)
    BY <1>4, <1>5 DEF SameDeal
  <2> QED
    BY <1>1, <1>4, <1>5, <2>1, <2>2, <2>3, NoPayment, QuietStep
<1>7. CASE scope # Whole
  <2>1. agreement' = b
    BY <1>2, <1>4, <1>7
  <2>2. scope \in DOMAIN agreement.milestones /\ agreement.milestones[scope].status = "Pending"
    BY <1>1, <1>7
  <2>3. /\ DOMAIN m = MilestoneFields /\ m.status = "Disputed"
        /\ m.resolution = agreement.milestones[scope].resolution
    BY <1>3, <2>2 DEF AgreementRow, MilestoneFields
  <2> HIDE DEF m
  <2>4. /\ DOMAIN ms = DOMAIN agreement.milestones /\ ms[scope] = m
        /\ \A i \in DOMAIN agreement.milestones : i # scope => ms[i] = agreement.milestones[i]
    BY <2>2
  <2> HIDE DEF ms
  <2>5. /\ DOMAIN b = RowFields /\ b.status = "Disputed" /\ SameDeal(agreement, b)
        /\ b.resolution = agreement.resolution /\ b.arbitrator = x
        /\ b.milestones = ms /\ b.disputed = scope
    BY <1>4 DEF RowFields, SameDeal
  <2> HIDE DEF b
  <2>6. \A i \in DOMAIN agreement.milestones :
          /\ DOMAIN ms[i] = MilestoneFields
          /\ ms[i].resolution = agreement.milestones[i].resolution
          /\ agreement.milestones[i].status = "Resolved" => ms[i].status = "Resolved"
    BY <1>3, <2>2, <2>3, <2>4 DEF AgreementRow
  <2>7. DisputeMarked(b) /\ b.status \in AgreementStatus
    BY <2>2, <2>3, <2>4, <2>5 DEF DisputeMarked, AgreementStatus
  <2>8. Outside(vetted'.arbitrator, b.arbitrator, b.parties)
    BY <1>5, <2>5 DEF SameDeal
  <2>9. AgreementOK(b, rulings, legacy, vetted')
    BY <1>1, <1>3, <1>5, <2>4, <2>5, <2>6, <2>7, <2>8, RowGoesOn
  <2> QED
    BY <1>1, <1>3, <2>1, <2>7, <2>9, NoPayment, AgreementStep
<1> QED
  BY <1>6, <1>7

\* A milestone is released to the recipients of the settlement.
LEMMA ExecuteKeeps ==
    ASSUME EscrowInv, NEW i, Execute(i)
    PROVE  EscrowInv'
<1> DEFINE amount == agreement.milestones[i].amount
           done == [agreement EXCEPT !.milestones[i].status = "Completed",
                                     !.milestones[i].result = TRUE]
           m == [agreement.milestones[i] EXCEPT !.status = "Completed", !.result = TRUE]
           ms == [agreement.milestones EXCEPT ![i] = m]
           paid == RecordEscrowRelease(done, amount)
           b == Closing(paid)
           by == SettlementApprover(agreement.proposer, agreement.approver)
<1>1. /\ agreement.status = "Active" /\ agreement.status \in AgreementStatus
      /\ UNCHANGED <<now, job, rulings, legacy, vetted>>
      /\ i \in DOMAIN agreement.milestones /\ agreement.milestones[i].status = "Pending"
  BY DEF Execute, AgreementStatus
<1>2. /\ agreement' = b
      /\ release' = Paid(by, SettlementRecipients(agreement), agreement.proposer,
                         vetted.deal)
  BY Zenon DEF Execute
<1>3. /\ agreement # NoRow /\ AgreementOK(agreement, rulings, legacy, vetted)
      /\ AgreementRow(agreement) /\ DOMAIN agreement = RowFields
  BY <1>1, RowThere
<1>4. /\ DOMAIN m = MilestoneFields /\ m.resolution = agreement.milestones[i].resolution
  BY <1>1, <1>3 DEF AgreementRow, MilestoneFields
<1>5. done = [agreement EXCEPT !.milestones = ms]
  <2> DEFINE m1 == [agreement.milestones[i] EXCEPT !.status = "Completed"]
             ms1 == [agreement.milestones EXCEPT ![i] = m1]
             a1 == [agreement EXCEPT !.milestones = ms1]
             m2 == [m1 EXCEPT !.result = TRUE]
  <2>1. done = [a1 EXCEPT !.milestones[i].result = TRUE]
    OBVIOUS
  <2>2. m2 = m
    OBVIOUS
  <2>3. a1.milestones = ms1
    BY <1>3 DEF RowFields
  <2>4. ms1[i] = m1
    BY <1>1
  <2> HIDE DEF m1, m, done
  <2>5. [a1 EXCEPT !.milestones[i].result = TRUE]
           = [a1 EXCEPT !.milestones = [ms1 EXCEPT ![i] = m2]]
    BY <2>3, <2>4
  <2>6. [ms1 EXCEPT ![i] = m2] = ms
    BY <2>2
  <2> HIDE DEF ms, ms1, m2
  <2> QED
    BY <2>1, <2>5, <2>6
<1> HIDE DEF done, m
<1>6. /\ DOMAIN ms = DOMAIN agreement.milestones /\ ms[i] = m
      /\ \A k \in DOMAIN agreement.milestones : k # i => ms[k] = agreement.milestones[k]
  BY <1>1
<1> HIDE DEF ms
<1>7. /\ DOMAIN done = RowFields /\ done.status = "Active" /\ SameDeal(agreement, done)
      /\ done.resolution = agreement.resolution /\ done.arbitrator = agreement.arbitrator
      /\ done.milestones = ms
  BY <1>1, <1>3, <1>5 DEF RowFields, SameDeal
<1>8. \A k \in DOMAIN agreement.milestones :
        /\ DOMAIN ms[k] = MilestoneFields
        /\ ms[k].resolution = agreement.milestones[k].resolution
        /\ agreement.milestones[k].status = "Resolved" => ms[k].status = "Resolved"
  BY <1>1, <1>3, <1>4, <1>6 DEF AgreementRow
<1>9. AgreementRow(done)
  BY <1>3, <1>6, <1>7, <1>8 DEF AgreementRow, AgreementStatus
<1>10. /\ AgreementRow(paid) /\ SameDeal(done, paid) /\ paid.milestones = ms
       /\ paid.resolution = agreement.resolution /\ paid.arbitrator = agreement.arbitrator
  BY <1>7, <1>9, ReleaseKeepsRow
<1> HIDE DEF paid
<1>11. /\ DOMAIN b = RowFields /\ b.status \in {"Active", "Completed"} /\ SameDeal(paid, b)
       /\ b.milestones = ms /\ b.resolution = agreement.resolution
       /\ b.arbitrator = agreement.arbitrator
  BY <1>10, ClosingKeepsRow
<1> HIDE DEF b
<1>12. SameDeal(agreement, b)
  BY <1>7, <1>10, <1>11 DEF SameDeal
<1>13. DisputeMarked(b) /\ b.status \in AgreementStatus
  BY <1>11 DEF DisputeMarked, AgreementStatus
<1>14. Outside(vetted.arbitrator, b.arbitrator, b.parties)
  BY <1>3, <1>11, <1>12 DEF AgreementOK, Independent, SameDeal
<1>15. AgreementOK(b, rulings, legacy, vetted)
  BY <1>1, <1>3, <1>6, <1>8, <1>11, <1>12, <1>13, <1>14, RowGoesOn
<1>16. NobodyPaysThemselves'
  <2>1. \A r \in SettlementRecipients(agreement) :
          vetted.deal[by] = vetted.deal[r] => vetted.deal[agreement.proposer] = vetted.deal[r]
    BY <1>3 DEF AgreementOK, Independent, SettlementRecipients
  <2> HIDE DEF by
  <2> QED
    BY <1>2, <2>1, FairPayment
<1> QED
  BY <1>1, <1>2, <1>3, <1>13, <1>15, <1>16, AgreementStep

\* A valid offer opens a row whose approver and arbitrator are independent.
LEMMA ProposeKeeps ==
    ASSUME EscrowInv, NEW d \in Offers, Propose(d)
    PROVE  EscrowInv'
<1> DEFINE a == NewAgreement(d, FeeBps, 1)
           ms == MaterializeAgreementMilestones(d.milestones)
<1>1. /\ agreement = NoRow /\ ValidateAgreementCreateStateless(d) /\ agreement' = a
      /\ UNCHANGED <<now, job, rulings, legacy>> /\ release' = release /\ job = NoRow
      /\ vetted'.deal = entity /\ vetted'.arbitrator = entity
  BY DEF Propose, Idle, DealVetted
<1>2. rulings = {}
  BY <1>1 DEF EscrowInv
<1>3. /\ DOMAIN a = RowFields /\ a.status = "Proposed" /\ a.milestones = ms
      /\ a.parties = ToSet(d.parties) /\ a.proposer = d.proposer
      /\ a.provider = d.provider /\ a.shares = d.shares /\ a.approver = d.approver
      /\ a.resolution = NoResolution /\ a.arbitrator = d.arbitrator
  <2> HIDE DEF ms
  <2>1. a = [parties |-> ToSet(d.parties), proposer |-> d.proposer,
             escrow |-> d.escrow, status |-> "Proposed", expiresAt |-> d.expiresAt,
             acceptedBy |-> {d.proposer}, arbitrator |-> d.arbitrator,
             disputed |-> Whole, deadline |-> None, prior |-> {},
             resolution |-> NoResolution, milestones |-> ms,
             released |-> 0, feeBps |-> FeeBps, provider |-> d.provider,
             shares |-> d.shares, deposit |-> 1, approver |-> d.approver]
    BY DEF NewAgreement, ms
  <2> HIDE DEF a
  <2> QED
    BY <2>1 DEF RowFields
<1>4. DOMAIN ms \subseteq Nat \ {0}
  <2>1. d \in CreateData
    BY EscrowAssumption
  <2>2. d.milestones \in Seq(0..MaxAmount)
    BY <2>1 DEF CreateData
  <2> QED
    BY <2>2 DEF MaterializeAgreementMilestones
<1>5. \A i \in DOMAIN ms : DOMAIN ms[i] = MilestoneFields /\ ms[i].resolution = NoResolution
  BY DEF MaterializeAgreementMilestones, MilestoneFields
<1> HIDE DEF ms, a
<1>6. AgreementRow(a)
  BY <1>3, <1>4, <1>5 DEF AgreementRow, AgreementStatus
<1>7. Independent(a, vetted')
  BY <1>1, <1>3 DEF Independent, Outside, ValidateAgreementCreateStateless, SameEntity,
                    SettlementApproverFits, SettlementApproverIsIndependent, ArbitratorFits
<1>8. DisputeMarked(a)
  BY <1>3 DEF DisputeMarked
<1>9. RulingsRecorded(a, rulings, legacy)
  BY <1>2, <1>3, <1>5 DEF RulingsRecorded
<1>10. AgreementOK(agreement', rulings', legacy', vetted') /\ rulings' = {}
  BY <1>1, <1>2, <1>6, <1>7, <1>8, <1>9 DEF AgreementOK
<1> QED
  BY <1>1, <1>10, NoPayment DEF EscrowInv

-----------------------------------------------------------------------------
(* Rulings. *)

\* The top-level slot can be cleared: what it holds moves to a slot that is free.
LEMMA StorageNormalized ==
    ASSUME NEW a, NEW rs, NEW old, NEW v, AgreementOK(a, rs, old, v), a.status # "Resolved",
           NEW n, n = NormalizeResolutionStorage(a)
    PROVE  /\ DOMAIN n = RowFields /\ SameDeal(a, n) /\ n.arbitrator = a.arbitrator
           /\ DOMAIN n.milestones = DOMAIN a.milestones
           /\ \A i \in DOMAIN a.milestones :
                 /\ DOMAIN n.milestones[i] = MilestoneFields
                 /\ n.milestones[i].status = a.milestones[i].status
           /\ \A r \in rs : r.scope \in DOMAIN a.milestones
                            /\ a.milestones[r.scope].status = "Resolved"
                            /\ n.milestones[r.scope].resolution = r
<1> DEFINE r0 == a.resolution
           i0 == a.resolution.scope
<1>1. /\ AgreementRow(a) /\ DOMAIN a = RowFields
      /\ \A i \in DOMAIN a.milestones : DOMAIN a.milestones[i] = MilestoneFields
      /\ a.resolution = NoResolution \/ a.resolution \in rs
      /\ \A r \in rs : Recorded(a, r)
  BY DEF AgreementOK, AgreementRow, RulingsRecorded
<1>2. \A r \in rs : /\ r.scope \in DOMAIN a.milestones
                    /\ a.milestones[r.scope].status = "Resolved"
                    /\ \/ a.milestones[r.scope].resolution = r
                       \/ a.resolution = r /\ a.milestones[r.scope].resolution = NoResolution
  BY <1>1 DEF Recorded
<1>3. CASE i0 \notin DOMAIN a.milestones
  <2>1. n = a
    BY <1>3, Zenon DEF NormalizeResolutionStorage
  <2> QED
    BY <1>1, <1>2, <1>3, <2>1 DEF SameDeal
<1>4. CASE i0 \in DOMAIN a.milestones
  <2> DEFINE slot == IF a.milestones[i0].resolution = NoResolution THEN r0
                     ELSE a.milestones[i0].resolution
             m == [a.milestones[i0] EXCEPT !.resolution = slot]
             ms == [a.milestones EXCEPT ![i0] = m]
             a1 == [a EXCEPT !.resolution = NoResolution]
             b == [a1 EXCEPT !.milestones = ms]
  <2>1. n = [a EXCEPT !.resolution = NoResolution,
                      !.milestones[i0].resolution = IF @ = NoResolution THEN r0 ELSE @]
    BY <1>4, Zenon DEF NormalizeResolutionStorage
  <2>2. n = b
    <3>1. a1.milestones = a.milestones
      BY <1>1 DEF RowFields
    <3>2. n = [a1 EXCEPT !.milestones[i0].resolution = IF @ = NoResolution THEN r0 ELSE @]
      BY <2>1
    <3> HIDE DEF a1
    <3> QED
      BY <3>1, <3>2
  <2>3. r0 \in rs
    <3>1. NoResolution.scope = -1
      BY DEF NoResolution, None
    <3>2. -1 \notin DOMAIN a.milestones
      BY <1>1 DEF AgreementRow
    <3> QED
      BY <1>1, <1>4, <3>1, <3>2
  <2>4. slot = r0
    BY <1>2, <2>3
  <2>5. DOMAIN m = MilestoneFields /\ m.status = a.milestones[i0].status /\ m.resolution = r0
    <3> HIDE DEF slot
    <3> QED
      BY <1>1, <1>4, <2>4 DEF MilestoneFields
  <2> HIDE DEF m
  <2>6. /\ DOMAIN ms = DOMAIN a.milestones /\ ms[i0] = m
        /\ \A i \in DOMAIN a.milestones : i # i0 => ms[i] = a.milestones[i]
    BY <1>4
  <2> HIDE DEF ms
  <2>7. /\ DOMAIN b = RowFields /\ SameDeal(a, b) /\ b.arbitrator = a.arbitrator
        /\ b.milestones = ms
    BY <1>1 DEF RowFields, SameDeal
  <2> HIDE DEF b
  <2>8. \A i \in DOMAIN a.milestones : DOMAIN ms[i] = MilestoneFields
                                       /\ ms[i].status = a.milestones[i].status
    BY <1>1, <2>5, <2>6
  <2>9. ASSUME NEW r \in rs
        PROVE  ms[r.scope].resolution = r
    <3>1. NoResolution.scope \notin DOMAIN a.milestones
      <4>1. NoResolution.scope = -1
        BY DEF NoResolution, None
      <4> QED
        BY <1>1, <4>1 DEF AgreementRow
    <3>2. CASE r.scope = i0
      <4>1. r = r0
        BY <1>2, <2>3, <3>1, <3>2
      <4> QED
        BY <2>5, <2>6, <3>2, <4>1
    <3>3. CASE r.scope # i0
      BY <1>2, <2>6, <3>3
    <3> QED
      BY <3>2, <3>3
  <2> QED
    BY <1>2, <2>2, <2>6, <2>7, <2>8, <2>9
<1> QED
  BY <1>3, <1>4

\* The dispute that a ruling ends is over.
LEMMA DisputeCleared ==
    ASSUME NEW a, NEW rs, NEW old, NEW v, AgreementOK(a, rs, old, v), a.status = "Disputed"
    PROVE  LET c == ClearDisputeState(a)
           IN  /\ AgreementOK(c, rs, old, v) /\ c.status = "Disputed"
               /\ c.milestones = a.milestones /\ c.arbitrator = a.arbitrator
               /\ SameDeal(a, c)
<1> DEFINE c == [a EXCEPT !.disputed = Whole, !.deadline = None, !.prior = {}]
<1>1. AgreementRow(a) /\ DOMAIN a = RowFields
  BY DEF AgreementOK, AgreementRow
<1>2. /\ DOMAIN c = RowFields /\ c.status = "Disputed" /\ SameDeal(a, c)
      /\ c.resolution = a.resolution /\ c.arbitrator = a.arbitrator
      /\ c.milestones = a.milestones /\ c.disputed = Whole
  BY <1>1 DEF RowFields, SameDeal
<1>3. ClearDisputeState(a) = c
  BY DEF ClearDisputeState
<1> HIDE DEF c
<1>4. DisputeMarked(c) /\ c.status \in AgreementStatus
  BY <1>2 DEF DisputeMarked, AgreementStatus
<1>5. Outside(v.arbitrator, c.arbitrator, c.parties)
  BY <1>2 DEF AgreementOK, Independent, SameDeal
<1>6. AgreementOK(c, rs, old, v)
  BY <1>1, <1>2, <1>4, <1>5, RowGoesOn DEF AgreementRow
<1> QED
  BY <1>2, <1>3, <1>6

\* A ruling on the whole agreement.
LEMMA WholeRuling ==
    ASSUME NEW a, NEW rs, NEW old, NEW v, AgreementOK(a, rs, old, v), a.status = "Disputed",
           NEW r, r.scope = Whole, NEW b, b = Ruled(a, r)
    PROVE  AgreementOK(b, rs \cup {r}, FALSE, v)
<1> DEFINE n == NormalizeResolutionStorage(a)
           w == [n EXCEPT !.resolution = r]
           e == [w EXCEPT !.status = "Resolved", !.deposit = 0]
           f == [e EXCEPT !.released = e.escrow]
<1>1. /\ DOMAIN n = RowFields /\ SameDeal(a, n) /\ n.arbitrator = a.arbitrator
      /\ DOMAIN n.milestones = DOMAIN a.milestones
      /\ \A i \in DOMAIN a.milestones : DOMAIN n.milestones[i] = MilestoneFields
                                        /\ n.milestones[i].status = a.milestones[i].status
      /\ \A x \in rs : x.scope \in DOMAIN a.milestones
                       /\ a.milestones[x.scope].status = "Resolved"
                       /\ n.milestones[x.scope].resolution = x
  <2> HIDE DEF n
  <2> QED
    BY StorageNormalized DEF n
<1>2. b = f
  BY Zenon DEF Ruled, RecordWholeAgreementResolution, ReleaseRemainingEscrow
<1> HIDE DEF n
<1>3. /\ DOMAIN w = RowFields /\ SameDeal(a, w) /\ w.resolution = r
      /\ w.arbitrator = a.arbitrator /\ w.milestones = n.milestones
  BY <1>1 DEF RowFields, SameDeal
<1> HIDE DEF w
<1>4. /\ DOMAIN e = RowFields /\ SameDeal(a, e) /\ e.resolution = r /\ e.status = "Resolved"
      /\ e.arbitrator = a.arbitrator /\ e.milestones = n.milestones
  BY <1>3 DEF RowFields, SameDeal
<1> HIDE DEF e
<1>5. /\ DOMAIN f = RowFields /\ SameDeal(a, f) /\ f.resolution = r /\ f.status = "Resolved"
      /\ f.arbitrator = a.arbitrator /\ f.milestones = n.milestones
  BY <1>4 DEF RowFields, SameDeal
<1> HIDE DEF f
<1>6. AgreementRow(f)
  BY <1>1, <1>5 DEF AgreementRow, AgreementStatus, AgreementOK
<1>7. Independent(f, v) /\ DisputeMarked(f)
  BY <1>5 DEF AgreementOK, Independent, SameDeal, DisputeMarked
<1>8. \A x \in rs : Recorded(f, x)
  <2>1. \A x \in rs : x.scope # Whole
    BY <1>1 DEF AgreementOK, AgreementRow, Whole
  <2> QED
    BY <1>1, <1>5, <2>1 DEF Recorded
<1>9. Recorded(f, r)
  BY <1>5 DEF Recorded
<1>10. RulingsRecorded(f, rs \cup {r}, FALSE)
  BY <1>5, <1>8, <1>9 DEF RulingsRecorded
<1> QED
  BY <1>2, <1>6, <1>7, <1>10 DEF AgreementOK

\* A ruling on a milestone.
LEMMA MilestoneRuling ==
    ASSUME NEW a, NEW rs, NEW v, AgreementOK(a, rs, legacy, v), a.status = "Disputed",
           NEW r, r.scope \in DOMAIN a.milestones,
           a.milestones[r.scope].status = "Disputed", NEW b, b = Ruled(a, r)
    PROVE  AgreementOK(b, rs \cup {r}, FALSE, v)
<1> DEFINE i == r.scope
           n == NormalizeResolutionStorage(a)
           recorded == IF legacy THEN RecordLegacyResolution(a, r)
                       ELSE RecordMilestoneResolution(a, i, r)
           m1 == IF legacy THEN a.milestones[i] ELSE [n.milestones[i] EXCEPT !.resolution = r]
           ms1 == IF legacy THEN a.milestones ELSE [n.milestones EXCEPT ![i] = m1]
           m2 == [m1 EXCEPT !.status = "Resolved"]
           ms2 == [ms1 EXCEPT ![i] = m2]
           ruled == [recorded EXCEPT !.milestones[i].status = "Resolved"]
           paid == RecordEscrowRelease(ruled, a.milestones[i].amount)
<1>1. i # Whole /\ AgreementRow(a) /\ DOMAIN a = RowFields
      /\ \A k \in DOMAIN a.milestones : DOMAIN a.milestones[k] = MilestoneFields
  BY DEF AgreementOK, AgreementRow, Whole
<1>2. b = Closing(paid)
  BY <1>1, Zenon DEF Ruled
<1>3. /\ DOMAIN n = RowFields /\ SameDeal(a, n) /\ n.arbitrator = a.arbitrator
      /\ DOMAIN n.milestones = DOMAIN a.milestones
      /\ \A k \in DOMAIN a.milestones : DOMAIN n.milestones[k] = MilestoneFields
                                        /\ n.milestones[k].status = a.milestones[k].status
      /\ \A x \in rs : x.scope \in DOMAIN a.milestones
                       /\ a.milestones[x.scope].status = "Resolved"
                       /\ n.milestones[x.scope].resolution = x
  <2> HIDE DEF n
  <2> QED
    BY StorageNormalized DEF n
<1>4. /\ DOMAIN recorded = RowFields /\ SameDeal(a, recorded)
      /\ recorded.arbitrator = a.arbitrator /\ recorded.milestones = ms1
      /\ recorded.resolution = IF legacy THEN r ELSE NoResolution
      /\ DOMAIN ms1 = DOMAIN a.milestones /\ ms1[i] = m1
      /\ DOMAIN m1 = MilestoneFields
      /\ m1.resolution = IF legacy THEN NoResolution ELSE r
      /\ \A k \in DOMAIN a.milestones :
            k # i => ms1[k] = IF legacy THEN a.milestones[k] ELSE n.milestones[k]
  <2>1. CASE legacy
    <3>1. recorded = [a EXCEPT !.resolution = r]
      BY <2>1, Zenon DEF RecordLegacyResolution
    <3>2. m1 = a.milestones[i] /\ ms1 = a.milestones
      BY <2>1
    <3>3. a.milestones[i].resolution = NoResolution
      BY <2>1 DEF AgreementOK, RulingsRecorded
    <3> HIDE DEF recorded, m1, ms1, n
    <3>4. /\ DOMAIN recorded = RowFields /\ SameDeal(a, recorded) /\ recorded.resolution = r
          /\ recorded.arbitrator = a.arbitrator /\ recorded.milestones = a.milestones
      BY <1>1, <3>1 DEF RowFields, SameDeal
    <3> QED
      BY <1>1, <2>1, <3>2, <3>3, <3>4
  <2>2. CASE ~legacy
    <3> DEFINE mm == [n.milestones[i] EXCEPT !.resolution = r]
               mms == [n.milestones EXCEPT ![i] = mm]
               n1 == [n EXCEPT !.milestones = mms]
               n2 == [n1 EXCEPT !.resolution = NoResolution]
    <3>1. recorded = [n EXCEPT !.milestones[i].resolution = r, !.resolution = NoResolution]
      BY <2>2, Zenon DEF RecordMilestoneResolution
    <3>2. recorded = n2
      <4> HIDE DEF n, recorded
      <4> QED
        BY <3>1
    <3>3. m1 = mm /\ ms1 = mms
      BY <2>2
    <3> HIDE DEF recorded, m1, ms1, n
    <3>4. DOMAIN mm = MilestoneFields /\ mm.resolution = r
      BY <1>3 DEF MilestoneFields
    <3> HIDE DEF mm
    <3>5. /\ DOMAIN mms = DOMAIN a.milestones /\ mms[i] = mm
          /\ \A k \in DOMAIN a.milestones : k # i => mms[k] = n.milestones[k]
      BY <1>3
    <3> HIDE DEF mms
    <3>6. DOMAIN n1 = RowFields /\ SameDeal(a, n1) /\ n1.arbitrator = a.arbitrator
          /\ n1.milestones = mms
      BY <1>3 DEF RowFields, SameDeal
    <3> HIDE DEF n1
    <3>7. DOMAIN n2 = RowFields /\ SameDeal(a, n2) /\ n2.arbitrator = a.arbitrator
          /\ n2.milestones = mms /\ n2.resolution = NoResolution
      BY <3>6 DEF RowFields, SameDeal
    <3> HIDE DEF n2
    <3> QED
      BY <2>2, <3>2, <3>3, <3>4, <3>5, <3>7
  <2> QED
    BY <2>1, <2>2
<1> HIDE DEF n, recorded, m1, ms1
<1>5. DOMAIN m2 = MilestoneFields /\ m2.status = "Resolved" /\ m2.resolution = m1.resolution
  BY <1>4 DEF MilestoneFields
<1>6. ruled = [recorded EXCEPT !.milestones = ms2]
  BY <1>4
<1> HIDE DEF m2, ruled
<1>7. /\ DOMAIN ms2 = DOMAIN a.milestones /\ ms2[i] = m2
      /\ \A k \in DOMAIN a.milestones : k # i => ms2[k] = ms1[k]
  BY <1>4
<1> HIDE DEF ms2
<1>8. /\ DOMAIN ruled = RowFields /\ SameDeal(a, ruled) /\ ruled.milestones = ms2
      /\ ruled.arbitrator = a.arbitrator /\ ruled.resolution = recorded.resolution
      /\ ruled.status = recorded.status
  BY <1>4, <1>6 DEF RowFields, SameDeal
<1>9. recorded.status = "Disputed"
  <2>1. CASE legacy
    <3>1. recorded = [a EXCEPT !.resolution = r]
      BY <2>1, Zenon DEF RecordLegacyResolution, recorded
    <3> QED
      BY <1>1, <3>1 DEF RowFields
  <2>2. CASE ~legacy
    <3>1. recorded = [n EXCEPT !.milestones[i].resolution = r, !.resolution = NoResolution]
      BY <2>2, Zenon DEF RecordMilestoneResolution, recorded, n
    <3>2. n.status = a.status
      <4>1. CASE a.resolution.scope \notin DOMAIN a.milestones
        <5>1. n = a
          BY <4>1, Zenon DEF NormalizeResolutionStorage, n
        <5> QED
          BY <5>1
      <4>2. CASE a.resolution.scope \in DOMAIN a.milestones
        <5> DEFINE j == a.resolution.scope
        <5>1. n = [a EXCEPT !.resolution = NoResolution,
                            !.milestones[j].resolution =
                                 IF @ = NoResolution THEN a.resolution ELSE @]
          BY <4>2, Zenon DEF NormalizeResolutionStorage, n
        <5> QED
          BY <1>1, <5>1 DEF RowFields
      <4> QED
        BY <4>1, <4>2
    <3> QED
      BY <1>3, <3>1, <3>2 DEF RowFields
  <2> QED
    BY <2>1, <2>2
<1>10. \A k \in DOMAIN a.milestones : DOMAIN ms2[k] = MilestoneFields
  BY <1>1, <1>3, <1>4, <1>5, <1>7
<1>11. AgreementRow(ruled)
  BY <1>1, <1>7, <1>8, <1>9, <1>10 DEF AgreementRow, AgreementStatus
<1>12. /\ AgreementRow(paid) /\ SameDeal(ruled, paid) /\ paid.milestones = ms2
       /\ paid.resolution = recorded.resolution /\ paid.arbitrator = a.arbitrator
  BY <1>8, <1>11, ReleaseKeepsRow
<1> HIDE DEF paid
<1>13. /\ DOMAIN b = RowFields /\ b.status \in {"Active", "Completed"} /\ SameDeal(paid, b)
       /\ b.milestones = ms2 /\ b.resolution = recorded.resolution
       /\ b.arbitrator = a.arbitrator
  BY <1>2, <1>12, ClosingKeepsRow
<1>14. SameDeal(a, b)
  BY <1>8, <1>12, <1>13 DEF SameDeal
<1>15. AgreementRow(b) /\ DisputeMarked(b) /\ Independent(b, v)
  <2>1. AgreementRow(b)
    BY <1>1, <1>7, <1>10, <1>13 DEF AgreementRow, AgreementStatus
  <2>2. DisputeMarked(b)
    BY <1>13 DEF DisputeMarked
  <2>3. Independent(b, v)
    BY <1>13, <1>14 DEF AgreementOK, Independent, SameDeal
  <2> QED
    BY <2>1, <2>2, <2>3
<1>16. Recorded(b, r)
  BY <1>1, <1>4, <1>5, <1>7, <1>13 DEF Recorded
<1>17. \A x \in rs : Recorded(b, x)
  <2>1. CASE legacy
    BY <2>1 DEF AgreementOK, RulingsRecorded
  <2>2. CASE ~legacy
    <3> SUFFICES ASSUME NEW x \in rs
                 PROVE  Recorded(b, x)
      OBVIOUS
    <3>1. /\ x.scope \in DOMAIN a.milestones /\ a.milestones[x.scope].status = "Resolved"
          /\ n.milestones[x.scope].resolution = x
          /\ n.milestones[x.scope].status = "Resolved"
      BY <1>3
    <3>2. x.scope # i /\ x.scope # Whole
      BY <1>1, <3>1 DEF AgreementRow, Whole
    <3>3. b.milestones[x.scope] = n.milestones[x.scope]
      BY <1>4, <1>7, <1>13, <2>2, <3>1, <3>2
    <3> QED
      BY <1>7, <1>13, <3>1, <3>2, <3>3 DEF Recorded
  <2> QED
    BY <2>1, <2>2
<1>18. b.resolution = NoResolution \/ b.resolution \in rs \cup {r}
  BY <1>4, <1>13
<1>19. RulingsRecorded(b, rs \cup {r}, FALSE)
  BY <1>16, <1>17, <1>18 DEF RulingsRecorded
<1> QED
  BY <1>15, <1>19 DEF AgreementOK

\* The arbitrator decides, and its ruling joins those before it.
LEMMA ResolveKeeps ==
    ASSUME EscrowInv, NEW payouts, NEW effects, Resolve(payouts, effects)
    PROVE  EscrowInv'
<1> DEFINE scope == agreement.disputed
           r == NewDisputeResolution(payouts, effects, scope)
           c == ClearDisputeState(agreement)
           b == Ruled(c, r)
<1>1. /\ agreement.status = "Disputed" /\ agreement.status \in AgreementStatus
      /\ Recipients(payouts) \subseteq agreement.parties
      /\ legacy' = FALSE /\ now' = now /\ job' = job /\ vetted' = vetted
  BY DEF Resolve, AgreementStatus
<1>2. /\ agreement' = b /\ rulings' = rulings \cup {r}
      /\ release' = Paid(agreement.arbitrator, Recipients(payouts), agreement.proposer,
                         vetted.arbitrator)
  BY Zenon DEF Resolve
<1>3. /\ AgreementOK(agreement, rulings, legacy, vetted) /\ DisputeMarked(agreement)
      /\ Outside(vetted.arbitrator, agreement.arbitrator, agreement.parties)
      /\ job = NoRow
  BY <1>1, RowThere DEF AgreementOK, Independent, EscrowInv
<1>4. r.scope = scope
  BY DEF NewDisputeResolution
<1>5. /\ AgreementOK(c, rulings, legacy, vetted) /\ c.status = "Disputed"
      /\ c.milestones = agreement.milestones
  BY <1>1, <1>3, DisputeCleared
<1> HIDE DEF r, c
<1>6. AgreementOK(b, rulings \cup {r}, FALSE, vetted)
  <2>1. CASE scope = Whole
    BY <1>4, <1>5, <2>1, WholeRuling
  <2>2. CASE scope # Whole
    <3>1. r.scope \in DOMAIN c.milestones /\ c.milestones[r.scope].status = "Disputed"
      BY <1>1, <1>3, <1>4, <1>5, <2>2 DEF DisputeMarked
    <3> QED
      BY <1>5, <3>1, MilestoneRuling
  <2> QED
    BY <2>1, <2>2
<1>7. NobodyPaysThemselves'
  <2>1. ASSUME NEW x \in Recipients(payouts), agreement.arbitrator # None
        PROVE  vetted.arbitrator[agreement.arbitrator] # vetted.arbitrator[x]
    BY <1>1, <1>3, <2>1 DEF Outside
  <2> QED
    BY <1>2, <2>1, FairPayment
<1> HIDE DEF b
<1>8. agreement' # NoRow
  <2>1. b.status \in AgreementStatus
    BY <1>6 DEF AgreementOK, AgreementRow
  <2> QED
    BY <1>2, <2>1 DEF NoRow, AgreementStatus
<1>9. AgreementOK(agreement', rulings', legacy', vetted')
  BY <1>1, <1>2, <1>6
<1> QED
  BY <1>1, <1>3, <1>7, <1>8, <1>9 DEF EscrowInv

-----------------------------------------------------------------------------
(* The current milestone of a job. *)

LEMMA CurrentIndex ==
    ASSUME NEW j, j.milestones \in Seq(ToolMilestoneRow), NEW i \in DOMAIN j.milestones,
           j.milestones[i].status # "Completed",
           \A k \in 1..(i - 1) : j.milestones[k].status = "Completed"
    PROVE  CurrentMilestoneIndex(j) = i
<1> DEFINE I == {k \in 1..Len(j.milestones) : j.milestones[k].status # "Completed"}
<1>1. i \in I /\ I \subseteq Nat /\ i \in Nat
  OBVIOUS
<1>2. CurrentMilestoneIndex(j) = Min(I)
  BY <1>1, Zenon DEF CurrentMilestoneIndex, SelectInSeq
<1>3. Min(I) \in I /\ Min(I) <= i
  <2> HIDE DEF I
  <2> QED
    BY <1>1, LeastNumber
<1>4. ~(Min(I) < i)
  <2> SUFFICES ASSUME Min(I) < i
               PROVE  FALSE
    OBVIOUS
  <2> DEFINE k == Min(I)
  <2>1. k \in I
    BY <1>3
  <2> HIDE DEF k
  <2>2. k \in 1..(i - 1)
    BY <1>1, <2>1 DEF k
  <2> QED
    BY <2>1, <2>2
<1>5. Min(I) \in Nat
  BY <1>1, <1>3
<1> QED
  BY <1>1, <1>2, <1>3, <1>4, <1>5

LEMMA NoCurrentIndex ==
    ASSUME NEW j, j.milestones = <<>>
    PROVE  CurrentMilestoneIndex(j) = 0
<1>1. {k \in 1..Len(j.milestones) : j.milestones[k].status # "Completed"} = {}
  OBVIOUS
<1> QED
  BY <1>1, Zenon DEF CurrentMilestoneIndex, SelectInSeq

\* The milestone that a job in order repeats is its current one.
LEMMA MirroredIsCurrent ==
    ASSUME NEW j, JobRow(j), NEW i, Mirrors(j, j.milestones, i)
    PROVE  CurrentMilestoneIndex(j) = i
<1>1. /\ j.milestones \in Seq(ToolMilestoneRow) /\ i \in DOMAIN j.milestones
      /\ \A k \in 1..(i - 1) : j.milestones[k].status = "Completed"
  BY DEF JobRow, Mirrors
<1>2. j.milestones[i].status # "Completed"
  BY DEF JobRow, Mirrors, ToolJobStatus
<1> QED
  BY <1>1, <1>2, CurrentIndex

\* The invariant of a step that leaves the agreement alone.
LEMMA JobStep ==
    ASSUME EscrowInv, now' \in Nat, agreement = NoRow, agreement' = agreement,
           rulings' = rulings, legacy' = legacy,
           job' \in {NoRow, ClosedRow} \/ JobOK(job', vetted'), NobodyPaysThemselves'
    PROVE  EscrowInv'
BY DEF EscrowInv

\* The invariant of a step that leaves both rows alone.
LEMMA StillStep ==
    ASSUME EscrowInv, now' \in Nat,
           UNCHANGED <<agreement, job, release, rulings, legacy, vetted>>
    PROVE  EscrowInv'
BY NoPayment DEF EscrowInv

\* A job with a status of ToolJobStatus is there.
LEMMA JobThere ==
    ASSUME EscrowInv, job.status \in ToolJobStatus
    PROVE  /\ JobOK(job, vetted) /\ JobRow(job) /\ DOMAIN job = JobFields
           /\ agreement = NoRow
<1>1. job # NoRow /\ job # ClosedRow
  BY DEF NoRow, ClosedRow, ToolJobStatus
<1> QED
  BY <1>1 DEF EscrowInv, JobOK, JobRow

-----------------------------------------------------------------------------
(* Opening a milestone. *)

\* What a step of the job that pays nobody leaves alone.
SamePlan(j, k) ==
    /\ k.escrow = j.escrow /\ (j.milestones = <<>> => k.milestones = <<>>)
    /\ DOMAIN k.milestones = DOMAIN j.milestones
    /\ \A i \in DOMAIN j.milestones :
          /\ k.milestones[i].amount = j.milestones[i].amount
          /\ (k.milestones[i].status = "Completed") <=> (j.milestones[i].status = "Completed")

LEMMA NewMilestone ==
    ASSUME NEW x \in Nat
    PROVE  LET t == ToolMilestone(x)
           IN  /\ t \in ToolMilestoneRow /\ t.amount = x /\ t.status = "Pending"
               /\ t.result = FALSE /\ t.submittedAt = Absent
               /\ t.challengeDeadline = Absent /\ t.disputedAt = Absent
<1> DEFINE t == ToolMilestone(x)
<1>1. t = [amount |-> x, status |-> "Pending", submitDeadline |-> Absent,
           result |-> FALSE, submittedAt |-> Absent, challengeDeadline |-> Absent,
           disputedAt |-> Absent]
  BY DEF ToolMilestone
<1>2. Absent \in Int /\ FALSE \in BOOLEAN /\ "Pending" \in ToolMilestoneStatus
  BY DEF Absent, ToolMilestoneStatus
<1> HIDE DEF t
<1>3. t \in ToolMilestoneRow
  BY <1>1, <1>2 DEF ToolMilestoneRow
<1>4. /\ t.amount = x /\ t.status = "Pending" /\ t.result = FALSE
      /\ t.submittedAt = Absent /\ t.challengeDeadline = Absent /\ t.disputedAt = Absent
  BY <1>1
<1> QED
  BY <1>3, <1>4 DEF t

\* The row once the milestone i of a list ms is opened, the others kept.
LEMMA MilestoneOpened ==
    ASSUME NEW j, DOMAIN j = JobFields, j.milestones \in Seq(ToolMilestoneRow),
           j.sla \in Nat, j.window \in Nat, NEW v, JobIndependent(j, v), now \in Nat,
           NEW i \in DOMAIN j.milestones,
           \A k \in 1..(i - 1) : j.milestones[k].status = "Completed",
           j.milestones[i].status # "Completed",
           \A k \in (i + 1)..Len(j.milestones) :
              j.milestones[k] = ToolMilestone(j.milestones[k].amount)
    PROVE  /\ JobOK(OpenCurrentMilestone(j, now), v)
           /\ SamePlan(j, OpenCurrentMilestone(j, now))
           /\ OpenCurrentMilestone(j, now).status = "Open"
<1> DEFINE d == now + j.sla
           m == [ToolMilestone(j.milestones[i].amount) EXCEPT !.submitDeadline = d]
           ms == [j.milestones EXCEPT ![i] = m]
           o == [j EXCEPT !.status = "Open", !.submitDeadline = d, !.milestones = ms]
           b == [o EXCEPT !.result = FALSE, !.submittedAt = Absent,
                          !.challengeDeadline = Absent, !.disputedAt = Absent,
                          !.deadline = Absent, !.prior = {}]
<1>1. CurrentMilestoneIndex(j) = i /\ i # 0 /\ i \in Nat
  <2>1. CurrentMilestoneIndex(j) = i
    BY CurrentIndex
  <2> QED
    BY <2>1
<1>2. OpenCurrentMilestone(j, now) = b
  <2>1. OpenCurrentMilestone(j, now) =
          ClearTransientResultState(
            [j EXCEPT !.status = "Open", !.submitDeadline = now + j.sla,
                      !.milestones[i] = [ToolMilestone(j.milestones[i].amount) EXCEPT
                                            !.submitDeadline = now + j.sla]])
    BY <1>1, Zenon DEF OpenCurrentMilestone
  <2>2. [j EXCEPT !.status = "Open", !.submitDeadline = now + j.sla,
                  !.milestones[i] = [ToolMilestone(j.milestones[i].amount) EXCEPT
                                            !.submitDeadline = now + j.sla]] = o
    <3> HIDE DEF m
    <3>1. [j EXCEPT !.status = "Open", !.submitDeadline = d, !.milestones[i] = m] = o
      <4> HIDE DEF d
      <4> QED
        BY DEF JobFields
    <3> QED
      BY <3>1, Zenon DEF m
  <2> HIDE DEF o
  <2> QED
    BY <2>1, <2>2 DEF ClearTransientResultState
<1>3. d \in Int
  OBVIOUS
<1> HIDE DEF d
<1>4. /\ m \in ToolMilestoneRow /\ m.status = "Pending" /\ m.submitDeadline = d
      /\ m.result = FALSE /\ m.submittedAt = Absent /\ m.challengeDeadline = Absent
      /\ m.disputedAt = Absent /\ m.amount = j.milestones[i].amount
  <2>1. j.milestones[i].amount \in Nat
    <3>1. j.milestones[i] \in ToolMilestoneRow
      OBVIOUS
    <3> QED
      BY <3>1 DEF ToolMilestoneRow
  <2> DEFINE t == ToolMilestone(j.milestones[i].amount)
  <2>2. /\ t \in ToolMilestoneRow /\ t.amount = j.milestones[i].amount /\ t.status = "Pending"
        /\ t.result = FALSE /\ t.submittedAt = Absent /\ t.challengeDeadline = Absent /\ t.disputedAt = Absent
    BY <2>1, NewMilestone
  <2> HIDE DEF t
  <2>3. m = [t EXCEPT !.submitDeadline = d]
    BY Zenon DEF t
  <2> QED
    BY <1>3, <2>2, <2>3 DEF ToolMilestoneRow
<1> HIDE DEF m
<1>5. /\ ms \in Seq(ToolMilestoneRow) /\ Len(ms) = Len(j.milestones)
      /\ DOMAIN ms = DOMAIN j.milestones /\ ms[i] = m
      /\ \A k \in DOMAIN j.milestones : k # i => ms[k] = j.milestones[k]
  BY <1>4
<1> HIDE DEF ms
<1>6. /\ DOMAIN o = JobFields /\ o.status = "Open" /\ o.submitDeadline = d
      /\ o.milestones = ms /\ o.sla = j.sla /\ o.window = j.window
      /\ o.requester = j.requester /\ o.provider = j.provider /\ o.arbitrator = j.arbitrator
      /\ o.escrow = j.escrow
  BY DEF JobFields
<1> HIDE DEF o
<1>7. /\ DOMAIN b = JobFields /\ b.status = "Open" /\ b.submitDeadline = d
      /\ b.milestones = ms /\ b.sla = j.sla /\ b.window = j.window
      /\ b.requester = j.requester /\ b.provider = j.provider /\ b.arbitrator = j.arbitrator
      /\ b.result = FALSE /\ b.submittedAt = Absent /\ b.challengeDeadline = Absent
      /\ b.disputedAt = Absent /\ b.deadline = Absent /\ b.prior = {}
      /\ b.escrow = j.escrow
  BY <1>6 DEF JobFields
<1> HIDE DEF b
<1>8. JobRow(b)
  BY <1>3, <1>5, <1>7 DEF JobRow, ToolJobStatus
<1>9. JobIndependent(b, v)
  BY <1>7 DEF JobIndependent
<1>10. Transient(b)
  BY <1>7 DEF Transient, Absent, None
<1>11. Mirrors(b, ms, i)
  <2>1. \A k \in 1..(i - 1) : ms[k].status = "Completed"
    BY <1>5
  <2>2. \A k \in (i + 1)..Len(ms) : ms[k] = ToolMilestone(ms[k].amount)
    <3> SUFFICES ASSUME NEW k \in (i + 1)..Len(ms)
                 PROVE  ms[k] = ToolMilestone(ms[k].amount)
      OBVIOUS
    <3>1. k \in DOMAIN j.milestones /\ k # i
      BY <1>1, <1>5
    <3> QED
      BY <1>5, <3>1
  <2> QED
    BY <1>4, <1>5, <1>7, <2>1, <2>2 DEF Mirrors
<1>12. \E k \in DOMAIN b.milestones : Mirrors(b, b.milestones, k)
  BY <1>5, <1>7, <1>11
<1>13. SamePlan(j, b)
  <2>1. j.milestones # <<>>
    OBVIOUS
  <2> QED
    BY <1>4, <1>5, <1>7, <2>1 DEF SamePlan
<1> QED
  BY <1>2, <1>7, <1>8, <1>9, <1>10, <1>12, <1>13 DEF JobOK

-----------------------------------------------------------------------------
(* The steps of the job. *)

\* A milestone and the row change together, the other milestones stay.
LEMMA MirrorKept ==
    ASSUME NEW j, JobRow(j), NEW i, Mirrors(j, j.milestones, i),
           NEW m \in ToolMilestoneRow,
           NEW b, b.milestones = [j.milestones EXCEPT ![i] = m],
           m.status = IF b.status = "Open" THEN "Pending" ELSE b.status,
           m.submitDeadline = b.submitDeadline, m.result = b.result,
           m.submittedAt = b.submittedAt, m.challengeDeadline = b.challengeDeadline,
           m.disputedAt = b.disputedAt
    PROVE  /\ b.milestones \in Seq(ToolMilestoneRow)
           /\ i \in DOMAIN b.milestones /\ Mirrors(b, b.milestones, i)
<1> DEFINE ms == [j.milestones EXCEPT ![i] = m]
<1>1. /\ j.milestones \in Seq(ToolMilestoneRow) /\ i \in DOMAIN j.milestones /\ i \in Nat
      /\ \A k \in 1..(i - 1) : j.milestones[k].status = "Completed"
      /\ \A k \in (i + 1)..Len(j.milestones) :
            j.milestones[k] = ToolMilestone(j.milestones[k].amount)
  BY DEF JobRow, Mirrors
<1>2. /\ ms \in Seq(ToolMilestoneRow) /\ Len(ms) = Len(j.milestones)
      /\ DOMAIN ms = DOMAIN j.milestones /\ ms[i] = m
      /\ \A k \in DOMAIN j.milestones : k # i => ms[k] = j.milestones[k]
  BY <1>1
<1> HIDE DEF ms
<1>3. \A k \in 1..(i - 1) : ms[k].status = "Completed"
  BY <1>1, <1>2
<1>4. \A k \in (i + 1)..Len(ms) : ms[k] = ToolMilestone(ms[k].amount)
  <2> SUFFICES ASSUME NEW k \in (i + 1)..Len(ms)
               PROVE  ms[k] = ToolMilestone(ms[k].amount)
    OBVIOUS
  <2>1. k \in DOMAIN j.milestones /\ k # i /\ k \in (i + 1)..Len(j.milestones)
    BY <1>1, <1>2
  <2> QED
    BY <1>1, <1>2, <2>1
<1>5. b.milestones = ms
  BY DEF ms
<1>6. Mirrors(b, ms, i)
  BY <1>1, <1>2, <1>3, <1>4 DEF Mirrors
<1> QED
  BY <1>1, <1>2, <1>5, <1>6

\* The milestone that the code writes to is the one the row repeats.
LEMMA WrittenMilestone ==
    ASSUME JobOK(job, vetted), NEW b, b.milestones = job.milestones, NEW m
    PROVE  \/ job.milestones = <<>> /\ WithMilestone(b, m) = b
           \/ /\ job.milestones # <<>>
              /\ \E i \in DOMAIN job.milestones :
                    /\ CurrentMilestoneIndex(job) = i
                    /\ Mirrors(job, job.milestones, i)
                    /\ WithMilestone(b, m) = [b EXCEPT !.milestones[i] = m]
<1>1. CASE job.milestones = <<>>
  BY <1>1 DEF WithMilestone, IsMilestoneJob
<1>2. CASE job.milestones # <<>>
  <2>1. JobRow(job)
    BY DEF JobOK
  <2>2. PICK i \in DOMAIN job.milestones : Mirrors(job, job.milestones, i)
    BY <1>2 DEF JobOK
  <2>3. CurrentMilestoneIndex(job) = i
    BY <2>1, <2>2, MirroredIsCurrent
  <2>4. CurrentMilestoneIndex(b) = i
    <3>1. CurrentMilestoneIndex(b) = CurrentMilestoneIndex(job)
      BY DEF CurrentMilestoneIndex
    <3> QED
      BY <2>3, <3>1
  <2>5. WithMilestone(b, m) = [b EXCEPT !.milestones[i] = m]
    BY <1>2, <2>4, Zenon DEF WithMilestone, IsMilestoneJob
  <2> QED
    BY <1>2, <2>2, <2>3, <2>5
<1> QED
  BY <1>1, <1>2

LEMMA SubmitResultKeeps ==
    ASSUME EscrowInv, SubmitResult
    PROVE  EscrowInv'
<1> DEFINE d == now + job.window
           s == [job EXCEPT !.status = "Submitted", !.result = TRUE, !.submittedAt = now,
                            !.challengeDeadline = d]
           m == Submitted(CurrentMilestone)
<1>1. /\ job.status = "Open" /\ job' = WithMilestone(Submitted(job), m)
      /\ now' = now /\ release' = release /\ agreement' = agreement
      /\ rulings' = rulings /\ legacy' = legacy /\ vetted' = vetted
  BY DEF SubmitResult, agreementVars
<1>2. JobOK(job, vetted) /\ JobRow(job) /\ DOMAIN job = JobFields /\ now \in Nat
      /\ agreement = NoRow
  <2>1. job.status \in ToolJobStatus
    BY <1>1 DEF ToolJobStatus
  <2> QED
    BY <2>1, JobThere DEF EscrowInv
<1>3. Submitted(job) = s
  BY DEF Submitted
<1>4. d \in Int /\ now \in Int
  BY <1>2 DEF JobRow
<1> HIDE DEF d, m
<1>5. /\ DOMAIN s = JobFields /\ s.status = "Submitted" /\ s.result = TRUE
      /\ s.submittedAt = now /\ s.challengeDeadline = d /\ s.milestones = job.milestones
      /\ s.submitDeadline = job.submitDeadline /\ s.disputedAt = job.disputedAt
      /\ s.deadline = job.deadline /\ s.prior = job.prior /\ s.arbitrator = job.arbitrator
      /\ s.requester = job.requester /\ s.provider = job.provider
      /\ s.sla = job.sla /\ s.window = job.window
  BY <1>2 DEF JobFields
<1> HIDE DEF s
<1>6. JobRow(s) /\ JobIndependent(s, vetted) /\ Transient(s)
  <2>1. JobRow(s)
    BY <1>2, <1>5 DEF JobRow, ToolJobStatus
  <2>2. JobIndependent(s, vetted)
    BY <1>2, <1>5 DEF JobOK, JobIndependent
  <2>3. Transient(s)
    BY <1>1, <1>2, <1>5 DEF JobOK, Transient
  <2> QED
    BY <2>1, <2>2, <2>3
<1>7. JobOK(job', vetted')
  <2>1. CASE job.milestones = <<>>
    <3>1. job' = s
      BY <1>1, <1>2, <1>3, <1>5, <2>1, WrittenMilestone
    <3> QED
      BY <1>1, <1>5, <1>6, <2>1, <3>1 DEF JobOK
  <2>2. CASE job.milestones # <<>>
    <3>1. PICK i \in DOMAIN job.milestones :
            /\ CurrentMilestoneIndex(job) = i /\ Mirrors(job, job.milestones, i)
            /\ WithMilestone(s, m) = [s EXCEPT !.milestones[i] = m]
      BY <1>2, <1>5, <2>2, WrittenMilestone
    <3> DEFINE old == job.milestones[i]
               new == [old EXCEPT !.status = "Submitted", !.result = TRUE,
                                  !.submittedAt = now, !.challengeDeadline = d]
               ms == [job.milestones EXCEPT ![i] = new]
               b == [s EXCEPT !.milestones = ms]
    <3>2. m = new
      BY <3>1 DEF Submitted, CurrentMilestone, m, d
    <3>3. job' = b
      BY <1>1, <1>3, <1>5, <3>1, <3>2
    <3>4. old \in ToolMilestoneRow /\ old.submitDeadline = job.submitDeadline
          /\ old.disputedAt = job.disputedAt
      BY <1>2 , <3>1 DEF JobRow, Mirrors
    <3> HIDE DEF old
    <3>5. /\ new \in ToolMilestoneRow /\ new.status = "Submitted" /\ new.result = TRUE
          /\ new.submittedAt = now /\ new.challengeDeadline = d
          /\ new.submitDeadline = job.submitDeadline /\ new.disputedAt = job.disputedAt
      BY <1>4, <3>4 DEF ToolMilestoneRow, ToolMilestoneStatus
    <3> HIDE DEF new, ms
    <3>6. /\ DOMAIN b = JobFields /\ b.status = "Submitted" /\ b.result = TRUE
          /\ b.submittedAt = now /\ b.challengeDeadline = d /\ b.milestones = ms
          /\ b.submitDeadline = job.submitDeadline /\ b.disputedAt = job.disputedAt
          /\ b.deadline = s.deadline /\ b.prior = s.prior /\ b.arbitrator = s.arbitrator
          /\ b.requester = s.requester /\ b.provider = s.provider
          /\ b.sla = s.sla /\ b.window = s.window
      BY <1>5 DEF JobFields
    <3> HIDE DEF b
    <3>7. /\ b.milestones \in Seq(ToolMilestoneRow) /\ i \in DOMAIN b.milestones
          /\ Mirrors(b, b.milestones, i)
      <4>1. b.milestones = [job.milestones EXCEPT ![i] = new]
        BY <3>6 DEF ms
      <4>2. new.status = IF b.status = "Open" THEN "Pending" ELSE b.status
        BY <3>5, <3>6
      <4>3. /\ new.submitDeadline = b.submitDeadline /\ new.result = b.result
            /\ new.submittedAt = b.submittedAt /\ new.challengeDeadline = b.challengeDeadline
            /\ new.disputedAt = b.disputedAt
        BY <3>5, <3>6
      <4> QED
        BY <1>2, <3>1, <3>5, <4>1, <4>2, <4>3, MirrorKept
    <3>8. JobRow(b)
      BY <1>5, <1>6, <3>6, <3>7 DEF JobRow
    <3>9. JobIndependent(b, vetted) /\ Transient(b)
      BY <1>5, <1>6, <3>6 DEF JobIndependent, Transient
    <3> QED
      BY <1>1, <3>3, <3>7, <3>8, <3>9 DEF JobOK
  <2> QED
    BY <2>1, <2>2
<1> QED
  BY <1>1, <1>2, <1>7, NoPayment, JobStep

\* An eligible arbitrator is of neither side.
LEMMA DisputeResultKeeps ==
    ASSUME EscrowInv, NEW x, DisputeResult(x)
    PROVE  EscrowInv'
<1> DEFINE d == now + Window
           s == [job EXCEPT !.status = "Disputed", !.disputedAt = now]
           m == Disputed(CurrentMilestone)
           w == WithMilestone(s, m)
<1>1. /\ job.status \in {"Submitted", "Open"}
      /\ x \in Eligible({job.requester, job.provider}, {})
      /\ job' = [w EXCEPT !.arbitrator = x, !.deadline = d]
      /\ now' = now /\ release' = release /\ agreement' = agreement
      /\ rulings' = rulings /\ legacy' = legacy
      /\ vetted'.deal = vetted.deal /\ vetted'.arbitrator = entity
  BY DEF DisputeResult, agreementVars, Disputed, ArbitratorVetted
<1>2. JobOK(job, vetted) /\ JobRow(job) /\ DOMAIN job = JobFields /\ now \in Nat
      /\ agreement = NoRow
  <2>1. job.status \in ToolJobStatus
    BY <1>1 DEF ToolJobStatus
  <2> QED
    BY <2>1, JobThere DEF EscrowInv
<1>3. d \in Int /\ d # None /\ now \in Int /\ now # None
  BY <1>2, EscrowAssumption DEF None
<1> HIDE DEF d, m
<1>4. /\ DOMAIN s = JobFields /\ s.status = "Disputed" /\ s.disputedAt = now
      /\ s.result = job.result /\ s.submittedAt = job.submittedAt
      /\ s.challengeDeadline = job.challengeDeadline /\ s.milestones = job.milestones
      /\ s.submitDeadline = job.submitDeadline /\ s.prior = {}
      /\ s.requester = job.requester /\ s.provider = job.provider
      /\ s.sla = job.sla /\ s.window = job.window
  BY <1>1, <1>2 DEF JobFields, JobOK, Transient
<1> HIDE DEF s
<1>5. ASSUME NEW v, DOMAIN v = JobFields, v.status = "Disputed", v.disputedAt = now,
             v.result = job.result, v.submitDeadline = job.submitDeadline, v.prior = {},
             v.milestones \in Seq(ToolMilestoneRow),
             v.requester = job.requester, v.provider = job.provider,
             v.sla = job.sla, v.window = job.window,
             NEW b, b = [v EXCEPT !.arbitrator = x, !.deadline = d]
      PROVE  JobRow(b) /\ JobIndependent(b, vetted') /\ Transient(b) /\ b.milestones = v.milestones
  <2>1. /\ DOMAIN b = JobFields /\ b.status = "Disputed" /\ b.disputedAt = now
        /\ b.result = job.result /\ b.submitDeadline = job.submitDeadline
        /\ b.milestones = v.milestones /\ b.arbitrator = x /\ b.deadline = d
        /\ b.prior = {}
        /\ b.requester = job.requester /\ b.provider = job.provider
        /\ b.sla = job.sla /\ b.window = job.window
    BY <1>5 DEF JobFields
  <2>2. JobRow(b)
    BY <1>2, <1>5, <2>1 DEF JobRow, ToolJobStatus
  <2>3. JobIndependent(b, vetted')
    BY <1>1, <1>2, <2>1, ChosenIsOutside DEF JobOK, JobIndependent
  <2>4. Transient(b)
    BY <1>1, <1>3, <2>1 DEF Transient, Eligible
  <2> QED
    BY <2>1, <2>2, <2>3, <2>4
<1>6. JobOK(job', vetted')
  <2>1. CASE job.milestones = <<>>
    <3>1. w = s
      BY <1>2, <1>4, <2>1, WrittenMilestone
    <3>2. s.milestones \in Seq(ToolMilestoneRow)
      BY <1>2, <1>4 DEF JobRow
    <3>3. JobRow(job') /\ JobIndependent(job', vetted') /\ Transient(job')
          /\ job'.milestones = s.milestones
      BY <1>1, <1>4, <1>5, <3>1, <3>2
    <3> QED
      BY <1>4, <2>1, <3>3 DEF JobOK
  <2>2. CASE job.milestones # <<>>
    <3>1. PICK i \in DOMAIN job.milestones :
            /\ CurrentMilestoneIndex(job) = i /\ Mirrors(job, job.milestones, i)
            /\ w = [s EXCEPT !.milestones[i] = m]
      BY <1>2, <1>4, <2>2, WrittenMilestone
    <3> DEFINE old == job.milestones[i]
               new == [old EXCEPT !.status = "Disputed", !.disputedAt = now]
               ms == [job.milestones EXCEPT ![i] = new]
               v == [s EXCEPT !.milestones = ms]
    <3>2. m = new
      BY <3>1 DEF Disputed, CurrentMilestone, m
    <3> HIDE DEF w
    <3>3. w = v
      BY <1>4, <3>1, <3>2
    <3>4. /\ old \in ToolMilestoneRow /\ old.submitDeadline = job.submitDeadline
          /\ old.result = job.result /\ old.submittedAt = job.submittedAt
          /\ old.challengeDeadline = job.challengeDeadline
      BY <1>2 , <3>1 DEF JobRow, Mirrors
    <3> HIDE DEF old
    <3>5. /\ new \in ToolMilestoneRow /\ new.status = "Disputed" /\ new.disputedAt = now
          /\ new.result = job.result /\ new.submittedAt = job.submittedAt
          /\ new.challengeDeadline = job.challengeDeadline
          /\ new.submitDeadline = job.submitDeadline
      BY <1>3, <3>4 DEF ToolMilestoneRow, ToolMilestoneStatus
    <3> HIDE DEF new, ms
    <3>6. /\ DOMAIN v = JobFields /\ v.status = "Disputed" /\ v.disputedAt = now
          /\ v.result = job.result /\ v.submitDeadline = job.submitDeadline
          /\ v.submittedAt = job.submittedAt /\ v.challengeDeadline = job.challengeDeadline
          /\ v.milestones = ms /\ v.prior = {}
          /\ v.requester = job.requester /\ v.provider = job.provider
          /\ v.sla = job.sla /\ v.window = job.window
      BY <1>4 DEF JobFields
    <3> HIDE DEF v
    <3>7. v.milestones = [job.milestones EXCEPT ![i] = new]
      BY <3>6 DEF ms
    <3>8. v.milestones \in Seq(ToolMilestoneRow)
      BY <1>2, <3>5, <3>7 DEF JobRow
    <3> DEFINE b == [v EXCEPT !.arbitrator = x, !.deadline = d]
    <3>9. JobRow(b) /\ JobIndependent(b, vetted') /\ Transient(b) /\ b.milestones = v.milestones
      <4> HIDE DEF b
      <4> QED
        BY <1>5, <3>6, <3>8 DEF b
    <3>10. /\ b.status = "Disputed" /\ b.disputedAt = now
           /\ b.result = job.result /\ b.submitDeadline = job.submitDeadline
           /\ b.submittedAt = job.submittedAt /\ b.challengeDeadline = job.challengeDeadline
      BY <3>6 DEF JobFields
    <3> HIDE DEF b
    <3>11. i \in DOMAIN b.milestones /\ Mirrors(b, b.milestones, i)
      <4>1. b.milestones = [job.milestones EXCEPT ![i] = new]
        BY <3>7, <3>9
      <4>2. new.status = IF b.status = "Open" THEN "Pending" ELSE b.status
        BY <3>5, <3>10
      <4>3. /\ new.submitDeadline = b.submitDeadline /\ new.result = b.result
            /\ new.submittedAt = b.submittedAt /\ new.challengeDeadline = b.challengeDeadline
            /\ new.disputedAt = b.disputedAt
        BY <3>5, <3>10
      <4> QED
        BY <1>2, <3>1, <3>5, <4>1, <4>2, <4>3, MirrorKept
    <3>12. job' = b
      BY <1>1, <3>3 DEF b
    <3> QED
      BY <3>9, <3>11, <3>12 DEF JobOK
  <2> QED
    BY <2>1, <2>2
<1> QED
  BY <1>1, <1>2, <1>6, NoPayment, JobStep

LEMMA ReassignResultKeeps ==
    ASSUME EscrowInv, NEW x, ReassignResult(x)
    PROVE  EscrowInv'
<1> DEFINE d == now + Window
           q == job.prior \cup {job.arbitrator}
           b == [job EXCEPT !.prior = q, !.arbitrator = x, !.deadline = d]
<1>1. /\ job.status = "Disputed" /\ job' = b
      /\ x \in Eligible({job.requester, job.provider}, q)
      /\ now' = now /\ release' = release /\ agreement' = agreement
      /\ rulings' = rulings /\ legacy' = legacy
      /\ vetted'.deal = vetted.deal /\ vetted'.arbitrator = entity
  BY DEF ReassignResult, agreementVars, ArbitratorVetted
<1>2. JobOK(job, vetted) /\ JobRow(job) /\ DOMAIN job = JobFields /\ now \in Nat
      /\ agreement = NoRow
  <2>1. job.status \in ToolJobStatus
    BY <1>1 DEF ToolJobStatus
  <2> QED
    BY <2>1, JobThere DEF EscrowInv
<1>3. d # None
  BY <1>2, EscrowAssumption DEF None
<1> HIDE DEF d, q
<1>4. /\ DOMAIN b = JobFields /\ b.status = "Disputed" /\ b.disputedAt = job.disputedAt
      /\ b.result = job.result /\ b.submittedAt = job.submittedAt
      /\ b.challengeDeadline = job.challengeDeadline /\ b.milestones = job.milestones
      /\ b.submitDeadline = job.submitDeadline /\ b.deadline = d /\ b.arbitrator = x
      /\ b.prior = q
      /\ b.requester = job.requester /\ b.provider = job.provider
      /\ b.sla = job.sla /\ b.window = job.window
  BY <1>1, <1>2 DEF JobFields
<1> HIDE DEF b
<1>5. JobRow(b)
  BY <1>2, <1>4 DEF JobRow, ToolJobStatus
<1>6. JobIndependent(b, vetted')
  BY <1>1, <1>2, <1>4, ChosenIsOutside DEF JobOK, JobIndependent
<1>7. Transient(b)
  BY <1>1, <1>2, <1>3, <1>4 DEF JobOK, Transient, Eligible
<1>8. b.milestones # <<>> => \E i \in DOMAIN b.milestones : Mirrors(b, b.milestones, i)
  BY <1>1, <1>2, <1>4 DEF JobOK, Mirrors
<1>9. JobOK(job', vetted')
  BY <1>1, <1>5, <1>6, <1>7, <1>8 DEF JobOK
<1> QED
  BY <1>1, <1>2, <1>9, NoPayment, JobStep

\* A milestone that is paid is completed, and the next one opens.
LEMMA NextMilestoneOpened ==
    ASSUME JobOK(job, vetted), DOMAIN job = JobFields, now \in Nat,
           NEW i, i = CurrentMilestoneIndex(job), i # 0, i # Len(job.milestones)
    PROVE  LET o == OpenCurrentMilestone(
                        [job EXCEPT !.milestones[i].status = "Completed"], now)
           IN  /\ JobOK(o, vetted) /\ o.escrow = job.escrow
               /\ i \in DOMAIN job.milestones /\ job.milestones[i].status # "Completed"
               /\ DOMAIN o.milestones = DOMAIN job.milestones
               /\ \A k \in DOMAIN job.milestones :
                     /\ o.milestones[k].amount = job.milestones[k].amount
                     /\ (o.milestones[k].status = "Completed")
                          <=> (k = i \/ job.milestones[k].status = "Completed")
<1> DEFINE j == [job EXCEPT !.milestones[i].status = "Completed"]
<1>1. JobOK(job, vetted) /\ JobRow(job) /\ DOMAIN job = JobFields /\ now \in Nat
  BY DEF JobOK
<1>2. job.milestones # <<>>
  BY NoCurrentIndex
<1>3. i \in DOMAIN job.milestones /\ Mirrors(job, job.milestones, i)
  <2>1. PICK k \in DOMAIN job.milestones : Mirrors(job, job.milestones, k)
    BY <1>1, <1>2 DEF JobOK
  <2>2. i = k
    BY <1>1, <2>1, MirroredIsCurrent
  <2> QED
    BY <2>1, <2>2
<1>4. /\ job.milestones \in Seq(ToolMilestoneRow) /\ i \in Nat
      /\ i + 1 \in 1..Len(job.milestones) /\ i \in 1..Len(job.milestones)
      /\ \A k \in 1..(i - 1) : job.milestones[k].status = "Completed"
      /\ \A k \in (i + 1)..Len(job.milestones) :
            job.milestones[k] = ToolMilestone(job.milestones[k].amount)
  BY <1>1, <1>3 DEF JobRow, Mirrors
<1> DEFINE m == [job.milestones[i] EXCEPT !.status = "Completed"]
           ms == [job.milestones EXCEPT ![i] = m]
           b == [job EXCEPT !.milestones = ms]
<1>5. j = b
  OBVIOUS
<1>6. m \in ToolMilestoneRow /\ m.status = "Completed" /\ m.amount = job.milestones[i].amount
  <2>1. job.milestones[i] \in ToolMilestoneRow
    BY <1>4
  <2> QED
    BY <2>1 DEF ToolMilestoneRow, ToolMilestoneStatus
<1> HIDE DEF m, j
<1>7. /\ ms \in Seq(ToolMilestoneRow) /\ Len(ms) = Len(job.milestones) /\ ms[i] = m
      /\ DOMAIN ms = DOMAIN job.milestones
      /\ \A k \in DOMAIN job.milestones : k # i => ms[k] = job.milestones[k]
  BY <1>3, <1>4, <1>6
<1> HIDE DEF ms
<1>8. /\ DOMAIN b = JobFields /\ b.milestones = ms /\ b.sla = job.sla
      /\ b.window = job.window /\ b.requester = job.requester
      /\ b.provider = job.provider /\ b.arbitrator = job.arbitrator
      /\ b.escrow = job.escrow
  BY <1>1 DEF JobFields
<1> HIDE DEF b
<1>9. \A k \in 1..((i + 1) - 1) : ms[k].status = "Completed"
  <2> SUFFICES ASSUME NEW k \in 1..((i + 1) - 1)
               PROVE  ms[k].status = "Completed"
    OBVIOUS
  <2>1. k \in DOMAIN job.milestones /\ (k = i \/ k \in 1..(i - 1))
    BY <1>4
  <2> QED
    BY <1>4, <1>6, <1>7, <2>1
<1>10. \A k \in (i + 1)..Len(ms) : ms[k] = ToolMilestone(ms[k].amount)
  <2> SUFFICES ASSUME NEW k \in (i + 1)..Len(ms)
               PROVE  ms[k] = ToolMilestone(ms[k].amount)
    OBVIOUS
  <2>1. k \in DOMAIN job.milestones /\ k # i /\ k \in (i + 1)..Len(job.milestones)
    BY <1>4, <1>7
  <2> QED
    BY <1>4, <1>7, <2>1
<1>11. i + 1 \in DOMAIN ms /\ ms[i + 1].status # "Completed"
  <2>1. i + 1 \in DOMAIN ms /\ i + 1 \in (i + 1)..Len(ms)
    BY <1>4, <1>7
  <2>2. ms[i + 1] = ToolMilestone(ms[i + 1].amount) /\ ms[i + 1].amount \in Nat
    <3>1. ms[i + 1] \in ToolMilestoneRow
      BY <1>7, <2>1
    <3>2. ms[i + 1].amount \in Nat
      BY <3>1 DEF ToolMilestoneRow
    <3> QED
      BY <1>10, <2>1, <3>2
  <2>3. ms[i + 1].status = "Pending"
    BY <2>2, NewMilestone
  <2> QED
    BY <2>1, <2>3
<1>12. \A k \in ((i + 1) + 1)..Len(ms) : ms[k] = ToolMilestone(ms[k].amount)
  BY <1>4, <1>10
<1>13. JobIndependent(b, vetted) /\ b.sla \in Nat /\ b.window \in Nat
  BY <1>1, <1>8 DEF JobOK, JobIndependent, JobRow
<1> DEFINE o == OpenCurrentMilestone(b, now)
<1>14. JobOK(o, vetted) /\ SamePlan(b, o)
  BY <1>1, <1>7, <1>8, <1>9, <1>11, <1>12, <1>13, MilestoneOpened
<1> HIDE DEF o
<1>15. /\ o.escrow = job.escrow /\ DOMAIN o.milestones = DOMAIN job.milestones
       /\ \A k \in DOMAIN job.milestones :
             /\ o.milestones[k].amount = job.milestones[k].amount
             /\ (o.milestones[k].status = "Completed")
                  <=> (k = i \/ job.milestones[k].status = "Completed")
  <2>1. /\ o.escrow = job.escrow /\ DOMAIN o.milestones = DOMAIN job.milestones
        /\ \A k \in DOMAIN job.milestones :
              /\ o.milestones[k].amount = ms[k].amount
              /\ (o.milestones[k].status = "Completed") <=> (ms[k].status = "Completed")
    BY <1>7, <1>8, <1>14 DEF SamePlan
  <2>2. \A k \in DOMAIN job.milestones :
           /\ ms[k].amount = job.milestones[k].amount
           /\ (ms[k].status = "Completed") <=> (k = i \/ job.milestones[k].status = "Completed")
    BY <1>6, <1>7
  <2> QED
    BY <2>1, <2>2
<1>16. job.milestones[i].status # "Completed"
  BY <1>1, <1>3 DEF Mirrors, JobRow, ToolJobStatus
<1>17. OpenCurrentMilestone(j, now) = o
  BY <1>5 DEF o
<1> QED
  BY <1>3, <1>14, <1>15, <1>16, <1>17, Zenon DEF j

LEMMA PayProviderKeeps ==
    ASSUME EscrowInv, job.status \in ToolJobStatus, now' = now, agreement' = agreement,
           rulings' = rulings, legacy' = legacy, vetted' = vetted,
           NEW by, NEW links, PayProvider(by, links),
           \/ by \in {None, job.requester} /\ links = vetted.deal
           \/ by = job.arbitrator /\ links = vetted.arbitrator
    PROVE  EscrowInv'
<1> DEFINE i == CurrentMilestoneIndex(job)
           j == [job EXCEPT !.milestones[i].status = "Completed"]
<1>1. JobOK(job, vetted) /\ JobRow(job) /\ DOMAIN job = JobFields /\ now \in Nat
      /\ agreement = NoRow
  BY JobThere DEF EscrowInv
<1>2. /\ release' = Paid(by, {job.provider}, job.requester, links)
      /\ IF i = 0 \/ i = Len(job.milestones) THEN job' = ClosedRow
         ELSE job' = OpenCurrentMilestone(j, now)
  BY Zenon DEF PayProvider
<1>3. NobodyPaysThemselves'
  <2>1. by # None => links[by] # links[job.provider]
    BY <1>1 DEF JobOK, JobIndependent, Outside
  <2> QED
    BY <1>2, <2>1, FairPayment
<1>4. CASE i = 0 \/ i = Len(job.milestones)
  BY <1>1, <1>2, <1>3, <1>4, JobStep
<1>5. CASE ~(i = 0 \/ i = Len(job.milestones))
  <2>1. JobOK(OpenCurrentMilestone(j, now), vetted)
    <3> HIDE DEF i, j
    <3> QED
      BY <1>1, <1>5, NextMilestoneOpened DEF i, j
  <2> QED
    BY <1>1, <1>2, <1>3, <1>5, <2>1, JobStep
<1> QED
  BY <1>4, <1>5

LEMMA RefundKeeps ==
    ASSUME EscrowInv, job.status \in ToolJobStatus, now' = now, agreement' = agreement,
           rulings' = rulings, legacy' = legacy, NEW by, NEW links, RefundRequester(by, links)
    PROVE  EscrowInv'
<1>1. release' = Paid(by, {job.requester}, job.requester, links) /\ job' = ClosedRow
  BY DEF RefundRequester
<1>2. NobodyPaysThemselves'
  BY <1>1, FairPayment
<1>3. now \in Nat /\ agreement = NoRow
  BY JobThere DEF EscrowInv
<1> QED
  BY <1>1, <1>2, <1>3, JobStep

\* A job is opened with its first milestone, if it has any.
LEMMA InvokeKeeps ==
    ASSUME EscrowInv, NEW requester \in Address, NEW provider \in Address,
           NEW plan \in Plans, Invoke(requester, provider, plan)
    PROVE  EscrowInv'
<1> DEFINE ms == [i \in DOMAIN plan |-> ToolMilestone(plan[i])]
           j == NewToolJob(requester, provider, Price, plan, Sla, Window, FeeBps, now)
           d == now + Sla
<1>1. /\ ~SameEntity(requester, provider) /\ job' = OpenCurrentMilestone(j, now)
      /\ now' = now /\ agreement' = agreement /\ release' = release
      /\ rulings' = rulings /\ legacy' = legacy /\ agreement = NoRow
      /\ vetted'.deal = entity
  BY DEF Invoke, Idle, DealVetted
<1>2. now \in Nat /\ Sla \in Nat /\ Window \in Nat /\ plan \in Seq(Nat)
  BY EscrowAssumption DEF EscrowInv
<1>3. d \in Int
  BY <1>2
<1>4. /\ DOMAIN ms = 1..Len(plan) /\ Len(plan) \in Nat
      /\ \A i \in 1..Len(plan) : ms[i] = ToolMilestone(plan[i]) /\ plan[i] \in Nat
  BY <1>2
<1> HIDE DEF ms, d
<1>5. \A i \in 1..Len(plan) : /\ ms[i] \in ToolMilestoneRow /\ ms[i].amount = plan[i]
                              /\ ms[i].status = "Pending"
  <2> SUFFICES ASSUME NEW i \in 1..Len(plan)
               PROVE  /\ ms[i] \in ToolMilestoneRow /\ ms[i].amount = plan[i]
                      /\ ms[i].status = "Pending"
    OBVIOUS
  <2>1. plan[i] \in Nat /\ ms[i] = ToolMilestone(plan[i])
    BY <1>4
  <2>2. LET t == ToolMilestone(plan[i])
        IN  t \in ToolMilestoneRow /\ t.amount = plan[i] /\ t.status = "Pending"
    BY <2>1, NewMilestone
  <2> QED
    BY <2>1, <2>2
<1>6. ms \in Seq(ToolMilestoneRow) /\ Len(ms) = Len(plan)
  <2>1. ms \in [1..Len(plan) -> ToolMilestoneRow]
    BY <1>4, <1>5 DEF ms
  <2> QED
    BY <1>4, <2>1, SeqDef
<1>7. /\ DOMAIN j = JobFields /\ j.milestones = ms /\ j.status = "Open"
      /\ j.requester = requester /\ j.provider = provider /\ j.arbitrator = Absent
      /\ j.sla = Sla /\ j.window = Window /\ j.submitDeadline = d /\ j.result = FALSE
      /\ j.disputedAt = Absent /\ j.deadline = Absent /\ j.prior = {}
  <2>1. j = [requester |-> requester, provider |-> provider, arbitrator |-> Absent,
             escrow |-> Price, sla |-> Sla, window |-> Window, feeBps |-> FeeBps,
             status |-> "Open", submitDeadline |-> d, result |-> FALSE,
             submittedAt |-> Absent, challengeDeadline |-> Absent, disputedAt |-> Absent,
             deadline |-> Absent, prior |-> {}, milestones |-> ms]
    BY DEF NewToolJob, ms, d
  <2> HIDE DEF j
  <2> QED
    BY <2>1 DEF JobFields
<1> HIDE DEF j
<1>8. JobIndependent(j, vetted')
  BY <1>1, <1>7 DEF JobIndependent, Outside, SameEntity, Absent, None
<1>9. JobOK(job', vetted')
  <2>1. CASE plan = <<>>
    <3>1. ms = <<>>
      BY <1>6, <2>1
    <3>2. CurrentMilestoneIndex(j) = 0
      BY <1>7, <3>1, NoCurrentIndex
    <3>3. job' = j
      BY <1>1, <3>2, Zenon DEF OpenCurrentMilestone
    <3>4. JobRow(j)
      BY <1>2, <1>3, <1>6, <1>7 DEF JobRow, ToolJobStatus
    <3>5. Transient(j)
      BY <1>7 DEF Transient, Absent, None
    <3> QED
      BY <1>7, <1>8, <3>1, <3>3, <3>4, <3>5 DEF JobOK
  <2>2. CASE plan # <<>>
    <3>1. 1 \in DOMAIN ms /\ Len(ms) \in Nat
      BY <1>2, <1>4, <1>6, <2>2
    <3>2. \A k \in 1..(1 - 1) : ms[k].status = "Completed"
      OBVIOUS
    <3>3. ms[1].status # "Completed"
      BY <1>4, <1>5, <3>1
    <3>4. \A k \in (1 + 1)..Len(ms) : ms[k] = ToolMilestone(ms[k].amount)
      BY <1>4, <1>5, <1>6, <3>1
    <3> QED
      BY <1>1, <1>2, <1>6, <1>7, <1>8, <3>1, <3>2, <3>3, <3>4, MilestoneOpened
  <2> QED
    BY <2>1, <2>2
<1> QED
  BY <1>1, <1>2, <1>9, NoPayment, JobStep

-----------------------------------------------------------------------------
(* Together. *)

LEMMA EscrowInvInit == Init => EscrowInv
<1> SUFFICES ASSUME Init
             PROVE  EscrowInv
  OBVIOUS
<1>1. NobodyPaysThemselves
  <2>1. release.by = None
    BY DEF Init, NoRelease
  <2> QED
    BY <2>1 DEF NobodyPaysThemselves
<1> QED
  BY <1>1 DEF Init, EscrowInv

LEMMA EscrowInvStep == EscrowInv /\ [Next]_vars => EscrowInv'
<1> SUFFICES ASSUME EscrowInv, [Next]_vars
             PROVE  EscrowInv'
  OBVIOUS
<1>1. CASE \E d \in Offers : Propose(d)
  BY <1>1, ProposeKeeps
<1>2. CASE \E p \in Address : Accept(p)
  BY <1>2, AcceptKeeps
<1>3. CASE Cancel
  BY <1>3, CancelKeeps
<1>4. CASE \E i \in 1..MaxMilestones : Execute(i)
  BY <1>4, ExecuteKeeps
<1>5. CASE \E scope \in 0..MaxMilestones, x \in Arbitrators : Dispute(scope, x)
  BY <1>5, DisputeKeeps
<1>6. CASE \E x \in Arbitrators : Reassign(x)
  BY <1>6, ReassignKeeps
<1>7. CASE \E v \in Verdicts, l \in EffectLists : Resolve(v, l)
  BY <1>7, ResolveKeeps
<1>8. CASE ExpireAgreement
  BY <1>8, ExpireKeeps
<1>9. CASE \E a, b \in Address, plan \in Plans : Invoke(a, b, plan)
  BY <1>9, InvokeKeeps
<1>10. CASE SubmitResult
  BY <1>10, SubmitResultKeeps
<1>11. CASE AcceptResult \/ AutoSettle \/ \E wins \in BOOLEAN : ResolveResult(wins)
  <2>1. /\ job.status \in ToolJobStatus
        /\ now' = now /\ agreement' = agreement /\ rulings' = rulings /\ legacy' = legacy
        /\ vetted' = vetted
    BY <1>11 DEF AcceptResult, AutoSettle, ResolveResult, agreementVars, ToolJobStatus
  <2>2. \/ PayProvider(job.requester, vetted.deal) \/ PayProvider(None, vetted.deal)
        \/ PayProvider(job.arbitrator, vetted.arbitrator)
        \/ RefundRequester(job.arbitrator, vetted.arbitrator)
    BY <1>11, Zenon DEF AcceptResult, AutoSettle, ResolveResult
  <2> QED
    BY <2>1, <2>2, PayProviderKeeps, RefundKeeps
<1>12. CASE \E x \in Arbitrators : DisputeResult(x)
  BY <1>12, DisputeResultKeeps
<1>13. CASE \E x \in Arbitrators : ReassignResult(x)
  BY <1>13, ReassignResultKeeps
<1>14. CASE ExpireJob
  BY <1>14, RefundKeeps DEF ExpireJob, agreementVars, ToolJobStatus
<1>15. CASE \/ Tick \/ UNCHANGED vars
            \/ \E l \in Links : Link(l[1], l[2])
  <2>1. /\ now' \in Nat
        /\ UNCHANGED <<agreement, job, release, rulings, legacy, vetted>>
    BY <1>15 DEF Tick, vars, agreementVars, Link, EscrowInv
  <2> QED
    BY <2>1, StillStep
<1> QED
  BY <1>1, <1>2, <1>3, <1>4, <1>5, <1>6, <1>7, <1>8, <1>9, <1>10, <1>11, <1>12, <1>13,
     <1>14, <1>15 DEF Next

\* The inductive invariant: rulings and disputes are where the row's methods look for
\* them, whoever may order a payment is independent, and a job repeats its milestone.
THEOREM EscrowInvHolds == Spec => []EscrowInv
<1>1. Init => EscrowInv
  BY EscrowInvInit
<1>2. EscrowInv /\ [Next]_vars => EscrowInv'
  BY EscrowInvStep
<1> QED
  BY <1>1, <1>2, PTL DEF Spec

\* NobodyPaysThemselves for every set of parties, shares, approvers, arbitrators and
\* links, committed whenever: what settlement_approver_is_independent and the choice of
\* an arbitrator established is still known of whoever orders a payment, by the links
\* of that check.  By the links of the payment it need not hold.
THEOREM PaymentsAreIndependent == Spec => []NobodyPaysThemselves
<1>1. EscrowInv => NobodyPaysThemselves
  BY DEF EscrowInv
<1> QED
  BY <1>1, EscrowInvHolds, PTL

\* RulingsKept: record_milestone_resolution and record_whole_agreement_resolution lose
\* no ruling, also where an earlier version left one in the top-level slot.
THEOREM RulingsAreKept == Spec => []RulingsKept
<1>1. EscrowInv => RulingsKept
  <2> SUFFICES ASSUME EscrowInv, NEW r \in rulings
               PROVE  r \in {ResolutionFor(agreement, r.scope), agreement.resolution}
    BY DEF RulingsKept
  <2>1. Recorded(agreement, r)
    BY DEF EscrowInv, AgreementOK, RulingsRecorded
  <2> QED
    BY <2>1 DEF Recorded, ResolutionFor
<1> QED
  BY <1>1, EscrowInvHolds, PTL

\* EffectsHaveOpponents: what normalize_dispute_reputation_effects lets through and
\* sorts, dispute_reputation_counterparty can pair by the links of that moment.
THEOREM EffectsAreOpposed == Spec => EffectsHaveOpponents
<1>1. ASSUME [Next]_vars
      PROVE  \A r \in rulings' \ rulings : Opposed(r.effects)
  <2>1. CASE \E v \in Verdicts, l \in EffectLists : Resolve(v, l)
    <3>1. PICK v \in Verdicts, l \in EffectLists : Resolve(v, l)
      BY <2>1
    <3> DEFINE r == NewDisputeResolution(v, l, agreement.disputed)
    <3>2. rulings' = rulings \cup {r} /\ DisputeReputationEffectsFit(agreement.parties, l)
      BY <3>1, Zenon DEF Resolve
    <3>3. r.effects = NormalizeDisputeReputationEffects(l)
      BY DEF NewDisputeResolution
    <3>4. l \in Seq(Effect)
      BY EscrowAssumption
    <3> HIDE DEF r
    <3>5. Opposed(r.effects)
      BY <3>2, <3>3, <3>4, RulingOpposed
    <3> QED
      BY <3>2, <3>5
  <2>2. CASE ~\E v \in Verdicts, l \in EffectLists : Resolve(v, l)
    <3>1. rulings' = rulings
      BY <1>1, <2>2 DEF Next, vars, agreementVars, Propose, Accept, Cancel, Execute, Dispute,
            Reassign, ExpireAgreement, Invoke, SubmitResult, AcceptResult, AutoSettle,
            DisputeResult, ReassignResult, ResolveResult, ExpireJob, Tick, Link
    <3> QED
      BY <3>1
  <2> QED
    BY <2>1, <2>2
<1>2. [Next]_vars => [ \A r \in rulings' \ rulings : \A i \in DOMAIN r.effects :
          LET e == r.effects[i]
              against == DisputeReputationCounterparty(e, r.effects)
          IN  /\ against # None
              /\ \E j \in DOMAIN r.effects :
                    /\ r.effects[j].party = against
                    /\ DisputeReputationCounterparty(r.effects[j], r.effects)
                          # None ]_vars
  BY <1>1 DEF Opposed
<1> QED
  BY <1>2, PTL DEF Spec, EffectsHaveOpponents

\* JobMirrorsMilestone for every plan: open_current_milestone and
\* clear_transient_result_state leave nothing of a milestone that is over.
THEOREM JobsMirrorTheirMilestone == Spec => []JobMirrorsMilestone
<1>1. EscrowInv => JobMirrorsMilestone
  <2> SUFFICES ASSUME EscrowInv, job.status \in ToolJobStatus
               PROVE  JobMirrorsMilestone
    BY DEF JobMirrorsMilestone
  <2>1. JobOK(job, vetted) /\ JobRow(job)
    BY JobThere
  <2>2. Transient(job)
    BY <2>1 DEF JobOK
  <2>3. CASE job.milestones = <<>>
    BY <2>2, <2>3 DEF JobMirrorsMilestone, Transient, IsMilestoneJob
  <2>4. CASE job.milestones # <<>>
    <3>1. PICK i \in DOMAIN job.milestones : Mirrors(job, job.milestones, i)
      BY <2>1, <2>4 DEF JobOK
    <3>2. CurrentMilestoneIndex(job) = i /\ i # 0
      <4>1. CurrentMilestoneIndex(job) = i
        BY <2>1, <3>1, MirroredIsCurrent
      <4>2. i # 0
        BY <2>1 DEF JobRow
      <4> QED
        BY <4>1, <4>2
    <3> QED
      BY <2>2, <3>1, <3>2 DEF JobMirrorsMilestone, Transient, Mirrors
  <2> QED
    BY <2>3, <2>4
<1> QED
  BY <1>1, EscrowInvHolds, PTL

-----------------------------------------------------------------------------
(* What the rows say about the money. *)

\* The amounts of the milestones whose status is in S.
AmountsIn(ms, S) == [i \in DOMAIN ms |-> IF ms[i].status \in S THEN ms[i].amount ELSE 0]

LiveStatus == {"Proposed", "Active", "Disputed"}
OpenMilestone == {"Pending", "Disputed"}

\* What was agreed: amounts, a fee below the amount, shares that are complete and of
\* recipients who are in the list once.
Terms(a) ==
    /\ \E n \in Nat : DOMAIN a.milestones = 1..n
    /\ \A i \in DOMAIN a.milestones : a.milestones[i].amount \in Nat
    /\ a.escrow \in Nat /\ a.feeBps \in 0..BasisPoints
    /\ LET shares == EffectiveSettlementAllocations(a.provider, a.shares)
       IN  /\ shares \in Seq(Share) /\ SharesAreComplete(shares)
           /\ Cardinality(Recipients(shares)) = Len(shares)

\* What was released and what is open make up the escrow, and the pot holds what is open.
Balance(a, p) ==
    /\ a.released \in Nat
    /\ a.status \in LiveStatus =>
          /\ p = TotalOf(AmountsIn(a.milestones, OpenMilestone))
          /\ a.released + p = a.escrow
    /\ a.status \in {"Completed", "Resolved"} => p = 0 /\ a.released = a.escrow
    /\ a.status \in {"Cancelled", "Expired"} => p = 0

\* The pot of a job holds what is not paid of its price.
JobBalance(j, p) ==
    /\ j.escrow \in Nat
    /\ j.milestones # <<>> =>
          TotalOf([i \in DOMAIN j.milestones |-> j.milestones[i].amount]) = j.escrow
    /\ p = j.escrow - TotalOf(AmountsIn(j.milestones, {"Completed"}))

\* There is one deal, and its money is where it should be.
MoneyInv ==
    /\ agreement = NoRow \/ job = NoRow
    /\ agreement # NoRow => Terms(agreement) /\ Balance(agreement, pot)
    /\ job \notin {NoRow, ClosedRow} => JobBalance(job, pot)
    /\ job = ClosedRow => pot = 0

\* CooperativeShares of a row and of what was earned from it.
Earnings(a, e) ==
    LET shares == EffectiveSettlementAllocations(a.provider, a.shares)
        done == {i \in DOMAIN a.milestones : a.milestones[i].status = "Completed"}
        sum == TotalOf([i \in DOMAIN a.milestones |->
                    IF i \in done THEN a.milestones[i].amount ELSE 0])
        Part(i) == e[shares[i].recipient] * BasisPoints
    IN  /\ \A i \in DOMAIN shares :
             IF i < Len(shares)
             THEN /\ Part(i) <= sum * shares[i].bps
                  /\ sum * shares[i].bps <= Part(i) + Cardinality(done) * BasisPoints
             ELSE Part(i) >= sum * shares[i].bps
        /\ TotalOf([i \in DOMAIN shares |-> e[shares[i].recipient]]) = sum

EarningsInv ==
    /\ earned \in [Address -> Nat]
    /\ agreement = NoRow => earned = [r \in Address |-> 0]
    /\ agreement # NoRow => Earnings(agreement, earned)

\* Both together; EscrowInv is needed for the steps of either.
AccountInv == MoneyInv /\ EarningsInv

\* What a step may not change about the money: who gets which share of which amounts.
SameTerms(a, b) ==
    /\ b.provider = a.provider /\ b.shares = a.shares
    /\ b.escrow = a.escrow /\ b.feeBps = a.feeBps
    /\ DOMAIN b.milestones = DOMAIN a.milestones
    /\ \A i \in DOMAIN a.milestones : b.milestones[i].amount = a.milestones[i].amount

SameDone(a, b) ==
    \A i \in DOMAIN a.milestones :
        (b.milestones[i].status = "Completed") <=> (a.milestones[i].status = "Completed")

SameOpen(a, b) ==
    \A i \in DOMAIN a.milestones :
        (b.milestones[i].status \in OpenMilestone) <=> (a.milestones[i].status \in OpenMilestone)

LEMMA TermsKept ==
    ASSUME NEW a, NEW b, Terms(a), SameTerms(a, b)
    PROVE  Terms(b)
<1>1. /\ \E n \in Nat : DOMAIN b.milestones = 1..n
      /\ \A i \in DOMAIN b.milestones : b.milestones[i].amount \in Nat
      /\ b.escrow \in Nat /\ b.feeBps \in 0..BasisPoints
  BY DEF Terms, SameTerms
<1>2. b.provider = a.provider /\ b.shares = a.shares
  BY DEF SameTerms
<1> QED
  BY <1>1, <1>2, Zenon DEF Terms

\* The amounts of some of the milestones are a list of amounts.
LEMMA AmountsFit ==
    ASSUME NEW ms, NEW S, NEW n \in Nat, DOMAIN ms = 1..n,
           \A i \in DOMAIN ms : ms[i].amount \in Nat
    PROVE  /\ AmountsIn(ms, S) \in [1..n -> Nat]
           /\ \A i \in 1..n : AmountsIn(ms, S)[i] = IF ms[i].status \in S THEN ms[i].amount ELSE 0
BY DEF AmountsIn

LEMMA SameAmounts ==
    ASSUME NEW a, NEW b, SameTerms(a, b), NEW S,
           \A i \in DOMAIN a.milestones :
              (b.milestones[i].status \in S) <=> (a.milestones[i].status \in S)
    PROVE  AmountsIn(b.milestones, S) = AmountsIn(a.milestones, S)
BY DEF SameTerms, AmountsIn

\* What was earned depends only on the terms and on what is completed.
LEMMA EarningsKept ==
    ASSUME NEW a, NEW b, NEW e, Earnings(a, e), SameTerms(a, b), SameDone(a, b)
    PROVE  Earnings(b, e)
<1> DEFINE done(x) == {i \in DOMAIN x.milestones : x.milestones[i].status = "Completed"}
           paid(x) == [i \in DOMAIN x.milestones |->
                          IF i \in done(x) THEN x.milestones[i].amount ELSE 0]
<1>1. done(b) = done(a)
  BY DEF SameTerms, SameDone
<1>2. paid(b) = paid(a)
  <2> HIDE DEF done
  <2> QED
    BY <1>1 DEF SameTerms
<1>3. b.provider = a.provider /\ b.shares = a.shares
  BY DEF SameTerms
<1> DEFINE Law(shares, d, sum) ==
             /\ \A i \in DOMAIN shares :
                  IF i < Len(shares)
                  THEN /\ e[shares[i].recipient] * BasisPoints <= sum * shares[i].bps
                       /\ sum * shares[i].bps
                            <= e[shares[i].recipient] * BasisPoints
                                 + Cardinality(d) * BasisPoints
                  ELSE e[shares[i].recipient] * BasisPoints >= sum * shares[i].bps
             /\ TotalOf([i \in DOMAIN shares |-> e[shares[i].recipient]]) = sum
<1>4. Earnings(a, e) = Law(EffectiveSettlementAllocations(a.provider, a.shares), done(a),
                           TotalOf(paid(a)))
  BY Zenon DEF Earnings
<1>5. Earnings(b, e) = Law(EffectiveSettlementAllocations(b.provider, b.shares), done(b),
                           TotalOf(paid(b)))
  BY Zenon DEF Earnings
<1> HIDE DEF Law, done, paid
<1> QED
  BY <1>1, <1>2, <1>3, <1>4, <1>5

\* A row that is there, before and after a step of the agreement.
LEMMA DealThere ==
    ASSUME AccountInv, agreement.status \in AgreementStatus
    PROVE  /\ agreement # NoRow /\ job = NoRow /\ Terms(agreement) /\ Balance(agreement, pot)
           /\ earned \in [Address -> Nat] /\ Earnings(agreement, earned)
<1>1. agreement # NoRow
  BY DEF NoRow, AgreementStatus
<1> QED
  BY <1>1 DEF AccountInv, MoneyInv, EarningsInv

LEMMA MoneyStep ==
    ASSUME AccountInv, agreement.status \in AgreementStatus,
           agreement'.status \in AgreementStatus, job' = job,
           SameTerms(agreement, agreement'), Balance(agreement', pot')
    PROVE  MoneyInv'
<1>1. job = NoRow /\ Terms(agreement)
  BY DealThere
<1>2. Terms(agreement')
  BY <1>1, TermsKept
<1>3. agreement' # NoRow
  BY DEF NoRow, AgreementStatus
<1>4. NoRow # ClosedRow
  BY DEF NoRow, ClosedRow
<1> QED
  BY <1>1, <1>2, <1>3, <1>4 DEF MoneyInv

LEMMA NothingEarned ==
    ASSUME AccountInv, agreement.status \in AgreementStatus,
           agreement'.status \in AgreementStatus, earned' = earned,
           SameTerms(agreement, agreement'), SameDone(agreement, agreement')
    PROVE  EarningsInv'
<1>1. earned \in [Address -> Nat] /\ Earnings(agreement, earned)
  BY DealThere
<1>2. Earnings(agreement', earned)
  BY <1>1, EarningsKept
<1>3. Earnings(agreement', earned')
  BY <1>2
<1>4. agreement' # NoRow
  BY DEF NoRow, AgreementStatus
<1> QED
  BY <1>1, <1>3, <1>4 DEF EarningsInv

\* A step that moves no money and opens or closes no milestone.
LEMMA NoMoneyMoved ==
    ASSUME AccountInv, agreement.status \in LiveStatus, agreement'.status \in LiveStatus,
           UNCHANGED <<job, pot, earned>>, agreement'.released = agreement.released,
           SameTerms(agreement, agreement'), SameDone(agreement, agreement'),
           SameOpen(agreement, agreement')
    PROVE  AccountInv'
<1>1. agreement.status \in AgreementStatus /\ agreement'.status \in AgreementStatus
  BY DEF LiveStatus, AgreementStatus
<1>2. Balance(agreement, pot)
  BY <1>1, DealThere
<1>3. AmountsIn(agreement'.milestones, OpenMilestone) = AmountsIn(agreement.milestones, OpenMilestone)
  BY SameAmounts DEF SameOpen
<1>4. agreement'.escrow = agreement.escrow
  BY DEF SameTerms
<1>5. Balance(agreement', pot')
  BY <1>2, <1>3, <1>4 DEF Balance, LiveStatus
<1>6. MoneyInv'
  BY <1>1, <1>5, MoneyStep
<1>7. EarningsInv'
  BY <1>1, NothingEarned
<1> QED
  BY <1>6, <1>7 DEF AccountInv

-----------------------------------------------------------------------------
(* The steps of the agreement that release nothing. *)

\* What is left of the escrow is what is open.
LEMMA RemainingIsOpen ==
    ASSUME NEW a, NEW p, Terms(a), Balance(a, p), a.status \in LiveStatus
    PROVE  p \in Nat /\ a.escrow - a.released = p /\ EscrowRemaining(a) = p
<1>1. PICK n \in Nat : DOMAIN a.milestones = 1..n
  BY DEF Terms
<1>2. \A i \in DOMAIN a.milestones : a.milestones[i].amount \in Nat
  BY DEF Terms
<1>3. AmountsIn(a.milestones, OpenMilestone) \in [1..n -> Nat]
  BY <1>1, <1>2, AmountsFit
<1>4. TotalOf(AmountsIn(a.milestones, OpenMilestone)) \in Nat
  BY <1>3, SubtotalSteps
<1>5. /\ p \in Nat /\ a.released \in Nat /\ a.escrow \in Nat
      /\ a.released + p = a.escrow
  BY <1>4 DEF Balance, Terms
<1>6. a.escrow - a.released = p
  <2>1. PICK x, y \in Nat : x = a.released /\ y = a.escrow
    BY <1>5
  <2>2. y - x = p
    BY <1>5, <2>1
  <2> QED
    BY <2>1, <2>2
<1>7. Max({0, p}) = p
  <2>1. 0 \in Int /\ p \in Int /\ 0 <= p
    BY <1>5
  <2>2. Max({0, p}) = IF 0 <= p THEN p ELSE 0
    BY <2>1, TwoNumbers, Zenon
  <2> QED
    BY <2>1, <2>2
<1>8. EscrowRemaining(a) = p
  BY <1>6, <1>7, Zenon DEF EscrowRemaining
<1> QED
  BY <1>5, <1>6, <1>8

LEMMA AcceptKeepsMoney ==
    ASSUME EscrowInv, AccountInv, NEW p, Accept(p)
    PROVE  AccountInv'
<1> DEFINE a == [agreement EXCEPT !.acceptedBy = @ \cup {p}]
           b == [a EXCEPT !.status = "Active"]
<1>1. /\ agreement.status = "Proposed" /\ agreement.status \in AgreementStatus
      /\ agreement' = IF IsFullyAccepted(a) THEN b ELSE a
      /\ UNCHANGED <<job, pot, earned>>
  BY DEF Accept, AgreementStatus
<1>2. DOMAIN agreement = RowFields
  BY <1>1, RowThere
<1>3. /\ DOMAIN a = RowFields /\ a.status = "Proposed" /\ a.released = agreement.released
      /\ a.milestones = agreement.milestones /\ SameTerms(agreement, a)
  BY <1>1, <1>2 DEF RowFields, SameTerms
<1> HIDE DEF a
<1>4. /\ b.status = "Active" /\ b.released = agreement.released
      /\ b.milestones = agreement.milestones /\ SameTerms(agreement, b)
  BY <1>3 DEF RowFields, SameTerms
<1> HIDE DEF b
<1>5. /\ agreement'.status \in LiveStatus /\ agreement'.released = agreement.released
      /\ agreement'.milestones = agreement.milestones /\ SameTerms(agreement, agreement')
  BY <1>1, <1>3, <1>4 DEF LiveStatus
<1>6. SameDone(agreement, agreement') /\ SameOpen(agreement, agreement')
  BY <1>5 DEF SameDone, SameOpen
<1> QED
  BY <1>1, <1>5, <1>6, NoMoneyMoved DEF LiveStatus

LEMMA ReassignKeepsMoney ==
    ASSUME EscrowInv, AccountInv, NEW x, Reassign(x)
    PROVE  AccountInv'
<1> DEFINE a == [agreement EXCEPT !.prior = @ \cup {agreement.arbitrator},
                                  !.arbitrator = x, !.deadline = now + Window]
<1>1. /\ agreement.status = "Disputed" /\ agreement.status \in AgreementStatus
      /\ agreement' = a /\ UNCHANGED <<job, pot, earned>>
  BY DEF Reassign, AgreementStatus
<1>2. DOMAIN agreement = RowFields
  BY <1>1, RowThere
<1>3. /\ a.status = "Disputed" /\ a.released = agreement.released
      /\ a.milestones = agreement.milestones /\ SameTerms(agreement, a)
  BY <1>1, <1>2 DEF RowFields, SameTerms
<1> HIDE DEF a
<1>4. SameDone(agreement, a) /\ SameOpen(agreement, a)
  BY <1>3 DEF SameDone, SameOpen
<1> QED
  BY <1>1, <1>3, <1>4, NoMoneyMoved DEF LiveStatus

LEMMA CancelKeepsMoney ==
    ASSUME EscrowInv, AccountInv, Cancel
    PROVE  AccountInv'
<1> DEFINE a == [agreement EXCEPT !.status = "Cancelled", !.deposit = 0]
<1>1. /\ agreement.status = "Proposed" /\ agreement.status \in AgreementStatus
      /\ agreement' = a /\ pot' = 0 /\ UNCHANGED <<job, earned>>
  BY DEF Cancel, AgreementStatus
<1>2. DOMAIN agreement = RowFields
  BY <1>1, RowThere
<1>3. /\ a.status = "Cancelled" /\ a.released = agreement.released
      /\ a.milestones = agreement.milestones /\ SameTerms(agreement, a)
  BY <1>2 DEF RowFields, SameTerms
<1> HIDE DEF a
<1>4. SameDone(agreement, a) /\ a.status \in AgreementStatus
  BY <1>3 DEF SameDone, AgreementStatus
<1>5. agreement.released \in Nat
  BY <1>1, DealThere DEF Balance
<1>6. Balance(agreement', pot')
  BY <1>1, <1>3, <1>5 DEF Balance, LiveStatus
<1> QED
  BY <1>1, <1>3, <1>4, <1>6, MoneyStep, NothingEarned DEF AccountInv

LEMMA ExpireKeepsMoney ==
    ASSUME EscrowInv, AccountInv, ExpireAgreement
    PROVE  AccountInv'
<1> DEFINE e == [agreement EXCEPT !.status = "Expired", !.deposit = 0]
           a == [e EXCEPT !.disputed = Whole, !.deadline = None, !.prior = {}]
<1>1. /\ agreement.status \in LiveStatus /\ agreement' = a
      /\ pot' = pot - EscrowRemaining(agreement) /\ UNCHANGED <<job, earned>>
  BY DEF ExpireAgreement, NormalizeForExpiry, ClearDisputeState, LiveStatus
<1>2. agreement.status \in AgreementStatus
  BY <1>1 DEF AgreementStatus, LiveStatus
<1>3. DOMAIN agreement = RowFields
  BY <1>2, RowThere
<1>4. /\ DOMAIN e = RowFields /\ e.status = "Expired" /\ e.released = agreement.released
      /\ e.milestones = agreement.milestones /\ SameTerms(agreement, e)
  BY <1>3 DEF RowFields, SameTerms
<1> HIDE DEF e
<1>5. /\ a.status = "Expired" /\ a.released = agreement.released
      /\ a.milestones = agreement.milestones /\ SameTerms(agreement, a)
  BY <1>4 DEF RowFields, SameTerms
<1> HIDE DEF a
<1>6. SameDone(agreement, a) /\ a.status \in AgreementStatus
  BY <1>5 DEF SameDone, AgreementStatus
<1>7. Terms(agreement) /\ Balance(agreement, pot) /\ agreement.released \in Nat
  BY <1>2, DealThere DEF Balance
<1>8. pot' = 0
  BY <1>1, <1>7, RemainingIsOpen
<1>9. Balance(agreement', pot')
  BY <1>1, <1>5, <1>7, <1>8 DEF Balance, LiveStatus
<1> QED
  BY <1>1, <1>2, <1>5, <1>6, <1>9, MoneyStep, NothingEarned DEF AccountInv

LEMMA DisputeKeepsMoney ==
    ASSUME EscrowInv, AccountInv, NEW scope, NEW x, Dispute(scope, x)
    PROVE  AccountInv'
<1> DEFINE d == now + Window
           a == [agreement EXCEPT !.status = "Disputed", !.disputed = scope,
                                  !.arbitrator = x, !.deadline = d]
           m == [agreement.milestones[scope] EXCEPT !.status = "Disputed"]
           ms == [agreement.milestones EXCEPT ![scope] = m]
           b == [a EXCEPT !.milestones = ms]
<1>1. /\ agreement.status = "Active" /\ agreement.status \in AgreementStatus
      /\ UNCHANGED <<job, pot, earned>>
      /\ \/ scope = Whole
         \/ scope \in DOMAIN agreement.milestones
            /\ agreement.milestones[scope].status = "Pending"
  BY DEF Dispute, AgreementStatus
<1>2. agreement' = IF scope = Whole THEN a
                   ELSE [a EXCEPT !.milestones[scope].status = "Disputed"]
  BY Zenon DEF Dispute
<1>3. AgreementRow(agreement) /\ DOMAIN agreement = RowFields
  BY <1>1, RowThere
<1> HIDE DEF d
<1>4. /\ DOMAIN a = RowFields /\ a.status = "Disputed" /\ a.released = agreement.released
      /\ a.milestones = agreement.milestones /\ SameTerms(agreement, a)
  BY <1>3 DEF RowFields, SameTerms
<1> HIDE DEF a
<1>5. CASE scope = Whole
  <2>1. agreement' = a
    BY <1>2, <1>5
  <2>2. SameDone(agreement, a) /\ SameOpen(agreement, a)
    BY <1>4 DEF SameDone, SameOpen
  <2> QED
    BY <1>1, <1>4, <2>1, <2>2, NoMoneyMoved DEF LiveStatus
<1>6. CASE scope # Whole
  <2>1. agreement' = b
    BY <1>2, <1>4, <1>6
  <2>2. scope \in DOMAIN agreement.milestones /\ agreement.milestones[scope].status = "Pending"
    BY <1>1, <1>6
  <2>3. m.status = "Disputed" /\ m.amount = agreement.milestones[scope].amount
    BY <1>3, <2>2 DEF AgreementRow, MilestoneFields
  <2> HIDE DEF m
  <2>4. /\ DOMAIN ms = DOMAIN agreement.milestones /\ ms[scope] = m
        /\ \A i \in DOMAIN agreement.milestones : i # scope => ms[i] = agreement.milestones[i]
    BY <2>2
  <2> HIDE DEF ms
  <2>5. \A i \in DOMAIN agreement.milestones : ms[i].amount = agreement.milestones[i].amount
    BY <2>3, <2>4
  <2>6. /\ b.status = "Disputed" /\ b.released = agreement.released /\ b.milestones = ms
        /\ b.provider = agreement.provider /\ b.shares = agreement.shares
        /\ b.escrow = agreement.escrow /\ b.feeBps = agreement.feeBps
    BY <1>4 DEF RowFields, SameTerms
  <2> HIDE DEF b
  <2>7. SameTerms(agreement, b)
    BY <2>4, <2>5, <2>6 DEF SameTerms
  <2>8. SameDone(agreement, b) /\ SameOpen(agreement, b)
    BY <2>2, <2>3, <2>4, <2>6 DEF SameDone, SameOpen, OpenMilestone
  <2> QED
    BY <1>1, <2>1, <2>6, <2>7, <2>8, NoMoneyMoved DEF LiveStatus
<1> QED
  BY <1>5, <1>6

\* What an accepted offer agrees on.
LEMMA NewTerms ==
    ASSUME NEW d \in Offers, ValidateAgreementCreateStateless(d),
           NEW a, a = NewAgreement(d, FeeBps, 1)
    PROVE  /\ Terms(a) /\ a.released = 0 /\ a.escrow = d.escrow /\ a.status = "Proposed"
           /\ DOMAIN a.milestones = DOMAIN d.milestones
           /\ \A i \in DOMAIN a.milestones : a.milestones[i].status = "Pending"
           /\ AmountsIn(a.milestones, OpenMilestone) = d.milestones
           /\ d.milestones \in Seq(Nat) /\ TotalOf(d.milestones) = d.escrow
<1> DEFINE ms == MaterializeAgreementMilestones(d.milestones)
<1>1. /\ d.escrow \in 0..MaxAmount /\ d.milestones \in Seq(0..MaxAmount)
      /\ d.provider \in Address /\ d.shares \in Seq(Share)
  <2>1. d \in CreateData
    BY EscrowAssumption
  <2> QED
    BY <2>1 DEF CreateData
<1>2. MilestonesFit(d.milestones, d.escrow)
      /\ SettlementAllocationsFit(d.proposer, ToSet(d.parties), d.provider, d.shares)
  BY DEF ValidateAgreementCreateStateless
<1>3. /\ a.status = "Proposed" /\ a.milestones = ms /\ a.escrow = d.escrow /\ a.released = 0
      /\ a.feeBps = FeeBps /\ a.provider = d.provider /\ a.shares = d.shares
  <2> HIDE DEF ms
  <2>1. a = [parties |-> ToSet(d.parties), proposer |-> d.proposer,
             escrow |-> d.escrow, status |-> "Proposed", expiresAt |-> d.expiresAt,
             acceptedBy |-> {d.proposer}, arbitrator |-> d.arbitrator,
             disputed |-> Whole, deadline |-> None, prior |-> {},
             resolution |-> NoResolution, milestones |-> ms,
             released |-> 0, feeBps |-> FeeBps, provider |-> d.provider,
             shares |-> d.shares, deposit |-> 1, approver |-> d.approver]
    BY DEF NewAgreement, ms
  <2> QED
    BY <2>1
<1>4. /\ DOMAIN ms = DOMAIN d.milestones
      /\ \A i \in DOMAIN ms : ms[i].amount = d.milestones[i] /\ ms[i].status = "Pending"
  BY DEF MaterializeAgreementMilestones
<1> HIDE DEF ms
<1>5. d.milestones \in Seq(Nat)
  <2>1. PICK s \in Seq(0..MaxAmount) : s = d.milestones
    BY <1>1
  <2>2. 0..MaxAmount \subseteq Nat
    BY AgreementAssumption
  <2>3. Len(s) \in Nat /\ s \in [1..Len(s) -> 0..MaxAmount]
    BY LenProperties
  <2>4. s \in [1..Len(s) -> Nat]
    BY <2>2, <2>3
  <2>5. s \in Seq(Nat)
    BY <2>3, <2>4, SeqDef
  <2> QED
    BY <2>1, <2>5
<1>6. PICK n \in Nat : DOMAIN d.milestones = 1..n /\ \A i \in 1..n : d.milestones[i] \in Nat
  BY <1>5
<1>7. AmountsIn(ms, OpenMilestone) = d.milestones
  <2>1. d.milestones = [i \in 1..n |-> d.milestones[i]]
    BY <1>5, <1>6
  <2>2. AmountsIn(ms, OpenMilestone) = [i \in 1..n |-> d.milestones[i]]
    BY <1>4, <1>6 DEF AmountsIn, OpenMilestone
  <2> QED
    BY <2>1, <2>2
<1>8. TotalOf(d.milestones) = d.escrow
  BY <1>2 DEF MilestonesFit, MilestoneTotal
<1> DEFINE shares == EffectiveSettlementAllocations(d.provider, d.shares)
<1>9. /\ shares \in Seq(Share) /\ SharesAreComplete(shares)
      /\ Cardinality(Recipients(shares)) = Len(shares)
  <2>1. CASE d.shares # <<>>
    <3>1. shares = d.shares
      BY <2>1 DEF EffectiveSettlementAllocations
    <3>2. SharesAreComplete(d.shares) /\ Cardinality(Recipients(d.shares)) = Len(d.shares)
      BY <1>2, <2>1 DEF SettlementAllocationsFit
    <3> QED
      BY <1>1, <3>1, <3>2
  <2>2. CASE d.shares = <<>>
    <3> DEFINE one == [recipient |-> d.provider, bps |-> BasisPoints]
    <3>1. shares = <<one>>
      BY <2>2 DEF EffectiveSettlementAllocations
    <3>2. one \in Share /\ one.bps = BasisPoints /\ one.recipient = d.provider
      <4>1. BasisPoints \in 0..BasisPoints
        BY DEF BasisPoints
      <4> QED
        BY <1>1, <4>1 DEF Share
    <3> HIDE DEF one, shares
    <3>3. /\ shares \in Seq(Share) /\ Len(shares) = 1 /\ DOMAIN shares = 1..1
          /\ shares[1] = one
      BY <3>1, <3>2
    <3>4. Recipients(shares) = {d.provider}
      BY <3>2, <3>3 DEF Recipients
    <3>5. Cardinality({d.provider}) = 1
      BY FS_Singleton
    <3>6. SharesAreComplete(shares)
      <4> DEFINE b == [i \in DOMAIN shares |-> shares[i].bps]
      <4>1. BasisPoints \in Nat
        BY DEF BasisPoints
      <4>2. b \in [1..1 -> Nat] /\ b[1] = BasisPoints
        BY <3>2, <3>3, <4>1
      <4> HIDE DEF b
      <4>3. /\ Subtotals(b)[0] = 0 /\ Subtotals(b)[1] = Subtotals(b)[1 - 1] + b[1]
            /\ TotalOf(b) = Subtotals(b)[1]
        <5>1. 1 \in Nat /\ 1 \in 1..1
          OBVIOUS
        <5> QED
          BY <4>2, <5>1, SubtotalSteps
      <4>4. TotalOf(b) = BasisPoints
        BY <4>1, <4>2, <4>3
      <4> QED
        BY <4>4 DEF SharesAreComplete, b
    <3> QED
      BY <3>3, <3>4, <3>5, <3>6
  <2> QED
    BY <2>1, <2>2
<1> HIDE DEF shares
<1>10. a.escrow \in Nat /\ a.feeBps \in 0..BasisPoints
  BY <1>1, <1>3, AgreementAssumption, EscrowAssumption
<1>11. EffectiveSettlementAllocations(a.provider, a.shares) = shares
  BY <1>3 DEF shares
<1>12. /\ \E k \in Nat : DOMAIN a.milestones = 1..k
       /\ \A i \in DOMAIN a.milestones : a.milestones[i].amount \in Nat
  BY <1>3, <1>4, <1>6
<1>13. Terms(a)
  BY <1>9, <1>10, <1>11, <1>12 DEF Terms
<1> QED
  BY <1>3, <1>4, <1>5, <1>7, <1>8, <1>13

\* Nobody has earned anything from a new agreement.
LEMMA NewEarnings ==
    ASSUME NEW a, Terms(a), NEW e, e = [r \in Address |-> 0],
           \A i \in DOMAIN a.milestones : a.milestones[i].status # "Completed"
    PROVE  Earnings(a, e)
<1> DEFINE shares == EffectiveSettlementAllocations(a.provider, a.shares)
           done == {i \in DOMAIN a.milestones : a.milestones[i].status = "Completed"}
           paid == [i \in DOMAIN a.milestones |->
                      IF i \in done THEN a.milestones[i].amount ELSE 0]
           got == [i \in DOMAIN shares |-> e[shares[i].recipient]]
<1>1. done = {}
  OBVIOUS
<1>2. TotalOf(paid) = 0
  <2>1. PICK n \in Nat : DOMAIN a.milestones = 1..n
    BY DEF Terms
  <2>2. paid \in [1..n -> Nat] /\ \A i \in 1..n : paid[i] = 0
    BY <1>1, <2>1
  <2> HIDE DEF paid
  <2> QED
    BY <2>2, NothingToSum
<1>3. shares \in Seq(Share)
  BY DEF Terms
<1> HIDE DEF shares, paid, done
<1>4. /\ Len(shares) \in Nat /\ DOMAIN shares = 1..Len(shares)
      /\ \A i \in DOMAIN shares : shares[i] \in Share
  BY <1>3
<1>5. \A i \in DOMAIN shares : /\ e[shares[i].recipient] = 0
                               /\ shares[i].bps \in Nat
  <2> SUFFICES ASSUME NEW i \in DOMAIN shares
               PROVE  e[shares[i].recipient] = 0 /\ shares[i].bps \in Nat
    OBVIOUS
  <2>1. PICK s \in Share : s = shares[i]
    BY <1>4
  <2>2. s.recipient \in Address /\ s.bps \in Nat
    <3>1. s.recipient \in Address /\ s.bps \in 0..BasisPoints
      BY DEF Share
    <3>2. 0..BasisPoints \subseteq Nat
      BY DEF BasisPoints
    <3> QED
      BY <3>1, <3>2, Zenon
  <2>3. e[s.recipient] = 0
    BY <2>2
  <2> QED
    BY <2>1, <2>2, <2>3
<1>6. TotalOf(got) = 0
  <2>1. got \in [1..Len(shares) -> Nat] /\ \A i \in 1..Len(shares) : got[i] = 0
    BY <1>4, <1>5
  <2> HIDE DEF got
  <2> QED
    BY <1>4, <2>1, NothingToSum
<1>7. Cardinality(done) = 0
  BY <1>1, FS_EmptySet
<1>8. ASSUME NEW i \in DOMAIN shares
      PROVE  IF i < Len(shares)
             THEN /\ e[shares[i].recipient] * BasisPoints <= TotalOf(paid) * shares[i].bps
                  /\ TotalOf(paid) * shares[i].bps
                       <= e[shares[i].recipient] * BasisPoints
                            + Cardinality(done) * BasisPoints
             ELSE e[shares[i].recipient] * BasisPoints >= TotalOf(paid) * shares[i].bps
  <2>1. PICK v \in Nat : v = shares[i].bps
    BY <1>5
  <2>2. 0 * BasisPoints <= 0 * v /\ 0 * v <= 0 * BasisPoints + 0 * BasisPoints
        /\ 0 * BasisPoints >= 0 * v
    BY DEF BasisPoints
  <2> QED
    BY <1>2, <1>5, <1>7, <2>1, <2>2, Zenon
<1> QED
  BY <1>2, <1>6, <1>8, Zenon DEF Earnings, shares, done, paid, got

LEMMA ProposeKeepsMoney ==
    ASSUME AccountInv, NEW d \in Offers, Propose(d)
    PROVE  AccountInv'
<1> DEFINE a == NewAgreement(d, FeeBps, 1)
<1>1. /\ agreement = NoRow /\ job = NoRow /\ ValidateAgreementCreateStateless(d)
      /\ agreement' = a /\ pot' = d.escrow /\ UNCHANGED <<job, earned>>
  BY DEF Propose, Idle
<1>2. /\ Terms(a) /\ a.released = 0 /\ a.escrow = d.escrow /\ a.status = "Proposed"
      /\ \A i \in DOMAIN a.milestones : a.milestones[i].status = "Pending"
      /\ TotalOf(AmountsIn(a.milestones, OpenMilestone)) = d.escrow
  BY <1>1, NewTerms
<1> HIDE DEF a
<1>3. Balance(a, d.escrow)
  <2>1. d.escrow \in Nat
    BY <1>2 DEF Terms
  <2>2. 0 + d.escrow = d.escrow
    BY <2>1
  <2> QED
    BY <1>2, <2>2 DEF Balance
<1>4. a # NoRow /\ NoRow # ClosedRow
  BY <1>2 DEF NoRow, ClosedRow
<1>5. MoneyInv'
  BY <1>1, <1>2, <1>3, <1>4 DEF MoneyInv
<1>6. earned = [r \in Address |-> 0] /\ earned \in [Address -> Nat]
  BY <1>1 DEF AccountInv, EarningsInv
<1>7. \A i \in DOMAIN a.milestones : a.milestones[i].status # "Completed"
  BY <1>2
<1>8. Earnings(a, earned)
  BY <1>2, <1>6, <1>7, NewEarnings
<1>9. EarningsInv'
  BY <1>1, <1>4, <1>6, <1>8 DEF EarningsInv
<1> QED
  BY <1>5, <1>9 DEF AccountInv

-----------------------------------------------------------------------------
(* Releasing a milestone. *)

\* The open amounts after milestone i is closed.
LEMMA OpenAmountsAfter ==
    ASSUME NEW a, Terms(a), NEW i \in DOMAIN a.milestones,
           a.milestones[i].status \in OpenMilestone,
           NEW c, SameTerms(a, c), c.milestones[i].status \notin OpenMilestone,
           \A k \in DOMAIN a.milestones :
              k # i => c.milestones[k].status = a.milestones[k].status
    PROVE  /\ TotalOf(AmountsIn(c.milestones, OpenMilestone)) \in Nat
           /\ TotalOf(AmountsIn(a.milestones, OpenMilestone))
                = TotalOf(AmountsIn(c.milestones, OpenMilestone)) + a.milestones[i].amount
<1> DEFINE W == AmountsIn(a.milestones, OpenMilestone)
           V == AmountsIn(c.milestones, OpenMilestone)
<1>1. PICK n \in Nat : DOMAIN a.milestones = 1..n
  BY DEF Terms
<1>2. /\ DOMAIN c.milestones = 1..n /\ i \in 1..n
      /\ \A k \in 1..n : a.milestones[k].amount \in Nat
                         /\ c.milestones[k].amount = a.milestones[k].amount
  BY <1>1 DEF Terms, SameTerms
<1>3. /\ W \in [1..n -> Nat]
      /\ \A k \in 1..n :
           W[k] = IF a.milestones[k].status \in OpenMilestone THEN a.milestones[k].amount ELSE 0
  BY <1>1, <1>2, AmountsFit
<1>4. /\ V \in [1..n -> Nat]
      /\ \A k \in 1..n :
           V[k] = IF c.milestones[k].status \in OpenMilestone THEN c.milestones[k].amount ELSE 0
  BY <1>2, AmountsFit
<1> HIDE DEF W, V
<1>5. W[i] = a.milestones[i].amount /\ V[i] = 0 /\ \A k \in 1..n : k # i => V[k] = W[k]
  BY <1>1, <1>2, <1>3, <1>4
<1>6. TotalOf(V) + W[i] = TotalOf(W) + V[i]
  BY <1>2, <1>3, <1>4, <1>5, OneAmountChanged
<1>7. TotalOf(V) \in Nat /\ TotalOf(W) \in Nat
  BY <1>3, <1>4, SubtotalSteps
<1>8. TotalOf(W) = TotalOf(V) + a.milestones[i].amount
  BY <1>5, <1>6, <1>7
<1> QED
  BY <1>7, <1>8 DEF W, V

\* record_escrow_release never caps, and the agreement completes when nothing is open.
LEMMA MilestoneReleased ==
    ASSUME NEW a, NEW p, Terms(a), Balance(a, p), a.status \in LiveStatus,
           NEW i \in DOMAIN a.milestones, a.milestones[i].status \in OpenMilestone,
           NEW c, AgreementRow(c), SameTerms(a, c), c.released = a.released,
           c.milestones[i].status \notin OpenMilestone,
           \A k \in DOMAIN a.milestones :
              k # i => c.milestones[k].status = a.milestones[k].status,
           NEW b, b = Closing(RecordEscrowRelease(c, a.milestones[i].amount))
    PROVE  /\ SameTerms(a, b) /\ b.milestones = c.milestones
           /\ b.status \in {"Active", "Completed"}
           /\ Balance(b, p - a.milestones[i].amount)
<1> DEFINE amount == a.milestones[i].amount
           left == TotalOf(AmountsIn(c.milestones, OpenMilestone))
           x == Min({c.released + amount, c.escrow})
           r == [c EXCEPT !.released = x]
           b1 == [r EXCEPT !.status = "Completed", !.deposit = 0]
           b2 == [r EXCEPT !.status = "Active"]
<1>1. left \in Nat /\ p = left + amount /\ amount \in Nat
  BY OpenAmountsAfter DEF Balance, Terms
<1>2. /\ a.released \in Nat /\ a.escrow \in Nat /\ a.released + p = a.escrow
      /\ c.released = a.released /\ c.escrow = a.escrow
  BY DEF Balance, Terms, SameTerms
<1>3. RecordEscrowRelease(c, amount) = r /\ b = Closing(r)
  BY Zenon DEF RecordEscrowRelease
<1> HIDE DEF amount, left
<1>4. /\ p - amount = left /\ x \in Nat /\ x + left = a.escrow
  <2>1. PICK u, e \in Nat : u = a.released /\ e = a.escrow
    BY <1>2
  <2>2. u + (left + amount) = e
    BY <1>1, <1>2, <2>1
  <2>3. u + amount \in Int /\ e \in Int /\ u + amount <= e
    BY <1>1, <2>2
  <2>4. Min({u + amount, e}) = u + amount
    <3>1. Min({u + amount, e}) = IF u + amount <= e THEN u + amount ELSE e
      BY <2>3, TwoNumbers, Zenon
    <3> QED
      BY <2>3, <3>1
  <2>5. x = u + amount
    BY <1>2, <2>1, <2>4, Zenon
  <2> HIDE DEF x
  <2> QED
    BY <1>1, <2>1, <2>2, <2>5
<1> HIDE DEF x
<1>5. DOMAIN c = RowFields
  BY DEF AgreementRow
<1>6. /\ DOMAIN r = RowFields /\ r.released = x /\ r.milestones = c.milestones
      /\ r.escrow = c.escrow /\ r.feeBps = c.feeBps
      /\ r.shares = c.shares /\ r.provider = c.provider
  BY <1>5 DEF RowFields
<1> HIDE DEF r
<1>7. /\ b1.status = "Completed" /\ b1.released = x /\ b1.milestones = c.milestones
      /\ b1.escrow = c.escrow /\ b1.feeBps = c.feeBps
      /\ b1.shares = c.shares /\ b1.provider = c.provider
  BY <1>6 DEF RowFields
<1>8. /\ b2.status = "Active" /\ b2.released = x /\ b2.milestones = c.milestones
      /\ b2.escrow = c.escrow /\ b2.feeBps = c.feeBps
      /\ b2.shares = c.shares /\ b2.provider = c.provider
  BY <1>6 DEF RowFields
<1>9. b = IF AllMilestonesComplete(r) THEN b1 ELSE b2
  BY <1>3, Zenon DEF Closing
<1> HIDE DEF b1, b2
<1>10. CASE AllMilestonesComplete(r)
  <2>1. b = b1
    BY <1>9, <1>10
  <2>2. left = 0
    <3> DEFINE V == AmountsIn(c.milestones, OpenMilestone)
    <3>1. \A k \in DOMAIN c.milestones : c.milestones[k].status \notin OpenMilestone
      BY <1>6, <1>10 DEF AllMilestonesComplete, OpenMilestone
    <3>2. PICK n \in Nat : DOMAIN c.milestones = 1..n
                           /\ \A k \in 1..n : c.milestones[k].amount \in Nat
      BY DEF Terms, SameTerms
    <3>3. V \in [1..n -> Nat] /\ \A k \in 1..n : V[k] = 0
      <4>1. /\ V \in [1..n -> Nat]
            /\ \A k \in 1..n : V[k] = IF c.milestones[k].status \in OpenMilestone
                                     THEN c.milestones[k].amount ELSE 0
        BY <3>2, AmountsFit
      <4> HIDE DEF V
      <4> QED
        BY <3>1, <3>2, <4>1
    <3> HIDE DEF V
    <3>4. TotalOf(V) = 0
      BY <3>3, NothingToSum
    <3> QED
      BY <3>4 DEF V, left
  <2>3. SameTerms(a, b)
    BY <1>7, <2>1 DEF SameTerms
  <2>4. p - amount = 0 /\ x = a.escrow
    BY <1>2, <1>4, <2>2
  <2>5. Balance(b, p - amount)
    BY <1>2, <1>4, <1>7, <2>1, <2>4 DEF Balance, LiveStatus
  <2> QED
    BY <1>7, <2>1, <2>3, <2>5 DEF amount
<1>11. CASE ~AllMilestonesComplete(r)
  <2>1. b = b2
    BY <1>9, <1>11
  <2>2. SameTerms(a, b)
    BY <1>8, <2>1 DEF SameTerms
  <2>3. Balance(b, p - amount)
    BY <1>2, <1>4, <1>8, <2>1 DEF Balance, LiveStatus, left
  <2> QED
    BY <1>8, <2>1, <2>2, <2>3 DEF amount
<1> QED
  BY <1>10, <1>11

\* A recipient is in the list of shares once, so payout_amount_for_recipient is its payout.
LEMMA PayoutOfRecipient ==
    ASSUME NEW shares \in Seq(Share), Cardinality(Recipients(shares)) = Len(shares),
           NEW payouts, NEW k \in DOMAIN shares
    PROVE  PayoutAmountForRecipient(payouts, shares, shares[k].recipient) = payouts[k]
<1> DEFINE n == Len(shares)
           who == shares[k].recipient
           f == [i \in 1..n |-> shares[i].recipient]
           I == {i \in 1..Len(shares) : shares[i].recipient = who}
<1>1. n \in Nat /\ DOMAIN shares = 1..n
  OBVIOUS
<1>2. who \in Recipients(shares)
  BY DEF Recipients
<1>3. \A i \in 1..n : shares[i].recipient = who => i = k
  <2>1. IsFiniteSet(1..n) /\ Cardinality(1..n) = n
    <3> HIDE DEF n, f, I, who
    <3> QED
      BY <1>1, FS_Interval
  <2>2. f \in Surjection(1..n, Recipients(shares))
    <3>1. f \in [1..n -> Recipients(shares)]
      BY <1>1 DEF Recipients
    <3>2. \A r \in Recipients(shares) : \E i \in 1..n : f[i] = r
      BY <1>1 DEF Recipients
    <3> QED
      BY <3>1, <3>2 DEF Surjection
  <2> HIDE DEF f
  <2>3. f \in Injection(1..n, Recipients(shares))
    BY <2>1, <2>2, FS_SurjSameCardinalityImpliesInj
  <2>4. \A i, j \in 1..n : f[i] = f[j] => i = j
    BY <2>3 DEF Injection, IsInjective
  <2> QED
    BY <1>1, <2>4 DEF f
<1>4. I = {k} /\ I # {} /\ k \in Nat /\ I \subseteq Nat
  BY <1>1, <1>3
<1>5. PayoutAmountForRecipient(payouts, shares, who) = payouts[Min(I)]
  BY <1>2, <1>4, Zenon DEF PayoutAmountForRecipient, SelectInSeq
<1> HIDE DEF I
<1>6. Min(I) = k
  <2>1. k \in I
    BY <1>4
  <2>2. Min(I) \in I
    BY <1>4, <2>1, LeastNumber
  <2> QED
    BY <1>4, <2>2
<1> QED
  BY <1>5, <1>6

LEMMA PayoutIsAmount ==
    ASSUME NEW shares \in Seq(Share), Cardinality(Recipients(shares)) = Len(shares),
           NEW payouts, \A k \in DOMAIN shares : payouts[k] \in Nat, NEW r
    PROVE  PayoutAmountForRecipient(payouts, shares, r) \in Nat
<1>1. CASE r \in Recipients(shares)
  <2>1. PICK k \in DOMAIN shares : r = shares[k].recipient
    BY <1>1 DEF Recipients
  <2>2. PayoutAmountForRecipient(payouts, shares, r) = payouts[k]
    BY <2>1, PayoutOfRecipient
  <2> QED
    BY <2>2
<1>2. CASE r \notin Recipients(shares)
  BY <1>2 DEF PayoutAmountForRecipient
<1> QED
  BY <1>1, <1>2

\* Bounds of two payments are bounds of both together.
LEMMA BoundsAdd ==
    ASSUME NEW x \in Nat, NEW q \in Nat, NEW c \in Nat, NEW s \in Nat, NEW u \in Nat
    PROVE  /\ x * BasisPoints <= s /\ q * BasisPoints <= u => (x + q) * BasisPoints <= s + u
           /\ x * BasisPoints >= s /\ q * BasisPoints >= u => (x + q) * BasisPoints >= s + u
           /\ /\ s <= x * BasisPoints + c * BasisPoints
              /\ u <= q * BasisPoints + BasisPoints
              => s + u <= (x + q) * BasisPoints + (c + 1) * BasisPoints
BY DEF BasisPoints

\* The share of a sum is the sum of the shares.
LEMMA ProductsAdd ==
    ASSUME NEW sum \in Nat, NEW amount \in Nat, NEW bps \in Nat
    PROVE  /\ (sum + amount) * bps = sum * bps + amount * bps
           /\ sum * bps \in Nat /\ amount * bps \in Nat
<1>1. (sum + amount) * bps = sum * bps + amount * bps
  OBVIOUS
<1>2. sum * bps \in Nat /\ amount * bps \in Nat
  OBVIOUS
<1> QED
  BY <1>1, <1>2

\* Each part of CooperativeShares grows with the milestone that is paid.
LEMMA EarningsGrow ==
    ASSUME NEW a, Terms(a), NEW e \in [Address -> Nat], Earnings(a, e),
           NEW i \in DOMAIN a.milestones, a.milestones[i].status # "Completed",
           NEW b, SameTerms(a, b), b.milestones[i].status = "Completed",
           \A k \in DOMAIN a.milestones :
              k # i => b.milestones[k].status = a.milestones[k].status,
           NEW shares, shares = EffectiveSettlementAllocations(a.provider, a.shares),
           NEW payouts, payouts = DistributeAmount(a.milestones[i].amount, shares),
           NEW e2, e2 = [r \in Address |-> e[r] +
                            PayoutAmountForRecipient(payouts, shares, r)]
    PROVE  e2 \in [Address -> Nat] /\ Earnings(b, e2)
<1> DEFINE amount == a.milestones[i].amount
           n == Len(shares)
           done(x) == {k \in DOMAIN x.milestones : x.milestones[k].status = "Completed"}
           paid(x) == [k \in DOMAIN x.milestones |->
                          IF k \in done(x) THEN x.milestones[k].amount ELSE 0]
           got(f) == [k \in DOMAIN shares |-> f[shares[k].recipient]]
           sum == TotalOf(paid(a))
<1>1. /\ shares \in Seq(Share) /\ SharesAreComplete(shares)
      /\ Cardinality(Recipients(shares)) = Len(shares) /\ amount \in Nat
  BY Zenon DEF Terms
<1>2. /\ n \in Nat \ {0} /\ payouts \in [1..n -> Nat] /\ TotalOf(payouts) = amount
      /\ \A k \in 1..n :
           IF k < n
           THEN /\ payouts[k] * BasisPoints <= amount * shares[k].bps
                /\ amount * shares[k].bps <= payouts[k] * BasisPoints + BasisPoints
           ELSE payouts[k] * BasisPoints >= amount * shares[k].bps
  BY <1>1, Distribution, Zenon
<1>3. /\ DOMAIN shares = 1..n /\ n \in Nat
      /\ \A k \in 1..n : shares[k].recipient \in Address /\ shares[k].bps \in Nat
  <2>1. DOMAIN shares = 1..n /\ n \in Nat /\ \A k \in 1..n : shares[k] \in Share
    BY <1>1
  <2> SUFFICES ASSUME NEW k \in 1..n
               PROVE  shares[k].recipient \in Address /\ shares[k].bps \in Nat
    BY <2>1
  <2>2. PICK s \in Share : s = shares[k]
    BY <2>1
  <2>3. s.recipient \in Address /\ s.bps \in 0..BasisPoints
    BY DEF Share
  <2>4. 0..BasisPoints \subseteq Nat
    BY DEF BasisPoints
  <2> QED
    BY <2>2, <2>3, <2>4, Zenon
<1> HIDE DEF amount
<1>4. \A r \in Address : PayoutAmountForRecipient(payouts, shares, r) \in Nat
  BY <1>1, <1>2, <1>3, PayoutIsAmount
<1>5. e2 \in [Address -> Nat]
  BY <1>4
<1>6. \A k \in 1..n : e2[shares[k].recipient] = e[shares[k].recipient] + payouts[k]
  BY <1>1, <1>3, PayoutOfRecipient
\* One more milestone is completed.
<1>7. PICK m \in Nat : DOMAIN a.milestones = 1..m
  BY DEF Terms
<1>8. /\ DOMAIN b.milestones = 1..m /\ i \in 1..m
      /\ \A k \in 1..m : a.milestones[k].amount \in Nat
                         /\ b.milestones[k].amount = a.milestones[k].amount
  BY <1>7 DEF Terms, SameTerms
<1>9. done(b) = done(a) \cup {i} /\ i \notin done(a)
  BY <1>7, <1>8
<1>10. IsFiniteSet(done(a)) /\ Cardinality(done(a)) \in Nat
       /\ Cardinality(done(b)) = Cardinality(done(a)) + 1
  <2>1. done(a) \in SUBSET (1..m)
    BY <1>7
  <2> HIDE DEF done
  <2>2. IsFiniteSet(done(a))
    BY <2>1, FS_Interval, FS_Subset
  <2> QED
    BY <1>9, <2>2, FS_CardinalityType, FS_AddElement
<1>11. sum \in Nat /\ TotalOf(paid(b)) = sum + amount
  <2>1. /\ paid(a) \in [1..m -> Nat] /\ paid(b) \in [1..m -> Nat]
        /\ paid(a)[i] = 0 /\ paid(b)[i] = amount
        /\ \A k \in 1..m : k # i => paid(b)[k] = paid(a)[k]
    <3> HIDE DEF done
    <3> QED
      BY <1>7, <1>8, <1>9 DEF amount
  <2> HIDE DEF paid
  <2>2. TotalOf(paid(b)) + paid(a)[i] = TotalOf(paid(a)) + paid(b)[i]
    BY <1>8, <2>1, OneAmountChanged
  <2>3. TotalOf(paid(a)) \in Nat /\ TotalOf(paid(b)) \in Nat
    BY <2>1, SubtotalSteps
  <2> QED
    BY <2>1, <2>2, <2>3
<1>12. /\ \A k \in 1..n :
            IF k < n
            THEN /\ e[shares[k].recipient] * BasisPoints <= sum * shares[k].bps
                 /\ sum * shares[k].bps
                      <= e[shares[k].recipient] * BasisPoints
                           + Cardinality(done(a)) * BasisPoints
            ELSE e[shares[k].recipient] * BasisPoints >= sum * shares[k].bps
       /\ TotalOf(got(e)) = sum
  BY <1>3, Zenon DEF Earnings
<1>13. TotalOf(got(e2)) = sum + amount
  <2>1. got(e) \in [1..n -> Nat] /\ got(e2) \in [1..n -> Nat]
    BY <1>3, <1>5
  <2>2. \A k \in 1..n : got(e2)[k] = got(e)[k] + payouts[k]
    BY <1>3, <1>6
  <2> HIDE DEF got, n
  <2>3. TotalOf(got(e2)) = TotalOf(got(e)) + TotalOf(payouts)
    <3>1. ASSUME NEW g \in [1..n -> Nat], NEW h \in [1..n -> Nat],
                 \A k \in 1..n : h[k] = g[k] + payouts[k]
          PROVE  TotalOf(h) = TotalOf(g) + TotalOf(payouts)
      BY <1>2, <1>3, <3>1, SumsAdd
    <3> QED
      BY <2>1, <2>2, <3>1, Zenon
  <2> QED
    BY <1>2, <1>12, <2>3
<1> HIDE DEF sum, done, got, paid
<1>14. ASSUME NEW k \in 1..n
       PROVE  IF k < n
              THEN /\ e2[shares[k].recipient] * BasisPoints
                        <= (sum + amount) * shares[k].bps
                   /\ (sum + amount) * shares[k].bps
                        <= e2[shares[k].recipient] * BasisPoints
                             + Cardinality(done(b)) * BasisPoints
              ELSE e2[shares[k].recipient] * BasisPoints >= (sum + amount) * shares[k].bps
  <2>1. PICK x, q, v, c \in Nat : x = e[shares[k].recipient] /\ q = payouts[k]
                                  /\ v = shares[k].bps /\ c = Cardinality(done(a))
    <3>1. e[shares[k].recipient] \in Nat /\ payouts[k] \in Nat /\ shares[k].bps \in Nat
      BY <1>2, <1>3
    <3> QED
      BY <1>10, <3>1, Zenon
  <2>2. e2[shares[k].recipient] = x + q /\ Cardinality(done(b)) = c + 1
    BY <1>6, <1>10, <2>1, Zenon
  <2>3. /\ (sum + amount) * v = sum * v + amount * v
        /\ sum * v \in Nat /\ amount * v \in Nat
    BY <1>1, <1>11, ProductsAdd, Zenon
  <2>4. PICK s, u \in Nat : s = sum * v /\ u = amount * v
    BY <2>3
  <2>5. CASE k < n
    <3>1. /\ x * BasisPoints <= s /\ s <= x * BasisPoints + c * BasisPoints
          /\ q * BasisPoints <= u /\ u <= q * BasisPoints + BasisPoints
      BY <1>2, <1>12, <2>1, <2>4, <2>5, Zenon
    <3>2. /\ (x + q) * BasisPoints <= s + u
          /\ s + u <= (x + q) * BasisPoints + (c + 1) * BasisPoints
      BY <3>1, BoundsAdd, Zenon
    <3> QED
      BY <2>1, <2>2, <2>3, <2>4, <2>5, <3>2, Zenon
  <2>6. CASE ~(k < n)
    <3>1. x * BasisPoints >= s /\ q * BasisPoints >= u
      BY <1>2, <1>12, <2>1, <2>4, <2>6, Zenon
    <3>2. (x + q) * BasisPoints >= s + u
      BY <3>1, BoundsAdd, Zenon
    <3> QED
      BY <2>1, <2>2, <2>3, <2>4, <2>6, <3>2, Zenon
  <2> QED
    BY <2>5, <2>6
<1>15. EffectiveSettlementAllocations(b.provider, b.shares) = shares
  BY Zenon DEF SameTerms
<1>16. Earnings(b, e2)
  <2> DEFINE shares2 == EffectiveSettlementAllocations(b.provider, b.shares)
  <2>1. /\ \A k \in DOMAIN shares2 :
             IF k < Len(shares2)
             THEN /\ e2[shares2[k].recipient] * BasisPoints
                        <= TotalOf(paid(b)) * shares2[k].bps
                  /\ TotalOf(paid(b)) * shares2[k].bps
                        <= e2[shares2[k].recipient] * BasisPoints
                             + Cardinality(done(b)) * BasisPoints
             ELSE e2[shares2[k].recipient] * BasisPoints >= TotalOf(paid(b)) * shares2[k].bps
        /\ TotalOf([k \in DOMAIN shares2 |-> e2[shares2[k].recipient]]) = TotalOf(paid(b))
    <3> HIDE DEF shares2
    <3>1. shares2 = shares
      BY <1>15 DEF shares2
    <3> QED
      BY <1>3, <1>11, <1>13, <1>14, <3>1, Zenon DEF got
  <2> QED
    BY <2>1, Zenon DEF Earnings, paid, done
<1> QED
  BY <1>5, <1>16

\* The row with milestone i completed, all else as before.
WithMilestoneDone(a, i) ==
    [a EXCEPT !.milestones[i].status = "Completed", !.milestones[i].result = TRUE]

LEMMA MilestoneDone ==
    ASSUME NEW a, AgreementRow(a), NEW i \in DOMAIN a.milestones,
           NEW c, c = WithMilestoneDone(a, i)
    PROVE  /\ AgreementRow(c) /\ SameTerms(a, c) /\ c.released = a.released
           /\ c.milestones[i].status = "Completed"
           /\ \A k \in DOMAIN a.milestones :
                 k # i => c.milestones[k].status = a.milestones[k].status
<1> DEFINE m1 == [a.milestones[i] EXCEPT !.status = "Completed"]
           ms1 == [a.milestones EXCEPT ![i] = m1]
           a1 == [a EXCEPT !.milestones = ms1]
           m2 == [m1 EXCEPT !.result = TRUE]
           ms2 == [ms1 EXCEPT ![i] = m2]
           a2 == [a1 EXCEPT !.milestones = ms2]
<1>1. DOMAIN a = RowFields /\ DOMAIN a.milestones[i] = MilestoneFields
  BY DEF AgreementRow
<1>2. c = [a1 EXCEPT !.milestones[i].result = TRUE]
  BY DEF WithMilestoneDone
<1>3. /\ DOMAIN m1 = MilestoneFields /\ m1.status = "Completed"
      /\ m1.amount = a.milestones[i].amount
  BY <1>1 DEF MilestoneFields
<1> HIDE DEF m1
<1>4. /\ DOMAIN ms1 = DOMAIN a.milestones /\ ms1[i] = m1
      /\ \A k \in DOMAIN a.milestones : k # i => ms1[k] = a.milestones[k]
  OBVIOUS
<1> HIDE DEF ms1
<1>5. /\ DOMAIN a1 = RowFields /\ a1.milestones = ms1 /\ a1.status = a.status
      /\ a1.released = a.released /\ a1.escrow = a.escrow /\ a1.feeBps = a.feeBps
      /\ a1.shares = a.shares /\ a1.provider = a.provider
  BY <1>1 DEF RowFields
<1> HIDE DEF a1
<1>6. c = a2
  BY <1>2, <1>4, <1>5
<1>7. /\ DOMAIN m2 = MilestoneFields /\ m2.status = "Completed"
      /\ m2.amount = a.milestones[i].amount
  BY <1>3 DEF MilestoneFields
<1> HIDE DEF m2
<1>8. /\ DOMAIN ms2 = DOMAIN a.milestones /\ ms2[i] = m2
      /\ \A k \in DOMAIN a.milestones : k # i => ms2[k] = a.milestones[k]
  BY <1>4
<1> HIDE DEF ms2
<1>9. /\ DOMAIN a2 = RowFields /\ a2.milestones = ms2 /\ a2.status = a.status
      /\ a2.released = a.released /\ a2.escrow = a.escrow /\ a2.feeBps = a.feeBps
      /\ a2.shares = a.shares /\ a2.provider = a.provider
  BY <1>5 DEF RowFields
<1> HIDE DEF a2
<1>10. \A k \in DOMAIN a.milestones : /\ DOMAIN ms2[k] = MilestoneFields
                                      /\ ms2[k].amount = a.milestones[k].amount
  BY <1>7, <1>8 DEF AgreementRow
<1>11. AgreementRow(a2)
  BY <1>8, <1>9, <1>10 DEF AgreementRow
<1>12. SameTerms(a, a2)
  BY <1>8, <1>9, <1>10 DEF SameTerms
<1> QED
  BY <1>6, <1>7, <1>8, <1>9, <1>11, <1>12

LEMMA ExecuteKeepsMoney ==
    ASSUME EscrowInv, AccountInv, NEW i, Execute(i)
    PROVE  AccountInv'
<1> DEFINE amount == agreement.milestones[i].amount
           shares == EffectiveSettlementAllocations(agreement.provider, agreement.shares)
           payouts == DistributeAmount(amount, shares)
           c == [agreement EXCEPT !.milestones[i].status = "Completed",
                                  !.milestones[i].result = TRUE]
           b == Closing(RecordEscrowRelease(c, amount))
           e2 == [r \in Address |-> earned[r] + PayoutAmountForRecipient(payouts, shares, r)]
<1>1. /\ agreement.status = "Active" /\ agreement.status \in AgreementStatus
      /\ job' = job /\ i \in DOMAIN agreement.milestones
      /\ agreement.milestones[i].status = "Pending"
  BY DEF Execute, AgreementStatus
<1>2. agreement' = b /\ pot' = pot - TotalOf(payouts) /\ earned' = e2
  BY Zenon DEF Execute
<1>3. AgreementRow(agreement)
  BY <1>1, RowThere
<1>4. /\ Terms(agreement) /\ Balance(agreement, pot)
      /\ earned \in [Address -> Nat] /\ Earnings(agreement, earned)
  BY <1>1, DealThere
<1>5. /\ AgreementRow(c) /\ SameTerms(agreement, c) /\ c.released = agreement.released
      /\ c.milestones[i].status = "Completed"
      /\ \A k \in DOMAIN agreement.milestones :
            k # i => c.milestones[k].status = agreement.milestones[k].status
  <2>1. c = WithMilestoneDone(agreement, i)
    BY Zenon DEF WithMilestoneDone
  <2> HIDE DEF c
  <2> QED
    BY <1>1, <1>3, <2>1, MilestoneDone
<1> HIDE DEF c
<1>6. TotalOf(payouts) = amount
  <2>1. shares \in Seq(Share) /\ SharesAreComplete(shares) /\ amount \in Nat
    BY <1>1, <1>4, Zenon DEF Terms
  <2> HIDE DEF shares, amount
  <2> QED
    BY <2>1, Distribution, Zenon
<1>7. /\ SameTerms(agreement, b) /\ b.milestones = c.milestones
      /\ b.status \in {"Active", "Completed"} /\ Balance(b, pot - amount)
  <2>1. agreement.status \in LiveStatus /\ agreement.milestones[i].status \in OpenMilestone
        /\ c.milestones[i].status \notin OpenMilestone
    BY <1>1, <1>5 DEF LiveStatus, OpenMilestone
  <2> HIDE DEF b
  <2> QED
    BY <1>1, <1>4, <1>5, <2>1, MilestoneReleased DEF b
<1>8. e2 \in [Address -> Nat] /\ Earnings(b, e2)
  <2>1. /\ agreement.milestones[i].status # "Completed" /\ b.milestones[i].status = "Completed"
        /\ \A k \in DOMAIN agreement.milestones :
              k # i => b.milestones[k].status = agreement.milestones[k].status
    BY <1>1, <1>5, <1>7
  <2> HIDE DEF b, e2, shares, payouts
  <2> QED
    BY <1>1, <1>4, <1>7, <2>1, EarningsGrow DEF e2, shares, payouts
<1> HIDE DEF b, e2, amount, payouts
<1>9. b.status \in AgreementStatus /\ b # NoRow
  BY <1>7 DEF AgreementStatus, NoRow
<1>10. MoneyInv'
  BY <1>1, <1>2, <1>6, <1>7, <1>9, MoneyStep
<1>11. EarningsInv'
  BY <1>2, <1>8, <1>9 DEF EarningsInv
<1> QED
  BY <1>10, <1>11 DEF AccountInv

-----------------------------------------------------------------------------
(* Rulings. *)

\* The fee and the payouts of a ruling are the disputed amount.
LEMMA RulingPaysAmount ==
    ASSUME NEW amount \in Nat, NEW bps \in 0..BasisPoints,
           NEW payouts \in Seq(Share), SharesAreComplete(payouts),
           NEW fee, fee = (amount * bps) \div BasisPoints, NEW p \in Int
    PROVE  p - fee - TotalOf(DistributeAmount(amount - fee, payouts)) = p - amount
<1>1. bps \in Nat /\ BasisPoints \in Nat /\ bps <= BasisPoints
  BY DEF BasisPoints
<1>2. amount * bps \in Nat /\ amount * bps <= amount * BasisPoints
  BY <1>1, ProductGrows
<1>3. fee \in Nat /\ fee * BasisPoints <= amount * bps
  BY <1>2, RoundedDown
<1>4. fee <= amount
  <2>1. PICK m \in Nat : m = amount * bps
    BY <1>2
  <2>2. fee * 10000 <= m /\ m <= amount * 10000
    BY <1>2, <1>3, <2>1 DEF BasisPoints
  <2> QED
    BY <1>3, <2>2
<1>5. amount - fee \in Nat
  BY <1>3, <1>4
<1>6. TotalOf(DistributeAmount(amount - fee, payouts)) = amount - fee
  BY <1>5, Distribution, Zenon
<1> QED
  BY <1>3, <1>5, <1>6

\* Moving a ruling to its milestone touches no money.
LEMMA StorageKeepsTerms ==
    ASSUME NEW a, AgreementRow(a), NEW n, n = NormalizeResolutionStorage(a)
    PROVE  /\ AgreementRow(n) /\ SameTerms(a, n) /\ n.released = a.released
           /\ \A i \in DOMAIN a.milestones : n.milestones[i].status = a.milestones[i].status
<1> DEFINE r0 == a.resolution
           i0 == a.resolution.scope
<1>1. /\ DOMAIN a = RowFields
      /\ \A i \in DOMAIN a.milestones : DOMAIN a.milestones[i] = MilestoneFields
  BY DEF AgreementRow
<1>2. CASE i0 \notin DOMAIN a.milestones
  <2>1. n = a
    BY <1>2, Zenon DEF NormalizeResolutionStorage
  <2> QED
    BY <2>1 DEF SameTerms
<1>3. CASE i0 \in DOMAIN a.milestones
  <2> DEFINE slot == IF a.milestones[i0].resolution = NoResolution THEN r0
                     ELSE a.milestones[i0].resolution
             m == [a.milestones[i0] EXCEPT !.resolution = slot]
             ms == [a.milestones EXCEPT ![i0] = m]
             a1 == [a EXCEPT !.resolution = NoResolution]
             b == [a1 EXCEPT !.milestones = ms]
  <2>1. n = [a EXCEPT !.resolution = NoResolution,
                      !.milestones[i0].resolution = IF @ = NoResolution THEN r0 ELSE @]
    BY <1>3, Zenon DEF NormalizeResolutionStorage
  <2>2. /\ DOMAIN a1 = RowFields /\ a1.milestones = a.milestones /\ a1.status = a.status
        /\ a1.released = a.released /\ a1.escrow = a.escrow /\ a1.feeBps = a.feeBps
        /\ a1.shares = a.shares /\ a1.provider = a.provider
    BY <1>1 DEF RowFields
  <2>3. n = b
    <3>1. n = [a1 EXCEPT !.milestones[i0].resolution = IF @ = NoResolution THEN r0 ELSE @]
      BY <2>1
    <3> HIDE DEF a1
    <3> QED
      BY <2>2, <3>1
  <2> HIDE DEF a1
  <2>4. /\ DOMAIN m = MilestoneFields /\ m.status = a.milestones[i0].status
        /\ m.amount = a.milestones[i0].amount
    <3> HIDE DEF slot
    <3> QED
      BY <1>1, <1>3 DEF MilestoneFields
  <2> HIDE DEF m
  <2>5. /\ DOMAIN ms = DOMAIN a.milestones /\ ms[i0] = m
        /\ \A i \in DOMAIN a.milestones : i # i0 => ms[i] = a.milestones[i]
    BY <1>3
  <2> HIDE DEF ms
  <2>6. /\ DOMAIN b = RowFields /\ b.milestones = ms /\ b.status = a.status
        /\ b.released = a.released /\ b.escrow = a.escrow /\ b.feeBps = a.feeBps
        /\ b.shares = a.shares /\ b.provider = a.provider
    BY <2>2 DEF RowFields
  <2> HIDE DEF b
  <2>7. \A i \in DOMAIN a.milestones : /\ DOMAIN ms[i] = MilestoneFields
                                       /\ ms[i].status = a.milestones[i].status
                                       /\ ms[i].amount = a.milestones[i].amount
    BY <1>1, <2>4, <2>5
  <2>8. AgreementRow(b)
    BY <2>5, <2>6, <2>7 DEF AgreementRow
  <2>9. SameTerms(a, b)
    BY <2>5, <2>6, <2>7 DEF SameTerms
  <2> QED
    BY <2>3, <2>5, <2>6, <2>7, <2>8, <2>9
<1> QED
  BY <1>2, <1>3

\* The row of a dispute that is over.
LEMMA ClearedKeepsTerms ==
    ASSUME NEW a, AgreementRow(a), NEW c, c = ClearDisputeState(a)
    PROVE  /\ AgreementRow(c) /\ SameTerms(a, c) /\ c.released = a.released
           /\ c.milestones = a.milestones
<1> DEFINE x == [a EXCEPT !.disputed = Whole, !.deadline = None, !.prior = {}]
<1>1. DOMAIN a = RowFields
  BY DEF AgreementRow
<1>2. /\ DOMAIN x = RowFields /\ x.status = a.status /\ x.milestones = a.milestones
      /\ x.released = a.released /\ SameTerms(a, x)
  BY <1>1 DEF RowFields, SameTerms
<1>3. c = x
  BY DEF ClearDisputeState
<1> HIDE DEF x
<1>4. AgreementRow(x)
  BY <1>2 DEF AgreementRow
<1> QED
  BY <1>2, <1>3, <1>4

LEMMA WholeRulingReleases ==
    ASSUME NEW a, AgreementRow(a), NEW r, r.scope = Whole, NEW b, b = Ruled(a, r)
    PROVE  /\ SameTerms(a, b) /\ SameDone(a, b)
           /\ b.status = "Resolved" /\ b.released = a.escrow
<1> DEFINE n == NormalizeResolutionStorage(a)
           w == [n EXCEPT !.resolution = r]
           e == [w EXCEPT !.status = "Resolved", !.deposit = 0]
           f == [e EXCEPT !.released = e.escrow]
<1>1. /\ AgreementRow(n) /\ SameTerms(a, n)
      /\ \A i \in DOMAIN a.milestones : n.milestones[i].status = a.milestones[i].status
  <2> HIDE DEF n
  <2> QED
    BY StorageKeepsTerms DEF n
<1>2. b = f
  BY Zenon DEF Ruled, RecordWholeAgreementResolution, ReleaseRemainingEscrow
<1> HIDE DEF n
<1>3. DOMAIN n = RowFields
  BY <1>1 DEF AgreementRow
<1>4. /\ DOMAIN w = RowFields /\ w.milestones = n.milestones /\ w.escrow = n.escrow
      /\ w.feeBps = n.feeBps /\ w.shares = n.shares /\ w.provider = n.provider
  BY <1>3 DEF RowFields
<1> HIDE DEF w
<1>5. /\ DOMAIN e = RowFields /\ e.milestones = n.milestones /\ e.escrow = n.escrow
      /\ e.feeBps = n.feeBps /\ e.shares = n.shares /\ e.provider = n.provider
      /\ e.status = "Resolved"
  BY <1>4 DEF RowFields
<1> HIDE DEF e
<1>6. /\ f.milestones = n.milestones /\ f.escrow = n.escrow
      /\ f.feeBps = n.feeBps /\ f.shares = n.shares /\ f.provider = n.provider
      /\ f.status = "Resolved" /\ f.released = n.escrow
  BY <1>5 DEF RowFields
<1> HIDE DEF f
<1>7. SameTerms(a, f) /\ SameDone(a, f) /\ f.released = a.escrow
  BY <1>1, <1>6 DEF SameTerms, SameDone
<1> QED
  BY <1>2, <1>6, <1>7

\* Before its release a ruling on a milestone closes that milestone only.
LEMMA MilestoneRulingCloses ==
    ASSUME NEW a, AgreementRow(a), NEW r, r.scope \in DOMAIN a.milestones,
           NEW b, b = Ruled(a, r)
    PROVE  \E c : /\ AgreementRow(c) /\ SameTerms(a, c) /\ c.released = a.released
                  /\ c.milestones[r.scope].status = "Resolved"
                  /\ \A k \in DOMAIN a.milestones :
                        k # r.scope => c.milestones[k].status = a.milestones[k].status
                  /\ b = Closing(RecordEscrowRelease(c, a.milestones[r.scope].amount))
<1> DEFINE i == r.scope
           n == NormalizeResolutionStorage(a)
           recorded == IF legacy THEN RecordLegacyResolution(a, r)
                       ELSE RecordMilestoneResolution(a, i, r)
           ruled == [recorded EXCEPT !.milestones[i].status = "Resolved"]
<1>1. i # Whole /\ DOMAIN a = RowFields
  BY DEF AgreementRow, Whole
<1>2. b = Closing(RecordEscrowRelease(ruled, a.milestones[i].amount))
  BY <1>1, Zenon DEF Ruled
<1>3. /\ AgreementRow(n) /\ SameTerms(a, n) /\ n.released = a.released
      /\ \A k \in DOMAIN a.milestones : n.milestones[k].status = a.milestones[k].status
  <2> HIDE DEF n
  <2> QED
    BY StorageKeepsTerms DEF n
<1>4. /\ AgreementRow(recorded) /\ SameTerms(a, recorded) /\ recorded.released = a.released
      /\ \A k \in DOMAIN a.milestones : recorded.milestones[k].status = a.milestones[k].status
  <2>1. CASE legacy
    <3> DEFINE x == [a EXCEPT !.resolution = r]
    <3>1. recorded = x
      BY <2>1, Zenon DEF RecordLegacyResolution
    <3>2. /\ DOMAIN x = RowFields /\ x.status = a.status /\ x.milestones = a.milestones
          /\ x.released = a.released /\ SameTerms(a, x)
      BY <1>1 DEF RowFields, SameTerms
    <3> HIDE DEF x, recorded
    <3>3. AgreementRow(x)
      BY <3>2 DEF AgreementRow
    <3> QED
      BY <3>1, <3>2, <3>3
  <2>2. CASE ~legacy
    <3> DEFINE m == [n.milestones[i] EXCEPT !.resolution = r]
               ms == [n.milestones EXCEPT ![i] = m]
               n1 == [n EXCEPT !.milestones = ms]
               n2 == [n1 EXCEPT !.resolution = NoResolution]
    <3>1. recorded = [n EXCEPT !.milestones[i].resolution = r, !.resolution = NoResolution]
      BY <2>2, Zenon DEF RecordMilestoneResolution
    <3>2. recorded = n2
      <4> HIDE DEF n, recorded
      <4> QED
        BY <3>1
    <3> HIDE DEF recorded, n
    <3>3. DOMAIN n = RowFields /\ i \in DOMAIN n.milestones
          /\ \A k \in DOMAIN n.milestones : DOMAIN n.milestones[k] = MilestoneFields
      BY <1>3 DEF AgreementRow, SameTerms
    <3>4. /\ DOMAIN m = MilestoneFields /\ m.status = n.milestones[i].status
          /\ m.amount = n.milestones[i].amount
      BY <3>3 DEF MilestoneFields
    <3> HIDE DEF m
    <3>5. /\ DOMAIN ms = DOMAIN n.milestones /\ ms[i] = m
          /\ \A k \in DOMAIN n.milestones : k # i => ms[k] = n.milestones[k]
      BY <3>3
    <3> HIDE DEF ms
    <3>6. /\ DOMAIN n1 = RowFields /\ n1.milestones = ms /\ n1.status = n.status
          /\ n1.released = n.released /\ n1.escrow = n.escrow /\ n1.feeBps = n.feeBps
          /\ n1.shares = n.shares /\ n1.provider = n.provider
      BY <3>3 DEF RowFields
    <3> HIDE DEF n1
    <3>7. /\ DOMAIN n2 = RowFields /\ n2.milestones = ms /\ n2.status = n.status
          /\ n2.released = n.released /\ n2.escrow = n.escrow /\ n2.feeBps = n.feeBps
          /\ n2.shares = n.shares /\ n2.provider = n.provider
      BY <3>6 DEF RowFields
    <3> HIDE DEF n2
    <3>8. \A k \in DOMAIN n.milestones : /\ DOMAIN ms[k] = MilestoneFields
                                         /\ ms[k].status = n.milestones[k].status
                                         /\ ms[k].amount = n.milestones[k].amount
      BY <3>3, <3>4, <3>5
    <3>9. AgreementRow(n2)
      BY <1>3, <3>5, <3>7, <3>8 DEF AgreementRow
    <3>10. SameTerms(a, n2)
      BY <1>3, <3>5, <3>7, <3>8 DEF SameTerms
    <3>11. \A k \in DOMAIN a.milestones : n2.milestones[k].status = a.milestones[k].status
      BY <1>3, <3>7, <3>8 DEF SameTerms
    <3> QED
      BY <1>3, <3>2, <3>7, <3>9, <3>10, <3>11
  <2> QED
    BY <2>1, <2>2
<1> DEFINE m2 == [recorded.milestones[i] EXCEPT !.status = "Resolved"]
           ms2 == [recorded.milestones EXCEPT ![i] = m2]
<1> HIDE DEF n, recorded
<1>5. DOMAIN recorded = RowFields /\ i \in DOMAIN recorded.milestones
      /\ \A k \in DOMAIN recorded.milestones : DOMAIN recorded.milestones[k] = MilestoneFields
  BY <1>4 DEF AgreementRow, SameTerms
<1>6. /\ DOMAIN m2 = MilestoneFields /\ m2.status = "Resolved"
      /\ m2.amount = recorded.milestones[i].amount
  BY <1>5 DEF MilestoneFields
<1>7. ruled = [recorded EXCEPT !.milestones = ms2]
  OBVIOUS
<1> HIDE DEF m2, ruled
<1>8. /\ DOMAIN ms2 = DOMAIN recorded.milestones /\ ms2[i] = m2
      /\ \A k \in DOMAIN recorded.milestones : k # i => ms2[k] = recorded.milestones[k]
  BY <1>5
<1> HIDE DEF ms2
<1>9. /\ DOMAIN ruled = RowFields /\ ruled.milestones = ms2 /\ ruled.status = recorded.status
      /\ ruled.released = recorded.released /\ ruled.escrow = recorded.escrow
      /\ ruled.feeBps = recorded.feeBps /\ ruled.shares = recorded.shares
      /\ ruled.provider = recorded.provider
  BY <1>5, <1>7 DEF RowFields
<1>10. \A k \in DOMAIN recorded.milestones :
          /\ DOMAIN ms2[k] = MilestoneFields
          /\ ms2[k].amount = recorded.milestones[k].amount
  BY <1>5, <1>6, <1>8
<1>11. AgreementRow(ruled)
  BY <1>4, <1>8, <1>9, <1>10 DEF AgreementRow
<1>12. SameTerms(a, ruled)
  BY <1>4, <1>8, <1>9, <1>10 DEF SameTerms
<1>13. /\ ruled.milestones[i].status = "Resolved"
       /\ \A k \in DOMAIN a.milestones :
             k # i => ruled.milestones[k].status = a.milestones[k].status
  BY <1>4, <1>6, <1>8, <1>9 DEF SameTerms
<1> QED
  BY <1>2, <1>4, <1>9, <1>11, <1>12, <1>13

LEMMA ResolveKeepsMoney ==
    ASSUME EscrowInv, AccountInv, NEW payouts \in Verdicts, NEW effects,
           Resolve(payouts, effects)
    PROVE  AccountInv'
<1> DEFINE scope == agreement.disputed
           r == NewDisputeResolution(payouts, effects, scope)
           amount == IF scope = Whole THEN EscrowRemaining(agreement)
                     ELSE agreement.milestones[scope].amount
           fee == (amount * agreement.feeBps) \div BasisPoints
           cleared == ClearDisputeState(agreement)
           b == Ruled(cleared, r)
<1>1. /\ agreement.status = "Disputed" /\ agreement.status \in AgreementStatus
      /\ agreement.status \in LiveStatus
      /\ SharesAreComplete(payouts) /\ UNCHANGED <<job, earned>>
  BY DEF Resolve, AgreementStatus, LiveStatus
<1>2. /\ agreement' = b
      /\ pot' = pot - fee - TotalOf(DistributeAmount(amount - fee, payouts))
  BY Zenon DEF Resolve
<1>3. AgreementRow(agreement) /\ DisputeMarked(agreement)
  BY <1>1, RowThere DEF AgreementOK
<1>4. Terms(agreement) /\ Balance(agreement, pot)
  BY <1>1, DealThere
<1>5. pot \in Nat /\ EscrowRemaining(agreement) = pot
  BY <1>1, <1>4, RemainingIsOpen
<1>6. scope # Whole =>
        /\ scope \in DOMAIN agreement.milestones
        /\ agreement.milestones[scope].status = "Disputed"
  BY <1>1, <1>3 DEF DisputeMarked
<1>7. amount \in Nat
  BY <1>4, <1>5, <1>6 DEF Terms
<1>8. pot' = pot - amount
  <2>1. payouts \in Seq(Share) /\ agreement.feeBps \in 0..BasisPoints /\ pot \in Int
    BY <1>4, <1>5, EscrowAssumption DEF Terms
  <2> HIDE DEF amount, fee
  <2> QED
    BY <1>1, <1>2, <1>7, <2>1, RulingPaysAmount DEF fee
<1>9. r.scope = scope
  BY DEF NewDisputeResolution
<1>10. /\ AgreementRow(cleared) /\ SameTerms(agreement, cleared)
       /\ cleared.released = agreement.released /\ cleared.milestones = agreement.milestones
  <2> HIDE DEF cleared
  <2> QED
    BY <1>3, ClearedKeepsTerms DEF cleared
<1> HIDE DEF r, cleared
<1>11. CASE scope = Whole
  <2>1. /\ SameTerms(cleared, b) /\ SameDone(cleared, b)
        /\ b.status = "Resolved" /\ b.released = cleared.escrow
    <3> HIDE DEF b
    <3> QED
      BY <1>9, <1>10, <1>11, WholeRulingReleases DEF b
  <2> HIDE DEF b
  <2>2. SameTerms(agreement, b) /\ SameDone(agreement, b)
    BY <1>10, <2>1 DEF SameTerms, SameDone
  <2>3. pot' = 0
    BY <1>5, <1>8, <1>11
  <2>4. Balance(b, 0)
    <3>1. b.released = b.escrow /\ b.released \in Nat
      BY <1>4, <1>10, <2>1, <2>2 DEF SameTerms, Terms
    <3> QED
      BY <2>1, <3>1 DEF Balance, LiveStatus
  <2>5. b.status \in AgreementStatus
    BY <2>1 DEF AgreementStatus
  <2>6. MoneyInv'
    BY <1>1, <1>2, <2>2, <2>3, <2>4, <2>5, MoneyStep
  <2>7. EarningsInv'
    BY <1>1, <1>2, <2>2, <2>5, NothingEarned
  <2> QED
    BY <2>6, <2>7 DEF AccountInv
<1>12. CASE scope # Whole
  <2>1. r.scope \in DOMAIN cleared.milestones
    BY <1>6, <1>9, <1>10, <1>12
  <2>2. PICK c : /\ AgreementRow(c) /\ SameTerms(cleared, c) /\ c.released = cleared.released
                 /\ c.milestones[scope].status = "Resolved"
                 /\ \A k \in DOMAIN cleared.milestones :
                       k # scope => c.milestones[k].status = cleared.milestones[k].status
                 /\ b = Closing(RecordEscrowRelease(c, cleared.milestones[scope].amount))
    <3> HIDE DEF b
    <3> QED
      BY <1>9, <1>10, <2>1, MilestoneRulingCloses DEF b
  <2> HIDE DEF b
  <2>3. /\ SameTerms(agreement, c) /\ c.released = agreement.released
        /\ \A k \in DOMAIN agreement.milestones :
              k # scope => c.milestones[k].status = agreement.milestones[k].status
        /\ b = Closing(RecordEscrowRelease(c, agreement.milestones[scope].amount))
    BY <1>10, <2>2 DEF SameTerms
  <2>4. /\ agreement.milestones[scope].status \in OpenMilestone
        /\ c.milestones[scope].status \notin OpenMilestone
    BY <1>6, <1>12, <2>2 DEF OpenMilestone
  <2>5. /\ SameTerms(agreement, b) /\ b.milestones = c.milestones
        /\ b.status \in {"Active", "Completed"}
        /\ Balance(b, pot - agreement.milestones[scope].amount)
    BY <1>1, <1>4, <1>6, <1>12, <2>2, <2>3, <2>4, MilestoneReleased
  <2>6. amount = agreement.milestones[scope].amount
    BY <1>12
  <2> HIDE DEF amount
  <2>7. Balance(b, pot')
    BY <1>8, <2>5, <2>6
  <2>8. SameDone(agreement, b)
    BY <1>6, <1>12, <2>2, <2>3, <2>5 DEF SameDone
  <2>9. b.status \in AgreementStatus
    BY <2>5 DEF AgreementStatus
  <2>10. MoneyInv'
    BY <1>1, <1>2, <2>5, <2>7, <2>9, MoneyStep
  <2>11. EarningsInv'
    BY <1>1, <1>2, <2>5, <2>8, <2>9, NothingEarned
  <2> QED
    BY <2>10, <2>11 DEF AccountInv
<1> QED
  BY <1>11, <1>12

-----------------------------------------------------------------------------
(* The money of a job. *)

LEMMA JobMoney ==
    ASSUME AccountInv, job.status \in ToolJobStatus
    PROVE  /\ agreement = NoRow /\ job \notin {NoRow, ClosedRow} /\ JobBalance(job, pot)
           /\ earned \in [Address -> Nat] /\ earned = [r \in Address |-> 0]
<1>1. job # NoRow /\ job # ClosedRow
  BY DEF NoRow, ClosedRow, ToolJobStatus
<1>2. agreement = NoRow /\ JobBalance(job, pot)
  BY <1>1 DEF AccountInv, MoneyInv
<1> QED
  BY <1>1, <1>2 DEF AccountInv, EarningsInv

LEMMA JobMoneyStep ==
    ASSUME agreement = NoRow, agreement' = agreement, earned' = earned,
           earned \in [Address -> Nat], earned = [r \in Address |-> 0],
           \/ job' = ClosedRow /\ pot' = 0
           \/ job'.status \in ToolJobStatus /\ JobBalance(job', pot')
    PROVE  AccountInv'
<1>1. EarningsInv'
  BY DEF EarningsInv
<1>2. MoneyInv'
  <2>1. CASE job' = ClosedRow /\ pot' = 0
    BY <2>1 DEF MoneyInv
  <2>2. CASE job'.status \in ToolJobStatus /\ JobBalance(job', pot')
    <3>1. job' # ClosedRow
      BY <2>2 DEF ClosedRow, ToolJobStatus
    <3> QED
      BY <2>2, <3>1 DEF MoneyInv
  <2> QED
    BY <2>1, <2>2
<1> QED
  BY <1>1, <1>2 DEF AccountInv

\* A step that pays nobody and completes no milestone.
LEMMA JobBalanceKept ==
    ASSUME NEW j, NEW k, NEW p, JobBalance(j, p), SamePlan(j, k)
    PROVE  JobBalance(k, p)
<1>1. AmountsIn(k.milestones, {"Completed"}) = AmountsIn(j.milestones, {"Completed"})
  BY DEF SamePlan, AmountsIn
<1>2. [i \in DOMAIN k.milestones |-> k.milestones[i].amount]
        = [i \in DOMAIN j.milestones |-> j.milestones[i].amount]
  BY DEF SamePlan
<1>3. k.escrow = j.escrow /\ (k.milestones # <<>> => j.milestones # <<>>)
  BY DEF SamePlan
<1> QED
  BY <1>1, <1>2, <1>3 DEF JobBalance

LEMMA JobNotPaid ==
    ASSUME AccountInv, job.status \in ToolJobStatus, job'.status \in ToolJobStatus,
           pot' = pot, agreement' = agreement, earned' = earned, SamePlan(job, job')
    PROVE  AccountInv'
<1>1. /\ agreement = NoRow /\ JobBalance(job, pot)
      /\ earned \in [Address -> Nat] /\ earned = [r \in Address |-> 0]
  BY JobMoney
<1>2. JobBalance(job', pot)
  BY <1>1, JobBalanceKept
<1>3. JobBalance(job', pot')
  BY <1>2
<1> QED
  BY <1>1, <1>3, JobMoneyStep

\* What a submission or a dispute writes into the current milestone leaves its amount.
LEMMA WrittenKeepsPlan ==
    ASSUME JobOK(job, vetted), NEW b, DOMAIN b = JobFields, b.milestones = job.milestones,
           b.escrow = job.escrow, NEW m, m.amount = CurrentMilestone.amount,
           m.status # "Completed"
    PROVE  /\ SamePlan(job, WithMilestone(b, m)) /\ WithMilestone(b, m).status = b.status
           /\ DOMAIN WithMilestone(b, m) = JobFields
<1>1. CASE job.milestones = <<>>
  <2>1. WithMilestone(b, m) = b
    BY <1>1, WrittenMilestone
  <2> QED
    BY <2>1 DEF SamePlan
<1>2. CASE job.milestones # <<>>
  <2>1. PICK i \in DOMAIN job.milestones :
           /\ CurrentMilestoneIndex(job) = i /\ Mirrors(job, job.milestones, i)
           /\ WithMilestone(b, m) = [b EXCEPT !.milestones[i] = m]
    BY <1>2, WrittenMilestone
  <2>2. m.amount = job.milestones[i].amount
    BY <2>1 DEF CurrentMilestone
  <2>3. job.milestones[i].status # "Completed"
    BY <2>1 DEF JobOK, JobRow, Mirrors, ToolJobStatus
  <2> DEFINE ms == [job.milestones EXCEPT ![i] = m]
             w == [b EXCEPT !.milestones = ms]
  <2>4. WithMilestone(b, m) = w
    BY <2>1
  <2>5. /\ DOMAIN ms = DOMAIN job.milestones /\ ms[i] = m
        /\ \A k \in DOMAIN job.milestones : k # i => ms[k] = job.milestones[k]
    BY <2>1
  <2> HIDE DEF ms
  <2>6. DOMAIN w = JobFields /\ w.milestones = ms /\ w.escrow = job.escrow /\ w.status = b.status
    BY DEF JobFields
  <2> HIDE DEF w
  <2>7. SamePlan(job, w)
    BY <1>2, <2>2, <2>3, <2>5, <2>6 DEF SamePlan
  <2> QED
    BY <2>4, <2>6, <2>7
<1> QED
  BY <1>1, <1>2

LEMMA SubmitResultKeepsMoney ==
    ASSUME EscrowInv, AccountInv, SubmitResult
    PROVE  AccountInv'
<1> DEFINE d == now + job.window
           s == [job EXCEPT !.status = "Submitted", !.result = TRUE, !.submittedAt = now,
                            !.challengeDeadline = d]
           m == Submitted(CurrentMilestone)
<1>1. /\ job.status \in ToolJobStatus /\ job' = WithMilestone(s, m)
      /\ pot' = pot /\ agreement' = agreement /\ earned' = earned
  BY DEF SubmitResult, agreementVars, ToolJobStatus, Submitted
<1>2. JobOK(job, vetted) /\ DOMAIN job = JobFields
  BY <1>1, JobThere
<1> HIDE DEF d
<1>3. /\ DOMAIN s = JobFields /\ s.status = "Submitted"
      /\ s.milestones = job.milestones /\ s.escrow = job.escrow
  BY <1>2 DEF JobFields
<1> HIDE DEF s
<1>4. CASE job.milestones = <<>>
  <2>1. WithMilestone(s, m) = s
    BY <1>2, <1>3, <1>4, WrittenMilestone
  <2>2. SamePlan(job, job') /\ job'.status \in ToolJobStatus
    BY <1>1, <1>3, <2>1 DEF SamePlan, ToolJobStatus
  <2> QED
    BY <1>1, <2>2, JobNotPaid
<1>5. CASE job.milestones # <<>>
  <2>1. CurrentMilestone \in ToolMilestoneRow
    <3>1. PICK i \in DOMAIN job.milestones : CurrentMilestoneIndex(job) = i
      BY <1>2, <1>3, <1>5, WrittenMilestone
    <3> QED
      BY <1>2, <3>1 DEF CurrentMilestone, JobOK, JobRow
  <2>2. m.amount = CurrentMilestone.amount /\ m.status = "Submitted"
    <3> HIDE DEF CurrentMilestone
    <3> QED
      BY <2>1 DEF Submitted, ToolMilestoneRow
  <2> HIDE DEF m
  <2>3. SamePlan(job, job') /\ job'.status \in ToolJobStatus
    BY <1>1, <1>2, <1>3, <2>2, WrittenKeepsPlan DEF ToolJobStatus
  <2> QED
    BY <1>1, <2>3, JobNotPaid
<1> QED
  BY <1>4, <1>5

LEMMA DisputeResultKeepsMoney ==
    ASSUME EscrowInv, AccountInv, NEW x, DisputeResult(x)
    PROVE  AccountInv'
<1> DEFINE d == now + Window
           s == [job EXCEPT !.status = "Disputed", !.disputedAt = now]
           m == Disputed(CurrentMilestone)
           w == WithMilestone(s, m)
           b == [w EXCEPT !.arbitrator = x, !.deadline = d]
<1>1. /\ job.status \in ToolJobStatus /\ job' = b
      /\ pot' = pot /\ agreement' = agreement /\ earned' = earned
  BY DEF DisputeResult, agreementVars, ToolJobStatus, Disputed
<1>2. JobOK(job, vetted) /\ DOMAIN job = JobFields
  BY <1>1, JobThere
<1> HIDE DEF d
<1>3. /\ DOMAIN s = JobFields /\ s.status = "Disputed"
      /\ s.milestones = job.milestones /\ s.escrow = job.escrow
  BY <1>2 DEF JobFields
<1> HIDE DEF s
<1>4. SamePlan(job, w) /\ w.status = "Disputed" /\ DOMAIN w = JobFields
  <2>1. CASE job.milestones = <<>>
    <3>1. WithMilestone(s, m) = s
      BY <1>2, <1>3, <2>1, WrittenMilestone
    <3> QED
      BY <1>3, <3>1 DEF SamePlan
  <2>2. CASE job.milestones # <<>>
    <3>1. CurrentMilestone \in ToolMilestoneRow
      <4>1. PICK i \in DOMAIN job.milestones : CurrentMilestoneIndex(job) = i
        BY <1>2, <1>3, <2>2, WrittenMilestone
      <4> QED
        BY <1>2, <4>1 DEF CurrentMilestone, JobOK, JobRow
    <3>2. m.amount = CurrentMilestone.amount /\ m.status = "Disputed"
      <4> HIDE DEF CurrentMilestone
      <4> QED
        BY <3>1 DEF Disputed, ToolMilestoneRow
    <3> HIDE DEF m
    <3> QED
      BY <1>2, <1>3, <3>2, WrittenKeepsPlan
  <2> QED
    BY <2>1, <2>2
<1> HIDE DEF w
<1>5. b.milestones = w.milestones /\ b.escrow = w.escrow /\ b.status = "Disputed"
  BY <1>4 DEF JobFields
<1> HIDE DEF b
<1>6. SamePlan(job, job') /\ job'.status \in ToolJobStatus
  BY <1>1, <1>4, <1>5 DEF SamePlan, ToolJobStatus
<1> QED
  BY <1>1, <1>6, JobNotPaid

LEMMA ReassignResultKeepsMoney ==
    ASSUME EscrowInv, AccountInv, NEW x, ReassignResult(x)
    PROVE  AccountInv'
<1> DEFINE d == now + Window
           q == job.prior \cup {job.arbitrator}
           b == [job EXCEPT !.prior = q, !.arbitrator = x, !.deadline = d]
<1>1. /\ job.status = "Disputed" /\ job.status \in ToolJobStatus /\ job' = b
      /\ pot' = pot /\ agreement' = agreement /\ earned' = earned
  BY DEF ReassignResult, agreementVars, ToolJobStatus
<1>2. DOMAIN job = JobFields
  BY <1>1, JobThere
<1> HIDE DEF d, q
<1>3. b.milestones = job.milestones /\ b.escrow = job.escrow /\ b.status = "Disputed"
  BY <1>1, <1>2 DEF JobFields
<1> HIDE DEF b
<1>4. SamePlan(job, job') /\ job'.status \in ToolJobStatus
  BY <1>1, <1>3 DEF SamePlan, ToolJobStatus
<1> QED
  BY <1>1, <1>4, JobNotPaid

\* A job without milestones has paid nothing.
LEMMA OneShot ==
    ASSUME NEW j, NEW p, JobBalance(j, p), j.milestones = <<>>
    PROVE  p = j.escrow
<1> DEFINE W == AmountsIn(j.milestones, {"Completed"})
<1>1. W \in [1..0 -> Nat] /\ \A i \in 1..0 : W[i] = 0
  BY DEF AmountsIn
<1>2. TotalOf(W) = 0
  <2> HIDE DEF W
  <2> QED
    BY <1>1, NothingToSum
<1>3. j.escrow \in Nat /\ p = j.escrow - TotalOf(W)
  BY DEF JobBalance
<1> HIDE DEF W
<1> QED
  BY <1>2, <1>3

\* The amounts of a plan and of its milestones that are completed, as lists.
LEMMA PlanAmounts ==
    ASSUME NEW j, JobRow(j)
    PROVE  LET n == Len(j.milestones)
               all == [i \in DOMAIN j.milestones |-> j.milestones[i].amount]
               done == AmountsIn(j.milestones, {"Completed"})
           IN  /\ n \in Nat /\ DOMAIN j.milestones = 1..n
               /\ all \in [1..n -> Nat] /\ done \in [1..n -> Nat]
               /\ \A i \in 1..n : /\ j.milestones[i].amount \in Nat
                                  /\ all[i] = j.milestones[i].amount
                                  /\ done[i] = IF j.milestones[i].status = "Completed"
                                               THEN j.milestones[i].amount ELSE 0
               /\ TotalOf(all) \in Nat /\ TotalOf(done) \in Nat
<1> DEFINE n == Len(j.milestones)
           all == [i \in DOMAIN j.milestones |-> j.milestones[i].amount]
           done == AmountsIn(j.milestones, {"Completed"})
<1>1. n \in Nat /\ DOMAIN j.milestones = 1..n
      /\ \A i \in 1..n : j.milestones[i] \in ToolMilestoneRow
  BY DEF JobRow
<1> HIDE DEF n
<1>2. \A i \in 1..n : j.milestones[i].amount \in Nat
  BY <1>1 DEF ToolMilestoneRow
<1>3. all \in [1..n -> Nat] /\ \A i \in 1..n : all[i] = j.milestones[i].amount
  BY <1>1, <1>2
<1>4. /\ done \in [1..n -> Nat]
      /\ \A i \in 1..n : done[i] = IF j.milestones[i].status = "Completed"
                                   THEN j.milestones[i].amount ELSE 0
  BY <1>1, <1>2 DEF AmountsIn
<1> HIDE DEF all, done
<1>5. TotalOf(all) \in Nat /\ TotalOf(done) \in Nat
  BY <1>1, <1>3, <1>4, SubtotalSteps
<1> QED
  BY <1>1, <1>2, <1>3, <1>4, <1>5, Zenon DEF n, all, done

\* The last milestone takes what is left of the price.
LEMMA LastMilestonePaid ==
    ASSUME NEW j, NEW p, JobRow(j), JobBalance(j, p), NEW i, Mirrors(j, j.milestones, i),
           i = Len(j.milestones)
    PROVE  p - j.milestones[i].amount = 0
<1> DEFINE n == Len(j.milestones)
           all == [k \in DOMAIN j.milestones |-> j.milestones[k].amount]
           done == AmountsIn(j.milestones, {"Completed"})
<1>1. /\ n \in Nat /\ DOMAIN j.milestones = 1..n
      /\ all \in [1..n -> Nat] /\ done \in [1..n -> Nat]
      /\ \A k \in 1..n : /\ j.milestones[k].amount \in Nat
                         /\ all[k] = j.milestones[k].amount
                         /\ done[k] = IF j.milestones[k].status = "Completed"
                                      THEN j.milestones[k].amount ELSE 0
      /\ TotalOf(all) \in Nat /\ TotalOf(done) \in Nat
  BY PlanAmounts, Zenon
<1>2. j.escrow \in Nat /\ p = j.escrow - TotalOf(done)
  BY DEF JobBalance
<1>3. i \in DOMAIN j.milestones /\ j.milestones[i].status # "Completed"
      /\ \A k \in 1..(i - 1) : j.milestones[k].status = "Completed"
  BY DEF Mirrors, JobRow, ToolJobStatus
<1>4. TotalOf(all) = j.escrow
  BY <1>3 DEF JobBalance
<1>5. i = n
  OBVIOUS
<1> HIDE DEF n, all, done
<1>6. i \in 1..n /\ \A k \in 1..n : k # i => k \in 1..(i - 1)
  BY <1>1, <1>3, <1>5
<1>7. /\ done[i] = 0 /\ all[i] = j.milestones[i].amount
      /\ \A k \in 1..n : k # i => done[k] = all[k]
  BY <1>1, <1>3, <1>6
<1>8. TotalOf(done) + all[i] = TotalOf(all) + done[i]
  <2>1. n \in Nat /\ all \in [1..n -> Nat] /\ done \in [1..n -> Nat] /\ i \in 1..n
    BY <1>1, <1>6
  <2>2. \A k \in 1..n : k # i => done[k] = all[k]
    BY <1>7
  <2> QED
    BY <2>1, <2>2, OneAmountChanged, Zenon
<1>9. PICK x, y, z \in Nat : x = TotalOf(done) /\ y = TotalOf(all) /\ z = j.milestones[i].amount
  BY <1>1, <1>6
<1>10. x + z = y + 0 /\ p = y - x
  BY <1>2, <1>4, <1>7, <1>8, <1>9
<1>11. p - z = 0
  BY <1>10
<1> QED
  BY <1>9, <1>11

\* One more milestone is paid.
LEMMA MilestonePaid ==
    ASSUME NEW j, NEW p, JobRow(j), JobBalance(j, p), NEW i \in DOMAIN j.milestones,
           j.milestones[i].status # "Completed",
           NEW o, JobRow(o), o.escrow = j.escrow, DOMAIN o.milestones = DOMAIN j.milestones,
           \A k \in DOMAIN j.milestones :
              /\ o.milestones[k].amount = j.milestones[k].amount
              /\ (o.milestones[k].status = "Completed")
                   <=> (k = i \/ j.milestones[k].status = "Completed")
    PROVE  JobBalance(o, p - j.milestones[i].amount)
<1> DEFINE n == Len(j.milestones)
           all(x) == [k \in DOMAIN x.milestones |-> x.milestones[k].amount]
           done(x) == AmountsIn(x.milestones, {"Completed"})
<1>1. /\ n \in Nat /\ DOMAIN j.milestones = 1..n /\ done(j) \in [1..n -> Nat]
      /\ \A k \in 1..n : /\ j.milestones[k].amount \in Nat
                         /\ done(j)[k] = IF j.milestones[k].status = "Completed"
                                         THEN j.milestones[k].amount ELSE 0
      /\ TotalOf(done(j)) \in Nat
  BY PlanAmounts, Zenon
<1>2. \A k \in 1..n : done(o)[k] = IF o.milestones[k].status = "Completed"
                                   THEN o.milestones[k].amount ELSE 0
  BY <1>1 DEF AmountsIn
<1>3. done(o) \in [1..n -> Nat]
  BY <1>1 DEF AmountsIn
<1>4. all(o) = all(j)
  OBVIOUS
<1>5. j.escrow \in Nat /\ p = j.escrow - TotalOf(done(j)) /\ TotalOf(all(j)) = j.escrow
  BY DEF JobBalance
<1> HIDE DEF n, all, done
<1>6. /\ i \in 1..n /\ done(j)[i] = 0 /\ done(o)[i] = j.milestones[i].amount
      /\ \A k \in 1..n : k # i => done(o)[k] = done(j)[k]
  BY <1>1, <1>2
<1>7. TotalOf(done(o)) + done(j)[i] = TotalOf(done(j)) + done(o)[i]
  BY <1>1, <1>3, <1>6, OneAmountChanged
<1>8. TotalOf(done(o)) \in Nat
  BY <1>1, <1>3, SubtotalSteps
<1>9. PICK x, y, z, e \in Nat : /\ x = TotalOf(done(j)) /\ y = TotalOf(done(o))
                                /\ z = j.milestones[i].amount /\ e = j.escrow
  BY <1>1, <1>5, <1>6, <1>8
<1>10. y + 0 = x + z /\ p = e - x
  BY <1>5, <1>6, <1>7, <1>9
<1>11. p - z = e - y
  BY <1>10
<1>12. p - j.milestones[i].amount = o.escrow - TotalOf(done(o))
  BY <1>9, <1>11
<1> QED
  BY <1>4, <1>5, <1>12 DEF JobBalance, all, done

LEMMA PayProviderKeepsMoney ==
    ASSUME EscrowInv, AccountInv, job.status \in ToolJobStatus,
           agreement' = agreement, earned' = earned, NEW by, NEW links, PayProvider(by, links)
    PROVE  AccountInv'
<1> DEFINE i == CurrentMilestoneIndex(job)
           amount == IF i = 0 THEN job.escrow ELSE job.milestones[i].amount
           j == [job EXCEPT !.milestones[i].status = "Completed"]
           o == OpenCurrentMilestone(j, now)
<1>1. JobOK(job, vetted) /\ JobRow(job) /\ DOMAIN job = JobFields /\ now \in Nat
  BY JobThere DEF EscrowInv
<1>2. /\ pot' = pot - amount
      /\ IF i = 0 \/ i = Len(job.milestones) THEN job' = ClosedRow ELSE job' = o
  BY Zenon DEF PayProvider
<1>3. /\ agreement = NoRow /\ JobBalance(job, pot)
      /\ earned \in [Address -> Nat] /\ earned = [r \in Address |-> 0]
  BY JobMoney
<1>4. CASE job.milestones = <<>>
  <2>1. i = 0
    BY <1>4, NoCurrentIndex
  <2>2. pot = job.escrow /\ job.escrow \in Nat
    <3>1. pot = job.escrow
      BY <1>3, <1>4, OneShot
    <3> QED
      BY <1>3, <3>1 DEF JobBalance
  <2> HIDE DEF i
  <2>3. job' = ClosedRow /\ pot' = 0
    BY <1>2, <2>1, <2>2
  <2> QED
    BY <1>3, <2>3, JobMoneyStep
<1>5. CASE job.milestones # <<>>
  <2>1. PICK k \in DOMAIN job.milestones : Mirrors(job, job.milestones, k)
    BY <1>1, <1>5 DEF JobOK
  <2>2. i = k
    BY <1>1, <2>1, MirroredIsCurrent
  <2>3. i # 0 /\ amount = job.milestones[i].amount
    <3>1. k # 0
      BY <1>1, <2>1 DEF JobRow
    <3> HIDE DEF i
    <3> QED
      BY <2>2, <3>1
  <2>4. CASE i = Len(job.milestones)
    <3>1. job' = ClosedRow
      BY <1>2, <2>4, Zenon
    <3>2. pot - job.milestones[k].amount = 0
      <4>1. k = Len(job.milestones)
        BY <2>2, <2>4
      <4> QED
        BY <1>1, <1>3, <2>1, <4>1, LastMilestonePaid
    <3> HIDE DEF i, amount
    <3>3. pot' = 0
      BY <1>2, <2>2, <2>3, <3>2
    <3> QED
      BY <1>3, <3>1, <3>3, JobMoneyStep
  <2>5. CASE i # Len(job.milestones)
    <3>1. job' = o
      BY <1>2, <2>3, <2>5, Zenon
    <3>2. /\ JobOK(o, vetted) /\ o.escrow = job.escrow
          /\ i \in DOMAIN job.milestones /\ job.milestones[i].status # "Completed"
          /\ DOMAIN o.milestones = DOMAIN job.milestones
          /\ \A l \in DOMAIN job.milestones :
                /\ o.milestones[l].amount = job.milestones[l].amount
                /\ (o.milestones[l].status = "Completed")
                     <=> (l = i \/ job.milestones[l].status = "Completed")
      <4> HIDE DEF i
      <4> QED
        BY <1>1, <2>3, <2>5, NextMilestoneOpened, Zenon DEF i
    <3> HIDE DEF i, amount, o
    <3>3. JobRow(o) /\ o.status \in ToolJobStatus
      BY <3>2 DEF JobOK, JobRow
    <3>4. JobBalance(o, pot - job.milestones[i].amount)
      BY <1>1, <1>3, <3>2, <3>3, MilestonePaid
    <3>5. JobBalance(job', pot') /\ job'.status \in ToolJobStatus
      BY <1>2, <2>3, <3>1, <3>3, <3>4
    <3> QED
      BY <1>3, <3>5, JobMoneyStep
  <2> QED
    BY <2>4, <2>5
<1> QED
  BY <1>4, <1>5

\* What unpaid_amount_from adds up and what is completed make up the price.
LEMMA UnpaidIsRest ==
    ASSUME NEW j, NEW p, JobRow(j), JobBalance(j, p), NEW i, Mirrors(j, j.milestones, i)
    PROVE  p - UnpaidAmountFrom(j, i) = 0
<1> DEFINE n == Len(j.milestones)
           all == [k \in DOMAIN j.milestones |-> j.milestones[k].amount]
           done == AmountsIn(j.milestones, {"Completed"})
           rest == [k \in DOMAIN j.milestones |->
                       IF k >= i /\ j.milestones[k].status # "Completed"
                       THEN j.milestones[k].amount ELSE 0]
<1>1. /\ n \in Nat /\ DOMAIN j.milestones = 1..n
      /\ all \in [1..n -> Nat] /\ done \in [1..n -> Nat]
      /\ \A k \in 1..n : /\ j.milestones[k].amount \in Nat
                         /\ all[k] = j.milestones[k].amount
                         /\ done[k] = IF j.milestones[k].status = "Completed"
                                      THEN j.milestones[k].amount ELSE 0
      /\ TotalOf(all) \in Nat /\ TotalOf(done) \in Nat
  BY PlanAmounts, Zenon
<1>2. j.escrow \in Nat /\ p = j.escrow - TotalOf(done)
  BY DEF JobBalance
<1>3. i \in DOMAIN j.milestones /\ \A k \in 1..(i - 1) : j.milestones[k].status = "Completed"
  BY DEF Mirrors
<1>4. TotalOf(all) = j.escrow
  BY <1>3 DEF JobBalance
<1>5. UnpaidAmountFrom(j, i) = TotalOf(rest)
  BY Zenon DEF UnpaidAmountFrom
<1> HIDE DEF n, all, done
<1>6. \A k \in 1..n : rest[k] = IF k >= i /\ j.milestones[k].status # "Completed"
                                THEN j.milestones[k].amount ELSE 0
  BY <1>1
<1>7. rest \in [1..n -> Nat]
  BY <1>1
<1> HIDE DEF rest
<1>8. \A k \in 1..n : all[k] = done[k] + rest[k]
  <2> SUFFICES ASSUME NEW k \in 1..n
               PROVE  all[k] = done[k] + rest[k]
    OBVIOUS
  <2>1. CASE j.milestones[k].status = "Completed"
    <3>1. PICK x \in Nat : x = j.milestones[k].amount
      BY <1>1
    <3>2. all[k] = x /\ done[k] = x
      BY <1>1, <2>1, <3>1
    <3>3. rest[k] = 0
      BY <1>6, <2>1
    <3> QED
      BY <3>2, <3>3
  <2>2. CASE j.milestones[k].status # "Completed"
    <3>1. k >= i
      BY <1>1, <1>3, <2>2
    <3>2. PICK x \in Nat : x = j.milestones[k].amount
      BY <1>1
    <3>3. all[k] = x /\ done[k] = 0
      BY <1>1, <2>2, <3>2
    <3>4. rest[k] = x
      BY <1>6, <2>2, <3>1, <3>2
    <3> QED
      BY <3>3, <3>4
  <2> QED
    BY <2>1, <2>2
<1>9. TotalOf(all) = TotalOf(done) + TotalOf(rest)
  BY <1>1, <1>7, <1>8, SumsAdd
<1>10. TotalOf(rest) \in Nat
  BY <1>1, <1>7, SubtotalSteps
<1>11. PICK x, y, z \in Nat : x = TotalOf(done) /\ y = TotalOf(all) /\ z = TotalOf(rest)
  BY <1>1, <1>10
<1>12. p = y - x /\ y = x + z
  BY <1>2, <1>4, <1>9, <1>11
<1>13. p - z = 0
  BY <1>12
<1> QED
  BY <1>5, <1>11, <1>13

LEMMA RefundKeepsMoney ==
    ASSUME EscrowInv, AccountInv, job.status \in ToolJobStatus,
           agreement' = agreement, earned' = earned, NEW by, NEW links,
           RefundRequester(by, links)
    PROVE  AccountInv'
<1> DEFINE i == CurrentMilestoneIndex(job)
           amount == IF IsMilestoneJob(job) THEN UnpaidAmountFrom(job, i) ELSE job.escrow
<1>1. JobOK(job, vetted) /\ JobRow(job)
  BY JobThere
<1>2. pot' = pot - amount /\ job' = ClosedRow
  BY Zenon DEF RefundRequester
<1>3. /\ agreement = NoRow /\ JobBalance(job, pot)
      /\ earned \in [Address -> Nat] /\ earned = [r \in Address |-> 0]
  BY JobMoney
<1>4. pot - amount = 0
  <2>1. CASE job.milestones = <<>>
    <3>1. amount = job.escrow
      BY <2>1 DEF IsMilestoneJob
    <3>2. pot = job.escrow
      BY <1>3, <2>1, OneShot
    <3>3. job.escrow \in Nat
      BY <1>3 DEF JobBalance
    <3> HIDE DEF amount
    <3> QED
      BY <3>1, <3>2, <3>3
  <2>2. CASE job.milestones # <<>>
    <3>1. PICK k \in DOMAIN job.milestones : Mirrors(job, job.milestones, k)
      BY <1>1, <2>2 DEF JobOK
    <3>2. i = k
      BY <1>1, <3>1, MirroredIsCurrent
    <3>3. amount = UnpaidAmountFrom(job, i)
      BY <2>2 DEF IsMilestoneJob
    <3> HIDE DEF i, amount
    <3> QED
      BY <1>1, <1>3, <3>1, <3>2, <3>3, UnpaidIsRest
  <2> QED
    BY <2>1, <2>2
<1> HIDE DEF amount
<1>5. pot' = 0
  BY <1>2, <1>4
<1> QED
  BY <1>2, <1>3, <1>5, JobMoneyStep

\* The plan of a new job adds up to its price, and nothing of it is paid.
LEMMA InvokeKeepsMoney ==
    ASSUME EscrowInv, AccountInv, NEW requester \in Address, NEW provider \in Address,
           NEW plan \in Plans, Invoke(requester, provider, plan)
    PROVE  AccountInv'
<1> DEFINE ms == [i \in DOMAIN plan |-> ToolMilestone(plan[i])]
           j == NewToolJob(requester, provider, Price, plan, Sla, Window, FeeBps, now)
           n == Len(plan)
<1>1. /\ agreement = NoRow /\ job = NoRow /\ (plan # <<>> => TotalOf(plan) = Price)
      /\ ~SameEntity(requester, provider) /\ job' = OpenCurrentMilestone(j, now)
      /\ pot' = Price /\ agreement' = agreement /\ earned' = earned
      /\ vetted'.deal = entity
  BY DEF Invoke, Idle, DealVetted
<1>2. /\ now \in Nat /\ Sla \in Nat /\ Window \in Nat /\ Price \in Nat
      /\ plan \in Seq(Nat) /\ n \in Nat /\ DOMAIN plan = 1..n
  BY EscrowAssumption DEF EscrowInv
<1>3. DOMAIN ms = 1..n /\ \A i \in 1..n : ms[i] = ToolMilestone(plan[i]) /\ plan[i] \in Nat
  BY <1>2
<1> HIDE DEF ms, n
<1>4. \A i \in 1..n : /\ ms[i] \in ToolMilestoneRow /\ ms[i].amount = plan[i]
                      /\ ms[i].status = "Pending"
  <2> SUFFICES ASSUME NEW i \in 1..n
               PROVE  /\ ms[i] \in ToolMilestoneRow /\ ms[i].amount = plan[i]
                      /\ ms[i].status = "Pending"
    OBVIOUS
  <2>1. plan[i] \in Nat /\ ms[i] = ToolMilestone(plan[i])
    BY <1>3
  <2>2. LET t == ToolMilestone(plan[i])
        IN  t \in ToolMilestoneRow /\ t.amount = plan[i] /\ t.status = "Pending"
    BY <2>1, NewMilestone
  <2> QED
    BY <2>1, <2>2
<1>5. ms \in Seq(ToolMilestoneRow) /\ Len(ms) = n
  <2>1. ms \in [1..n -> ToolMilestoneRow]
    BY <1>3, <1>4 DEF ms
  <2> QED
    BY <1>2, <2>1, SeqDef
<1>6. /\ DOMAIN j = JobFields /\ j.milestones = ms /\ j.escrow = Price /\ j.status = "Open"
      /\ j.requester = requester /\ j.provider = provider /\ j.arbitrator = Absent
      /\ j.sla = Sla /\ j.window = Window
  <2>1. j = [requester |-> requester, provider |-> provider, arbitrator |-> Absent,
             escrow |-> Price, sla |-> Sla, window |-> Window, feeBps |-> FeeBps,
             status |-> "Open", submitDeadline |-> now + Sla, result |-> FALSE,
             submittedAt |-> Absent, challengeDeadline |-> Absent, disputedAt |-> Absent,
             deadline |-> Absent, prior |-> {}, milestones |-> ms]
    BY DEF NewToolJob, ms
  <2> HIDE DEF j
  <2> QED
    BY <2>1 DEF JobFields
<1> HIDE DEF j
<1>7. JobBalance(j, Price)
  <2> DEFINE W == AmountsIn(ms, {"Completed"})
             all == [i \in DOMAIN ms |-> ms[i].amount]
  <2>1. W \in [1..n -> Nat] /\ \A i \in 1..n : W[i] = 0
    BY <1>3, <1>4 DEF AmountsIn
  <2>2. TotalOf(W) = 0
    <3> HIDE DEF W
    <3> QED
      BY <1>2, <2>1, NothingToSum
  <2>3. all = plan
    <3>1. plan = [i \in 1..n |-> plan[i]]
      BY <1>2
    <3>2. all = [i \in 1..n |-> plan[i]]
      BY <1>3, <1>4
    <3> HIDE DEF all
    <3> QED
      BY <3>1, <3>2
  <2>4. ms # <<>> => plan # <<>>
    BY <1>5 DEF n
  <2> HIDE DEF W, all
  <2>5. Price = Price - TotalOf(W)
    BY <1>2, <2>2
  <2>6. ms # <<>> => TotalOf(all) = Price
    BY <1>1, <2>3, <2>4
  <2> QED
    BY <1>2, <1>6, <2>5, <2>6 DEF JobBalance, W, all
<1>8. SamePlan(j, job') /\ job'.status = "Open"
  <2>1. CASE plan = <<>>
    <3>1. ms = <<>>
      BY <1>5, <2>1 DEF n
    <3>2. CurrentMilestoneIndex(j) = 0
      BY <1>6, <3>1, NoCurrentIndex
    <3>3. job' = j
      BY <1>1, <3>2, Zenon DEF OpenCurrentMilestone
    <3> QED
      BY <1>6, <3>3 DEF SamePlan
  <2>2. CASE plan # <<>>
    <3>1. 1 \in DOMAIN ms /\ Len(ms) \in Nat
      BY <1>2, <1>3, <1>5, <2>2 DEF n
    <3>2. \A k \in 1..(1 - 1) : ms[k].status = "Completed"
      OBVIOUS
    <3>3. ms[1].status # "Completed"
      BY <1>3, <1>4, <3>1
    <3>4. \A k \in (1 + 1)..Len(ms) : ms[k] = ToolMilestone(ms[k].amount)
      BY <1>3, <1>4, <1>5, <3>1
    <3>5. JobIndependent(j, vetted')
      BY <1>1, <1>6 DEF JobIndependent, Outside, SameEntity, Absent, None
    <3> QED
      BY <1>1, <1>2, <1>5, <1>6, <3>1, <3>2, <3>3, <3>4, <3>5, MilestoneOpened
  <2> QED
    BY <2>1, <2>2
<1>9. JobBalance(job', pot')
  <2>1. JobBalance(job', Price)
    BY <1>7, <1>8, JobBalanceKept
  <2> QED
    BY <1>1, <2>1
<1>10. earned \in [Address -> Nat] /\ earned = [r \in Address |-> 0]
  BY <1>1 DEF AccountInv, EarningsInv
<1>11. job'.status \in ToolJobStatus
  BY <1>8 DEF ToolJobStatus
<1> QED
  BY <1>1, <1>9, <1>10, <1>11, JobMoneyStep

-----------------------------------------------------------------------------
(* The money in every step. *)

LEMMA AccountInvInit == Init => AccountInv
<1> SUFFICES ASSUME Init
             PROVE  AccountInv
  OBVIOUS
<1>1. agreement = NoRow /\ job = NoRow /\ earned = [r \in Address |-> 0]
  BY DEF Init
<1>2. NoRow # ClosedRow
  BY DEF NoRow, ClosedRow
<1>3. MoneyInv
  BY <1>1, <1>2 DEF MoneyInv
<1>4. EarningsInv
  BY <1>1 DEF EarningsInv
<1> QED
  BY <1>3, <1>4 DEF AccountInv

LEMMA AccountInvStep == EscrowInv /\ AccountInv /\ [Next]_vars => AccountInv'
<1> SUFFICES ASSUME EscrowInv, AccountInv, [Next]_vars
             PROVE  AccountInv'
  OBVIOUS
<1>1. CASE \E d \in Offers : Propose(d)
  BY <1>1, ProposeKeepsMoney
<1>2. CASE \E p \in Address : Accept(p)
  BY <1>2, AcceptKeepsMoney
<1>3. CASE Cancel
  BY <1>3, CancelKeepsMoney
<1>4. CASE \E i \in 1..MaxMilestones : Execute(i)
  BY <1>4, ExecuteKeepsMoney
<1>5. CASE \E scope \in 0..MaxMilestones, x \in Arbitrators : Dispute(scope, x)
  BY <1>5, DisputeKeepsMoney
<1>6. CASE \E x \in Arbitrators : Reassign(x)
  BY <1>6, ReassignKeepsMoney
<1>7. CASE \E v \in Verdicts, l \in EffectLists : Resolve(v, l)
  BY <1>7, ResolveKeepsMoney
<1>8. CASE ExpireAgreement
  BY <1>8, ExpireKeepsMoney
<1>9. CASE \E a, b \in Address, plan \in Plans : Invoke(a, b, plan)
  BY <1>9, InvokeKeepsMoney
<1>10. CASE SubmitResult
  BY <1>10, SubmitResultKeepsMoney
<1>11. CASE AcceptResult \/ AutoSettle \/ \E wins \in BOOLEAN : ResolveResult(wins)
  <2>1. job.status \in ToolJobStatus /\ agreement' = agreement /\ earned' = earned
    BY <1>11 DEF AcceptResult, AutoSettle, ResolveResult, agreementVars, ToolJobStatus
  <2>2. \/ PayProvider(job.requester, vetted.deal) \/ PayProvider(None, vetted.deal)
        \/ PayProvider(job.arbitrator, vetted.arbitrator)
        \/ RefundRequester(job.arbitrator, vetted.arbitrator)
    BY <1>11, Zenon DEF AcceptResult, AutoSettle, ResolveResult
  <2> QED
    BY <2>1, <2>2, PayProviderKeepsMoney, RefundKeepsMoney
<1>12. CASE \E x \in Arbitrators : DisputeResult(x)
  BY <1>12, DisputeResultKeepsMoney
<1>13. CASE \E x \in Arbitrators : ReassignResult(x)
  BY <1>13, ReassignResultKeepsMoney
<1>14. CASE ExpireJob
  <2>1. /\ job.status \in ToolJobStatus /\ agreement' = agreement /\ earned' = earned
        /\ RefundRequester(None, vetted.deal)
    BY <1>14 DEF ExpireJob, agreementVars, ToolJobStatus
  <2> QED
    BY <2>1, RefundKeepsMoney
<1>15. CASE \/ Tick \/ UNCHANGED vars
            \/ \E l \in Links : Link(l[1], l[2])
  <2>1. job' = job /\ pot' = pot /\ agreement' = agreement /\ earned' = earned
    BY <1>15 DEF Tick, Link, agreementVars, vars
  <2>2. MoneyInv' /\ EarningsInv'
    BY <2>1 DEF AccountInv, MoneyInv, EarningsInv
  <2> QED
    BY <2>2 DEF AccountInv
<1> QED
  BY <1>1, <1>2, <1>3, <1>4, <1>5, <1>6, <1>7, <1>8, <1>9, <1>10, <1>11, <1>12, <1>13,
     <1>14, <1>15 DEF Next

\* The inductive invariant of the money, on top of EscrowInv: what the rows say is
\* released, open or completed adds up to the escrow, the pot holds the rest, and what
\* the recipients earned adds up to what is completed.
THEOREM AccountInvHolds == Spec => []AccountInv
<1>1. Init => AccountInv
  BY AccountInvInit
<1>2. EscrowInv /\ AccountInv /\ [Next]_vars => AccountInv'
  BY AccountInvStep
<1> QED
  BY <1>1, <1>2, EscrowInvHolds, PTL DEF Spec

\* EscrowAccounted for every plan, price, fee and payout list: after any sequence of
\* releases, rulings and expiries the money held is what escrow_remaining and
\* unpaid_amount_from say is left, record_escrow_release never has to cap, and a deal
\* that is over holds nothing.
THEOREM EscrowIsAccounted == Spec => []EscrowAccounted
<1>1. EscrowInv /\ AccountInv => EscrowAccounted
  <2> SUFFICES ASSUME EscrowInv, AccountInv
               PROVE  EscrowAccounted
    OBVIOUS
  <2>1. ASSUME agreement.status \in {"Proposed", "Active", "Disputed"}
        PROVE  /\ pot = EscrowRemaining(agreement)
               /\ pot = TotalOf([i \in DOMAIN agreement.milestones |->
                            IF agreement.milestones[i].status \in {"Pending", "Disputed"}
                            THEN agreement.milestones[i].amount ELSE 0])
    <3>1. agreement.status \in LiveStatus /\ agreement.status \in AgreementStatus
      BY <2>1 DEF LiveStatus, AgreementStatus
    <3>2. Terms(agreement) /\ Balance(agreement, pot)
      BY <3>1, DealThere
    <3>3. EscrowRemaining(agreement) = pot
      BY <3>1, <3>2, RemainingIsOpen
    <3>4. pot = TotalOf(AmountsIn(agreement.milestones, OpenMilestone))
      BY <3>1, <3>2 DEF Balance
    <3>5. pot = TotalOf([i \in DOMAIN agreement.milestones |->
                            IF agreement.milestones[i].status \in {"Pending", "Disputed"}
                            THEN agreement.milestones[i].amount ELSE 0])
      BY <3>4, Zenon DEF AmountsIn, OpenMilestone
    <3> QED
      BY <3>3, <3>5
  <2>2. ASSUME agreement.status \in {"Completed", "Resolved"}
        PROVE  pot = 0 /\ EscrowRemaining(agreement) = 0
    <3>1. agreement.status \in AgreementStatus
      BY <2>2 DEF AgreementStatus
    <3>2. Terms(agreement) /\ Balance(agreement, pot)
      BY <3>1, DealThere
    <3>3. pot = 0 /\ agreement.released = agreement.escrow /\ agreement.escrow \in Nat
      BY <2>2, <3>2 DEF Balance, Terms
    <3>4. agreement.escrow - agreement.released = 0
      BY <3>3
    <3>5. Max({0, 0}) = 0
      <4>1. Max({0, 0}) = IF 0 <= 0 THEN 0 ELSE 0
        BY TwoNumbers
      <4> QED
        BY <4>1
    <3>6. EscrowRemaining(agreement) = 0
      BY <3>4, <3>5, Zenon DEF EscrowRemaining
    <3> QED
      BY <3>3, <3>6
  <2>3. ASSUME agreement.status \in {"Cancelled", "Expired"}
        PROVE  pot = 0
    <3>1. agreement.status \in AgreementStatus
      BY <2>3 DEF AgreementStatus
    <3> QED
      BY <2>3, <3>1, DealThere DEF Balance
  <2>4. ASSUME job.status \in ToolJobStatus
        PROVE  pot = job.escrow - CompletedMilestoneAmount(job)
    <3>1. JobBalance(job, pot)
      BY <2>4, JobMoney
    <3>2. AmountsIn(job.milestones, {"Completed"})
            = [i \in DOMAIN job.milestones |->
                 IF job.milestones[i].status = "Completed" THEN job.milestones[i].amount ELSE 0]
      BY DEF AmountsIn
    <3>3. CompletedMilestoneAmount(job) = TotalOf(AmountsIn(job.milestones, {"Completed"}))
      BY <3>2, Zenon DEF CompletedMilestoneAmount
    <3> QED
      BY <3>1, <3>3 DEF JobBalance
  <2>5. ASSUME job.status = "Closed"
        PROVE  pot = 0
    <3>1. job \in {NoRow, ClosedRow} \/ job.status \in ToolJobStatus
      BY DEF EscrowInv, JobOK, JobRow
    <3>2. job = ClosedRow
      BY <2>5, <3>1 DEF NoRow, ToolJobStatus
    <3> QED
      BY <3>2 DEF AccountInv, MoneyInv
  <2> QED
    BY <2>1, <2>2, <2>3, <2>4, <2>5 DEF EscrowAccounted
<1> QED
  BY <1>1, EscrowInvHolds, AccountInvHolds, PTL

\* CooperativeShares for every list of shares, milestones and amounts: over any number of
\* releases distribute_amount favours nobody but the last recipient, by at most one unit
\* per milestone and recipient, and pays out exactly what the milestones promised.
THEOREM SharesAreCooperative == Spec => []CooperativeShares
<1>1. AccountInv => CooperativeShares
  <2> SUFFICES ASSUME AccountInv, agreement # NoRow
               PROVE  Earnings(agreement, earned)
    BY Zenon DEF CooperativeShares, Earnings
  <2> QED
    BY DEF AccountInv, EarningsInv
<1> QED
  BY <1>1, AccountInvHolds, PTL

=============================================================================
