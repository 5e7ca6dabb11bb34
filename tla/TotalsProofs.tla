---------------------------- MODULE TotalsProofs ----------------------------
(* Facts about numbers that the proofs of several modules need: the first and *)
(* last element of a set, and what Total adds up to.  The induction over data *)
(* is by the least counterexample.                                            *)
EXTENDS Totals, FiniteSetsExt, WellFoundedInduction, NaturalsInduction, TLAPS

(* A set of times has a first and, below a bound, a last one.                  *)
LEMMA FirstTime ==
    ASSUME NEW S \in SUBSET Nat, S # {}
    PROVE  Min(S) \in S /\ \A t \in S : Min(S) <= t
<1> DEFINE Less == {p \in Nat \X Nat : p[1] < p[2]}
<1>1. IsWellFoundedOn(Less, Nat)
  BY NatLessThanWellFounded DEF OpToRel
<1>2. PICK x \in S : \A y \in S : ~(<<y, x>> \in Less)
  BY <1>1, WFMin
<1>3. ASSUME NEW y \in S, y < x PROVE FALSE
  <2>1. <<y, x>> \in Nat \X Nat /\ <<y, x>>[1] < <<y, x>>[2]
    BY <1>3
  <2> QED BY <2>1, <1>2
<1>4. \A y \in S : x <= y
  BY <1>3
<1> QED BY <1>4 DEF Min

LEMMA LastTime ==
    ASSUME NEW n \in Nat, NEW S \in SUBSET (1..n), S # {}
    PROVE  Max(S) \in S /\ \A t \in S : t <= Max(S)
<1> DEFINE R == {n - t : t \in S}
<1>1. R \in SUBSET Nat /\ R # {}
  <2>1. \A t \in S : n - t \in Nat
    OBVIOUS
  <2> QED BY <2>1
<1>2. Min(R) \in R /\ \A r \in R : Min(R) <= r
  BY <1>1, FirstTime
<1>3. PICK x \in S : Min(R) = n - x
  BY <1>2
<1>4. \A t \in S : t <= x
  BY <1>2, <1>3
<1> QED BY <1>4 DEF Max

-----------------------------------------------------------------------------
(* Total *)

IsSum(s, w, n) == s = [i \in 0..n |-> IF i = 0 THEN 0 ELSE s[i - 1] + w[i]]

(* The recursion has a solution, one only, and it is an integer.               *)
LEMMA SumExists ==
    ASSUME NEW w, NEW n \in Nat, \A i \in 1..n : w[i] \in Int
    PROVE  \E s \in [0..n -> Int] : IsSum(s, w, n)
<1> DEFINE Bad == {m \in 0..n : ~\E s \in [0..m -> Int] : IsSum(s, w, m)}
<1> SUFFICES ASSUME Bad # {} PROVE FALSE
  OBVIOUS
<1> DEFINE m == Min(Bad)
<1>1. m \in Bad /\ \A k \in Bad : m <= k
  <2>1. Bad \in SUBSET Nat
    OBVIOUS
  <2> QED BY <2>1, FirstTime
<1>2. CASE m = 0
  <2>1. IsSum([i \in 0..0 |-> 0], w, 0)
    BY DEF IsSum
  <2>2. [i \in 0..0 |-> 0] \in [0..0 -> Int]
    OBVIOUS
  <2> QED BY <1>1, <1>2, <2>1, <2>2
<1>3. CASE m # 0
  <2>1. m \in 1..n /\ m - 1 \in 0..n /\ ~(m <= m - 1)
    BY <1>1, <1>3
  <2>2. m - 1 \notin Bad
    BY <1>1, <2>1
  <2>3. PICK s \in [0..(m - 1) -> Int] : IsSum(s, w, m - 1)
    BY <2>1, <2>2
  <2> DEFINE r == [i \in 0..m |-> IF i = m THEN s[m - 1] + w[m] ELSE s[i]]
  <2> HIDE DEF m
  <2>4. r \in [0..m -> Int]
    BY <2>1, <2>3
  <2>5. IsSum(r, w, m)
    <3>1. r[m] = s[m - 1] + w[m] /\ \A i \in 0..(m - 1) : r[i] = s[i]
      BY <2>1
    <3>2. \A i \in 0..(m - 1) : s[i] = IF i = 0 THEN 0 ELSE s[i - 1] + w[i]
      BY <2>3 DEF IsSum
    <3>3. \A i \in 0..m : r[i] = IF i = 0 THEN 0 ELSE r[i - 1] + w[i]
      <4> SUFFICES ASSUME NEW i \in 0..m PROVE r[i] = IF i = 0 THEN 0 ELSE r[i - 1] + w[i]
        OBVIOUS
      <4>1. CASE i = m
        <5>1. r[i - 1] = s[m - 1] /\ i # 0
          BY <2>1, <3>1, <4>1
        <5> QED BY <3>1, <4>1, <5>1
      <4>2. CASE i # m
        <5>1. i \in 0..(m - 1) /\ (i # 0 => i - 1 \in 0..(m - 1))
          BY <2>1, <4>2
        <5> QED BY <3>1, <3>2, <5>1
      <4> QED BY <4>1, <4>2
    <3> QED BY <3>3 DEF IsSum
  <2> QED BY <1>1, <2>4, <2>5
<1> QED BY <1>2, <1>3

LEMMA SumUnique ==
    ASSUME NEW w, NEW n \in Nat, NEW m \in 0..n, NEW s, NEW r, IsSum(s, w, n), IsSum(r, w, m)
    PROVE  s[m] = r[m]
<1> DEFINE Bad == {k \in 0..m : s[k] # r[k]}
<1> SUFFICES ASSUME Bad # {} PROVE FALSE
  OBVIOUS
<1> DEFINE k == Min(Bad)
<1>1. k \in Bad /\ \A j \in Bad : k <= j
  <2>1. Bad \in SUBSET Nat
    OBVIOUS
  <2> QED BY <2>1, FirstTime
<1>2. k \in 0..m /\ s[k] # r[k]
  BY <1>1
<1>3. \A j \in 0..(k - 1) : s[j] = r[j]
  BY <1>1, <1>2
<1> HIDE DEF k
<1>4. s[k] = IF k = 0 THEN 0 ELSE s[k - 1] + w[k]
  BY <1>2 DEF IsSum
<1>5. r[k] = IF k = 0 THEN 0 ELSE r[k - 1] + w[k]
  BY <1>2 DEF IsSum
<1> QED BY <1>2, <1>3, <1>4, <1>5

(* Total as the equations one computes with.                                   *)
LEMMA TotalIsSum ==
    ASSUME NEW w, NEW n \in Nat, NEW s, IsSum(s, w, n)
    PROVE  \A m \in 0..n : Total(w, m) = s[m]
<1> SUFFICES ASSUME NEW m \in 0..n PROVE Total(w, m) = s[m]
  OBVIOUS
<1> DEFINE r == CHOOSE r : r = [i \in 0..m |-> IF i = 0 THEN 0 ELSE r[i - 1] + w[i]]
<1>1. \E q : IsSum(q, w, m)
  <2>1. IsSum([i \in 0..m |-> s[i]], w, m)
    BY DEF IsSum
  <2> QED BY <2>1
<1>2. IsSum(r, w, m)
  BY <1>1 DEF IsSum
<1>3. Total(w, m) = r[m]
  BY DEF Total
<1> QED BY <1>2, <1>3, SumUnique

LEMMA TotalSteps ==
    ASSUME NEW w, NEW n \in Nat, \A i \in 1..n : w[i] \in Int
    PROVE  /\ Total(w, 0) = 0
           /\ \A m \in 0..n : Total(w, m) \in Int
           /\ \A m \in 1..n : Total(w, m) = Total(w, m - 1) + w[m]
<1>1. PICK s \in [0..n -> Int] : IsSum(s, w, n)
  BY SumExists
<1>2. \A m \in 0..n : Total(w, m) = s[m]
  BY <1>1, TotalIsSum
<1>3. \A m \in 0..n : s[m] = IF m = 0 THEN 0 ELSE s[m - 1] + w[m]
  BY <1>1 DEF IsSum
<1>4. \A m \in 1..n : m \in 0..n /\ m - 1 \in 0..n
  OBVIOUS
<1> QED BY <1>1, <1>2, <1>3, <1>4

(* A total changes by what its one changed entry does.                         *)
LEMMA TotalChange ==
    ASSUME NEW w, NEW v, NEW n \in Nat, NEW k \in 1..n,
           \A i \in 1..n : w[i] \in Int /\ v[i] \in Int /\ (i # k => v[i] = w[i])
    PROVE  Total(v, n) = Total(w, n) + (v[k] - w[k])
<1> DEFINE Diff(m) == IF m < k THEN 0 ELSE v[k] - w[k]
<1> DEFINE Bad == {m \in 0..n : Total(v, m) # Total(w, m) + Diff(m)}
<1> SUFFICES ASSUME Bad # {} PROVE FALSE
  OBVIOUS
<1> DEFINE m == Min(Bad)
<1>1. m \in Bad /\ \A j \in Bad : m <= j
  <2>1. Bad \in SUBSET Nat
    OBVIOUS
  <2> QED BY <2>1, FirstTime
<1>2. m \in 0..n /\ Total(v, m) # Total(w, m) + Diff(m)
  BY <1>1
<1>3. m # 0 => m - 1 \in 0..n /\ Total(v, m - 1) = Total(w, m - 1) + Diff(m - 1)
  <2> SUFFICES ASSUME m # 0 PROVE m - 1 \in 0..n /\ m - 1 \notin Bad
    OBVIOUS
  <2> HIDE DEF m, Bad
  <2>1. m - 1 \in 0..n /\ ~(m <= m - 1)
    BY <1>2
  <2> QED BY <1>1, <2>1
<1>4. /\ Total(w, 0) = 0 /\ \A j \in 0..n : Total(w, j) \in Int
      /\ \A j \in 1..n : Total(w, j) = Total(w, j - 1) + w[j]
  BY TotalSteps
<1>5. /\ Total(v, 0) = 0 /\ \A j \in 0..n : Total(v, j) \in Int
      /\ \A j \in 1..n : Total(v, j) = Total(v, j - 1) + v[j]
  BY TotalSteps
<1> HIDE DEF m, Bad
<1>6. m # 0
  BY <1>2, <1>4, <1>5
<1>7. /\ Total(w, m) = Total(w, m - 1) + w[m] /\ Total(v, m) = Total(v, m - 1) + v[m]
      /\ Total(w, m - 1) \in Int /\ Total(v, m - 1) \in Int /\ m \in 1..n
      /\ w[m] \in Int /\ v[m] \in Int /\ w[k] \in Int /\ v[k] \in Int
  BY <1>2, <1>3, <1>4, <1>5, <1>6
<1>8. CASE m = k
  BY <1>2, <1>3, <1>6, <1>7, <1>8
<1>9. CASE m # k
  <2>1. v[m] = w[m] /\ Diff(m) = Diff(m - 1)
    BY <1>7, <1>9
  <2> QED BY <1>2, <1>3, <1>6, <1>7, <2>1
<1> QED BY <1>8, <1>9

(* and not at all with the entries beyond its end.                             *)
LEMMA TotalSame ==
    ASSUME NEW w, NEW v, NEW n \in Nat, \A i \in 1..n : w[i] \in Int /\ v[i] = w[i]
    PROVE  Total(v, n) = Total(w, n)
<1>1. CASE n = 0
  <2>1. Total(w, 0) = 0 /\ Total(v, 0) = 0
    <3>1. \A i \in 1..n : w[i] \in Int /\ v[i] \in Int
      OBVIOUS
    <3> QED BY <3>1, TotalSteps
  <2> QED BY <1>1, <2>1
<1>2. CASE n # 0
  <2>1. 1 \in 1..n
    BY <1>2
  <2>2. Total(v, n) = Total(w, n) + (v[1] - w[1])
    BY <2>1, TotalChange
  <2>3. Total(w, n) \in Int
    <3>1. \A m \in 0..n : Total(w, m) \in Int
      BY TotalSteps
    <3> QED BY <3>1
  <2>4. v[1] - w[1] = 0
    BY <2>1
  <2> QED BY <2>2, <2>3, <2>4
<1> QED BY <1>1, <1>2

(* Adding nothing gives nothing.                                               *)
LEMMA TotalZero ==
    ASSUME NEW w, NEW n \in Nat, \A i \in 1..n : w[i] = 0
    PROVE  Total(w, n) = 0
<1> DEFINE Bad == {m \in 0..n : Total(w, m) # 0}
<1> SUFFICES ASSUME Bad # {} PROVE FALSE
  <2>1. n \notin Bad => Total(w, n) = 0
    OBVIOUS
  <2> QED BY <2>1
<1> DEFINE m == Min(Bad)
<1>1. m \in Bad /\ \A j \in Bad : m <= j
  <2>1. Bad \in SUBSET Nat
    OBVIOUS
  <2> QED BY <2>1, FirstTime
<1>2. m \in 0..n /\ Total(w, m) # 0
  BY <1>1
<1>4. m # 0 => m - 1 \in 0..n /\ Total(w, m - 1) = 0
  <2> SUFFICES ASSUME m # 0 PROVE m - 1 \in 0..n /\ m - 1 \notin Bad
    OBVIOUS
  <2> HIDE DEF m, Bad
  <2>1. m - 1 \in 0..n /\ ~(m <= m - 1)
    BY <1>2
  <2> QED BY <1>1, <2>1
<1>3. /\ Total(w, 0) = 0 /\ \A j \in 1..n : Total(w, j) = Total(w, j - 1) + w[j]
  BY TotalSteps
<1> HIDE DEF m, Bad
<1> QED BY <1>2, <1>3, <1>4

(* A sum of naturals is one.                                                   *)
LEMMA TotalNatural ==
    ASSUME NEW w, NEW n \in Nat, \A i \in 1..n : w[i] \in Nat
    PROVE  Total(w, n) \in Nat
<1> DEFINE Bad == {m \in 0..n : Total(w, m) \notin Nat}
<1> SUFFICES ASSUME Bad # {} PROVE FALSE
  <2>1. n \notin Bad => Total(w, n) \in Nat
    OBVIOUS
  <2> QED BY <2>1
<1> DEFINE m == Min(Bad)
<1>1. m \in Bad /\ \A j \in Bad : m <= j
  <2>1. Bad \in SUBSET Nat
    OBVIOUS
  <2> QED BY <2>1, FirstTime
<1>2. m \in 0..n /\ Total(w, m) \notin Nat
  BY <1>1
<1>4. m # 0 => m - 1 \in 0..n /\ Total(w, m - 1) \in Nat
  <2> SUFFICES ASSUME m # 0 PROVE m - 1 \in 0..n /\ m - 1 \notin Bad
    OBVIOUS
  <2> HIDE DEF m, Bad
  <2>1. m - 1 \in 0..n /\ ~(m <= m - 1)
    BY <1>2
  <2> QED BY <1>1, <2>1
<1>3. /\ Total(w, 0) = 0 /\ \A j \in 1..n : Total(w, j) = Total(w, j - 1) + w[j]
  BY TotalSteps
<1> HIDE DEF m, Bad
<1> QED BY <1>2, <1>3, <1>4
=============================================================================
