------------------------ MODULE RunningTotalsProofs ------------------------
(***************************************************************************)
(* Facts about naturals, running totals and finite sequences that the      *)
(* proofs about the components share.  Inductions are made as arguments    *)
(* about the least number for which a claim fails (LeastOf).               *)
(***************************************************************************)
EXTENDS RunningTotals, SequenceTheorems, WellFoundedInduction, TLAPS

(* A set of naturals that is not empty has a least member.                 *)
LEMMA LeastOf ==
  ASSUME NEW S \in SUBSET Nat, S # {}
  PROVE  \E m \in S : \A x \in S : m <= x
<1>1. PICK m \in S : \A y \in S : ~ (<<y, m>> \in OpToRel(<, Nat))
  BY WFMin, NatLessThanWellFounded
<1>2. \A y \in S : ~ (y < m)
  BY <1>1 DEF OpToRel
<1> QED
  BY <1>2

(* And one that is bounded has a greatest.                                 *)
LEMMA GreatestOf ==
  ASSUME NEW n \in Nat, NEW S \in SUBSET (0..n), S # {}
  PROVE  \E m \in S : \A x \in S : x <= m
<1> DEFINE T == {k \in 0..n : n - k \in S}
<1>1. T # {}
  <2>1. PICK x \in S : TRUE
    OBVIOUS
  <2>2. n - x \in T
    BY <2>1
  <2> QED
    BY <2>2
<1>2. PICK k \in T : \A y \in T : k <= y
  <2>1. T \in SUBSET Nat
    OBVIOUS
  <2> HIDE DEF T
  <2> QED
    BY <1>1, <2>1, LeastOf
<1>3. n - k \in S
  BY <1>2
<1>4. \A x \in S : n - x \in T
  OBVIOUS
<1>5. \A x \in S : k <= n - x
  BY <1>2, <1>4
<1> QED
  BY <1>3, <1>5

(* A set of naturals up to n that holds 0, and with each of them the next, *)
(* holds all of them.                                                      *)
LEMMA InductionUpTo ==
  ASSUME NEW n \in Nat, NEW S, 0 \in S,
         \A k \in 0 .. n - 1 : k \in S => k + 1 \in S
  PROVE  \A k \in 0..n : k \in S
<1> DEFINE bad == {k \in 0..n : k \notin S}
<1>1. SUFFICES ASSUME bad # {} PROVE FALSE
  OBVIOUS
<1>2. PICK m \in bad : \A x \in bad : m <= x
  <2>1. bad \in SUBSET Nat
    OBVIOUS
  <2> HIDE DEF bad
  <2> QED
    BY <1>1, <2>1, LeastOf
<1>3. m # 0 /\ m - 1 \in 0 .. n - 1
  BY <1>2
<1>4. m - 1 \notin bad
  BY <1>2, <1>3
<1> QED
  BY <1>2, <1>3, <1>4

-----------------------------------------------------------------------------
(* Running totals.                                                         *)

(* total adds up the first n sizes.                                        *)
Adds(n, start, sizes, total) ==
  /\ total \in [0..n -> Int]
  /\ total[0] = start
  /\ \A k \in 1..n : total[k] = total[k - 1] + sizes[k]

LEMMA AddsAt ==
  ASSUME NEW n \in Nat, NEW start, NEW sizes, NEW total, Adds(n, start, sizes, total),
         NEW k \in 1..n
  PROVE  /\ total[k] = total[k - 1] + sizes[k]
         /\ total[k] \in Int
         /\ total[k - 1] \in Int
BY DEF Adds

LEMMA AddsType ==
  ASSUME NEW n \in Nat, NEW start, NEW sizes, NEW total, Adds(n, start, sizes, total)
  PROVE  total \in [0..n -> Int] /\ total[0] = start
BY DEF Adds

(* That the recursion has a solution, up to any length.                    *)
LEMMA TotalsExist ==
  ASSUME NEW start \in Int, NEW n \in Nat, NEW sizes \in [1..n -> Int]
  PROVE  \E t : Adds(n, start, sizes, t)
<1> DEFINE S == {m \in 0..n : \E t : Adds(m, start, sizes, t)}
<1>1. 0 \in S
  <2> DEFINE t == [k \in 0..0 |-> start]
  <2>1. Adds(0, start, sizes, t)
    BY DEF Adds
  <2> HIDE DEF t
  <2> QED
    BY <2>1
<1>2. ASSUME NEW m \in 0 .. n - 1, m \in S PROVE m + 1 \in S
  <2>1. PICK t : Adds(m, start, sizes, t)
    BY <1>2
  <2>2. t \in [0..m -> Int] /\ t[0] = start
    BY <2>1, AddsType
  <2> DEFINE u == [k \in 0 .. m + 1 |-> IF k = m + 1 THEN t[m] + sizes[k] ELSE t[k]]
  <2>3. u \in [0 .. m + 1 -> Int] /\ u[0] = start
    BY <2>2
  <2>4. ASSUME NEW k \in 1 .. m + 1 PROVE u[k] = u[k - 1] + sizes[k]
    <3>1. CASE k = m + 1
      BY <2>2, <3>1
    <3>2. CASE k \in 1..m
      <4>1. t[k] = t[k - 1] + sizes[k]
        BY <2>1, <3>2 DEF Adds
      <4> QED
        BY <2>2, <3>2, <4>1
    <3> QED
      BY <3>1, <3>2
  <2> HIDE DEF u
  <2>5. Adds(m + 1, start, sizes, u)
    BY <2>3, <2>4 DEF Adds
  <2> QED
    BY <2>5
<1>3. n \in S
  <2> HIDE DEF S
  <2>1. \A k \in 0..n : k \in S
    BY <1>1, <1>2, InductionUpTo
  <2> QED
    BY <2>1
<1> QED
  BY <1>3

(* RunningTotals is what its definition says.                              *)
LEMMA RunningTotalsDef ==
  ASSUME NEW start \in Int, NEW n \in Nat, NEW sizes \in Seq(Int), Len(sizes) = n
  PROVE  /\ sizes \in [1..n -> Int]
         /\ Adds(n, start, sizes, RunningTotals(start, sizes))
<1> DEFINE Eq(t) == t = [k \in 0..n |-> IF k = 0 THEN start ELSE t[k - 1] + sizes[k]]
           r == RunningTotals(start, sizes)
<1>1. sizes \in [1..n -> Int]
  BY LenProperties
<1>2. PICK t : Adds(n, start, sizes, t)
  BY <1>1, TotalsExist
<1>3. t \in [0..n -> Int] /\ t[0] = start
  BY <1>2, AddsType
<1>4. ASSUME NEW k \in 0..n PROVE t[k] = IF k = 0 THEN start ELSE t[k - 1] + sizes[k]
  <2>1. CASE k = 0
    BY <1>3, <2>1
  <2>2. CASE k \in 1..n
    <3>1. t[k] = t[k - 1] + sizes[k]
      BY <1>2, <2>2 DEF Adds
    <3> QED
      BY <2>2, <3>1
  <2> QED
    BY <2>1, <2>2
<1>5. Eq(t)
  BY <1>3, <1>4
<1>6. r = CHOOSE u : Eq(u)
  BY DEF RunningTotals
<1> HIDE DEF r
<1>7. Eq(r)
  <2> HIDE DEF Eq
  <2> QED
    BY <1>5, <1>6
<1>8. r[0] = start /\ DOMAIN r = 0..n /\ r = [k \in DOMAIN r |-> r[k]]
  BY <1>7
<1>9. ASSUME NEW k \in 1..n PROVE r[k] = r[k - 1] + sizes[k]
  BY <1>7
<1> HIDE DEF Eq
<1>10. \A k \in 0..n : r[k] \in Int
  <2> DEFINE S == {k \in 0..n : r[k] \in Int}
  <2>1. 0 \in S
    BY <1>8
  <2>2. ASSUME NEW k \in 0 .. n - 1, k \in S PROVE k + 1 \in S
    <3>1. r[k + 1] = r[(k + 1) - 1] + sizes[k + 1]
      BY <1>9
    <3> QED
      BY <1>1, <2>2, <3>1
  <2> HIDE DEF S
  <2>3. \A k \in 0..n : k \in S
    BY <2>1, <2>2, InductionUpTo
  <2> QED
    BY <2>3 DEF S
<1>11. r \in [0..n -> Int]
  BY <1>8, <1>10
<1> QED
  BY <1>1, <1>8, <1>9, <1>11 DEF Adds, r

(* There are no other totals.                                              *)
LEMMA AddsUnique ==
  ASSUME NEW start \in Int, NEW n \in Nat, NEW sizes, NEW f, NEW g,
         Adds(n, start, sizes, f), Adds(n, start, sizes, g)
  PROVE  f = g
<1> DEFINE S == {k \in 0..n : f[k] = g[k]}
<1>1. f \in [0..n -> Int] /\ f[0] = start /\ g \in [0..n -> Int] /\ g[0] = start
  BY AddsType
<1>2. 0 \in S
  BY <1>1
<1>3. ASSUME NEW k \in 0 .. n - 1, k \in S PROVE k + 1 \in S
  <2>1. k + 1 \in 1..n /\ (k + 1) - 1 = k
    OBVIOUS
  <2>2. f[k + 1] = f[k] + sizes[k + 1] /\ g[k + 1] = g[k] + sizes[k + 1]
    BY <2>1, AddsAt
  <2> QED
    BY <1>3, <2>1, <2>2
<1>4. \A k \in 0..n : k \in S
  <2> HIDE DEF S
  <2> QED
    BY <1>2, <1>3, InductionUpTo
<1> QED
  BY <1>1, <1>4

LEMMA TotalsAre ==
  ASSUME NEW start \in Int, NEW n \in Nat, NEW sizes \in Seq(Int), Len(sizes) = n, NEW f,
         Adds(n, start, sizes, f)
  PROVE  RunningTotals(start, sizes) = f
BY RunningTotalsDef, AddsUnique

(* Totals of naturals are naturals and do not decrease.                    *)
LEMMA AddsMonotonic ==
  ASSUME NEW start \in Nat, NEW n \in Nat, NEW sizes \in [1..n -> Nat], NEW total,
         Adds(n, start, sizes, total)
  PROVE  /\ total \in [0..n -> Nat]
         /\ \A i, j \in 0..n : i <= j => total[i] <= total[j]
<1> DEFINE S == {k \in 0..n : total[k] \in Nat /\ \A i \in 0..k : total[i] <= total[k]}
<1>1. total \in [0..n -> Int] /\ total[0] = start
  BY AddsType
<1>2. 0 \in S
  BY <1>1
<1>3. ASSUME NEW k \in 0 .. n - 1, k \in S PROVE k + 1 \in S
  <2>1. k + 1 \in 1..n /\ (k + 1) - 1 = k
    OBVIOUS
  <2>2. total[k + 1] = total[k] + sizes[k + 1] /\ sizes[k + 1] \in Nat
    BY <2>1, AddsAt
  <2>3. total[k] \in Nat /\ \A i \in 0..k : total[i] <= total[k]
    BY <1>3
  <2>4. total[k + 1] \in Nat /\ total[k] <= total[k + 1]
    BY <2>2, <2>3
  <2>5. ASSUME NEW i \in 0 .. k + 1 PROVE total[i] <= total[k + 1]
    <3>1. CASE i = k + 1
      BY <2>4, <3>1
    <3>2. CASE i \in 0..k
      <4>1. total[i] <= total[k] /\ total[i] \in Int
        BY <1>1, <2>3, <3>2
      <4> QED
        BY <2>3, <2>4, <4>1
    <3> QED
      BY <3>1, <3>2
  <2> QED
    BY <2>1, <2>4, <2>5
<1>4. \A k \in 0..n : k \in S
  <2> HIDE DEF S
  <2> QED
    BY <1>2, <1>3, InductionUpTo
<1> QED
  BY <1>1, <1>4

-----------------------------------------------------------------------------
(* Sums.                                                                   *)

(* s consists of t, of length m, and u, of length n.                       *)
Parts(m, t, n, u, s) ==
  /\ s \in [1 .. m + n -> Int]
  /\ \A k \in 1..m : t[k] = s[k]
  /\ \A k \in 1..n : u[k] = s[m + k]

(* t is s, of length n + 1, without its element i.                         *)
TakenOut(n, i, s, t) ==
  /\ i \in 1 .. n + 1
  /\ s \in [1 .. n + 1 -> Int]
  /\ \A k \in 1..n : k < i => t[k] = s[k]
  /\ \A k \in 1..n : k >= i => t[k] = s[k + 1]

(* Totals of a sequence and of its two parts.                              *)
LEMMA TotalsOfParts ==
  ASSUME NEW m \in Nat, NEW n \in Nat, NEW p, p = m + n, NEW s, NEW t, NEW u, NEW a, NEW b,
         Adds(m, 0, t, a), Adds(n, 0, u, b), Parts(m, t, n, u, s)
  PROVE  \E f : Adds(p, 0, s, f) /\ f[p] = a[m] + b[n]
<1> SUFFICES ASSUME s \in [1 .. m + n -> Int],
                    \A k \in 1..m : t[k] = s[k],
                    \A k \in 1..n : u[k] = s[m + k]
             PROVE  \E f : Adds(m + n, 0, s, f) /\ f[m + n] = a[m] + b[n]
  BY DEF Parts
<1> DEFINE f == [k \in 0 .. m + n |-> IF k <= m THEN a[k] ELSE a[m] + b[k - m]]
<1>0. a \in [0..m -> Int] /\ a[0] = 0 /\ b \in [0..n -> Int] /\ b[0] = 0
  BY AddsType
<1>1. f \in [0 .. m + n -> Int]
  <2>1. ASSUME NEW k \in 0 .. m + n PROVE (IF k <= m THEN a[k] ELSE a[m] + b[k - m]) \in Int
    BY <1>0
  <2> QED
    BY <2>1
<1>2. f[0] = 0
  BY <1>0
<1>3. ASSUME NEW k \in 1 .. m + n PROVE f[k] = f[k - 1] + s[k]
  <2>1. CASE k <= m
    <3>1. k \in 1..m /\ k - 1 \in 0..m /\ k - 1 <= m
      BY <2>1
    <3>2. f[k] = a[k] /\ f[k - 1] = a[k - 1]
      BY <2>1, <3>1
    <3>3. a[k] = a[k - 1] + t[k] /\ t[k] = s[k]
      BY <3>1, AddsAt
    <3> QED
      BY <3>2, <3>3
  <2>2. CASE k > m
    <3>1. k - m \in 1..n /\ m + (k - m) = k /\ (k - m) - 1 = (k - 1) - m
      BY <2>2
    <3>2. b[k - m] = b[(k - m) - 1] + u[k - m] /\ u[k - m] = s[m + (k - m)]
      BY <3>1, AddsAt
    <3>3. b[k - m] = b[(k - 1) - m] + s[k]
      BY <3>1, <3>2
    <3>4. f[k - 1] = a[m] + b[(k - 1) - m]
      <4>1. CASE k - 1 = m
        BY <1>0, <4>1
      <4>2. CASE k - 1 > m
        BY <4>2
      <4> QED
        BY <2>2, <4>1, <4>2
    <3>5. f[k] = a[m] + b[k - m]
      BY <2>2
    <3>6. s[k] \in Int /\ a[m] \in Int /\ b[(k - 1) - m] \in Int
      BY <1>0, <2>2
    <3> HIDE DEF f
    <3> QED
      BY <3>3, <3>4, <3>5, <3>6
  <2> QED
    BY <2>1, <2>2
<1>4. f[m + n] = a[m] + b[n]
  <2>1. CASE n = 0
    BY <1>0, <2>1
  <2>2. CASE n > 0
    BY <2>2
  <2> QED
    BY <2>1, <2>2
<1> HIDE DEF f
<1>5. Adds(m + n, 0, s, f)
  BY <1>1, <1>2, <1>3 DEF Adds
<1> QED
  BY <1>4, <1>5

(* Totals of a sequence and of what remains when one size is taken out.    *)
LEMMA TotalsWithout ==
  ASSUME NEW n \in Nat, NEW i, NEW s, NEW t, NEW a, NEW p, p = n + 1,
         Adds(p, 0, s, a), TakenOut(n, i, s, t)
  PROVE  \E f : Adds(n, 0, t, f) /\ f[n] = a[p] - s[i]
<1> SUFFICES ASSUME i \in 1 .. n + 1, s \in [1 .. n + 1 -> Int], Adds(n + 1, 0, s, a),
                    \A k \in 1..n : k < i => t[k] = s[k],
                    \A k \in 1..n : k >= i => t[k] = s[k + 1]
             PROVE  \E f : Adds(n, 0, t, f) /\ f[n] = a[n + 1] - s[i]
  BY DEF TakenOut
<1> DEFINE f == [k \in 0..n |-> IF k < i THEN a[k] ELSE a[k + 1] - s[i]]
<1>0. a \in [0 .. n + 1 -> Int] /\ a[0] = 0
  BY AddsType
<1>1. f \in [0..n -> Int]
  <2>1. ASSUME NEW k \in 0..n PROVE (IF k < i THEN a[k] ELSE a[k + 1] - s[i]) \in Int
    BY <1>0
  <2> QED
    BY <2>1
<1>2. f[0] = 0
  BY <1>0
<1>3. ASSUME NEW k \in 1..n PROVE f[k] = f[k - 1] + t[k]
  <2>0. /\ s[i] \in Int /\ s[k] \in Int /\ s[k + 1] \in Int
        /\ a[k - 1] \in Int /\ a[k] \in Int /\ a[k + 1] \in Int
    BY <1>0
  <2>1. k \in 1 .. n + 1 /\ k + 1 \in 1 .. n + 1 /\ (k + 1) - 1 = k /\ n + 1 \in Nat
    OBVIOUS
  <2>2. a[k] = a[k - 1] + s[k] /\ a[k + 1] = a[k] + s[k + 1]
    <3>1. a[k] = a[k - 1] + s[k] /\ a[k + 1] = a[(k + 1) - 1] + s[k + 1]
      BY <2>1 DEF Adds
    <3> QED
      BY <2>1, <3>1, Zenon
  <2>3. CASE k < i
    <3>1. f[k] = a[k] /\ f[k - 1] = a[k - 1]
      BY <2>3
    <3> QED
      BY <2>2, <2>3, <3>1
  <2>4. CASE k = i
    <3>1. f[k] = a[k + 1] - s[k] /\ f[k - 1] = a[k - 1]
      BY <2>4
    <3>2. t[k] = s[k + 1]
      BY <2>4
    <3>3. \A w, x, y \in Int : ((w + x) + y) - x = w + y
      OBVIOUS
    <3>4. f[k] = ((a[k - 1] + s[k]) + s[k + 1]) - s[k]
      BY <2>2, <3>1
    <3>5. f[k] = a[k - 1] + s[k + 1]
      BY <2>0, <3>3, <3>4
    <3> HIDE DEF f
    <3> QED
      BY <3>1, <3>2, <3>5
  <2>5. CASE k > i
    <3>1. f[k] = a[k + 1] - s[i]
      BY <2>5
    <3>2. f[k - 1] = a[k] - s[i]
      BY <2>5
    <3>3. t[k] = s[k + 1]
      BY <2>5
    <3> HIDE DEF f
    <3> QED
      BY <2>0, <2>2, <3>1, <3>2, <3>3
  <2> QED
    BY <2>3, <2>4, <2>5
<1>4. f[n] = a[n + 1] - s[i]
  <2>0. a[n + 1] = a[n] + s[n + 1] /\ a[n] \in Int /\ s[n + 1] \in Int
    <3>1. n + 1 \in 1 .. n + 1 /\ (n + 1) - 1 = n /\ n + 1 \in Nat
      OBVIOUS
    <3>2. a[n + 1] = a[(n + 1) - 1] + s[n + 1]
      BY <3>1 DEF Adds
    <3> QED
      BY <1>0, <3>1, <3>2
  <2>1. CASE i = n + 1
    <3>1. f[n] = a[n]
      BY <2>1
    <3> QED
      BY <2>0, <2>1, <3>1
  <2>2. CASE i <= n
    BY <2>2
  <2> QED
    BY <2>1, <2>2
<1> HIDE DEF f
<1>5. Adds(n, 0, t, f)
  BY <1>1, <1>2, <1>3 DEF Adds
<1> QED
  BY <1>4, <1>5

(* The sum of a sequence of sizes is the last of any totals of it.         *)
LEMMA SumIs ==
  ASSUME NEW n \in Nat, NEW s \in Seq(Int), Len(s) = n, NEW f, Adds(n, 0, s, f)
  PROVE  SumOf(s) = f[n]
BY TotalsAre DEF SumOf

LEMMA SumHasTotals ==
  ASSUME NEW n \in Nat, NEW s \in Seq(Int), Len(s) = n
  PROVE  /\ s \in [1..n -> Int]
         /\ \E a : Adds(n, 0, s, a) /\ SumOf(s) = a[n]
BY RunningTotalsDef DEF SumOf

(* The sum of a sequence and of its two parts.                             *)
LEMMA SumOfParts ==
  ASSUME NEW s \in Seq(Int), NEW t \in Seq(Int), NEW u \in Seq(Int),
         Len(s) = Len(t) + Len(u),
         \A k \in 1..Len(t) : t[k] = s[k],
         \A k \in 1..Len(u) : u[k] = s[Len(t) + k]
  PROVE  SumOf(s) = SumOf(t) + SumOf(u)
<1>1. PICK m \in Nat, n \in Nat, p \in Nat : m = Len(t) /\ n = Len(u) /\ Len(s) = p /\ p = m + n
  BY LenProperties
<1>2. PICK a : Adds(m, 0, t, a) /\ SumOf(t) = a[m]
  BY <1>1, SumHasTotals
<1>3. PICK b : Adds(n, 0, u, b) /\ SumOf(u) = b[n]
  BY <1>1, SumHasTotals
<1>4. s \in [1..p -> Int]
  BY <1>1, SumHasTotals
<1>5. Parts(m, t, n, u, s)
  BY <1>1, <1>4 DEF Parts
<1>6. PICK f : Adds(p, 0, s, f) /\ f[p] = a[m] + b[n]
  <2> SUFFICES ASSUME p = m + n PROVE \E f : Adds(p, 0, s, f) /\ f[p] = a[m] + b[n]
    BY <1>1
  <2> QED
    BY <1>2, <1>3, <1>5, TotalsOfParts
<1>7. SumOf(s) = f[p]
  BY <1>1, <1>6, SumIs
<1> QED
  BY <1>2, <1>3, <1>6, <1>7

LEMMA SumIsInt ==
  ASSUME NEW s \in Seq(Int)
  PROVE  /\ SumOf(s) \in Int
         /\ Len(s) = 0 => SumOf(s) = 0
         /\ Len(s) = 1 => SumOf(s) = s[1]
<1>1. PICK n \in Nat : n = Len(s)
  BY LenProperties
<1>2. PICK a : Adds(n, 0, s, a) /\ SumOf(s) = a[n]
  BY <1>1, SumHasTotals
<1>3. s \in [1..n -> Int]
  BY <1>1, SumHasTotals
<1>4. a \in [0..n -> Int] /\ a[0] = 0
  BY <1>2, AddsType
<1>5. n = 1 => a[n] = a[n - 1] + s[n]
  BY <1>2, AddsAt
<1> QED
  BY <1>1, <1>2, <1>3, <1>4, <1>5

LEMMA SumIsNat ==
  ASSUME NEW s \in Seq(Nat)
  PROVE  SumOf(s) \in Nat
<1>1. PICK n \in Nat : n = Len(s)
  BY LenProperties
<1>2. s \in Seq(Int)
  BY SeqMonotonic
<1>3. PICK a : Adds(n, 0, s, a) /\ SumOf(s) = a[n]
  BY <1>1, <1>2, SumHasTotals
<1>4. s \in [1..n -> Nat]
  BY <1>1, LenProperties
<1>5. a \in [0..n -> Nat]
  BY <1>3, <1>4, AddsMonotonic
<1> QED
  BY <1>3, <1>5

(* The sum when one size is taken out.                                     *)
LEMMA SumWithout ==
  ASSUME NEW n \in Nat, NEW p \in Nat, p = n + 1, NEW s \in Seq(Int), NEW t \in Seq(Int),
         Len(s) = p, Len(t) = n, NEW i, TakenOut(n, i, s, t)
  PROVE  SumOf(t) = SumOf(s) - s[i]
<1>1. PICK a : Adds(p, 0, s, a) /\ SumOf(s) = a[p]
  BY SumHasTotals
<1>2. PICK f : Adds(n, 0, t, f) /\ f[n] = a[p] - s[i]
  BY <1>1, TotalsWithout
<1>3. SumOf(t) = f[n]
  BY <1>2, SumIs
<1> QED
  BY <1>1, <1>2, <1>3
=============================================================================
