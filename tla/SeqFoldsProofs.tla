---------------------------- MODULE SeqFoldsProofs ----------------------------
(***************************************************************************)
(* What SeqFolds computes, for every sequence.  The induction principles of *)
(* the library take an operator as a parameter, which the provers at hand  *)
(* do not instantiate; the least element of a set of naturals is enough    *)
(* and needs no such parameter.                                            *)
(***************************************************************************)
EXTENDS SeqFolds, WellFoundedInduction, SequenceTheorems, TLAPS

------------------------------------------------------------------------------
(* Integer division and products *)

\* The quotient of a division rounds down.
LEMMA DivisionBounds ==
  ASSUME NEW a \in Nat, NEW b \in Nat, b > 0
  PROVE  /\ a \div b \in Nat
         /\ b * (a \div b) <= a
         /\ a < b * (a \div b) + b
OBVIOUS

\* Multiplying by a natural number keeps the order.
LEMMA ProductMonotone ==
  ASSUME NEW x \in Int, NEW y \in Int, NEW z \in Nat, x <= y
  PROVE  x * z <= y * z
OBVIOUS

------------------------------------------------------------------------------
(* Induction *)

\* Every non-empty set of natural numbers has a least element.
LEMMA LeastElement ==
  ASSUME NEW M, M \subseteq Nat, M # {}
  PROVE  \E x \in M : \A y \in M : x <= y
<1> DEFINE R == OpToRel(<, Nat)
<1>1. IsWellFoundedOn(R, Nat)
  BY NatLessThanWellFounded
<1>2. PICK x \in M : \A y \in M : <<y, x>> \notin R
  <2> HIDE DEF R
  <2> QED BY <1>1, WFMin
<1>3. \A y \in M : ~(y < x)
  BY <1>2 DEF OpToRel
<1> HIDE DEF R
<1> QED BY <1>3

\* Induction over the naturals, stated with a set instead of a predicate.
LEMMA SetInduction ==
  ASSUME NEW T, 0 \in T, \A n \in Nat : n \in T => n + 1 \in T
  PROVE  Nat \subseteq T
<1>1. SUFFICES ASSUME Nat \ T # {} PROVE FALSE
  OBVIOUS
<1>2. PICK x \in Nat \ T : \A y \in Nat \ T : x <= y
  BY <1>1, LeastElement
<1> QED BY <1>2

------------------------------------------------------------------------------
(* Recursive functions *)

\* Function f takes n steps in S, from start.
Follows(f, S, start, n, step) ==
  f \in [0..n -> S] /\ f[0] = start /\ \A k \in 1..n : f[k] = step[k][f[k - 1]]

\* Step by step from a start, a set that every step stays in gives a function.
LEMMA StepsExist ==
  ASSUME NEW S, NEW start \in S, NEW n \in Nat, NEW step \in [1..n -> [S -> S]]
  PROVE  \E f : Follows(f, S, start, n, step)
<1> DEFINE T == {m \in Nat : m <= n =>
                  \E f \in [0..m -> S] :
                    f[0] = start /\ \A k \in 1..m : f[k] = step[k][f[k - 1]]}
<1>1. 0 \in T
  <2> DEFINE z == [k \in 0..0 |-> start]
  <2>1. z \in [0..0 -> S] /\ z[0] = start /\ \A k \in 1..0 : z[k] = step[k][z[k - 1]]
    OBVIOUS
  <2> HIDE DEF z
  <2> QED BY <2>1
<1>2. ASSUME NEW m \in Nat, m \in T PROVE m + 1 \in T
  <2>a. m + 1 \in Nat
    OBVIOUS
  <2> SUFFICES ASSUME m + 1 <= n
               PROVE  \E f \in [0..(m + 1) -> S] :
                        f[0] = start /\ \A k \in 1..(m + 1) : f[k] = step[k][f[k - 1]]
    BY <2>a, Zenon
  <2>1. PICK f \in [0..m -> S] : f[0] = start /\ \A k \in 1..m : f[k] = step[k][f[k - 1]]
    BY <1>2
  <2>2. step[m + 1][f[m]] \in S
    BY <2>1
  <2> DEFINE g == [k \in 0..(m + 1) |-> IF k = m + 1 THEN step[m + 1][f[m]] ELSE f[k]]
  <2>3. g \in [0..(m + 1) -> S]
    BY <2>1, <2>2
  <2>4. g[0] = start
    BY <2>1
  <2>5. \A k \in 1..(m + 1) : g[k] = step[k][g[k - 1]]
    BY <2>1
  <2> HIDE DEF g
  <2> QED BY <2>3, <2>4, <2>5
<1>3. n \in T
  <2> HIDE DEF T
  <2> QED BY <1>1, <1>2, SetInduction
<1>4. PICK f \in [0..n -> S] : f[0] = start /\ \A k \in 1..n : f[k] = step[k][f[k - 1]]
  BY <1>3
<1> QED BY <1>4, Zenon DEF Follows

\* And any function that satisfies the steps stays in the set.
LEMMA StepsStay ==
  ASSUME NEW S, NEW n \in Nat, NEW f, f[0] \in S,
         \A k \in 1..n : f[k - 1] \in S => f[k] \in S
  PROVE  \A k \in 0..n : f[k] \in S
<1> DEFINE T == {m \in Nat : m <= n => f[m] \in S}
<1>1. 0 \in T
  OBVIOUS
<1>2. ASSUME NEW m \in Nat, m \in T PROVE m + 1 \in T
  <2>1. SUFFICES ASSUME m + 1 <= n PROVE f[m + 1] \in S
    OBVIOUS
  <2>2. m + 1 \in 1..n /\ (m + 1) - 1 = m
    BY <2>1
  <2>3. f[m] \in S
    BY <1>2, <2>1
  <2> QED BY <2>2, <2>3
<1>3. Nat \subseteq T
  <2> HIDE DEF T
  <2> QED BY <1>1, <1>2, SetInduction
<1> QED BY <1>3

\* Two functions that start alike and step alike stay alike.
LEMMA SameSteps ==
  ASSUME NEW n \in Nat, NEW f, NEW g, f[0] = g[0],
         \A k \in 1..n : f[k - 1] = g[k - 1] => f[k] = g[k]
  PROVE  \A k \in 0..n : f[k] = g[k]
<1> DEFINE T == {m \in Nat : m <= n => f[m] = g[m]}
<1>1. 0 \in T
  OBVIOUS
<1>2. ASSUME NEW m \in Nat, m \in T PROVE m + 1 \in T
  <2>1. SUFFICES ASSUME m + 1 <= n PROVE f[m + 1] = g[m + 1]
    OBVIOUS
  <2>2. f[m] = g[m]
    BY <1>2, <2>1
  <2>3. m + 1 \in 1..n /\ (m + 1) - 1 = m
    BY <2>1
  <2> QED BY <2>2, <2>3
<1> HIDE DEF T
<1>3. Nat \subseteq T
  BY <1>1, <1>2, SetInduction
<1> QED BY <1>3 DEF T

------------------------------------------------------------------------------
(* Sums *)

\* p holds the sums of the prefixes of v.
IsPrefixSums(p, v) ==
  /\ p \in [0..Len(v) -> Int]
  /\ p[0] = 0
  /\ \A i \in 1..Len(v) : p[i] = p[i - 1] + v[i]

\* The equation of PrefixSums has an integer-valued solution.
LEMMA PrefixSumsExist ==
  ASSUME NEW v \in Seq(Int)
  PROVE  \E p : IsPrefixSums(p, v)
<1> DEFINE T == {n \in Nat : n <= Len(v) =>
                  \E p \in [0..n -> Int] :
                    p[0] = 0 /\ \A i \in 1..n : p[i] = p[i - 1] + v[i]}
<1>1. 0 \in T
  <2> DEFINE z == [i \in 0..0 |-> 0]
  <2>1. z \in [0..0 -> Int] /\ z[0] = 0 /\ \A i \in 1..0 : z[i] = z[i - 1] + v[i]
    OBVIOUS
  <2> HIDE DEF z
  <2> QED BY <2>1
<1>2. ASSUME NEW n \in Nat, n \in T PROVE n + 1 \in T
  <2>a. n + 1 \in Nat
    OBVIOUS
  <2> SUFFICES ASSUME n + 1 <= Len(v)
               PROVE  \E p \in [0..(n + 1) -> Int] :
                        p[0] = 0 /\ \A i \in 1..(n + 1) : p[i] = p[i - 1] + v[i]
    BY <2>a, Zenon
  <2>0. Len(v) \in Nat
    BY LenProperties
  <2>1. PICK p \in [0..n -> Int] :
               p[0] = 0 /\ \A i \in 1..n : p[i] = p[i - 1] + v[i]
    BY <1>2, <2>0, SMTT(20)
  <2>2. v[n + 1] \in Int
    BY ElementOfSeq, <2>0
  <2> DEFINE q == [i \in 0..(n + 1) |-> IF i = n + 1 THEN p[n] + v[n + 1] ELSE p[i]]
  <2>3. q \in [0..(n + 1) -> Int]
    BY <2>1, <2>2
  <2>4. q[0] = 0
    BY <2>1
  <2>5. \A i \in 1..(n + 1) : q[i] = q[i - 1] + v[i]
    BY <2>1
  <2> HIDE DEF q
  <2> QED BY <2>3, <2>4, <2>5
<1>3. Len(v) \in Nat
  BY LenProperties
<1>4. Len(v) \in T
  <2> HIDE DEF T
  <2> QED BY <1>1, <1>2, <1>3, SetInduction
<1> QED BY <1>3, <1>4 DEF IsPrefixSums

\* PrefixSums satisfies its equation.
THEOREM PrefixSumsCorrect ==
  ASSUME NEW v \in Seq(Int)
  PROVE  IsPrefixSums(PrefixSums(v), v)
<1> DEFINE E(p) == p = [i \in 0..Len(v) |-> IF i = 0 THEN 0 ELSE p[i - 1] + v[i]]
           f == PrefixSums(v)
<1>0. Len(v) \in Nat /\ \A i \in 1..Len(v) : v[i] \in Int
  BY LenProperties, ElementOfSeq
<1>1. PICK p : IsPrefixSums(p, v)
  BY PrefixSumsExist
<1>2. E(p)
  BY <1>0, <1>1 DEF IsPrefixSums
<1>3. f = CHOOSE q : E(q)
  BY DEF PrefixSums
<1>4. E(f)
  BY <1>2, <1>3
<1> HIDE DEF f
<1>5. f = [i \in 0..Len(v) |-> f[i]] /\ f[0] = 0
  BY <1>0, <1>4
<1>6. \A i \in 1..Len(v) : f[i] = f[i - 1] + v[i]
  BY <1>0, <1>4
<1> DEFINE T == {n \in Nat : n <= Len(v) => f[n] \in Int}
<1>7. 0 \in T
  BY <1>5
<1>8. ASSUME NEW n \in Nat, n \in T PROVE n + 1 \in T
  BY <1>0, <1>6, <1>8, SMTT(20)
<1>9. \A n \in 0..Len(v) : f[n] \in Int
  <2> HIDE DEF T
  <2>1. Nat \subseteq T
    BY <1>7, <1>8, SetInduction
  <2> QED BY <2>1, <1>0 DEF T
<1>10. f \in [0..Len(v) -> Int]
  BY <1>5, <1>9
<1>11. IsPrefixSums(f, v)
  BY <1>5, <1>6, <1>10 DEF IsPrefixSums
<1> QED BY <1>11 DEF f

\* The sum of a sequence of integers is an integer.
THEOREM SumSeqType ==
  ASSUME NEW v \in Seq(Int)
  PROVE  SumSeq(v) \in Int
BY PrefixSumsCorrect, LenProperties DEF SumSeq, IsPrefixSums

\* Of nothing the sum is zero.
THEOREM SumSeqEmpty ==
  ASSUME NEW v \in Seq(Int), Len(v) = 0
  PROVE  SumSeq(v) = 0
BY PrefixSumsCorrect DEF SumSeq, IsPrefixSums

\* A sequence without negative terms has no negative sum.
THEOREM SumSeqNonNegative ==
  ASSUME NEW v \in Seq(Int), \A i \in 1..Len(v) : v[i] >= 0
  PROVE  SumSeq(v) >= 0
<1> DEFINE p == PrefixSums(v)
<1>1. IsPrefixSums(p, v)
  BY PrefixSumsCorrect
<1>2. Len(v) \in Nat /\ \A i \in 1..Len(v) : v[i] \in Int
  BY LenProperties, ElementOfSeq
<1> HIDE DEF p
<1> DEFINE T == {n \in Nat : n <= Len(v) => p[n] >= 0}
<1>3. 0 \in T
  BY <1>1 DEF IsPrefixSums
<1>4. ASSUME NEW n \in Nat, n \in T PROVE n + 1 \in T
  <2>1. n + 1 \in Nat
    OBVIOUS
  <2>2. SUFFICES ASSUME n + 1 <= Len(v) PROVE p[n + 1] >= 0
    BY <2>1, Zenon
  <2>3. p[n] >= 0 /\ p[n] \in Int
    BY <1>1, <1>2, <1>4, <2>2, SMTT(30) DEF IsPrefixSums
  <2>4. p[n + 1] = p[n] + v[n + 1]
    BY <1>1, <1>2, <2>2 DEF IsPrefixSums
  <2> QED BY <1>2, <2>2, <2>3, <2>4
<1>5. Len(v) \in T
  <2> HIDE DEF T
  <2> QED BY <1>2, <1>3, <1>4, SetInduction
<1> QED BY <1>2, <1>5 DEF SumSeq, p

\* Leading zeros do not change a sum: w is v without its first k terms.
THEOREM SumSeqDropZeros ==
  ASSUME NEW v \in Seq(Int), NEW w \in Seq(Int), NEW k \in Nat,
         Len(v) = k + Len(w),
         \A i \in 1..k : v[i] = 0,
         \A i \in 1..Len(w) : w[i] = v[k + i]
  PROVE  SumSeq(v) = SumSeq(w)
<1> DEFINE p == PrefixSums(v)
           q == PrefixSums(w)
<1>1. IsPrefixSums(p, v) /\ IsPrefixSums(q, w)
  BY PrefixSumsCorrect
<1>2. /\ Len(v) \in Nat /\ \A i \in 1..Len(v) : v[i] \in Int
      /\ Len(w) \in Nat /\ \A i \in 1..Len(w) : w[i] \in Int
  BY LenProperties, ElementOfSeq
<1> HIDE DEF p, q
<1> DEFINE Z == {n \in Nat : n <= k => p[n] = 0}
           T == {n \in Nat : n <= Len(w) => p[k + n] = q[n]}
<1>3. p[k] = 0
  <2>1. 0 \in Z
    BY <1>1 DEF IsPrefixSums
  <2>2. ASSUME NEW n \in Nat, n \in Z PROVE n + 1 \in Z
    BY <1>1, <1>2, <2>2 DEF IsPrefixSums
  <2>3. k \in Z
    <3> HIDE DEF Z
    <3> QED BY <2>1, <2>2, SetInduction
  <2> QED BY <2>3
<1>4. 0 \in T
  BY <1>1, <1>3 DEF IsPrefixSums
<1>5. ASSUME NEW n \in Nat, n \in T PROVE n + 1 \in T
  <2>1. n + 1 \in Nat
    OBVIOUS
  <2>2. SUFFICES ASSUME n + 1 <= Len(w) PROVE p[k + (n + 1)] = q[n + 1]
    BY <2>1, Zenon
  <2>3. p[k + n] = q[n]
    BY <1>2, <1>5, <2>2
  <2>4. q[n + 1] = q[n] + w[n + 1]
    BY <1>1, <1>2, <2>2 DEF IsPrefixSums
  <2>5. p[k + n + 1] = p[k + n] + v[k + n + 1]
    BY <1>1, <1>2, <2>2, SMTT(20) DEF IsPrefixSums
  <2>6. w[n + 1] = v[k + (n + 1)]
    BY <1>2, <2>2
  <2> QED BY <2>3, <2>4, <2>5, <2>6
<1>6. Len(w) \in T
  <2> HIDE DEF T
  <2> QED BY <1>2, <1>4, <1>5, SetInduction
<1> QED BY <1>2, <1>6 DEF SumSeq, p, q

\* One more term adds to the sum.
THEOREM SumSeqOneMore ==
  ASSUME NEW v \in Seq(Int), NEW w \in Seq(Int),
         Len(w) = Len(v) + 1,
         \A i \in 1..Len(v) : w[i] = v[i]
  PROVE  SumSeq(w) = SumSeq(v) + w[Len(v) + 1]
<1> DEFINE p == PrefixSums(v)
           q == PrefixSums(w)
<1>1. IsPrefixSums(p, v) /\ IsPrefixSums(q, w)
  BY PrefixSumsCorrect
<1>2. Len(v) \in Nat
  BY LenProperties
<1> HIDE DEF p, q
<1> DEFINE T == {n \in Nat : n <= Len(v) => p[n] = q[n]}
<1>3. 0 \in T
  BY <1>1 DEF IsPrefixSums
<1>4. ASSUME NEW n \in Nat, n \in T PROVE n + 1 \in T
  <2>1. n + 1 \in Nat
    OBVIOUS
  <2>2. SUFFICES ASSUME n + 1 <= Len(v) PROVE p[n + 1] = q[n + 1]
    BY <2>1, Zenon
  <2>3. p[n + 1] = p[n] + v[n + 1] /\ q[n + 1] = q[n] + w[n + 1]
    BY <1>1, <1>2, <2>2 DEF IsPrefixSums
  <2> QED BY <1>2, <1>4, <2>2, <2>3
<1>5. Len(v) \in T
  <2> HIDE DEF T
  <2> QED BY <1>2, <1>3, <1>4, SetInduction
<1>6. q[Len(v) + 1] = q[Len(v)] + w[Len(v) + 1]
  BY <1>1, <1>2 DEF IsPrefixSums
<1> QED BY <1>2, <1>5, <1>6 DEF SumSeq, p, q

\* Term by term at most d above the terms of a sequence without negative terms that
\* is no shorter, a sum is at most d a term above the other sum.
THEOREM SumSeqAtMost ==
  ASSUME NEW v \in Seq(Int), NEW w \in Seq(Int), NEW d \in Nat,
         Len(v) <= Len(w),
         \A i \in 1..Len(w) : w[i] >= 0,
         \A i \in 1..Len(v) : v[i] <= w[i] + d
  PROVE  SumSeq(v) <= SumSeq(w) + d * Len(v)
<1> DEFINE p == PrefixSums(v)
           q == PrefixSums(w)
<1>1. IsPrefixSums(p, v) /\ IsPrefixSums(q, w)
  BY PrefixSumsCorrect
<1>2. /\ Len(v) \in Nat /\ \A i \in 1..Len(v) : v[i] \in Int
      /\ Len(w) \in Nat /\ \A i \in 1..Len(w) : w[i] \in Int
  BY LenProperties, ElementOfSeq
<1> HIDE DEF p, q
<1>3. /\ p[0] = 0 /\ \A i \in 0..Len(v) : p[i] \in Int
      /\ q[0] = 0 /\ \A i \in 0..Len(w) : q[i] \in Int
      /\ \A i \in 1..Len(v) : p[i] = p[i - 1] + v[i]
      /\ \A i \in 1..Len(w) : q[i] = q[i - 1] + w[i]
  BY <1>1 DEF IsPrefixSums
<1> DEFINE T == {n \in Nat : n <= Len(v) => p[n] <= q[n] + d * n}
           Z == {n \in Nat : Len(v) + n <= Len(w) => q[Len(v)] <= q[Len(v) + n]}
<1>4. 0 \in T
  BY <1>3
<1>5. ASSUME NEW n \in Nat, n \in T PROVE n + 1 \in T
  <2>1. n + 1 \in Nat
    OBVIOUS
  <2>2. SUFFICES ASSUME n + 1 <= Len(v) PROVE p[n + 1] <= q[n + 1] + d * (n + 1)
    BY <2>1, Zenon
  <2>3. p[n] <= q[n] + d * n /\ p[n] \in Int /\ q[n] \in Int
    BY <1>2, <1>3, <1>5, <2>2
  <2>4. /\ n + 1 \in 1..Len(v) /\ n + 1 \in 1..Len(w) /\ (n + 1) - 1 = n
        /\ v[n + 1] \in Int /\ w[n + 1] \in Int /\ v[n + 1] <= w[n + 1] + d
    BY <1>2, <2>2
  <2>5. p[n + 1] = p[n] + v[n + 1] /\ q[n + 1] = q[n] + w[n + 1]
    BY <1>3, <2>4
  <2>6. d * (n + 1) = d * n + d /\ d * n \in Int
    OBVIOUS
  <2>7. p[n + 1] <= (q[n] + d * n) + (w[n + 1] + d)
    <3>1. \A a, b, c, e \in Int : a <= b /\ c <= e => a + c <= b + e
      OBVIOUS
    <3>a. \A x, y \in Int : x + y \in Int
      OBVIOUS
    <3>2. q[n] + d * n \in Int /\ w[n + 1] + d \in Int
      <4>1. d \in Int
        OBVIOUS
      <4> QED BY <2>3, <2>4, <2>6, <3>a, <4>1, Zenon
    <3>3. p[n] + v[n + 1] <= (q[n] + d * n) + (w[n + 1] + d)
      BY <2>3, <2>4, <3>1, <3>2, Zenon
    <3> QED BY <2>5, <3>3, Zenon
  <2>8. (q[n] + d * n) + (w[n + 1] + d) = q[n + 1] + d * (n + 1)
    BY <2>3, <2>4, <2>5, <2>6, SMTT(30)
  <2> QED BY <2>7, <2>8
<1>6. Len(v) \in T
  <2> HIDE DEF T
  <2> QED BY <1>2, <1>4, <1>5, SetInduction
<1>7. 0 \in Z
  BY <1>2, <1>3
<1>8. ASSUME NEW n \in Nat, n \in Z PROVE n + 1 \in Z
  <2>1. n + 1 \in Nat
    OBVIOUS
  <2>2. SUFFICES ASSUME Len(v) + (n + 1) <= Len(w) PROVE q[Len(v)] <= q[Len(v) + (n + 1)]
    BY <2>1, Zenon
  <2>3. q[Len(v)] <= q[Len(v) + n]
    BY <1>2, <1>8, <2>2
  <2>4. /\ Len(v) + (n + 1) \in 1..Len(w) /\ (Len(v) + (n + 1)) - 1 = Len(v) + n
        /\ Len(v) + n \in 0..Len(w) /\ Len(v) \in 0..Len(w)
    BY <1>2, <2>2
  <2>5. q[Len(v) + (n + 1)] = q[Len(v) + n] + w[Len(v) + (n + 1)]
    BY <1>3, <2>4
  <2> QED BY <1>2, <1>3, <2>3, <2>4, <2>5
<1>9. PICK rest \in Nat : Len(w) = Len(v) + rest
  <2>1. Len(w) - Len(v) \in Nat /\ Len(w) = Len(v) + (Len(w) - Len(v))
    BY <1>2
  <2> QED BY <2>1
<1>10. rest \in Z
  <2> HIDE DEF Z
  <2> QED BY <1>7, <1>8, SetInduction
<1>11. q[Len(v)] <= q[Len(w)]
  BY <1>9, <1>10
<1>12. p[Len(v)] <= q[Len(w)] + d * Len(v)
  <2> DEFINE dl == d * Len(v)
  <2>1. dl \in Int /\ p[Len(v)] <= q[Len(v)] + dl
    BY <1>2, <1>6
  <2>2. p[Len(v)] \in Int /\ q[Len(v)] \in Int /\ q[Len(w)] \in Int
    BY <1>2, <1>3
  <2> HIDE DEF dl
  <2>3. p[Len(v)] <= q[Len(w)] + dl
    BY <1>11, <2>1, <2>2
  <2> QED BY <2>3 DEF dl
<1> QED BY <1>12 DEF SumSeq, p, q

\* A factor of every term is a factor of the sum.
THEOREM SumSeqScaled ==
  ASSUME NEW v \in Seq(Int), NEW w \in Seq(Int), NEW c \in Int,
         Len(w) = Len(v),
         \A i \in 1..Len(v) : w[i] = c * v[i]
  PROVE  SumSeq(w) = c * SumSeq(v)
<1> DEFINE p == PrefixSums(v)
           q == PrefixSums(w)
<1>1. IsPrefixSums(p, v) /\ IsPrefixSums(q, w)
  BY PrefixSumsCorrect
<1>2. Len(v) \in Nat /\ \A i \in 1..Len(v) : v[i] \in Int
  BY LenProperties, ElementOfSeq
<1> HIDE DEF p, q
<1>3. /\ p[0] = 0 /\ q[0] = 0
      /\ \A i \in 0..Len(v) : p[i] \in Int /\ q[i] \in Int
      /\ \A i \in 1..Len(v) : p[i] = p[i - 1] + v[i] /\ q[i] = q[i - 1] + w[i]
  BY <1>1 DEF IsPrefixSums
<1> DEFINE T == {n \in Nat : n <= Len(v) => q[n] = c * p[n]}
<1>4. 0 \in T
  BY <1>3
<1>5. ASSUME NEW n \in Nat, n \in T PROVE n + 1 \in T
  <2>1. n + 1 \in Nat
    OBVIOUS
  <2>2. SUFFICES ASSUME n + 1 <= Len(v) PROVE q[n + 1] = c * p[n + 1]
    BY <2>1, Zenon
  <2>3. q[n] = c * p[n] /\ p[n] \in Int
    BY <1>2, <1>3, <1>5, <2>2
  <2>4. n + 1 \in 1..Len(v) /\ (n + 1) - 1 = n /\ v[n + 1] \in Int
    BY <1>2, <2>2
  <2>5. p[n + 1] = p[n] + v[n + 1] /\ q[n + 1] = q[n] + c * v[n + 1]
    BY <1>3, <2>4
  <2>6. c * (p[n] + v[n + 1]) = c * p[n] + c * v[n + 1]
    BY <2>3, <2>4
  <2> QED BY <2>3, <2>5, <2>6
<1>6. Len(v) \in T
  <2> HIDE DEF T
  <2> QED BY <1>2, <1>4, <1>5, SetInduction
<1> QED BY <1>2, <1>6 DEF SumSeq, p, q

\* No term of a sequence without negative terms is larger than the sum.
THEOREM SumSeqElement ==
  ASSUME NEW v \in Seq(Int), \A i \in 1..Len(v) : v[i] >= 0,
         NEW k \in 1..Len(v)
  PROVE  v[k] <= SumSeq(v)
<1> DEFINE p == PrefixSums(v)
<1>1. IsPrefixSums(p, v)
  BY PrefixSumsCorrect
<1>2. Len(v) \in Nat /\ \A i \in 1..Len(v) : v[i] \in Int
  BY LenProperties, ElementOfSeq
<1> HIDE DEF p
<1>3. /\ p[0] = 0 /\ \A i \in 0..Len(v) : p[i] \in Int
      /\ \A i \in 1..Len(v) : p[i] = p[i - 1] + v[i]
  BY <1>1 DEF IsPrefixSums
<1> DEFINE T == {n \in Nat : n <= Len(v) => p[n] >= 0 /\ (k <= n => v[k] <= p[n])}
<1>4. 0 \in T
  BY <1>3
<1>5. ASSUME NEW n \in Nat, n \in T PROVE n + 1 \in T
  <2>1. n + 1 \in Nat
    OBVIOUS
  <2>2. SUFFICES ASSUME n + 1 <= Len(v)
                 PROVE  p[n + 1] >= 0 /\ (k <= n + 1 => v[k] <= p[n + 1])
    BY <2>1, Zenon
  <2>3. p[n] >= 0 /\ (k <= n => v[k] <= p[n]) /\ p[n] \in Int
    BY <1>2, <1>3, <1>5, <2>2
  <2>4. n + 1 \in 1..Len(v) /\ (n + 1) - 1 = n /\ v[n + 1] \in Int /\ v[n + 1] >= 0
    BY <1>2, <2>2
  <2>5. p[n + 1] = p[n] + v[n + 1]
    BY <1>3, <2>4
  <2> QED BY <1>2, <2>3, <2>4, <2>5
<1>6. Len(v) \in T
  <2> HIDE DEF T
  <2> QED BY <1>2, <1>4, <1>5, SetInduction
<1> QED BY <1>2, <1>6 DEF SumSeq, p

------------------------------------------------------------------------------
(* Retaining *)

\* p holds what is kept of every prefix of s.
IsPrefixRetains(p, s, keep, S) ==
  /\ p \in [0..Len(s) -> Seq(S)]
  /\ p[0] = <<>>
  /\ \A i \in 1..Len(s) :
       p[i] = IF s[i] \in keep THEN Append(p[i - 1], s[i]) ELSE p[i - 1]

\* The equation of PrefixRetains has a solution.
LEMMA PrefixRetainsExist ==
  ASSUME NEW S, NEW s \in Seq(S), NEW keep
  PROVE  \E p : IsPrefixRetains(p, s, keep, S)
<1> DEFINE Solves(p, n) ==
             /\ p[0] = <<>>
             /\ \A i \in 1..n : p[i] = IF s[i] \in keep THEN Append(p[i - 1], s[i]) ELSE p[i - 1]
           T == {n \in Nat : n <= Len(s) => \E p \in [0..n -> Seq(S)] : Solves(p, n)}
<1>0. Len(s) \in Nat /\ \A i \in 1..Len(s) : s[i] \in S
  BY LenProperties, ElementOfSeq
<1>1. 0 \in T
  <2> DEFINE z == [i \in 0..0 |-> <<>>]
  <2>1. z \in [0..0 -> Seq(S)] /\ Solves(z, 0)
    BY EmptySeq
  <2> HIDE DEF z
  <2> QED BY <2>1
<1>2. ASSUME NEW n \in Nat, n \in T PROVE n + 1 \in T
  <2>a. n + 1 \in Nat
    OBVIOUS
  <2> SUFFICES ASSUME n + 1 <= Len(s)
               PROVE  \E p \in [0..(n + 1) -> Seq(S)] : Solves(p, n + 1)
    BY <2>a, Zenon
  <2>1. PICK p \in [0..n -> Seq(S)] : Solves(p, n)
    BY <1>0, <1>2, SMTT(20)
  <2> DEFINE next == IF s[n + 1] \in keep THEN Append(p[n], s[n + 1]) ELSE p[n]
  <2>2. next \in Seq(S)
    <3>1. p[n] \in Seq(S) /\ s[n + 1] \in S
      BY <1>0, <2>1
    <3> QED BY <3>1, AppendProperties
  <2> HIDE DEF next
  <2> DEFINE q == [i \in 0..(n + 1) |-> IF i = n + 1 THEN next ELSE p[i]]
  <2>3. q \in [0..(n + 1) -> Seq(S)]
    BY <2>1, <2>2
  <2>4. \A i \in 0..n : q[i] = p[i]
    OBVIOUS
  <2>5. q[n + 1] = next
    OBVIOUS
  <2> HIDE DEF q
  <2>6. Solves(q, n + 1)
    <3>1. q[0] = <<>>
      BY <2>1, <2>4
    <3>2. ASSUME NEW i \in 1..(n + 1)
          PROVE  q[i] = IF s[i] \in keep THEN Append(q[i - 1], s[i]) ELSE q[i - 1]
      <4>1. CASE i = n + 1
        <5>1. q[i - 1] = p[n] /\ q[i] = next
          BY <2>4, <2>5, <4>1
        <5> QED BY <5>1, <4>1 DEF next
      <4>2. CASE i # n + 1
        <5>1. i \in 1..n /\ q[i] = p[i] /\ q[i - 1] = p[i - 1]
          BY <2>4, <4>2
        <5> QED BY <2>1, <5>1
      <4> QED BY <4>1, <4>2
    <3> QED BY <3>1, <3>2
  <2> QED BY <2>3, <2>6
<1>3. Len(s) \in T
  <2> HIDE DEF T
  <2> QED BY <1>0, <1>1, <1>2, SetInduction
<1> QED BY <1>0, <1>3 DEF IsPrefixRetains

\* PrefixRetains satisfies its equation.
LEMMA PrefixRetainsCorrect ==
  ASSUME NEW S, NEW s \in Seq(S), NEW keep
  PROVE  IsPrefixRetains(PrefixRetains(s, keep), s, keep, S)
<1> DEFINE V(p, i) == IF i = 0 THEN <<>>
                      ELSE IF s[i] \in keep THEN Append(p[i - 1], s[i]) ELSE p[i - 1]
           E(p) == p = [i \in 0..Len(s) |-> V(p, i)]
           f == PrefixRetains(s, keep)
<1>0. Len(s) \in Nat /\ \A i \in 1..Len(s) : s[i] \in S
  BY LenProperties, ElementOfSeq
<1>1. PICK p : IsPrefixRetains(p, s, keep, S)
  BY PrefixRetainsExist
<1>2. E(p)
  <2>1. p = [i \in 0..Len(s) |-> p[i]] /\ p[0] = <<>>
    BY <1>1 DEF IsPrefixRetains
  <2>2. \A i \in 0..Len(s) : p[i] = V(p, i)
    <3>1. \A i \in 0..Len(s) : i # 0 => i \in 1..Len(s)
      BY <1>0
    <3> QED BY <1>1, <2>1, <3>1, Zenon DEF IsPrefixRetains
  <2> HIDE DEF V
  <2> QED BY <2>1, <2>2
<1>3. f = CHOOSE q : E(q)
  BY DEF PrefixRetains
<1>4. E(f)
  BY <1>2, <1>3
<1> HIDE DEF f
<1>a. f = [i \in 0..Len(s) |-> f[i]] /\ \A i \in 0..Len(s) : f[i] = V(f, i)
  <2> HIDE DEF V
  <2> QED BY <1>4
<1>b. 0 \in 0..Len(s) /\ \A i \in 1..Len(s) : i \in 0..Len(s) /\ i # 0
  BY <1>0
<1>5. f = [i \in 0..Len(s) |-> f[i]] /\ f[0] = <<>>
  BY <1>a, <1>b
<1>6. \A i \in 1..Len(s) : f[i] = IF s[i] \in keep THEN Append(f[i - 1], s[i]) ELSE f[i - 1]
  BY <1>a, <1>b, Zenon
<1> DEFINE T == {n \in Nat : n <= Len(s) => f[n] \in Seq(S)}
<1>7. 0 \in T
  BY <1>5, EmptySeq
<1>8. ASSUME NEW n \in Nat, n \in T PROVE n + 1 \in T
  <2>1. n + 1 \in Nat
    OBVIOUS
  <2>2. SUFFICES ASSUME n + 1 <= Len(s) PROVE f[n + 1] \in Seq(S)
    BY <2>1, Zenon
  <2>3. f[n] \in Seq(S) /\ s[n + 1] \in S
    BY <1>0, <1>8, <2>2
  <2>4. f[n + 1] = IF s[n + 1] \in keep THEN Append(f[n], s[n + 1]) ELSE f[n]
    BY <1>0, <1>6, <2>2
  <2> QED BY <2>3, <2>4, AppendProperties
<1>9. \A n \in 0..Len(s) : f[n] \in Seq(S)
  <2> HIDE DEF T
  <2>1. Nat \subseteq T
    BY <1>7, <1>8, SetInduction
  <2> QED BY <2>1, <1>0 DEF T
<1>10. f \in [0..Len(s) -> Seq(S)]
  BY <1>5, <1>9
<1>11. IsPrefixRetains(f, s, keep, S)
  BY <1>5, <1>6, <1>10 DEF IsPrefixRetains
<1> QED BY <1>11 DEF f

\* r is what the increasing positions e of s[1..n] select, and they are the
\* positions of the elements to keep.
Selects(e, r, s, n, keep) ==
  /\ e \in [1..Len(r) -> 1..n]
  /\ \A i, j \in 1..Len(r) : i < j => e[i] < e[j]
  /\ \A i \in 1..Len(r) : r[i] = s[e[i]] /\ r[i] \in keep
  /\ \A k \in 1..n : s[k] \in keep => \E i \in 1..Len(r) : e[i] = k

\* Retain keeps exactly the elements to keep, each once and in their order.
THEOREM RetainCorrect ==
  ASSUME NEW S, NEW s \in Seq(S), NEW keep
  PROVE  /\ Retain(s, keep) \in Seq(S)
         /\ \E e : Selects(e, Retain(s, keep), s, Len(s), keep)
<1> DEFINE p == PrefixRetains(s, keep)
           T == {n \in Nat : n <= Len(s) => \E e : Selects(e, p[n], s, n, keep)}
<1>0. Len(s) \in Nat
  BY LenProperties
<1>1. IsPrefixRetains(p, s, keep, S)
  BY PrefixRetainsCorrect
<1> HIDE DEF p
<1>2. 0 \in T
  <2>1. p[0] = <<>> /\ Len(p[0]) = 0
    BY <1>1 DEF IsPrefixRetains
  <2>2. Selects([i \in 1..0 |-> 0], p[0], s, 0, keep)
    BY <2>1 DEF Selects
  <2> QED BY <2>2
<1>3. ASSUME NEW n \in Nat, n \in T PROVE n + 1 \in T
  <2>1. n + 1 \in Nat
    OBVIOUS
  <2>2. SUFFICES ASSUME n + 1 <= Len(s) PROVE \E e : Selects(e, p[n + 1], s, n + 1, keep)
    BY <2>1, Zenon
  <2>3. PICK e : Selects(e, p[n], s, n, keep)
    BY <1>0, <1>3, <2>2
  <2>4. /\ p[n] \in Seq(S) /\ Len(p[n]) \in Nat
        /\ p[n + 1] = IF s[n + 1] \in keep THEN Append(p[n], s[n + 1]) ELSE p[n]
    <3>1. n \in 0..Len(s) /\ n + 1 \in 1..Len(s) /\ (n + 1) - 1 = n
      BY <1>0, <2>2
    <3>2. p[n] \in Seq(S)
      BY <1>1, <3>1 DEF IsPrefixRetains
    <3>3. p[n + 1] = IF s[n + 1] \in keep THEN Append(p[n], s[n + 1]) ELSE p[n]
      BY <1>1, <3>1 DEF IsPrefixRetains
    <3> QED BY <3>2, <3>3, LenProperties
  <2>5. CASE s[n + 1] \notin keep
    <3>1. p[n + 1] = p[n]
      BY <2>4, <2>5
    <3>2. Selects(e, p[n], s, n + 1, keep)
      BY <2>3, <2>4, <2>5 DEF Selects
    <3> QED BY <3>1, <3>2
  <2>6. CASE s[n + 1] \in keep
    <3> DEFINE l == Len(p[n])
               r == p[n + 1]
               d == [i \in 1..(l + 1) |-> IF i = l + 1 THEN n + 1 ELSE e[i]]
    <3>1. /\ Len(r) = l + 1 /\ l \in Nat
          /\ \A i \in 1..l : r[i] = p[n][i]
          /\ r[l + 1] = s[n + 1]
      <4>1. s[n + 1] \in S
        BY <1>0, <2>2, ElementOfSeq
      <4> QED BY <2>4, <2>6, <4>1, AppendProperties
    <3>2. /\ e \in [1..l -> 1..n]
          /\ \A i, j \in 1..l : i < j => e[i] < e[j]
          /\ \A i \in 1..l : p[n][i] = s[e[i]] /\ p[n][i] \in keep
          /\ \A k \in 1..n : s[k] \in keep => \E i \in 1..l : e[i] = k
      BY <2>3 DEF Selects
    <3> HIDE DEF l, r
    <3>3. /\ \A i \in 1..l : d[i] = e[i] /\ d[i] \in 1..n
          /\ d[l + 1] = n + 1
          /\ d \in [1..(l + 1) -> 1..(n + 1)]
      BY <3>1, <3>2
    <3> HIDE DEF d
    <3>4. \A i \in 1..(l + 1) : i \in 1..l \/ i = l + 1
      BY <3>1
    <3>5. \A i, j \in 1..(l + 1) : i < j => d[i] < d[j]
      BY <3>1, <3>2, <3>3, <3>4, SMTT(20)
    <3>6. \A i \in 1..(l + 1) : r[i] = s[d[i]] /\ r[i] \in keep
      BY <2>6, <3>1, <3>2, <3>3, <3>4
    <3>7. ASSUME NEW k \in 1..(n + 1), s[k] \in keep PROVE \E i \in 1..(l + 1) : d[i] = k
      <4>1. CASE k = n + 1
        BY <3>1, <3>3, <4>1
      <4>2. CASE k # n + 1
        <5>1. k \in 1..n
          BY <4>2
        <5>2. PICK i \in 1..l : e[i] = k
          BY <3>2, <3>7, <5>1
        <5> QED BY <3>1, <3>3, <5>2
      <4> QED BY <4>1, <4>2
    <3>8. Selects(d, r, s, n + 1, keep)
      BY <3>1, <3>3, <3>5, <3>6, <3>7 DEF Selects
    <3> QED BY <3>8 DEF r
  <2> QED BY <2>5, <2>6
<1>4. Len(s) \in T
  <2> HIDE DEF T
  <2> QED BY <1>0, <1>2, <1>3, SetInduction
<1>5. Retain(s, keep) \in Seq(S)
  BY <1>0, <1>1 DEF Retain, p, IsPrefixRetains
<1> QED BY <1>0, <1>4, <1>5 DEF Retain, p

\* The i-th selected position is at least i, so no more are selected than there
\* are.
THEOREM SelectsLength ==
  ASSUME NEW S, NEW r \in Seq(S), NEW s, NEW n \in Nat, NEW keep, NEW e,
         Selects(e, r, s, n, keep)
  PROVE  Len(r) <= n
<1> DEFINE T == {i \in Nat : i \in 1..Len(r) => i <= e[i]}
<1>0. Len(r) \in Nat /\ \A i \in 1..Len(r) : e[i] \in 1..n
  BY LenProperties DEF Selects
<1>1. 0 \in T
  OBVIOUS
<1>2. ASSUME NEW i \in Nat, i \in T PROVE i + 1 \in T
  <2>1. i + 1 \in Nat
    OBVIOUS
  <2>2. SUFFICES ASSUME i + 1 \in 1..Len(r) PROVE i + 1 <= e[i + 1]
    BY <2>1, Zenon
  <2>3. CASE i = 0
    BY <1>0, <2>2, <2>3
  <2>4. CASE i # 0
    <3>1. i \in 1..Len(r) /\ i < i + 1
      BY <1>0, <2>2, <2>4
    <3>2. e[i] < e[i + 1]
      BY <2>2, <3>1 DEF Selects
    <3>3. i <= e[i]
      BY <1>2, <3>1
    <3> QED BY <1>0, <2>2, <3>1, <3>2, <3>3
  <2> QED BY <2>3, <2>4
<1>3. \A i \in 1..Len(r) : i <= e[i]
  <2> HIDE DEF T
  <2>1. Nat \subseteq T
    BY <1>1, <1>2, SetInduction
  <2> QED BY <2>1, <1>0 DEF T
<1>4. CASE Len(r) = 0
  BY <1>4
<1>5. CASE Len(r) # 0
  <2>1. Len(r) \in 1..Len(r)
    BY <1>0, <1>5
  <2> QED BY <1>0, <1>3, <2>1
<1> QED BY <1>4, <1>5

\* The positions e and f share s out among two sequences, each in the order of s.
Splits(s, r, d, e, f) ==
  /\ Len(s) \in Nat /\ Len(r) \in Nat /\ Len(d) \in Nat /\ Len(r) <= Len(s)
  /\ \A i \in 1..Len(r) : e[i] \in 1..Len(s) /\ r[i] = s[e[i]]
  /\ \A i, j \in 1..Len(r) : i < j => e[i] < e[j]
  /\ \A i \in 1..Len(d) : f[i] \in 1..Len(s) /\ d[i] = s[f[i]]
  /\ \A i, j \in 1..Len(d) : i < j => f[i] < f[j]
  /\ \A k \in 1..Len(s) : \/ \E i \in 1..Len(r) : e[i] = k
                          \/ \E i \in 1..Len(d) : f[i] = k
  /\ \A i \in 1..Len(r) : \A j \in 1..Len(d) : e[i] # f[j]

\* Retaining one set of elements and then the others shares a sequence out.
THEOREM RetainSplits ==
  ASSUME NEW S, NEW s \in Seq(S), NEW A, NEW B,
         \A k \in 1..Len(s) : s[k] \in A <=> s[k] \notin B
  PROVE  \E e, f : Splits(s, Retain(s, A), Retain(s, B), e, f)
<1> DEFINE r == Retain(s, A)
           d == Retain(s, B)
<1>1. r \in Seq(S) /\ d \in Seq(S)
  BY RetainCorrect
<1>2. PICK e : Selects(e, r, s, Len(s), A)
  BY RetainCorrect
<1>3. PICK f : Selects(f, d, s, Len(s), B)
  BY RetainCorrect
<1> HIDE DEF r, d
<1>4. Len(s) \in Nat /\ Len(r) \in Nat /\ Len(d) \in Nat
  BY <1>1, LenProperties
<1>5. Len(r) <= Len(s)
  BY <1>1, <1>2, <1>4, SelectsLength
<1>6. /\ \A i \in 1..Len(r) : e[i] \in 1..Len(s) /\ r[i] = s[e[i]] /\ r[i] \in A
      /\ \A i, j \in 1..Len(r) : i < j => e[i] < e[j]
      /\ \A k \in 1..Len(s) : s[k] \in A => \E i \in 1..Len(r) : e[i] = k
  BY <1>2 DEF Selects
<1>7. /\ \A i \in 1..Len(d) : f[i] \in 1..Len(s) /\ d[i] = s[f[i]] /\ d[i] \in B
      /\ \A i, j \in 1..Len(d) : i < j => f[i] < f[j]
      /\ \A k \in 1..Len(s) : s[k] \in B => \E i \in 1..Len(d) : f[i] = k
  BY <1>3 DEF Selects
<1>8. \A k \in 1..Len(s) : \/ \E i \in 1..Len(r) : e[i] = k
                          \/ \E i \in 1..Len(d) : f[i] = k
  BY <1>6, <1>7
<1>9. \A i \in 1..Len(r) : \A j \in 1..Len(d) : e[i] # f[j]
  <2> SUFFICES ASSUME NEW i \in 1..Len(r), NEW j \in 1..Len(d), e[i] = f[j] PROVE FALSE
    OBVIOUS
  <2>1. r[i] = d[j] /\ r[i] = s[e[i]] /\ e[i] \in 1..Len(s) /\ r[i] \in A /\ d[j] \in B
    BY <1>6, <1>7
  <2> QED BY <2>1
<1>10. Splits(s, r, d, e, f)
  BY <1>4, <1>5, <1>6, <1>7, <1>8, <1>9 DEF Splits
<1> QED BY <1>10 DEF r, d

\* What is retained of a sequence are elements of it that were to be kept.
THEOREM RetainElements ==
  ASSUME NEW S, NEW s \in Seq(S), NEW keep
  PROVE  /\ Retain(s, keep) \in Seq(S)
         /\ Len(Retain(s, keep)) \in Nat
         /\ \A i \in 1..Len(Retain(s, keep)) :
              /\ Retain(s, keep)[i] \in keep
              /\ \E k \in 1..Len(s) : Retain(s, keep)[i] = s[k]
<1> DEFINE r == Retain(s, keep)
<1>1. r \in Seq(S) /\ \E e : Selects(e, r, s, Len(s), keep)
  BY RetainCorrect
<1>2. Len(r) \in Nat
  BY <1>1, LenProperties
<1> HIDE DEF r
<1>3. \A i \in 1..Len(r) : r[i] \in keep /\ \E k \in 1..Len(s) : r[i] = s[k]
  BY <1>1 DEF Selects
<1> QED BY <1>1, <1>2, <1>3 DEF r
==============================================================================
