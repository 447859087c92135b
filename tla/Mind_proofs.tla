----------------------------- MODULE Mind_proofs -----------------------------
(***************************************************************************)
(* What is proved of the parts of the mind (MCMind): sums, which the code  *)
(* makes of lists, then component by component the inductive invariant,    *)
(* the steps that keep it and the property that follows from it.           *)
(***************************************************************************)
EXTENDS Consolidation, Recall, Phases, EmergentPhi, Autonomy, Affect, Optimizer,
        Verdict, Voice, TurnRules, FiniteSetTheorems, WellFoundedInduction, TLAPS

(* The least of a set of naturals, for inductions over sets.               *)
LEMMA LeastOf ==
    ASSUME NEW T, T \subseteq Nat, T # {}
    PROVE  \E m \in T : \A n \in T : m <= n
<1>1. PICK m \in T : \A n \in T : <<n, m>> \notin OpToRel(<, Nat)
  BY WFMin, NatLessThanWellFounded, ZenonT(60)
<1>2. \A n \in T : ~(n < m)
  <2> SUFFICES ASSUME NEW n \in T PROVE ~(n < m)
    OBVIOUS
  <2>1. n \in Nat /\ m \in Nat
    OBVIOUS
  <2> QED BY <1>1, <2>1, ZenonT(60) DEF OpToRel
<1> QED BY <1>2

(* A set of naturals with zero and the successor of each is all of them, up *)
(* to a bound.                                                             *)
LEMMA UpTo ==
    ASSUME NEW n \in Nat, NEW S, 0 \in S, \A i \in 0..n : i \in S /\ i + 1 <= n => i + 1 \in S
    PROVE  0..n \subseteq S
<1> DEFINE T == {i \in 0..n : i \notin S}
<1> SUFFICES ASSUME T # {} PROVE FALSE
  OBVIOUS
<1>1. T \subseteq Nat
  OBVIOUS
<1>2. PICK m \in T : \A i \in T : m <= i
  BY <1>1, LeastOf
<1>3. m \in 0..n /\ m \notin S /\ m # 0
  OBVIOUS
<1>4. m - 1 \in 0..n /\ ~(m <= m - 1)
  BY <1>3
<1>5. m - 1 \in S
  BY <1>2, <1>4
<1>6. (m - 1) + 1 = m
  BY <1>3
<1> QED BY <1>3, <1>4, <1>5, <1>6

(* Step after step, from v0: what a recursion over 0..n defines exists.    *)
Recursion(V, n, v0, step) ==
    \E g \in [0..n -> V] : g[0] = v0 /\ \A i \in 1..n : g[i] = step[i][g[i - 1]]

LEMMA Iterated ==
    ASSUME NEW V, NEW n \in Nat, NEW v0 \in V, NEW step \in [1..n -> [V -> V]]
    PROVE  Recursion(V, n, v0, step)
<1> USE DEF Recursion
<1> DEFINE Reaches(k, g) == g[0] = v0 /\ \A i \in 1..k : g[i] = step[i][g[i - 1]]
<1> DEFINE S == {k \in 0..n : \E g \in [0..n -> V] : Reaches(k, g)}
<1>1. 0 \in S
  <2>1. [i \in 0..n |-> v0] \in [0..n -> V]
    OBVIOUS
  <2>2. Reaches(0, [i \in 0..n |-> v0])
    OBVIOUS
  <2>3. 0 \in 0..n
    OBVIOUS
  <2> HIDE DEF Reaches
  <2> QED BY <2>1, <2>2, <2>3
<1>2. ASSUME NEW k \in 0..n, k \in S, k + 1 <= n PROVE k + 1 \in S
  <2>1. PICK g \in [0..n -> V] : Reaches(k, g)
    BY <1>2
  <2> DEFINE h == [g EXCEPT ![k + 1] = step[k + 1][g[k]]]
  <2>2. k + 1 \in 1..n /\ k \in 0..n
    BY <1>2
  <2>3. g[k] \in V
    BY <2>2
  <2>4. step[k + 1][g[k]] \in V
    BY <2>2, <2>3
  <2>5. h \in [0..n -> V]
    BY <2>4
  <2>6. h[k + 1] = step[k + 1][g[k]]
    BY <2>2
  <2>7. \A i \in 0..k : h[i] = g[i]
    BY <2>2
  <2>8. h[0] = v0
    BY <2>1, <2>7
  <2>9. ASSUME NEW i \in 1..(k + 1) PROVE h[i] = step[i][h[i - 1]]
    <3>1. CASE i = k + 1
      <4>1. i - 1 = k /\ h[k] = g[k]
        BY <3>1, <2>2, <2>7
      <4> HIDE DEF h
      <4> QED BY <3>1, <4>1, <2>6
    <3>2. CASE i # k + 1
      <4>1. i \in 1..k /\ i \in 0..k /\ i - 1 \in 0..k
        BY <3>2
      <4>2. h[i] = g[i] /\ h[i - 1] = g[i - 1]
        BY <4>1, <2>7
      <4> HIDE DEF h
      <4> QED BY <2>1, <4>1, <4>2
    <3> QED BY <3>1, <3>2
  <2>10. Reaches(k + 1, h)
    <3> HIDE DEF h
    <3> QED BY <2>8, <2>9
  <2>11. k + 1 \in 0..n
    BY <2>2
  <2> HIDE DEF h, Reaches
  <2> QED BY <2>5, <2>10, <2>11
<1>3. 0..n \subseteq S
  <2> HIDE DEF S
  <2> QED BY <1>1, <1>2, UpTo
<1>4. n \in S
  <2> HIDE DEF S
  <2> QED BY <1>3
<1> QED BY <1>4

-----------------------------------------------------------------------------
LEMMA SeqConcat ==
    ASSUME NEW X
    PROVE  \A r, s, t \in Seq(X) : /\ r \o s \in Seq(X) /\ (r \o s) \o t = r \o (s \o t)
                                   /\ r \o <<>> = r /\ <<>> \o r = r
OBVIOUS

(* What the concatenation of a row of sequences goes through.              *)
Flattening(X, row, n, g) ==
    /\ g \in [0..n -> Seq(X)] /\ g[0] = <<>>
    /\ \A i \in 1..n : g[i] = g[i - 1] \o row[i]

LEMMA Flattened ==
    ASSUME NEW X, NEW n \in Nat \ {0}, NEW row \in [1..n -> Seq(X)]
    PROVE  \E g : Flattening(X, row, n, g) /\ FlattenSeq(row) = g[n]
<1> DEFINE step == [i \in 1..n |-> [t \in Seq(X) |-> t \o row[i]]]
           Flat(g) == [i \in 1..n |-> IF i = 1 THEN row[i] ELSE g[i - 1] \o row[i]]
<1>1. <<>> \in Seq(X) /\ Len(row) = n
  OBVIOUS
<1>2. step \in [1..n -> [Seq(X) -> Seq(X)]]
  BY SeqConcat
<1>3. PICK g \in [0..n -> Seq(X)] : g[0] = <<>> /\ \A i \in 1..n : g[i] = step[i][g[i - 1]]
  <2> HIDE DEF step
  <2>1. Recursion(Seq(X), n, <<>>, step)
    BY <1>1, <1>2, Iterated
  <2> QED BY <2>1, ZenonT(60) DEF Recursion
<1>4. \A i \in 1..n : g[i] = g[i - 1] \o row[i]
  <2> TAKE i \in 1..n
  <2>1. i - 1 \in 0..n
    OBVIOUS
  <2>2. g[i - 1] \in Seq(X)
    BY <2>1
  <2>3. step[i][g[i - 1]] = g[i - 1] \o row[i]
    BY <2>2
  <2> QED BY <1>3, <2>3
<1> HIDE DEF step
<1> DEFINE h == [i \in 1..n |-> g[i]]
<1>5. h = Flat(h)
  <2> SUFFICES ASSUME NEW i \in 1..n PROVE g[i] = IF i = 1 THEN row[i] ELSE h[i - 1] \o row[i]
    OBVIOUS
  <2>1. CASE i = 1
    <3>1. row[1] \in Seq(X) /\ 1 \in 1..n /\ 1 - 1 = 0
      OBVIOUS
    <3>2. g[1] = <<>> \o row[1]
      <4> HIDE DEF h, Flat
      <4> QED BY <1>3, <1>4, <3>1
    <3>3. g[1] = row[1]
      BY <3>1, <3>2, SeqConcat
    <3> QED BY <2>1, <3>3
  <2>2. CASE i # 1
    <3>1. i - 1 \in 1..n
      BY <2>2
    <3>2. h[i - 1] = g[i - 1]
      BY <3>1
    <3> QED BY <1>4, <2>2, <3>2
  <2> QED BY <2>1, <2>2
<1> DEFINE f == CHOOSE x : x = Flat(x)
<1>6. f = Flat(f)
  <2> HIDE DEF Flat, h
  <2> QED BY <1>5
<1>7. FlattenSeq(row) = f[n]
  BY <1>1 DEF FlattenSeq
<1> HIDE DEF f, h
<1>8. \A i \in 0..n : i = 0 \/ f[i] = g[i]
  <2> DEFINE S == {i \in 0..n : i = 0 \/ f[i] = g[i]}
  <2>1. 0 \in S
    OBVIOUS
  <2>2. ASSUME NEW i \in 0..n, i \in S, i + 1 <= n PROVE i + 1 \in S
    <3>1. i + 1 \in 1..n /\ (i + 1) - 1 = i /\ i + 1 \in 0..n
      BY <2>2
    <3>2. f[i + 1] = IF i + 1 = 1 THEN row[i + 1] ELSE f[i] \o row[i + 1]
      BY <1>6, <3>1
    <3>3. g[i + 1] = g[i] \o row[i + 1] /\ row[i + 1] \in Seq(X)
      BY <1>4, <3>1
    <3>4. CASE i = 0
      <4>1. g[i + 1] = row[i + 1]
        BY <1>3, <3>3, <3>4, SeqConcat
      <4> QED BY <3>1, <3>2, <3>4, <4>1
    <3>5. CASE i # 0
      <4>1. f[i] = g[i] /\ i + 1 # 1
        BY <2>2, <3>5
      <4> QED BY <3>1, <3>2, <3>3, <4>1
    <3> QED BY <3>4, <3>5
  <2>3. 0..n \subseteq S
    <3> HIDE DEF S
    <3> QED BY <2>1, <2>2, UpTo
  <2> QED BY <2>3
<1>9. Flattening(X, row, n, g)
  BY <1>3, <1>4, Zenon DEF Flattening
<1>10. FlattenSeq(row) = g[n]
  <2>1. n \in 0..n /\ n # 0
    OBVIOUS
  <2> QED BY <1>7, <1>8, <2>1, Zenon
<1> QED BY <1>9, <1>10

LEMMA FlattenedIsSeq ==
    ASSUME NEW X, NEW n \in Nat, NEW row \in [1..n -> Seq(X)]
    PROVE  FlattenSeq(row) \in Seq(X)
<1>1. CASE n = 0
  <2>1. Len(row) = 0 /\ row \in Seq(X)
    BY <1>1
  <2> QED BY <2>1 DEF FlattenSeq
<1>2. CASE n # 0
  <2>1. n \in Nat \ {0} /\ n \in 0..n
    BY <1>2
  <2>2. PICK g : Flattening(X, row, n, g) /\ FlattenSeq(row) = g[n]
    BY <2>1, Flattened, ZenonT(60)
  <2> QED BY <2>1, <2>2 DEF Flattening
<1> QED BY <1>1, <1>2

-----------------------------------------------------------------------------
(* What the recursion of PartialSums defines. *)
LEMMA PartialSumsAre ==
    ASSUME NEW s \in Seq(Int)
    PROVE  /\ PartialSums(s) \in [0..Len(s) -> Int]
           /\ PartialSums(s)[0] = 0
           /\ \A i \in 1..Len(s) : PartialSums(s)[i] = PartialSums(s)[i - 1] + s[i]
<1> DEFINE n == Len(s)
           step == [i \in 1..n |-> [x \in Int |-> x + s[i]]]
           Sum(g) == [i \in 0..n |-> IF i = 0 THEN 0 ELSE g[i - 1] + s[i]]
<1>1. n \in Nat /\ s \in [1..n -> Int]
  OBVIOUS
<1>2. step \in [1..n -> [Int -> Int]]
  BY <1>1
<1>3. PICK g \in [0..n -> Int] :
        g[0] = 0 /\ \A i \in 1..n : g[i] = step[i][g[i - 1]]
  <2> HIDE DEF step, n
  <2>1. 0 \in Int
    OBVIOUS
  <2>2. Recursion(Int, n, 0, step)
    BY <1>1, <1>2, <2>1, Iterated
  <2> QED BY <2>2, ZenonT(60) DEF Recursion
<1>4. \A i \in 1..n : g[i] = g[i - 1] + s[i]
  <2> TAKE i \in 1..n
  <2>1. i - 1 \in 0..n
    BY <1>1
  <2>2. g[i - 1] \in Int
    BY <2>1
  <2>3. step[i][g[i - 1]] = g[i - 1] + s[i]
    BY <2>2
  <2> QED BY <1>3, <2>3
<1>5. g = Sum(g)
  <2> SUFFICES ASSUME NEW i \in 0..n PROVE g[i] = IF i = 0 THEN 0 ELSE g[i - 1] + s[i]
    OBVIOUS
  <2>1. i = 0 \/ i \in 1..n
    BY <1>1
  <2> HIDE DEF n
  <2> QED BY <1>3, <1>4, <2>1
<1> DEFINE f == CHOOSE h : h = Sum(h)
<1>6. f = Sum(f)
  <2> HIDE DEF Sum
  <2> QED BY <1>5
<1>7. PartialSums(s) = f
  BY DEF PartialSums
<1> HIDE DEF f
<1>8. f[0] = 0 /\ \A i \in 1..n : f[i] = f[i - 1] + s[i]
  <2>1. f[0] = 0
    BY <1>1, <1>6
  <2>2. ASSUME NEW i \in 1..n PROVE f[i] = f[i - 1] + s[i]
    <3>1. i \in 0..n /\ i # 0
      BY <1>1
    <3> QED BY <1>6, <3>1
  <2> QED BY <2>1, <2>2
<1>9. \A i \in 0..n : f[i] \in Int
  <2> DEFINE S == {i \in 0..n : f[i] \in Int}
  <2>1. 0 \in S
    BY <1>1, <1>8
  <2>2. ASSUME NEW i \in 0..n, i \in S, i + 1 <= n PROVE i + 1 \in S
    <3>1. i + 1 \in 1..n /\ (i + 1) - 1 = i /\ i + 1 \in 0..n
      BY <2>2, <1>1
    <3>2. s[i + 1] \in Int
      BY <3>1, <1>1
    <3>3. f[i + 1] = f[i] + s[i + 1]
      BY <3>1, <1>8
    <3> QED BY <2>2, <3>1, <3>2, <3>3
  <2>3. 0..n \subseteq S
    <3> HIDE DEF S, n
    <3> QED BY <1>1, <2>1, <2>2, UpTo
  <2> QED BY <2>3
<1>10. f \in [0..n -> Int]
  BY <1>6, <1>9
<1> QED BY <1>7, <1>8, <1>10

LEMMA SumIsInt == ASSUME NEW s \in Seq(Int) PROVE SumOfAll(s) \in Int
<1>1. Len(s) \in 0..Len(s)
  OBVIOUS
<1> QED BY <1>1, PartialSumsAre DEF SumOfAll

(* The sum of sums. *)
Adds(a, b, c) ==
    Len(a) = Len(c) /\ Len(b) = Len(c) /\ \A i \in 1..Len(c) : c[i] = a[i] + b[i]

LEMMA SumOfSums ==
    ASSUME NEW a \in Seq(Int), NEW b \in Seq(Int), NEW c \in Seq(Int), Adds(a, b, c)
    PROVE  SumOfAll(c) = SumOfAll(a) + SumOfAll(b)
<1> USE DEF Adds
<1> DEFINE n == Len(c)
           A == PartialSums(a)
           B == PartialSums(b)
           C == PartialSums(c)
           S == {i \in 0..n : C[i] = A[i] + B[i]}
<1>1. n \in Nat /\ \A i \in 1..n : a[i] \in Int /\ b[i] \in Int /\ c[i] \in Int
  OBVIOUS
<1>2. /\ A \in [0..n -> Int] /\ A[0] = 0 /\ \A i \in 1..n : A[i] = A[i - 1] + a[i]
      /\ B \in [0..n -> Int] /\ B[0] = 0 /\ \A i \in 1..n : B[i] = B[i - 1] + b[i]
      /\ C \in [0..n -> Int] /\ C[0] = 0 /\ \A i \in 1..n : C[i] = C[i - 1] + c[i]
  <2>1. A \in [0..n -> Int] /\ A[0] = 0 /\ \A i \in 1..n : A[i] = A[i - 1] + a[i]
    BY PartialSumsAre, ZenonT(60)
  <2>2. B \in [0..n -> Int] /\ B[0] = 0 /\ \A i \in 1..n : B[i] = B[i - 1] + b[i]
    BY PartialSumsAre, ZenonT(60)
  <2>3. C \in [0..n -> Int] /\ C[0] = 0 /\ \A i \in 1..n : C[i] = C[i - 1] + c[i]
    BY PartialSumsAre, ZenonT(60)
  <2> QED BY <2>1, <2>2, <2>3
<1>3. \A i \in 1..n : c[i] = a[i] + b[i]
  OBVIOUS
<1> HIDE DEF A, B, C
<1>4. 0 \in S
  BY <1>1, <1>2
<1>5. ASSUME NEW i \in 0..n, i \in S, i + 1 <= n PROVE i + 1 \in S
  <2>1. i + 1 \in 1..n /\ (i + 1) - 1 = i /\ i + 1 \in 0..n
    BY <1>1, <1>5
  <2>2. /\ A[i + 1] = A[i] + a[i + 1] /\ B[i + 1] = B[i] + b[i + 1]
        /\ C[i + 1] = C[i] + c[i + 1] /\ c[i + 1] = a[i + 1] + b[i + 1]
    <3> HIDE DEF n
    <3> QED BY <1>2, <1>3, <2>1
  <2>3. /\ A[i] \in Int /\ B[i] \in Int /\ a[i + 1] \in Int /\ b[i + 1] \in Int
    BY <1>1, <1>2, <2>1
  <2>4. C[i] = A[i] + B[i]
    BY <1>5
  <2>5. C[i + 1] = A[i + 1] + B[i + 1]
    <3> HIDE DEF n
    <3> QED BY <2>2, <2>3, <2>4
  <2> QED BY <2>1, <2>5
<1>6. 0..n \subseteq S
  <2> HIDE DEF S, n
  <2> QED BY <1>1, <1>4, <1>5, UpTo
<1>7. C[n] = A[n] + B[n]
  BY <1>1, <1>6
<1> QED BY <1>7 DEF SumOfAll, A, B, C

(* What is never positive adds up to nothing positive. *)
LEMMA SumNotPositive ==
    ASSUME NEW s \in Seq(Int), \A i \in 1..Len(s) : s[i] <= 0
    PROVE  SumOfAll(s) <= 0
<1> DEFINE n == Len(s)
           P == PartialSums(s)
           S == {i \in 0..n : P[i] <= 0}
<1>1. n \in Nat /\ \A i \in 1..n : s[i] \in Int /\ s[i] <= 0
  OBVIOUS
<1>2. P \in [0..n -> Int] /\ P[0] = 0 /\ \A i \in 1..n : P[i] = P[i - 1] + s[i]
  BY PartialSumsAre, ZenonT(60)
<1> HIDE DEF P
<1>3. 0 \in S
  BY <1>1, <1>2
<1>4. ASSUME NEW i \in 0..n, i \in S, i + 1 <= n PROVE i + 1 \in S
  <2>1. i + 1 \in 1..n /\ (i + 1) - 1 = i /\ i + 1 \in 0..n
    BY <1>1, <1>4
  <2>2. P[i + 1] = P[i] + s[i + 1] /\ s[i + 1] \in Int /\ s[i + 1] <= 0
    <3> HIDE DEF n
    <3> QED BY <1>1, <1>2, <2>1
  <2>3. P[i] \in Int /\ P[i] <= 0
    BY <1>2, <1>4
  <2>4. P[i + 1] <= 0
    <3> HIDE DEF n
    <3> QED BY <2>2, <2>3
  <2> QED BY <2>1, <2>4
<1>5. 0..n \subseteq S
  <2> HIDE DEF S, n
  <2> QED BY <1>1, <1>3, <1>4, UpTo
<1>6. P[n] <= 0
  BY <1>1, <1>5
<1> QED BY <1>6 DEF SumOfAll, P

-----------------------------------------------------------------------------
LEMMA BandConstant == Band \in Nat
  BY PhaseAssumption

\* The largest and the smallest of some phases.
LEMMA MaxOfPhases ==
    ASSUME NEW S \in SUBSET (1..5), S # {}
    PROVE  Max(S) \in S /\ \A i \in S : i <= Max(S)
<1>1. \A i \in 1..5 : i = 1 \/ i = 2 \/ i = 3 \/ i = 4 \/ i = 5
  OBVIOUS
<1>2. \E m \in S : \A i \in S : m >= i
  <2>1. CASE 5 \in S
    BY <2>1
  <2>2. CASE 5 \notin S /\ 4 \in S
    BY <1>1, <2>2
  <2>3. CASE 5 \notin S /\ 4 \notin S /\ 3 \in S
    BY <1>1, <2>3
  <2>4. CASE 5 \notin S /\ 4 \notin S /\ 3 \notin S /\ 2 \in S
    BY <1>1, <2>4
  <2>5. CASE 5 \notin S /\ 4 \notin S /\ 3 \notin S /\ 2 \notin S
    <3>1. PICK x \in S : TRUE
      OBVIOUS
    <3>2. \A i \in S : i = 1
      BY <1>1, <2>5
    <3> QED
      BY <3>1, <3>2
  <2> QED
    BY <2>1, <2>2, <2>3, <2>4, <2>5
<1>3. Max(S) \in S /\ \A i \in S : Max(S) >= i
  BY <1>2, ZenonT(60) DEF Max
<1> QED
  BY <1>3

LEMMA MinOfPhases ==
    ASSUME NEW S \in SUBSET (1..5), S # {}
    PROVE  Min(S) \in S /\ \A i \in S : Min(S) <= i
<1>1. \A i \in 1..5 : i = 1 \/ i = 2 \/ i = 3 \/ i = 4 \/ i = 5
  OBVIOUS
<1>2. \E m \in S : \A i \in S : m <= i
  <2>1. CASE 1 \in S
    BY <2>1
  <2>2. CASE 1 \notin S /\ 2 \in S
    BY <1>1, <2>2
  <2>3. CASE 1 \notin S /\ 2 \notin S /\ 3 \in S
    BY <1>1, <2>3
  <2>4. CASE 1 \notin S /\ 2 \notin S /\ 3 \notin S /\ 4 \in S
    BY <1>1, <2>4
  <2>5. CASE 1 \notin S /\ 2 \notin S /\ 3 \notin S /\ 4 \notin S
    <3>1. PICK x \in S : TRUE
      OBVIOUS
    <3>2. \A i \in S : i = 5
      BY <1>1, <2>5
    <3> QED
      BY <3>1, <3>2
  <2> QED
    BY <2>1, <2>2, <2>3, <2>4, <2>5
<1> QED
  BY <1>2, ZenonT(60) DEF Min

Thresholds == [1..5 -> Int]

LEMMA TypedThresholds ==
    \A e \in EmergentValues : DynamicThresholds(e) \in Thresholds /\ DynamicThresholds(e)[1] = 0
  BY DEF EmergentValues, DynamicThresholds, Thresholds

\* Up to the first threshold that is not passed by the band.
LEMMA UpgradedFits ==
    ASSUME NEW from \in 1..5, NEW p \in Int, NEW t \in Thresholds
    PROVE  LET u == Upgraded(from, p, t) IN
           /\ u \in from..5
           /\ \A i \in from + 1 .. u : p >= t[i] + Band
           /\ u < 5 => p < t[u + 1] + Band
<1> DEFINE S == {to \in from .. 5 : \A i \in from + 1 .. to : p >= t[i] + Band}
           u == Upgraded(from, p, t)
<1>1. from \in S /\ S \in SUBSET (1..5)
  OBVIOUS
<1>2. u = Max(S)
  BY DEF Upgraded, Best
<1> HIDE DEF u
<1>3. u \in S /\ \A i \in S : i <= u
  <2> HIDE DEF S
  <2> QED
    BY <1>1, <1>2, MaxOfPhases
<1>4. ASSUME u < 5, ~(p < t[u + 1] + Band) PROVE FALSE
  <2>1. u \in from..5 /\ u + 1 \in from..5 /\ t[u + 1] \in Int
    BY <1>3, <1>4 DEF Thresholds
  <2>2. p >= t[u + 1] + Band
    BY <1>4, <2>1, BandConstant
  <2>3. \A i \in from + 1 .. u + 1 : i \in from + 1 .. u \/ i = u + 1
    BY <2>1
  <2>4. u + 1 \in S
    BY <1>3, <2>1, <2>2, <2>3
  <2> QED
    BY <1>3, <2>1, <2>4
<1> QED
  BY <1>3, <1>4 DEF u

\* Down to the first that is not missed by it.
LEMMA DowngradedFits ==
    ASSUME NEW from \in 1..5, NEW p \in Int, NEW t \in Thresholds
    PROVE  LET d == Downgraded(from, p, t) IN
           /\ d \in 1..from
           /\ \A i \in d + 1 .. from : p < t[i] - Band
           /\ d = 1 \/ p >= t[d] - Band
<1> DEFINE Down(to) == /\ \A i \in to + 1 .. from : p < t[i] - Band
                       /\ to = 1 \/ p >= t[to] - Band
           S == {to \in 1..from : \A i \in to + 1 .. from : p < t[i] - Band}
<1>1. from \in S /\ S \in SUBSET (1..5)
  OBVIOUS
<1>2. PICK d \in S : \A i \in S : d <= i
  <2> HIDE DEF S
  <2> QED
    BY <1>1, MinOfPhases
<1>3. ASSUME d # 1, ~(p >= t[d] - Band) PROVE FALSE
  <2>1. d \in 1..from /\ d - 1 \in 1..from /\ t[d] \in Int
    BY <1>2, <1>3 DEF Thresholds
  <2>2. p < t[d] - Band
    BY <1>3, <2>1, BandConstant
  <2>3. \A i \in (d - 1) + 1 .. from : i = d \/ i \in d + 1 .. from
    BY <2>1
  <2>4. d - 1 \in S
    BY <1>2, <2>1, <2>2, <2>3
  <2> QED
    BY <1>2, <2>1, <2>4
<1>4. d \in 1..from /\ Down(d)
  BY <1>2, <1>3
<1>5. Downgraded(from, p, t) = CHOOSE to \in 1..from : Down(to)
  BY DEF Downgraded
<1> HIDE DEF Down
<1>6. Downgraded(from, p, t) \in 1..from /\ Down(Downgraded(from, p, t))
  BY <1>4, <1>5, ZenonT(60)
<1> QED
  BY <1>6 DEF Down

\* Where what is missed ends is one place.
LEMMA DownOnce ==
    ASSUME NEW from \in 1..5, NEW p \in Int, NEW t \in Thresholds,
           NEW d \in 1..from, \A i \in d + 1 .. from : p < t[i] - Band,
           d = 1 \/ p >= t[d] - Band
    PROVE  Downgraded(from, p, t) = d
<1> DEFINE e == Downgraded(from, p, t)
<1>1. /\ e \in 1..from
      /\ \A i \in e + 1 .. from : p < t[i] - Band
      /\ e = 1 \/ p >= t[e] - Band
  BY DowngradedFits
<1> HIDE DEF e
<1>2. \A i \in 1..from : t[i] \in Int
  BY DEF Thresholds
<1>3. ~(e < d)
  <2> SUFFICES ASSUME e < d PROVE FALSE
    OBVIOUS
  <2>1. d \in e + 1 .. from /\ d # 1
    BY <1>1
  <2>2. p < t[d] - Band /\ p >= t[d] - Band
    BY <1>1, <2>1
  <2> QED
    BY <1>2, <2>2, BandConstant
<1>4. ~(d < e)
  <2> SUFFICES ASSUME d < e PROVE FALSE
    OBVIOUS
  <2>1. e \in d + 1 .. from /\ e # 1
    BY <1>1
  <2>2. p < t[e] - Band /\ p >= t[e] - Band
    BY <1>1, <2>1
  <2> QED
    BY <1>1, <1>2, <2>2, BandConstant
<1>5. e = d
  BY <1>1, <1>3, <1>4
<1> QED
  BY <1>5 DEF e

\* The hysteresis ends where one more step would not move it, and where the
\* machine of the phi engine would go.
LEMMA HysteresisFits ==
    ASSUME NEW from \in 1..5, NEW p \in Int, NEW t \in Thresholds
    PROVE  /\ ApplyHysteresis(from, p, t) \in 1..5
           /\ Fits(ApplyHysteresis(from, p, t), p, t)
           /\ ApplyHysteresis(from, p, t) = MachineUpdate(from, p, t)
<1> DEFINE u == Upgraded(from, p, t)
           d == Downgraded(u, p, t)
<1>u. /\ u \in from..5
      /\ \A i \in from + 1 .. u : p >= t[i] + Band
      /\ u < 5 => p < t[u + 1] + Band
  BY UpgradedFits
<1>0. ApplyHysteresis(from, p, t) = d
  BY DEF ApplyHysteresis
<1> HIDE DEF u
<1>b. u \in 1..5
  BY <1>u
<1>d. /\ d \in 1..u
      /\ \A i \in d + 1 .. u : p < t[i] - Band
      /\ d = 1 \/ p >= t[d] - Band
  BY <1>b, DowngradedFits
<1> HIDE DEF d
<1>t. /\ \A i \in 1..5 : t[i] \in Int
      /\ Band \in Nat
  BY BandConstant DEF Thresholds
<1>1. d \in 1..5
  BY <1>b, <1>d
<1>2. d < 5 => p < t[d + 1] + Band
  <2>1. CASE d = u
    BY <1>u, <2>1
  <2>2. CASE d < u
    <3>1. d + 1 \in d + 1 .. u /\ d + 1 \in 1..5
      BY <1>b, <1>d, <2>2
    <3>2. p < t[d + 1] - Band /\ t[d + 1] \in Int
      BY <1>d, <1>t, <3>1
    <3> QED
      BY <1>t, <3>2
  <2> QED
    BY <1>b, <1>d, <2>1, <2>2
<1>3. Fits(d, p, t)
  BY <1>1, <1>2, <1>d DEF Fits, Best, Worst
<1>4. CASE u # from
  <2>1. u \in from + 1 .. u /\ from + 1 \in from + 1 .. u /\ from < 5
    BY <1>u, <1>b, <1>4
  <2>2. p >= t[u] + Band /\ t[u] \in Int /\ p >= t[from + 1] + Band
    BY <1>u, <1>t, <1>b, <2>1
  <2>3. p >= t[u] - Band
    BY <1>t, <2>2
  <2>4. d = u
    BY <1>b, <2>3, DownOnce DEF d
  <2> DEFINE S == {to \in from + 1 .. 5 : \A i \in from + 2 .. to : p >= t[i] + Band}
  <2>5. u \in S /\ S \in SUBSET (1..5)
    BY <1>u, <2>1
  <2>6. \A to \in S : to <= u
    <3> SUFFICES ASSUME NEW to \in S, to > u PROVE FALSE
      BY <1>b
    <3>1. u + 1 \in from + 2 .. to /\ u < 5
      BY <1>b, <2>1
    <3>2. p >= t[u + 1] + Band /\ p < t[u + 1] + Band /\ t[u + 1] \in Int
      BY <1>u, <1>b, <1>t, <3>1
    <3> QED
      BY <1>t, <3>2
  <2>7. Max(S) = u
    <3> HIDE DEF S
    <3>1. Max(S) \in S /\ u <= Max(S) /\ Max(S) <= u
      BY <2>5, <2>6, MaxOfPhases
    <3>2. Max(S) \in 1..5
      BY <2>5, <3>1, ZenonT(60)
    <3> QED
      BY <1>b, <3>1, <3>2
  <2>8. MachineUpdate(from, p, t) = Max(S)
    <3>1. from < Best /\ p >= t[from + 1] + Band
      BY <2>1, <2>2 DEF Best
    <3>2. MachineUpdate(from, p, t) =
            Max({to \in from + 1 .. Best : \A i \in from + 2 .. to : p >= t[i] + Band})
      <4>1. ~(from = Best \/ p < t[from + 1] + Band)
        <5>1. from + 1 \in 1..5
          BY <2>1
        <5>2. t[from + 1] \in Int
          BY <1>t, <5>1
        <5> QED
          BY <1>t, <3>1, <5>2 DEF Best
      <4> QED
        BY <3>1, <4>1, ZenonT(60) DEF MachineUpdate
    <3> QED
      BY <3>2 DEF Best
  <2> QED
    BY <1>0, <1>1, <1>3, <2>4, <2>7, <2>8
<1>5. CASE u = from /\ from > 1 /\ p < t[from] - Band
  <2>1. ~(from < 5 /\ p >= t[from + 1] + Band) /\ (from = 5 \/ p < t[from + 1] + Band)
    <3>1. from < 5 => t[from + 1] \in Int
      BY <1>t
    <3> QED
      BY <1>u, <1>t, <1>5, <3>1
  <2> DEFINE S == {to \in 1 .. from - 1 : \A i \in to + 1 .. from - 1 : p < t[i] - Band}
  <2>2. MachineUpdate(from, p, t) = Min(S)
    BY <1>5, <2>1 DEF MachineUpdate, Best, Worst
  <2>3. d # from
    <3>1. t[from] \in Int
      BY <1>t
    <3> QED
      BY <1>d, <1>t, <1>5, <3>1
  <2>4. d \in 1 .. from - 1
    BY <1>d, <1>5, <2>3
  <2>5. d \in S /\ S \in SUBSET (1..5)
    BY <1>d, <1>5, <2>4
  <2>6. \A to \in S : d <= to
    <3> SUFFICES ASSUME NEW to \in S, to < d PROVE FALSE
      BY <2>4
    <3>1. d \in to + 1 .. from - 1 /\ d # 1
      BY <2>4
    <3>2. p < t[d] - Band /\ p >= t[d] - Band /\ t[d] \in Int
      BY <1>1, <1>d, <1>t, <3>1
    <3> QED
      BY <1>t, <3>2
  <2>7. Min(S) = d
    <3> HIDE DEF S
    <3>1. Min(S) \in S /\ Min(S) <= d /\ d <= Min(S)
      BY <2>5, <2>6, MinOfPhases
    <3>2. Min(S) \in 1..5
      BY <2>5, <3>1, ZenonT(60)
    <3> QED
      BY <1>1, <3>1, <3>2
  <2> QED
    BY <1>0, <1>1, <1>3, <2>2, <2>7
<1>6. CASE u = from /\ ~(from > 1 /\ p < t[from] - Band)
  <2>1. t[from] \in Int /\ (from < 5 => t[from + 1] \in Int)
    BY <1>t
  <2>2. from = 1 \/ p >= t[from] - Band
    BY <1>t, <1>6, <2>1
  <2>3. d = from
    BY <1>6, <2>2, DownOnce DEF d
  <2>4. ~(from < 5 /\ p >= t[from + 1] + Band)
    BY <1>u, <1>t, <1>6, <2>1
  <2>5. MachineUpdate(from, p, t) = from
    BY <1>6, <2>4 DEF MachineUpdate, Best, Worst
  <2> QED
    BY <1>0, <1>1, <1>3, <2>3, <2>5
<1> QED
  BY <1>4, <1>5, <1>6

LEMMA ScratchIsPhase ==
    ASSUME NEW p \in Nat, NEW e \in EmergentValues
    PROVE  PhaseFromScratch(p, DynamicThresholds(e)) \in 1..5
<1> DEFINE S == {i \in 1..5 : p >= DynamicThresholds(e)[i]}
<1>1. 1 \in S /\ S \in SUBSET (1..5)
  BY TypedThresholds
<1>2. PhaseFromScratch(p, DynamicThresholds(e)) = Max(S)
  BY DEF PhaseFromScratch, PhaseOrder
<1> HIDE DEF S
<1> QED
  BY <1>1, <1>2, MaxOfPhases

SavedPhase == [phi: Nat, phase: 1..5, emergent: EmergentValues]

(* Phases.  Types, and at most one saved record.                           *)
PhasesInv ==
    /\ psiPhi \in Nat /\ phase \in 1..5 /\ emergent \in EmergentValues
    /\ phaseFile = {} \/ \E saved \in SavedPhase : phaseFile = {saved}

LEMMA FreshIsGolden == 0 \in Nat /\ "golden" \in EmergentValues
  BY DEF EmergentValues

LEMMA LoadPhase ==
    ASSUME PhasesInv, LoadCheckpoint
    PROVE  PhasesInv' /\ \A saved \in phaseFile : phase' >= saved.phase
<1>1. CASE phaseFile = {}
  <2>1. /\ psiPhi' = 0 /\ emergent' = "golden" /\ UNCHANGED phaseFile
        /\ phase' = PhaseFromScratch(0, DynamicThresholds("golden"))
    BY <1>1 DEF LoadCheckpoint, FreshState
  <2>2. phase' \in 1..5
    BY <2>1, FreshIsGolden, ScratchIsPhase
  <2> QED
    BY <1>1, <2>1, <2>2, FreshIsGolden DEF PhasesInv
<1>2. CASE phaseFile # {}
  <2>1. PICK saved \in SavedPhase : phaseFile = {saved}
    BY <1>2 DEF PhasesInv
  <2>2. /\ saved.phi \in Nat /\ saved.phase \in 1..5 /\ saved.emergent \in EmergentValues
    BY <2>1 DEF SavedPhase
  <2>3. /\ psiPhi' = saved.phi /\ emergent' = saved.emergent /\ UNCHANGED phaseFile
        /\ phase' = Max({saved.phase, PhaseFromScratch(saved.phi, DynamicThresholds("golden"))})
    BY <1>2, <2>1 DEF LoadCheckpoint
  <2>4. PhaseFromScratch(saved.phi, DynamicThresholds("golden")) \in 1..5
    BY <2>2, FreshIsGolden, ScratchIsPhase
  <2>5. phase' \in 1..5 /\ saved.phase <= phase'
    <3> DEFINE S == {saved.phase, PhaseFromScratch(saved.phi, DynamicThresholds("golden"))}
    <3>1. saved.phase \in S /\ S \in SUBSET (1..5)
      BY <2>2, <2>4
    <3>2. phase' = Max(S)
      BY <2>3
    <3> HIDE DEF S
    <3> QED
      BY <3>1, <3>2, MaxOfPhases
  <2>6. PhasesInv'
    BY <2>1, <2>2, <2>3, <2>5 DEF PhasesInv
  <2> QED
    BY <2>1, <2>2, <2>5, <2>6
<1> QED
  BY <1>1, <1>2

LEMMA EvolvesToFit ==
    ASSUME PhasesInv, EvolvePhase
    PROVE  /\ PhasesInv'
           /\ Fits(phase', psiPhi', DynamicThresholds(emergent))
           /\ phase' = MachineUpdate(phase, psiPhi', DynamicThresholds(emergent))
<1>1. /\ psiPhi' \in Nat /\ emergent' \in EmergentValues /\ UNCHANGED phaseFile
      /\ phase' = ApplyHysteresis(phase, psiPhi', DynamicThresholds(emergent))
  BY PhaseAssumption DEF EvolvePhase
<1>2. phase \in 1..5 /\ DynamicThresholds(emergent) \in Thresholds /\ psiPhi' \in Int
  BY <1>1, TypedThresholds DEF PhasesInv
<1>3. /\ phase' \in 1..5
      /\ Fits(phase', psiPhi', DynamicThresholds(emergent))
      /\ phase' = MachineUpdate(phase, psiPhi', DynamicThresholds(emergent))
  BY <1>1, <1>2, HysteresisFits
<1> QED
  BY <1>1, <1>3 DEF PhasesInv

(* One step of psi brings the phase to one that fits, the one the machine  *)
(* of the phi engine would be in, and a restart costs no level the band    *)
(* had kept, for any phi and any width of the band.                        *)
THEOREM PhaseAlwaysConverges == PhasesSpec => PhaseConverges
<1>1. PhasesInit => PhasesInv
  BY FreshIsGolden, ScratchIsPhase DEF PhasesInit, PhasesInv
<1>2. ASSUME PhasesInv, [PhasesNext]_phaseVars PROVE PhasesInv'
  <2>1. CASE SavePhase
    <3>1. [phi |-> psiPhi, phase |-> phase, emergent |-> emergent] \in SavedPhase
      BY <1>2 DEF PhasesInv, SavedPhase
    <3> QED
      BY <1>2, <2>1, <3>1 DEF SavePhase, PhasesInv
  <2>2. CASE UNCHANGED phaseVars
    BY <1>2, <2>2 DEF phaseVars, PhasesInv
  <2> QED
    BY <1>2, <2>1, <2>2, EvolvesToFit, LoadPhase DEF PhasesNext
<1>3. PhasesInv /\ [PhasesNext]_phaseVars =>
        [/\ EvolvePhase =>
              /\ Fits(phase', psiPhi', DynamicThresholds(emergent))
              /\ phase' = MachineUpdate(phase, psiPhi', DynamicThresholds(emergent))
         /\ LoadCheckpoint => \A saved \in phaseFile : phase' >= saved.phase]_phaseVars
  BY EvolvesToFit, LoadPhase
<1> QED
  BY <1>1, <1>2, <1>3, PTL DEF PhasesSpec, PhaseConverges

-----------------------------------------------------------------------------
LEMMA EmergentConstants ==
    /\ GrowthRate \in Nat /\ GrowthRate > 0
    /\ MinSteps \in Nat /\ PrecisionMin \in Nat
  BY EmergentAssumption

LEMMA MaxOfTwo ==
    ASSUME NEW a \in Int, NEW b \in Int
    PROVE  Max({a, b}) = IF a >= b THEN a ELSE b
<1>1. CASE a >= b
  <2>1. \A x \in {a, b} : (\A y \in {a, b} : x >= y) <=> x = a
    BY <1>1
  <2> QED
    BY <1>1, <2>1 DEF Max
<1>2. CASE ~(a >= b)
  <2>1. \A x \in {a, b} : (\A y \in {a, b} : x >= y) <=> x = b
    BY <1>2
  <2> QED
    BY <1>2, <2>1 DEF Max
<1> QED
  BY <1>1, <1>2

LEMMA DivGrows ==
    ASSUME NEW n \in Nat, NEW g \in Nat, g > 0
    PROVE  n \div g \in Nat /\ n \div g <= (n + 1) \div g
  OBVIOUS

Reachable(n) == Max({PrecisionMin, n \div GrowthRate})

LEMMA ReachableGrows ==
    ASSUME NEW n \in Nat
    PROVE  Reachable(n) \in Nat /\ Reachable(n) <= Reachable(n + 1)
<1>1. /\ n \div GrowthRate \in Nat /\ (n + 1) \div GrowthRate \in Nat
      /\ n \div GrowthRate <= (n + 1) \div GrowthRate
  BY EmergentConstants, DivGrows
<1> DEFINE a == n \div GrowthRate
           b == (n + 1) \div GrowthRate
<1>2. /\ Reachable(n) = IF PrecisionMin >= a THEN PrecisionMin ELSE a
      /\ Reachable(n + 1) = IF PrecisionMin >= b THEN PrecisionMin ELSE b
  <2>1. PrecisionMin \in Int /\ a \in Int /\ b \in Int
    BY <1>1, EmergentConstants
  <2> HIDE DEF a, b
  <2>2. /\ Max({PrecisionMin, a}) = IF PrecisionMin >= a THEN PrecisionMin ELSE a
        /\ Max({PrecisionMin, b}) = IF PrecisionMin >= b THEN PrecisionMin ELSE b
    BY <2>1, MaxOfTwo
  <2> QED
    BY <2>2 DEF Reachable, a, b
<1> HIDE DEF a, b
<1>3. a \in Nat /\ b \in Nat /\ a <= b
  BY <1>1 DEF a, b
<1> QED
  BY <1>2, <1>3, EmergentConstants

\* A precision t aimed at after n steps, one a achieved, r whether refined.
Computed(n, t, a, r) ==
    /\ n \in Nat /\ a \in Nat /\ t = a
    /\ a > PrecisionMin => r
    /\ r => n >= MinSteps /\ a <= Reachable(n)

(* EmergentPhi.  What the estimator holds and what the checkpoint holds    *)
(* was computed, so that a restore cannot disturb it.                      *)
EmergentInv ==
    /\ Computed(energySteps, target, achieved, refined)
    /\ Computed(snapshotted.steps, snapshotted.target, snapshotted.achieved, snapshotted.refined)
    /\ freezeStep \in Nat /\ freezeStep <= energySteps

LEMMA EmergentInitially == EmergentInit => EmergentInv
  BY EmergentConstants DEF EmergentInit, EmergentInv, Computed, Seed

LEMMA UpdateEnergyStep == ASSUME EmergentInv, UpdateEnergy PROVE EmergentInv'
<1>1. /\ energySteps \in Nat /\ energySteps' = energySteps + 1 /\ energySteps' \in Nat
      /\ UNCHANGED snapshotted
      /\ achieved \in Nat /\ target = achieved /\ freezeStep \in Nat /\ freezeStep <= energySteps
      /\ achieved > PrecisionMin => refined
      /\ refined => energySteps >= MinSteps /\ achieved <= Reachable(energySteps)
  BY DEF UpdateEnergy, EmergentInv, Computed
<1>2. /\ Reachable(energySteps) \in Nat /\ Reachable(energySteps') \in Nat
      /\ Reachable(energySteps) <= Reachable(energySteps')
  BY <1>1, ReachableGrows
<1>3. refined => energySteps' >= MinSteps /\ achieved <= Reachable(energySteps')
  BY <1>1, <1>2, EmergentConstants
<1>4. ASSUME UNCHANGED <<target, achieved, refined, freezeStep>> PROVE EmergentInv'
  BY <1>1, <1>3, <1>4 DEF EmergentInv, Computed
<1>5. CASE ComputeAtFibonacci /\ energySteps' >= MinSteps
  <2>1. CASE Grows
    <3>1. /\ target' = Reachable(energySteps') /\ achieved' = Reachable(energySteps')
          /\ refined' = TRUE /\ UNCHANGED freezeStep
      BY <2>1 DEF Grows, Desired, Reachable
    <3>2. freezeStep <= energySteps'
      BY <1>1
    <3>3. Reachable(energySteps)' = Reachable(energySteps')
      BY DEF Reachable
    <3> QED
      BY <1>1, <1>2, <1>5, <3>1, <3>2, <3>3 DEF EmergentInv, Computed
  <2>2. CASE OutOfMemory
    <3>1. /\ target' = achieved /\ UNCHANGED <<achieved, refined>> /\ freezeStep' = energySteps'
      BY <2>2 DEF OutOfMemory
    <3>2. freezeStep' \in Nat /\ freezeStep' <= energySteps'
      BY <1>1, <3>1
    <3> QED
      BY <1>1, <1>3, <3>1, <3>2 DEF EmergentInv, Computed
  <2>3. CASE NotRefined
    BY <1>4, <2>3 DEF NotRefined
  <2>4. CASE UNCHANGED <<estimate, target, achieved, refined, ramFrozen, freezeStep>>
    BY <1>4, <2>4
  <2> QED
    BY <1>5, <2>1, <2>2, <2>3, <2>4 DEF ComputeAtFibonacci
<1> QED
  BY <1>4, <1>5 DEF UpdateEnergy

LEMMA EmergentStep == ASSUME EmergentInv, [EmergentNext]_emergentVars PROVE EmergentInv'
<1>1. CASE SaveSnapshot
  BY <1>1 DEF SaveSnapshot, EmergentInv
<1>2. CASE RestoreSnapshot
  BY <1>2 DEF RestoreSnapshot, EmergentInv, Computed
<1>3. CASE UNCHANGED emergentVars
  BY <1>3 DEF emergentVars, EmergentInv
<1> QED
  BY <1>1, <1>2, <1>3, UpdateEnergyStep DEF EmergentNext

(* Through failures, retries and restarts the precision reported is one    *)
(* that was computed after enough steps, and the target is what was        *)
(* achieved, for any growth, any Fibonacci steps and any retry interval.   *)
THEOREM PrecisionStaysHonest == EmergentSpec => []PrecisionHonest
<1>1. EmergentInv => PrecisionHonest
  BY DEF EmergentInv, Computed, PrecisionHonest, Reachable
<1> QED
  BY <1>1, EmergentInitially, EmergentStep, PTL DEF EmergentSpec

-----------------------------------------------------------------------------
LEMMA CooldownConstant == CooldownCycles \in Nat /\ CooldownCycles > 0
  BY AutonomyAssumption

Guarded == Beside \cap Existing

(* Autonomy.  The cooldown is what is left of the cycles after a rollback; *)
(* a change is under way only without one, and its snapshot holds every    *)
(* guarded file as it was.                                                 *)
AutonomyInv ==
    /\ cooldown \in Nat /\ ticked \in Nat /\ cooldown + ticked = CooldownCycles
    /\ applying # "no" => ticked = CooldownCycles
    /\ applying = "snapshot" => \A f \in Guarded : content[f] = "old"
    /\ applying \in {"write", "test", "rollback"} =>
         \A f \in Guarded : f \in DOMAIN snapped /\ snapped[f] = "old"
    /\ applying = "no" /\ undone /\ ticked = 0 => \A f \in Guarded : content[f] = "old"

LEMMA AutonomyInitially == AutonomyInit => AutonomyInv
  BY CooldownConstant DEF AutonomyInit, AutonomyInv

LEMMA AutonomyStep == ASSUME AutonomyInv, [AutonomyNext]_autonomyVars PROVE AutonomyInv'
<1> USE CooldownConstant
<1>0. Guarded \subseteq Targets /\ Guarded \subseteq Existing /\ Guarded \subseteq Beside
  BY AutonomyAssumption DEF Guarded, Targets
<1>1. CASE CycleRecorded
  BY <1>1 DEF CycleRecorded, AutonomyInv, changeVars
<1>2. CASE AutoApply
  <2>1. PICK failed \in SUBSET Gates : CanAutoApply(failed)
    BY <1>2 DEF AutoApply
  <2>2. ~(cooldown > 0)
    BY <2>1 DEF CanAutoApply, EffectiveW
  <2>3. /\ UNCHANGED <<cooldown, ticked>> /\ applying' = "snapshot"
        /\ \A f \in Guarded : content'[f] = "old"
    BY <1>0, <1>2 DEF AutoApply, windowVars
  <2> QED
    BY <2>2, <2>3 DEF AutonomyInv
<1>3. CASE CreateSnapshot
  <2>1. UNCHANGED <<cooldown, ticked, content, undone>> /\ applying = "snapshot"
    BY <1>3 DEF CreateSnapshot, windowVars
  <2>2. CASE applying' = "no"
    BY <2>1, <2>2 DEF AutonomyInv
  <2>3. CASE /\ snapped' = [f \in {g \in Beside : content[g] # Absent} |-> content[f]]
             /\ applying' = "write"
    <3>1. \A f \in Guarded : f \in DOMAIN snapped' /\ snapped'[f] = "old"
      BY <1>0, <2>1, <2>3 DEF AutonomyInv, Absent
    <3> QED
      BY <2>1, <2>3, <3>1 DEF AutonomyInv
  <2> QED
    BY <1>3, <2>2, <2>3 DEF CreateSnapshot
<1>4. CASE WriteTarget
  <2>1. /\ UNCHANGED <<cooldown, ticked, snapped, undone>>
        /\ applying = "write" /\ applying' \in {"write", "test", "rollback"}
    BY <1>4 DEF WriteTarget, windowVars
  <2> QED
    BY <2>1 DEF AutonomyInv
<1>5. CASE SmokeTests
  <2>1. /\ UNCHANGED <<cooldown, ticked, snapped, content>>
        /\ applying = "test" /\ applying' \in {"rollback", "no"}
    BY <1>5 DEF SmokeTests
  <2> QED
    BY <2>1 DEF AutonomyInv
<1>6. CASE Rollback
  <2>1. /\ applying = "rollback" /\ applying' = "no"
        /\ cooldown' = CooldownCycles /\ ticked' = 0 /\ UNCHANGED snapped
        /\ \/ content' = [f \in Targets |-> IF f \in DOMAIN snapped THEN snapped[f] ELSE content[f]]
           \/ undone' = FALSE
    BY <1>6 DEF Rollback
  <2> QED
    BY <1>0, <2>1 DEF AutonomyInv
<1>7. CASE RestartWindow
  BY <1>7 DEF RestartWindow, AutonomyInv
<1>8. CASE UNCHANGED autonomyVars
  BY <1>8 DEF autonomyVars, AutonomyInv
<1> QED
  BY <1>1, <1>2, <1>3, <1>4, <1>5, <1>6, <1>7, <1>8 DEF AutonomyNext

(* A rollback keeps W at rest for the whole cooldown, and a restored       *)
(* change left the files of its directory as they were, for any number of  *)
(* files and any cooldown.                                                 *)
THEOREM RollbackAlwaysFelt == AutonomySpec => []RollbackIsFelt
<1>1. AutonomyInv => RollbackIsFelt
  BY CooldownConstant DEF AutonomyInv, RollbackIsFelt, EffectiveW, Guarded
<1> QED
  BY <1>1, AutonomyInitially, AutonomyStep, PTL DEF AutonomySpec

-----------------------------------------------------------------------------
(* The lines a dream's journal may hold. *)
Lines == [kind : {"entry", "bad", "split"}, ended : BOOLEAN]

(* What the next line costs: an open line takes it, and an open entry is   *)
(* lost with it.                                                           *)
Owed(lines) == IF Open(lines) THEN IF lines[Len(lines)].kind = "entry" THEN 2 ELSE 1 ELSE 0

LEMMA EntriesFinite ==
    ASSUME NEW lines \in Seq(Lines)
    PROVE  /\ IsFiniteSet(Entries(lines))
           /\ Cardinality(Entries(lines)) \in Nat
           /\ Owed(lines) \in {0, 1, 2}
<1>1. Len(lines) \in Nat /\ DOMAIN lines = 1 .. Len(lines)
  OBVIOUS
<1>2. IsFiniteSet(1 .. Len(lines))
  BY <1>1, FS_Interval
<1>3. Entries(lines) \in SUBSET (1 .. Len(lines))
  BY <1>1 DEF Entries
<1>4. IsFiniteSet(Entries(lines))
  BY <1>2, <1>3, FS_Subset
<1>5. Owed(lines) \in {0, 1, 2}
  BY DEF Owed
<1> QED BY <1>4, <1>5, FS_CardinalityType

(* A line glued to an open one is none, and takes the open one along.      *)
LEMMA LineGlued ==
    ASSUME NEW lines \in Seq(Lines), NEW new \in Lines, Open(lines)
    PROVE  /\ Appended(lines, new) \in Seq(Lines)
           /\ Owed(Appended(lines, new)) = IF new.ended THEN 0 ELSE 1
           /\ Cardinality(Entries(Appended(lines, new)))
                = Cardinality(Entries(lines)) - (Owed(lines) - 1)
<1> DEFINE n == Len(lines)
           kind == IF "split" \in {lines[n].kind, new.kind} THEN "split" ELSE "bad"
           line == [kind |-> kind, ended |-> new.ended]
           glued == [lines EXCEPT ![n] = line]
<1>1. n \in Nat /\ DOMAIN lines = 1 .. n /\ lines \in [1 .. n -> Lines]
  OBVIOUS
<1>2. n \in 1 .. n /\ lines # <<>> /\ ~lines[n].ended
  BY <1>1 DEF Open, Last
<1>3. Appended(lines, new) = glued
  BY DEF Appended
<1>4. line \in Lines /\ line.kind # "entry" /\ line.ended = new.ended
  BY DEF Lines
<1> HIDE DEF line, kind
<1>5. glued \in [1 .. n -> Lines] /\ glued[n] = line /\ \A i \in 1 .. n : i # n => glued[i] = lines[i]
  BY <1>1, <1>2, <1>4
<1>6. glued \in Seq(Lines) /\ Len(glued) = n /\ DOMAIN glued = 1 .. n /\ glued # <<>>
  BY <1>1, <1>2, <1>5
<1> HIDE DEF glued
<1>7. Owed(glued) = IF new.ended THEN 0 ELSE 1
  BY <1>4, <1>5, <1>6 DEF Owed, Open, Last
<1>8. Entries(glued) = Entries(lines) \ {n}
  BY <1>1, <1>2, <1>4, <1>5, <1>6 DEF Entries
<1>9. IsFiniteSet(Entries(lines)) /\ Cardinality(Entries(lines)) \in Nat
  BY EntriesFinite
<1>10. CASE lines[n].kind = "entry"
  <2>1. n \in Entries(lines) /\ Owed(lines) = 2
    BY <1>1, <1>2, <1>10 DEF Entries, Owed
  <2>2. Cardinality(Entries(lines) \ {n}) = Cardinality(Entries(lines)) - 1
    BY <1>9, <2>1, FS_RemoveElement
  <2> QED BY <1>3, <1>6, <1>7, <1>8, <1>9, <2>1, <2>2
<1>11. CASE lines[n].kind # "entry"
  <2>1. n \notin Entries(lines) /\ Owed(lines) = 1
    BY <1>11 DEF Entries, Owed
  <2>2. Entries(glued) = Entries(lines)
    BY <1>8, <2>1
  <2>3. Cardinality(Entries(glued)) = Cardinality(Entries(lines))
    BY <2>2, Zenon
  <2> QED BY <1>3, <1>6, <1>7, <1>9, <2>1, <2>3
<1> QED BY <1>10, <1>11

(* A line on its own counts by itself. *)
LEMMA LineAdded ==
    ASSUME NEW lines \in Seq(Lines), NEW new \in Lines, ~Open(lines)
    PROVE  /\ Appended(lines, new) \in Seq(Lines)
           /\ Owed(Appended(lines, new))
                = IF new.ended THEN 0 ELSE IF new.kind = "entry" THEN 2 ELSE 1
           /\ Cardinality(Entries(Appended(lines, new)))
                = Cardinality(Entries(lines)) + (IF new.kind = "entry" THEN 1 ELSE 0)
<1> DEFINE n == Len(lines)
           longer == Append(lines, new)
<1>1. n \in Nat /\ DOMAIN lines = 1 .. n
  OBVIOUS
<1>2. Appended(lines, new) = longer
  BY DEF Appended
<1>3. longer \in Seq(Lines) /\ Len(longer) = n + 1 /\ longer[n + 1] = new /\ longer # <<>>
  BY <1>1
<1>4. \A i \in 1 .. n : longer[i] = lines[i]
  BY <1>1
<1>5. DOMAIN longer = 1 .. (n + 1)
  BY <1>3
<1> HIDE DEF longer
<1>6. Owed(longer) = IF new.ended THEN 0 ELSE IF new.kind = "entry" THEN 2 ELSE 1
  BY <1>3 DEF Owed, Open, Last
<1>7. IsFiniteSet(Entries(lines)) /\ Cardinality(Entries(lines)) \in Nat
  BY EntriesFinite
<1>8. CASE new.kind = "entry"
  <2>1. Entries(longer) = Entries(lines) \cup {n + 1}
    BY <1>1, <1>3, <1>4, <1>5, <1>8 DEF Entries
  <2>2. n + 1 \notin Entries(lines)
    BY <1>1 DEF Entries
  <2>3. Cardinality(Entries(lines) \cup {n + 1}) = Cardinality(Entries(lines)) + 1
    BY <1>7, <2>2, FS_AddElement
  <2>4. Cardinality(Entries(longer)) = Cardinality(Entries(lines)) + 1
    BY <2>1, <2>3, ZenonT(60)
  <2> QED BY <1>2, <1>3, <1>6, <1>8, <2>4
<1>9. CASE new.kind # "entry"
  <2>1. Entries(longer) = Entries(lines)
    BY <1>1, <1>3, <1>4, <1>5, <1>9 DEF Entries
  <2> QED BY <1>2, <1>3, <1>6, <1>7, <1>9, <2>1
<1> QED BY <1>8, <1>9

(* The inductive invariant: the anchor is Psi0 also while nobody lives, and *)
(* an open line has cost its cut the next dream already.                   *)
DreamsKept(lines, n, c) == n - Cardinality(Entries(lines)) + Owed(lines) <= 2 * c

DreamerInv ==
    /\ anchor = psi0
    /\ dreams \in Nat /\ cuts \in Nat
    /\ dreamJournal \in Seq(Lines)
    /\ DreamsKept(dreamJournal, dreams, cuts)

(* One dream more, and its entry in the journal. *)
LEMMA DreamRecorded ==
    ASSUME NEW lines \in Seq(Lines), NEW n \in Nat, NEW c \in Nat, DreamsKept(lines, n, c)
    PROVE  /\ Appended(lines, Entry) \in Seq(Lines)
           /\ DreamsKept(Appended(lines, Entry), n + 1, c)
<1>1. Entry \in Lines /\ Entry.ended /\ Entry.kind = "entry"
  BY DEF Entry, Lines
<1>2. Cardinality(Entries(lines)) \in Nat /\ Owed(lines) \in {0, 1, 2}
  BY EntriesFinite
<1>3. CASE Open(lines)
  <2>1. /\ Appended(lines, Entry) \in Seq(Lines)
        /\ Owed(Appended(lines, Entry)) = 0
        /\ Cardinality(Entries(Appended(lines, Entry)))
             = Cardinality(Entries(lines)) - (Owed(lines) - 1)
    BY <1>1, <1>3, LineGlued
  <2> QED BY <1>2, <2>1 DEF DreamsKept
<1>4. CASE ~Open(lines)
  <2>1. /\ Appended(lines, Entry) \in Seq(Lines)
        /\ Owed(Appended(lines, Entry)) = 0
        /\ Cardinality(Entries(Appended(lines, Entry))) = Cardinality(Entries(lines)) + 1
    BY <1>1, <1>4, LineAdded
  <2>2. Owed(lines) = 0
    BY <1>4 DEF Owed
  <2> QED BY <1>2, <2>1, <2>2 DEF DreamsKept
<1> QED BY <1>3, <1>4

(* One dream more, its entry cut short. *)
LEMMA DreamCut ==
    ASSUME NEW lines \in Seq(Lines), NEW n \in Nat, NEW c \in Nat, DreamsKept(lines, n, c),
           NEW cut \in CutShort(lines)
    PROVE  cut \in Seq(Lines) /\ DreamsKept(cut, n + 1, c + 1)
<1>1. Cardinality(Entries(lines)) \in Nat /\ Owed(lines) \in {0, 1, 2}
  BY EntriesFinite
<1>2. CASE cut = lines
  BY <1>1, <1>2 DEF DreamsKept
<1>3. ASSUME NEW k \in {"bad", "split", "entry"}, cut = Appended(lines, [kind |-> k, ended |-> FALSE])
      PROVE  cut \in Seq(Lines) /\ DreamsKept(cut, n + 1, c + 1)
  <2> DEFINE new == [kind |-> k, ended |-> FALSE]
  <2>1. new \in Lines /\ ~new.ended /\ new.kind = k
    BY DEF Lines
  <2>2. cut = Appended(lines, new)
    BY <1>3
  <2> HIDE DEF new
  <2>3. CASE Open(lines)
    <3>1. /\ cut \in Seq(Lines) /\ Owed(cut) = 1
          /\ Cardinality(Entries(cut)) = Cardinality(Entries(lines)) - (Owed(lines) - 1)
      BY <2>1, <2>2, <2>3, LineGlued
    <3> QED BY <1>1, <3>1 DEF DreamsKept
  <2>4. CASE ~Open(lines)
    <3>1. /\ cut \in Seq(Lines)
          /\ Owed(cut) = IF k = "entry" THEN 2 ELSE 1
          /\ Cardinality(Entries(cut)) = Cardinality(Entries(lines)) + (IF k = "entry" THEN 1 ELSE 0)
      BY <2>1, <2>2, <2>4, LineAdded
    <3>2. Owed(lines) = 0
      BY <2>4 DEF Owed
    <3>3. Owed(cut) - Cardinality(Entries(cut)) = 1 - Cardinality(Entries(lines))
      BY <1>1, <3>1
    <3>4. Cardinality(Entries(cut)) \in Nat /\ Owed(cut) \in {0, 1, 2}
      BY <3>1, EntriesFinite
    <3> QED BY <1>1, <3>1, <3>2, <3>3, <3>4 DEF DreamsKept
  <2> QED BY <2>3, <2>4
<1> QED BY <1>2, <1>3 DEF CutShort

LEMMA DreamerInit == ConsolidationInit => DreamerInv
<1> SUFFICES ASSUME ConsolidationInit PROVE DreamerInv
  OBVIOUS
<1>1. anchor = psi0 /\ dreamJournal = <<>> /\ dreams = 0 /\ cuts = 0
  BY DEF ConsolidationInit
<1>2. dreamJournal \in Seq(Lines)
  BY <1>1
<1>3. Cardinality(Entries(dreamJournal)) \in Nat
  BY <1>2, EntriesFinite
<1>4. Owed(dreamJournal) = 0
  BY <1>1 DEF Owed, Open
<1> QED BY <1>1, <1>2, <1>3, <1>4 DEF DreamerInv, DreamsKept

LEMMA DreamKeeps == DreamerInv /\ Dream => DreamerInv'
<1> SUFFICES ASSUME DreamerInv, Dream PROVE DreamerInv'
  OBVIOUS
<1>1. anchor' = psi0'
  BY ZenonT(60) DEF DreamerInv, Dream, UpdatePsi0, SyncedAnchor
<1>2. /\ dreams' = dreams + 1
      /\ \/ dreamJournal' = Appended(dreamJournal, Entry) /\ cuts' = cuts
         \/ dreamJournal' \in CutShort(dreamJournal) /\ cuts' = cuts + 1
  BY ZenonT(60) DEF Dream
<1>3. /\ dreamJournal \in Seq(Lines) /\ dreams \in Nat /\ cuts \in Nat
      /\ DreamsKept(dreamJournal, dreams, cuts)
  BY DEF DreamerInv
<1>4. CASE dreamJournal' = Appended(dreamJournal, Entry) /\ cuts' = cuts
  BY <1>1, <1>2, <1>3, <1>4, DreamRecorded DEF DreamerInv
<1>5. CASE dreamJournal' \in CutShort(dreamJournal) /\ cuts' = cuts + 1
  BY <1>1, <1>2, <1>3, <1>5, DreamCut DEF DreamerInv
<1> QED BY <1>2, <1>4, <1>5

LEMMA KillKeeps == DreamerInv /\ KillDreamer => DreamerInv'
<1> SUFFICES ASSUME DreamerInv, KillDreamer PROVE DreamerInv'
  OBVIOUS
<1>1. anchor' = psi0'
  BY DEF DreamerInv, KillDreamer
<1>2. /\ dreamJournal \in Seq(Lines) /\ dreams \in Nat /\ cuts \in Nat
      /\ DreamsKept(dreamJournal, dreams, cuts)
  BY DEF DreamerInv
<1>3. \/ UNCHANGED <<dreamJournal, dreams, cuts>>
      \/ dreamJournal' \in CutShort(dreamJournal) /\ dreams' = dreams + 1 /\ cuts' = cuts + 1
  BY DEF KillDreamer
<1>4. CASE UNCHANGED <<dreamJournal, dreams, cuts>>
  BY <1>1, <1>2, <1>4 DEF DreamerInv
<1>5. CASE dreamJournal' \in CutShort(dreamJournal) /\ dreams' = dreams + 1 /\ cuts' = cuts + 1
  BY <1>1, <1>2, <1>5, DreamCut DEF DreamerInv
<1> QED BY <1>3, <1>4, <1>5

LEMMA DreamerStep == DreamerInv /\ [ConsolidationNext]_consolidationVars => DreamerInv'
<1> SUFFICES ASSUME DreamerInv, [ConsolidationNext]_consolidationVars PROVE DreamerInv'
  OBVIOUS
<1>1. CASE Dream
  BY <1>1, DreamKeeps
<1>2. CASE KillDreamer
  BY <1>2, KillKeeps
<1>3. CASE RestartDreamer
  BY <1>3 DEF DreamerInv, RestartDreamer
<1>4. CASE Turn \/ DayPasses \/ SaveState \/ SaveAnchor \/ UNCHANGED consolidationVars
  BY <1>4 DEF DreamerInv, Turn, DayPasses, SaveState, SaveAnchor, consolidationVars
<1> QED
  BY <1>1, <1>2, <1>3, <1>4
  DEF ConsolidationNext, CatchUpDream, DreamFromSend, InactiveDream, TriggerAutonomousDream

(* Whatever dreams, whatever is killed or fails to write, and wherever: the *)
(* evaluator judges by the Psi0 of the state, and while the journal can be *)
(* decoded, a line of it cut short costs it two dreams at most.            *)
THEOREM CutsAlwaysCostLittle == ConsolidationSpec => []CutsCostLittle
<1>1. DreamerInv => CutsCostLittle
  <2> SUFFICES ASSUME DreamerInv PROVE CutsCostLittle
    OBVIOUS
  <2>1. Cardinality(Entries(dreamJournal)) \in Nat /\ Owed(dreamJournal) \in {0, 1, 2}
    BY EntriesFinite DEF DreamerInv
  <2>2. TwoPerCut
    BY <2>1 DEF DreamerInv, DreamsKept, TwoPerCut, Recallable
  <2> QED BY <2>2 DEF DreamerInv, CutsCostLittle, AnchorsAgree
<1> QED BY DreamerInit, DreamerStep, <1>1, PTL DEF ConsolidationSpec

-----------------------------------------------------------------------------
Flipped(p) == <<p[2], p[1]>>

(* What the graph is worth, in memory and in its file: a pair was seen as  *)
(* often as its reverse, there are no weak links, and what is tied is      *)
(* linked.                                                                 *)
SoundGraph(l, s, t) ==
    /\ l \in [Pairs -> Nat] /\ s \in [Topics -> Nat] /\ t \in [Pairs -> Nat]
    /\ \A p \in Pairs : t[p] = t[Flipped(p)]
    /\ \A p \in Pairs : l[p] = 0 \/ l[p] > PruneThreshold
    /\ \A p \in Pairs : Tied(p, s, t) => l[p] > PruneThreshold

GraphInv ==
    /\ SoundGraph(links, sightings, together)
    /\ SoundGraph(files.links, files.sightings, files.together)

LEMMA PairParts ==
    ASSUME NEW p \in Pairs
    PROVE  /\ p[1] \in Topics /\ p[2] \in Topics /\ p = <<p[1], p[2]>>
           /\ Flipped(p) \in Pairs /\ Flipped(p)[1] = p[2] /\ Flipped(p)[2] = p[1]
BY DEF Pairs, Flipped

(* Tied together is symmetric. *)
LEMMA TiedBothWays ==
    ASSUME NEW l, NEW s, NEW t, SoundGraph(l, s, t), NEW p \in Pairs, Tied(p, s, t)
    PROVE  Tied(Flipped(p), s, t)
<1>1. /\ p[1] \in Topics /\ p[2] \in Topics
      /\ Flipped(p) \in Pairs /\ Flipped(p)[1] = p[2] /\ Flipped(p)[2] = p[1]
  BY PairParts
<1>2. s \in [Topics -> Nat] /\ t \in [Pairs -> Nat] /\ t[p] = t[Flipped(p)]
  BY DEF SoundGraph
<1>3. s[p[1]] \in Nat /\ s[p[2]] \in Nat
  BY <1>1, <1>2
<1>4. Lesser(s[p[1]], s[p[2]]) = Lesser(s[p[2]], s[p[1]])
  BY <1>3 DEF Lesser
<1>5. /\ p[1] # p[2] /\ t[p] > 0 /\ s[p[1]] >= MinCount /\ s[p[2]] >= MinCount
      /\ 1000 * t[p] >= 618 * Lesser(s[p[1]], s[p[2]])
  BY ZenonT(60) DEF Tied
<1>6. /\ p[2] # p[1] /\ t[Flipped(p)] > 0
      /\ 1000 * t[Flipped(p)] >= 618 * Lesser(s[p[2]], s[p[1]])
  BY <1>2, <1>4, <1>5
<1>7. Flipped(p)[1] = p[2] /\ Flipped(p)[2] = p[1]
  BY <1>1
<1> HIDE DEF Flipped
<1>8. /\ Flipped(p)[1] # Flipped(p)[2] /\ t[Flipped(p)] > 0
      /\ s[Flipped(p)[1]] >= MinCount /\ s[Flipped(p)[2]] >= MinCount
      /\ 1000 * t[Flipped(p)] >= 618 * Lesser(s[Flipped(p)[1]], s[Flipped(p)[2]])
  BY <1>5, <1>6, <1>7
<1> QED BY <1>8, ZenonT(60) DEF Tied

LEMMA ObservedSound ==
    ASSUME GraphInv, NEW pairs
    PROVE  /\ Observed(pairs) \in [Pairs -> Nat]
           /\ \A p \in Pairs : /\ Observed(pairs)[p] = 0 \/ Observed(pairs)[p] > PruneThreshold
                               /\ Observed(pairs)[p] >= PruneThreshold \/ Observed(pairs)[p] = links[p]
<1>1. links \in [Pairs -> Nat]
  BY DEF GraphInv, SoundGraph
<1>2. \A p \in Pairs : links[p] = 0 \/ links[p] > PruneThreshold
  BY DEF GraphInv, SoundGraph
<1>3. ASSUME NEW p \in Pairs
      PROVE  /\ Observed(pairs)[p] \in Nat
             /\ Observed(pairs)[p] = 0 \/ Observed(pairs)[p] > PruneThreshold
             /\ Observed(pairs)[p] >= PruneThreshold \/ Observed(pairs)[p] = links[p]
  <2>1. links[p] \in Nat
    BY <1>1
  <2>2. CASE p \in pairs
    <3>1. Observed(pairs)[p] = Bounded(links[p] + ReinforceStep)
      BY <2>2 DEF Observed
    <3>2. Bounded(links[p] + ReinforceStep) \in Nat /\ Bounded(links[p] + ReinforceStep) > PruneThreshold
      BY <2>1 DEF Bounded, ReinforceStep, PruneThreshold
    <3> QED BY <3>1, <3>2 DEF PruneThreshold
  <2>3. CASE p \notin pairs
    <3>1. Observed(pairs)[p] = links[p]
      BY <2>3 DEF Observed
    <3> QED BY <2>1, <3>1, <1>2
  <2> QED BY <2>2, <2>3
<1>4. Observed(pairs) \in [Pairs -> Nat]
  BY <1>3 DEF Observed
<1> QED BY <1>3, <1>4

LEMMA GraphInit == RecallInit => GraphInv
<1> SUFFICES ASSUME RecallInit PROVE GraphInv
  OBVIOUS
<1>1. /\ links = [p \in Pairs |-> 0] /\ sightings = [x \in Topics |-> 0]
      /\ together = [p \in Pairs |-> 0]
      /\ files.links = links /\ files.sightings = sightings /\ files.together = together
  BY DEF RecallInit
<1>2. \A p \in Pairs : Flipped(p) \in Pairs
  BY PairParts
<1>3. \A p \in Pairs : ~Tied(p, sightings, together)
  BY <1>1 DEF Tied
<1>4. SoundGraph(links, sightings, together)
  BY <1>1, <1>2, <1>3 DEF SoundGraph
<1> QED BY <1>1, <1>4 DEF GraphInv

(* Every pair that is tied is promoted, in whatever direction it is missing. *)
LEMMA TurnKeepsGraph ==
    ASSUME GraphInv, NEW idea \in SUBSET Topics, UpdateCausalGraph(idea)
    PROVE  SoundGraph(links', sightings', together')
<1> DEFINE seen == Observed(Causalities(idea))
<1>1. /\ sightings \in [Topics -> Nat] /\ together \in [Pairs -> Nat]
      /\ \A p \in Pairs : together[p] = together[Flipped(p)]
  BY DEF GraphInv, SoundGraph
<1>2. sightings' = [x \in Topics |-> sightings[x] + IF Cardinality(idea) >= 2 /\ x \in idea THEN 1 ELSE 0]
  BY DEF UpdateCausalGraph
<1>3. sightings' \in [Topics -> Nat]
  BY <1>1, <1>2
<1>4. together' = [p \in Pairs |-> together[p] + IF {p[1], p[2]} \subseteq idea /\ p[1] # p[2] THEN 1 ELSE 0]
  BY DEF UpdateCausalGraph
<1>5. together' \in [Pairs -> Nat]
  BY <1>1, <1>4
<1>6. ASSUME NEW p \in Pairs PROVE together'[p] = together'[Flipped(p)]
  <2>1. /\ Flipped(p) \in Pairs /\ Flipped(p)[1] = p[2] /\ Flipped(p)[2] = p[1]
    BY PairParts
  <2>2. together[p] = together[Flipped(p)]
    BY <1>1
  <2>3. together'[Flipped(p)] = together[Flipped(p)] + IF {p[2], p[1]} \subseteq idea /\ p[2] # p[1] THEN 1 ELSE 0
    BY <1>4, <2>1
  <2>4. {p[2], p[1]} = {p[1], p[2]}
    OBVIOUS
  <2> QED BY <1>4, <2>2, <2>3, <2>4
<1>7. /\ seen \in [Pairs -> Nat]
      /\ \A p \in Pairs : seen[p] = 0 \/ seen[p] > PruneThreshold
  BY ObservedSound
<1>8. links' = PromotedPairs(seen, sightings', together')
  BY DEF UpdateCausalGraph
<1> HIDE DEF seen
<1>9. links' = [p \in Pairs |-> IF seen[p] = 0 /\ Tied(p, sightings', together') THEN ReinforceStep ELSE seen[p]]
  BY <1>8, ZenonT(60) DEF PromotedPairs
<1>10. ASSUME NEW p \in Pairs
       PROVE  /\ links'[p] \in Nat
              /\ links'[p] = 0 \/ links'[p] > PruneThreshold
              /\ Tied(p, sightings', together') => links'[p] > PruneThreshold
  <2>1. links'[p] = IF seen[p] = 0 /\ Tied(p, sightings', together') THEN ReinforceStep ELSE seen[p]
    BY <1>9, ZenonT(60)
  <2>2. seen[p] \in Nat /\ (seen[p] = 0 \/ seen[p] > PruneThreshold)
    BY <1>7
  <2>3. CASE seen[p] = 0 /\ Tied(p, sightings', together')
    BY <2>1, <2>3 DEF ReinforceStep, PruneThreshold
  <2>4. CASE ~(seen[p] = 0 /\ Tied(p, sightings', together'))
    <3>1. links'[p] = seen[p]
      BY <2>1, <2>4, ZenonT(60)
    <3>2. Tied(p, sightings', together') => seen[p] # 0
      BY <2>4, ZenonT(60)
    <3> QED BY <2>2, <3>1, <3>2
  <2> QED BY <2>3, <2>4
<1>11. links' \in [Pairs -> Nat]
  BY <1>9, <1>10, ZenonT(60)
<1> QED BY <1>3, <1>5, <1>6, <1>10, <1>11 DEF SoundGraph

(* A reflection only strengthens, and its prune finds nothing.             *)
LEMMA ReflectKeepsGraph ==
    ASSUME GraphInv, Reflect
    PROVE  SoundGraph(links', sightings', together')
<1>1. PICK idea \in SUBSET Topics :
         links' = [p \in Pairs |-> LET l == Observed(Causalities(idea))[p]
                                   IN  IF l < PruneThreshold THEN 0 ELSE l]
  BY ZenonT(60) DEF Reflect
<1>2. sightings' = sightings /\ together' = together
  BY ZenonT(60) DEF Reflect
<1> DEFINE seen == Observed(Causalities(idea))
<1>3. /\ seen \in [Pairs -> Nat]
      /\ \A p \in Pairs : /\ seen[p] = 0 \/ seen[p] > PruneThreshold
                          /\ seen[p] >= PruneThreshold \/ seen[p] = links[p]
  BY ObservedSound
<1>4. links' = [p \in Pairs |-> IF seen[p] < PruneThreshold THEN 0 ELSE seen[p]]
  BY <1>1
<1> HIDE DEF seen
<1>5. ASSUME NEW p \in Pairs
      PROVE  /\ links'[p] \in Nat
             /\ links'[p] = 0 \/ links'[p] > PruneThreshold
             /\ Tied(p, sightings, together) => links'[p] > PruneThreshold
  <2>1. links'[p] = IF seen[p] < PruneThreshold THEN 0 ELSE seen[p]
    BY <1>4
  <2>2. /\ seen[p] \in Nat
        /\ seen[p] = 0 \/ seen[p] > PruneThreshold
        /\ seen[p] >= PruneThreshold \/ seen[p] = links[p]
    BY <1>3
  <2>3. Tied(p, sightings, together) => links[p] > PruneThreshold
    BY ZenonT(60) DEF GraphInv, SoundGraph
  <2> QED BY <2>1, <2>2, <2>3 DEF PruneThreshold
<1>6. links' \in [Pairs -> Nat]
  BY <1>4, <1>5, ZenonT(60)
<1>7. /\ sightings \in [Topics -> Nat] /\ together \in [Pairs -> Nat]
      /\ \A p \in Pairs : together[p] = together[Flipped(p)]
  BY DEF GraphInv, SoundGraph
<1> QED BY <1>2, <1>5, <1>6, <1>7, ZenonT(60) DEF SoundGraph

LEMMA GraphStep == GraphInv /\ [RecallNext]_recallVars => GraphInv'
<1> SUFFICES ASSUME GraphInv, [RecallNext]_recallVars PROVE GraphInv'
  OBVIOUS
<1>1. CASE WakeUp
  <2>1. /\ links' = files.links /\ sightings' = files.sightings /\ together' = files.together
        /\ files' = files
    BY <1>1, ZenonT(60) DEF WakeUp
  <2> QED BY <2>1, ZenonT(60) DEF GraphInv
<1>2. CASE RememberTurn
  <2>1. PICK idea \in SUBSET Topics : UpdateCausalGraph(idea)
    BY <1>2, ZenonT(60) DEF RememberTurn
  <2>2. files' = files
    BY <1>2, ZenonT(60) DEF RememberTurn
  <2>3. SoundGraph(links', sightings', together')
    BY <2>1, TurnKeepsGraph
  <2> QED BY <2>2, <2>3, ZenonT(60) DEF GraphInv
<1>3. CASE Reflect
  <2>1. SoundGraph(links', sightings', together')
    BY <1>3, ReflectKeepsGraph
  <2>2. files' = files
    BY <1>3, ZenonT(60) DEF Reflect
  <2> QED BY <2>1, <2>2, ZenonT(60) DEF GraphInv
<1>4. CASE Compress
  <2>1. links' = links /\ sightings' = sightings /\ together' = together
    BY <1>4, ZenonT(60) DEF Compress
  <2>2. /\ files'.links = files.links /\ files'.sightings = files.sightings
        /\ files'.together = files.together
    BY <1>4 DEF Compress
  <2> QED BY <2>1, <2>2, ZenonT(60) DEF GraphInv
<1>5. CASE StoreGraph
  <2>1. /\ links' = links /\ sightings' = sightings /\ together' = together
        /\ files'.links = links /\ files'.sightings = sightings /\ files'.together = together
    BY <1>5 DEF StoreGraph
  <2> QED BY <2>1, ZenonT(60) DEF GraphInv
<1>6. CASE StoreEpisodes
  <2>1. links' = links /\ sightings' = sightings /\ together' = together
    BY <1>6, ZenonT(60) DEF StoreEpisodes
  <2>2. /\ files'.links = files.links /\ files'.sightings = files.sightings
        /\ files'.together = files.together
    BY <1>6 DEF StoreEpisodes
  <2> QED BY <2>1, <2>2, ZenonT(60) DEF GraphInv
<1>7. CASE FallAsleep \/ UNCHANGED recallVars
  <2>1. links' = links /\ sightings' = sightings /\ together' = together /\ files' = files
    BY <1>7 DEF FallAsleep, recallVars
  <2> QED BY <2>1, ZenonT(60) DEF GraphInv
<1> QED BY <1>1, <1>2, <1>3, <1>4, <1>5, <1>6, <1>7 DEF RecallNext

(* Whatever the tags, the heuristics and the counts: what came together    *)
(* often enough is linked both ways, after every turn and restart.         *)
THEOREM TiedAlwaysLinked == RecallSpec => []TiedTagsLinked
<1>1. GraphInv => TiedTagsLinked
  <2> SUFFICES ASSUME GraphInv, NEW p \in Pairs, Tied(p, sightings, together)
               PROVE  links[p] > PruneThreshold /\ links[<<p[2], p[1]>>] > PruneThreshold
    BY DEF TiedTagsLinked
  <2>1. SoundGraph(links, sightings, together)
    BY DEF GraphInv
  <2>2. Flipped(p) \in Pairs /\ Tied(Flipped(p), sightings, together)
    BY <2>1, PairParts, TiedBothWays
  <2>3. links[p] > PruneThreshold /\ links[Flipped(p)] > PruneThreshold
    BY <2>1, <2>2, ZenonT(60) DEF SoundGraph
  <2> QED BY <2>3 DEF Flipped
<1> QED BY GraphInit, GraphStep, <1>1, PTL DEF RecallSpec

-----------------------------------------------------------------------------
(* Parameters within the bounds of their specs. *)
InBounds(v) == v \in [ParamNames -> Int] /\ \A n \in ParamNames : Lo[n] <= v[n] /\ v[n] <= Hi[n]

(* EvaluateCandidate, of the cycles r. *)
Judged(r, v) == SumOfAll([k \in DOMAIN r |-> ReplayJ(r[k], v)])

LEMMA BoundsAreBounds ==
    \A n \in ParamNames : Lo[n] \in Int /\ Hi[n] \in Int /\ 0 < Lo[n] /\ Lo[n] <= Hi[n]
BY DEF ParamNames, Lo, Hi

LEMMA ClampedInBounds ==
    ASSUME NEW v \in [ParamNames -> Int] PROVE InBounds(ClampParams(v))
<1>1. ASSUME NEW n \in ParamNames
      PROVE  /\ ClampParams(v)[n] \in Int
             /\ Lo[n] <= ClampParams(v)[n] /\ ClampParams(v)[n] <= Hi[n]
  <2>1. ClampParams(v)[n] = Clip(v[n], Lo[n], Hi[n])
    BY DEF ClampParams
  <2>2. v[n] \in Int
    OBVIOUS
  <2> QED BY <2>1, <2>2, BoundsAreBounds DEF Clip
<1>2. ClampParams(v) \in [ParamNames -> Int]
  BY <1>1 DEF ClampParams
<1> QED BY <1>1, <1>2 DEF InBounds

LEMMA ClampKeepsBounded ==
    ASSUME NEW v, InBounds(v) PROVE ClampParams(v) = v /\ v # NoVector
<1>1. v \in [ParamNames -> Int] /\ \A n \in ParamNames : Lo[n] <= v[n] /\ v[n] <= Hi[n]
  BY DEF InBounds
<1>2. \A n \in ParamNames : Clip(v[n], Lo[n], Hi[n]) = v[n]
  BY <1>1, BoundsAreBounds DEF Clip
<1>3. ClampParams(v) = v
  BY <1>1, <1>2 DEF ClampParams
<1>4. "veto_aversion" \in ParamNames
  BY DEF ParamNames
<1>5. v["veto_aversion"] # 0
  BY <1>1, <1>4, BoundsAreBounds
<1>6. NoVector["veto_aversion"] = 0
  BY <1>4 DEF NoVector
<1> QED BY <1>3, <1>5, <1>6

LEMMA DefaultsInBounds == InBounds(Defaults)
<1>1. Defaults \in [ParamNames -> Int]
  BY DEF Defaults, ParamNames
<1>2. ASSUME NEW n \in ParamNames PROVE Lo[n] <= Defaults[n] /\ Defaults[n] <= Hi[n]
  BY DEF ParamNames, Lo, Hi, Defaults
<1> QED BY <1>1, <1>2 DEF InBounds

(* A replay is worth a number. *)
LEMMA ReplayIsInt ==
    ASSUME NEW c \in ReplayCycles, NEW v \in [ParamNames -> Int]
    PROVE  ReplayJ(c, v) \in Int
<1>1. c.duration \in Nat /\ c.lines \in Nat /\ c.lines > 0 /\ c.components \in Seq(Int) /\ Len(c.components) = 8
  BY OptimizerAssumption
<1>2. /\ v.regression_aversion \in Int /\ v.exploration_rate \in Int /\ v.max_scope_lines \in Int
      /\ v.need_weight_expression \in Int /\ v.veto_aversion \in Int
  BY DEF ParamNames
<1>3. AlignmentBonus(c, v) \in Int
  <2> DEFINE a == IF c.dropped THEN 2 * v.regression_aversion ELSE 1000 - v.regression_aversion
             b == IF "factory" \in c.observed THEN 3 * v.exploration_rate ELSE -v.exploration_rate
             d == IF "weak_Expression" \in c.observed THEN 2 * v.need_weight_expression ELSE 0
             e == IF "phi_critical" \in c.observed THEN 2 * v.veto_aversion ELSE 0
  <2>1. a \in Int /\ b \in Int
    BY <1>2
  <2>2. d \in Int /\ e \in Int
    BY <1>2
  <2>3. AlignmentBonus(c, v) = Clip(a + b + d + e, -5000, 5000)
    BY DEF AlignmentBonus
  <2> HIDE DEF a, b, d, e
  <2> QED BY <2>1, <2>2, <2>3 DEF Clip
<1>4. ReplayVitality(c, v) \in Int
  BY DEF ReplayVitality
<1> DEFINE value == Append(c.components, ReplayVitality(c, v))
           term == [i \in 1..9 |-> Weights[i] * Clip(value[i] + AlignmentBonus(c, v), -100000, 100000)]
<1>5. value \in Seq(Int) /\ Len(value) = 9
  <2>1. \A s \in Seq(Int), x \in Int : Append(s, x) \in Seq(Int) /\ Len(Append(s, x)) = Len(s) + 1
    OBVIOUS
  <2>2. Len(value) = Len(c.components) + 1 /\ value \in Seq(Int)
    BY <1>1, <1>4, <2>1, ZenonT(60)
  <2> QED BY <1>1, <2>2
<1>6. ASSUME NEW i \in 1..9 PROVE term[i] \in Int
  <2>1. value[i] \in Int
    BY <1>5
  <2> HIDE DEF value
  <2>2. Clip(value[i] + AlignmentBonus(c, v), -100000, 100000) \in Int
    BY <1>3, <2>1 DEF Clip
  <2>3. Weights[i] \in Int
    BY DEF Weights
  <2> QED BY <2>2, <2>3
<1>7. term \in Seq(Int)
  <2> HIDE DEF value
  <2>1. term \in [1..9 -> Int]
    BY <1>6
  <2>2. \A n \in Nat : \A f \in [1..n -> Int] : f \in Seq(Int)
    OBVIOUS
  <2>3. 9 \in Nat
    OBVIOUS
  <2> HIDE DEF term
  <2> QED BY <2>1, <2>2, <2>3, ZenonT(60)
<1>8. ReplayJ(c, v) = SumOfAll(term)
  BY DEF ReplayJ
<1> HIDE DEF term
<1> QED BY <1>7, <1>8, SumIsInt

LEMMA JudgedIsInt ==
    ASSUME NEW r \in Seq(ReplayCycles), NEW v \in [ParamNames -> Int]
    PROVE  Judged(r, v) \in Int
<1> DEFINE worth == [k \in DOMAIN r |-> ReplayJ(r[k], v)]
<1>1. Len(r) \in Nat /\ DOMAIN r = 1..Len(r)
  OBVIOUS
<1>2. \A k \in 1..Len(r) : ReplayJ(r[k], v) \in Int
  BY ReplayIsInt
<1>3. worth \in [1..Len(r) -> Int]
  BY <1>1, <1>2
<1> HIDE DEF worth
<1>4. worth \in Seq(Int)
  BY <1>1, <1>3
<1> QED BY <1>4, SumIsInt DEF Judged, worth

(* The inductive invariant: what is in force, saved or found lies within   *)
(* the bounds, so that clamping what was judged best changes nothing; and  *)
(* the best so far is judged no worse than what is in force.               *)
TuningInv ==
    /\ replayed \in Seq(ReplayCycles)
    /\ InBounds(tuned)
    /\ paramsFile = NoVector \/ InBounds(paramsFile)
    /\ best = NoVector \/ (InBounds(best) /\ Judged(replayed, best) >= Judged(replayed, tuned))

LEMMA TuningInit == OptimizerInit => TuningInv
BY DefaultsInBounds DEF OptimizerInit, TuningInv

LEMMA GenerationKeeps == TuningInv /\ Generation => TuningInv'
<1> SUFFICES ASSUME TuningInv, Generation PROVE TuningInv'
  OBVIOUS
<1>1. PICK draw \in Draws : best' = BestOf(ClampParams(draw))
  BY ZenonT(60) DEF Generation
<1>2. replayed' = replayed /\ tuned' = tuned /\ paramsFile' = paramsFile
  BY ZenonT(60) DEF Generation
<1> DEFINE elite == ClampParams(draw)
<1>3. draw \in [ParamNames -> Int]
  BY OptimizerAssumption
<1>4. InBounds(elite)
  BY <1>3, ClampedInBounds
<1>5. InBounds(best) /\ Judged(replayed, best) >= Judged(replayed, tuned)
  BY DEF TuningInv, Generation, Idle
<1>6. InBounds(tuned) /\ replayed \in Seq(ReplayCycles)
  BY DEF TuningInv
<1>7. /\ elite \in [ParamNames -> Int] /\ best \in [ParamNames -> Int] /\ tuned \in [ParamNames -> Int]
  BY <1>4, <1>5, <1>6 DEF InBounds
<1>8. Judged(replayed, elite) \in Int /\ Judged(replayed, best) \in Int /\ Judged(replayed, tuned) \in Int
  <2> HIDE DEF elite
  <2> QED BY <1>6, <1>7, JudgedIsInt
<1>9. best' = IF Judged(replayed, elite) > Judged(replayed, best) THEN elite ELSE best
  BY <1>1, ZenonT(60) DEF BestOf, EvaluateCandidate, Judged
<1> HIDE DEF elite
<1>10. CASE Judged(replayed, elite) > Judged(replayed, best)
  <2>1. best' = elite
    BY <1>9, <1>10, ZenonT(60)
  <2>2. Judged(replayed, elite) >= Judged(replayed, tuned)
    BY <1>5, <1>8, <1>10
  <2> QED BY <1>2, <1>4, <2>1, <2>2, ZenonT(60) DEF TuningInv
<1>11. CASE ~(Judged(replayed, elite) > Judged(replayed, best))
  <2>1. best' = best
    BY <1>9, <1>11, ZenonT(60)
  <2> QED BY <1>2, <2>1, ZenonT(60) DEF TuningInv
<1> QED BY <1>10, <1>11

LEMMA TuningStep == TuningInv /\ [OptimizerNext]_optimizerVars => TuningInv'
<1> SUFFICES ASSUME TuningInv, [OptimizerNext]_optimizerVars PROVE TuningInv'
  OBVIOUS
<1>1. ASSUME NEW c \in ReplayCycles, CycleLived(c) PROVE TuningInv'
  <2> DEFINE all == Append(replayed, c)
             first == 1 + (IF Len(all) > ReplayK THEN Len(all) - ReplayK ELSE 0)
  <2>1. replayed \in Seq(ReplayCycles) /\ best = NoVector
    BY <1>1 DEF TuningInv, CycleLived, Idle
  <2>2. all \in Seq(ReplayCycles) /\ Len(all) \in Nat
    BY <2>1
  <2>3. replayed' = SubSeq(all, first, Len(all))
    BY <1>1, ZenonT(60) DEF CycleLived
  <2> HIDE DEF all
  <2>4. first \in 1..(Len(all) + 1)
    BY <2>2, OptimizerAssumption
  <2> HIDE DEF first
  <2>5. replayed' \in Seq(ReplayCycles)
    BY <2>2, <2>3, <2>4
  <2>6. tuned' = tuned /\ paramsFile' = paramsFile /\ best' = best
    BY <1>1, ZenonT(60) DEF CycleLived
  <2> QED BY <2>1, <2>5, <2>6, ZenonT(60) DEF TuningInv
<1>2. CASE StartCEM
  <2>1. best' = tuned /\ tuned' = tuned /\ replayed' = replayed /\ paramsFile' = paramsFile
    BY <1>2, ZenonT(60) DEF StartCEM
  <2>2. tuned \in [ParamNames -> Int] /\ replayed \in Seq(ReplayCycles)
    BY DEF TuningInv, InBounds
  <2>3. Judged(replayed, tuned) >= Judged(replayed, tuned)
    BY <2>2, JudgedIsInt
  <2> QED BY <2>1, <2>3, ZenonT(60) DEF TuningInv
<1>3. CASE Generation
  BY <1>3, GenerationKeeps
<1>4. CASE InstallParams
  <2>1. InBounds(best)
    BY <1>4 DEF TuningInv, InstallParams, Idle
  <2>2. tuned' = best
    BY <1>4, <2>1, ClampKeepsBounded, ZenonT(60) DEF InstallParams
  <2>3. best' = NoVector /\ replayed' = replayed /\ paramsFile' = paramsFile
    BY <1>4, ZenonT(60) DEF InstallParams
  <2> QED BY <2>1, <2>2, <2>3, ZenonT(60) DEF TuningInv
<1>5. CASE SaveParams
  <2>1. /\ paramsFile' = tuned /\ tuned' = tuned /\ replayed' = replayed /\ best' = best
    BY <1>5, ZenonT(60) DEF SaveParams
  <2> QED BY <2>1, ZenonT(60) DEF TuningInv
<1>6. CASE RestartParams
  <2>1. InBounds(tuned')
    <3>1. CASE paramsFile = NoVector
      BY <1>6, <3>1, DefaultsInBounds DEF RestartParams
    <3>2. CASE paramsFile # NoVector
      <4>1. InBounds(paramsFile)
        BY <3>2 DEF TuningInv
      <4>2. tuned' = paramsFile
        BY <1>6, <3>2, <4>1, ClampKeepsBounded, ZenonT(60) DEF RestartParams
      <4> QED BY <4>1, <4>2
    <3> QED BY <3>1, <3>2
  <2>2. best' = NoVector /\ replayed' = replayed /\ paramsFile' = paramsFile
    BY <1>6, ZenonT(60) DEF RestartParams
  <2> QED BY <2>1, <2>2, ZenonT(60) DEF TuningInv
<1>7. CASE UNCHANGED optimizerVars
  <2>1. tuned' = tuned /\ replayed' = replayed /\ best' = best /\ paramsFile' = paramsFile
    BY <1>7, ZenonT(60) DEF optimizerVars
  <2> QED BY <2>1, ZenonT(60) DEF TuningInv
<1> QED BY <1>1, <1>2, <1>3, <1>4, <1>5, <1>6, <1>7, ZenonT(60) DEF OptimizerNext

(* Whatever the draws and the cycles: what a dream installs is judged by   *)
(* the last cycles no worse than what was in force.                        *)
THEOREM NeverInstallsWorse == OptimizerSpec => NeverWorse
<1>1. TuningInv /\ InstallParams => EvaluateCandidate(tuned') >= EvaluateCandidate(tuned)
  <2> SUFFICES ASSUME TuningInv, InstallParams
               PROVE  EvaluateCandidate(tuned') >= EvaluateCandidate(tuned)
    OBVIOUS
  <2>1. InBounds(best) /\ Judged(replayed, best) >= Judged(replayed, tuned)
    BY DEF TuningInv, InstallParams, Idle
  <2>2. tuned' = best
    BY <2>1, ClampKeepsBounded, ZenonT(60) DEF InstallParams
  <2>3. EvaluateCandidate(tuned') = Judged(replayed, best)
    BY <2>2, ZenonT(60) DEF EvaluateCandidate, Judged
  <2>4. EvaluateCandidate(tuned) = Judged(replayed, tuned)
    BY ZenonT(60) DEF EvaluateCandidate, Judged
  <2> QED BY <2>1, <2>3, <2>4
<1> QED BY TuningInit, TuningStep, <1>1, PTL DEF OptimizerSpec, NeverWorse

-----------------------------------------------------------------------------
(* The results of a run so far: of the corpus's tasks in order.            *)
Reported == [task : 1..Len(Corpus), score : 0..1000, success : BOOLEAN]
Report(r) == r \in Seq(Reported) /\ Len(r) <= Len(Corpus) /\ \A i \in 1..Len(r) : r[i].task = i

LEMMA CorpusIsSome == Len(Corpus) \in Nat /\ Len(Corpus) > 0 /\ DOMAIN Corpus = 1..Len(Corpus)
BY VerdictAssumption

LEMMA ResultsReported ==
    ASSUME NEW task \in 1..Len(Corpus), NEW r \in Results(task)
    PROVE  r \in Reported /\ r.task = task
<1>1. CASE r \in Scored(task)
  <2>1. PICK m \in Marks : r = Result(task, m)
    BY <1>1 DEF Scored
  <2>2. m \in 0..1000
    BY VerdictAssumption
  <2> QED BY <2>1, <2>2 DEF Result, Reported
<1>2. CASE r = Failed(task)
  BY <1>2 DEF Failed, Reported
<1> QED BY <1>1, <1>2 DEF Results

LEMMA OneMoreReported ==
    ASSUME NEW s, Report(s), Len(s) < Len(Corpus), NEW r \in Results(Len(s) + 1)
    PROVE  Report(Append(s, r)) /\ Len(Append(s, r)) = Len(s) + 1
<1>1. s \in Seq(Reported) /\ Len(s) \in Nat /\ \A i \in 1..Len(s) : s[i].task = i
  BY DEF Report
<1>2. Len(s) + 1 \in 1..Len(Corpus)
  BY <1>1, CorpusIsSome
<1>3. r \in Reported /\ r.task = Len(s) + 1
  BY <1>2, ResultsReported
<1> DEFINE t == Append(s, r)
<1>4. t \in Seq(Reported) /\ Len(t) = Len(s) + 1
  BY <1>1, <1>3
<1>5. \A i \in 1..Len(s) : t[i] = s[i]
  BY <1>1
<1>6. t[Len(s) + 1] = r
  BY <1>1
<1> HIDE DEF t
<1>7. ASSUME NEW i \in 1..Len(t) PROVE t[i].task = i
  <2>1. i \in 1..Len(s) \/ i = Len(s) + 1
    BY <1>1, <1>4
  <2> QED BY <1>1, <1>3, <1>5, <1>6, <2>1
<1>8. Len(t) <= Len(Corpus)
  BY <1>2, <1>4
<1> QED BY <1>4, <1>7, <1>8 DEF Report, t

(* Scores of a whole run, as a sequence of numbers. *)
ScoresOf(r) == [i \in DOMAIN r |-> r[i].score]

LEMMA ScoresAreInts ==
    ASSUME NEW r, Report(r), Len(r) = Len(Corpus)
    PROVE  /\ ScoresOf(r) \in Seq(Int) /\ Len(ScoresOf(r)) = Len(Corpus)
           /\ \A i \in 1..Len(Corpus) : r[i].score \in Int /\ ScoresOf(r)[i] = r[i].score
<1>1. r \in Seq(Reported) /\ DOMAIN r = 1..Len(Corpus)
  BY DEF Report
<1>2. \A i \in 1..Len(Corpus) : r[i].score \in Int
  <2> TAKE i \in 1..Len(Corpus)
  <2>1. r[i] \in Reported
    BY <1>1
  <2>2. r[i].score \in 0..1000
    BY <2>1, ZenonT(60) DEF Reported
  <2>3. \A x \in 0..1000 : x \in Int
    OBVIOUS
  <2> QED BY <2>2, <2>3, ZenonT(60)
<1>3. ScoresOf(r) \in [1..Len(Corpus) -> Int]
  BY <1>1, <1>2 DEF ScoresOf
<1> QED BY <1>1, <1>2, <1>3, CorpusIsSome DEF ScoresOf

(* To gain more than 1/phi of what changed is to gain more than is lost.   *)
LEMMA EffectIsBetter ==
    ASSUME Report(baseline), Report(cognitive),
           Len(baseline) = Len(Corpus), Len(cognitive) = Len(Corpus), EffectSize
    PROVE  Performance
<1> DEFINE n == Len(Corpus)
           d == [i \in 1..n |-> Delta(i)]
           up == {i \in 1..n : Delta(i) > 0}
           down == {i \in 1..n : Delta(i) < 0}
           g == [i \in 1..n |-> IF i \in up THEN Delta(i) ELSE 0]
           l == [i \in 1..n |-> IF i \in down THEN Delta(i) ELSE 0]
           b == ScoresOf(baseline)
           c == ScoresOf(cognitive)
<1>1. n \in Nat /\ DOMAIN Corpus = 1..n
  BY CorpusIsSome
<1>2. /\ b \in Seq(Int) /\ Len(b) = n
      /\ \A i \in 1..n : baseline[i].score \in Int /\ b[i] = baseline[i].score
  BY ScoresAreInts, ZenonT(60)
<1>3. /\ c \in Seq(Int) /\ Len(c) = n
      /\ \A i \in 1..n : cognitive[i].score \in Int /\ c[i] = cognitive[i].score
  BY ScoresAreInts, ZenonT(60)
<1> HIDE DEF b, c
<1>4. \A i \in 1..n : Delta(i) \in Int /\ c[i] = Delta(i) + b[i]
  <2> HIDE DEF n
  <2> QED BY <1>2, <1>3 DEF Delta
<1>5. d \in [1..n -> Int] /\ g \in [1..n -> Int] /\ l \in [1..n -> Int]
  BY <1>4
<1>6. \A i \in 1..n : d[i] = g[i] + l[i] /\ l[i] <= 0 /\ d[i] = Delta(i)
  BY <1>4
<1>7. Gained = SumOfAll(g)
  BY <1>1, ZenonT(60) DEF Gained, SumOver
<1>8. Lost = SumOfAll(l)
  BY <1>1, ZenonT(60) DEF Lost, SumOver
<1> HIDE DEF d, g, l, n
<1>9. /\ d \in Seq(Int) /\ Len(d) = n
      /\ g \in Seq(Int) /\ Len(g) = n
      /\ l \in Seq(Int) /\ Len(l) = n
  BY <1>1, <1>5
<1>10. SumOfAll(d) = SumOfAll(g) + SumOfAll(l)
  <2>1. Adds(g, l, d)
    BY <1>6, <1>9 DEF Adds
  <2> QED BY <1>9, <2>1, SumOfSums
<1>11. SumOfAll(c) = SumOfAll(d) + SumOfAll(b)
  <2>1. \A i \in 1..Len(c) : c[i] = d[i] + b[i]
    BY <1>3, <1>4, <1>6
  <2>2. Adds(d, b, c)
    BY <1>2, <1>3, <1>9, <2>1 DEF Adds
  <2> QED BY <1>2, <1>3, <1>9, <2>2, SumOfSums
<1>12. SumOfAll(l) <= 0
  BY <1>6, <1>9, SumNotPositive
<1>13. SumOfAll(g) \in Int /\ SumOfAll(l) \in Int /\ SumOfAll(b) \in Int
  BY <1>2, <1>9, SumIsInt
<1>14. 1000 * SumOfAll(g) > 618 * (SumOfAll(g) - SumOfAll(l))
  BY <1>7, <1>8, ZenonT(60) DEF EffectSize
<1>15. SumOfAll(c) > SumOfAll(b)
  BY <1>10, <1>11, <1>12, <1>13, <1>14
<1> QED BY <1>15, ZenonT(60) DEF Performance, ScoreTotal, ScoresOf, b, c

(* Four criteria of five include the first or the last. *)
LEMMA FourIncludeOne ==
    ASSUME CriteriaMet >= 4 PROVE Performance \/ EffectSize
<1> DEFINE met == {c \in 1..5 : <<Performance, NoRegression, Coherence, Adaptability, EffectSize>>[c]}
<1> SUFFICES ASSUME ~Performance, ~EffectSize PROVE FALSE
  OBVIOUS
<1>1. ASSUME NEW c \in met PROVE c \in {2, 3, 4}
  <2>1. c \in 1..5 /\ <<Performance, NoRegression, Coherence, Adaptability, EffectSize>>[c]
    OBVIOUS
  <2>2. c # 1
    BY <2>1
  <2>3. c # 5
    BY <2>1
  <2>4. c \in 1..5
    BY <2>1
  <2> QED BY <2>2, <2>3, <2>4
<1>2. CriteriaMet = Cardinality(met)
  BY DEF CriteriaMet
<1> HIDE DEF met
<1>3. IsFiniteSet(2..4) /\ Cardinality(2..4) = 3
  <2>1. 2 \in Int /\ 4 \in Int
    OBVIOUS
  <2>2. IsFiniteSet(2..4) /\ Cardinality(2..4) = IF 2 > 4 THEN 0 ELSE 4 - 2 + 1
    BY <2>1, FS_Interval, ZenonT(60)
  <2> DEFINE T == 2..4
  <2>3. IsFiniteSet(T) /\ Cardinality(T) = IF 2 > 4 THEN 0 ELSE 4 - 2 + 1
    BY <2>2
  <2>4. IsFiniteSet(T) /\ Cardinality(T) = 3
    <3> HIDE DEF T
    <3> QED BY <2>3
  <2> QED BY <2>4
<1>4. met \in SUBSET (2..4)
  BY <1>1
<1>5. Cardinality(met) <= Cardinality(2..4) /\ IsFiniteSet(met)
  BY <1>3, <1>4, FS_Subset
<1>6. Cardinality(met) \in Nat
  BY <1>5, FS_CardinalityType
<1> QED BY <1>2, <1>3, <1>5, <1>6

(* The inductive invariant: both runs report the tasks in order, the        *)
(* second after the whole first, and a verdict on both.                     *)
VerdictInv ==
    /\ Report(baseline) /\ Report(cognitive)
    /\ Len(cognitive) = 0 \/ Len(baseline) = Len(Corpus)
    /\ verdict = "none" \/ Len(cognitive) = Len(Corpus)
    /\ verdict = "VALIDATED" => ScoreTotal(cognitive) > ScoreTotal(baseline)

LEMMA NothingReported == Report(<<>>) /\ Len(<<>>) = 0
BY CorpusIsSome DEF Report

LEMMA VerdictStep == VerdictInv /\ [VerdictNext]_verdictVars => VerdictInv'
<1> SUFFICES ASSUME VerdictInv, [VerdictNext]_verdictVars PROVE VerdictInv'
  OBVIOUS
<1> USE CorpusIsSome
<1>1. CASE RunBaseline
  <2>1. PICK r \in Results(Len(baseline) + 1) : baseline' = Append(baseline, r)
    BY <1>1, ZenonT(60) DEF RunBaseline
  <2>2. Len(baseline) < Len(Corpus) /\ cognitive' = cognitive /\ verdict' = verdict
    BY <1>1, ZenonT(60) DEF RunBaseline
  <2>3. Report(baseline')
    BY <2>1, <2>2, OneMoreReported, ZenonT(60) DEF VerdictInv
  <2>4. Len(cognitive) = 0 /\ verdict = "none"
    <3>1. Len(baseline) # Len(Corpus)
      BY <2>2 DEF VerdictInv, Report
    <3> QED BY <3>1 DEF VerdictInv
  <2> QED BY <2>2, <2>3, <2>4 DEF VerdictInv
<1>2. CASE RunCognitive
  <2>1. PICK r \in Results(Len(cognitive) + 1) : cognitive' = Append(cognitive, r)
    BY <1>2, ZenonT(60) DEF RunCognitive
  <2>2. /\ Len(baseline) = Len(Corpus) /\ Len(cognitive) < Len(Corpus)
        /\ baseline' = baseline /\ verdict' = verdict
    BY <1>2, ZenonT(60) DEF RunCognitive
  <2>3. Report(cognitive')
    BY <2>1, <2>2, OneMoreReported, ZenonT(60) DEF VerdictInv
  <2>4. verdict = "none"
    BY <2>2 DEF VerdictInv, Report
  <2> QED BY <2>2, <2>3, <2>4 DEF VerdictInv
<1>3. CASE Judge
  <2>1. /\ Len(cognitive) = Len(Corpus) /\ baseline' = baseline /\ cognitive' = cognitive
        /\ verdict' = IF CriteriaMet >= 4 THEN "VALIDATED" ELSE "DECORATIVE"
    BY <1>3, ZenonT(60) DEF Judge
  <2>2. Len(baseline) = Len(Corpus)
    BY <2>1 DEF VerdictInv
  <2>3. verdict' = "VALIDATED" => CriteriaMet >= 4
    BY <2>1
  <2>4. CriteriaMet >= 4 => Performance
    BY <2>1, <2>2, FourIncludeOne, EffectIsBetter, ZenonT(60) DEF VerdictInv
  <2>5. verdict' = "VALIDATED" => ScoreTotal(cognitive) > ScoreTotal(baseline)
    BY <2>3, <2>4, ZenonT(60) DEF Performance
  <2> QED BY <2>1, <2>2, <2>5, ZenonT(60) DEF VerdictInv
<1>4. CASE ValidateAgain
  <2>1. baseline' = <<>> /\ cognitive' = <<>> /\ verdict' = "none"
    BY <1>4, ZenonT(60) DEF ValidateAgain
  <2> QED BY <2>1, NothingReported DEF VerdictInv
<1>5. CASE UNCHANGED verdictVars
  <2>1. baseline' = baseline /\ cognitive' = cognitive /\ verdict' = verdict
    BY <1>5, ZenonT(60) DEF verdictVars
  <2> QED BY <2>1, ZenonT(60) DEF VerdictInv
<1> QED BY <1>1, <1>2, <1>3, <1>4, <1>5, ZenonT(60) DEF VerdictNext

(* Whatever the corpus, the marks and the failures: nothing is validated    *)
(* that is not better on average, of the same tasks.                        *)
THEOREM ValidatedAlwaysBetter == VerdictSpec => []ValidatedIsBetter
<1>1. VerdictInit => VerdictInv
  BY NothingReported DEF VerdictInit, VerdictInv
<1>2. VerdictInv => ValidatedIsBetter
  <2> SUFFICES ASSUME VerdictInv, verdict = "VALIDATED"
               PROVE  /\ ScoreTotal(cognitive) > ScoreTotal(baseline)
                      /\ \A i \in DOMAIN Corpus : baseline[i].task = cognitive[i].task
    BY DEF ValidatedIsBetter
  <2>1. Len(cognitive) = Len(Corpus)
    BY DEF VerdictInv
  <2>2. Len(baseline) = Len(Corpus)
    BY <2>1, CorpusIsSome DEF VerdictInv
  <2>3. \A i \in 1..Len(Corpus) : baseline[i].task = i /\ cognitive[i].task = i
    BY <2>1, <2>2 DEF VerdictInv, Report
  <2>4. ScoreTotal(cognitive) > ScoreTotal(baseline)
    BY ZenonT(60) DEF VerdictInv
  <2> QED BY <2>3, <2>4, CorpusIsSome
<1> QED BY <1>1, <1>2, VerdictStep, PTL DEF VerdictSpec

-----------------------------------------------------------------------------
(* Feelings, those no more aroused than a turn leaves them, and the hearts  *)
(* <<affect, mood>> and episodes that are felt.                            *)
Signed == -1000..1000
Unsigned == 0..1000
Low == 0..552
Feelings == Signed \X Unsigned \X Unsigned
CalmFeelings == Signed \X Low \X Unsigned
CalmHearts == CalmFeelings \X Feelings
Remembrances == [valence : Signed, significance : Unsigned]

(* Appraisals that arouse no more. *)
CalmAppraisal(a) ==
    /\ a.congruence \in Int /\ a.norm \in Int /\ a.agency \in Int /\ a.coping \in Int /\ a.novelty \in Int
    /\ Part(a.novelty, 1000 - Part(a.coping, 618)) <= 552

LEMMA NumbersAreInts ==
    /\ \A x \in Signed : x \in Int
    /\ \A x \in Unsigned : x \in Int
    /\ \A x \in Low : x \in Int /\ x <= 552
BY DEF Signed, Unsigned, Low

LEMMA PartIsInt == \A a, b \in Int : Part(a, b) \in Int
BY DEF Part

LEMMA Limits ==
    \A x \in Int : /\ Within01(x) \in Unsigned /\ Within11(x) \in Signed
                   /\ Within01(x) \in Int /\ Within11(x) \in Int
                   /\ x <= 552 => Within01(x) \in Low
BY DEF Within01, Within11, Signed, Unsigned, Low

LEMMA OfIsFeeling ==
    ASSUME NEW v \in Int, NEW a \in Int, NEW d \in Int
    PROVE  Of(v, a, d) \in Feelings /\ (a <= 552 => Of(v, a, d) \in CalmFeelings)
<1>1. Of(v, a, d) = <<Within11(v), Within01(a), Within01(d)>>
  BY DEF Of
<1>2. Within11(v) \in Signed /\ Within01(a) \in Unsigned /\ Within01(d) \in Unsigned
  BY Limits, ZenonT(60)
<1>3. a <= 552 => Within01(a) \in Low
  BY Limits, ZenonT(60)
<1>4. Of(v, a, d) \in Feelings
  BY <1>1, <1>2 DEF Feelings
<1>5. a <= 552 => Of(v, a, d) \in CalmFeelings
  BY <1>1, <1>2, <1>3 DEF CalmFeelings
<1> QED BY <1>4, <1>5

LEMMA FeelingParts ==
    ASSUME NEW f \in Feelings
    PROVE  /\ f[1] \in Signed /\ f[2] \in Unsigned /\ f[3] \in Unsigned
           /\ f[1] \in Int /\ f[2] \in Int /\ f[3] \in Int
<1>1. f[1] \in Signed /\ f[2] \in Unsigned /\ f[3] \in Unsigned
  BY DEF Feelings
<1> QED BY <1>1, NumbersAreInts, ZenonT(60)

LEMMA CalmIsFeeling ==
    ASSUME NEW f \in CalmFeelings PROVE f \in Feelings /\ f[2] \in Low
BY DEF Feelings, CalmFeelings, Low, Unsigned

LEMMA PadIsCalm ==
    ASSUME NEW a, CalmAppraisal(a) PROVE ToPad(a) \in CalmFeelings
<1>1. /\ a.congruence \in Int /\ a.norm \in Int /\ a.agency \in Int /\ a.coping \in Int /\ a.novelty \in Int
      /\ Part(a.novelty, 1000 - Part(a.coping, 618)) <= 552
  BY DEF CalmAppraisal
<1>2. Part(a.coping, 618) \in Int
  <2>1. 618 \in Int
    OBVIOUS
  <2> QED BY <1>1, <2>1, PartIsInt, ZenonT(60)
<1>3. 1000 - Part(a.coping, 618) \in Int
  BY <1>2
<1>4. /\ Part(a.congruence, a.norm) \in Int
      /\ Part(a.novelty, 1000 - Part(a.coping, 618)) \in Int
      /\ Part(a.coping, a.agency) \in Int
  <2> DEFINE x == 1000 - Part(a.coping, 618)
  <2>1. x \in Int
    BY <1>3
  <2> HIDE DEF x
  <2>2. /\ Part(a.congruence, a.norm) \in Int /\ Part(a.novelty, x) \in Int
        /\ Part(a.coping, a.agency) \in Int
    BY <1>1, <2>1, PartIsInt, ZenonT(60)
  <2> QED BY <2>2 DEF x
<1> QED BY <1>1, <1>4, OfIsFeeling DEF ToPad

LEMMA TowardIsFeeling ==
    ASSUME NEW f \in Feelings, NEW g \in Feelings
    PROVE  /\ Toward(f, g, 236) \in Feelings
           /\ f[2] <= 552 /\ g[2] <= 552 => Toward(f, g, 382) \in CalmFeelings
<1>1. /\ f[1] \in Int /\ f[2] \in Int /\ f[3] \in Int
      /\ g[1] \in Int /\ g[2] \in Int /\ g[3] \in Int
  BY FeelingParts, ZenonT(60)
<1>3. \A x, y \in Int : x <= 552 /\ y <= 552 => Moved1(x, y, 382) <= 552
  BY DEF Moved1, Part
<1>4. Toward(f, g, 236) \in Feelings
  <2>1. Moved1(f[1], g[1], 236) \in Int /\ Moved1(f[2], g[2], 236) \in Int /\ Moved1(f[3], g[3], 236) \in Int
    BY <1>1 DEF Moved1, Part
  <2> QED BY <2>1, OfIsFeeling DEF Toward
<1>5. ASSUME f[2] <= 552, g[2] <= 552 PROVE Toward(f, g, 382) \in CalmFeelings
  <2>1. Moved1(f[1], g[1], 382) \in Int /\ Moved1(f[2], g[2], 382) \in Int /\ Moved1(f[3], g[3], 382) \in Int
    BY <1>1 DEF Moved1, Part
  <2>2. Moved1(f[2], g[2], 382) <= 552
    BY <1>1, <1>3, <1>5
  <2> QED BY <2>1, <2>2, OfIsFeeling DEF Toward
<1> QED BY <1>4, <1>5

(* What the engine makes of a calm heart is calm. *)
LEMMA ProcessIsCalm ==
    ASSUME NEW h \in CalmHearts, NEW a, CalmAppraisal(a), NEW s \in Int
    PROVE  Process(h, a, s) \in CalmHearts
<1> DEFINE next == Toward(h[1], ToPad(a), 382)
           slow == Toward(h[2], next, 236)
           mood2 == IF s > 700 THEN Impulsed(slow, s, a.congruence) ELSE slow
<1>1. h[1] \in CalmFeelings /\ h[2] \in Feelings
  BY DEF CalmHearts
<1>2. ToPad(a) \in CalmFeelings
  BY PadIsCalm
<1>3. next \in CalmFeelings
  <2>1. h[1] \in Feelings /\ h[1][2] \in Low
    BY <1>1, CalmIsFeeling
  <2>2. ToPad(a) \in Feelings /\ ToPad(a)[2] \in Low
    BY <1>2, CalmIsFeeling
  <2>3. h[1][2] <= 552 /\ ToPad(a)[2] <= 552
    BY <2>1, <2>2 DEF Low
  <2> QED BY <2>1, <2>2, <2>3, TowardIsFeeling
<1>4. slow \in Feelings
  <2> HIDE DEF next
  <2>1. next \in Feelings
    BY <1>3, CalmIsFeeling
  <2> QED BY <1>1, <2>1, TowardIsFeeling
<1>5. a.congruence \in Int
  BY DEF CalmAppraisal
<1> HIDE DEF slow
<1>6. Impulsed(slow, s, a.congruence) \in Feelings
  <2>1. slow[1] \in Int /\ slow[2] \in Int /\ slow[3] \in Int
    BY <1>4, FeelingParts, ZenonT(60)
  <2>2. Part(s, 618) \in Int
    BY PartIsInt
  <2>3. Size(a.congruence) \in Int
    BY <1>5 DEF Size
  <2>4. Part(a.congruence, Part(s, 618)) \in Int /\ Part(Size(a.congruence), Part(s, 618)) \in Int
    <3> DEFINE k == Part(s, 618)
    <3>1. k \in Int
      BY <2>2
    <3> HIDE DEF k
    <3>2. Part(a.congruence, k) \in Int /\ Part(Size(a.congruence), k) \in Int
      BY <1>5, <2>3, <3>1, PartIsInt, ZenonT(60)
    <3> QED BY <3>2 DEF k
  <2>5. Part(Part(Size(a.congruence), Part(s, 618)), 618) \in Int
    BY <2>4, PartIsInt
  <2>6. /\ slow[1] + Part(a.congruence, Part(s, 618)) \in Int
        /\ slow[2] + Part(Part(Size(a.congruence), Part(s, 618)), 618) \in Int
    BY <2>1, <2>4, <2>5
  <2> QED BY <2>1, <2>6, OfIsFeeling DEF Impulsed
<1>7. mood2 \in Feelings
  BY <1>4, <1>6
<1>8. Process(h, a, s) = <<next, mood2>>
  BY DEF Process, slow
<1> HIDE DEF next, mood2
<1> QED BY <1>3, <1>7, <1>8 DEF CalmHearts

LEMMA TurnAppraisalIsCalm ==
    ASSUME NEW move \in PhiMoves, NEW rank \in RankMoves, NEW drift \in Drifts
    PROVE  CalmAppraisal(Appraise(move, rank, drift))
<1>1. move \in Int /\ rank \in Int /\ drift \in Int
  BY AffectAssumption
<1>2. GoalCongruence(move, rank) \in Int
  <2>1. Within11(2 * move) \in Int /\ Within11(1000 * rank) \in Int
    <3> DEFINE x == 2 * move
               y == 1000 * rank
    <3>1. x \in Int /\ y \in Int
      BY <1>1
    <3> HIDE DEF x, y
    <3>2. Within11(x) \in Int /\ Within11(y) \in Int
      BY <3>1, Limits, ZenonT(60)
    <3> QED BY <3>2 DEF x, y
  <2>2. Part(700, Within11(2 * move)) \in Int /\ Part(300, Within11(1000 * rank)) \in Int
    BY <2>1 DEF Part
  <2>3. Part(700, Within11(2 * move)) + Part(300, Within11(1000 * rank)) \in Int
    BY <2>2
  <2> DEFINE x == Part(700, Within11(2 * move)) + Part(300, Within11(1000 * rank))
  <2>4. x \in Int /\ GoalCongruence(move, rank) = Within11(x)
    BY <2>3 DEF GoalCongruence
  <2> HIDE DEF x
  <2>5. Within11(x) \in Int
    BY <2>4, Limits, ZenonT(60)
  <2> QED BY <2>4, <2>5, ZenonT(60)
<1>3. NormAlignment(drift, move) \in Int
  <2>1. 1000 - (1000 * drift) \div 618 \in Int
    BY <1>1
  <2> DEFINE x == 1000 - (1000 * drift) \div 618
  <2>2. Within01(x) \in Int
    <3>1. x \in Int
      BY <2>1
    <3> HIDE DEF x
    <3> QED BY <3>1, Limits, ZenonT(60)
  <2> QED BY <2>2 DEF NormAlignment
<1>4. Part(800, 1000 - Part(500, 618)) <= 552
  BY DEF Part
<1> DEFINE a == Appraise(move, rank, drift)
<1>5. /\ a.congruence = GoalCongruence(move, rank) /\ a.norm = NormAlignment(drift, move)
      /\ a.novelty = 800 /\ a.coping = 500 /\ a.agency = 500
  BY DEF Appraise
<1> HIDE DEF a
<1>6. CalmAppraisal(a)
  BY <1>2, <1>3, <1>4, <1>5 DEF CalmAppraisal
<1> QED BY <1>6 DEF a

LEMMA RecallAppraisalIsCalm ==
    ASSUME NEW v \in Int, NEW now \in Feelings
    PROVE  CalmAppraisal(AppraiseRecall(v, now))
<1>1. now[1] \in Int /\ now[3] \in Unsigned /\ now[3] \in Int
  BY FeelingParts, ZenonT(60)
<1>2. now[1] - v \in Int /\ v \div 2 + 500 \in Int
  BY <1>1
<1>3. Within11(now[1] - v) \in Int /\ Within01(v \div 2 + 500) \in Int
  <2> DEFINE x == now[1] - v
             y == v \div 2 + 500
  <2>1. x \in Int /\ y \in Int
    BY <1>2
  <2> HIDE DEF x, y
  <2>2. Within11(x) \in Int /\ Within01(y) \in Int
    BY <2>1, Limits, ZenonT(60)
  <2> QED BY <2>2 DEF x, y
<1>4. \A c \in Unsigned : Part(236, 1000 - Part(c, 618)) <= 552
  BY DEF Part, Unsigned
<1> DEFINE a == AppraiseRecall(v, now)
<1>5. /\ a.congruence = Within11(now[1] - v) /\ a.norm = Within01(v \div 2 + 500)
      /\ a.novelty = 236 /\ a.coping = now[3] /\ a.agency = 0
  BY DEF AppraiseRecall
<1> HIDE DEF a
<1>6. CalmAppraisal(a)
  BY <1>1, <1>3, <1>4, <1>5 DEF CalmAppraisal
<1> QED BY <1>6 DEF a

(* Episodes felt again, one after the other, leave the heart calm.         *)
LEMMA ReliveIsCalm ==
    ASSUME NEW heart \in CalmHearts, NEW n \in Nat, NEW relived \in [1..n -> Remembrances]
    PROVE  Relive(heart, relived) \in CalmHearts
<1> DEFINE recalled(h, e) == Process(h, AppraiseRecall(e.valence, h[2]), e.significance)
           step == [i \in 1..n |-> [h \in CalmHearts |-> recalled(h, relived[i])]]
           Relived(g) == [i \in 0..n |-> IF i = 0 THEN heart ELSE recalled(g[i - 1], relived[i])]
<1>1. ASSUME NEW h \in CalmHearts, NEW e \in Remembrances PROVE recalled(h, e) \in CalmHearts
  <2>1. h[2] \in Feelings
    BY DEF CalmHearts
  <2>2. e.valence \in Signed /\ e.significance \in Unsigned
    BY DEF Remembrances
  <2>3. e.valence \in Int /\ e.significance \in Int
    BY <2>2, NumbersAreInts, ZenonT(60)
  <2>4. CalmAppraisal(AppraiseRecall(e.valence, h[2]))
    BY <2>1, <2>3, RecallAppraisalIsCalm
  <2> QED BY <2>3, <2>4, ProcessIsCalm
<1> HIDE DEF recalled
<1>2. step \in [1..n -> [CalmHearts -> CalmHearts]]
  BY <1>1
<1>3. \A i \in 1..n : \A h \in CalmHearts : step[i][h] = recalled(h, relived[i])
  OBVIOUS
<1>4. PICK g \in [0..n -> CalmHearts] :
         g[0] = heart /\ \A i \in 1..n : g[i] = step[i][g[i - 1]]
  <2> HIDE DEF step
  <2>1. Recursion(CalmHearts, n, heart, step)
    BY <1>2, Iterated
  <2> QED BY <2>1, ZenonT(60) DEF Recursion
<1> HIDE DEF step
<1>5. \A i \in 1..n : g[i] = recalled(g[i - 1], relived[i])
  <2> TAKE i \in 1..n
  <2>1. i - 1 \in 0..n
    OBVIOUS
  <2>2. g[i - 1] \in CalmHearts
    BY <2>1
  <2> QED BY <1>3, <1>4, <2>2
<1>6. g = Relived(g)
  <2> SUFFICES ASSUME NEW i \in 0..n
               PROVE  g[i] = IF i = 0 THEN heart ELSE recalled(g[i - 1], relived[i])
    OBVIOUS
  <2>1. i = 0 \/ i \in 1..n
    OBVIOUS
  <2> QED BY <1>4, <1>5, <2>1
<1> DEFINE f == CHOOSE h : h = Relived(h)
<1>7. f = Relived(f)
  <2> HIDE DEF Relived
  <2> QED BY <1>6
<1>8. Len(relived) = n
  OBVIOUS
<1>9. Relive(heart, relived) = f[n]
  BY <1>8, ZenonT(60) DEF Relive, recalled
<1> HIDE DEF f
<1>10. \A i \in 0..n : f[i] \in CalmHearts
  <2> DEFINE S == {i \in 0..n : f[i] \in CalmHearts}
  <2>1. f[0] = heart
    BY <1>7
  <2>2. 0 \in S
    BY <2>1
  <2>3. ASSUME NEW i \in 0..n, i \in S, i + 1 <= n PROVE i + 1 \in S
    <3>1. i + 1 \in 0..n /\ i + 1 # 0 /\ (i + 1) - 1 = i /\ i + 1 \in 1..n
      BY <2>3
    <3>2. f[i + 1] = recalled(f[i], relived[i + 1])
      BY <1>7, <3>1
    <3>3. relived[i + 1] \in Remembrances
      BY <3>1
    <3>4. f[i] \in CalmHearts
      BY <2>3
    <3>5. f[i + 1] \in CalmHearts
      BY <1>1, <3>2, <3>3, <3>4
    <3> QED BY <3>1, <3>5
  <2>4. 0..n \subseteq S
    <3> HIDE DEF S
    <3> QED BY <2>2, <2>3, UpTo
  <2> QED BY <2>4
<1> QED BY <1>9, <1>10

(* The inductive invariant: in memory and in the file, the affect is no    *)
(* more aroused than a turn's appraisal, and nothing is out of range.      *)
CalmInv ==
    /\ feeling \in CalmFeelings /\ mood \in Feelings
    /\ remembered \in SUBSET Remembrances
    /\ feelingsFile.feeling \in CalmFeelings /\ feelingsFile.mood \in Feelings
    /\ feelingsFile.remembered \in SUBSET Remembrances
    /\ impulse # "arousal"

LEMMA RegisteredCalm ==
    ASSUME NEW f \in CalmFeelings, RegisterAffect(f) PROVE impulse' # "arousal"
<1>1. ~(f[2] > 618)
  BY CalmIsFeeling DEF Low
<1> QED BY <1>1 DEF RegisterAffect

LEMMA CalmInit == AffectInit => CalmInv
<1> SUFFICES ASSUME AffectInit PROVE CalmInv
  OBVIOUS
<1>1. Rest \in CalmFeelings /\ Rest \in Feelings
  BY DEF Rest, CalmFeelings, Feelings, Low, Signed, Unsigned
<1> QED BY <1>1 DEF AffectInit, CalmInv

LEMMA FeelTurnCalm == CalmInv /\ FeelTurn => CalmInv'
<1> SUFFICES ASSUME CalmInv, FeelTurn PROVE CalmInv'
  OBVIOUS
<1>1. PICK move \in PhiMoves, rank \in RankMoves, drift \in Drifts :
         LET significance == Within01((1000 * Size(move)) \div 382)
             heart == Process(<<feeling, mood>>, Appraise(move, rank, drift), significance)
         IN  /\ feeling' = heart[1] /\ mood' = heart[2]
             /\ remembered' = IF significance > 700
                    THEN remembered \cup {[valence |-> heart[1][1], significance |-> significance]}
                    ELSE remembered
  BY ZenonT(60) DEF FeelTurn
<1> DEFINE significance == Within01((1000 * Size(move)) \div 382)
           heart == Process(<<feeling, mood>>, Appraise(move, rank, drift), significance)
<1>2. significance \in Unsigned
  <2>1. move \in Int
    BY AffectAssumption
  <2> DEFINE x == (1000 * Size(move)) \div 382
  <2>2. x \in Int
    BY <2>1 DEF Size
  <2> HIDE DEF x
  <2>3. Within01(x) \in Unsigned
    BY <2>2, Limits, ZenonT(60)
  <2> QED BY <2>3 DEF x
<1> HIDE DEF significance
<1>3. heart \in CalmHearts
  <2>1. <<feeling, mood>> \in CalmHearts
    BY DEF CalmInv, CalmHearts
  <2>2. CalmAppraisal(Appraise(move, rank, drift))
    BY TurnAppraisalIsCalm
  <2>3. significance \in Int
    BY <1>2, NumbersAreInts, ZenonT(60)
  <2> QED BY <2>1, <2>2, <2>3, ProcessIsCalm
<1>4. /\ feeling' = heart[1] /\ mood' = heart[2]
      /\ remembered' = IF significance > 700
             THEN remembered \cup {[valence |-> heart[1][1], significance |-> significance]}
             ELSE remembered
  BY <1>1, ZenonT(60) DEF significance
<1> HIDE DEF heart
<1>5. feeling' \in CalmFeelings /\ mood' \in Feelings /\ heart[1] \in CalmFeelings
  BY <1>3, <1>4 DEF CalmHearts
<1>6. remembered' \in SUBSET Remembrances
  <2>1. heart[1][1] \in Signed
    BY <1>5, CalmIsFeeling, FeelingParts
  <2>2. [valence |-> heart[1][1], significance |-> significance] \in Remembrances
    BY <1>2, <2>1 DEF Remembrances
  <2>3. remembered \in SUBSET Remembrances
    BY DEF CalmInv
  <2> QED BY <1>4, <2>2, <2>3
<1>7. RegisterAffect(feeling') /\ feelingsFile' = feelingsFile
  BY DEF FeelTurn
<1>8. impulse' # "arousal"
  BY <1>5, <1>7, RegisteredCalm
<1> QED BY <1>5, <1>6, <1>7, <1>8 DEF CalmInv

LEMMA DreamCalm == CalmInv /\ DreamAffect => CalmInv'
<1> SUFFICES ASSUME CalmInv, DreamAffect PROVE CalmInv'
  OBVIOUS
<1>1a. PICK n \in 0..3 : \E relived \in [1..n -> remembered] :
         LET heart == Relive(<<feeling, mood>>, relived)
             m == heart[2]
         IN  /\ \A i, j \in 1..n : relived[i] = relived[j] => i = j
             /\ feeling' = heart[1]
             /\ mood' = <<Part(850, m[1]), Part(700, m[2]), m[3]>>
  BY DEF DreamAffect
<1>1. PICK relived \in [1..n -> remembered] :
         LET heart == Relive(<<feeling, mood>>, relived)
             m == heart[2]
         IN  /\ \A i, j \in 1..n : relived[i] = relived[j] => i = j
             /\ feeling' = heart[1]
             /\ mood' = <<Part(850, m[1]), Part(700, m[2]), m[3]>>
  BY <1>1a
<1> DEFINE heart == Relive(<<feeling, mood>>, relived)
           m == heart[2]
<1>2. n \in Nat /\ relived \in [1..n -> Remembrances]
  BY DEF CalmInv
<1>3. <<feeling, mood>> \in CalmHearts
  BY DEF CalmInv, CalmHearts
<1>4. heart \in CalmHearts
  BY <1>2, <1>3, ReliveIsCalm
<1>5. feeling' = heart[1] /\ mood' = <<Part(850, m[1]), Part(700, m[2]), m[3]>>
  BY <1>1, ZenonT(60)
<1> HIDE DEF heart
<1>6. heart[1] \in CalmFeelings /\ m \in Feelings
  BY <1>4 DEF CalmHearts
<1>7. m[1] \in Signed /\ m[2] \in Unsigned /\ m[3] \in Unsigned
  BY <1>6, FeelingParts
<1> HIDE DEF m
<1>8. Part(850, m[1]) \in Signed /\ Part(700, m[2]) \in Unsigned
  <2>1. \A x \in Signed : Part(850, x) \in Signed
    BY DEF Part, Signed
  <2>2. \A x \in Unsigned : Part(700, x) \in Unsigned
    BY DEF Part, Unsigned
  <2> QED BY <1>7, <2>1, <2>2
<1>9. mood' \in Feelings
  BY <1>5, <1>7, <1>8 DEF Feelings
<1>10. remembered' = remembered /\ impulse' = impulse /\ feelingsFile' = feelingsFile
  BY ZenonT(60) DEF DreamAffect
<1> QED BY <1>5, <1>6, <1>9, <1>10 DEF CalmInv

LEMMA CalmStep == CalmInv /\ [AffectNext]_affectVars => CalmInv'
<1> SUFFICES ASSUME CalmInv, [AffectNext]_affectVars PROVE CalmInv'
  OBVIOUS
<1>1. CASE FeelTurn
  BY <1>1, FeelTurnCalm
<1>2. CASE FeelIdle
  <2>1. impulse' # "arousal"
    BY <1>2, RegisteredCalm DEF FeelIdle, CalmInv
  <2> QED BY <1>2, <2>1 DEF FeelIdle, CalmInv
<1>3. CASE DreamAffect
  BY <1>3, DreamCalm
<1>4. CASE SaveFeelings
  BY <1>4 DEF SaveFeelings, CalmInv
<1>5. CASE RestartFeelings
  BY <1>5 DEF RestartFeelings, CalmInv
<1>6. CASE UNCHANGED affectVars
  BY <1>6 DEF affectVars, CalmInv
<1> QED BY <1>1, <1>2, <1>3, <1>4, <1>5, <1>6 DEF AffectNext

(* Whatever happens, is remembered, dreamt or lost: Luna is never aroused. *)
THEOREM AlwaysCalm == AffectSpec => []StaysCalm
<1>1. CalmInv => StaysCalm
  <2> SUFFICES ASSUME CalmInv PROVE StaysCalm
    OBVIOUS
  <2>1. feeling[2] \in Low
    BY CalmIsFeeling DEF CalmInv
  <2> QED BY <2>1 DEF CalmInv, StaysCalm, Low
<1> QED BY CalmInit, CalmStep, <1>1, PTL DEF AffectSpec
-----------------------------------------------------------------------------
(* Voice.  A reply is sanitized place by place, from its end; its cells    *)
(* corrected are put together from its beginning.                          *)
Text == Seq(Int)

LEMMA Concat ==
    \A r, s, t \in Text : /\ r \o s \in Text /\ (r \o s) \o t = r \o (s \o t)
                          /\ r \o <<>> = r /\ <<>> \o r = r
BY SeqConcat, Zenon DEF Text

LEMMA Pieces ==
    ASSUME NEW r \in Text, NEW s \in Text, NEW f \in 1..Len(r)
    PROVE  /\ SubSeq(r \o s, 1, f - 1) = SubSeq(r, 1, f - 1)
           /\ SubSeq(r \o s, Len(r) + 1, Len(r \o s)) = s
<1> USE DEF Text
<1>1. Len(r \o s) = Len(r) + Len(s) /\ Len(r) \in Nat /\ Len(s) \in Nat
  OBVIOUS
<1>2. SubSeq(r \o s, 1, f - 1) = SubSeq(r, 1, f - 1)
  OBVIOUS
<1>3. SubSeq(r \o s, Len(r) + 1, Len(r \o s)) = s
  OBVIOUS
<1> QED BY <1>2, <1>3

-----------------------------------------------------------------------------
Types == {"agent", "metric", "emotion", "code", "module", "architecture"}
SpanSet == [type : Types, from : 1..Cells, to : 1..Cells]
IsSpan(a) == a \in SpanSet /\ a.from <= a.to
EditTypes == Types \ FlagOnly

LEMMA MarksAreText == \A t \in EditTypes : Mark(t) \in Text
BY DEF EditTypes, Types, FlagOnly, Mark, Text

LEMMA OrderInRange == \A t \in Types : Order(t) \in 1..5
BY DEF Types, Order

(* The first cells of a reply.                                             *)
First(i) == [j \in 1..i |-> j]

LEMMA FirstCells ==
    ASSUME NEW i \in Nat
    PROVE  /\ First(i) \in Text /\ Len(First(i)) = i
           /\ i > 0 => First(i) = First(i - 1) \o <<i>>
           /\ \A f \in 1..i : SubSeq(First(i), 1, f - 1) = First(f - 1)
<1> USE DEF First, Text
<1>1. First(i) \in Text /\ Len(First(i)) = i
  OBVIOUS
<1>2. ASSUME i > 0 PROVE First(i) = First(i - 1) \o <<i>>
  BY <1>2
<1>3. ASSUME NEW f \in 1..i PROVE SubSeq(First(i), 1, f - 1) = First(f - 1)
  OBVIOUS
<1> QED BY <1>1, <1>2, <1>3

(* Spans that were replaced, of which no two overlap.                      *)
EditSet(e) ==
    /\ \A a \in e : IsSpan(a) /\ a.type \in EditTypes
    /\ \A a, b \in e : a = b \/ ~Overlap(a, b)

LEMMA CellIsText == ASSUME NEW e, EditSet(e), NEW i \in 1..Cells PROVE CellOf(e, i) \in Text
<1>1. CASE \E a \in e : Covers(a, i)
  <2> DEFINE a == CHOOSE x \in e : Covers(x, i)
  <2>1. a \in e
    BY <1>1
  <2>2. CellOf(e, i) = IF i = a.from THEN Mark(a.type) ELSE <<>>
    BY <1>1 DEF CellOf
  <2> HIDE DEF a
  <2>3. Mark(a.type) \in Text
    BY <2>1, MarksAreText DEF EditSet
  <2>4. <<>> \in Text
    BY DEF Text
  <2> QED BY <2>2, <2>3, <2>4
<1>2. CASE ~ \E a \in e : Covers(a, i)
  <2>1. CellOf(e, i) = <<i>>
    BY <1>2 DEF CellOf
  <2>2. <<i>> \in Text
    BY DEF Text
  <2> QED BY <2>1, <2>2
<1> QED BY <1>1, <1>2

LEMMA CellsOfReply == Cells \in Nat \ {0}
BY VoiceAssumption

(* What Marked goes through.                                               *)
Row(e) == [i \in 1..Cells |-> CellOf(e, i)]

LEMMA MarkedThrough ==
    ASSUME NEW e, EditSet(e)
    PROVE  \E g : Flattening(Int, Row(e), Cells, g) /\ Marked(e) = g[Cells]
<1>1. Row(e) \in [1..Cells -> Seq(Int)]
  BY CellIsText DEF Row, Text
<1>2. Marked(e) = FlattenSeq(Row(e))
  BY DEF Marked, Row
<1> QED BY <1>1, <1>2, CellsOfReply, Flattened, Zenon

(* Before the first span the cells are the reply's.                        *)
LEMMA UpToSpans ==
    ASSUME NEW e, EditSet(e), NEW g, Flattening(Int, Row(e), Cells, g),
           NEW m \in 0..Cells, \A i \in 1..m : CellOf(e, i) = <<i>>
    PROVE  \A i \in 0..m : g[i] = First(i)
<1> DEFINE S == {i \in 0..m : g[i] = First(i)}
<1>0. m \in Nat /\ Cells \in Nat
  BY CellsOfReply
<1>1. 0 \in S
  <2>1. g[0] = <<>>
    BY DEF Flattening
  <2>2. First(0) = <<>>
    BY DEF First
  <2> QED BY <1>0, <2>1, <2>2
<1>2. ASSUME NEW i \in 0..m, i \in S, i + 1 <= m PROVE i + 1 \in S
  <2>1. i + 1 \in 1..m /\ i + 1 \in 1..Cells /\ (i + 1) - 1 = i /\ i + 1 \in 0..m /\ i + 1 \in Nat /\ i + 1 > 0
    BY <1>0, <1>2
  <2>2. g[i + 1] = g[i] \o CellOf(e, i + 1)
    <3>1. g[i + 1] = g[(i + 1) - 1] \o Row(e)[i + 1]
      BY <2>1, ZenonT(60) DEF Flattening
    <3>2. Row(e)[i + 1] = CellOf(e, i + 1)
      BY <2>1 DEF Row
    <3> QED BY <2>1, <3>1, <3>2
  <2>3. g[i + 1] = First(i) \o <<i + 1>>
    BY <1>2, <2>1, <2>2
  <2>4. First(i + 1) = First((i + 1) - 1) \o <<i + 1>>
    BY <2>1, FirstCells
  <2> QED BY <2>1, <2>3, <2>4
<1>3. 0..m \subseteq S
  <2> HIDE DEF S
  <2> QED BY <1>0, <1>1, <1>2, UpTo
<1> QED BY <1>3

LEMMA MarkedNothing == Marked({}) = Reply
<1>1. EditSet({})
  BY DEF EditSet
<1>2. PICK g : Flattening(Int, Row({}), Cells, g) /\ Marked({}) = g[Cells]
  BY <1>1, MarkedThrough
<1>3. \A i \in 1..Cells : CellOf({}, i) = <<i>>
  BY DEF CellOf
<1>4. Cells \in 0..Cells
  BY CellsOfReply
<1>5. g[Cells] = First(Cells)
  BY <1>1, <1>2, <1>3, <1>4, UpToSpans
<1> QED BY <1>2, <1>5 DEF First, Reply

(* One span more, before all the others: its cells.                        *)
LEMMA CellsOfOneMore ==
    ASSUME NEW e, EditSet(e), NEW a, IsSpan(a), a.type \in EditTypes,
           \A b \in e : a.to < b.from, NEW i \in 1..Cells
    PROVE  /\ EditSet(e \cup {a})
           /\ i <= a.to => CellOf(e, i) = <<i>>
           /\ i < a.from => CellOf(e \cup {a}, i) = <<i>>
           /\ i = a.from => CellOf(e \cup {a}, i) = Mark(a.type)
           /\ a.from < i /\ i <= a.to => CellOf(e \cup {a}, i) = <<>>
           /\ i > a.to => CellOf(e \cup {a}, i) = CellOf(e, i)
<1> DEFINE d == e \cup {a}
<1>0. a.from \in Nat /\ a.to \in Nat /\ a.from <= a.to /\ i \in Nat
  BY CellsOfReply DEF IsSpan, SpanSet
<1>1. \A b \in e : b.from \in Nat /\ b.to \in Nat /\ b.from <= b.to
  BY CellsOfReply DEF IsSpan, SpanSet, EditSet
<1>2. EditSet(d)
  <2>1. \A b \in d : IsSpan(b) /\ b.type \in EditTypes
    BY DEF EditSet
  <2>2. ASSUME NEW b \in d, NEW c \in d, b # c PROVE ~Overlap(b, c)
    <3>1. CASE b \in e /\ c \in e
      BY <2>2, <3>1 DEF EditSet
    <3>2. CASE b = a /\ c \in e
      BY <1>0, <1>1, <3>2 DEF Overlap
    <3>3. CASE c = a /\ b \in e
      BY <1>0, <1>1, <3>3 DEF Overlap
    <3> QED BY <2>2, <3>1, <3>2, <3>3
  <2> QED BY <2>1, <2>2 DEF EditSet
<1>3. ASSUME i <= a.to PROVE ~ \E b \in e : Covers(b, i)
  BY <1>0, <1>1, <1>3 DEF Covers
<1>4. ASSUME i <= a.to PROVE CellOf(e, i) = <<i>>
  BY <1>3, <1>4 DEF CellOf
<1>5. ASSUME i < a.from PROVE CellOf(d, i) = <<i>>
  <2>1. ~ Covers(a, i)
    BY <1>0, <1>5 DEF Covers
  <2>2. ~ \E b \in e : Covers(b, i)
    BY <1>0, <1>3, <1>5
  <2>3. ~ \E b \in d : Covers(b, i)
    BY <2>1, <2>2
  <2> QED BY <2>3 DEF CellOf
<1>6. ASSUME a.from <= i, i <= a.to
      PROVE  CellOf(d, i) = IF i = a.from THEN Mark(a.type) ELSE <<>>
  <2>1. Covers(a, i)
    BY <1>0, <1>6 DEF Covers
  <2>2. \A b \in d : Covers(b, i) => b = a
    BY <1>3, <1>6
  <2>3. (CHOOSE x \in d : Covers(x, i)) = a
    BY <2>1, <2>2
  <2>4. \E b \in d : Covers(b, i)
    BY <2>1
  <2> QED BY <2>3, <2>4 DEF CellOf
<1>7. ASSUME i > a.to PROVE CellOf(d, i) = CellOf(e, i)
  <2>1. ~ Covers(a, i)
    BY <1>0, <1>7 DEF Covers
  <2>2. \A b : (b \in d /\ Covers(b, i)) <=> (b \in e /\ Covers(b, i))
    BY <2>1
  <2>3. (CHOOSE x \in d : Covers(x, i)) = (CHOOSE x \in e : Covers(x, i))
    BY <2>2
  <2>4. (\E b \in d : Covers(b, i)) <=> (\E b \in e : Covers(b, i))
    BY <2>2
  <2> QED BY <2>3, <2>4 DEF CellOf
<1> HIDE DEF d
<1>8. i = a.from => CellOf(d, i) = Mark(a.type)
  BY <1>0, <1>6
<1>9. a.from < i /\ i <= a.to => CellOf(d, i) = <<>>
  BY <1>0, <1>6
<1> QED BY <1>2, <1>4, <1>5, <1>7, <1>8, <1>9 DEF d

(* Replacing one span more, before all the others, marks it.               *)
LEMMA OneMoreReplaced ==
    ASSUME NEW e, EditSet(e), NEW a, IsSpan(a), a.type \in EditTypes,
           \A b \in e : a.to < b.from
    PROVE  Replaced(Marked(e), a) = Marked(e \cup {a})
<1> DEFINE d == e \cup {a}
           M == Mark(a.type)
           F == First(a.from - 1)
<1>0. /\ Cells \in Nat /\ a.from \in 1..Cells /\ a.to \in 1..Cells /\ a.from <= a.to
      /\ a.from \in Nat /\ a.to \in Nat /\ a.from - 1 \in Nat
  BY CellsOfReply DEF IsSpan, SpanSet
<1>1. EditSet(d)
  <2>1. 1 \in 1..Cells
    BY CellsOfReply
  <2> QED BY <2>1, CellsOfOneMore
<1>2. PICK g : Flattening(Int, Row(e), Cells, g) /\ Marked(e) = g[Cells]
  BY MarkedThrough
<1>3. PICK h : Flattening(Int, Row(d), Cells, h) /\ Marked(d) = h[Cells]
  <2> HIDE DEF d
  <2> QED BY <1>1, MarkedThrough
<1>4. /\ \A i \in 1..Cells : i <= a.to => CellOf(e, i) = <<i>>
      /\ \A i \in 1..Cells : i < a.from => CellOf(d, i) = <<i>>
      /\ \A i \in 1..Cells : i = a.from => CellOf(d, i) = M
      /\ \A i \in 1..Cells : a.from < i /\ i <= a.to => CellOf(d, i) = <<>>
      /\ \A i \in 1..Cells : i > a.to => CellOf(d, i) = CellOf(e, i)
  <2> SUFFICES ASSUME NEW i \in 1..Cells
               PROVE  /\ i <= a.to => CellOf(e, i) = <<i>>
                      /\ i < a.from => CellOf(d, i) = <<i>>
                      /\ i = a.from => CellOf(d, i) = M
                      /\ a.from < i /\ i <= a.to => CellOf(d, i) = <<>>
                      /\ i > a.to => CellOf(d, i) = CellOf(e, i)
    <3> HIDE DEF d, M
    <3> QED OBVIOUS
  <2> QED BY CellsOfOneMore
<1> HIDE DEF d
<1>5. /\ M \in Text /\ F \in Text /\ First(a.to) \in Text
      /\ Len(First(a.to)) = a.to /\ F \o M \in Text
  <2>1. M \in Text
    BY MarksAreText
  <2>2. F \in Text
    BY <1>0, FirstCells
  <2>3. First(a.to) \in Text /\ Len(First(a.to)) = a.to
    BY <1>0, FirstCells
  <2> HIDE DEF M, F
  <2> QED BY <2>1, <2>2, <2>3, Concat
<1> HIDE DEF M
<1>6. g[a.to] = First(a.to)
  <2>1. a.to \in 0..Cells /\ a.to \in 0..a.to /\ \A i \in 1..a.to : i \in 1..Cells /\ i <= a.to
    BY <1>0
  <2>2. \A i \in 1..a.to : CellOf(e, i) = <<i>>
    BY <1>4, <2>1
  <2> QED BY <1>2, <2>1, <2>2, UpToSpans
<1>7. h[a.from - 1] = F
  <2> DEFINE m == a.from - 1
  <2>1. m \in 0..Cells /\ m \in 0..m /\ \A i \in 1..m : i \in 1..Cells /\ i < a.from
    BY <1>0
  <2>2. \A i \in 1..m : CellOf(d, i) = <<i>>
    BY <1>4, <2>1
  <2> HIDE DEF m
  <2>3. h[m] = First(m)
    BY <1>1, <1>3, <2>1, <2>2, UpToSpans
  <2> QED BY <2>3 DEF m
<1> HIDE DEF F
<1>8. \A i \in 1..Cells : h[i] = h[i - 1] \o CellOf(d, i) /\ g[i] = g[i - 1] \o CellOf(e, i)
  <2> TAKE i \in 1..Cells
  <2>1. h[i] = h[i - 1] \o Row(d)[i] /\ g[i] = g[i - 1] \o Row(e)[i]
    BY <1>2, <1>3 DEF Flattening
  <2>2. Row(d)[i] = CellOf(d, i) /\ Row(e)[i] = CellOf(e, i)
    BY DEF Row
  <2> QED BY <2>1, <2>2
<1>9. h[a.to] = F \o M
  <2> DEFINE S == {i \in 0..a.to : i < a.from \/ h[i] = F \o M}
  <2>1. 0 \in S
    BY <1>0
  <2>2. ASSUME NEW i \in 0..a.to, i \in S, i + 1 <= a.to PROVE i + 1 \in S
    <3>1. i + 1 \in 1..Cells /\ i + 1 \in 0..a.to /\ (i + 1) - 1 = i
      BY <1>0, <2>2
    <3>2. h[i + 1] = h[i] \o CellOf(d, i + 1)
      <4>1. h[i + 1] = h[(i + 1) - 1] \o CellOf(d, i + 1)
        BY <1>8, <3>1, ZenonT(60)
      <4> QED BY <3>1, <4>1
    <3>3. CASE i + 1 < a.from
      BY <3>1, <3>3
    <3>4. CASE i + 1 = a.from
      <4>1. h[i + 1] = F \o M
        <5>1. i = a.from - 1
          BY <1>0, <3>4
        <5>2. CellOf(d, i + 1) = M
          BY <1>4, <3>1, <3>4
        <5> QED BY <1>7, <3>2, <5>1, <5>2
      <4> QED BY <3>1, <4>1
    <3>5. CASE a.from < i + 1
      <4>1. ~(i < a.from)
        BY <1>0, <3>5
      <4>2. h[i] = F \o M
        BY <2>2, <4>1
      <4>3. CellOf(d, i + 1) = <<>>
        BY <1>4, <2>2, <3>1, <3>5
      <4>4. h[i + 1] = F \o M
        BY <1>5, <3>2, <4>2, <4>3, Concat
      <4> QED BY <3>1, <4>4
    <3>6. i + 1 \in Int /\ a.from \in Int
      BY <1>0, <3>1
    <3> QED BY <3>3, <3>4, <3>5, <3>6
  <2>3. 0..a.to \subseteq S
    <3> HIDE DEF S
    <3> QED BY <1>0, <2>1, <2>2, UpTo
  <2>4. a.to \in 0..a.to /\ ~(a.to < a.from)
    BY <1>0
  <2> QED BY <2>3, <2>4
<1> DEFINE Follows(i) == \E s \in Text : g[i] = First(a.to) \o s /\ h[i] = (F \o M) \o s
<1>10. Follows(Cells)
  <2> DEFINE S == {i \in 0..Cells : i < a.to \/ Follows(i)}
  <2> HIDE DEF Follows
  <2>1. Follows(a.to)
    <3>1. g[a.to] = First(a.to) \o <<>> /\ h[a.to] = (F \o M) \o <<>> /\ <<>> \in Text
      <4>1. <<>> \in Text
        BY DEF Text
      <4> QED BY <1>5, <1>6, <1>9, <4>1, Concat
    <3> QED BY <3>1 DEF Follows
  <2>2. 0 \in S
    BY <1>0
  <2>3. ASSUME NEW i \in 0..Cells, i \in S, i + 1 <= Cells PROVE i + 1 \in S
    <3>1. i + 1 \in 1..Cells /\ i + 1 \in 0..Cells /\ (i + 1) - 1 = i
      BY <1>0, <2>3
    <3>2. CASE i + 1 < a.to
      BY <3>1, <3>2
    <3>3. CASE i + 1 = a.to
      BY <2>1, <3>1, <3>3
    <3>4. CASE i + 1 > a.to
      <4>1. ~(i < a.to)
        BY <1>0, <3>4
      <4>2. Follows(i)
        BY <2>3, <4>1
      <4>3. PICK s \in Text : g[i] = First(a.to) \o s /\ h[i] = (F \o M) \o s
        BY <4>2 DEF Follows
      <4> DEFINE c == CellOf(e, i + 1)
      <4>4. c \in Text
        BY <3>1, CellIsText
      <4>5. h[i + 1] = h[i] \o c /\ g[i + 1] = g[i] \o c
        <5>1. h[i + 1] = h[(i + 1) - 1] \o CellOf(d, i + 1) /\ g[i + 1] = g[(i + 1) - 1] \o c
          BY <1>8, <3>1, ZenonT(60)
        <5>2. CellOf(d, i + 1) = c
          BY <1>4, <3>1, <3>4
        <5> QED BY <3>1, <5>1, <5>2
      <4> HIDE DEF c
      <4>6. s \o c \in Text /\ g[i + 1] = First(a.to) \o (s \o c) /\ h[i + 1] = (F \o M) \o (s \o c)
        <5> DEFINE r == First(a.to)
                   q == F \o M
        <5>1. r \in Text /\ q \in Text
          BY <1>5
        <5>2. g[i + 1] = (r \o s) \o c /\ h[i + 1] = (q \o s) \o c
          BY <4>3, <4>5
        <5> HIDE DEF r, q
        <5>3. s \o c \in Text /\ (r \o s) \o c = r \o (s \o c) /\ (q \o s) \o c = q \o (s \o c)
          <6>1. /\ \A x, y \in Text : x \o y \in Text
                /\ \A x, y, z \in Text : (x \o y) \o z = x \o (y \o z)
            BY DEF Text
          <6>2. s \o c \in Text
            BY <4>4, <6>1, ZenonT(60)
          <6>3. (r \o s) \o c = r \o (s \o c)
            BY <4>4, <5>1, <6>1, ZenonT(60)
          <6>4. (q \o s) \o c = q \o (s \o c)
            BY <4>4, <5>1, <6>1, ZenonT(60)
          <6> QED BY <6>2, <6>3, <6>4
        <5>4. s \o c \in Text /\ g[i + 1] = r \o (s \o c) /\ h[i + 1] = q \o (s \o c)
          BY <5>2, <5>3
        <5> QED BY <5>4 DEF r, q
      <4>7. Follows(i + 1)
        BY <4>6 DEF Follows
      <4> QED BY <3>1, <4>7
    <3>5. i + 1 \in Int /\ a.to \in Int
      BY <1>0, <3>1
    <3> QED BY <3>2, <3>3, <3>4, <3>5
  <2>4. 0..Cells \subseteq S
    <3> HIDE DEF S
    <3> QED BY <1>0, <2>2, <2>3, UpTo
  <2>5. Cells \in 0..Cells /\ ~(Cells < a.to)
    BY <1>0
  <2> QED BY <2>4, <2>5
<1>11. PICK s \in Text : g[Cells] = First(a.to) \o s /\ h[Cells] = (F \o M) \o s
  BY <1>10
<1>12. Replaced(g[Cells], a)
       = SubSeq(g[Cells], 1, a.from - 1) \o M \o SubSeq(g[Cells], a.to + 1, Len(g[Cells]))
  BY DEF Replaced, M, EditTypes
<1>13. a.from \in 1..Len(First(a.to)) /\ a.from \in 1..a.to
  BY <1>0, <1>5
<1>14. /\ SubSeq(g[Cells], 1, a.from - 1) = SubSeq(First(a.to), 1, a.from - 1)
       /\ SubSeq(g[Cells], a.to + 1, Len(g[Cells])) = s
  <2> DEFINE r == First(a.to)
             f == a.from
  <2>1. r \in Text /\ Len(r) = a.to /\ f \in 1..Len(r) /\ g[Cells] = r \o s
    BY <1>5, <1>11, <1>13
  <2> HIDE DEF r
  <2>2. /\ SubSeq(r \o s, 1, f - 1) = SubSeq(r, 1, f - 1)
        /\ SubSeq(r \o s, Len(r) + 1, Len(r \o s)) = s
    <3> HIDE DEF f
    <3> QED BY <2>1, Pieces
  <2> QED BY <2>1, <2>2 DEF r
<1>15. SubSeq(First(a.to), 1, a.from - 1) = F
  BY <1>0, <1>13, FirstCells DEF F
<1> QED BY <1>2, <1>3, <1>11, <1>12, <1>14, <1>15 DEF d

-----------------------------------------------------------------------------
(* The spans of the first k places that are replaced.                      *)
UpToPlace(v, k) == {a \in Edits(v) : Place(a) <= k}

LEMMA PlacesInRange ==
    ASSUME NEW a, IsSpan(a)
    PROVE  Place(a) \in 1..Places
<1>1. a.from \in 1..Cells /\ Order(a.type) \in 1..5
  BY OrderInRange DEF IsSpan, SpanSet
<1> QED BY <1>1, CellsOfReply DEF Place, Places

(* Two spans of one place start together and are of one order; a span of   *)
(* a later place does not start later.                                     *)
LEMMA PlacesOrdered ==
    ASSUME NEW a, IsSpan(a), NEW b, IsSpan(b)
    PROVE  /\ Place(a) = Place(b) => a.from = b.from /\ Order(a.type) = Order(b.type)
           /\ Place(b) < Place(a) => a.from <= b.from
<1>1. a.from \in 1..Cells /\ Order(a.type) \in 1..5
  BY OrderInRange DEF IsSpan, SpanSet
<1>2. b.from \in 1..Cells /\ Order(b.type) \in 1..5
  BY OrderInRange DEF IsSpan, SpanSet
<1> DEFINE p == Order(a.type)
           q == Order(b.type)
<1> HIDE DEF p, q
<1>3. p \in 1..5 /\ q \in 1..5
  BY <1>1, <1>2 DEF p, q
<1>4. Place(a) = 5 * (Cells - a.from) + p /\ Place(b) = 5 * (Cells - b.from) + q
  BY DEF Place, p, q
<1>5. /\ Place(a) = Place(b) => a.from = b.from /\ p = q
      /\ Place(b) < Place(a) => a.from <= b.from
  <2> DEFINE x == Cells - a.from
             y == Cells - b.from
  <2>1. /\ x \in Int /\ y \in Int
        /\ x = y => a.from = b.from
        /\ y >= x \/ a.from <= b.from
        /\ Place(a) = 5 * x + p /\ Place(b) = 5 * y + q
    BY <1>1, <1>2, <1>4, CellsOfReply
  <2> HIDE DEF x, y
  <2>2. /\ 5 * x + p = 5 * y + q => x = y /\ p = q
        /\ 5 * y + q < 5 * x + p => y <= x
    BY <1>3, <2>1
  <2>3. x \in Int /\ x = Cells - a.from /\ y = Cells - b.from
    BY <2>1 DEF x, y
  <2>4. y <= x => a.from <= b.from
    BY <1>1, <1>2, <2>3, CellsOfReply
  <2> QED BY <2>1, <2>2, <2>4
<1> QED BY <1>5 DEF p, q

(* Only what is flagged shares its order with what is flagged.             *)
LEMMA FlagsShareOrder ==
    \A t \in Types, u \in Types : Order(t) = Order(u) /\ t \in FlagOnly => u \in FlagOnly
BY DEF Types, Order, FlagOnly

(* Sanitizing place by place marks the spans of those places.              *)
LEMMA PlaceReplaced ==
    ASSUME NEW v, \A a \in v : IsSpan(a), Apart(v), NEW k \in 1..Places,
           NEW text, text = Marked(UpToPlace(v, k - 1))
    PROVE  ReplacedAt(v, k, text) = Marked(UpToPlace(v, k))
<1>0. \A a \in v : Place(a) \in Int /\ k \in Int
  BY PlacesInRange, CellsOfReply DEF Places
<1>1. CASE ~ \E a \in v : Place(a) = k
  <2>1. ReplacedAt(v, k, text) = text
    BY <1>1 DEF ReplacedAt
  <2>2. ASSUME NEW a \in v PROVE Place(a) <= k <=> Place(a) <= k - 1
    BY <1>0, <1>1
  <2>3. UpToPlace(v, k) = UpToPlace(v, k - 1)
    BY <2>2 DEF UpToPlace, Edits
  <2> QED BY <2>1, <2>3
<1>2. CASE \E a \in v : Place(a) = k
  <2> DEFINE a == CHOOSE x \in v : Place(x) = k
  <2>1. a \in v /\ Place(a) = k
    BY <1>2
  <2>2. ReplacedAt(v, k, text) = Replaced(text, a)
    BY <1>2 DEF ReplacedAt
  <2> HIDE DEF a
  <2>3. IsSpan(a) /\ a.type \in Types
    BY <2>1 DEF IsSpan, SpanSet
  <2>4. ASSUME NEW b \in v, Place(b) = k PROVE b.from = a.from /\ Order(a.type) = Order(b.type)
    <3>1. IsSpan(b) /\ Place(a) = Place(b)
      BY <2>1, <2>4
    <3> QED BY <2>3, <3>1, PlacesOrdered
  <2>5. CASE a.type \in FlagOnly
    <3>1. Replaced(text, a) = text
      BY <2>5 DEF Replaced
    <3>2. ASSUME NEW b \in v, b.type \notin FlagOnly PROVE Place(b) # k
      <4>1. b.type \in Types
        BY DEF IsSpan, SpanSet
      <4> QED BY <2>3, <2>4, <2>5, <3>2, <4>1, FlagsShareOrder
    <3>3. ASSUME NEW b \in v, b.type \notin FlagOnly PROVE Place(b) <= k <=> Place(b) <= k - 1
      BY <1>0, <3>2, <3>3
    <3>4. UpToPlace(v, k) = UpToPlace(v, k - 1)
      BY <3>3 DEF UpToPlace, Edits
    <3> QED BY <2>2, <3>1, <3>4
  <2>6. CASE a.type \notin FlagOnly
    <3> DEFINE e == UpToPlace(v, k - 1)
    <3>1. \A b \in e : b \in v /\ b.type \notin FlagOnly /\ Place(b) <= k - 1
      BY DEF UpToPlace, Edits
    <3>2. EditSet(e)
      <4>1. \A b \in e : IsSpan(b) /\ b.type \in EditTypes
        BY <3>1 DEF IsSpan, SpanSet, EditTypes
      <4>2. \A b, c \in e : b = c \/ ~Overlap(b, c)
        BY <3>1 DEF Apart
      <4> HIDE DEF e
      <4> QED BY <4>1, <4>2 DEF EditSet
    <3>3. ASSUME NEW b \in v, b.type \notin FlagOnly, b # a PROVE ~Overlap(a, b)
      BY <2>1, <2>6, <3>3 DEF Apart
    <3>4. \A b \in v : b.from \in Int /\ b.to \in Int /\ b.from <= b.to
      BY CellsOfReply DEF IsSpan, SpanSet
    <3>5. ASSUME NEW b \in e PROVE a.to < b.from
      <4>1. b \in v /\ IsSpan(b) /\ b.type \notin FlagOnly /\ Place(b) < Place(a) /\ b # a
        BY <1>0, <2>1, <3>1
      <4>2. a.from <= b.from
        BY <2>3, <4>1, PlacesOrdered
      <4>3. ~Overlap(a, b)
        BY <3>3, <4>1
      <4> QED BY <2>1, <3>4, <4>1, <4>2, <4>3 DEF Overlap
    <3>6. ASSUME NEW b \in v, b.type \notin FlagOnly, Place(b) = k PROVE b = a
      <4>1. b.from = a.from
        BY <2>4, <3>6
      <4>2. Overlap(a, b)
        BY <2>1, <3>4, <4>1 DEF Overlap
      <4> QED BY <3>3, <3>6, <4>2
    <3>7. UpToPlace(v, k) = e \cup {a}
      <4>1. ASSUME NEW b \in UpToPlace(v, k) PROVE b \in e \cup {a}
        <5>1. b \in v /\ b.type \notin FlagOnly /\ Place(b) <= k
          BY DEF UpToPlace, Edits
        <5>2. CASE Place(b) = k
          BY <3>6, <5>1, <5>2
        <5>3. CASE Place(b) # k
          <6>1. Place(b) <= k - 1
            BY <1>0, <5>1, <5>3
          <6> QED BY <5>1, <6>1 DEF UpToPlace, Edits
        <5> QED BY <5>2, <5>3
      <4>2. ASSUME NEW b \in e \cup {a} PROVE b \in UpToPlace(v, k)
        <5>1. b \in v /\ b.type \notin FlagOnly
          BY <2>1, <2>6, <3>1
        <5>2. Place(b) <= k
          BY <1>0, <2>1, <3>1
        <5> QED BY <5>1, <5>2 DEF UpToPlace, Edits
      <4> HIDE DEF e
      <4> QED BY <4>1, <4>2
    <3>8. a.type \in EditTypes
      BY <2>3, <2>6 DEF EditTypes
    <3> HIDE DEF e
    <3>9. Replaced(Marked(e), a) = Marked(e \cup {a})
      BY <2>3, <3>2, <3>5, <3>8, OneMoreReplaced
    <3> QED BY <2>2, <3>7, <3>9 DEF e
  <2> QED BY <2>5, <2>6
<1> QED BY <1>1, <1>2

LEMMA SanitizedIsCorrected ==
    ASSUME NEW v, \A a \in v : IsSpan(a), Apart(v)
    PROVE  Sanitize(v) = Corrected(v)
<1> DEFINE Step(g) == [k \in 0..Places |-> IF k = 0 THEN Reply ELSE ReplacedAt(v, k, g[k - 1])]
           after(k) == Marked(UpToPlace(v, k))
           marked == [k \in 0..Places |-> after(k)]
           text == CHOOSE g : g = Step(g)
<1>0. Places \in Nat
  BY CellsOfReply DEF Places
<1>1. \A a \in v : Place(a) \in 1..Places
  BY PlacesInRange
<1>2. after(0) = Reply
  <2>1. UpToPlace(v, 0) = {}
    BY <1>0, <1>1 DEF UpToPlace, Edits
  <2> QED BY <2>1, MarkedNothing
<1>3. ASSUME NEW k \in 1..Places PROVE ReplacedAt(v, k, after(k - 1)) = after(k)
  BY PlaceReplaced
<1> HIDE DEF after
<1>4. marked = Step(marked)
  <2> SUFFICES ASSUME NEW k \in 0..Places
               PROVE  after(k) = IF k = 0 THEN Reply ELSE ReplacedAt(v, k, marked[k - 1])
    OBVIOUS
  <2>1. CASE k = 0
    BY <1>2, <2>1
  <2>2. CASE k # 0
    <3>1. k \in 1..Places /\ k - 1 \in 0..Places
      BY <1>0, <2>2
    <3>2. marked[k - 1] = after(k - 1)
      BY <3>1
    <3> QED BY <1>3, <2>2, <3>1, <3>2
  <2> QED BY <2>1, <2>2
<1>5. text = Step(text)
  <2> HIDE DEF Step, marked
  <2> QED BY <1>4
<1>6. Replacing(v) = text
  BY DEF Replacing
<1> HIDE DEF text, marked
<1>7. text[Places] = after(Places)
  <2> DEFINE S == {k \in 0..Places : text[k] = after(k)}
  <2>1. 0 \in S
    <3>1. text[0] = Reply
      BY <1>0, <1>5
    <3> QED BY <1>0, <1>2, <3>1
  <2>2. ASSUME NEW k \in 0..Places, k \in S, k + 1 <= Places PROVE k + 1 \in S
    <3>1. k + 1 \in 1..Places /\ (k + 1) - 1 = k /\ k + 1 \in 0..Places /\ k + 1 # 0
      BY <1>0, <2>2
    <3>2. text[k + 1] = ReplacedAt(v, k + 1, text[k])
      BY <1>5, <3>1
    <3>3. text[k] = after(k)
      BY <2>2
    <3>4. ReplacedAt(v, k + 1, after((k + 1) - 1)) = after(k + 1)
      BY <1>3, <3>1, ZenonT(60)
    <3>5. text[k + 1] = after(k + 1)
      BY <3>1, <3>2, <3>3, <3>4
    <3> QED BY <3>1, <3>5
  <2>3. 0..Places \subseteq S
    <3> HIDE DEF S
    <3> QED BY <1>0, <2>1, <2>2, UpTo
  <2>4. Places \in 0..Places
    BY <1>0
  <2> QED BY <2>3, <2>4
<1>8. after(Places) = Marked(Edits(v))
  <2>1. ASSUME NEW a \in v PROVE Place(a) <= Places
    BY <1>0, <1>1
  <2>2. UpToPlace(v, Places) = Edits(v)
    BY <2>1 DEF UpToPlace, Edits
  <2> QED BY <2>2 DEF after
<1> QED BY <1>6, <1>7, <1>8 DEF Sanitize, Corrected

(* The inductive invariant: a reply's spans are spans of its cells, and    *)
(* what is shown is what the validator made of them.                       *)
Outcome(v) == IF Raises(v) \/ IsValid(v) THEN Reply ELSE Sanitize(v)

VoiceInv ==
    /\ \A a \in said : IsSpan(a)
    /\ spoken # <<>> => said # {} /\ spoken = Outcome(said)

LEMMA SpansAreSpans ==
    /\ \A t \in Types, n \in {1, 2, 3} : \A a \in Spans(t, n) : IsSpan(a)
<1> SUFFICES ASSUME NEW t \in Types, NEW n \in {1, 2, 3}, NEW a \in Spans(t, n) PROVE IsSpan(a)
  OBVIOUS
<1>1. PICK i \in 1..(Cells - n + 1) : a = [type |-> t, from |-> i, to |-> i + n - 1]
  BY DEF Spans
<1>2. i \in 1..Cells /\ i + n - 1 \in 1..Cells /\ i <= i + n - 1
  BY CellsOfReply
<1> QED BY <1>1, <1>2 DEF IsSpan, SpanSet

LEMMA FindingsAreSpans ==
    ASSUME NEW directed \in BOOLEAN, NEW v \in Findings(directed), NEW a \in v
    PROVE  IsSpan(a)
<1>1. PICK n \in 0..MaxSpans :
        v \in kSubset(n, Agents \cup CodeBlocks \cup Metrics \cup Architecture
                           \cup EmotionalClaims(directed))
  BY DEF Findings
<1>2. a \in Agents \cup CodeBlocks \cup Metrics \cup Architecture \cup EmotionalClaims(directed)
  BY <1>1 DEF kSubset
<1>3. \E t \in Types, m \in {1, 2, 3} : a \in Spans(t, m)
  BY <1>2 DEF Agents, CodeBlocks, Metrics, Architecture, EmotionalClaims, Types
<1> QED BY <1>3, SpansAreSpans

LEMMA VoiceStep == VoiceInv /\ [VoiceNext]_voiceVars => VoiceInv'
<1> SUFFICES ASSUME VoiceInv, [VoiceNext]_voiceVars PROVE VoiceInv'
  OBVIOUS
<1>1. CASE LLMReplies
  <2>1. said' \in Findings(FALSE) \/ said' \in Findings(TRUE)
    BY <1>1 DEF LLMReplies, Neutral, Directed
  <2>2. \A a \in said' : IsSpan(a)
    BY <2>1, FindingsAreSpans
  <2>3. spoken' = <<>>
    BY <1>1 DEF LLMReplies, VoiceInv
  <2> QED BY <2>2, <2>3 DEF VoiceInv
<1>2. CASE ValidateReply
  <2>1. said' = said /\ said # {} /\ spoken' = Outcome(said)
    BY <1>2 DEF ValidateReply, Outcome
  <2> QED BY <2>1 DEF VoiceInv
<1>3. CASE VoiceRecorded
  BY <1>3 DEF VoiceRecorded, VoiceInv
<1>4. CASE UNCHANGED voiceVars
  BY <1>4 DEF voiceVars, VoiceInv
<1> QED BY <1>1, <1>2, <1>3, <1>4 DEF VoiceNext

(* SpokenAsCorrected of every reply, of any length and with any spans: the *)
(* place of a span is found by offsets of the reply as it was, and no span *)
(* that is replaced moves one that is yet to be.                           *)
THEOREM VoiceSpeaksCorrected == VoiceSpec => []SpokenAsCorrected
<1>1. VoiceInit => VoiceInv
  BY DEF VoiceInit, VoiceInv
<1>2. VoiceInv => SpokenAsCorrected
  <2> SUFFICES ASSUME VoiceInv, spoken # <<>>, Apart(said), ~Raises(said)
               PROVE  spoken = IF IsValid(said) THEN Reply ELSE Corrected(said)
    BY DEF SpokenAsCorrected
  <2>1. spoken = IF IsValid(said) THEN Reply ELSE Sanitize(said)
    BY DEF VoiceInv, Outcome
  <2>2. Sanitize(said) = Corrected(said)
    BY SanitizedIsCorrected DEF VoiceInv
  <2> QED BY <2>1, <2>2
<1> QED BY <1>1, <1>2, VoiceStep, PTL DEF VoiceSpec

-----------------------------------------------------------------------------
(* Thinker and TurnRules: what is observed, found and proposed, what an    *)
(* iteration makes of it, and what the promoted sensors add to a turn.     *)
(*                                                                         *)
(* The tags an observation may bear: none of a trajectory. *)
Named == {Dominant[i] : i \in 1..4} \cup {Weak[i] : i \in 1..4} \cup {Emergent[i] : i \in 1..4}
    \cup {Active[i] : i \in 1..4} \cup {MetricLow[i] : i \in 1..7}
StateTags == {"low_phase", "phi_critical", "phi_low", "high_phase", "phi_healthy",
    "phi_excellent", "psi_balanced", "user_stimulus"}
FeelingTags == {"affect_positive", "affect_negative", "affect_aroused", "affect_vulnerable",
    "episodic_positive", "episodic_negative", "episodic_neutral", "episodic_founding"}
SelfTags == {"self_episodic_memory", "self_dream_history", "self_no_dreams",
    "self_voice_corrected", "self_autonomous_life", "self_endogenous_active",
    "identity_anchored", "identity_drift", "env"}
DreamTags == {"dream_skill_positive", "dream_skill_negative", "dream_sim_risk",
    "dream_sim_opportunity", "dream_unresolved_need", "dream_pending_proposal",
    "dream_journal_recall"}
RewardTags == {"reward_constitution_breach", "reward_collapse_risk", "reward_identity_drift",
    "reward_reflection_shallow", "reward_integration_low", "reward_affect_dysregulated",
    "reward_healthy_cycle"}
Told == Named \cup StateTags \cup FeelingTags \cup SelfTags \cup DreamTags \cup RewardTags

ObsSet == [tag : Told, comp : 0..3, conf : Nat]

LEMMA ToldOfNoTrajectory == Told \cap {"trajectory_declining", "trajectory_rising"} = {}
<1>1. \A i \in 1..4 : /\ Dominant[i] \notin {"trajectory_declining", "trajectory_rising"}
                      /\ Weak[i] \notin {"trajectory_declining", "trajectory_rising"}
                      /\ Emergent[i] \notin {"trajectory_declining", "trajectory_rising"}
                      /\ Active[i] \notin {"trajectory_declining", "trajectory_rising"}
  BY DEF Dominant, Weak, Emergent, Active
<1>2. \A i \in 1..7 : MetricLow[i] \notin {"trajectory_declining", "trajectory_rising"}
  BY DEF MetricLow
<1>3. Named \cap {"trajectory_declining", "trajectory_rising"} = {}
  BY <1>1, <1>2 DEF Named
<1>4. StateTags \cap {"trajectory_declining", "trajectory_rising"} = {}
  BY DEF StateTags
<1>5. FeelingTags \cap {"trajectory_declining", "trajectory_rising"} = {}
  BY DEF FeelingTags
<1>6. SelfTags \cap {"trajectory_declining", "trajectory_rising"} = {}
  BY DEF SelfTags
<1>7. DreamTags \cap {"trajectory_declining", "trajectory_rising"} = {}
  BY DEF DreamTags
<1>8. RewardTags \cap {"trajectory_declining", "trajectory_rising"} = {}
  BY DEF RewardTags
<1> QED BY <1>3, <1>4, <1>5, <1>6, <1>7, <1>8 DEF Told

LEMMA TagsAreTold ==
    /\ StateTags \subseteq Told /\ FeelingTags \subseteq Told /\ SelfTags \subseteq Told
    /\ DreamTags \subseteq Told /\ RewardTags \subseteq Told
    /\ \A i \in 1..4 : Dominant[i] \in Told /\ Weak[i] \in Told
                       /\ Emergent[i] \in Told /\ Active[i] \in Told
    /\ \A i \in 1..7 : MetricLow[i] \in Told
BY DEF Told, Named

(* An observation that is made only when its parts are fit is fit. *)
LEMMA ObsIsFit ==
    ASSUME NEW when, NEW tag, NEW comp, NEW conf,
           when => tag \in Told /\ comp \in 0..3 /\ conf \in Nat
    PROVE  Obs(when, tag, comp, conf) \in Seq(ObsSet)
<1>1. CASE when
  <2>1. [tag |-> tag, comp |-> comp, conf |-> conf] \in ObsSet
    BY <1>1 DEF ObsSet
  <2> QED BY <1>1, <2>1 DEF Obs
<1>2. CASE ~when
  <2>1. Obs(when, tag, comp, conf) = <<>>
    BY <1>2 DEF Obs
  <2> QED BY <2>1
<1> QED BY <1>1, <1>2

(* Observations put together. *)
LEMMA ObsTogether ==
    \A a, b \in Seq(ObsSet) : a \o b \in Seq(ObsSet)
OBVIOUS

LEMMA TimesIsNat == \A a, b \in Nat : Times(a, b) \in Nat
BY DEF Times

(* A stimulus the rules of the Thinker are made for. *)
Whole == 1000
OnSimplex(v) == v \in [1..4 -> 0..Whole] /\ v[1] + v[2] + v[3] + v[4] = Whole

SimSet == [stability : Int, gain : Int]
MemorySet == [similarity : Nat, gain : Int, pinned : BOOLEAN]
SkillSet == [good : BOOLEAN, comp : 0..3, conf : Nat]

Sane(s) ==
    /\ s.phi \in Int
    /\ OnSimplex(s.psi) /\ OnSimplex(s.before)
    /\ \A n \in DOMAIN s.metrics : s.metrics[n] \in 0..1000
    /\ s.affect # <<>> => s.affect[1] \in Int /\ s.affect[2] \in Int /\ s.affect[3] \in Int
    /\ s.episodes \in Seq(MemorySet)
    /\ s.skills \in Seq(SkillSet)
    /\ s.sims \in Seq(SimSet)
    /\ s.reflection.needs \in Seq(Nat) /\ s.reflection.proposals \in Seq(Nat)
    /\ s.reflection.conf \in Nat
    /\ DOMAIN s.reward # {} =>
          /\ s.reward.identity_stability \in Int /\ s.reward.reflection_depth \in Int
          /\ s.reward.integration_coherence \in Int /\ s.reward.affect_regulation \in Int
    /\ DOMAIN s.graph \subseteq Told \X Told /\ IsFiniteSet(DOMAIN s.graph)

LEMMA PhaseAndPhiFit == ASSUME NEW s, Sane(s) PROVE PhaseAndPhi(s) \in Seq(ObsSet)
<1>1. "low_phase" \in Told /\ "phi_critical" \in Told /\ "phi_low" \in Told
  BY TagsAreTold DEF StateTags
<1>2. Obs(s.phase \in {"BROKEN", "FRAGILE"}, "low_phase", 0, 1000) \in Seq(ObsSet)
  BY <1>1, ObsIsFit
<1>3. Obs(s.phi < InvPhi2, "phi_critical", 0, 1000) \in Seq(ObsSet)
  BY <1>1, ObsIsFit
<1>4. Obs(s.phi \in InvPhi2..(InvPhi - 1), "phi_low", 0, 800) \in Seq(ObsSet)
  BY <1>1, ObsIsFit
<1> QED BY <1>2, <1>3, <1>4, ObsTogether DEF PhaseAndPhi

LEMMA ComponentObsFit ==
    ASSUME NEW x \in 0..1000, NEW i \in 1..4 PROVE ComponentObs(x, i) \in Seq(ObsSet)
<1> DEFINE ratio == (1000 * x) \div Psi0[i]
<1>1. Psi0[i] \in Nat /\ Psi0[i] > 0
  BY DEF Psi0
<1>2. ratio \in Int
  BY <1>1
<1> HIDE DEF ratio
<1>3. i - 1 \in 0..3 /\ x \in Nat
  OBVIOUS
<1>4. Dominant[i] \in Told /\ Weak[i] \in Told /\ Emergent[i] \in Told /\ Active[i] \in Told
  BY TagsAreTold
<1>5. Obs(x > InvPhi, Dominant[i], i - 1, x) \in Seq(ObsSet)
  BY <1>3, <1>4, ObsIsFit
<1>6. Obs(ratio < 1000, Weak[i], i - 1, 1000 - ratio) \in Seq(ObsSet)
  <2> DEFINE when == ratio < 1000
             conf == 1000 - ratio
  <2>1. when => conf \in Nat
    BY <1>2
  <2> HIDE DEF when, conf
  <2>2. Obs(when, Weak[i], i - 1, conf) \in Seq(ObsSet)
    BY <1>3, <1>4, <2>1, ObsIsFit
  <2> QED BY <2>2 DEF when, conf
<1>7. Obs(ratio >= 1618, Emergent[i], i - 1, 1000) \in Seq(ObsSet)
  BY <1>3, <1>4, ObsIsFit
<1>8. Obs(ratio \in 1236..1617, Active[i], i - 1, ratio - 1000) \in Seq(ObsSet)
  <2> DEFINE when == ratio \in 1236..1617
             conf == ratio - 1000
  <2>1. when => conf \in Nat
    BY <1>2
  <2> HIDE DEF when, conf
  <2>2. Obs(when, Active[i], i - 1, conf) \in Seq(ObsSet)
    BY <1>3, <1>4, <2>1, ObsIsFit
  <2> QED BY <2>2 DEF when, conf
<1> QED BY <1>5, <1>6, <1>7, <1>8, ObsTogether DEF ComponentObs, ratio

LEMMA PsiObsFit == ASSUME NEW s, Sane(s) PROVE PsiObs(s) \in Seq(ObsSet)
<1>1. \A i \in 1..4 : s.psi[i] \in 0..1000
  <2>1. OnSimplex(s.psi)
    BY Zenon DEF Sane
  <2> QED BY <2>1 DEF OnSimplex, Whole
<1>2. [i \in 1..4 |-> ComponentObs(s.psi[i], i)] \in [1..4 -> Seq(ObsSet)]
  BY <1>1, ComponentObsFit
<1> QED BY <1>2, FlattenedIsSeq DEF PsiObs

LEMMA MetricObsFit == ASSUME NEW s, Sane(s) PROVE MetricObs(s) \in Seq(ObsSet)
<1> DEFINE One(i) ==
        IF MetricNames[i] \notin DOMAIN s.metrics THEN <<>>
        ELSE LET v == s.metrics[MetricNames[i]] IN
             Obs(v < InvPhi, MetricLow[i], MetricComponent[i], 1000 - v)
<1>1. ASSUME NEW i \in 1..7 PROVE One(i) \in Seq(ObsSet)
  <2>1. MetricLow[i] \in Told
    BY TagsAreTold
  <2>2. MetricComponent[i] \in 0..3
    BY DEF MetricComponent
  <2>3. CASE MetricNames[i] \in DOMAIN s.metrics
    <3> DEFINE v == s.metrics[MetricNames[i]]
    <3>1. v \in 0..1000
      BY <2>3 DEF Sane
    <3> HIDE DEF v
    <3>2. 1000 - v \in Nat
      BY <3>1
    <3>3. Obs(v < InvPhi, MetricLow[i], MetricComponent[i], 1000 - v) \in Seq(ObsSet)
      BY <2>1, <2>2, <3>2, ObsIsFit
    <3> QED BY <2>3, <3>3 DEF v
  <2>4. CASE MetricNames[i] \notin DOMAIN s.metrics
    <3>1. <<>> \in Seq(ObsSet)
      OBVIOUS
    <3> QED BY <2>4, <3>1
  <2> QED BY <2>3, <2>4
<1>2. [i \in 1..7 |-> One(i)] \in [1..7 -> Seq(ObsSet)]
  BY <1>1
<1> QED BY <1>2, FlattenedIsSeq DEF MetricObs

(* Both ends of a trajectory are on the simplex: its mean drift is zero.   *)
LEMMA SimplexParts ==
    ASSUME NEW v, OnSimplex(v)
    PROVE  /\ v[1] \in Int /\ v[2] \in Int /\ v[3] \in Int /\ v[4] \in Int
           /\ v[1] + v[2] + v[3] + v[4] = Whole
<1>1. v \in [1..4 -> 0..Whole]
  BY Zenon DEF OnSimplex
<1>2. \A i \in 1..4 : v[i] \in Int
  BY <1>1 DEF Whole
<1>3. v[1] \in Int /\ v[2] \in Int /\ v[3] \in Int /\ v[4] \in Int
  BY <1>2
<1> QED BY <1>3, Zenon DEF OnSimplex

LEMMA NoDrift == ASSUME NEW u, NEW v, OnSimplex(u), OnSimplex(v) PROVE Drift(u, v) = 0
<1>1. /\ v[1] \in Int /\ v[2] \in Int /\ v[3] \in Int /\ v[4] \in Int
      /\ v[1] + v[2] + v[3] + v[4] = Whole
  BY SimplexParts, Zenon
<1>2. /\ u[1] \in Int /\ u[2] \in Int /\ u[3] \in Int /\ u[4] \in Int
      /\ u[1] + u[2] + u[3] + u[4] = Whole
  BY SimplexParts, Zenon
<1> QED BY <1>1, <1>2 DEF Drift, Whole

LEMMA TrajectoryObsFit == ASSUME NEW s, Sane(s) PROVE TrajectoryObs(s) = <<>>
<1>1. OnSimplex(s.before) /\ OnSimplex(s.psi)
  BY Zenon DEF Sane
<1>2. Drift(s.before, s.psi) = 0
  BY <1>1, NoDrift, Zenon
<1> QED BY <1>2 DEF TrajectoryObs, Obs, InvPhi3

MostVariance == 562500

LEMMA SquareInRange == \A a \in -250..750 : Square(a) \in 0..MostVariance
<1> TAKE a \in -250..750
<1>1. a * a <= 750 * 750
  <2>1. CASE a >= 0
    BY <2>1, SMT
  <2>2. CASE a < 0
    <3>1. (-a) * (-a) <= 250 * 250
      BY <2>2, SMT
    <3>2. a * a = (-a) * (-a)
      BY SMT
    <3> QED BY <3>1, <3>2, SMT
  <2> QED BY <2>1, <2>2, SMT
<1>2. a * a >= 0
  BY SMT
<1>3. a * a \in Int /\ 750 * 750 = MostVariance /\ MostVariance \in Int
  BY SMT DEF MostVariance
<1>4. Square(a) = a * a
  BY SMT DEF Square
<1> HIDE DEF MostVariance
<1> QED BY <1>1, <1>2, <1>3, <1>4, SMT

LEMMA SquareIsNat == \A a \in Nat : Square(a) \in Nat
BY DEF Square

LEMMA SquareAtEnds ==
    Square(0) = 0 /\ Square(1000 + 1) \in Nat /\ Square(1000 + 1) > MostVariance /\ MostVariance \in Nat
BY SMT DEF Square, MostVariance

(* The deviation is a whole number. *)
LEMMA DeviationIsNat == ASSUME NEW v, OnSimplex(v) PROVE Deviation(v) \in 0..1000
<1> DEFINE variance == (Square(v[1] - 250) + Square(v[2] - 250)
                        + Square(v[3] - 250) + Square(v[4] - 250)) \div 4
           Root(r) == Square(r) <= variance /\ variance < Square(r + 1)
<1>1. ASSUME NEW i \in 1..4 PROVE Square(v[i] - 250) \in 0..MostVariance
  <2> DEFINE a == v[i] - 250
  <2>1. a \in -250..750
    BY SMT DEF OnSimplex, Whole
  <2> HIDE DEF a
  <2>2. Square(a) \in 0..MostVariance
    BY <2>1, SquareInRange, SMT
  <2> QED BY <2>2 DEF a
<1>2. variance \in 0..MostVariance
  <2> DEFINE a == Square(v[1] - 250)
             b == Square(v[2] - 250)
             c == Square(v[3] - 250)
             d == Square(v[4] - 250)
  <2>1. 1 \in 1..4 /\ 2 \in 1..4 /\ 3 \in 1..4 /\ 4 \in 1..4
    OBVIOUS
  <2>2. a \in 0..MostVariance /\ b \in 0..MostVariance /\ c \in 0..MostVariance
        /\ d \in 0..MostVariance
    BY <1>1, <2>1
  <2> HIDE DEF a, b, c, d
  <2>3. (a + b + c + d) \div 4 \in 0..MostVariance
    <3>1. MostVariance \in Nat
      BY SMT DEF MostVariance
    <3>2. /\ a \in Int /\ 0 <= a /\ a <= MostVariance /\ b \in Int /\ 0 <= b /\ b <= MostVariance
          /\ c \in Int /\ 0 <= c /\ c <= MostVariance /\ d \in Int /\ 0 <= d /\ d <= MostVariance
      BY <2>2, <3>1, SMT
    <3> QED BY <3>1, <3>2, SMT
  <2> QED BY <2>3 DEF a, b, c, d
<1> HIDE DEF variance
<1>3. variance \in Nat /\ variance < Square(1000 + 1)
  BY <1>2, SquareAtEnds, SMT
<1>4. \E r \in 0..1000 : Root(r)
  <2> DEFINE T == {r \in Nat : variance < Square(r + 1)}
  <2>1. 1000 \in T
    BY <1>3
  <2>2. PICK r \in T : \A q \in T : r <= q
    <3>1. T \subseteq Nat
      OBVIOUS
    <3> HIDE DEF T
    <3> QED BY <2>1, <3>1, LeastOf
  <2>3. r \in Nat /\ variance < Square(r + 1)
    OBVIOUS
  <2>4. r \in 0..1000
    <3> HIDE DEF T
    <3> QED BY <2>1, <2>2, <2>3
  <2>5. Square(r) <= variance
    <3>1. CASE r = 0
      BY <3>1, <1>3, SquareAtEnds
    <3>2. CASE r # 0
      <4>1. r - 1 \in Nat /\ ~(r <= r - 1) /\ (r - 1) + 1 = r
        BY <3>2, <2>3
      <4>2. r - 1 \notin T
        <5> HIDE DEF T
        <5> QED BY <4>1, <2>2
      <4>3. ~(variance < Square(r))
        BY <4>1, <4>2
      <4>4. Square(r) \in Nat
        BY <2>3, SquareIsNat
      <4> QED BY <4>3, <4>4, <1>3
    <3> QED BY <3>1, <3>2
  <2> QED BY <2>3, <2>4, <2>5
<1>5. Deviation(v) = CHOOSE r \in 0..1000 : Root(r)
  BY Zenon DEF Deviation, variance
<1> HIDE DEF Root
<1> QED BY <1>4, <1>5, Zenon

LEMMA HealthObsFit == ASSUME NEW s, Sane(s) PROVE HealthObs(s) \in Seq(ObsSet)
<1> DEFINE phi == s.phi
           dev == Deviation(s.psi)
<1>1. phi \in Int
  BY Zenon DEF Sane
<1>2. dev \in 0..1000
  BY DeviationIsNat, Zenon DEF Sane
<1> HIDE DEF phi, dev
<1>3. /\ "high_phase" \in Told /\ "phi_healthy" \in Told /\ "phi_excellent" \in Told
      /\ "psi_balanced" \in Told /\ "user_stimulus" \in Told
  BY TagsAreTold DEF StateTags
<1>4. Obs(s.phase \in {"SOLID", "EXCELLENT"}, "high_phase", 2, 800) \in Seq(ObsSet)
  BY <1>3, ObsIsFit
<1>5. Obs(phi >= InvPhi, "phi_healthy", 2, AtMost(1000, phi)) \in Seq(ObsSet)
  <2> DEFINE when == phi >= InvPhi
             conf == AtMost(1000, phi)
  <2>1. when => conf \in Nat
    BY <1>1 DEF AtMost, InvPhi
  <2> HIDE DEF when, conf
  <2>2. Obs(when, "phi_healthy", 2, conf) \in Seq(ObsSet)
    BY <1>3, <2>1, ObsIsFit
  <2> QED BY <2>2 DEF when, conf
<1>6. Obs(phi > 1000, "phi_excellent", 2, AtMost(1000, Times(phi, InvPhi))) \in Seq(ObsSet)
  <2> DEFINE when == phi > 1000
             conf == AtMost(1000, Times(phi, InvPhi))
  <2>1. when => conf \in Nat
    BY <1>1 DEF AtMost, Times, InvPhi
  <2> HIDE DEF when, conf
  <2>2. Obs(when, "phi_excellent", 2, conf) \in Seq(ObsSet)
    BY <1>3, <2>1, ObsIsFit
  <2> QED BY <2>2 DEF when, conf
<1>7. Obs(dev < InvPhi3, "psi_balanced", 1, 1000 - (1000 * dev) \div InvPhi3) \in Seq(ObsSet)
  <2> DEFINE when == dev < InvPhi3
             conf == 1000 - (1000 * dev) \div InvPhi3
  <2>1. when => conf \in Nat
    BY <1>2 DEF InvPhi3
  <2> HIDE DEF when, conf
  <2>2. Obs(when, "psi_balanced", 1, conf) \in Seq(ObsSet)
    BY <1>3, <2>1, ObsIsFit
  <2> QED BY <2>2 DEF when, conf
<1>8. Obs(s.message, "user_stimulus", 0, 1000) \in Seq(ObsSet)
  BY <1>3, ObsIsFit
<1> QED BY <1>4, <1>5, <1>6, <1>7, <1>8, ObsTogether DEF HealthObs, phi, dev

LEMMA AffectObsFit == ASSUME NEW s, Sane(s) PROVE AffectObs(s) \in Seq(ObsSet)
<1> DEFINE valence == s.affect[1]
           arousal == s.affect[2]
           dominance == s.affect[3]
<1>1. CASE s.affect = <<>>
  <2>1. <<>> \in Seq(ObsSet)
    OBVIOUS
  <2> QED BY <1>1, <2>1 DEF AffectObs
<1>2. CASE s.affect # <<>>
  <2>1. valence \in Int /\ arousal \in Int /\ dominance \in Int
    BY <1>2, Zenon DEF Sane
  <2> HIDE DEF valence, arousal, dominance
  <2>2. /\ "affect_positive" \in Told /\ "affect_negative" \in Told
        /\ "affect_aroused" \in Told /\ "affect_vulnerable" \in Told
    BY TagsAreTold DEF FeelingTags
  <2>3. Obs(valence >= InvPhi2, "affect_positive", 1, Times(InvPhi2, valence)) \in Seq(ObsSet)
    <3> DEFINE when == valence >= InvPhi2
               conf == Times(InvPhi2, valence)
    <3>1. when => conf \in Nat
      BY <2>1 DEF Times, InvPhi, InvPhi2, InvPhi3
    <3> HIDE DEF when, conf
    <3>2. Obs(when, "affect_positive", 1, conf) \in Seq(ObsSet)
      BY <2>2, <3>1, ObsIsFit
    <3> QED BY <3>2 DEF when, conf
  <2>4. Obs(-valence >= InvPhi2, "affect_negative", 1, Times(InvPhi2, -valence)) \in Seq(ObsSet)
    <3> DEFINE when == -valence >= InvPhi2
               conf == Times(InvPhi2, -valence)
    <3>1. when => conf \in Nat
      BY <2>1 DEF Times, InvPhi, InvPhi2, InvPhi3
    <3> HIDE DEF when, conf
    <3>2. Obs(when, "affect_negative", 1, conf) \in Seq(ObsSet)
      BY <2>2, <3>1, ObsIsFit
    <3> QED BY <3>2 DEF when, conf
  <2>5. Obs(arousal >= InvPhi, "affect_aroused", 0, Times(InvPhi2, arousal)) \in Seq(ObsSet)
    <3> DEFINE when == arousal >= InvPhi
               conf == Times(InvPhi2, arousal)
    <3>1. when => conf \in Nat
      BY <2>1 DEF Times, InvPhi, InvPhi2, InvPhi3
    <3> HIDE DEF when, conf
    <3>2. Obs(when, "affect_aroused", 0, conf) \in Seq(ObsSet)
      BY <2>2, <3>1, ObsIsFit
    <3> QED BY <3>2 DEF when, conf
  <2>6. Obs(dominance < InvPhi3, "affect_vulnerable", 2, Times(InvPhi2, 1000 - dominance)) \in Seq(ObsSet)
    <3> DEFINE when == dominance < InvPhi3
               conf == Times(InvPhi2, 1000 - dominance)
    <3>1. when => conf \in Nat
      BY <2>1 DEF Times, InvPhi, InvPhi2, InvPhi3
    <3> HIDE DEF when, conf
    <3>2. Obs(when, "affect_vulnerable", 2, conf) \in Seq(ObsSet)
      BY <2>2, <3>1, ObsIsFit
    <3> QED BY <3>2 DEF when, conf
  <2> QED BY <1>2, <2>3, <2>4, <2>5, <2>6, ObsTogether
          DEF AffectObs, valence, arousal, dominance
<1> QED BY <1>1, <1>2

LEMMA EpisodeObsFit == ASSUME NEW s, Sane(s) PROVE EpisodeObs(s) \in Seq(ObsSet)
<1> DEFINE One(e) ==
               Obs(e.gain > InvPhi3, "episodic_positive", 2, Times(e.similarity, InvPhi2))
               \o Obs(e.gain < -InvPhi3, "episodic_negative", 0, Times(e.similarity, InvPhi2))
               \o Obs(Magnitude(e.gain) <= InvPhi3, "episodic_neutral", 1,
                      Times(e.similarity, InvPhi3))
               \o Obs(e.pinned, "episodic_founding", 1, Times(e.similarity, InvPhi))
<1>1. s.episodes \in Seq(MemorySet)
  BY Zenon DEF Sane
<1>2. ASSUME NEW e \in MemorySet PROVE One(e) \in Seq(ObsSet)
  <2>1. /\ "episodic_positive" \in Told /\ "episodic_negative" \in Told
        /\ "episodic_neutral" \in Told /\ "episodic_founding" \in Told
    BY TagsAreTold DEF FeelingTags
  <2>2. /\ Times(e.similarity, InvPhi) \in Nat /\ Times(e.similarity, InvPhi2) \in Nat
        /\ Times(e.similarity, InvPhi3) \in Nat
    BY DEF MemorySet, Times, InvPhi, InvPhi2, InvPhi3
  <2>3. Obs(e.gain > InvPhi3, "episodic_positive", 2, Times(e.similarity, InvPhi2))
            \in Seq(ObsSet)
    BY <2>1, <2>2, ObsIsFit
  <2>4. Obs(e.gain < -InvPhi3, "episodic_negative", 0, Times(e.similarity, InvPhi2))
            \in Seq(ObsSet)
    BY <2>1, <2>2, ObsIsFit
  <2>5. Obs(Magnitude(e.gain) <= InvPhi3, "episodic_neutral", 1, Times(e.similarity, InvPhi3))
            \in Seq(ObsSet)
    BY <2>1, <2>2, ObsIsFit
  <2>6. Obs(e.pinned, "episodic_founding", 1, Times(e.similarity, InvPhi)) \in Seq(ObsSet)
    BY <2>1, <2>2, ObsIsFit
  <2> QED BY <2>3, <2>4, <2>5, <2>6, ObsTogether
<1> DEFINE n == Len(s.episodes)
<1>3. n \in Nat /\ DOMAIN s.episodes = 1..n
  BY <1>1
<1>4. [i \in 1..n |-> One(s.episodes[i])] \in [1..n -> Seq(ObsSet)]
  <2> HIDE DEF One
  <2> QED BY <1>1, <1>2, <1>3
<1>5. EpisodeObs(s) = FlattenSeq([i \in 1..n |-> One(s.episodes[i])])
  BY <1>3 DEF EpisodeObs
<1> HIDE DEF n, One
<1> QED BY <1>3, <1>4, <1>5, FlattenedIsSeq, Zenon

LEMMA SelfObsFit == ASSUME NEW s PROVE SelfObs(s) \in Seq(ObsSet)
<1>1. /\ "self_episodic_memory" \in Told /\ "self_dream_history" \in Told
      /\ "self_no_dreams" \in Told /\ "self_voice_corrected" \in Told
      /\ "self_autonomous_life" \in Told /\ "self_endogenous_active" \in Told
  BY TagsAreTold DEF SelfTags
<1>2. InvPhi2 \in Nat /\ InvPhi3 \in Nat
  BY DEF InvPhi2, InvPhi3
<1>3. Obs("episodes" \in s.self, "self_episodic_memory", 1, InvPhi3) \in Seq(ObsSet)
  BY <1>1, <1>2, ObsIsFit
<1>4. Obs("dreams" \in s.self, "self_dream_history", 2, InvPhi3) \in Seq(ObsSet)
  BY <1>1, <1>2, ObsIsFit
<1>5. Obs("dreams" \notin s.self /\ "can_dream" \in s.self, "self_no_dreams", 1, InvPhi3)
          \in Seq(ObsSet)
  BY <1>1, <1>2, ObsIsFit
<1>6. Obs("corrections" \in s.self, "self_voice_corrected", 0, InvPhi2) \in Seq(ObsSet)
  BY <1>1, <1>2, ObsIsFit
<1>7. Obs("ticks" \in s.self, "self_autonomous_life", 1, InvPhi3) \in Seq(ObsSet)
  BY <1>1, <1>2, ObsIsFit
<1>8. Obs("impulses" \in s.self, "self_endogenous_active", 3, InvPhi3) \in Seq(ObsSet)
  BY <1>1, <1>2, ObsIsFit
<1> QED BY <1>3, <1>4, <1>5, <1>6, <1>7, <1>8, ObsTogether DEF SelfObs

LEMMA IdentityObsFit == ASSUME NEW s PROVE IdentityObs(s) \in Seq(ObsSet)
<1>1. "identity_anchored" \in Told /\ "identity_drift" \in Told
  BY TagsAreTold DEF SelfTags
<1>2. InvPhi3 \in Nat
  BY DEF InvPhi3
<1>3. Obs(s.identity = "intact", "identity_anchored", 1, 1000) \in Seq(ObsSet)
  BY <1>1, ObsIsFit
<1>4. Obs(s.identity = "altered", "identity_anchored", 1, InvPhi3) \in Seq(ObsSet)
  BY <1>1, <1>2, ObsIsFit
<1>5. Obs(s.identity = "altered", "identity_drift", 0, 1000) \in Seq(ObsSet)
  BY <1>1, ObsIsFit
<1> QED BY <1>3, <1>4, <1>5, ObsTogether DEF IdentityObs

(* The greatest gain of simulations, or zero.                              *)
LEMMA BestGainIsInt ==
    ASSUME NEW sims \in Seq(SimSet) PROVE BestGain(sims) \in Int
<1> DEFINE n == Len(sims)
           G(k) == {0} \cup {sims[i].gain : i \in 1..k}
           S == {k \in 0..n : \E m \in G(k) : \A g \in G(k) : g <= m}
<1>1. n \in Nat /\ DOMAIN sims = 1..n /\ \A i \in 1..n : sims[i].gain \in Int
  <2>1. n \in Nat /\ DOMAIN sims = 1..n
    OBVIOUS
  <2>2. ASSUME NEW i \in 1..n PROVE sims[i].gain \in Int
    <3>1. sims[i] \in SimSet
      BY <2>1
    <3> QED BY <3>1 DEF SimSet
  <2> QED BY <2>1, <2>2
<1>2. 0 \in S
  <2>1. G(0) = {0}
    OBVIOUS
  <2>2. 0 \in 0..n
    BY <1>1
  <2> HIDE DEF G, n
  <2> QED BY <2>1, <2>2
<1>3. ASSUME NEW k \in 0..n, k \in S, k + 1 <= n PROVE k + 1 \in S
  <2>1. k + 1 \in 1..n /\ k + 1 \in 0..n
    BY <1>1, <1>3
  <2>2. G(k + 1) = G(k) \cup {sims[k + 1].gain}
    BY <2>1
  <2>3. \A g \in G(k) : g \in Int
    BY <1>1, <2>1
  <2>4. PICK m \in G(k) : \A g \in G(k) : g <= m
    BY <1>3
  <2> DEFINE new == sims[k + 1].gain
  <2>5. new \in Int
    BY <1>1, <2>1
  <2> HIDE DEF G, new, n
  <2>6. CASE new <= m
    <3>1. \A g \in G(k + 1) : g <= m
      BY <2>2, <2>4, <2>6 DEF new
    <3> QED BY <2>1, <2>2, <2>4, <3>1
  <2>7. CASE ~(new <= m)
    <3>1. \A g \in G(k + 1) : g <= new
      BY <2>2, <2>3, <2>4, <2>5, <2>7 DEF new
    <3>2. new \in G(k + 1)
      BY <2>2 DEF new
    <3> QED BY <2>1, <3>1, <3>2
  <2> QED BY <2>6, <2>7
<1>4. n \in S
  <2> HIDE DEF S, n
  <2>1. 0..n \subseteq S
    BY <1>1, <1>2, <1>3, UpTo
  <2> QED BY <1>1, <2>1
<1>5. \E m \in G(n) : \A g \in G(n) : m >= g
  <2>1. PICK m \in G(n) : \A g \in G(n) : g <= m
    BY <1>4
  <2>2. \A g \in G(n) : g \in Int
    BY <1>1
  <2> HIDE DEF G
  <2> QED BY <2>1, <2>2
<1>6. BestGain(sims) = CHOOSE m \in G(n) : \A g \in G(n) : m >= g
  BY <1>1 DEF BestGain, Max
<1>7. \A g \in G(n) : g \in Int
  BY <1>1
<1> HIDE DEF G
<1>8. BestGain(sims) \in G(n)
  BY <1>5, <1>6, Zenon
<1> QED BY <1>7, <1>8

LEMMA StabilityIsInt ==
    ASSUME NEW sims \in Seq(SimSet), sims # <<>>
    PROVE  Stability(sims) \in Int
<1> DEFINE all == [i \in DOMAIN sims |-> sims[i].stability]
<1>1. all \in Seq(Int)
  <2>1. Len(sims) \in Nat /\ DOMAIN sims = 1..Len(sims)
    OBVIOUS
  <2>2. ASSUME NEW i \in DOMAIN sims PROVE sims[i].stability \in Int
    <3>1. sims[i] \in SimSet
      BY <2>1
    <3> QED BY <3>1 DEF SimSet
  <2>3. all \in [1..Len(sims) -> Int]
    BY <2>1, <2>2
  <2> HIDE DEF all
  <2> QED BY <2>1, <2>3
<1>2. SumOfAll(all) \in Int
  <2> HIDE DEF all
  <2> QED BY <1>1, SumIsInt
<1>3. Len(sims) \in Nat /\ Len(sims) > 0
  OBVIOUS
<1> HIDE DEF all
<1>4. SumOfAll(all) \div Len(sims) \in Int
  BY <1>2, <1>3
<1> QED BY <1>4 DEF Stability, all

LEMMA DreamObsFit == ASSUME NEW s, Sane(s) PROVE DreamObs(s) \in Seq(ObsSet)
<1> DEFINE Skill(k) ==
               Obs(k.good, "dream_skill_positive", k.comp, Times(k.conf, InvPhi2))
               \o Obs(~k.good, "dream_skill_negative", 0, Times(k.conf, InvPhi2))
           skills == FlattenSeq([i \in DOMAIN s.skills |-> Skill(s.skills[i])])
           risk == 1000 - Stability(s.sims)
           gain == BestGain(s.sims)
           sims == IF s.sims = <<>> THEN <<>> ELSE
               Obs(risk > InvPhi3, "dream_sim_risk", 2, Times(risk, InvPhi3))
               \o Obs(gain > InvPhi3, "dream_sim_opportunity", 3,
                      Times(AtMost(gain, 1000), InvPhi3))
           OneNeed(i) == Obs(TRUE, "dream_unresolved_need", 2,
               Times(Times(s.reflection.needs[i], s.reflection.conf), InvPhi2))
           needs == FlattenSeq([i \in 1..AtMost(3, Len(s.reflection.needs)) |-> OneNeed(i)])
           OneProposal(i) == Obs(TRUE, "dream_pending_proposal", 3,
               Times(Times(AtMost(s.reflection.proposals[i], 1000), s.reflection.conf), InvPhi2))
           proposals ==
               FlattenSeq([i \in 1..AtMost(2, Len(s.reflection.proposals)) |-> OneProposal(i)])
<1>1. /\ "dream_skill_positive" \in Told /\ "dream_skill_negative" \in Told
      /\ "dream_sim_risk" \in Told /\ "dream_sim_opportunity" \in Told
      /\ "dream_unresolved_need" \in Told /\ "dream_pending_proposal" \in Told
      /\ "dream_journal_recall" \in Told
  BY TagsAreTold DEF DreamTags
<1>2. InvPhi2 \in Nat /\ InvPhi3 \in Nat
  BY DEF InvPhi2, InvPhi3
<1>3. skills \in Seq(ObsSet)
  <2> DEFINE n == Len(s.skills)
  <2>1. s.skills \in Seq(SkillSet)
    BY Zenon DEF Sane
  <2>2. ASSUME NEW k \in SkillSet PROVE Skill(k) \in Seq(ObsSet)
    <3>1. Times(k.conf, InvPhi2) \in Nat /\ k.comp \in 0..3
      BY DEF SkillSet, Times, InvPhi2
    <3>2. Obs(k.good, "dream_skill_positive", k.comp, Times(k.conf, InvPhi2)) \in Seq(ObsSet)
      BY <1>1, <3>1, ObsIsFit
    <3>3. Obs(~k.good, "dream_skill_negative", 0, Times(k.conf, InvPhi2)) \in Seq(ObsSet)
      BY <1>1, <3>1, ObsIsFit
    <3> QED BY <3>2, <3>3, ObsTogether
  <2>3. n \in Nat /\ DOMAIN s.skills = 1..n
    BY <2>1
  <2>4. [i \in 1..n |-> Skill(s.skills[i])] \in [1..n -> Seq(ObsSet)]
    <3> HIDE DEF Skill
    <3> QED BY <2>1, <2>2, <2>3
  <2>5. skills = FlattenSeq([i \in 1..n |-> Skill(s.skills[i])])
    BY <2>3
  <2> HIDE DEF skills, n, Skill
  <2> QED BY <2>3, <2>4, <2>5, FlattenedIsSeq, Zenon
<1>4. sims \in Seq(ObsSet)
  <2>1. CASE s.sims = <<>>
    <3>1. <<>> \in Seq(ObsSet)
      OBVIOUS
    <3> QED BY <2>1, <3>1
  <2>2. CASE s.sims # <<>>
    <3>1. s.sims \in Seq(SimSet)
      BY Zenon DEF Sane
    <3>2. Stability(s.sims) \in Int
      BY <2>2, <3>1, StabilityIsInt, Zenon
    <3>3. risk \in Int
      BY <3>2
    <3>4. gain \in Int
      BY <3>1, BestGainIsInt, Zenon
    <3> HIDE DEF risk, gain
    <3>5. Obs(risk > InvPhi3, "dream_sim_risk", 2, Times(risk, InvPhi3)) \in Seq(ObsSet)
      <4> DEFINE when == risk > InvPhi3
                 conf == Times(risk, InvPhi3)
      <4>1. when => conf \in Nat
        BY <3>3 DEF Times, AtMost, InvPhi3
      <4> HIDE DEF when, conf
      <4>2. Obs(when, "dream_sim_risk", 2, conf) \in Seq(ObsSet)
        BY <1>1, <4>1, ObsIsFit
      <4> QED BY <4>2 DEF when, conf
    <3>6. Obs(gain > InvPhi3, "dream_sim_opportunity", 3, Times(AtMost(gain, 1000), InvPhi3)) \in Seq(ObsSet)
      <4> DEFINE when == gain > InvPhi3
                 conf == Times(AtMost(gain, 1000), InvPhi3)
      <4>1. when => conf \in Nat
        BY <3>4 DEF Times, AtMost, InvPhi3
      <4> HIDE DEF when, conf
      <4>2. Obs(when, "dream_sim_opportunity", 3, conf) \in Seq(ObsSet)
        BY <1>1, <4>1, ObsIsFit
      <4> QED BY <4>2 DEF when, conf
    <3> QED BY <2>2, <3>5, <3>6, ObsTogether
  <2> HIDE DEF sims
  <2> QED BY <2>1, <2>2
<1>5. needs \in Seq(ObsSet)
  <2> DEFINE n == AtMost(3, Len(s.reflection.needs))
  <2>1. s.reflection.needs \in Seq(Nat) /\ s.reflection.conf \in Nat
    BY Zenon DEF Sane
  <2>2. n \in Nat /\ n <= Len(s.reflection.needs)
    BY <2>1 DEF AtMost
  <2>3. ASSUME NEW i \in 1..n PROVE OneNeed(i) \in Seq(ObsSet)
    <3>1. s.reflection.needs[i] \in Nat
      BY <2>1, <2>2
    <3>2. Times(Times(s.reflection.needs[i], s.reflection.conf), InvPhi2) \in Nat
      BY <2>1, <3>1, <1>2, TimesIsNat, Zenon
    <3> DEFINE conf == Times(Times(s.reflection.needs[i], s.reflection.conf), InvPhi2)
    <3>3. conf \in Nat
      BY <3>2
    <3> HIDE DEF conf
    <3>4. Obs(TRUE, "dream_unresolved_need", 2, conf) \in Seq(ObsSet)
      BY <1>1, <3>3 DEF Obs, ObsSet
    <3> QED BY <3>4 DEF conf
  <2>4. [i \in 1..n |-> OneNeed(i)] \in [1..n -> Seq(ObsSet)]
    <3> HIDE DEF OneNeed
    <3> QED BY <2>3
  <2> HIDE DEF OneNeed
  <2> QED BY <2>2, <2>4, FlattenedIsSeq, Zenon
<1>6. proposals \in Seq(ObsSet)
  <2> DEFINE n == AtMost(2, Len(s.reflection.proposals))
  <2>1. s.reflection.proposals \in Seq(Nat) /\ s.reflection.conf \in Nat
    BY Zenon DEF Sane
  <2>2. n \in Nat /\ n <= Len(s.reflection.proposals)
    BY <2>1 DEF AtMost
  <2>3. ASSUME NEW i \in 1..n PROVE OneProposal(i) \in Seq(ObsSet)
    <3>1. AtMost(s.reflection.proposals[i], 1000) \in Nat
      BY <2>1, <2>2 DEF AtMost
    <3>2. Times(Times(AtMost(s.reflection.proposals[i], 1000), s.reflection.conf), InvPhi2)
              \in Nat
      <4> DEFINE a == AtMost(s.reflection.proposals[i], 1000)
      <4>1. a \in Nat
        BY <3>1
      <4> HIDE DEF a
      <4>2. Times(Times(a, s.reflection.conf), InvPhi2) \in Nat
        BY <2>1, <4>1, <1>2, TimesIsNat, Zenon
      <4> QED BY <4>2 DEF a
    <3> DEFINE conf ==
            Times(Times(AtMost(s.reflection.proposals[i], 1000), s.reflection.conf), InvPhi2)
    <3>3. conf \in Nat
      BY <3>2
    <3> HIDE DEF conf
    <3>4. Obs(TRUE, "dream_pending_proposal", 3, conf) \in Seq(ObsSet)
      BY <1>1, <3>3 DEF Obs, ObsSet
    <3> QED BY <3>4 DEF conf
  <2>4. [i \in 1..n |-> OneProposal(i)] \in [1..n -> Seq(ObsSet)]
    <3> HIDE DEF OneProposal
    <3> QED BY <2>3
  <2> HIDE DEF OneProposal
  <2> QED BY <2>2, <2>4, FlattenedIsSeq, Zenon
<1>7. Obs(s.journal, "dream_journal_recall", 1, Times(InvPhi3, InvPhi3)) \in Seq(ObsSet)
  BY <1>1, <1>2, TimesIsNat, ObsIsFit
<1>8. DreamObs(s) = skills \o sims \o needs \o proposals
                    \o Obs(s.journal, "dream_journal_recall", 1, Times(InvPhi3, InvPhi3))
  BY Zenon DEF DreamObs
<1> HIDE DEF skills, sims, needs, proposals
<1> QED BY <1>3, <1>4, <1>5, <1>6, <1>7, <1>8, ObsTogether

LEMMA BreachIsFit ==
    ASSUME NEW when, NEW tag, NEW comp, NEW value, tag \in Told, comp \in 0..3, when => value \in Int
    PROVE  Breach(when, tag, comp, value) \in Seq(ObsSet)
<1> DEFINE conf == Times(AtMost(Magnitude(value), 1000), InvPhi3)
<1>1. when => conf \in Nat
  <2>1. value \in Int => conf \in Nat
    BY DEF Times, AtMost, Magnitude, InvPhi3
  <2> QED BY <2>1
<1> HIDE DEF conf
<1>2. Obs(when, tag, comp, conf) \in Seq(ObsSet)
  BY <1>1, ObsIsFit
<1> QED BY <1>2 DEF Breach, conf

LEMMA RewardObsFit == ASSUME NEW s, Sane(s) PROVE RewardObs(s) \in Seq(ObsSet)
<1> DEFINE r == s.reward
           healthy == \A c \in {"constitution_integrity", "anti_collapse",
               "integration_coherence", "identity_stability", "reflection_depth"} : r[c] >= 0
<1>1. CASE DOMAIN s.reward = {}
  <2>1. <<>> \in Seq(ObsSet)
    OBVIOUS
  <2> QED BY <1>1, <2>1 DEF RewardObs
<1>2. CASE DOMAIN s.reward # {}
  <2>1. /\ r.identity_stability \in Int /\ r.reflection_depth \in Int
        /\ r.integration_coherence \in Int /\ r.affect_regulation \in Int
    BY <1>2, Zenon DEF Sane
  <2>2. /\ "reward_constitution_breach" \in Told /\ "reward_collapse_risk" \in Told
        /\ "reward_identity_drift" \in Told /\ "reward_reflection_shallow" \in Told
        /\ "reward_integration_low" \in Told /\ "reward_affect_dysregulated" \in Told
        /\ "reward_healthy_cycle" \in Told
    BY TagsAreTold DEF RewardTags
  <2>3. InvPhi3 \in Nat /\ Times(InvPhi3, InvPhi2) \in Nat
    BY DEF InvPhi2, InvPhi3, Times
  <2> HIDE DEF r, healthy
  <2>4. Obs(r.constitution_integrity < 0, "reward_constitution_breach", 0, InvPhi3)
            \in Seq(ObsSet)
    BY <2>2, <2>3, ObsIsFit
  <2>5. Obs(r.anti_collapse < 0, "reward_collapse_risk", 0, InvPhi3) \in Seq(ObsSet)
    BY <2>2, <2>3, ObsIsFit
  <2>6. Breach(r.identity_stability < -InvPhi3, "reward_identity_drift", 2,
               r.identity_stability) \in Seq(ObsSet)
    BY <2>1, <2>2, BreachIsFit
  <2>7. Breach(r.reflection_depth < -InvPhi2, "reward_reflection_shallow", 1,
               r.reflection_depth) \in Seq(ObsSet)
    BY <2>1, <2>2, BreachIsFit
  <2>8. Breach(r.integration_coherence < -InvPhi2, "reward_integration_low", 2,
               r.integration_coherence) \in Seq(ObsSet)
    BY <2>1, <2>2, BreachIsFit
  <2>9. Breach(r.affect_regulation < -InvPhi2, "reward_affect_dysregulated", 1,
               r.affect_regulation) \in Seq(ObsSet)
    BY <2>1, <2>2, BreachIsFit
  <2>10. Obs(healthy, "reward_healthy_cycle", 2, Times(InvPhi3, InvPhi2)) \in Seq(ObsSet)
    BY <2>2, <2>3, ObsIsFit
  <2>11. RewardObs(s) =
            Obs(r.constitution_integrity < 0, "reward_constitution_breach", 0, InvPhi3)
            \o Obs(r.anti_collapse < 0, "reward_collapse_risk", 0, InvPhi3)
            \o Breach(r.identity_stability < -InvPhi3, "reward_identity_drift", 2,
                      r.identity_stability)
            \o Breach(r.reflection_depth < -InvPhi2, "reward_reflection_shallow", 1,
                      r.reflection_depth)
            \o Breach(r.integration_coherence < -InvPhi2, "reward_integration_low", 2,
                      r.integration_coherence)
            \o Breach(r.affect_regulation < -InvPhi2, "reward_affect_dysregulated", 1,
                      r.affect_regulation)
            \o Obs(healthy, "reward_healthy_cycle", 2, Times(InvPhi3, InvPhi2))
    BY <1>2, Zenon DEF RewardObs, r, healthy
  <2> QED BY <2>4, <2>5, <2>6, <2>7, <2>8, <2>9, <2>10, <2>11, ObsTogether
<1> QED BY <1>1, <1>2

(* What is observed is fit: no tag of a trajectory, no confidence below 0. *)
LEMMA ObservedFit == ASSUME NEW s, Sane(s) PROVE Observe(s) \in Seq(ObsSet)
<1>1. TrajectoryObs(s) \in Seq(ObsSet)
  <2>1. <<>> \in Seq(ObsSet)
    OBVIOUS
  <2> QED BY <2>1, TrajectoryObsFit
<1>2. PhaseAndPhi(s) \in Seq(ObsSet) /\ PsiObs(s) \in Seq(ObsSet) /\ MetricObs(s) \in Seq(ObsSet)
  BY PhaseAndPhiFit, PsiObsFit, MetricObsFit
<1>3. HealthObs(s) \in Seq(ObsSet) /\ AffectObs(s) \in Seq(ObsSet) /\ EpisodeObs(s) \in Seq(ObsSet)
  BY HealthObsFit, AffectObsFit, EpisodeObsFit
<1>4. SelfObs(s) \in Seq(ObsSet) /\ DreamObs(s) \in Seq(ObsSet) /\ RewardObs(s) \in Seq(ObsSet)
      /\ IdentityObs(s) \in Seq(ObsSet)
  BY SelfObsFit, DreamObsFit, RewardObsFit, IdentityObsFit
<1> QED BY <1>1, <1>2, <1>3, <1>4, ObsTogether, ZenonT(60) DEF Observe

LEMMA TagsTold == ASSUME NEW obs \in Seq(ObsSet) PROVE Tags(obs) \subseteq Told
<1>1. \A i \in DOMAIN obs : obs[i] \in ObsSet
  OBVIOUS
<1>2. \A o \in ObsSet : o.tag \in Told
  BY DEF ObsSet
<1> HIDE DEF ObsSet
<1> QED BY <1>1, <1>2 DEF Tags

(* What is found: links that are strong enough, between tags observed.     *)
Linked(causal) ==
    /\ DOMAIN causal \subseteq Told \X Told /\ IsFiniteSet(DOMAIN causal)
    /\ causal \in [DOMAIN causal -> InvPhi2..Whole]

LEMMA SevenFinite ==
    ASSUME NEW a, NEW b, NEW c, NEW d, NEW e, NEW f, NEW g
    PROVE  IsFiniteSet({a, b, c, d, e, f, g})
<1>1. IsFiniteSet({a} \cup {b})
  BY FS_Singleton, FS_AddElement
<1>2. IsFiniteSet(({a} \cup {b}) \cup {c})
  BY <1>1, FS_AddElement
<1>3. IsFiniteSet((({a} \cup {b}) \cup {c}) \cup {d})
  BY <1>2, FS_AddElement
<1>4. IsFiniteSet(((({a} \cup {b}) \cup {c}) \cup {d}) \cup {e})
  BY <1>3, FS_AddElement
<1>5. IsFiniteSet((((({a} \cup {b}) \cup {c}) \cup {d}) \cup {e}) \cup {f})
  BY <1>4, FS_AddElement
<1>6. IsFiniteSet(((((({a} \cup {b}) \cup {c}) \cup {d}) \cup {e}) \cup {f}) \cup {g})
  BY <1>5, FS_AddElement
<1>7. ((((({a} \cup {b}) \cup {c}) \cup {d}) \cup {e}) \cup {f}) \cup {g} = {a, b, c, d, e, f, g}
  OBVIOUS
<1> QED BY <1>6, <1>7, Zenon

LEMMA HeuristicPairsFinite == IsFiniteSet(HeuristicPairs)
BY SevenFinite, Zenon DEF HeuristicPairs

LEMMA CausesLinked ==
    ASSUME NEW obs \in Seq(ObsSet), NEW graph,
           DOMAIN graph \subseteq Told \X Told, IsFiniteSet(DOMAIN graph)
    PROVE  Linked(FindCausalities(obs, graph))
<1> DEFINE tags == Tags(obs)
           seen == {e \in HeuristicPairs \cup DOMAIN graph : e[1] \in tags /\ e[2] \in tags}
           causal == [e \in seen |-> IF e \in HeuristicPairs \/ graph[e] THEN InvPhi ELSE InvPhi2]
<1>1. tags \subseteq Told
  BY TagsTold
<1>2. \A e \in HeuristicPairs : e = <<e[1], e[2]>>
  BY DEF HeuristicPairs
<1> HIDE DEF tags
<1>3. seen \subseteq Told \X Told
  BY <1>1, <1>2
<1>4. IsFiniteSet(HeuristicPairs \cup DOMAIN graph)
  BY HeuristicPairsFinite, FS_Union
<1>5. IsFiniteSet(seen)
  BY <1>4, FS_Subset, Zenon
<1>6. DOMAIN causal = seen
  OBVIOUS
<1>7. causal \in [seen -> InvPhi2..Whole]
  <2>1. InvPhi \in InvPhi2..Whole /\ InvPhi2 \in InvPhi2..Whole
    BY DEF InvPhi, InvPhi2, Whole
  <2> HIDE DEF seen
  <2> QED BY <2>1
<1>8. FindCausalities(obs, graph) = causal
  BY DEF FindCausalities, tags
<1> HIDE DEF seen, causal
<1> QED BY <1>3, <1>5, <1>6, <1>7, <1>8 DEF Linked

-----------------------------------------------------------------------------
(* Needs: of what is named, as pressing as a natural says. *)
NeedNames == Told \cup {CompNames[i] : i \in 1..4} \cup {MetricNames[i] : i \in 1..7}
    \cup {"consolidation", "deep reflection", "improvement", "stabilization"}
Methods == {"pipeline", "introspect", "dream"}
NeedSet == [what : NeedNames, priority : Nat, method : Methods, sources : SUBSET Told]

LEMMA NeedFits ==
    ASSUME NEW what \in NeedNames, NEW p \in Nat, NEW m \in Methods, NEW src \in SUBSET Told
    PROVE  Need(what, p, m, src) \in NeedSet
BY DEF Need, NeedSet

LEMMA NeedIfFits ==
    ASSUME NEW tags \in SUBSET Told, NEW tag, NEW what \in NeedNames, NEW p \in Nat, NEW m \in Methods
    PROVE  NeedIf(tags, tag, what, p, m) \in Seq(NeedSet)
<1>1. CASE tag \in tags
  <2>1. {tag} \in SUBSET Told
    BY <1>1
  <2>2. Need(what, p, m, {tag}) \in NeedSet
    BY <2>1, NeedFits
  <2> QED BY <1>1, <2>2 DEF NeedIf
<1>2. CASE tag \notin tags
  <2>1. <<>> \in Seq(NeedSet)
    OBVIOUS
  <2> QED BY <1>2, <2>1 DEF NeedIf
<1> QED BY <1>1, <1>2

LEMMA NeedsTogether == \A a, b \in Seq(NeedSet) : a \o b \in Seq(NeedSet)
OBVIOUS

LEMMA WeightIsNat == \A c : Weight(c) \in Nat
BY ThinkerAssumption DEF Weight

LEMMA ConfidenceIsNat ==
    ASSUME NEW obs \in Seq(ObsSet), NEW tag \in Tags(obs) PROVE ConfidenceOf(obs, tag) \in Nat
<1>1. \E i \in DOMAIN obs : obs[i].tag = tag
  BY DEF Tags
<1> DEFINE i == CHOOSE k \in DOMAIN obs : obs[k].tag = tag
<1>2. i \in DOMAIN obs
  BY <1>1
<1> HIDE DEF i
<1>3. obs[i] \in ObsSet
  BY <1>2
<1>4. obs[i].conf \in Nat
  BY <1>3 DEF ObsSet
<1> QED BY <1>4 DEF ConfidenceOf, i

LEMMA MetricNeedsFit == ASSUME NEW obs \in Seq(ObsSet) PROVE MetricNeeds(obs) \in Seq(NeedSet)
<1> DEFINE One(k) ==
        IF MetricLow[k] \notin Tags(obs) THEN <<>>
        ELSE <<Need(MetricNames[k],
                    Times(ConfidenceOf(obs, MetricLow[k]), Weight(MetricComponent[k])),
                    "pipeline", {MetricLow[k]})>>
<1>1. ASSUME NEW i \in 1..7 PROVE One(i) \in Seq(NeedSet)
  <2>1. CASE MetricLow[i] \in Tags(obs)
    <3>1. MetricNames[i] \in NeedNames /\ "pipeline" \in Methods
      BY DEF NeedNames, Methods
    <3>2. {MetricLow[i]} \in SUBSET Told
      BY TagsAreTold
    <3>3. Times(ConfidenceOf(obs, MetricLow[i]), Weight(MetricComponent[i])) \in Nat
      BY <2>1, ConfidenceIsNat, WeightIsNat, TimesIsNat, Zenon
    <3>4. Need(MetricNames[i], Times(ConfidenceOf(obs, MetricLow[i]), Weight(MetricComponent[i])),
               "pipeline", {MetricLow[i]}) \in NeedSet
      BY <3>1, <3>2, <3>3, NeedFits, Zenon
    <3> QED BY <2>1, <3>4
  <2>2. CASE MetricLow[i] \notin Tags(obs)
    <3>1. <<>> \in Seq(NeedSet)
      OBVIOUS
    <3> QED BY <2>2, <3>1
  <2> QED BY <2>1, <2>2
<1>2. [i \in 1..7 |-> One(i)] \in [1..7 -> Seq(NeedSet)]
  <2> HIDE DEF One
  <2> QED BY <1>1
<1>3. MetricNeeds(obs) = FlattenSeq([i \in 1..7 |-> One(i)])
  BY Zenon DEF MetricNeeds
<1> HIDE DEF One
<1> QED BY <1>2, <1>3, FlattenedIsSeq

LEMMA WeakNeedsFit == ASSUME NEW tags \in SUBSET Told PROVE WeakNeeds(tags) \in Seq(NeedSet)
<1> DEFINE One(i) == NeedIf(tags, Weak[i], CompNames[i], Times(700, Weight(i - 1)),
                            IF i = 4 THEN "pipeline" ELSE "introspect")
<1>1. ASSUME NEW i \in 1..4 PROVE One(i) \in Seq(NeedSet)
  <2>1. CompNames[i] \in NeedNames
    BY DEF NeedNames
  <2>2. (IF i = 4 THEN "pipeline" ELSE "introspect") \in Methods
    BY DEF Methods
  <2>3. 700 \in Nat
    OBVIOUS
  <2>4. Times(700, Weight(i - 1)) \in Nat
    BY <2>3, WeightIsNat, TimesIsNat
  <2> QED BY <2>1, <2>2, <2>4, NeedIfFits
<1>2. [i \in 1..4 |-> One(i)] \in [1..4 -> Seq(NeedSet)]
  <2> HIDE DEF One
  <2> QED BY <1>1
<1>3. WeakNeeds(tags) = FlattenSeq([i \in 1..4 |-> One(i)])
  BY DEF WeakNeeds
<1> HIDE DEF One
<1> QED BY <1>2, <1>3, FlattenedIsSeq

(* A finite set in some order. *)
LEMMA SetToSeqIs ==
    ASSUME NEW S, IsFiniteSet(S)
    PROVE  Cardinality(S) \in Nat /\ SetToSeq(S) \in [1..Cardinality(S) -> S]
<1>1. Cardinality(S) \in Nat /\ ExistsBijection(1..Cardinality(S), S)
  BY FS_CardinalityType
<1>2. \E f \in [1..Cardinality(S) -> S] : IsInjective(f)
  BY <1>1 DEF ExistsBijection, Bijection, Injection
<1> QED BY <1>1, <1>2 DEF SetToSeq

LEMMA CausesFinite ==
    ASSUME NEW D, IsFiniteSet(D) PROVE IsFiniteSet({e[1] : e \in D})
<1> DEFINE T == {e[1] : e \in D}
           f == [e \in D |-> e[1]]
<1>1. f \in Surjection(D, T)
  BY DEF Surjection
<1> QED BY <1>1, FS_Surjection, Zenon

LEMMA RootNeedsFit == ASSUME NEW causal, Linked(causal) PROVE RootNeeds(causal) \in Seq(NeedSet)
<1> DEFINE S == {e[1] : e \in DOMAIN causal} \cap Negative
           edge(c) == CHOOSE e \in DOMAIN causal : e[1] = c
           One(c) == Need(c, causal[edge(c)] \div 2, "pipeline", {c, edge(c)[2]})
           n == Cardinality(S)
           q == SetToSeq(S)
<1>1. DOMAIN causal \subseteq Told \X Told /\ IsFiniteSet(DOMAIN causal)
      /\ causal \in [DOMAIN causal -> InvPhi2..Whole]
  BY Zenon DEF Linked
<1>2. IsFiniteSet(S)
  <2>1. IsFiniteSet({e[1] : e \in DOMAIN causal})
    BY <1>1, CausesFinite, Zenon
  <2>2. S \in SUBSET {e[1] : e \in DOMAIN causal}
    OBVIOUS
  <2> QED BY <2>1, <2>2, FS_Subset, Zenon
<1>3. n \in Nat /\ q \in [1..n -> S]
  <2> HIDE DEF S
  <2> QED BY <1>2, SetToSeqIs
<1>4. ASSUME NEW c \in S PROVE One(c) \in NeedSet
  <2>1. \E e \in DOMAIN causal : e[1] = c
    OBVIOUS
  <2>2. edge(c) \in DOMAIN causal /\ edge(c)[1] = c
    BY <2>1
  <2> HIDE DEF edge
  <2>3. edge(c)[1] \in Told /\ edge(c)[2] \in Told
    BY <1>1, <2>2
  <2>4. causal[edge(c)] \div 2 \in Nat
    <3>1. causal[edge(c)] \in InvPhi2..Whole
      BY <1>1, <2>2
    <3> QED BY <3>1 DEF InvPhi2, Whole
  <2>5. c \in NeedNames /\ "pipeline" \in Methods /\ {c, edge(c)[2]} \in SUBSET Told
    BY <2>2, <2>3 DEF NeedNames, Methods
  <2> QED BY <2>4, <2>5, NeedFits
<1>5. RootNeeds(causal) = [i \in 1..n |-> One(q[i])]
  BY Zenon DEF RootNeeds
<1> HIDE DEF n, q, One, S
<1>6. [i \in 1..n |-> One(q[i])] \in [1..n -> NeedSet]
  BY <1>3, <1>4
<1> QED BY <1>3, <1>5, <1>6

-----------------------------------------------------------------------------
(* Needs from the most pressing down, and the same with the slack that     *)
(* questioning leaves: none is above the golden part of one behind it.     *)
Descending(needs) ==
    \A i, j \in 1..Len(needs) : i < j => needs[j].priority <= needs[i].priority
Sorted == {needs \in Seq(NeedSet) : Descending(needs)}

LEMMA BehindSplits ==
    ASSUME NEW list \in Sorted, NEW need \in NeedSet
    PROVE  /\ Behind(list, need) \in 0..Len(list)
           /\ \A j \in 1..Len(list) :
                 j <= Behind(list, need) <=> list[j].priority >= need.priority
<1> DEFINE n == Len(list)
           p(j) == list[j].priority
           x == need.priority
           T == {k \in Nat : \A j \in 1..n : k < j => p(j) < x}
           Splits(k) == \A j \in 1..n : j <= k <=> p(j) >= x
<1>1. list \in Seq(NeedSet) /\ \A i, j \in 1..n : i < j => p(j) <= p(i)
  BY DEF Sorted, Descending
<1>2. n \in Nat /\ x \in Nat
  BY <1>1 DEF NeedSet
<1>3. \A j \in 1..n : p(j) \in Nat
  <2> TAKE j \in 1..n
  <2>1. list[j] \in NeedSet
    BY <1>1
  <2> QED BY <2>1 DEF NeedSet
<1> HIDE DEF p, x, n
<1>4. n \in T
  BY <1>2
<1>5. PICK k \in T : \A m \in T : k <= m
  <2>1. T \subseteq Nat
    OBVIOUS
  <2> HIDE DEF T
  <2> QED BY <1>4, <2>1, LeastOf
<1>6. k \in 0..n
  BY <1>2, <1>4, <1>5
<1>7. ASSUME NEW j \in 1..n PROVE j <= k <=> p(j) >= x
  <2>1. CASE k < j
    BY <1>2, <1>3, <1>6, <2>1
  <2>2. CASE ~(k < j)
    <3>1. k \in 1..n /\ k - 1 \in Nat /\ ~(k <= k - 1)
      BY <1>2, <1>6, <2>2
    <3>2. k - 1 \notin T
      <4> HIDE DEF T
      <4> QED BY <1>5, <3>1
    <3>3. PICK i \in 1..n : k - 1 < i /\ ~(p(i) < x)
      BY <3>1, <3>2
    <3>4. ~(k < i)
      BY <3>3
    <3>5. i = k
      BY <3>1, <3>3, <3>4, <1>2
    <3>6. p(k) >= x
      BY <1>2, <1>3, <3>3, <3>5
    <3>7. p(j) >= p(k)
      <4>1. CASE j = k
        BY <4>1, <1>3
      <4>2. CASE j < k
        BY <4>2, <1>1, <1>3, <3>1 DEF p, n
      <4> QED BY <2>2, <4>1, <4>2, <1>2, <3>1
    <3> QED BY <1>2, <1>3, <2>2, <3>1, <3>6, <3>7
  <2> QED BY <2>1, <2>2
<1>8. \E m \in 0..n : Splits(m)
  BY <1>6, <1>7
<1>9. Behind(list, need) = CHOOSE m \in 0..n : Splits(m)
  BY DEF Behind, n, p, x
<1> HIDE DEF Splits
<1>10. Behind(list, need) \in 0..n /\ Splits(Behind(list, need))
  BY <1>8, <1>9, Zenon
<1> QED BY <1>10 DEF Splits, n, p, x

(* What is inserted, and what was there, before and after.                 *)
LEMMA Inserting ==
    ASSUME NEW s \in Seq(NeedSet), NEW k \in 0..Len(s), NEW x \in NeedSet
    PROVE  /\ InsertAt(s, k + 1, x) \in Seq(NeedSet)
           /\ Len(InsertAt(s, k + 1, x)) = Len(s) + 1
           /\ \A j \in 1..(Len(s) + 1) :
                 InsertAt(s, k + 1, x)[j] = IF j <= k THEN s[j] ELSE IF j = k + 1 THEN x ELSE s[j - 1]
<1> DEFINE n == Len(s)
           A == SubSeq(s, 1, k)
           B == SubSeq(s, k + 1, n)
           h == InsertAt(s, k + 1, x)
<1>1. n \in Nat /\ k \in Nat /\ k <= n
  OBVIOUS
<1>2. A \in Seq(NeedSet) /\ Len(A) = k /\ \A j \in 1..k : A[j] = s[j]
  BY <1>1
<1>3. B \in Seq(NeedSet) /\ Len(B) = n - k /\ \A j \in 1..(n - k) : B[j] = s[j + k]
  BY <1>1
<1>4. h = A \o <<x>> \o B
  <2>1. (k + 1) - 1 = k
    BY <1>1
  <2> QED BY <2>1 DEF InsertAt
<1> HIDE DEF A, B, n
<1> DEFINE C == A \o <<x>>
<1>5. C \in Seq(NeedSet) /\ Len(C) = k + 1 /\ (\A j \in 1..k : C[j] = A[j]) /\ C[k + 1] = x
  BY <1>1, <1>2
<1> HIDE DEF C
<1>6. h = C \o B
  BY <1>4 DEF C
<1>7. h \in Seq(NeedSet) /\ Len(h) = n + 1
  <2>1. C \o B \in Seq(NeedSet)
    BY <1>3, <1>5, NeedsTogether
  <2>2. Len(C \o B) = Len(C) + Len(B)
    BY <1>3, <1>5
  <2>3. Len(C) + Len(B) = n + 1
    BY <1>1, <1>3, <1>5
  <2> QED BY <1>6, <2>1, <2>2, <2>3
<1>8. ASSUME NEW j \in 1..(n + 1)
      PROVE  h[j] = IF j <= k THEN s[j] ELSE IF j = k + 1 THEN x ELSE s[j - 1]
  <2>1. CASE j <= k
    <3>1. j \in 1..k
      BY <2>1
    <3>2. h[j] = C[j]
      BY <1>1, <1>3, <1>5, <1>6, <3>1
    <3> QED BY <2>1, <3>1, <3>2, <1>2, <1>5
  <2>2. CASE j = k + 1
    <3>1. h[j] = C[j]
      BY <1>1, <1>3, <1>5, <1>6, <2>2
    <3> QED BY <2>2, <3>1, <1>1, <1>5
  <2>3. CASE j > k + 1
    <3>1. j - (k + 1) \in 1..(n - k) /\ (j - (k + 1)) + k = j - 1 /\ ~(j <= k) /\ j # k + 1
      BY <2>3, <1>1
    <3>2. h[j] = B[j - (k + 1)]
      <4>1. Len(C) \in Nat /\ Len(B) \in Nat /\ j \in 1..(Len(C) + Len(B)) /\ ~(j <= Len(C))
        BY <1>1, <1>3, <1>5, <2>3
      <4>2. (C \o B)[j] = B[j - Len(C)]
        BY <1>3, <1>5, <4>1
      <4> QED BY <1>5, <1>6, <4>2
    <3> QED BY <3>1, <3>2, <1>3
  <2> QED BY <2>1, <2>2, <2>3, <1>1
<1> HIDE DEF h
<1> QED BY <1>7, <1>8 DEF h, n

LEMMA InsertKeepsOrder ==
    ASSUME NEW list \in Sorted, NEW need \in NeedSet
    PROVE  InsertAt(list, Behind(list, need) + 1, need) \in Sorted
<1> DEFINE n == Len(list)
           k == Behind(list, need)
           h == InsertAt(list, k + 1, need)
           p(j) == list[j].priority
           x == need.priority
<1>1. list \in Seq(NeedSet) /\ n \in Nat /\ \A i, j \in 1..n : i < j => p(j) <= p(i)
  BY DEF Sorted, Descending
<1>2. k \in 0..n /\ \A j \in 1..n : j <= k <=> p(j) >= x
  BY BehindSplits
<1>3. x \in Nat /\ \A j \in 1..n : p(j) \in Nat
  <2>1. x \in Nat
    BY DEF NeedSet
  <2>2. ASSUME NEW j \in 1..n PROVE p(j) \in Nat
    <3>1. list[j] \in NeedSet
      BY <1>1
    <3> QED BY <3>1 DEF NeedSet
  <2> QED BY <2>1, <2>2
<1> HIDE DEF k
<1>4. /\ h \in Seq(NeedSet) /\ Len(h) = n + 1
      /\ \A j \in 1..(n + 1) :
            h[j] = IF j <= k THEN list[j] ELSE IF j = k + 1 THEN need ELSE list[j - 1]
  BY <1>1, <1>2, Inserting
<1> HIDE DEF h, n
<1>5. \A j \in 1..(n + 1) :
         h[j].priority = IF j <= k THEN p(j) ELSE IF j = k + 1 THEN x ELSE p(j - 1)
  BY <1>4
<1> HIDE DEF p, x
<1>6. ASSUME NEW i \in 1..(n + 1), NEW j \in 1..(n + 1), i < j
      PROVE  h[j].priority <= h[i].priority
  <2> DEFINE a == IF i <= k THEN i ELSE i - 1
             b == IF j <= k THEN j ELSE j - 1
  <2>1. k \in Nat /\ k <= n /\ n \in Nat
    BY <1>1, <1>2 DEF n
  <2>2. CASE j = k + 1
    <3>1. i \in 1..n /\ i <= k /\ ~(j <= k)
      BY <2>1, <2>2, <1>6
    <3>2. h[i].priority = p(i) /\ h[j].priority = x
      BY <1>5, <2>2, <3>1
    <3> QED BY <3>1, <3>2, <1>2, <1>3
  <2>3. CASE i = k + 1
    <3>1. j - 1 \in 1..n /\ ~(j - 1 <= k) /\ ~(j <= k) /\ j # k + 1 /\ ~(i <= k)
      BY <2>1, <2>3, <1>6
    <3>2. h[i].priority = x /\ h[j].priority = p(j - 1)
      BY <1>5, <2>3, <3>1
    <3>3. ~(p(j - 1) >= x) /\ p(j - 1) \in Nat
      BY <1>2, <1>3, <3>1
    <3> QED BY <3>2, <3>3, <1>3
  <2>4. CASE i # k + 1 /\ j # k + 1
    <3>1. a \in 1..n /\ b \in 1..n /\ a < b
      BY <2>1, <2>4, <1>6
    <3>2. h[i].priority = p(a) /\ h[j].priority = p(b)
      BY <1>5, <2>4
    <3>3. p(b) <= p(a)
      BY <3>1, <1>1 DEF p, n
    <3> QED BY <3>2, <3>3
  <2> QED BY <2>2, <2>3, <2>4
<1>7. Descending(h)
  BY <1>4, <1>6 DEF Descending
<1>8. h \in Sorted
  BY <1>4, <1>7 DEF Sorted
<1> QED BY <1>8 DEF h, k

(* The sort gives needs from the most pressing down.                       *)
LEMMA PrioritizedSorted ==
    ASSUME NEW needs \in Seq(NeedSet) PROVE ByPriority(needs) \in Sorted
<1> DEFINE n == Len(needs)
           step == [i \in 1..n |-> [l \in Sorted |->
               InsertAt(l, Behind(l, needs[i]) + 1, needs[i])]]
           Sorting(g) == [i \in 0..n |->
               IF i = 0 THEN <<>>
               ELSE InsertAt(g[i - 1], Behind(g[i - 1], needs[i]) + 1, needs[i])]
<1>1. n \in Nat /\ \A i \in 1..n : needs[i] \in NeedSet
  OBVIOUS
<1>2. <<>> \in Sorted
  BY DEF Sorted, Descending
<1>3. step \in [1..n -> [Sorted -> Sorted]]
  <2> HIDE DEF n
  <2> QED BY <1>1, InsertKeepsOrder
<1>4. PICK g \in [0..n -> Sorted] : g[0] = <<>> /\ \A i \in 1..n : g[i] = step[i][g[i - 1]]
  <2> HIDE DEF step, n
  <2>1. Recursion(Sorted, n, <<>>, step)
    BY <1>1, <1>2, <1>3, Iterated
  <2> QED BY <2>1, ZenonT(60) DEF Recursion
<1>5. \A i \in 1..n : g[i] = InsertAt(g[i - 1], Behind(g[i - 1], needs[i]) + 1, needs[i])
  <2> TAKE i \in 1..n
  <2>1. i - 1 \in 0..n
    BY <1>1
  <2>2. g[i - 1] \in Sorted
    BY <2>1
  <2>3. step[i][g[i - 1]] = InsertAt(g[i - 1], Behind(g[i - 1], needs[i]) + 1, needs[i])
    BY <2>2
  <2> QED BY <1>4, <2>3
<1> HIDE DEF step
<1>6. g = Sorting(g)
  <2>1. \A i \in 0..n : g[i] = Sorting(g)[i]
    <3> TAKE i \in 0..n
    <3>1. CASE i = 0
      BY <3>1, <1>4
    <3>2. CASE i # 0
      <4>1. i \in 1..n
        BY <3>2, <1>1
      <4> QED BY <3>2, <4>1, <1>5
    <3> QED BY <3>1, <3>2
  <2>2. g = [i \in 0..n |-> g[i]]
    OBVIOUS
  <2>3. Sorting(g) = [i \in 0..n |-> Sorting(g)[i]]
    OBVIOUS
  <2> HIDE DEF Sorting, n
  <2> QED BY <2>1, <2>2, <2>3
<1> DEFINE f == CHOOSE h : h = Sorting(h)
<1>7. f = Sorting(f)
  <2> HIDE DEF Sorting
  <2> QED BY <1>6
<1>8. ByPriority(needs) = f[n]
  BY Zenon DEF ByPriority
<1> HIDE DEF f
<1>9. \A i \in 0..n : f[i] \in Sorted
  <2> DEFINE S == {i \in 0..n : f[i] \in Sorted}
  <2>1. 0 \in S
    <3>1. 0 \in 0..n
      BY <1>1
    <3>2. f[0] = <<>>
      BY <1>7, <3>1
    <3> QED BY <1>2, <3>1, <3>2
  <2>2. ASSUME NEW i \in 0..n, i \in S, i + 1 <= n PROVE i + 1 \in S
    <3>1. i + 1 \in 1..n /\ (i + 1) - 1 = i /\ i + 1 \in 0..n /\ i + 1 # 0
      BY <2>2, <1>1
    <3>2. f[i + 1] = InsertAt(f[i], Behind(f[i], needs[i + 1]) + 1, needs[i + 1])
      BY <1>7, <3>1
    <3>3. f[i] \in Sorted /\ needs[i + 1] \in NeedSet
      BY <2>2, <3>1, <1>1
    <3> HIDE DEF n
    <3> QED BY <3>1, <3>2, <3>3, InsertKeepsOrder
  <2>3. 0..n \subseteq S
    <3> HIDE DEF S, n
    <3> QED BY <1>1, <2>1, <2>2, UpTo
  <2> QED BY <2>3
<1>10. n \in 0..n
  BY <1>1
<1> HIDE DEF n
<1> QED BY <1>8, <1>9, <1>10

(* The needs a thought is founded on.                                      *)
LEMMA NeedsSorted ==
    ASSUME NEW obs \in Seq(ObsSet), NEW causal, Linked(causal)
    PROVE  IdentifyNeeds(obs, causal) \in Sorted
<1> DEFINE tags == Tags(obs)
           found ==
               MetricNeeds(obs)
               \o NeedIf(tags, "low_phase", "consolidation", 1000, "dream")
               \o NeedIf(tags, "phi_critical", "deep reflection", 1000, "dream")
               \o NeedIf(tags, "phi_low", "improvement", 800, "introspect")
               \o NeedIf(tags, "trajectory_declining", "stabilization", 900, "introspect")
               \o WeakNeeds(tags) \o RootNeeds(causal)
<1>1. tags \in SUBSET Told
  BY TagsTold
<1>2. /\ "consolidation" \in NeedNames /\ "deep reflection" \in NeedNames
      /\ "improvement" \in NeedNames /\ "stabilization" \in NeedNames
      /\ "dream" \in Methods /\ "introspect" \in Methods
  BY DEF NeedNames, Methods
<1> DEFINE a == NeedIf(tags, "low_phase", "consolidation", 1000, "dream")
           b == NeedIf(tags, "phi_critical", "deep reflection", 1000, "dream")
           c == NeedIf(tags, "phi_low", "improvement", 800, "introspect")
           d == NeedIf(tags, "trajectory_declining", "stabilization", 900, "introspect")
<1> HIDE DEF tags
<1>4. a \in Seq(NeedSet)
  <2> DEFINE tag == "low_phase"
             what == "consolidation"
             p == 1000
             method == "dream"
  <2>1. what \in NeedNames /\ method \in Methods
    BY <1>2, Zenon
  <2>3. p \in Nat
    OBVIOUS
  <2> HIDE DEF tag, what, p, method
  <2>2. NeedIf(tags, tag, what, p, method) \in Seq(NeedSet)
    BY <1>1, <2>1, <2>3, NeedIfFits
  <2> QED BY <2>2 DEF tag, what, p, method
<1>5. b \in Seq(NeedSet)
  <2> DEFINE tag == "phi_critical"
             what == "deep reflection"
             p == 1000
             method == "dream"
  <2>1. what \in NeedNames /\ method \in Methods
    BY <1>2, Zenon
  <2>3. p \in Nat
    OBVIOUS
  <2> HIDE DEF tag, what, p, method
  <2>2. NeedIf(tags, tag, what, p, method) \in Seq(NeedSet)
    BY <1>1, <2>1, <2>3, NeedIfFits
  <2> QED BY <2>2 DEF tag, what, p, method
<1>6. c \in Seq(NeedSet)
  <2> DEFINE tag == "phi_low"
             what == "improvement"
             p == 800
             method == "introspect"
  <2>1. what \in NeedNames /\ method \in Methods
    BY <1>2, Zenon
  <2>3. p \in Nat
    OBVIOUS
  <2> HIDE DEF tag, what, p, method
  <2>2. NeedIf(tags, tag, what, p, method) \in Seq(NeedSet)
    BY <1>1, <2>1, <2>3, NeedIfFits
  <2> QED BY <2>2 DEF tag, what, p, method
<1>7. d \in Seq(NeedSet)
  <2> DEFINE tag == "trajectory_declining"
             what == "stabilization"
             p == 900
             method == "introspect"
  <2>1. what \in NeedNames /\ method \in Methods
    BY <1>2, Zenon
  <2>3. p \in Nat
    OBVIOUS
  <2> HIDE DEF tag, what, p, method
  <2>2. NeedIf(tags, tag, what, p, method) \in Seq(NeedSet)
    BY <1>1, <2>1, <2>3, NeedIfFits
  <2> QED BY <2>2 DEF tag, what, p, method
<1> DEFINE m == MetricNeeds(obs)
           w == WeakNeeds(tags)
           r == RootNeeds(causal)
<1>8. m \in Seq(NeedSet) /\ w \in Seq(NeedSet) /\ r \in Seq(NeedSet)
  BY <1>1, MetricNeedsFit, WeakNeedsFit, RootNeedsFit
<1>9. found = m \o a \o b \o c \o d \o w \o r
  BY Zenon
<1>10. IdentifyNeeds(obs, causal) = ByPriority(found)
  BY Zenon DEF IdentifyNeeds, tags
<1> HIDE DEF found, a, b, c, d, m, w, r
<1>11. found \in Seq(NeedSet)
  BY <1>4, <1>5, <1>6, <1>7, <1>8, <1>9, NeedsTogether
<1> QED BY <1>10, <1>11, PrioritizedSorted

-----------------------------------------------------------------------------
(* Needs after the questioning of two of them: none is far below one behind it. *)
NearSorted(needs) ==
    \A i, j \in 1..Len(needs) : i < j => Times(InvPhi, needs[j].priority) <= needs[i].priority

CausalSet == UNION {[D -> InvPhi2..Whole] : D \in {S \in SUBSET (Told \X Told) : IsFiniteSet(S)}}
ProposalSet == [for : NeedNames, impact : Nat]
Doubts == {"blind", "no causes", "many methods", "unreliable"}
ThoughtSet == [obs : Seq(ObsSet), causal : CausalSet, needs : Seq(NeedSet),
    proposals : Seq(ProposalSet), unsure : SUBSET Doubts, depth : 0..8, conf : Int, tension : Nat]

LEMMA CausalIs == \A c : c \in CausalSet <=> Linked(c)
<1> TAKE c
<1>1. ASSUME c \in CausalSet PROVE Linked(c)
  <2>1. PICK D \in SUBSET (Told \X Told) : IsFiniteSet(D) /\ c \in [D -> InvPhi2..Whole]
    BY <1>1, Zenon DEF CausalSet
  <2>2. DOMAIN c = D
    BY <2>1
  <2> QED BY <2>1, <2>2 DEF Linked
<1>2. ASSUME Linked(c) PROVE c \in CausalSet
  BY <1>2, Zenon DEF Linked, CausalSet
<1> QED BY <1>1, <1>2

LEMMA TimesShrinks == \A a \in Nat : Times(InvPhi, a) \in Nat /\ Times(InvPhi, a) <= a
BY DEF Times, InvPhi

LEMMA TimesGrows ==
    \A a, b \in Nat : a <= b => Times(InvPhi, a) <= Times(InvPhi, b)
BY DEF Times, InvPhi

LEMMA TimesQuestioned == \A a \in Nat : Times(a, 1000 - InvPhi2) = Times(InvPhi, a)
BY DEF Times, InvPhi, InvPhi2

LEMMA SortedIsNear == ASSUME NEW needs \in Sorted PROVE needs \in Seq(NeedSet) /\ NearSorted(needs)
<1>1. needs \in Seq(NeedSet) /\ Descending(needs)
  BY DEF Sorted
<1>2. \A i \in 1..Len(needs) : needs[i].priority \in Nat
  <2> TAKE i \in 1..Len(needs)
  <2>1. needs[i] \in NeedSet
    BY <1>1
  <2> QED BY <2>1 DEF NeedSet
<1>3. ASSUME NEW i \in 1..Len(needs), NEW j \in 1..Len(needs), i < j
      PROVE  Times(InvPhi, needs[j].priority) <= needs[i].priority
  <2> DEFINE a == needs[j].priority
             b == needs[i].priority
  <2>1. a \in Nat /\ b \in Nat /\ a <= b
    BY <1>1, <1>2, <1>3 DEF Descending
  <2> HIDE DEF a, b
  <2>2. Times(InvPhi, a) \in Nat /\ Times(InvPhi, a) <= a
    BY <2>1, TimesShrinks
  <2>3. Times(InvPhi, a) <= b
    BY <2>1, <2>2
  <2> QED BY <2>3 DEF a, b
<1> QED BY <1>1, <1>3 DEF NearSorted

LEMMA ProposalsFit ==
    ASSUME NEW needs \in Seq(NeedSet) PROVE GenerateProposals(needs) \in Seq(ProposalSet)
<1> DEFINE Impact(i) ==
        Times(needs[i].priority, IF needs[i].method = "dream" THEN InvPhi3 ELSE InvPhi2)
           n == Len(needs)
<1>1. n \in Nat /\ DOMAIN needs = 1..n
  OBVIOUS
<1>2. ASSUME NEW i \in 1..n PROVE needs[i].what \in NeedNames /\ Impact(i) \in Nat
  <2>1. needs[i] \in NeedSet
    OBVIOUS
  <2>2. needs[i].what \in NeedNames /\ needs[i].priority \in Nat
    BY <2>1 DEF NeedSet
  <2>3. InvPhi3 \in Nat /\ InvPhi2 \in Nat
    BY DEF InvPhi3, InvPhi2
  <2> QED BY <2>2, <2>3, TimesIsNat
<1> HIDE DEF n, Impact
<1>3. \A i \in 1..n : [for |-> needs[i].what, impact |-> Impact(i)] \in ProposalSet
  BY <1>2 DEF ProposalSet
<1>4. GenerateProposals(needs) = [i \in 1..n |-> [for |-> needs[i].what, impact |-> Impact(i)]]
  BY <1>1, Zenon DEF GenerateProposals, Impact
<1> QED BY <1>1, <1>3, <1>4

LEMMA ThoughtParts ==
    ASSUME NEW t \in ThoughtSet
    PROVE  /\ t.obs \in Seq(ObsSet) /\ t.causal \in CausalSet /\ t.needs \in Seq(NeedSet)
           /\ t.proposals \in Seq(ProposalSet) /\ t.unsure \in SUBSET Doubts
           /\ t.depth \in 0..8 /\ t.conf \in Int /\ t.tension \in Nat
BY DEF ThoughtSet

LEMMA ThoughtWith ==
    ASSUME NEW t \in ThoughtSet
    PROVE  /\ \A x \in Int : [t EXCEPT !.conf = x] \in ThoughtSet
           /\ \A x \in Seq(ObsSet) : [t EXCEPT !.obs = x] \in ThoughtSet
           /\ \A x \in Seq(ObsSet) : [[t EXCEPT !.obs = x] EXCEPT !.obs = t.obs] = t
           /\ \A x \in SUBSET Doubts, y \in Nat :
                 [t EXCEPT !.unsure = x, !.tension = y] \in ThoughtSet
BY DEF ThoughtSet

LEMMA BlankIsThought == Blank \in ThoughtSet
<1>1. Linked(<<>>)
  <2>1. DOMAIN <<>> = {}
    OBVIOUS
  <2>2. IsFiniteSet({})
    BY FS_EmptySet
  <2>3. <<>> \in [{} -> InvPhi2..Whole]
    OBVIOUS
  <2> QED BY <2>1, <2>2, <2>3 DEF Linked
<1>2. <<>> \in CausalSet
  BY <1>1, CausalIs
<1> QED BY <1>2 DEF Blank, ThoughtSet

(* What a thought is founded on.                                           *)
LEMMA FoundFits ==
    ASSUME NEW s, Sane(s)
    PROVE  /\ Found(s) \in ThoughtSet /\ Found(s).depth = 5
           /\ Descending(Found(s).needs)
<1> DEFINE obs == Observe(s)
           causal == FindCausalities(obs, s.graph)
           needs == IdentifyNeeds(obs, causal)
           proposals == GenerateProposals(needs)
<1>1. obs \in Seq(ObsSet)
  BY ObservedFit
<1> HIDE DEF obs
<1>2. DOMAIN s.graph \subseteq Told \X Told /\ IsFiniteSet(DOMAIN s.graph)
  BY Zenon DEF Sane
<1>3. Linked(causal)
  BY <1>1, <1>2, CausesLinked
<1>4. causal \in CausalSet
  BY <1>3, CausalIs
<1> HIDE DEF causal
<1>5. needs \in Sorted
  BY <1>1, <1>3, NeedsSorted
<1> HIDE DEF needs
<1>6. needs \in Seq(NeedSet) /\ Descending(needs)
  BY <1>5 DEF Sorted
<1>7. proposals \in Seq(ProposalSet)
  BY <1>6, ProposalsFit
<1> HIDE DEF proposals
<1>8. Found(s) = [obs |-> obs, causal |-> causal, needs |-> needs, proposals |-> proposals,
                  unsure |-> {}, depth |-> 5, conf |-> 0, tension |-> 0]
  BY Zenon DEF Found, obs, causal, needs, proposals
<1>9. Found(s) \in ThoughtSet
  BY <1>1, <1>4, <1>6, <1>7, <1>8 DEF ThoughtSet
<1> QED BY <1>6, <1>8, <1>9

-----------------------------------------------------------------------------
Chained(t) == {<<"causal_chain", c>> : c \in Chains(t)}

(* What the angles of the fifth to the seventh iteration may find.         *)
LEMMA InsightsAre ==
    ASSUME NEW t, NEW i \in 5..7, NEW mode, NEW x \in Insights(t, i, mode)
    PROVE  /\ x # <<"meta", "imbalance">>
           /\ x[1] = "causal_chain" => i = 6 /\ x \in Chained(t)
           /\ \A n : x = <<"counterfactual", n>> => i = 5
<1>1. x \in Deepen(t, i) \/ x = <<"meta", "creative">>
  BY DEF Insights
<1>2. CASE x = <<"meta", "creative">>
  BY <1>2
<1>3. CASE x \in Deepen(t, i)
  <2>1. CASE i = 5
    <3>1. i % 4 = 1
      BY <2>1
    <3>2. x \in {<<"counterfactual", n>> : n \in Questions(t)} \cup {<<"weak", e>> : e \in WeakLinks(t)}
      BY <1>3, <3>1 DEF Deepen
    <3> QED BY <2>1, <3>2
  <2>2. CASE i = 6
    <3>1. i % 4 = 2
      BY <2>2
    <3>2. x \in Chained(t)
      BY <1>3, <3>1 DEF Deepen, Chained
    <3>3. \E c : x = <<"causal_chain", c>>
      BY <3>2 DEF Chained
    <3> QED BY <2>2, <3>2, <3>3
  <2>3. CASE i = 7
    <3>1. i % 4 = 3
      BY <2>3
    <3>2. x \in {<<"connection", c>> : c \in Connections(t)}
      BY <1>3, <3>1 DEF Deepen
    <3> QED BY <3>2
  <2> QED BY <2>1, <2>2, <2>3
<1> QED BY <1>1, <1>2, <1>3

LEMMA ChainedFinite == ASSUME NEW t, IsFiniteSet(DOMAIN t.causal) PROVE IsFiniteSet(Chained(t))
<1> DEFINE D == DOMAIN t.causal
           f == [c \in Chains(t) |-> <<"causal_chain", c>>]
<1>1. IsFiniteSet(D \X D)
  BY FS_Product
<1>2. Chains(t) \in SUBSET (D \X D)
  BY DEF Chains
<1>3. IsFiniteSet(Chains(t))
  BY <1>1, <1>2, FS_Subset, Zenon
<1>4. f \in Surjection(Chains(t), Chained(t))
  BY DEF Surjection, Chained
<1> QED BY <1>3, <1>4, FS_Surjection, Zenon

(* Which of the insights strengthen a link. *)
Through(insights, e) ==
    {x \in insights : /\ x[1] = "causal_chain"
                      /\ {e[1], e[2]} \subseteq {x[2][1][1], x[2][1][2], x[2][2][2]}}

(* The needs and the links an iteration leaves. *)
NeedsAfter(t, insights) == [n \in DOMAIN t.needs |->
    IF <<"counterfactual", n>> \in insights
    THEN [t.needs[n] EXCEPT !.priority = Times(@, 1000 - InvPhi2)] ELSE t.needs[n]]
CausalAfter(t, insights) == [e \in DOMAIN t.causal |->
    AtMost(1000, t.causal[e] + 191 * Cardinality(Through(insights, e)))]

LEMMA IntegratedIs ==
    ASSUME NEW t \in ThoughtSet, NEW insights, <<"meta", "imbalance">> \notin insights,
           NEW needs, needs = NeedsAfter(t, insights),
           NEW causal, causal = CausalAfter(t, insights)
    PROVE  IntegrateInsights(t, insights) =
              [obs |-> t.obs, causal |-> causal, needs |-> needs, proposals |-> t.proposals,
               unsure |-> t.unsure, depth |-> t.depth, conf |-> t.conf, tension |-> t.tension]
<1>1. t.unsure \cup {"imbalance" : x \in insights \cap {<<"meta", "imbalance">>}} = t.unsure
  OBVIOUS
<1>2. IntegrateInsights(t, insights) =
        [t EXCEPT !.needs = needs, !.causal = causal,
                  !.unsure = @ \cup {"imbalance" : x \in insights \cap {<<"meta", "imbalance">>}}]
  BY Zenon DEF IntegrateInsights, NeedsAfter, CausalAfter, Through
<1>3. IntegrateInsights(t, insights) =
        [t EXCEPT !.needs = needs, !.causal = causal, !.unsure = t.unsure]
  BY <1>1, <1>2
<1> HIDE DEF IntegrateInsights
<1> QED BY <1>3 DEF ThoughtSet

(* The links of a thought, made stronger or left as they are. *)
LEMMA CausalAfterFits ==
    ASSUME NEW t \in ThoughtSet, NEW i \in 5..7, NEW mode
    PROVE  /\ CausalAfter(t, Insights(t, i, mode)) \in CausalSet
           /\ i # 6 => CausalAfter(t, Insights(t, i, mode)) = t.causal
<1> DEFINE insights == Insights(t, i, mode)
           D == DOMAIN t.causal
           after == CausalAfter(t, insights)
           card(e) == Cardinality(Through(insights, e))
<1>1. Linked(t.causal)
  BY ThoughtParts, CausalIs
<1>2. D \subseteq Told \X Told /\ IsFiniteSet(D) /\ t.causal \in [D -> InvPhi2..Whole]
  BY <1>1, Zenon DEF Linked
<1>3. IsFiniteSet(Chained(t))
  BY <1>2, ChainedFinite
<1>4. ASSUME NEW e \in D
      PROVE  card(e) \in Nat /\ (i # 6 => card(e) = 0)
  <2>1. \A x \in Through(insights, e) : i = 6 /\ x \in Chained(t)
    <3> TAKE x \in Through(insights, e)
    <3>1. x \in insights /\ x[1] = "causal_chain"
      BY Zenon DEF Through
    <3> QED BY <3>1, InsightsAre
  <2> HIDE DEF insights
  <2>2. Through(insights, e) \in SUBSET Chained(t)
    BY <2>1
  <2>3. IsFiniteSet(Through(insights, e))
    BY <1>3, <2>2, FS_Subset, Zenon
  <2>4. i # 6 => Through(insights, e) = {}
    BY <2>1
  <2> QED BY <2>3, <2>4, FS_CardinalityType, FS_EmptySet
<1> HIDE DEF card, D
<1>5. after = [e \in D |-> AtMost(1000, t.causal[e] + 191 * card(e))]
  BY Zenon DEF CausalAfter, card, D
<1>6. ASSUME NEW e \in D
      PROVE  /\ AtMost(1000, t.causal[e] + 191 * card(e)) \in InvPhi2..Whole
             /\ i # 6 => AtMost(1000, t.causal[e] + 191 * card(e)) = t.causal[e]
  <2> DEFINE a == t.causal[e]
             c == card(e)
  <2>1. a \in InvPhi2..Whole /\ c \in Nat /\ (i # 6 => c = 0)
    BY <1>2, <1>4
  <2> HIDE DEF a, c
  <2>2. AtMost(1000, a + 191 * c) \in InvPhi2..Whole
    BY <2>1, SMT DEF AtMost, InvPhi2, Whole
  <2>3. i # 6 => AtMost(1000, a + 191 * c) = a
    BY <2>1, SMT DEF AtMost, InvPhi2, Whole
  <2> QED BY <2>2, <2>3 DEF a, c
<1> HIDE DEF after
<1>7. after \in [D -> InvPhi2..Whole]
  BY <1>5, <1>6
<1>8. i # 6 => after = t.causal
  <2> SUFFICES ASSUME i # 6 PROVE after = t.causal
    OBVIOUS
  <2>1. \A e \in D : after[e] = t.causal[e]
    BY <1>5, <1>6
  <2>2. after = [e \in D |-> after[e]] /\ t.causal = [e \in D |-> t.causal[e]]
    BY <1>2, <1>7
  <2> QED BY <2>1, <2>2
<1>9. Linked(after)
  <2>1. DOMAIN after = D
    BY <1>7
  <2> QED BY <2>1, <1>2, <1>7 DEF Linked
<1> QED BY <1>8, <1>9, CausalIs DEF after

(* The needs of a thought, questioned or left as they are. *)
LEMMA NeedsAfterFit ==
    ASSUME NEW t \in ThoughtSet, NEW i \in 5..7, NEW mode, NearSorted(t.needs),
           i = 5 => Descending(t.needs)
    PROVE  /\ NeedsAfter(t, Insights(t, i, mode)) \in Seq(NeedSet)
           /\ NearSorted(NeedsAfter(t, Insights(t, i, mode)))
           /\ i # 5 => NeedsAfter(t, Insights(t, i, mode)) = t.needs
<1> DEFINE insights == Insights(t, i, mode)
           n == Len(t.needs)
           after == NeedsAfter(t, insights)
           doubted(k) == <<"counterfactual", k>> \in insights
           p(k) == t.needs[k].priority
<1>1. t.needs \in Seq(NeedSet)
  BY ThoughtParts
<1>2. n \in Nat /\ DOMAIN t.needs = 1..n /\ \A k \in 1..n : t.needs[k] \in NeedSet
  BY <1>1
<1>3. \A k \in 1..n : p(k) \in Nat
  BY <1>2 DEF NeedSet
<1>4. \A k : doubted(k) => i = 5
  BY InsightsAre
<1>5. after = [k \in 1..n |->
         IF doubted(k) THEN [t.needs[k] EXCEPT !.priority = Times(@, 1000 - InvPhi2)] ELSE t.needs[k]]
  BY <1>2, Zenon DEF NeedsAfter
<1> HIDE DEF insights, doubted, after
<1>6. ASSUME NEW k \in 1..n
      PROVE  /\ after[k] \in NeedSet
             /\ after[k].priority = IF doubted(k) THEN Times(InvPhi, p(k)) ELSE p(k)
  <2>1. Times(p(k), 1000 - InvPhi2) = Times(InvPhi, p(k)) /\ Times(InvPhi, p(k)) \in Nat
    <3> DEFINE q == p(k)
    <3>1. q \in Nat
      BY <1>3
    <3> HIDE DEF q
    <3>2. Times(q, 1000 - InvPhi2) = Times(InvPhi, q) /\ Times(InvPhi, q) \in Nat
      BY <3>1, TimesQuestioned, TimesShrinks
    <3> QED BY <3>2 DEF q
  <2>2. t.needs[k] \in NeedSet
    BY <1>2
  <2>3. CASE doubted(k)
    <3> DEFINE q == Times(p(k), 1000 - InvPhi2)
    <3>1. after[k] = [t.needs[k] EXCEPT !.priority = q]
      BY <1>5, <2>3
    <3>2. q \in Nat /\ q = Times(InvPhi, p(k))
      BY <2>1
    <3> HIDE DEF q
    <3>3. after[k] \in NeedSet /\ after[k].priority = q
      BY <2>2, <3>1, <3>2 DEF NeedSet
    <3> QED BY <2>3, <3>2, <3>3
  <2>4. CASE ~doubted(k)
    BY <1>5, <2>2, <2>4
  <2> QED BY <2>3, <2>4
<1>7. after \in Seq(NeedSet) /\ Len(after) = n
  <2>1. after \in [1..n -> NeedSet]
    BY <1>5, <1>6
  <2> QED BY <1>2, <2>1
<1>8. i # 5 => after = t.needs
  <2> SUFFICES ASSUME i # 5 PROVE after = t.needs
    OBVIOUS
  <2>1. after = [k \in 1..n |-> t.needs[k]]
    BY <1>4, <1>5
  <2>2. t.needs = [k \in 1..n |-> t.needs[k]]
    BY <1>1
  <2> QED BY <2>1, <2>2
<1>9. NearSorted(after)
  <2>1. CASE i # 5
    BY <1>8, <2>1
  <2>2. CASE i = 5
    <3> SUFFICES ASSUME NEW j \in 1..n, NEW k \in 1..n, j < k
                 PROVE  Times(InvPhi, after[k].priority) <= after[j].priority
      BY <1>7 DEF NearSorted
    <3> DEFINE a == p(k)
               b == p(j)
               c == after[k].priority
               d == after[j].priority
    <3>1. a \in Nat /\ b \in Nat /\ a <= b
      BY <2>2, <1>3 DEF Descending
    <3>2. c \in {a, Times(InvPhi, a)} /\ d \in {b, Times(InvPhi, b)}
      BY <1>6
    <3> HIDE DEF a, b, c, d
    <3>3. /\ Times(InvPhi, a) \in Nat /\ Times(InvPhi, a) <= a
          /\ Times(InvPhi, b) \in Nat /\ Times(InvPhi, b) <= b
          /\ Times(InvPhi, a) <= Times(InvPhi, b)
      BY <3>1, TimesShrinks, TimesGrows
    <3>4. c \in Nat /\ c <= a /\ d >= Times(InvPhi, b)
      BY <3>1, <3>2, <3>3
    <3>5. Times(InvPhi, c) <= Times(InvPhi, a) /\ Times(InvPhi, c) \in Nat /\ d \in Nat
      BY <3>1, <3>2, <3>3, <3>4, TimesGrows, TimesShrinks
    <3>6. Times(InvPhi, c) <= d
      BY <3>3, <3>4, <3>5
    <3> QED BY <3>6 DEF c, d
  <2> QED BY <2>1, <2>2
<1> QED BY <1>7, <1>8, <1>9 DEF after, insights

(* One iteration, and the need a thought is summed up by.                  *)
LEMMA DeeperFits ==
    ASSUME NEW t \in ThoughtSet, NEW i \in 5..7, NEW mode, t.depth = i, NearSorted(t.needs),
           i = 5 => Descending(t.needs), NEW c \in Int
    PROVE  LET deeper == IntegrateInsights(t, Insights(t, i, mode))
               after == [deeper EXCEPT !.depth = @ + 1, !.conf = c]
           IN  /\ after \in ThoughtSet /\ after.depth = i + 1 /\ after.conf = c
               /\ NearSorted(after.needs)
               /\ i = 7 => Vectors(deeper) = Vectors(t)
<1> DEFINE insights == Insights(t, i, mode)
           needs == NeedsAfter(t, insights)
           causal == CausalAfter(t, insights)
           deeper == IntegrateInsights(t, insights)
           after == [deeper EXCEPT !.depth = @ + 1, !.conf = c]
<1>1. <<"meta", "imbalance">> \notin insights
  BY InsightsAre
<1>2. needs \in Seq(NeedSet) /\ NearSorted(needs) /\ (i # 5 => needs = t.needs)
  BY NeedsAfterFit
<1>3. causal \in CausalSet /\ (i # 6 => causal = t.causal)
  BY CausalAfterFits
<1> HIDE DEF insights
<1>4. deeper = [obs |-> t.obs, causal |-> causal, needs |-> needs, proposals |-> t.proposals,
               unsure |-> t.unsure, depth |-> i, conf |-> t.conf, tension |-> t.tension]
  BY <1>1, IntegratedIs
<1> HIDE DEF deeper, needs, causal
<1>5. after = [obs |-> t.obs, causal |-> causal, needs |-> needs, proposals |-> t.proposals,
               unsure |-> t.unsure, depth |-> i + 1, conf |-> c, tension |-> t.tension]
  <2>1. after = [deeper EXCEPT !.depth = i + 1, !.conf = c]
    <3>1. deeper.depth = i
      BY <1>4
    <3> QED BY <3>1
  <2> HIDE DEF after
  <2> QED BY <1>4, <2>1
<1> HIDE DEF after
<1>6. after \in ThoughtSet /\ after.depth = i + 1 /\ after.conf = c /\ after.needs = needs
  BY <1>2, <1>3, <1>5, ThoughtParts DEF ThoughtSet
<1>7. i = 7 => Vectors(deeper) = Vectors(t)
  BY <1>2, <1>3, <1>4 DEF Vectors
<1> QED BY <1>2, <1>6, <1>7 DEF after, deeper, insights

NearTop(t) ==
    t.tension # 0 => \A i \in Backed(t) :
        t.needs[t.tension].priority >= Times(InvPhi, t.needs[i].priority)

LEMMA SynthesizedFits ==
    ASSUME NEW t \in ThoughtSet, NearSorted(t.needs)
    PROVE  Synthesize(t) \in ThoughtSet /\ NearTop(Synthesize(t))
<1> DEFINE u == Uncertainties(t)
           k == SelectTension(t)
           n == Len(t.needs)
<1>1. t.needs \in Seq(NeedSet) /\ t.unsure \in SUBSET Doubts
  BY ThoughtParts
<1>2. n \in Nat /\ DOMAIN t.needs = 1..n
  BY <1>1
<1>3. u \in SUBSET Doubts
  BY <1>1 DEF Uncertainties, Doubts
<1>4. Backed(t) \subseteq 1..n
  BY <1>2 DEF Backed
<1>5. k \in Nat /\ (Backed(t) # {} /\ t.needs # <<>> =>
                       k \in Backed(t) /\ \A j \in Backed(t) : k <= j)
  <2>1. CASE t.needs = <<>> \/ Backed(t) = {}
    BY <2>1 DEF SelectTension
  <2>2. CASE t.needs # <<>> /\ Backed(t) # {}
    <3>1. PICK m \in Backed(t) : \A j \in Backed(t) : m <= j
      <4>1. Backed(t) \subseteq Nat
        BY <1>4
      <4> QED BY <2>2, <4>1, LeastOf
    <3>2. k = CHOOSE i \in Backed(t) : \A j \in Backed(t) : i <= j
      BY <2>2, Zenon DEF SelectTension
    <3>3. k \in Backed(t) /\ \A j \in Backed(t) : k <= j
      BY <3>1, <3>2
    <3> HIDE DEF k
    <3> QED BY <1>4, <3>3
  <2> QED BY <2>1, <2>2
<1> HIDE DEF u, k
<1>6. Synthesize(t) = [t EXCEPT !.unsure = u, !.tension = k]
  BY Zenon DEF Synthesize, u, k
<1>7. Synthesize(t) \in ThoughtSet
  BY <1>3, <1>5, <1>6 DEF ThoughtSet
<1> DEFINE v == Synthesize(t)
<1>8. v.needs = t.needs /\ v.causal = t.causal /\ v.tension = k
  BY <1>6 DEF ThoughtSet
<1> HIDE DEF v
<1>9. Backed(v) = Backed(t)
  BY <1>8 DEF Backed
<1>10. ASSUME NEW i \in Backed(t)
       PROVE  t.needs[k].priority >= Times(InvPhi, t.needs[i].priority)
  <2>1. i \in 1..n /\ t.needs # <<>> /\ Backed(t) # {}
    BY <1>1, <1>4
  <2>2. k \in Backed(t) /\ k <= i
    BY <1>5, <2>1
  <2>3. k \in 1..n
    BY <1>4, <2>2
  <2>4. t.needs[k] \in NeedSet /\ t.needs[i] \in NeedSet
    BY <1>1, <2>1, <2>3
  <2>5. t.needs[k].priority \in Nat /\ t.needs[i].priority \in Nat
    BY <2>4 DEF NeedSet
  <2>6. Times(InvPhi, t.needs[i].priority) \in Nat
    BY <2>5, TimesShrinks
  <2>7. CASE k < i
    BY <2>1, <2>3, <2>5, <2>6, <2>7 DEF NearSorted
  <2>8. CASE k = i
    BY <2>5, <2>8, TimesShrinks
  <2> QED BY <2>1, <2>2, <2>3, <2>7, <2>8
<1> QED BY <1>7, <1>8, <1>9, <1>10 DEF NearTop, v

-----------------------------------------------------------------------------
(* What is never negative adds up to nothing negative. *)
LEMMA SumIsNat == ASSUME NEW s \in Seq(Nat) PROVE SumOfAll(s) \in Nat
<1> DEFINE n == Len(s)
           P == PartialSums(s)
           S == {i \in 0..n : P[i] >= 0}
<1>1. n \in Nat /\ s \in Seq(Int) /\ \A i \in 1..n : s[i] \in Int /\ s[i] >= 0
  OBVIOUS
<1>2. P \in [0..n -> Int] /\ P[0] = 0 /\ \A i \in 1..n : P[i] = P[i - 1] + s[i]
  BY <1>1, PartialSumsAre, ZenonT(60)
<1> HIDE DEF P
<1>3. 0 \in S
  BY <1>1, <1>2
<1>4. ASSUME NEW i \in 0..n, i \in S, i + 1 <= n PROVE i + 1 \in S
  <2>1. i + 1 \in 1..n /\ (i + 1) - 1 = i /\ i + 1 \in 0..n
    BY <1>1, <1>4
  <2>2. P[i + 1] = P[i] + s[i + 1] /\ s[i + 1] \in Int /\ s[i + 1] >= 0
    <3> HIDE DEF n
    <3> QED BY <1>1, <1>2, <2>1
  <2>3. P[i] \in Int /\ P[i] >= 0
    BY <1>2, <1>4
  <2>4. P[i + 1] >= 0
    <3> HIDE DEF n
    <3> QED BY <2>2, <2>3
  <2> QED BY <2>1, <2>4
<1>5. 0..n \subseteq S
  <2> HIDE DEF S, n
  <2> QED BY <1>1, <1>3, <1>4, UpTo
<1>6. P[n] \in Int /\ P[n] >= 0
  BY <1>1, <1>2, <1>5
<1> QED BY <1>6 DEF SumOfAll, P

LEMMA RowSumIsNat ==
    ASSUME NEW n \in Nat, NEW row \in [1..n -> Nat] PROVE SumOfAll(row) \in Nat
<1>1. row \in Seq(Nat)
  OBVIOUS
<1> QED BY <1>1, SumIsNat

LEMMA ObservationDeltaIsNat ==
    ASSUME NEW obs \in Seq(ObsSet), NEW c PROVE ObservationDelta(obs, c) \in Nat
<1> DEFINE One(i) == IF obs[i].comp = c THEN Times(obs[i].conf, ObsWeight) ELSE 0
           n == Len(obs)
<1>1. n \in Nat /\ DOMAIN obs = 1..n
  OBVIOUS
<1>2. ASSUME NEW i \in 1..n PROVE One(i) \in Nat
  <2>1. obs[i] \in ObsSet
    OBVIOUS
  <2>2. obs[i].conf \in Nat /\ ObsWeight \in Nat
    BY <2>1 DEF ObsSet, ObsWeight, InvPhi2
  <2>3. Times(obs[i].conf, ObsWeight) \in Nat
    BY <2>2, TimesIsNat, Zenon
  <2> QED BY <2>3
<1>3. ObservationDelta(obs, c) = SumOfAll([i \in 1..n |-> One(i)])
  BY <1>1, Zenon DEF ObservationDelta
<1> HIDE DEF One, n
<1>4. [i \in 1..n |-> One(i)] \in [1..n -> Nat]
  BY <1>2
<1> QED BY <1>1, <1>3, <1>4, RowSumIsNat

LEMMA WeightsAreNat == ObsWeight \in Nat /\ InvPhi3 \in Nat /\ InvPhi2 \in Nat
BY DEF ObsWeight, InvPhi2, InvPhi3

LEMMA ReflexionDelta ==
    ASSUME NEW t \in ThoughtSet
    PROVE  \E d \in Nat : ThoughtDelta(t, FALSE, 1) = InvPhi2 + d
<1> DEFINE D == DOMAIN t.causal
           q == SetToSeq(D)
           n == Cardinality(D)
           One(i) == Times(Times(t.causal[q[i]], ObsWeight), InvPhi3)
<1>1. Linked(t.causal)
  BY ThoughtParts, CausalIs
<1>2. IsFiniteSet(D) /\ t.causal \in [D -> InvPhi2..Whole]
  BY <1>1, Zenon DEF Linked
<1>3. n \in Nat /\ q \in [1..n -> D]
  <2> HIDE DEF D
  <2> QED BY <1>2, SetToSeqIs
<1>4. ThoughtDelta(t, FALSE, 1) = InvPhi2 + SumOfAll([i \in DOMAIN q |-> One(i)])
  BY DEF ThoughtDelta
<1>5. DOMAIN q = 1..n
  BY <1>3
<1>6. ASSUME NEW i \in 1..n PROVE One(i) \in Nat
  <2>1. q[i] \in D
    BY <1>3
  <2>2. t.causal[q[i]] \in InvPhi2..Whole
    BY <1>2, <2>1
  <2>3. t.causal[q[i]] \in Nat
    BY <2>2 DEF InvPhi2, Whole
  <2> QED BY <2>3, WeightsAreNat, TimesIsNat, Zenon
<1> HIDE DEF D, q, n, One
<1>7. [i \in 1..n |-> One(i)] \in [1..n -> Nat]
  BY <1>6
<1>8. SumOfAll([i \in 1..n |-> One(i)]) \in Nat
  BY <1>3, <1>7, RowSumIsNat
<1> QED BY <1>4, <1>5, <1>8

LEMMA IntegrationDelta ==
    ASSUME NEW t \in ThoughtSet PROVE ThoughtDelta(t, FALSE, 2) \in Nat
<1> DEFINE One(i) == Times(Times(t.needs[i].priority, ObsWeight), InvPhi3)
           n == Len(t.needs)
<1>1. t.needs \in Seq(NeedSet)
  BY ThoughtParts
<1>2. n \in Nat /\ DOMAIN t.needs = 1..n
  BY <1>1
<1>3. ASSUME NEW i \in 1..n PROVE One(i) \in Nat
  <2>1. t.needs[i] \in NeedSet
    BY <1>1
  <2>2. t.needs[i].priority \in Nat
    BY <2>1 DEF NeedSet
  <2> QED BY <2>2, WeightsAreNat, TimesIsNat, Zenon
<1>4. ThoughtDelta(t, FALSE, 2) = SumOfAll([i \in DOMAIN t.needs |-> One(i)])
  BY DEF ThoughtDelta
<1> HIDE DEF One, n
<1>5. [i \in 1..n |-> One(i)] \in [1..n -> Nat]
  BY <1>3
<1> QED BY <1>2, <1>4, <1>5, RowSumIsNat

LEMMA ExpressionDelta ==
    ASSUME NEW t \in ThoughtSet PROVE ThoughtDelta(t, FALSE, 3) \in Nat
<1> DEFINE One(i) == Times(Times(AtMost(t.proposals[i].impact, 1000), ObsWeight), InvPhi2)
           n == Len(t.proposals)
<1>1. t.proposals \in Seq(ProposalSet)
  BY ThoughtParts
<1>2. n \in Nat /\ DOMAIN t.proposals = 1..n
  BY <1>1
<1>3. ASSUME NEW i \in 1..n PROVE One(i) \in Nat
  <2> DEFINE a == AtMost(t.proposals[i].impact, 1000)
  <2>1. t.proposals[i] \in ProposalSet
    BY <1>1
  <2>2. t.proposals[i].impact \in Nat
    BY <2>1 DEF ProposalSet
  <2>3. a \in Nat
    BY <2>2 DEF AtMost
  <2> HIDE DEF a
  <2>4. Times(Times(a, ObsWeight), InvPhi2) \in Nat
    BY <2>3, WeightsAreNat, TimesIsNat, Zenon
  <2> QED BY <2>4 DEF a
<1>4. ThoughtDelta(t, FALSE, 3) = SumOfAll([i \in DOMAIN t.proposals |-> One(i)]) + 0
  BY DEF ThoughtDelta
<1> HIDE DEF One, n
<1>5. [i \in 1..n |-> One(i)] \in [1..n -> Nat]
  BY <1>3
<1>6. SumOfAll([i \in 1..n |-> One(i)]) \in Nat
  BY <1>2, <1>5, RowSumIsNat
<1> DEFINE sum == SumOfAll([i \in 1..n |-> One(i)])
<1>7. ThoughtDelta(t, FALSE, 3) = sum + 0 /\ sum \in Nat
  BY <1>2, <1>4, <1>6
<1>8. sum + 0 \in Nat
  BY <1>7
<1> HIDE DEF sum
<1> QED BY <1>7, <1>8, Zenon

(* A turn always has deltas of its own: it reflects, if only a little.     *)
LEMMA ReactedIsSome ==
    ASSUME NEW t \in ThoughtSet
    PROVE  React(t, FALSE) \in [1..4 -> Nat] /\ React(t, FALSE)[2] >= InvPhi2
<1> DEFINE o(c) == ObservationDelta(t.obs, c)
           d(c) == ThoughtDelta(t, FALSE, c)
           r == React(t, FALSE)
<1>1. \A c : o(c) \in Nat
  BY ThoughtParts, ObservationDeltaIsNat
<1>2. d(0) = 0
  BY DEF ThoughtDelta
<1>3. d(2) \in Nat /\ d(3) \in Nat
  BY IntegrationDelta, ExpressionDelta
<1>4. PICK e \in Nat : d(1) = InvPhi2 + e
  BY ReflexionDelta
<1>5. r = [i \in 1..4 |-> AtMost(DeltaClamp, o(i - 1) + d(i - 1))]
  BY Zenon DEF React
<1> HIDE DEF o, d, r
<1>6. \A c \in 0..3 : d(c) \in Nat
  BY <1>2, <1>3, <1>4 DEF InvPhi2
<1>7. ASSUME NEW i \in 1..4 PROVE r[i] \in Nat
  <2>1. i - 1 \in 0..3
    OBVIOUS
  <2>2. r[i] = AtMost(DeltaClamp, o(i - 1) + d(i - 1))
    BY <1>5
  <2>3. o(i - 1) \in Nat /\ d(i - 1) \in Nat
    BY <1>1, <1>6, <2>1
  <2> QED BY <2>2, <2>3 DEF AtMost, DeltaClamp, InvPhi
<1>8. r[2] >= InvPhi2
  <2>1. r[2] = AtMost(DeltaClamp, o(1) + d(1))
    BY <1>5
  <2>2. o(1) \in Nat
    BY <1>1
  <2> QED BY <1>4, <2>1, <2>2 DEF AtMost, DeltaClamp, InvPhi, InvPhi2
<1>9. r \in [1..4 -> Nat]
  BY <1>5, <1>7
<1> QED BY <1>8, <1>9 DEF r

(* Shares of a whole, each rounded down, are together no more than it.     *)
LEMMA ShareOf ==
    ASSUME NEW a \in Nat, NEW F \in Nat, F > 0
    PROVE  a \div F \in Nat /\ F * (a \div F) <= a
BY SMT

LEMMA Shares ==
    ASSUME NEW a \in Nat, NEW b \in Nat, NEW c \in Nat, NEW d \in Nat, NEW F \in Nat, F > 0,
           F = a + b + c + d, NEW m \in Nat
    PROVE  (a * m) \div F + (b * m) \div F + (c * m) \div F + (d * m) \div F <= m
<1> DEFINE p == (a * m) \div F
           q == (b * m) \div F
           r == (c * m) \div F
           s == (d * m) \div F
<1>1. a * m \in Nat /\ b * m \in Nat /\ c * m \in Nat /\ d * m \in Nat
  OBVIOUS
<1>2. /\ p \in Nat /\ F * p <= a * m /\ q \in Nat /\ F * q <= b * m
      /\ r \in Nat /\ F * r <= c * m /\ s \in Nat /\ F * s <= d * m
  BY <1>1, ShareOf, Zenon
<1> HIDE DEF p, q, r, s
<1>3. a * m + b * m + c * m + d * m = F * m
  BY SMT
<1>4. F * (p + q + r + s) <= F * m
  <2>1. F * (p + q + r + s) = F * p + F * q + F * r + F * s
    BY <1>2, SMT
  <2>2. F * p \in Int /\ F * q \in Int /\ F * r \in Int /\ F * s \in Int /\ F * m \in Int
    BY <1>2
  <2> QED BY <1>1, <1>2, <1>3, <2>1, <2>2
<1> DEFINE z == p + q + r + s
<1>5. z \in Nat
  BY <1>2
<1>6. F * z <= F * m
  BY <1>4
<1> HIDE DEF z
<1>7. z <= m
  BY <1>5, <1>6, SMT
<1> QED BY <1>7 DEF z, p, q, r, s

LEMMA FourSum ==
    ASSUME NEW f \in [1..4 -> Nat] PROVE SumOf(f) = f[1] + f[2] + f[3] + f[4] /\ SumOf(f) \in Nat
<1>1. f[1] \in Nat /\ f[2] \in Nat /\ f[3] \in Nat /\ f[4] \in Nat
  OBVIOUS
<1> QED BY <1>1 DEF SumOf, Magnitude

LEMMA CapAddsAFifth ==
    ASSUME NEW base \in [1..4 -> Nat], NEW factory \in [1..4 -> Nat], base[2] >= InvPhi2
    PROVE  5 * SensorDeltas(base, CapInfoDeltas(base, factory))
               <= SumOf(CapInfoDeltas(base, factory))
<1> DEFINE B == SumOf(base)
           F == SumOf(factory)
           most == B \div 4
           capped == [i \in 1..4 |->
               IF B # 0 /\ F > most THEN (factory[i] * most) \div F ELSE factory[i]]
           r == CapInfoDeltas(base, factory)
           added == [i \in 1..4 |-> r[i] - base[i]]
<1>1. B = base[1] + base[2] + base[3] + base[4] /\ B \in Nat
  BY FourSum
<1>2. F = factory[1] + factory[2] + factory[3] + factory[4] /\ F \in Nat
  BY FourSum
<1>3. /\ base[1] \in Nat /\ base[2] \in Nat /\ base[3] \in Nat /\ base[4] \in Nat
      /\ factory[1] \in Nat /\ factory[2] \in Nat /\ factory[3] \in Nat /\ factory[4] \in Nat
  OBVIOUS
<1>4. B > 0 /\ most \in Nat /\ 4 * most <= B
  <2>1. base[2] > 0
    BY <1>3 DEF InvPhi2
  <2> HIDE DEF B
  <2> QED BY <1>1, <1>3, <2>1
<1>5. r = [i \in 1..4 |-> base[i] + capped[i]]
  BY Zenon DEF CapInfoDeltas
<1> HIDE DEF B, F, most, r
<1>6. /\ capped \in [1..4 -> Nat]
      /\ capped[1] + capped[2] + capped[3] + capped[4] <= most
  <2>1. CASE F > most
    <3>1. F > 0
      BY <1>2, <1>4, <2>1
    <3>2. \A i \in 1..4 : capped[i] = (factory[i] * most) \div F
      BY <1>4, <2>1
    <3>3. ASSUME NEW i \in 1..4 PROVE (factory[i] * most) \div F \in Nat
      <4>1. factory[i] * most \in Nat
        BY <1>4
      <4> QED BY <1>2, <3>1, <4>1, ShareOf, Zenon
    <3>4. capped \in [1..4 -> Nat]
      BY <3>2, <3>3
    <3>5. (factory[1] * most) \div F + (factory[2] * most) \div F
              + (factory[3] * most) \div F + (factory[4] * most) \div F <= most
      <4> DEFINE a == factory[1]
                 b == factory[2]
                 c == factory[3]
                 d == factory[4]
      <4>1. a \in Nat /\ b \in Nat /\ c \in Nat /\ d \in Nat /\ F = a + b + c + d
        BY <1>2, <1>3
      <4> HIDE DEF a, b, c, d
      <4>2. (a * most) \div F + (b * most) \div F + (c * most) \div F + (d * most) \div F <= most
        BY <1>2, <1>4, <3>1, <4>1, Shares
      <4> QED BY <4>2 DEF a, b, c, d
    <3>6. /\ capped[1] = (factory[1] * most) \div F /\ capped[2] = (factory[2] * most) \div F
          /\ capped[3] = (factory[3] * most) \div F /\ capped[4] = (factory[4] * most) \div F
      BY <3>2
    <3> HIDE DEF capped
    <3> QED BY <3>4, <3>5, <3>6
  <2>2. CASE ~(F > most)
    <3>1. capped = [i \in 1..4 |-> factory[i]]
      BY <2>2
    <3> HIDE DEF capped
    <3> QED BY <1>2, <1>3, <1>4, <2>2, <3>1
  <2> QED BY <2>1, <2>2
<1> HIDE DEF capped
<1>7. /\ capped[1] \in Nat /\ capped[2] \in Nat /\ capped[3] \in Nat /\ capped[4] \in Nat
  BY <1>6
<1>8. r \in [1..4 -> Nat] /\ added = [i \in 1..4 |-> capped[i]]
  BY <1>5, <1>6
<1>9. added \in [1..4 -> Nat]
  BY <1>6, <1>8
<1>10. SumOf(added) = capped[1] + capped[2] + capped[3] + capped[4]
  <2>1. SumOf(added) = added[1] + added[2] + added[3] + added[4]
    <3> HIDE DEF added
    <3> QED BY <1>9, FourSum
  <2> QED BY <1>8, <2>1
<1>11. SumOf(r) = B + capped[1] + capped[2] + capped[3] + capped[4]
  <2>1. SumOf(r) = r[1] + r[2] + r[3] + r[4]
    BY <1>8, FourSum
  <2>2. /\ r[1] = base[1] + capped[1] /\ r[2] = base[2] + capped[2]
        /\ r[3] = base[3] + capped[3] /\ r[4] = base[4] + capped[4]
    BY <1>5
  <2> QED BY <1>1, <1>3, <1>7, <2>1, <2>2
<1>12. 5 * SumOf(added) <= SumOf(r)
  <2> HIDE DEF added
  <2> QED BY <1>1, <1>4, <1>6, <1>7, <1>10, <1>11
<1> QED BY <1>12, Zenon DEF SensorDeltas, r, added

(* Own deltas against those with the promoted sensors' observations.       *)
LEMMA SensorsAddFew ==
    ASSUME NEW t \in ThoughtSet, NEW factory \in Seq(ObsSet), factory # <<>>
    PROVE  5 * SensorDeltas(React(t, FALSE), InputDeltas(t, factory))
               <= SumOf(InputDeltas(t, factory))
<1> DEFINE base == React(t, FALSE)
           extra == [i \in 1..4 |-> ObservationDelta(factory, i - 1)]
<1>1. base \in [1..4 -> Nat] /\ base[2] >= InvPhi2
  BY ReactedIsSome
<1>2. extra \in [1..4 -> Nat]
  BY ObservationDeltaIsNat
<1>3. InputDeltas(t, factory) = CapInfoDeltas(base, extra)
  BY Zenon DEF InputDeltas
<1> HIDE DEF base, extra
<1>4. 5 * SensorDeltas(base, CapInfoDeltas(base, extra)) <= SumOf(CapInfoDeltas(base, extra))
  BY <1>1, <1>2, CapAddsAFifth
<1> QED BY <1>3, <1>4 DEF base

-----------------------------------------------------------------------------
(* The stimuli that are thought of are sane.                               *)
StimulusFields == {"message", "phase", "phi", "psi", "before", "metrics", "affect", "episodes",
    "self", "skills", "sims", "reflection", "journal", "reward", "identity", "graph"}
SaneAffect(x) == x # <<>> => x[1] \in Int /\ x[2] \in Int /\ x[3] \in Int
SaneReward(r) ==
    DOMAIN r # {} =>
        /\ r.identity_stability \in Int /\ r.reflection_depth \in Int
        /\ r.integration_coherence \in Int /\ r.affect_regulation \in Int
SaneReflection(r) == r.needs \in Seq(Nat) /\ r.proposals \in Seq(Nat) /\ r.conf \in Nat
SaneGraph(g) == DOMAIN g \subseteq Told \X Told /\ IsFiniteSet(DOMAIN g)
SaneMetrics(m) == \A n \in DOMAIN m : m[n] \in 0..1000
Shaped(s) == DOMAIN s = StimulusFields

LEMMA SaneIs ==
    ASSUME NEW s
    PROVE  Sane(s) <=> /\ s.phi \in Int /\ OnSimplex(s.psi) /\ OnSimplex(s.before)
                       /\ SaneMetrics(s.metrics) /\ SaneAffect(s.affect)
                       /\ s.episodes \in Seq(MemorySet) /\ s.skills \in Seq(SkillSet)
                       /\ s.sims \in Seq(SimSet) /\ SaneReflection(s.reflection)
                       /\ SaneReward(s.reward) /\ SaneGraph(s.graph)
BY ZenonT(60) DEF Sane, SaneMetrics, SaneAffect, SaneReflection, SaneReward, SaneGraph

LEMMA SimplexPsis ==
    /\ \A v \in Psis : OnSimplex(v)
    /\ OnSimplex(Earlier) /\ OnSimplex(Psi0)
<1>1. OnSimplex(Psi0)
  BY SMT DEF OnSimplex, Whole, Psi0
<1>2. OnSimplex(Earlier)
  BY SMT DEF OnSimplex, Whole, Earlier
<1>3. OnSimplex(<<700, 100, 100, 100>>) /\ OnSimplex(<<200, 200, 200, 400>>)
      /\ OnSimplex(<<250, 250, 250, 250>>)
  BY SMT DEF OnSimplex, Whole
<1> QED BY <1>1, <1>2, <1>3 DEF Psis

LEMMA EmptyFit ==
    /\ SaneMetrics(<<>>) /\ SaneAffect(<<>>) /\ SaneReward(<<>>) /\ SaneGraph(<<>>)
<1>1. DOMAIN <<>> = {}
  OBVIOUS
<1> QED BY <1>1, FS_EmptySet DEF SaneMetrics, SaneAffect, SaneReward, SaneGraph

LEMMA CalmIsSane == Sane(Calm) /\ Shaped(Calm)
<1>1. Shaped(Calm)
  BY DEF Shaped, StimulusFields, Calm
<1>2. /\ Calm.phi = 700 /\ Calm.psi = Psi0 /\ Calm.before = Psi0 /\ Calm.metrics = <<>>
      /\ Calm.affect = <<>> /\ Calm.episodes = <<>> /\ Calm.skills = <<>> /\ Calm.sims = <<>>
      /\ Calm.reflection = [needs |-> <<>>, proposals |-> <<>>, conf |-> 0]
      /\ Calm.reward = <<>> /\ Calm.graph = <<>>
  BY DEF Calm
<1>3. SaneReflection(Calm.reflection)
  BY <1>2 DEF SaneReflection
<1>4. /\ Calm.phi \in Int /\ Calm.episodes \in Seq(MemorySet) /\ Calm.skills \in Seq(SkillSet)
      /\ Calm.sims \in Seq(SimSet)
  BY <1>2
<1>5. Sane(Calm)
  <2>1. OnSimplex(Calm.psi) /\ OnSimplex(Calm.before)
    BY <1>2, SimplexPsis
  <2>2. /\ SaneMetrics(Calm.metrics) /\ SaneAffect(Calm.affect) /\ SaneReward(Calm.reward)
        /\ SaneGraph(Calm.graph)
    BY <1>2, EmptyFit
  <2> QED BY <1>3, <1>4, <2>1, <2>2, SaneIs, ZenonT(60)
<1> QED BY <1>1, <1>5

LEMMA MoodSane == ASSUME NEW s \in Moods PROVE Sane(s) /\ Shaped(s)
<1>1. PICK m \in MoodPhases \X MoodPhis \X Psis :
         s = [Calm EXCEPT !.phase = m[1], !.phi = m[2], !.psi = m[3], !.before = Earlier]
  BY Zenon DEF Moods
<1>2. /\ s.phi = m[2] /\ s.psi = m[3] /\ s.before = Earlier /\ DOMAIN s = DOMAIN Calm
      /\ s.metrics = Calm.metrics /\ s.affect = Calm.affect /\ s.episodes = Calm.episodes
      /\ s.skills = Calm.skills /\ s.sims = Calm.sims /\ s.reflection = Calm.reflection
      /\ s.reward = Calm.reward /\ s.graph = Calm.graph
  BY <1>1, CalmIsSane DEF Shaped, StimulusFields
<1>3. s.phi \in Int
  BY <1>1, <1>2 DEF MoodPhis
<1>4. OnSimplex(s.psi) /\ OnSimplex(s.before)
  BY <1>2, SimplexPsis
<1>5. Sane(s)
  BY <1>2, <1>3, <1>4, CalmIsSane, SaneIs, ZenonT(60)
<1> QED BY <1>2, <1>5, CalmIsSane DEF Shaped

LEMMA PhiSane == ASSUME NEW phi \in Int PROVE Sane([Calm EXCEPT !.phi = phi]) /\ Shaped([Calm EXCEPT !.phi = phi])
<1> DEFINE s == [Calm EXCEPT !.phi = phi]
<1>1. /\ s.phi = phi /\ s.psi = Calm.psi /\ s.before = Calm.before /\ DOMAIN s = DOMAIN Calm
      /\ s.metrics = Calm.metrics /\ s.affect = Calm.affect /\ s.episodes = Calm.episodes
      /\ s.skills = Calm.skills /\ s.sims = Calm.sims /\ s.reflection = Calm.reflection
      /\ s.reward = Calm.reward /\ s.graph = Calm.graph
  BY CalmIsSane DEF Shaped, StimulusFields
<1> HIDE DEF s
<1>2. Sane(s)
  BY <1>1, CalmIsSane, SaneIs, ZenonT(60)
<1>3. Shaped(s)
  BY <1>1, CalmIsSane DEF Shaped
<1> QED BY <1>2, <1>3 DEF s

(* A stimulus that is told of the metrics and of the causal graph.         *)
LEMMA GraphsSane == ASSUME NEW g \in Graphs PROVE SaneGraph(g)
<1>1. ASSUME NEW p \in Told \X Told, NEW b PROVE SaneGraph([e \in {p} |-> b])
  <2>1. DOMAIN [e \in {p} |-> b] = {p}
    OBVIOUS
  <2> QED BY <2>1, FS_Singleton DEF SaneGraph
<1>2. {"low_phase", "phi_low", "phi_critical", "high_phase", "phi_healthy", "weak_Expression",
       "weak_Reflexion"} \subseteq Told
  <2>1. {"low_phase", "phi_low", "phi_critical", "high_phase", "phi_healthy"} \subseteq Told
    BY TagsAreTold DEF StateTags
  <2>2. "weak_Expression" \in Told /\ "weak_Reflexion" \in Told
    <3>1. Weak[4] = "weak_Expression" /\ Weak[2] = "weak_Reflexion"
      BY DEF Weak
    <3>2. Weak[4] \in Told /\ Weak[2] \in Told
      BY TagsAreTold
    <3> QED BY <3>1, <3>2
  <2> QED BY <2>1, <2>2
<1>3. /\ <<"low_phase", "phi_low">> \in Told \X Told
      /\ <<"phi_critical", "low_phase">> \in Told \X Told
      /\ <<"low_phase", "weak_Expression">> \in Told \X Told
      /\ <<"high_phase", "phi_healthy">> \in Told \X Told
      /\ <<"phi_low", "weak_Reflexion">> \in Told \X Told
  BY <1>2
<1>4. \E p \in Told \X Told, b \in BOOLEAN : g = [e \in {p} |-> b]
  BY <1>3, Zenon DEF Graphs
<1> QED BY <1>1, <1>4, Zenon

LEMMA CausedSane ==
    ASSUME NEW s, Sane(s), Shaped(s), NEW u \in Caused(s) PROVE Sane(u)
<1>1. PICK x \in Measured \X Graphs : u = [s EXCEPT !.metrics = x[1], !.graph = x[2]]
  BY Zenon DEF Caused
<1> DEFINE m == x[1]
           g == x[2]
<1>2. /\ u.phi = s.phi /\ u.psi = s.psi /\ u.before = s.before
      /\ u.metrics = m /\ u.affect = s.affect /\ u.episodes = s.episodes
      /\ u.skills = s.skills /\ u.sims = s.sims /\ u.reflection = s.reflection
      /\ u.reward = s.reward /\ u.graph = g
  BY <1>1 DEF Shaped, StimulusFields
<1>3. SaneMetrics(m)
  <2> HIDE DEF m
  <2>1. PICK D : m \in [D -> MetricValues]
    <3>1. m \in Measured
      BY DEF m
    <3> QED BY <3>1, Zenon DEF Measured
  <2>2. MetricValues \subseteq 0..1000
    BY ThinkerAssumption, SMT
  <2> QED BY <2>1, <2>2 DEF SaneMetrics
<1>4. SaneGraph(g)
  BY GraphsSane
<1> HIDE DEF m, g
<1> QED BY <1>2, <1>3, <1>4, SaneIs, ZenonT(60)

(* A stimulus that is felt, remembered, dreamt of.                         *)
LEMMA AffectsSane == \A x \in Affects : SaneAffect(x)
<1>1. ASSUME NEW x \in Affects PROVE SaneAffect(x)
  <2>1. PICK v \in {-800, 0, 500}, a \in {300, 550}, d \in {100, 500} : x = <<v, a, d>>
    BY DEF Affects
  <2>2. v \in Int /\ a \in Int /\ d \in Int
    OBVIOUS
  <2> QED BY <2>1, <2>2 DEF SaneAffect
<1> QED BY <1>1

LEMMA RewardsSane == \A r \in Rewards : SaneReward(r)
BY DEF Rewards, SaneReward

LEMMA MemoriesSane == \A x \in Memories : x \in Seq(MemorySet)
<1>1. ASSUME NEW x \in Memories PROVE x \in Seq(MemorySet)
  <2>1. PICK sim \in {300, 1000}, g \in {-500, 0, 500}, p \in BOOLEAN :
           x = <<[similarity |-> sim, gain |-> g, pinned |-> p]>>
    BY DEF Memories
  <2>2. [similarity |-> sim, gain |-> g, pinned |-> p] \in MemorySet
    BY DEF MemorySet
  <2> QED BY <2>1, <2>2
<1> QED BY <1>1

LEMMA DreamtSane ==
    (\A k \in Skills : k \in Seq(SkillSet)) /\ (\A x \in Sims : x \in Seq(SimSet))
<1>1. ASSUME NEW k \in Skills PROVE k \in Seq(SkillSet)
  <2>1. PICK g \in BOOLEAN, c \in 0..3 : k = <<[good |-> g, comp |-> c, conf |-> 236]>>
    BY DEF Skills
  <2>2. [good |-> g, comp |-> c, conf |-> 236] \in SkillSet
    BY DEF SkillSet
  <2> QED BY <2>1, <2>2
<1>2. ASSUME NEW x \in Sims PROVE x \in Seq(SimSet)
  <2>1. PICK st \in {100, 900} : x = <<[stability |-> st, gain |-> 500], [stability |-> 900, gain |-> 0]>>
    BY DEF Sims
  <2>2. [stability |-> st, gain |-> 500] \in SimSet /\ [stability |-> 900, gain |-> 0] \in SimSet
    BY DEF SimSet
  <2> QED BY <2>1, <2>2
<1> QED BY <1>1, <1>2

(* One stimulus like another but for one of the senses.                    *)
LEMMA SaneAs ==
    ASSUME NEW s, Sane(s), NEW u,
           u.phi = s.phi, u.psi = s.psi, u.before = s.before, u.metrics = s.metrics, u.graph = s.graph,
           u.affect = s.affect \/ SaneAffect(u.affect), u.reward = s.reward \/ SaneReward(u.reward),
           u.episodes = s.episodes \/ u.episodes \in Seq(MemorySet),
           u.skills = s.skills \/ u.skills \in Seq(SkillSet),
           u.sims = s.sims \/ u.sims \in Seq(SimSet),
           u.reflection = s.reflection \/ SaneReflection(u.reflection)
    PROVE  Sane(u)
<1>1. /\ s.phi \in Int /\ OnSimplex(s.psi) /\ OnSimplex(s.before)
      /\ SaneMetrics(s.metrics) /\ SaneAffect(s.affect)
      /\ s.episodes \in Seq(MemorySet) /\ s.skills \in Seq(SkillSet)
      /\ s.sims \in Seq(SimSet) /\ SaneReflection(s.reflection)
      /\ SaneReward(s.reward) /\ SaneGraph(s.graph)
  BY SaneIs
<1>2. /\ SaneAffect(u.affect) /\ u.episodes \in Seq(MemorySet) /\ u.skills \in Seq(SkillSet)
      /\ u.sims \in Seq(SimSet) /\ SaneReflection(u.reflection) /\ SaneReward(u.reward)
  BY <1>1
<1>3. /\ u.phi \in Int /\ OnSimplex(u.psi) /\ OnSimplex(u.before)
      /\ SaneMetrics(u.metrics) /\ SaneGraph(u.graph)
  BY <1>1
<1> QED BY <1>2, <1>3, SaneIs

LEMMA FeltSane == ASSUME NEW s, Sane(s), Shaped(s), NEW u \in Felt(s) PROVE Sane(u)
<1>1. CASE \E x \in Affects \X Rewards : u = [s EXCEPT !.affect = x[1], !.reward = x[2]]
  <2>1. PICK x \in Affects \X Rewards : u = [s EXCEPT !.affect = x[1], !.reward = x[2]]
    BY <1>1
  <2>2. /\ u.phi = s.phi /\ u.psi = s.psi /\ u.before = s.before /\ u.metrics = s.metrics
        /\ u.graph = s.graph /\ u.affect = x[1] /\ u.reward = x[2] /\ u.episodes = s.episodes
        /\ u.skills = s.skills /\ u.sims = s.sims /\ u.reflection = s.reflection
    BY <2>1 DEF Shaped, StimulusFields
  <2>3. x[1] \in Affects /\ x[2] \in Rewards
    OBVIOUS
  <2>4. SaneAffect(u.affect) /\ SaneReward(u.reward)
    BY <2>2, <2>3, AffectsSane, RewardsSane, Zenon
  <2> QED BY <2>2, <2>4, SaneAs
<1>2. CASE \E x \in Memories : u = [s EXCEPT !.episodes = x]
  <2>1. PICK x \in Memories : u = [s EXCEPT !.episodes = x]
    BY <1>2
  <2>2. /\ u.phi = s.phi /\ u.psi = s.psi /\ u.before = s.before /\ u.metrics = s.metrics
        /\ u.graph = s.graph /\ u.affect = s.affect /\ u.reward = s.reward /\ u.episodes = x
        /\ u.skills = s.skills /\ u.sims = s.sims /\ u.reflection = s.reflection
    BY <2>1 DEF Shaped, StimulusFields
  <2> QED BY <2>2, MemoriesSane, SaneAs
<1>3. CASE \E x, j, y, m : u = [s EXCEPT !.self = x, !.journal = j, !.identity = y, !.message = m]
  <2>1. PICK x, j, y, m : u = [s EXCEPT !.self = x, !.journal = j, !.identity = y, !.message = m]
    BY <1>3
  <2>2. /\ u.phi = s.phi /\ u.psi = s.psi /\ u.before = s.before /\ u.metrics = s.metrics
        /\ u.graph = s.graph /\ u.affect = s.affect /\ u.reward = s.reward
        /\ u.episodes = s.episodes /\ u.skills = s.skills /\ u.sims = s.sims
        /\ u.reflection = s.reflection
    BY <2>1 DEF Shaped, StimulusFields
  <2> QED BY <2>2, SaneAs
<1>4. CASE \E x \in Skills \X Sims : u = [s EXCEPT !.skills = x[1], !.sims = x[2]]
  <2>1. PICK x \in Skills \X Sims : u = [s EXCEPT !.skills = x[1], !.sims = x[2]]
    BY <1>4
  <2>2. /\ u.phi = s.phi /\ u.psi = s.psi /\ u.before = s.before /\ u.metrics = s.metrics
        /\ u.graph = s.graph /\ u.affect = s.affect /\ u.reward = s.reward
        /\ u.episodes = s.episodes /\ u.skills = x[1] /\ u.sims = x[2]
        /\ u.reflection = s.reflection
    BY <2>1 DEF Shaped, StimulusFields
  <2>3. x[1] \in Skills /\ x[2] \in Sims
    OBVIOUS
  <2>4. u.skills \in Seq(SkillSet) /\ u.sims \in Seq(SimSet)
    BY <2>2, <2>3, DreamtSane, Zenon
  <2> QED BY <2>2, <2>4, SaneAs
<1>5. CASE u = [s EXCEPT !.reflection = Dreamt]
  <2>1. /\ u.phi = s.phi /\ u.psi = s.psi /\ u.before = s.before /\ u.metrics = s.metrics
        /\ u.graph = s.graph /\ u.affect = s.affect /\ u.reward = s.reward
        /\ u.episodes = s.episodes /\ u.skills = s.skills /\ u.sims = s.sims
        /\ u.reflection = Dreamt
    BY <1>5 DEF Shaped, StimulusFields
  <2>2. SaneReflection(Dreamt)
    BY SMT DEF SaneReflection, Dreamt
  <2> QED BY <2>1, <2>2, SaneAs
<1>6. \/ \E x \in Affects \X Rewards : u = [s EXCEPT !.affect = x[1], !.reward = x[2]]
      \/ \E x \in Memories : u = [s EXCEPT !.episodes = x]
      \/ \E x \in SUBSET {"episodes", "dreams", "can_dream", "corrections"} :
            u = [s EXCEPT !.self = x]
      \/ u = [s EXCEPT !.self = {"ticks", "impulses"}, !.journal = TRUE]
      \/ \E x \in Skills \X Sims : u = [s EXCEPT !.skills = x[1], !.sims = x[2]]
      \/ u = [s EXCEPT !.reflection = Dreamt]
      \/ \E x \in {"intact", "altered"} : u = [s EXCEPT !.identity = x, !.message = FALSE]
  BY Zenon DEF Felt
<1>7. ASSUME NEW x, u = [s EXCEPT !.self = x] PROVE Sane(u)
  <2>1. u = [s EXCEPT !.self = x, !.journal = s.journal, !.identity = s.identity, !.message = s.message]
    BY <1>7 DEF Shaped, StimulusFields
  <2> QED BY <1>3, <2>1
<1>8. ASSUME u = [s EXCEPT !.self = {"ticks", "impulses"}, !.journal = TRUE] PROVE Sane(u)
  <2>1. u = [s EXCEPT !.self = {"ticks", "impulses"}, !.journal = TRUE,
                      !.identity = s.identity, !.message = s.message]
    BY <1>8 DEF Shaped, StimulusFields
  <2> QED BY <1>3, <2>1
<1>9. ASSUME NEW x, u = [s EXCEPT !.identity = x, !.message = FALSE] PROVE Sane(u)
  <2>1. u = [s EXCEPT !.self = s.self, !.journal = s.journal, !.identity = x, !.message = FALSE]
    BY <1>9 DEF Shaped, StimulusFields
  <2> QED BY <1>3, <2>1
<1> QED BY <1>1, <1>2, <1>4, <1>5, <1>6, <1>7, <1>8, <1>9, ZenonT(60)

(* The stimulus of the next message.                                       *)
LEMMA NextSane ==
    ASSUME NEW s, Sane(s), NEW r, SaneReward(r)
    PROVE  Sane([Calm EXCEPT !.psi = s.psi, !.before = s.psi, !.affect = s.affect, !.reward = r])
<1> DEFINE u == [Calm EXCEPT !.psi = s.psi, !.before = s.psi, !.affect = s.affect, !.reward = r]
<1>1. /\ u.phi = Calm.phi /\ u.psi = s.psi /\ u.before = s.psi /\ u.metrics = Calm.metrics
      /\ u.graph = Calm.graph /\ u.affect = s.affect /\ u.reward = r
      /\ u.episodes = Calm.episodes /\ u.skills = Calm.skills /\ u.sims = Calm.sims
      /\ u.reflection = Calm.reflection
  BY CalmIsSane DEF Shaped, StimulusFields
<1>2. OnSimplex(s.psi) /\ SaneAffect(s.affect)
  BY SaneIs
<1> HIDE DEF u
<1>3. Sane(u)
  BY <1>1, <1>2, CalmIsSane, SaneIs, ZenonT(60)
<1> QED BY <1>3 DEF u

(* The reward of a cycle is made of integers.                              *)
LEMMA ClampedIsInt == \A v \in Int : Clamped(v) \in Int
BY DEF Clamped

LEMMA UnitIsInt == \A v \in Int : Unit(v) \in Int
BY DEF Unit, AtMost

LEMMA EvaluatedSane ==
    ASSUME NEW t \in ThoughtSet, NEW s, Sane(s), NEW stability \in Int, NEW severity, NEW timely
    PROVE  SaneReward(Evaluate(t, s, stability, severity, timely))
<1> DEFINE r == Evaluate(t, s, stability, severity, timely)
<1>1. /\ r.identity_stability = stability /\ r.reflection_depth = ReflectionDepth(t)
      /\ r.integration_coherence = IntegrationCoherence(s.phi)
      /\ r.affect_regulation = AffectRegulation(s)
  BY DEF Evaluate
<1>2. ReflectionDepth(t) \in Int
  <2> DEFINE n == Cardinality(DOMAIN t.causal)
             a == (1000 * (t.conf - InvPhi3)) \div 264
             b == (1000 * (n - 5)) \div 45
  <2>1. Linked(t.causal) /\ t.conf \in Int
    BY ThoughtParts, CausalIs
  <2>2. n \in Nat
    BY <2>1, FS_CardinalityType, Zenon DEF Linked
  <2> HIDE DEF n
  <2>3. a \in Int /\ b \in Int
    BY <2>1, <2>2 DEF InvPhi3
  <2>4. ReflectionDepth(t) = Unit(a) + Unit(b) - 1000
    BY DEF ReflectionDepth, n
  <2> HIDE DEF a, b
  <2>5. Unit(a) \in Int /\ Unit(b) \in Int
    BY <2>3, UnitIsInt
  <2> QED BY <2>4, <2>5
<1>3. IntegrationCoherence(s.phi) \in Int
  <2> DEFINE a == (2000 * (s.phi - 330)) \div 1288 - 1000
  <2>1. s.phi \in Int
    BY SaneIs
  <2>2. a \in Int
    BY <2>1
  <2>3. IntegrationCoherence(s.phi) = IF s.phi <= 330 THEN -1000 ELSE Clamped(a)
    BY DEF IntegrationCoherence
  <2> HIDE DEF a
  <2>4. Clamped(a) \in Int
    BY <2>2, ClampedIsInt
  <2> QED BY <2>3, <2>4
<1>4. AffectRegulation(s) \in Int
  <2>1. CASE s.affect = <<>>
    BY <2>1 DEF AffectRegulation
  <2>2. CASE s.affect # <<>>
    <3> DEFINE v == s.affect[1]
               w == s.affect[2]
               gloom == -v - 500
               a == 1000 - 2 * Magnitude(w - 300) - (IF gloom > 0 THEN gloom ELSE 0)
    <3>1. SaneAffect(s.affect)
      BY SaneIs
    <3>2. v \in Int /\ w \in Int
      BY <2>2, <3>1 DEF SaneAffect
    <3>3. AffectRegulation(s) = Clamped(a)
      BY <2>2, Zenon DEF AffectRegulation
    <3> HIDE DEF v, w
    <3>4. a \in Int
      BY <3>2 DEF Magnitude
    <3> HIDE DEF a
    <3> QED BY <3>3, <3>4, ClampedIsInt
  <2> QED BY <2>1, <2>2
<1> HIDE DEF r
<1> QED BY <1>1, <1>2, <1>3, <1>4 DEF SaneReward, r

-----------------------------------------------------------------------------
(* The iteration a thought is at, and what the sort and the questioning    *)
(* have left of the order of its needs.                                    *)
Deepening(t, p) ==
    /\ t.depth \in 5..7
    /\ NearSorted(t.needs)
    /\ t.depth = 5 => Descending(t.needs)
    /\ t.depth # 5 => p = t.conf

TurnInv ==
    /\ Sane(stimulus) /\ thought \in ThoughtSet /\ previous \in Int /\ sensors \in Seq(ObsSet)
    /\ ended = "deepening" => Deepening(thought, previous)
    /\ ended = "deep" => NearSorted(thought.needs)
    /\ TensionNearTop /\ FifthAtMost

LEMMA ConfidencesAreInts == ASSUME NEW t, NEW c \in Correlations(t) PROVE c \in Int
<1>1. Confidences \subseteq 0..1000
  BY ThinkerAssumption, SMT
<1>2. c \in {0} \cup Confidences
  BY DEF Correlations
<1> QED BY <1>1, <1>2

LEMMA TurnInitially == TurnInit => TurnInv
<1> SUFFICES ASSUME TurnInit PROVE TurnInv
  OBVIOUS
<1>1. thought = Blank /\ previous = 0 /\ ended = "new" /\ sensors = <<>>
  BY Zenon DEF TurnInit
<1>2. stimulus \in ToldOf \/ stimulus \in FeltAs \/ stimulus \in Moods
  BY Zenon DEF TurnInit
<1>3. ASSUME stimulus \in ToldOf PROVE Sane(stimulus)
  <2>1. PICK s \in Extremes : stimulus \in Caused(s)
    BY <1>3, Zenon DEF ToldOf
  <2>2. s \in Moods
    BY DEF Extremes
  <2> QED BY <2>1, <2>2, MoodSane, CausedSane
<1>4. ASSUME stimulus \in FeltAs PROVE Sane(stimulus)
  <2> DEFINE With(phi) == [Calm EXCEPT !.phi = phi]
  <2>1. \A phi \in Int : Sane(With(phi)) /\ Shaped(With(phi))
    BY PhiSane
  <2> HIDE DEF With
  <2>2. FeltAs = UNION {Felt(With(phi)) : phi \in {300, 700}}
    BY DEF FeltAs, With
  <2>3. PICK phi \in {300, 700} : stimulus \in Felt(With(phi))
    BY <1>4, <2>2
  <2>4. phi \in Int
    OBVIOUS
  <2> QED BY <2>1, <2>3, <2>4, FeltSane
<1>5. Sane(stimulus)
  BY <1>2, <1>3, <1>4, MoodSane
<1>6. TensionNearTop /\ FifthAtMost
  BY <1>1, Zenon DEF TensionNearTop, FifthAtMost
<1>7. previous \in Int /\ sensors \in Seq(ObsSet)
  BY <1>1
<1> QED BY <1>1, <1>5, <1>6, <1>7, BlankIsThought DEF TurnInv

LEMMA FoundationKeeps == ASSUME TurnInv, Foundation, UNCHANGED sensors PROVE TurnInv'
<1>1. PICK c \in Correlations(Found(stimulus)) : thought' = [Found(stimulus) EXCEPT !.conf = c]
  BY Zenon DEF Foundation
<1>2. /\ previous' = 0 /\ ended' = "deepening" /\ stimulus' = stimulus /\ sensors' = sensors
  BY Zenon DEF Foundation
<1>3. Sane(stimulus) /\ sensors \in Seq(ObsSet)
  BY Zenon DEF TurnInv
<1> DEFINE t == Found(stimulus)
<1>4. t \in ThoughtSet /\ t.depth = 5 /\ Descending(t.needs)
  BY <1>3, FoundFits
<1>5. c \in Int
  BY ConfidencesAreInts
<1> HIDE DEF t
<1>6. thought' \in ThoughtSet
  BY <1>1, <1>4, <1>5, ThoughtWith DEF t
<1>7. thought'.depth = 5 /\ thought'.needs = t.needs
  BY <1>1, <1>4 DEF t, ThoughtSet
<1>8. t.needs \in Sorted
  BY <1>4, ThoughtParts DEF Sorted
<1>9. NearSorted(t.needs)
  BY <1>8, SortedIsNear
<1>10. Deepening(thought', previous')
  BY <1>4, <1>7, <1>9 DEF Deepening
<1>11. TensionNearTop' /\ FifthAtMost'
  BY <1>2, Zenon DEF TensionNearTop, FifthAtMost
<1>12. previous' \in Int
  BY <1>2
<1> QED BY <1>2, <1>3, <1>6, <1>10, <1>11, <1>12 DEF TurnInv

LEMMA IterateKeeps == ASSUME TurnInv, Iterate, UNCHANGED sensors PROVE TurnInv'
<1> DEFINE i == thought.depth
           insights == Insights(thought, i, call.mode)
           deeper == IntegrateInsights(thought, insights)
           cs == IF Vectors(deeper) = Vectors(thought) THEN {thought.conf} ELSE Correlations(deeper)
<1>1. PICK c \in cs :
         /\ thought' = [deeper EXCEPT !.depth = @ + 1, !.conf = c]
         /\ previous' = c
         /\ ended' = IF Magnitude(c - previous) < InvPhi2 THEN "deep" ELSE "deepening"
  BY Zenon DEF Iterate
<1>2. ended = "deepening" /\ stimulus' = stimulus /\ sensors' = sensors
  BY Zenon DEF Iterate
<1>3. /\ Sane(stimulus) /\ sensors \in Seq(ObsSet) /\ thought \in ThoughtSet /\ previous \in Int
      /\ Deepening(thought, previous)
  BY <1>2, Zenon DEF TurnInv
<1>4. /\ i \in 5..7 /\ NearSorted(thought.needs) /\ (i = 5 => Descending(thought.needs))
      /\ (i # 5 => previous = thought.conf) /\ thought.conf \in Int
  BY <1>3, ThoughtParts DEF Deepening
<1>5. c \in Int
  BY <1>4, ConfidencesAreInts
<1>6. /\ thought' \in ThoughtSet /\ thought'.depth = i + 1 /\ thought'.conf = c
      /\ NearSorted(thought'.needs)
      /\ i = 7 => Vectors(deeper) = Vectors(thought)
  <2> HIDE DEF cs
  <2>1. i = thought.depth
    OBVIOUS
  <2> DEFINE after == [deeper EXCEPT !.depth = @ + 1, !.conf = c]
  <2>2. /\ after \in ThoughtSet /\ after.depth = i + 1 /\ after.conf = c
        /\ NearSorted(after.needs)
        /\ i = 7 => Vectors(deeper) = Vectors(thought)
    BY <1>3, <1>4, <1>5, DeeperFits
  <2>3. thought' = after
    BY <1>1
  <2> HIDE DEF after, deeper, i
  <2> QED BY <2>2, <2>3
<1>7. i = 7 => ended' = "deep"
  <2> SUFFICES ASSUME i = 7 PROVE ended' = "deep"
    OBVIOUS
  <2>1. c = thought.conf
    BY <1>6
  <2>2. c = previous
    BY <1>4, <2>1
  <2>3. Magnitude(c - previous) < InvPhi2
    BY <1>3, <2>2 DEF Magnitude, InvPhi2
  <2> QED BY <1>1, <2>3
<1>8. ended' \in {"deep", "deepening"}
  BY <1>1
<1> HIDE DEF deeper, cs, i, insights
<1>9. ended' = "deepening" => Deepening(thought', previous')
  BY <1>1, <1>4, <1>6, <1>7 DEF Deepening
<1>10. TensionNearTop' /\ FifthAtMost'
  BY <1>8, Zenon DEF TensionNearTop, FifthAtMost
<1> QED BY <1>1, <1>2, <1>3, <1>5, <1>6, <1>9, <1>10 DEF TurnInv

LEMMA NoInsightKeeps == ASSUME TurnInv, NoInsight, UNCHANGED sensors PROVE TurnInv'
<1>1. /\ ended = "deepening" /\ ended' = "deep" /\ stimulus' = stimulus /\ thought' = thought
      /\ previous' = previous /\ sensors' = sensors
  BY Zenon DEF NoInsight
<1>2. NearSorted(thought.needs)
  BY <1>1, Zenon DEF TurnInv, Deepening
<1>3. TensionNearTop' /\ FifthAtMost'
  BY <1>1, Zenon DEF TensionNearTop, FifthAtMost
<1> QED BY <1>1, <1>2, <1>3 DEF TurnInv

LEMMA ConcludeKeeps == ASSUME TurnInv, Conclude, UNCHANGED sensors PROVE TurnInv'
<1>1. /\ ended = "deep" /\ ended' = "thought" /\ stimulus' = stimulus /\ previous' = previous
      /\ thought' = Synthesize(thought) /\ sensors' = sensors
  BY Zenon DEF Conclude
<1>2. thought \in ThoughtSet /\ NearSorted(thought.needs)
  BY <1>1, Zenon DEF TurnInv
<1>3. thought' \in ThoughtSet /\ NearTop(thought')
  BY <1>1, <1>2, SynthesizedFits
<1>4. TensionNearTop'
  BY <1>3, Zenon DEF NearTop, TensionNearTop
<1>5. FifthAtMost'
  BY <1>1, Zenon DEF FifthAtMost
<1> QED BY <1>1, <1>3, <1>4, <1>5 DEF TurnInv

(* The sensors' observations. *)
LEMMA SensorObsFit == ASSUME NEW f \in SensorObs PROVE f \in Seq(ObsSet)
<1>1. CASE f = <<>>
  BY <1>1
<1>2. CASE f \in {Obs(TRUE, "env", x[1], x[2]) : x \in {0, 3} \X Promoted}
  <2>1. PICK x \in {0, 3} \X Promoted : f = Obs(TRUE, "env", x[1], x[2])
    BY <1>2, Zenon
  <2> DEFINE c == x[1]
             conf == x[2]
  <2>2. Promoted \subseteq 0..1000
    BY TurnAssumption, SMT
  <2>3. conf \in Nat /\ c \in 0..3
    <3>1. c \in {0, 3} /\ conf \in Promoted
      OBVIOUS
    <3> HIDE DEF c, conf
    <3> QED BY <2>2, <3>1
  <2>4. "env" \in Told
    BY TagsAreTold DEF SelfTags
  <2>5. f = <<[tag |-> "env", comp |-> c, conf |-> conf]>>
    BY <2>1 DEF Obs
  <2>6. [tag |-> "env", comp |-> c, conf |-> conf] \in ObsSet
    BY <2>3, <2>4 DEF ObsSet
  <2> QED BY <2>5, <2>6
<1> QED BY <1>1, <1>2 DEF SensorObs

LEMMA CutBack ==
    ASSUME NEW a \in Seq(ObsSet), NEW b \in Seq(ObsSet)
    PROVE  SubSeq(a \o b, 1, Len(a \o b) - Len(b)) = a
<1>1. Len(a \o b) = Len(a) + Len(b) /\ Len(a) \in Nat /\ Len(b) \in Nat
  OBVIOUS
<1>2. Len(a \o b) - Len(b) = Len(a)
  BY <1>1
<1> DEFINE q == SubSeq(a \o b, 1, Len(a))
<1>3. a \o b \in Seq(ObsSet) /\ Len(a) <= Len(a \o b)
  BY <1>1
<1>4. q \in Seq(ObsSet) /\ Len(q) = Len(a) /\ \A i \in 1..Len(a) : q[i] = (a \o b)[i]
  BY <1>1, <1>3
<1>5. \A i \in 1..Len(a) : (a \o b)[i] = a[i]
  OBVIOUS
<1> HIDE DEF q
<1>6. q = a
  BY <1>4, <1>5
<1> QED BY <1>2, <1>6 DEF q

LEMMA InputEvolveKeeps == ASSUME TurnInv, InputEvolve PROVE TurnInv'
<1>1. PICK factory \in SensorObs :
         /\ sensors' = factory
         /\ reaction' = InputDeltas(thought, factory)
         /\ thought' = [thought EXCEPT !.obs = @ \o factory]
  BY Zenon DEF InputEvolve
<1>2. ended' = "evolved" /\ stimulus' = stimulus /\ previous' = previous
  BY Zenon DEF InputEvolve
<1>3. Sane(stimulus) /\ thought \in ThoughtSet /\ previous \in Int
  BY Zenon DEF TurnInv
<1>4. factory \in Seq(ObsSet)
  BY SensorObsFit
<1> DEFINE obs == thought.obs \o factory
<1>5. thought.obs \in Seq(ObsSet)
  BY <1>3, ThoughtParts
<1>6. obs \in Seq(ObsSet)
  BY <1>4, <1>5, ObsTogether
<1>7. thought' = [thought EXCEPT !.obs = obs]
  BY <1>1
<1>8. SubSeq(obs, 1, Len(obs) - Len(factory)) = thought.obs
  BY <1>4, <1>5, CutBack
<1> HIDE DEF obs
<1>9. thought' \in ThoughtSet /\ thought'.obs = obs
  BY <1>3, <1>6, <1>7 DEF ThoughtSet
<1>10. [thought' EXCEPT !.obs = thought.obs] = thought
  BY <1>3, <1>6, <1>7 DEF ThoughtSet
<1>11. OwnObservations' = thought.obs
  BY <1>1, <1>8, <1>9 DEF OwnObservations
<1>12. Own(FALSE)' = React(thought, FALSE)
  BY <1>10, <1>11, Zenon DEF Own
<1>13. FifthAtMost'
  <2> SUFFICES ASSUME sensors' # <<>>
               PROVE  5 * SensorDeltas(Own(FALSE)', reaction') <= SumOf(reaction')
    BY Zenon DEF FifthAtMost
  <2>1. factory # <<>>
    BY <1>1
  <2>2. 5 * SensorDeltas(React(thought, FALSE), InputDeltas(thought, factory))
            <= SumOf(InputDeltas(thought, factory))
    BY <1>3, <1>4, <2>1, SensorsAddFew
  <2> QED BY <1>1, <1>12, <2>2
<1>14. TensionNearTop'
  BY <1>2, Zenon DEF TensionNearTop
<1> QED BY <1>1, <1>2, <1>3, <1>4, <1>9, <1>13, <1>14 DEF TurnInv

LEMMA RespondKeeps == ASSUME TurnInv, Respond PROVE TurnInv'
<1>1. /\ ended' = "decided" /\ stimulus' = stimulus /\ thought' = thought
      /\ previous' = previous /\ sensors' = sensors
  BY Zenon DEF Respond
<1>2. TensionNearTop' /\ FifthAtMost'
  BY <1>1, Zenon DEF TensionNearTop, FifthAtMost
<1> QED BY <1>1, <1>2 DEF TurnInv

LEMMA StabilityOfPsi == ASSUME NEW v, NEW x \in Stabilities(v) PROVE x \in Int
<1>1. Divergences \subseteq 1..1000
  BY TurnAssumption, SMT
<1>2. x = 1000 \/ \E js \in Divergences : x = 1000 - 2 * js
  BY SMT DEF Stabilities
<1> QED BY <1>1, <1>2

LEMMA RecordCycleKeeps == ASSUME TurnInv, RecordCycle PROVE TurnInv'
<1>1. PICK stability \in Stabilities(stimulus.psi), troubled \in BOOLEAN :
         LET r == Evaluate(thought, stimulus, stability, IF troubled THEN 500 ELSE 0, ~troubled) IN
         /\ rewards' = Remembered(rewards, r)
         /\ stimulus' = [Calm EXCEPT !.psi = stimulus.psi, !.before = stimulus.psi,
                             !.affect = stimulus.affect, !.reward = r]
  BY ZenonT(60) DEF RecordCycle
<1>2. /\ thought' = Blank /\ ended' = "new" /\ previous' = previous /\ sensors' = sensors
  BY Zenon DEF RecordCycle
<1>3. /\ Sane(stimulus) /\ thought \in ThoughtSet /\ previous \in Int
      /\ sensors \in Seq(ObsSet)
  BY Zenon DEF TurnInv
<1> DEFINE r == Evaluate(thought, stimulus, stability, IF troubled THEN 500 ELSE 0, ~troubled)
<1>4. SaneReward(r)
  BY <1>3, StabilityOfPsi, EvaluatedSane
<1> HIDE DEF r
<1>5. stimulus' = [Calm EXCEPT !.psi = stimulus.psi, !.before = stimulus.psi,
                       !.affect = stimulus.affect, !.reward = r]
  BY <1>1 DEF r
<1>6. Sane(stimulus')
  BY <1>3, <1>4, <1>5, NextSane
<1>7. TensionNearTop' /\ FifthAtMost'
  BY <1>2, Zenon DEF TensionNearTop, FifthAtMost
<1> QED BY <1>2, <1>3, <1>6, <1>7, BlankIsThought DEF TurnInv

LEMMA NextThoughtKeeps == ASSUME TurnInv, NextThought PROVE TurnInv'
<1>1. /\ thought' = Blank /\ ended' = "new" /\ previous' = previous /\ sensors' = sensors
      /\ stimulus' = stimulus
  BY Zenon DEF NextThought
<1>2. TensionNearTop' /\ FifthAtMost'
  BY <1>1, Zenon DEF TensionNearTop, FifthAtMost
<1> QED BY <1>1, <1>2, BlankIsThought DEF TurnInv

LEMMA TurnStep == TurnInv /\ [TurnRulesNext]_turnVars => TurnInv'
<1> SUFFICES ASSUME TurnInv, [TurnRulesNext]_turnVars PROVE TurnInv'
  OBVIOUS
<1>1. CASE ThinkerNext /\ UNCHANGED <<asked, sensors, reaction, decision, rewards>>
  <2>1. UNCHANGED sensors
    BY <1>1
  <2> QED BY <1>1, <2>1, FoundationKeeps, IterateKeeps, NoInsightKeeps, ConcludeKeeps
         DEF ThinkerNext
<1>2. CASE InputEvolve \/ Respond \/ RecordCycle \/ NextThought
  BY <1>2, InputEvolveKeeps, RespondKeeps, RecordCycleKeeps, NextThoughtKeeps
<1>3. CASE UNCHANGED turnVars
  <2>1. /\ stimulus' = stimulus /\ thought' = thought /\ previous' = previous
        /\ ended' = ended /\ sensors' = sensors /\ reaction' = reaction
    BY <1>3 DEF turnVars, thinkerVars
  <2>2. TensionNearTop' /\ FifthAtMost'
    BY <2>1, Zenon DEF TurnInv, TensionNearTop, FifthAtMost, Own, OwnObservations
  <2> QED BY <2>1, <2>2 DEF TurnInv
<1> QED BY <1>1, <1>2, <1>3 DEF TurnRulesNext

LEMMA TurnInvHolds == TurnRulesSpec => []TurnInv
<1> QED BY TurnInitially, TurnStep, PTL DEF TurnRulesSpec

LEMMA UnreachedFollow == TurnInv => UnreachedRules
<1> SUFFICES ASSUME TurnInv PROVE UnreachedRules
  OBVIOUS
<1>1. thought \in ThoughtSet
  BY Zenon DEF TurnInv
<1>2. /\ thought.obs \in Seq(ObsSet) /\ thought.depth \in 0..8 /\ thought.unsure \in SUBSET Doubts
      /\ Linked(thought.causal)
  BY <1>1, ThoughtParts, CausalIs
<1>3. "imbalance" \notin thought.unsure
  BY <1>2 DEF Doubts
<1>4. WeakLinks(thought) = {}
  <2>1. thought.causal \in [DOMAIN thought.causal -> InvPhi2..Whole]
    BY <1>2, Zenon DEF Linked
  <2> QED BY <2>1 DEF WeakLinks, InvPhi2, Whole
<1>5. Tags(thought.obs) \cap {"trajectory_declining", "trajectory_rising"} = {}
  BY <1>2, TagsTold, ToldOfNoTrajectory
<1> QED BY <1>2, <1>3, <1>4, <1>5 DEF UnreachedRules

(* A thought is summed up by a need that is hardly less pressing than any  *)
(* other a cause backs (INV_PHI of it at least), although the questioning  *)
(* of needs never sorts them again; and no mode, link or trajectory ever   *)
(* reaches the metacognitive angle, the weak links and the trajectory      *)
(* observations of Thinker.think.                                          *)
THEOREM ThoughtsAlwaysHold == TurnRulesSpec => []ThoughtsHold
<1>1. TurnInv => ThoughtsHold
  BY UnreachedFollow DEF TurnInv, ThoughtsHold
<1> QED BY <1>1, TurnInvHolds, PTL

(* Promoted sensors move psi by at most a fifth of a turn's deltas         *)
(* (cap_info_deltas), rounding included: a turn always has some of its own, *)
(* and shares rounded down are together no more than the cap.              *)
THEOREM SensorsAddAFifth == TurnRulesSpec => []FifthAtMost
<1>1. TurnInv => FifthAtMost
  BY DEF TurnInv
<1> QED BY <1>1, TurnInvHolds, PTL

=============================================================================
