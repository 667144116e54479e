-------------------------- MODULE CaseScopesProofs --------------------------
(***************************************************************************)
(* What the functions of CaseScopes return, for sequences of any length.   *)
(*                                                                         *)
(* The induction theorems of the library cannot be instantiated by the     *)
(* provers, but that a well-founded relation has minimal elements can: what*)
(* would be shown by induction is shown here with a least counterexample.  *)
(***************************************************************************)
EXTENDS CaseScopes, WellFoundedInduction, FiniteSetTheorems, SequenceTheorems, TLAPS

-----------------------------------------------------------------------------
(* Least counterexamples.                                                  *)

LEMMA LessIsWellFounded == IsWellFoundedOn({ss \in Nat \X Nat : ss[1] < ss[2]}, Nat)
<1>1. OpToRel(<, Nat) = {ss \in Nat \X Nat : ss[1] < ss[2]}
  BY DEF OpToRel
<1>. QED  BY <1>1, NatLessThanWellFounded

LEMMA LeastElement ==
  ASSUME NEW T \in SUBSET Nat, T # {}
  PROVE  \E n \in T : \A m \in T : n <= m
<1>. DEFINE R == {ss \in Nat \X Nat : ss[1] < ss[2]}
<1>1. PICK n \in T : \A m \in T : ~ (<<m, n>> \in R)
  <2>. HIDE DEF R
  <2>. QED  BY LessIsWellFounded, WFMin DEF R
<1>2. ASSUME NEW m \in T
      PROVE  n <= m
  <2>1. m \in Nat /\ n \in Nat /\ <<m, n>> \in Nat \X Nat
    OBVIOUS
  <2>2. m < n => <<m, n>> \in R
    BY <2>1
  <2>. QED  BY <1>1, <2>1, <2>2
<1>. QED  BY <1>2

-----------------------------------------------------------------------------
(* FlattenSeq.                                                             *)

\* FlattenSeq is the last of the sequences that it builds one after the other.
LEMMA FlattenedBy ==
  ASSUME NEW seqs, Len(seqs) \in Nat \ {0}
  PROVE  \E g : /\ g = [i \in 1 .. Len(seqs) |-> IF i = 1 THEN seqs[i] ELSE g[i - 1] \o seqs[i]]
               /\ FlattenSeq(seqs) = g[Len(seqs)]
<1>. DEFINE Solves(g, n) == g = [i \in 1 .. n |-> IF i = 1 THEN seqs[i] ELSE g[i - 1] \o seqs[i]]
            N == Len(seqs)
<1>0. N \in Nat \ {0}
  OBVIOUS
<1>. HIDE DEF N
<1>2. \E g : Solves(g, N)
  <2>. DEFINE Bad == {n \in 1 .. N : ~ \E g : Solves(g, n)}
  <2>0. N \in 1 .. N /\ Bad \in SUBSET Nat /\ \A n \in Bad : n \in 1 .. N
    <3>. HIDE DEF Solves
    <3>. QED  BY <1>0
  <2>1. SUFFICES ASSUME Bad # {} PROVE FALSE
    <3>. HIDE DEF Solves
    <3>. QED  BY<2>0
  <2>2. PICK n \in Bad : \A m \in Bad : n <= m
    <3>. HIDE DEF Bad
    <3>. QED  BY <2>0, <2>1, LeastElement
  <2>3. n # 1
    <3>. DEFINE g == [i \in 1 .. 1 |-> seqs[i]]
    <3>1. g = [i \in 1 .. 1 |-> IF i = 1 THEN seqs[i] ELSE g[i - 1] \o seqs[i]]
      OBVIOUS
    <3>2. Solves(g, 1)
      BY <3>1
    <3>3. 1 \notin Bad
      <4>. HIDE DEF Solves, g
      <4>. QED  BY <3>2
    <3>. HIDE DEF Bad
    <3>. QED  BY <2>2, <3>3
  <2>4. n - 1 \in 1 .. N /\ n \in Nat
    BY <1>0, <2>0, <2>3
  <2>5. PICK g : Solves(g, n - 1)
    <3>1. n - 1 \notin Bad
      <4>. HIDE DEF Bad
      <4>. QED  BY <2>0, <2>2, <2>4
    <3>. QED  BY <2>4, <3>1
  <2>. DEFINE h == [i \in 1 .. n |-> IF i = 1 THEN seqs[i] ELSE g[i - 1] \o seqs[i]]
  <2>6. \A i \in 1 .. n - 1 : h[i] = g[i]
    <3>1. \A i \in 1 .. n - 1 : g[i] = IF i = 1 THEN seqs[i] ELSE g[i - 1] \o seqs[i]
      BY <2>5
    <3>2. \A i \in 1 .. n : h[i] = IF i = 1 THEN seqs[i] ELSE g[i - 1] \o seqs[i]
      OBVIOUS
    <3>3. \A i \in 1 .. n - 1 : i \in 1 .. n
      BY <2>4
    <3>. HIDE DEF h
    <3>. QED  BY <3>1, <3>2, <3>3
  <2>7. h = [i \in 1 .. n |-> IF i = 1 THEN seqs[i] ELSE h[i - 1] \o seqs[i]]
    <3>1. \A i \in 1 .. n : i # 1 => h[i - 1] = g[i - 1]
      <4>1. \A i \in 1 .. n : i # 1 => i - 1 \in 1 .. n - 1
        BY <2>4
      <4>. HIDE DEF h
      <4>. QED  BY <2>6, <4>1
    <3>2. \A i \in 1 .. n : h[i] = IF i = 1 THEN seqs[i] ELSE g[i - 1] \o seqs[i]
      OBVIOUS
    <3>3. h = [i \in 1 .. n |-> h[i]]
      OBVIOUS
    <3>. HIDE DEF h
    <3>. QED  BY <3>1, <3>2, <3>3
  <2>8. Solves(h, n)
    BY <2>7
  <2>. HIDE DEF h
  <2>. QED  BY <2>8, <2>2
<1>3. FlattenSeq(seqs) = (CHOOSE g : Solves(g, N))[N]
  BY <1>0 DEF FlattenSeq, N
<1>. QED  BY <1>2, <1>3 DEF N

LEMMA ConcatParts ==
  ASSUME NEW S, NEW t \in Seq(S), NEW s \in Seq(S)
  PROVE  /\ t \o s \in Seq(S) /\ Len(t \o s) = Len(t) + Len(s)
         /\ \A b \in 1 .. Len(t) : (t \o s)[b] = t[b]
         /\ \A a \in 1 .. Len(s) : (t \o s)[Len(t) + a] = s[a]
<1>1. t \o s \in Seq(S) /\ Len(t \o s) = Len(t) + Len(s)
  OBVIOUS
<1>2. \A b \in 1 .. Len(t) : (t \o s)[b] = t[b]
  OBVIOUS
<1>3. ASSUME NEW a \in 1 .. Len(s)
      PROVE  (t \o s)[Len(t) + a] = s[a]
  OBVIOUS
<1>. QED  BY <1>1, <1>2, <1>3

LEMMA OneMoreTimes ==
  ASSUME NEW k \in Nat, NEW i, i = k + 1, NEW q \in Nat
  PROVE  i * q = k * q + q /\ k * q \in Nat
OBVIOUS

\* It has every element of every sequence, and no more than they have together.
LEMMA FlattenedHasAll ==
  ASSUME NEW S, NEW seqs \in Seq(Seq(S)), Len(seqs) # 0, NEW q \in Nat,
         \A i \in 1 .. Len(seqs) : Len(seqs[i]) <= q
  PROVE  /\ FlattenSeq(seqs) \in Seq(S)
         /\ Len(FlattenSeq(seqs)) <= Len(seqs) * q
         /\ \A j \in 1 .. Len(seqs) : \A a \in 1 .. Len(seqs[j]) :
              \E b \in 1 .. Len(FlattenSeq(seqs)) : FlattenSeq(seqs)[b] = seqs[j][a]
<1>. DEFINE N == Len(seqs)
<1>0. N \in Nat \ {0} /\ \A i \in 1 .. N : seqs[i] \in Seq(S) /\ Len(seqs[i]) \in 0 .. q
  OBVIOUS
<1>1. PICK g : /\ g = [i \in 1 .. N |-> IF i = 1 THEN seqs[i] ELSE g[i - 1] \o seqs[i]]
               /\ FlattenSeq(seqs) = g[N]
  BY <1>0, FlattenedBy
<1>2. \A i \in 1 .. N : g[i] = IF i = 1 THEN seqs[i] ELSE g[i - 1] \o seqs[i]
  BY <1>1
<1>. HIDE DEF N
<1>. DEFINE Has(i) == \A j \in 1 .. i : \A a \in 1 .. Len(seqs[j]) :
                        \E b \in 1 .. Len(g[i]) : g[i][b] = seqs[j][a]
            Good(i) == g[i] \in Seq(S) /\ Len(g[i]) <= i * q /\ Has(i)
            Bad == {i \in 1 .. N : ~Good(i)}
<1>3. Good(1)
  <2>1. 1 \in 1 .. N /\ g[1] = seqs[1]
    BY <1>0, <1>2
  <2>2. g[1] \in Seq(S) /\ Len(g[1]) <= 1 * q
    BY <1>0, <2>1
  <2>3. Has(1)
    BY <2>1
  <2>. QED  BY <2>2, <2>3
<1>4. ASSUME NEW i \in 1 .. N, i # 1, Good(i - 1)
      PROVE  Good(i)
  <2>. HIDE DEF Has
  <2>. DEFINE k == i - 1  s == seqs[i]  t == g[k]
  <2>1. k \in 1 .. N /\ i = k + 1 /\ g[i] = t \o s
    <3>1. k \in 1 .. N /\ i = k + 1
      BY ONLY <1>0, i \in 1 .. N, i # 1
    <3>2. g[i] = t \o s
      BY ONLY <1>2, i \in 1 .. N, i # 1
    <3>. QED  BY <3>1, <3>2
  <2>2. s \in Seq(S) /\ Len(s) \in Nat /\ Len(s) <= q
    BY <1>0, <1>4
  <2>3. t \in Seq(S) /\ Len(t) \in Nat /\ Len(t) <= k * q /\ Has(k)
    <3>1. t \in Seq(S) /\ Len(t) <= k * q /\ Has(k)
      BY <1>4
    <3>2. Len(t) \in Nat
      BY ONLY <3>1
    <3>. QED  BY <3>1, <3>2
  <2>. HIDE DEF k, s, t
  <2>4. /\ t \o s \in Seq(S) /\ Len(t \o s) = Len(t) + Len(s)
        /\ \A b \in 1 .. Len(t) : (t \o s)[b] = t[b]
        /\ \A a \in 1 .. Len(s) : (t \o s)[Len(t) + a] = s[a]
    BY ONLY <2>2, <2>3, ConcatParts
  <2>5. Len(g[i]) <= i * q
    <3>1. k \in Nat /\ i = k + 1 /\ Len(g[i]) = Len(t) + Len(s)
      BY ONLY <1>0, <2>1, <2>4
    <3>2. i * q = k * q + q /\ k * q \in Nat
      BY ONLY <3>1, q \in Nat, OneMoreTimes
    <3>. QED  BY <2>2, <2>3, <3>1, <3>2
  <2>6. ASSUME NEW j \in 1 .. i, NEW a \in 1 .. Len(seqs[j])
        PROVE  \E b \in 1 .. Len(g[i]) : g[i][b] = seqs[j][a]
    <3>1. CASE j = i
      <4>1. a \in 1 .. Len(s) /\ Len(t) + a \in 1 .. Len(t) + Len(s)
        BY <2>2, <2>3, <2>6, <3>1 DEF s
      <4>. QED  BY <2>1, <2>4, <3>1, <4>1 DEF s
    <3>2. CASE j # i
      <4>1. j \in 1 .. k
        BY <1>0, <2>1, <3>2
      <4>2. PICK b \in 1 .. Len(t) : t[b] = seqs[j][a]
        BY <2>3, <4>1 DEF Has, t
      <4>3. b \in 1 .. Len(t) + Len(s)
        BY <2>2, <2>3
      <4>. QED  BY <2>1, <2>4, <4>2, <4>3
    <3>. QED  BY <3>1, <3>2
  <2>7. Has(i)
    BY <2>6 DEF Has
  <2>. QED  BY <2>1, <2>4, <2>5, <2>7
<1>5. \A i \in 1 .. N : Good(i)
  <2>. HIDE DEF Good
  <2>1. SUFFICES ASSUME Bad # {} PROVE FALSE
    OBVIOUS
  <2>2. Bad \in SUBSET Nat /\ \A i \in Bad : i \in 1 .. N /\ ~Good(i)
    BY <1>0
  <2>3. PICK i \in Bad : \A j \in Bad : i <= j
    <3>. HIDE DEF Bad
    <3>. QED  BY <2>1, <2>2, LeastElement
  <2>4. i \in 1 .. N /\ i # 1 /\ i - 1 \in 1 .. N
    BY <1>0, <1>3, <2>2
  <2>5. Good(i - 1)
    BY <1>0, <2>3, <2>4
  <2>. QED  BY <1>4, <2>2, <2>4, <2>5
<1>6. Good(N)
  <2>1. N \in 1 .. N
    BY <1>0
  <2>. HIDE DEF Good
  <2>. QED  BY <1>5, <2>1
<1>. DEFINE flat == FlattenSeq(seqs)
<1>7. g[N] = flat
  BY <1>1
<1>. HIDE DEF flat
<1>8. flat \in Seq(S) /\ Len(flat) <= N * q
  BY <1>6, <1>7
<1>9. \A j \in 1 .. N : \A a \in 1 .. Len(seqs[j]) : \E b \in 1 .. Len(flat) : flat[b] = seqs[j][a]
  BY <1>6, <1>7
<1>. QED  BY <1>8, <1>9 DEF N, flat

LEMMA FlattenedType ==
  ASSUME NEW S, NEW seqs \in Seq(Seq(S))
  PROVE  FlattenSeq(seqs) \in Seq(S)
<1>1. CASE Len(seqs) = 0
  <2>1. seqs = <<>>
    BY <1>1
  <2>. QED  BY <1>1, <2>1 DEF FlattenSeq
<1>2. CASE Len(seqs) # 0
  <2>. DEFINE Solves(g, n) == g = [i \in 1 .. n |-> IF i = 1 THEN seqs[i] ELSE g[i - 1] \o seqs[i]]
              N == Len(seqs)
  <2>0. N \in Nat \ {0} /\ \A i \in 1 .. N : seqs[i] \in Seq(S)
    BY <1>2
  <2>2. PICK g0 : Solves(g0, N) /\ FlattenSeq(seqs) = g0[N]
    BY <2>0, FlattenedBy
  <2>. HIDE DEF N
  <2>1. ASSUME NEW g, Solves(g, N)
        PROVE  g[N] \in Seq(S)
    <3>. DEFINE Bad == {i \in 1 .. N : g[i] \notin Seq(S)}
    <3>1. SUFFICES ASSUME Bad # {} PROVE FALSE
      BY <2>0
    <3>2. Bad \in SUBSET Nat /\ \A i \in Bad : i \in 1 .. N /\ g[i] \notin Seq(S)
      BY <2>0
    <3>3. PICK i \in Bad : \A j \in Bad : i <= j
      <4>. HIDE DEF Bad
      <4>. QED  BY <3>1, <3>2, LeastElement
    <3>4. g[i] = IF i = 1 THEN seqs[i] ELSE g[i - 1] \o seqs[i]
      BY <2>1, <3>2
    <3>5. i # 1 /\ i - 1 \in 1 .. N
      BY <2>0, <3>2, <3>4
    <3>6. g[i - 1] \in Seq(S)
      <4>1. i - 1 \notin Bad
        <5>. HIDE DEF Bad
        <5>. QED  BY <2>0, <3>2, <3>3, <3>5
      <4>. QED  BY <3>5, <4>1
    <3>7. seqs[i] \in Seq(S)
      BY <2>0, <3>2
    <3>8. g[i - 1] \o seqs[i] \in Seq(S)
      BY <3>6, <3>7
    <3>. QED  BY <3>2, <3>4, <3>5, <3>8
  <2>. HIDE DEF Solves
  <2>. QED  BY <2>1, <2>2
<1>. QED  BY <1>1, <1>2

-----------------------------------------------------------------------------
(* InOrder, Kept.                                                          *)

\* In a strict total order on a finite set every rank is taken.
LEMMA EveryRankIsTaken ==
  ASSUME NEW S, IsFiniteSet(S), NEW R,
         \A i \in S : <<i, i>> \notin R,
         \A i, j \in S : i # j => <<i, j>> \in R \/ <<j, i>> \in R,
         \A i, j, k \in S : <<i, j>> \in R /\ <<j, k>> \in R => <<i, k>> \in R
  PROVE  \A k \in 1 .. Cardinality(S) :
           \E i \in S : Cardinality({j \in S : <<j, i>> \in R}) = k - 1
<1>. DEFINE n == Cardinality(S)
            Below(i) == {j \in S : <<j, i>> \in R}
            rank == [i \in S |-> Cardinality(Below(i)) + 1]
<1>1. n \in Nat
  BY FS_CardinalityType
<1>2. ASSUME NEW i \in S
      PROVE  IsFiniteSet(Below(i)) /\ Cardinality(Below(i)) \in Nat /\ Cardinality(Below(i)) < n
  <2>1. Below(i) \in SUBSET S /\ i \notin Below(i)
    OBVIOUS
  <2>2. IsFiniteSet(Below(i)) /\ Cardinality(Below(i)) <= n /\ (n = Cardinality(Below(i)) => S = Below(i))
    BY <2>1, FS_Subset
  <2>3. Cardinality(Below(i)) \in Nat
    BY <2>2, FS_CardinalityType
  <2>. QED  BY <1>1, <2>1, <2>2, <2>3
<1>3. rank \in [S -> 1 .. n]
  BY <1>1, <1>2
<1>4. ASSUME NEW i \in S, NEW j \in S, <<i, j>> \in R
      PROVE  Cardinality(Below(i)) < Cardinality(Below(j))
  <2>1. Below(i) \in SUBSET Below(j) /\ i \in Below(j) /\ i \notin Below(i)
    BY <1>4
  <2>2. Cardinality(Below(i)) <= Cardinality(Below(j))
        /\ (Cardinality(Below(j)) = Cardinality(Below(i)) => Below(j) = Below(i))
    BY <1>2, <2>1, FS_Subset
  <2>3. Cardinality(Below(i)) \in Nat /\ Cardinality(Below(j)) \in Nat
    BY <1>2
  <2>4. Below(j) # Below(i)
    BY <2>1
  <2>. HIDE DEF Below
  <2>. QED  BY <2>2, <2>3, <2>4
<1>5. \A i, j \in S : rank[i] = rank[j] => i = j
  <2>. HIDE DEF Below
  <2>1. \A i \in S : rank[i] = Cardinality(Below(i)) + 1 /\ Cardinality(Below(i)) \in Nat
    BY <1>2
  <2>2. \A i, j \in S : <<i, j>> \in R => Cardinality(Below(i)) < Cardinality(Below(j))
    BY <1>4
  <2>. HIDE DEF rank
  <2>3. ASSUME NEW i \in S, NEW j \in S, rank[i] = rank[j], i # j
        PROVE  FALSE
    <3>1. <<i, j>> \in R \/ <<j, i>> \in R
      BY <2>3
    <3>2. Cardinality(Below(i)) = Cardinality(Below(j)) /\ Cardinality(Below(i)) \in Nat
      <4>. HIDE DEF Below
      <4>. QED  BY <2>1, <2>3
    <3>3. Cardinality(Below(i)) < Cardinality(Below(j)) \/ Cardinality(Below(j)) < Cardinality(Below(i))
      BY <2>2, <3>1
    <3>. HIDE DEF Below
    <3>. QED  BY <3>2, <3>3
  <2>. QED  BY <2>3
<1>. HIDE DEF rank, n
<1>6. rank \in Injection(S, 1 .. n)
  BY <1>3, <1>5 DEF Injection, IsInjective
<1>7. IsFiniteSet(1 .. n) /\ Cardinality(1 .. n) = n
  BY <1>1, FS_Interval
<1>8. rank \in Surjection(S, 1 .. n)
  BY <1>6, <1>7, FS_Injection DEF n
<1>9. ASSUME NEW k \in 1 .. n
      PROVE  \E i \in S : Cardinality(Below(i)) = k - 1
  <2>1. PICK i \in S : rank[i] = k
    BY <1>8 DEF Surjection
  <2>2. Cardinality(Below(i)) \in Nat /\ rank[i] = Cardinality(Below(i)) + 1
    <3>. HIDE DEF Below
    <3>. QED  BY <1>2 DEF rank
  <2>. HIDE DEF Below
  <2>. QED  BY <2>1, <2>2
<1>. QED  BY <1>9 DEF n

LEMMA KeptType ==
  ASSUME NEW S, NEW s \in Seq(S), NEW K \in SUBSET DOMAIN s
  PROVE  /\ Kept(s, K) \in Seq({s[i] : i \in K})
         /\ Kept(s, K) = <<>> <=> K = {}
<1>. DEFINE R == {p \in Nat \X Nat : p[1] < p[2]}
            n == Cardinality(K)
            order == InOrder(K, LAMBDA i, j : i < j)
<1>1. DOMAIN s = 1 .. Len(s) /\ Len(s) \in Nat /\ K \subseteq Nat
  OBVIOUS
<1>2. IsFiniteSet(K) /\ n \in Nat /\ (n = 0 <=> K = {})
  <2>1. IsFiniteSet(1 .. Len(s))
    BY <1>1, FS_Interval
  <2>2. IsFiniteSet(K)
    BY <1>1, <2>1, FS_Subset
  <2>. QED  BY <2>2, FS_CardinalityType, FS_EmptySet
<1>3. \A i, j \in K : <<i, j>> \in R <=> i < j
  BY <1>1
<1>4. \A k \in 1 .. n : \E i \in K : Cardinality({j \in K : <<j, i>> \in R}) = k - 1
  <2>1. /\ \A i \in K : <<i, i>> \notin R
        /\ \A i, j \in K : i # j => <<i, j>> \in R \/ <<j, i>> \in R
        /\ \A i, j, k \in K : <<i, j>> \in R /\ <<j, k>> \in R => <<i, k>> \in R
    <3>. HIDE DEF R
    <3>. QED  BY <1>1, <1>3
  <2>2. IsFiniteSet(K)
    BY <1>2
  <2>3. \A k \in 1 .. Cardinality(K) : \E i \in K : Cardinality({j \in K : <<j, i>> \in R}) = k - 1
    <3>. HIDE DEF R, n
    <3>. QED  BY <2>1, <2>2, EveryRankIsTaken
  <2>. HIDE DEF R
  <2>. QED  BY <2>3
<1>5. \A k \in 1 .. n : \E i \in K : Cardinality({j \in K : j < i}) = k - 1
  <2>1. \A i \in K : {j \in K : <<j, i>> \in R} = {j \in K : j < i}
    <3>. HIDE DEF R
    <3>. QED  BY <1>3
  <2>. HIDE DEF R
  <2>. QED  BY <1>4, <2>1
<1>6. order = [k \in 1 .. n |-> CHOOSE i \in K : Cardinality({j \in K : j < i}) = k - 1]
  BY DEF InOrder
<1>7. \A k \in 1 .. n : order[k] \in K
  BY <1>5, <1>6
<1>8. Kept(s, K) = [k \in 1 .. n |-> s[order[k]]]
  BY <1>6 DEF Kept, MapSeq
<1>. HIDE DEF order, n
<1>9. Kept(s, K) \in [1 .. n -> {s[i] : i \in K}]
  BY <1>7, <1>8
<1>10. Kept(s, K) \in Seq({s[i] : i \in K}) /\ Len(Kept(s, K)) = n
  BY <1>2, <1>9
<1>. QED  BY <1>2, <1>10

\* What BalanceChunksAcrossCaseScopes sorts by: score, then the place.
LEMMA ByScoreType ==
  ASSUME NEW S, NEW s \in Seq(S), \A e \in S : e.score \in Nat
  PROVE  MapSeq(LAMBDA i : s[i],
                InOrder(DOMAIN s, LAMBDA i, j : \/ s[i].score > s[j].score
                                                \/ s[i].score = s[j].score /\ i < j)) \in Seq(S)
<1>. DEFINE D == DOMAIN s
            n == Cardinality(D)
            Before(i, j) == \/ s[i].score > s[j].score
                            \/ s[i].score = s[j].score /\ i < j
            R == {p \in D \X D : Before(p[1], p[2])}
            order == InOrder(D, LAMBDA i, j : \/ s[i].score > s[j].score
                                              \/ s[i].score = s[j].score /\ i < j)
            sorted == MapSeq(LAMBDA i : s[i], order)
<1>1. D = 1 .. Len(s) /\ Len(s) \in Nat /\ D \subseteq Nat /\ \A i \in D : s[i] \in S /\ s[i].score \in Nat
  OBVIOUS
<1>2. IsFiniteSet(D) /\ n \in Nat
  BY <1>1, FS_Interval, FS_CardinalityType
<1>3. \A i, j \in D : <<i, j>> \in R <=> Before(i, j)
  OBVIOUS
<1>4. \A k \in 1 .. n : \E i \in D : Cardinality({j \in D : <<j, i>> \in R}) = k - 1
  <2>1. /\ \A i \in D : <<i, i>> \notin R
        /\ \A i, j \in D : i # j => <<i, j>> \in R \/ <<j, i>> \in R
        /\ \A i, j, k \in D : <<i, j>> \in R /\ <<j, k>> \in R => <<i, k>> \in R
    <3>. HIDE DEF R, D
    <3>1. \A i \in D : <<i, i>> \notin R
      BY <1>1, <1>3
    <3>2. \A i, j \in D : i # j => <<i, j>> \in R \/ <<j, i>> \in R
      BY <1>1, <1>3
    <3>3. ASSUME NEW i \in D, NEW j \in D, NEW k \in D, <<i, j>> \in R, <<j, k>> \in R
          PROVE  <<i, k>> \in R
      <4>1. Before(i, j) /\ Before(j, k)
        BY <1>3, <3>3
      <4>2. Before(i, k)
        BY <1>1, <4>1
      <4>. QED  BY <1>3, <4>2
    <3>. QED  BY <3>1, <3>2, <3>3
  <2>. HIDE DEF R, D
  <2>. QED  BY <1>2, <2>1, EveryRankIsTaken DEF n
<1>5. \A k \in 1 .. n : \E i \in D : Cardinality({j \in D : Before(j, i)}) = k - 1
  <2>1. \A i \in D : {j \in D : <<j, i>> \in R} = {j \in D : Before(j, i)}
    <3>. HIDE DEF R, Before
    <3>. QED  BY <1>3
  <2>. HIDE DEF R, Before
  <2>. QED  BY <1>4, <2>1
<1>6. order = [k \in 1 .. n |-> CHOOSE i \in D : Cardinality({j \in D : Before(j, i)}) = k - 1]
  BY DEF InOrder
<1>7. \A k \in 1 .. n : order[k] \in D
  <2>. HIDE DEF Before, order, D
  <2>. QED  BY <1>5, <1>6
<1>8. MapSeq(LAMBDA i : s[i], order) = [k \in 1 .. n |-> s[order[k]]]
  <2>1. DOMAIN order = 1 .. n
    <3>. HIDE DEF Before, order
    <3>. QED  BY <1>6
  <2>. HIDE DEF order
  <2>. QED  BY <2>1 DEF MapSeq
<1>9. sorted \in [1 .. n -> S]
  <2>. HIDE DEF order, D, n
  <2>. QED  BY <1>1, <1>7, <1>8
<1>10. sorted \in Seq(S)
  <2>. HIDE DEF sorted, n
  <2>. QED  BY <1>2, <1>9
<1>. QED  BY <1>10

-----------------------------------------------------------------------------
(* CollectCaseScopes.                                                      *)

LEMMA GreatestElement ==
  ASSUME NEW N \in Nat, NEW T \in SUBSET (1 .. N), T # {}
  PROVE  Max(T) \in T
<1>. DEFINE U == {N - t : t \in T}
<1>1. U \in SUBSET Nat /\ U # {}
  <2>1. \A t \in T : N - t \in Nat
    OBVIOUS
  <2>. QED  BY <2>1
<1>2. PICK u \in U : \A v \in U : u <= v
  <2>. HIDE DEF U
  <2>. QED  BY <1>1, LeastElement
<1>3. PICK t \in T : u = N - t
  BY <1>2
<1>4. \A x \in T : t >= x
  <2>1. \A x \in T : N - x \in U
    OBVIOUS
  <2>. HIDE DEF U
  <2>. QED  BY <1>2, <1>3, <2>1
<1>. QED  BY <1>3, <1>4 DEF Max

LEMMA CollectType ==
  ASSUME NEW S, NEW s \in Seq(S)
  PROVE  /\ CollectCaseScopes(s) \in Seq(ToSet(s))
         /\ s # <<>> => CollectCaseScopes(s) # <<>>
<1>. DEFINE D == DOMAIN s
            T == ToSet(s)
            Add(found, scope) ==
              IF \A i \in DOMAIN found : found[i].key # scope.key
              THEN Append(found, scope)
              ELSE [i \in DOMAIN found |->
                      IF found[i].key = scope.key
                      THEN PickPreferredCaseScope(found[i], scope) ELSE found[i]]
            Step(g, q) == IF q = {} THEN <<>> ELSE Add(g[q \ {Max(q)}], s[Max(q)])
            Small(n) == {q \in SUBSET D : Cardinality(q) <= n}
<1>1. D = 1 .. Len(s) /\ Len(s) \in Nat /\ \A i \in D : s[i] \in T
  BY DEF ToSet
<1>2. IsFiniteSet(D) /\ Cardinality(D) = Len(s)
  BY <1>1, FS_Interval
<1>3. ASSUME NEW q \in SUBSET D
      PROVE  /\ IsFiniteSet(q) /\ Cardinality(q) \in Nat /\ (Cardinality(q) = 0 <=> q = {})
             /\ Cardinality(q) <= Len(s)
             /\ q # {} => /\ Max(q) \in q /\ q \ {Max(q)} \in SUBSET D
                          /\ Cardinality(q \ {Max(q)}) = Cardinality(q) - 1
  <2>1. /\ IsFiniteSet(q) /\ Cardinality(q) \in Nat /\ (Cardinality(q) = 0 <=> q = {})
        /\ Cardinality(q) <= Len(s)
    BY <1>2, FS_Subset, FS_CardinalityType, FS_EmptySet
  <2>2. q # {} => Max(q) \in q
    BY <1>1, GreatestElement
  <2>. QED  BY <2>1, <2>2, FS_RemoveElement
<1>. DEFINE Sized(q) == Cardinality(q) \in 0 .. Len(s) /\ (Cardinality(q) = 0 <=> q = {})
<1>4. \A q \in SUBSET D : Sized(q)
  <2>1. ASSUME NEW q \in SUBSET D
        PROVE  Sized(q)
    <3>1. /\ Cardinality(q) \in Nat /\ (Cardinality(q) = 0 <=> q = {})
          /\ Cardinality(q) <= Len(s) /\ Len(s) \in Nat
      BY <1>1, <1>3
    <3>. QED  BY <3>1
  <2>. HIDE DEF Sized, D
  <2>. QED  BY <2>1
<1>5. \A q \in SUBSET D : q # {} => /\ q \ {Max(q)} \in SUBSET D
                                     /\ Cardinality(q \ {Max(q)}) = Cardinality(q) - 1
  BY <1>3
<1>6. ASSUME NEW found \in Seq(T), NEW scope \in T
      PROVE  Add(found, scope) \in Seq(T) /\ Add(found, scope) # <<>>
  <2>1. CASE \A i \in DOMAIN found : found[i].key # scope.key
    <3>. HIDE DEF T
    <3>1. Append(found, scope) \in Seq(T) /\ Append(found, scope) # <<>>
      OBVIOUS
    <3>. QED  BY <2>1, <3>1
  <2>2. CASE ~ \A i \in DOMAIN found : found[i].key # scope.key
    <3>. DEFINE new == [i \in DOMAIN found |->
                          IF found[i].key = scope.key
                          THEN PickPreferredCaseScope(found[i], scope) ELSE found[i]]
    <3>. HIDE DEF T
    <3>1. DOMAIN found = 1 .. Len(found) /\ Len(found) \in Nat /\ DOMAIN found # {}
      BY <2>2
    <3>2. \A i \in DOMAIN found : PickPreferredCaseScope(found[i], scope) \in T
      BY DEF PickPreferredCaseScope
    <3>3. new \in [1 .. Len(found) -> T]
      BY <3>1, <3>2
    <3>4. new \in Seq(T) /\ new # <<>>
      <4>. HIDE DEF new
      <4>. QED  BY <3>1, <3>3
    <3>. QED  BY <2>2, <3>4
  <2>. QED  BY <2>1, <2>2
<1>7. ASSUME NEW g, g = [q \in SUBSET D |-> Step(g, q)]
      PROVE  \A q \in SUBSET D : g[q] \in Seq(T) /\ (q # {} => g[q] # <<>>)
  <2>. DEFINE Good(q) == g[q] \in Seq(T) /\ (q # {} => g[q] # <<>>)
              Bad == {n \in 0 .. Len(s) : \E q \in SUBSET D : Cardinality(q) = n /\ ~Good(q)}
  <2>. HIDE DEF D, T, Add
  <2>1. SUFFICES ASSUME NEW p \in SUBSET D, ~Good(p) PROVE FALSE
    OBVIOUS
  <2>2. Cardinality(p) \in Bad /\ Bad \in SUBSET Nat
    <3>. HIDE DEF Good
    <3>1. Cardinality(p) \in 0 .. Len(s)
      BY <1>4, <2>1
    <3>2. \A n \in 0 .. Len(s) : n \in Nat
      BY <1>1
    <3>. QED  BY <2>1, <3>1, <3>2
  <2>3. PICK n \in Bad : \A m \in Bad : n <= m
    <3>. HIDE DEF Bad
    <3>. QED  BY <2>2, LeastElement
  <2>4. PICK q \in SUBSET D : Cardinality(q) = n /\ ~Good(q)
    <3>. HIDE DEF Good
    <3>. QED  BY <2>3
  <2>5. g[q] = Step(g, q)
    BY <1>7
  <2>6. q # {}
    BY <2>4, <2>5
  <2>7. /\ Max(q) \in q /\ q \ {Max(q)} \in SUBSET D
        /\ Cardinality(q \ {Max(q)}) = n - 1 /\ n \in Nat /\ Cardinality(q \ {Max(q)}) \in Nat
        /\ n \in 0 .. Len(s)
    BY <1>1, <1>3, <2>4, <2>6
  <2>8. Good(q \ {Max(q)})
    <3>1. n - 1 \notin Bad
      <4>. HIDE DEF Bad
      <4>. QED  BY <2>2, <2>3, <2>7
    <3>2. n - 1 \in 0 .. Len(s)
      BY <1>1, <2>7
    <3>. HIDE DEF Good
    <3>. QED  BY <2>7, <3>1, <3>2
  <2>9. s[Max(q)] \in T
    BY <1>1, <2>7
  <2>10. Add(g[q \ {Max(q)}], s[Max(q)]) \in Seq(T) /\ Add(g[q \ {Max(q)}], s[Max(q)]) # <<>>
    BY <1>6, <2>8, <2>9
  <2>. QED  BY <2>4, <2>5, <2>6, <2>10
<1>8. \E g : g = [q \in SUBSET D |-> Step(g, q)]
  <2>. DEFINE Solves(g, n) == g = [q \in Small(n) |-> Step(g, q)]
              Bad == {n \in 0 .. Len(s) : ~ \E g : Solves(g, n)}
  <2>0. Small(Len(s)) = SUBSET D
    BY <1>3
  <2>1. SUFFICES ASSUME ~ \E g : Solves(g, Len(s)) PROVE FALSE
    <3>. HIDE DEF Step, Small, D
    <3>. QED  BY <2>0
  <2>2. Len(s) \in Bad /\ Bad \in SUBSET Nat
    <3>. HIDE DEF Solves
    <3>1. \A n \in 0 .. Len(s) : n \in Nat
      BY <1>1
    <3>2. Len(s) \in 0 .. Len(s)
      BY <1>1
    <3>. QED  BY <2>1, <3>1, <3>2
  <2>3. PICK n \in Bad : \A m \in Bad : n <= m
    <3>. HIDE DEF Bad
    <3>. QED  BY <2>2, LeastElement
  <2>. HIDE DEF D, T, Add
  <2>4. n # 0
    <3>. DEFINE g == [q \in Small(0) |-> <<>>]
    <3>1. \A q \in Small(0) : q = {}
      BY <1>1, <1>4
    <3>2. \A q \in Small(0) : Step(g, q) = <<>>
      BY <3>1
    <3>3. g = [q \in Small(0) |-> Step(g, q)]
      <4>. HIDE DEF Step, Small
      <4>. QED  BY <3>2
    <3>4. Solves(g, 0)
      BY <3>3
    <3>. HIDE DEF Solves
    <3>. QED  BY <2>3, <3>4
  <2>5. n - 1 \in 0 .. Len(s) /\ n \in Nat /\ n \in 0 .. Len(s)
    <3>1. n \in 0 .. Len(s)
      <4>. HIDE DEF Solves
      <4>. QED  BY <2>3
    <3>. QED  BY <1>1, <2>4, <3>1
  <2>6. PICK g : Solves(g, n - 1)
    <3>1. n - 1 \notin Bad
      <4>. HIDE DEF Bad
      <4>. QED  BY <2>2, <2>3, <2>5
    <3>. HIDE DEF Solves
    <3>. QED  BY <2>5, <3>1
  <2>. DEFINE h == [q \in Small(n) |-> Step(g, q)]
  <2>7. \A q \in Small(n - 1) : q \in Small(n) /\ g[q] = Step(g, q) /\ h[q] = g[q]
    <3>1. \A q \in Small(n - 1) : q \in Small(n)
      BY <1>1, <1>4, <2>5
    <3>2. g = [q \in Small(n - 1) |-> Step(g, q)]
      BY <2>6
    <3>. HIDE DEF Small, Step
    <3>. QED  BY <3>1, <3>2
  <2>8. \A q \in Small(n) : q # {} => q \ {Max(q)} \in Small(n - 1)
    <3>1. ASSUME NEW q \in Small(n), q # {}
          PROVE  q \ {Max(q)} \in Small(n - 1)
      <4>. DEFINE p == q \ {Max(q)}
      <4>1. q \in SUBSET D /\ Cardinality(q) <= n /\ Cardinality(q) \in Nat
        BY <1>1, <1>4
      <4>2. p \in SUBSET D /\ Cardinality(p) = Cardinality(q) - 1
        BY <1>5, <3>1, <4>1
      <4>. HIDE DEF p
      <4>3. Cardinality(p) <= n - 1
        BY ONLY <2>5, <4>1, <4>2
      <4>. QED  BY <4>2, <4>3 DEF p
    <3>. QED  BY <3>1
  <2>9. \A q \in Small(n) : Step(h, q) = Step(g, q)
    <3>. HIDE DEF h, Small
    <3>. QED  BY <2>7, <2>8
  <2>10. h = [q \in Small(n) |-> Step(h, q)]
    <3>1. h = [q \in Small(n) |-> h[q]] /\ \A q \in Small(n) : h[q] = Step(g, q)
      OBVIOUS
    <3>. HIDE DEF h, Small, Step
    <3>. QED  BY <2>9, <3>1
  <2>11. Solves(h, n)
    BY <2>10
  <2>. HIDE DEF Solves, h
  <2>. QED  BY <2>3, <2>11
<1>9. CollectCaseScopes(s) = (CHOOSE g : g = [q \in SUBSET D |-> Step(g, q)])[D]
  BY DEF CollectCaseScopes, FoldLeft, MapThenFoldSet
<1>10. CollectCaseScopes(s) \in Seq(T) /\ (s # <<>> => CollectCaseScopes(s) # <<>>)
  <2>. DEFINE g == CHOOSE g : g = [q \in SUBSET D |-> Step(g, q)]
  <2>1. g = [q \in SUBSET D |-> Step(g, q)]
    <3>. HIDE DEF Step, D
    <3>. QED  BY <1>8
  <2>2. s # <<>> => D # {}
    BY <1>1
  <2>3. g[D] \in Seq(T) /\ (D # {} => g[D] # <<>>)
    <3>. HIDE DEF g, Step, D, T
    <3>. QED  BY <1>7, <2>1
  <2>. HIDE DEF g, Step, D, T
  <2>. QED  BY <1>9, <2>2, <2>3 DEF g
<1>. QED  BY <1>10

LEMMA CollectNothing == CollectCaseScopes(<<>>) = <<>>
<1>1. <<>> \in Seq({}) /\ ToSet(<<>>) = {}
  BY DEF ToSet
<1>2. CollectCaseScopes(<<>>) \in Seq({})
  BY <1>1, CollectType
<1>. QED  BY <1>2

-----------------------------------------------------------------------------
(* Sequences of evidence.                                                  *)

LEMMA SeqSubset ==
  ASSUME NEW A, NEW B, A \subseteq B
  PROVE  Seq(A) \subseteq Seq(B)
OBVIOUS

LEMMA CollectInto ==
  ASSUME NEW S, NEW s \in Seq(S)
  PROVE  CollectCaseScopes(s) \in Seq(S) /\ ToSet(CollectCaseScopes(s)) \subseteq ToSet(s)
         /\ ToSet(s) \subseteq S
<1>1. ToSet(s) \subseteq S
  BY DEF ToSet
<1>2. CollectCaseScopes(s) \in Seq(ToSet(s))
  BY CollectType
<1>. DEFINE found == CollectCaseScopes(s)
<1>. HIDE DEF found
<1>3. found \in Seq(S) /\ ToSet(found) \subseteq ToSet(s)
  <2>1. found \in Seq(ToSet(s))
    BY <1>2 DEF found
  <2>2. ToSet(found) \subseteq ToSet(s)
    <3>. DEFINE A == ToSet(s)
    <3>1. found \in Seq(A)
      BY <2>1
    <3>. HIDE DEF A
    <3>2. ToSet(found) \subseteq A
      BY <3>1 DEF ToSet
    <3>. QED  BY <3>2 DEF A
  <2>. QED  BY <1>1, <2>1, <2>2, SeqSubset
<1>. QED  BY <1>1, <1>3 DEF found

LEMMA PartsType ==
  ASSUME NEW S, NEW s \in Seq(S), NEW n \in Nat
  PROVE  FirstOf(s, n) \in Seq(S) /\ AfterFirst(s, n) \in Seq(S)
<1>1. FirstOf(s, n) \in Seq(S)
  BY DEF FirstOf
<1>2. AfterFirst(s, n) \in Seq(S)
  BY DEF AfterFirst
<1>. QED  BY <1>1, <1>2

\* Some signal of a chunk is of one of the scopes.
Answers(signals, scopes) ==
  \E signal \in signals, t \in ToSet(CollectCaseScopes(scopes)) : CaseSignalMatchesScope(signal, t)

LEMMA ChunkMatchedType ==
  ASSUME NEW S, NEW scopes \in Seq(S), NEW c
  PROVE  /\ ChunkMatchedCaseScopes(c, scopes) \in Seq(S)
         /\ ChunkMatchedCaseScopes(c, scopes) # <<>> => Answers(c.signals, scopes)
<1>. DEFINE all == CollectCaseScopes(scopes)
            K == {i \in DOMAIN all : \E s \in c.signals : CaseSignalMatchesScope(s, all[i])}
<1>1. ChunkMatchedCaseScopes(c, scopes) = Kept(all, K)
  BY DEF ChunkMatchedCaseScopes, Filtered
<1>2. all \in Seq(S)
  BY CollectInto
<1>3. K # {} => Answers(c.signals, scopes)
  BY DEF Answers, ToSet
<1>4. K \in SUBSET DOMAIN all
  OBVIOUS
<1>. HIDE DEF K, all
<1>5. Kept(all, K) \in Seq({all[i] : i \in K}) /\ (Kept(all, K) = <<>> <=> K = {})
  BY <1>2, <1>4, KeptType
<1>6. {all[i] : i \in K} \subseteq S
  BY <1>2, <1>4
<1>7. Kept(all, K) \in Seq(S)
  BY <1>5, <1>6, SeqSubset
<1>. QED  BY <1>1, <1>3, <1>5, <1>7

\* Evidence that is about none of the requested cases does not pass filterChunksByCaseScopes
\* (pipeline.ts), whatever else a chunk carries.
THEOREM FilterSound ==
  ASSUME NEW S, NEW E, NEW chunks \in Seq(E), NEW scopes \in Seq(S),
         \A e \in E : \A m \in Seq(S) :
           [e EXCEPT !.matched = m] \in E /\ [e EXCEPT !.matched = m].signals = e.signals,
         NEW G, \A e \in E : e.signals = {} \/ Answers(e.signals, scopes) => e \in G
  PROVE  FilterChunksByCaseScopes(chunks, scopes) \in Seq(G)
<1>. DEFINE ScopesOf(c) == ChunkMatchedCaseScopes(c, scopes)
            F == {e \in E : e.signals = {} \/ Answers(e.signals, scopes)}
            KM == {i \in DOMAIN chunks : ScopesOf(chunks[i]) # <<>>}
            matched == Kept(chunks, KM)
            KD(d) == {i \in DOMAIN matched : matched[i].document = d}
            ofDocument(d) == Kept(matched, KD(d))
            DocumentScopes(d) ==
              CollectCaseScopes(FlattenSeq(MapSeq(ScopesOf, ofDocument(d))))
            KU == {i \in DOMAIN chunks : chunks[i].signals = {}}
            silent == Kept(chunks, KU)
            unresolved == MapSeq(LAMBDA c : [c EXCEPT !.matched = DocumentScopes(c.document)], silent)
            KR == {i \in DOMAIN unresolved : unresolved[i].matched # <<>>}
            resolved == Kept(unresolved, KR)
            found == MapSeq(LAMBDA c : [c EXCEPT !.matched = ScopesOf(c)], matched)
<1>1. FilterChunksByCaseScopes(chunks, scopes) =
        IF Len(CollectCaseScopes(scopes)) > 1 \/ matched # <<>> THEN found \o resolved ELSE unresolved
  BY DEF FilterChunksByCaseScopes, Filtered
<1>2. \A c : ScopesOf(c) \in Seq(S) /\ (ScopesOf(c) # <<>> => Answers(c.signals, scopes))
  BY ChunkMatchedType
<1>. HIDE DEF ScopesOf
<1>3. matched \in Seq({e \in E : Answers(e.signals, scopes)})
  <2>1. matched \in Seq({chunks[i] : i \in KM})
    <3>1. KM \in SUBSET DOMAIN chunks
      OBVIOUS
    <3>. HIDE DEF KM
    <3>. QED  BY <3>1, KeptType
  <2>2. {chunks[i] : i \in KM} \subseteq {e \in E : Answers(e.signals, scopes)}
    BY <1>2
  <2>. HIDE DEF matched, KM
  <2>. QED  BY <2>1, <2>2, SeqSubset
<1>. HIDE DEF matched
<1>4. ASSUME NEW d
      PROVE  DocumentScopes(d) \in Seq(S)
  <2>. DEFINE M == {e \in E : Answers(e.signals, scopes)}
              every == MapSeq(ScopesOf, ofDocument(d))
  <2>1. ofDocument(d) \in Seq(M)
    <3>1. ofDocument(d) \in Seq({matched[i] : i \in KD(d)})
      <4>1. KD(d) \in SUBSET DOMAIN matched
        OBVIOUS
      <4>. HIDE DEF KD
      <4>2. matched \in Seq(M)
        BY <1>3
      <4>. HIDE DEF M
      <4>. QED  BY ONLY <4>1, <4>2, KeptType
    <3>2. {matched[i] : i \in KD(d)} \subseteq M
      BY <1>3
    <3>. HIDE DEF ofDocument, M
    <3>. QED  BY <3>1, <3>2, SeqSubset
  <2>2. every \in Seq(Seq(S))
    <3>. HIDE DEF ofDocument, M
    <3>1. every = [i \in DOMAIN ofDocument(d) |-> ScopesOf(ofDocument(d)[i])]
      BY DEF MapSeq
    <3>2. DOMAIN ofDocument(d) = 1 .. Len(ofDocument(d)) /\ Len(ofDocument(d)) \in Nat
      BY <2>1
    <3>. HIDE DEF every
    <3>. QED  BY <1>2, <3>1, <3>2
  <2>3. FlattenSeq(every) \in Seq(S)
    <3>. HIDE DEF every
    <3>. QED  BY <2>2, FlattenedType
  <2>. HIDE DEF every
  <2>. QED  BY <2>3, CollectInto DEF every
<1>. HIDE DEF DocumentScopes
<1>5. unresolved \in Seq({e \in E : e.signals = {}})
  <2>. DEFINE U == {e \in E : e.signals = {}}
  <2>1. silent \in Seq(U)
    <3>1. silent \in Seq({chunks[i] : i \in KU})
      <4>1. KU \in SUBSET DOMAIN chunks
        OBVIOUS
      <4>. HIDE DEF KU
      <4>. QED  BY <4>1, KeptType
    <3>2. {chunks[i] : i \in KU} \subseteq U
      OBVIOUS
    <3>. HIDE DEF silent, U, KU
    <3>. QED  BY <3>1, <3>2, SeqSubset
  <2>. HIDE DEF silent
  <2>2. DOMAIN silent = 1 .. Len(silent) /\ Len(silent) \in Nat /\ \A i \in DOMAIN silent : silent[i] \in U
    <3>. HIDE DEF U
    <3>. QED  BY <2>1
  <2>3. unresolved = [i \in DOMAIN silent |->
                        [silent[i] EXCEPT !.matched = DocumentScopes(silent[i].document)]]
    BY DEF MapSeq
  <2>4. \A i \in DOMAIN silent : unresolved[i] \in U
    <3>1. \A e \in U : \A m \in Seq(S) : [e EXCEPT !.matched = m] \in U
      OBVIOUS
    <3>. HIDE DEF U, unresolved
    <3>. QED  BY <1>4, <2>2, <2>3, <3>1
  <2>. HIDE DEF U, unresolved
  <2>5. unresolved \in [1 .. Len(silent) -> U]
    BY <2>2, <2>3, <2>4
  <2>6. unresolved \in Seq(U)
    BY <2>2, <2>5
  <2>. QED  BY <2>6 DEF U
<1>. HIDE DEF unresolved
<1>6. resolved \in Seq({e \in E : e.signals = {}})
  <2>. DEFINE U == {e \in E : e.signals = {}}
  <2>1. resolved \in Seq({unresolved[i] : i \in KR})
    <3>1. KR \in SUBSET DOMAIN unresolved
      OBVIOUS
    <3>. HIDE DEF KR
    <3>. QED  BY <1>5, <3>1, KeptType
  <2>2. {unresolved[i] : i \in KR} \subseteq U
    <3>. HIDE DEF U
    <3>. QED  BY <1>5 DEF U
  <2>. HIDE DEF resolved, U
  <2>3. resolved \in Seq(U)
    BY <2>1, <2>2, SeqSubset
  <2>. QED  BY <2>3 DEF U
<1>. HIDE DEF resolved
<1>7. found \in Seq({e \in E : Answers(e.signals, scopes)})
  <2>. DEFINE M == {e \in E : Answers(e.signals, scopes)}
  <2>1. DOMAIN matched = 1 .. Len(matched) /\ Len(matched) \in Nat /\ \A i \in DOMAIN matched : matched[i] \in M
    <3>. HIDE DEF M
    <3>. QED  BY <1>3 DEF M
  <2>2. found = [i \in DOMAIN matched |-> [matched[i] EXCEPT !.matched = ScopesOf(matched[i])]]
    BY DEF MapSeq
  <2>3. \A i \in DOMAIN matched : found[i] \in M
    <3>1. \A e \in M : \A m \in Seq(S) : [e EXCEPT !.matched = m] \in M
      OBVIOUS
    <3>. HIDE DEF M, found
    <3>. QED  BY <1>2, <2>1, <2>2, <3>1
  <2>. HIDE DEF M, found
  <2>4. found \in [1 .. Len(matched) -> M]
    BY <2>1, <2>2, <2>3
  <2>5. found \in Seq(M)
    BY <2>1, <2>4
  <2>. QED  BY <2>5 DEF M
<1>. HIDE DEF found
<1>8. found \in Seq(F) /\ resolved \in Seq(F) /\ unresolved \in Seq(F)
  <2>1. {e \in E : e.signals = {}} \subseteq F /\ {e \in E : Answers(e.signals, scopes)} \subseteq F
    OBVIOUS
  <2>. HIDE DEF F
  <2>. QED  BY <1>5, <1>6, <1>7, <2>1, SeqSubset
<1>9. FilterChunksByCaseScopes(chunks, scopes) \in Seq(F)
  <2>. HIDE DEF F
  <2>1. found \o resolved \in Seq(F)
    BY <1>8
  <2>. QED  BY <1>1, <1>8, <2>1
<1>10. F \subseteq G
  OBVIOUS
<1>. HIDE DEF F
<1>. QED  BY <1>9, <1>10, SeqSubset

LEMMA KeptInto ==
  ASSUME NEW S, NEW s \in Seq(S), NEW K \in SUBSET DOMAIN s
  PROVE  Kept(s, K) \in Seq(S)
<1>1. {s[i] : i \in K} \subseteq S
  OBVIOUS
<1>2. Kept(s, K) \in Seq({s[i] : i \in K})
  BY KeptType
<1>. QED  BY <1>1, <1>2, SeqSubset

\* The share of a scope (maxChunks / scopes, rounded down) is a number.
LEMMA ShareType ==
  ASSUME NEW m \in Nat, NEW n \in Nat, n # 0
  PROVE  m \div n \in Nat
OBVIOUS

\* What is balanced is evidence that there was before.
LEMMA BalanceType ==
  ASSUME NEW S, NEW E, NEW chunks \in Seq(E), NEW scopes \in Seq(S), NEW maxChunks \in Nat,
         \A e \in E : e.score \in Nat
  PROVE  BalanceChunksAcrossCaseScopes(chunks, scopes, maxChunks) \in Seq(E)
<1>. DEFINE normalized == CollectCaseScopes(scopes)
            Bucket(s) == Kept(chunks, {i \in DOMAIN chunks : MatchedOf(chunks[i], normalized) = <<s>>})
            shared == Kept(chunks, {i \in DOMAIN chunks : Len(MatchedOf(chunks[i], normalized)) > 1})
            share == maxChunks \div Len(normalized)
            quota == IF share > 1 THEN share ELSE 1
            firsts == MapSeq(LAMBDA s : FirstOf(Bucket(s), quota), normalized)
            rests == MapSeq(LAMBDA s : AfterFirst(Bucket(s), quota), normalized)
            selected == FlattenSeq(firsts)
            spare == shared \o FlattenSeq(rests)
            overflow == MapSeq(LAMBDA i : spare[i],
                          InOrder(DOMAIN spare, LAMBDA i, j :
                            \/ spare[i].score > spare[j].score
                            \/ spare[i].score = spare[j].score /\ i < j))
<1>1. BalanceChunksAcrossCaseScopes(chunks, scopes, maxChunks) =
        IF Len(normalized) <= 1 \/ Len(chunks) <= 1 THEN FirstOf(chunks, maxChunks)
        ELSE selected \o (IF Len(selected) >= maxChunks THEN <<>>
                          ELSE FirstOf(overflow, maxChunks - Len(selected)))
  BY DEF BalanceChunksAcrossCaseScopes, Filtered
<1>2. normalized \in Seq(S)
  BY CollectInto
<1>. HIDE DEF normalized
<1>3. DOMAIN normalized = 1 .. Len(normalized) /\ Len(normalized) \in Nat
  BY <1>2
<1>4. CASE Len(normalized) <= 1 \/ Len(chunks) <= 1
  BY <1>1, <1>4, PartsType
<1>5. CASE ~(Len(normalized) <= 1 \/ Len(chunks) <= 1)
  <2>1. quota \in Nat
    <3>1. Len(normalized) \in Nat /\ Len(normalized) # 0
      <4>. HIDE DEF Bucket, shared, quota, firsts, rests, selected, spare, overflow
      <4>. QED  BY <1>3, <1>5
    <3>2. share \in Nat
      <4>. DEFINE n == Len(normalized)
      <4>. HIDE DEF n
      <4>1. n \in Nat /\ n # 0
        BY <3>1 DEF n
      <4>2. maxChunks \div n \in Nat
        BY ONLY maxChunks \in Nat, <4>1, ShareType
      <4>. QED  BY <4>2 DEF n
    <3>. HIDE DEF share
    <3>. QED  BY <3>2
  <2>2. \A s : Bucket(s) \in Seq(E)
    <3>1. ASSUME NEW s
          PROVE  Bucket(s) \in Seq(E)
      <4>. DEFINE K == {i \in DOMAIN chunks : MatchedOf(chunks[i], normalized) = <<s>>}
      <4>1. K \in SUBSET DOMAIN chunks
        OBVIOUS
      <4>. HIDE DEF K
      <4>. QED  BY <4>1, KeptInto DEF K
    <3>. QED  BY <3>1
  <2>3. shared \in Seq(E)
    <3>. DEFINE K == {i \in DOMAIN chunks : Len(MatchedOf(chunks[i], normalized)) > 1}
    <3>1. K \in SUBSET DOMAIN chunks
      OBVIOUS
    <3>. HIDE DEF K
    <3>. QED  BY <3>1, KeptInto DEF K
  <2>. HIDE DEF Bucket, quota, shared
  <2>4. firsts \in Seq(Seq(E)) /\ rests \in Seq(Seq(E))
    <3>1. /\ firsts = [i \in DOMAIN normalized |-> FirstOf(Bucket(normalized[i]), quota)]
          /\ rests = [i \in DOMAIN normalized |-> AfterFirst(Bucket(normalized[i]), quota)]
      BY DEF MapSeq
    <3>2. \A s : FirstOf(Bucket(s), quota) \in Seq(E) /\ AfterFirst(Bucket(s), quota) \in Seq(E)
      BY <2>1, <2>2, PartsType
    <3>. HIDE DEF firsts, rests
    <3>3. firsts \in [1 .. Len(normalized) -> Seq(E)] /\ rests \in [1 .. Len(normalized) -> Seq(E)]
      BY <1>3, <3>1, <3>2
    <3>. DEFINE T == Seq(E)
    <3>. HIDE DEF T
    <3>4. \A f \in [1 .. Len(normalized) -> T] : f \in Seq(T)
      BY <1>3
    <3>5. firsts \in Seq(T) /\ rests \in Seq(T)
      BY <3>3, <3>4 DEF T
    <3>. QED  BY <3>5 DEF T
  <2>. HIDE DEF firsts, rests
  <2>5. selected \in Seq(E) /\ FlattenSeq(rests) \in Seq(E)
    BY <2>4, FlattenedType
  <2>6. spare \in Seq(E)
    BY <2>3, <2>5
  <2>. HIDE DEF spare, selected
  <2>7. overflow \in Seq(E)
    BY <2>6, ByScoreType
  <2>. HIDE DEF overflow
  <2>8. CASE Len(selected) >= maxChunks
    <3>1. selected \o <<>> \in Seq(E)
      BY <2>5
    <3>. QED  BY <1>1, <1>5, <2>8, <3>1
  <2>9. CASE ~(Len(selected) >= maxChunks)
    <3>1. maxChunks - Len(selected) \in Nat
      BY <2>5, <2>9
    <3>2. FirstOf(overflow, maxChunks - Len(selected)) \in Seq(E)
      BY <2>7, <3>1, PartsType
    <3>3. selected \o FirstOf(overflow, maxChunks - Len(selected)) \in Seq(E)
      BY <2>5, <3>2
    <3>. QED  BY <1>1, <1>5, <2>9, <3>3
  <2>. QED  BY <2>8, <2>9
<1>. QED  BY <1>4, <1>5

LEMMA ShareFits ==
  ASSUME NEW m \in Nat, NEW n \in Nat, n # 0
  PROVE  n * (m \div n) <= m
OBVIOUS

LEMMA FirstOfParts ==
  ASSUME NEW S, NEW s \in Seq(S), NEW n \in Nat
  PROVE  /\ FirstOf(s, n) \in Seq(S) /\ Len(FirstOf(s, n)) <= n
         /\ n >= 1 /\ s # <<>> => Len(FirstOf(s, n)) >= 1 /\ FirstOf(s, n)[1] = s[1]
<1>. DEFINE m == IF n < Len(s) THEN n ELSE Len(s)
<1>1. m \in 0 .. Len(s) /\ m <= n /\ Len(s) \in Nat
  OBVIOUS
<1>2. n >= 1 /\ s # <<>> => m >= 1
  OBVIOUS
<1>3. FirstOf(s, n) = SubSeq(s, 1, m)
  BY DEF FirstOf
<1>. HIDE DEF m
<1>4. SubSeq(s, 1, m) \in Seq(S) /\ Len(SubSeq(s, 1, m)) = m
  BY <1>1
<1>5. m >= 1 => SubSeq(s, 1, m)[1] = s[1]
  BY <1>1
<1>. QED  BY <1>1, <1>2, <1>3, <1>4, <1>5

\* Where several scopes are asked about, every scope that some chunk is matched with alone
\* has such a chunk among those that are kept, however the others score: no case is crowded
\* out of the evidence by another (balanceChunksAcrossCaseScopes, pipeline.ts).  And what is
\* kept is no more than maxChunks, or one chunk for each scope.
THEOREM BalanceRepresents ==
  ASSUME NEW S, NEW E, NEW chunks \in Seq(E), NEW scopes \in Seq(S), NEW maxChunks \in Nat,
         \A e \in E : e.score \in Nat
  PROVE  LET normalized == CollectCaseScopes(scopes)
             kept == BalanceChunksAcrossCaseScopes(chunks, scopes, maxChunks)
         IN /\ Len(kept) <= maxChunks \/ Len(kept) <= Len(normalized)
            /\ Len(normalized) > 1 /\ Len(chunks) > 1 =>
                 \A k \in 1 .. Len(normalized), i \in 1 .. Len(chunks) :
                   MatchedOf(chunks[i], normalized) = <<normalized[k]>> =>
                     \E j \in 1 .. Len(kept) : MatchedOf(kept[j], normalized) = <<normalized[k]>>
<1>. DEFINE normalized == CollectCaseScopes(scopes)
            kept == BalanceChunksAcrossCaseScopes(chunks, scopes, maxChunks)
            n == Len(normalized)
            Of(s) == {i \in DOMAIN chunks : MatchedOf(chunks[i], normalized) = <<s>>}
            Bucket(s) == Kept(chunks, Of(s))
            shared == Kept(chunks, {i \in DOMAIN chunks : Len(MatchedOf(chunks[i], normalized)) > 1})
            share == maxChunks \div n
            quota == IF share > 1 THEN share ELSE 1
            firsts == MapSeq(LAMBDA s : FirstOf(Bucket(s), quota), normalized)
            rests == MapSeq(LAMBDA s : AfterFirst(Bucket(s), quota), normalized)
            selected == FlattenSeq(firsts)
            spare == shared \o FlattenSeq(rests)
            overflow == MapSeq(LAMBDA i : spare[i],
                          InOrder(DOMAIN spare, LAMBDA i, j :
                            \/ spare[i].score > spare[j].score
                            \/ spare[i].score = spare[j].score /\ i < j))
            more == IF Len(selected) >= maxChunks THEN <<>>
                    ELSE FirstOf(overflow, maxChunks - Len(selected))
<1>1. kept = IF n <= 1 \/ Len(chunks) <= 1 THEN FirstOf(chunks, maxChunks) ELSE selected \o more
  BY DEF BalanceChunksAcrossCaseScopes, Filtered
<1>2. normalized \in Seq(S) /\ n \in Nat /\ DOMAIN normalized = 1 .. n
  <2>1. normalized \in Seq(S)
    BY CollectInto
  <2>. HIDE DEF normalized
  <2>. QED  BY <2>1
<1>3. CASE n <= 1 \/ Len(chunks) <= 1
  <2>1. Len(kept) <= maxChunks
    BY <1>1, <1>3, FirstOfParts
  <2>2. ~(n > 1 /\ Len(chunks) > 1)
    <3>. HIDE DEF normalized
    <3>. QED  BY <1>2, <1>3
  <2>. QED  BY <2>1, <2>2
<1>4. CASE ~(n <= 1 \/ Len(chunks) <= 1)
  <2>. HIDE DEF normalized, kept, Bucket, shared
  <2>1. quota \in Nat /\ quota >= 1 /\ (n * quota <= maxChunks \/ n * quota = n)
    <3>. HIDE DEF n, selected, more
    <3>1. n \in Nat /\ n # 0
      BY <1>2, <1>4
    <3>2. share \in Nat /\ n * share <= maxChunks
      BY ONLY maxChunks \in Nat, <3>1, ShareType, ShareFits
    <3>. HIDE DEF share
    <3>3. CASE share > 1
      BY <3>2, <3>3
    <3>4. CASE ~(share > 1)
      <4>1. quota = 1
        BY <3>4
      <4>2. n * 1 = n
        BY <3>1
      <4>. QED  BY <4>1, <4>2
    <3>. QED  BY <3>3, <3>4
  <2>2. ASSUME NEW s
        PROVE  /\ Bucket(s) \in Seq(E)
               /\ Of(s) # {} => Bucket(s) # <<>> /\ MatchedOf(Bucket(s)[1], normalized) = <<s>>
    <3>. DEFINE K == Of(s)  M == {chunks[i] : i \in K}  b == Kept(chunks, K)
    <3>0. K \in SUBSET DOMAIN chunks
      OBVIOUS
    <3>1. \A e \in M : e \in E /\ MatchedOf(e, normalized) = <<s>>
      OBVIOUS
    <3>. HIDE DEF K
    <3>2. b \in Seq(M) /\ (b = <<>> <=> K = {})
      BY <3>0, KeptType
    <3>. HIDE DEF M, b
    <3>3. b \in Seq(E)
      <4>1. M \subseteq E
        BY <3>1
      <4>. QED  BY <3>2, <4>1, SeqSubset
    <3>4. b # <<>> => b[1] \in M
      BY ONLY <3>2
    <3>. QED  BY <3>1, <3>2, <3>3, <3>4 DEF Bucket, K, b
  <2>3. shared \in Seq(E)
    <3>. DEFINE K == {i \in DOMAIN chunks : Len(MatchedOf(chunks[i], normalized)) > 1}
    <3>1. K \in SUBSET DOMAIN chunks
      OBVIOUS
    <3>. HIDE DEF K
    <3>. QED  BY <3>1, KeptInto DEF K, shared
  <2>. HIDE DEF quota, Of
  <2>4. /\ firsts = [i \in 1 .. n |-> FirstOf(Bucket(normalized[i]), quota)]
        /\ rests = [i \in 1 .. n |-> AfterFirst(Bucket(normalized[i]), quota)]
    BY <1>2 DEF MapSeq
  <2>5. \A s : /\ FirstOf(Bucket(s), quota) \in Seq(E) /\ Len(FirstOf(Bucket(s), quota)) <= quota
               /\ AfterFirst(Bucket(s), quota) \in Seq(E)
               /\ Of(s) # {} =>
                    /\ Len(FirstOf(Bucket(s), quota)) >= 1
                    /\ MatchedOf(FirstOf(Bucket(s), quota)[1], normalized) = <<s>>
    <3>1. ASSUME NEW s
          PROVE  /\ FirstOf(Bucket(s), quota) \in Seq(E) /\ Len(FirstOf(Bucket(s), quota)) <= quota
                 /\ AfterFirst(Bucket(s), quota) \in Seq(E)
                 /\ Of(s) # {} =>
                      /\ Len(FirstOf(Bucket(s), quota)) >= 1
                      /\ MatchedOf(FirstOf(Bucket(s), quota)[1], normalized) = <<s>>
      BY <2>1, <2>2, FirstOfParts, PartsType
    <3>. QED  BY <3>1
  <2>. HIDE DEF firsts, rests, n
  <2>6. firsts \in Seq(Seq(E)) /\ rests \in Seq(Seq(E)) /\ Len(firsts) = n
    <3>. DEFINE T == Seq(E)
    <3>. HIDE DEF T
    <3>1. firsts \in [1 .. n -> T] /\ rests \in [1 .. n -> T]
      BY <2>4, <2>5 DEF T
    <3>2. \A f \in [1 .. n -> T] : f \in Seq(T) /\ Len(f) = n
      BY <1>2
    <3>. QED  BY <3>1, <3>2 DEF T
  <2>7. /\ selected \in Seq(E) /\ Len(selected) <= n * quota
        /\ \A k \in 1 .. n : \A a \in 1 .. Len(firsts[k]) :
             \E b \in 1 .. Len(selected) : selected[b] = firsts[k][a]
    <3>1. Len(firsts) # 0
      BY <1>2, <1>4, <2>6
    <3>2. \A k \in 1 .. Len(firsts) : Len(firsts[k]) <= quota
      BY <2>4, <2>5, <2>6
    <3>. QED  BY <2>1, <2>6, <3>1, <3>2, FlattenedHasAll
  <2>8. spare \in Seq(E)
    <3>1. FlattenSeq(rests) \in Seq(E)
      BY <2>6, FlattenedType
    <3>. QED  BY <2>3, <3>1
  <2>. HIDE DEF spare, selected
  <2>9. overflow \in Seq(E)
    BY <2>8, ByScoreType
  <2>. HIDE DEF overflow
  <2>10. more \in Seq(E) /\ (Len(selected) < maxChunks => Len(more) <= maxChunks - Len(selected))
         /\ (Len(selected) >= maxChunks => more = <<>>)
    <3>1. Len(selected) \in Nat
      BY <2>7
    <3>2. CASE Len(selected) >= maxChunks
      <4>1. <<>> \in Seq(E)
        OBVIOUS
      <4>. QED  BY <3>1, <3>2, <4>1
    <3>3. CASE ~(Len(selected) >= maxChunks)
      <4>1. maxChunks - Len(selected) \in Nat
        BY <3>1, <3>3
      <4>. QED  BY <2>9, <3>3, <4>1, FirstOfParts
    <3>. QED  BY <3>2, <3>3
  <2>. HIDE DEF more
  <2>11. /\ Len(kept) = Len(selected) + Len(more)
         /\ \A b \in 1 .. Len(selected) : b \in 1 .. Len(kept) /\ kept[b] = selected[b]
    <3>1. kept = selected \o more
      BY <1>1, <1>4
    <3>2. Len(selected) \in Nat /\ Len(more) \in Nat
      BY <2>7, <2>10
    <3>. QED  BY ONLY <2>7, <2>10, <3>1, <3>2, ConcatParts
  <2>12. Len(kept) <= maxChunks \/ Len(kept) <= n
    <3>. DEFINE m == n * quota  a == Len(selected)  b == Len(more)
    <3>1. a \in Nat /\ b \in Nat /\ a <= m /\ (m <= maxChunks \/ m = n) /\ n \in Nat
          /\ (a < maxChunks => b <= maxChunks - a) /\ (a >= maxChunks => b = 0)
      BY <1>2, <2>1, <2>7, <2>10
    <3>2. m \in Nat
      BY <1>2, <2>1
    <3>3. Len(kept) = a + b
      BY <2>11
    <3>. HIDE DEF m, a, b
    <3>. QED  BY <3>1, <3>2, <3>3
  <2>13. ASSUME NEW k \in 1 .. n, NEW i \in 1 .. Len(chunks),
                MatchedOf(chunks[i], normalized) = <<normalized[k]>>
         PROVE  \E j \in 1 .. Len(kept) : MatchedOf(kept[j], normalized) = <<normalized[k]>>
    <3>. DEFINE s == normalized[k]
    <3>1. Of(s) # {}
      BY <2>13 DEF Of
    <3>2. firsts[k] = FirstOf(Bucket(s), quota)
      BY <2>4
    <3>3. 1 \in 1 .. Len(firsts[k]) /\ MatchedOf(firsts[k][1], normalized) = <<s>>
      <4>1. Len(firsts[k]) \in Nat /\ Len(firsts[k]) >= 1
        BY <2>5, <3>1, <3>2
      <4>. QED  BY <2>5, <3>1, <3>2, <4>1
    <3>4. PICK b \in 1 .. Len(selected) : selected[b] = firsts[k][1]
      BY <2>7, <3>3
    <3>5. b \in 1 .. Len(kept) /\ kept[b] = firsts[k][1]
      BY <2>11, <3>4
    <3>. QED  BY <3>3, <3>5
  <2>. QED  BY <2>12, <2>13 DEF n, normalized, kept
<1>. QED  BY <1>3, <1>4

-----------------------------------------------------------------------------
(* The scope of a question, and what is pinned.                            *)

IsResolution(res, S) ==
  /\ res \in [scopes : Seq(S), mode : {"single", "multi", "global"}, source : ScopeSources,
              clarify : BOOLEAN]

PinnedTypes(S, Own) ==
  [set : BOOLEAN, case : S \cup {NoScope}, multi : Seq(S),
   mode : {"none", "single", "multi", "global"}, source : ScopeSources, own : Own]

LEMMA ResolutionType ==
  ASSUME NEW S, NEW Own, NEW question, NEW named \in Seq(S), NEW pinned \in PinnedTypes(S, Own)
  PROVE  IsResolution(ResolveScopeResolution(question, named, pinned), S)
<1>. DEFINE explicit == CollectCaseScopes(named)
            earlier == CollectCaseScopes(pinned.multi)
<1>1. explicit \in Seq(S) /\ earlier \in Seq(S)
  BY CollectInto DEF PinnedTypes
<1>0. ASSUME NEW s \in Seq(S), NEW mode \in {"single", "multi", "global"}, NEW source \in ScopeSources
      PROVE  IsResolution(Resolution(s, mode, source), S)
  <2>. DEFINE T == Seq(S)
  <2>1. s \in T
    OBVIOUS
  <2>. HIDE DEF T
  <2>2. Resolution(s, mode, source)
          \in [scopes : T, mode : {"single", "multi", "global"}, source : ScopeSources, clarify : BOOLEAN]
    BY <2>1 DEF Resolution
  <2>. QED  BY <2>2 DEF IsResolution, T
<1>2. /\ IsResolution(Resolution(explicit, "multi", "explicit_multi"), S)
      /\ IsResolution(Resolution(explicit, "single", "explicit_single"), S)
      /\ IsResolution(Resolution(earlier, "multi", "follow_up_multi"), S)
  <2>. HIDE DEF explicit, earlier
  <2>. QED  BY <1>0, <1>1 DEF ScopeSources
<1>3. IsResolution(GlobalScope, S) /\ IsResolution([GlobalScope EXCEPT !.clarify = TRUE], S)
  <2>. DEFINE T == Seq(S)
  <2>1. <<>> \in Seq(S)
    OBVIOUS
  <2>2. IsResolution(GlobalScope, S)
    BY <1>0, <2>1 DEF GlobalScope, ScopeSources
  <2>. HIDE DEF T
  <2>3. GlobalScope \in [scopes : T, mode : {"single", "multi", "global"}, source : ScopeSources,
                         clarify : BOOLEAN]
    BY <2>2 DEF IsResolution, T
  <2>4. [GlobalScope EXCEPT !.clarify = TRUE]
          \in [scopes : T, mode : {"single", "multi", "global"}, source : ScopeSources, clarify : BOOLEAN]
    BY <2>3
  <2>. QED  BY <2>2, <2>4 DEF IsResolution, T
<1>4. pinned.case # NoScope => IsResolution(Resolution(<<pinned.case>>, "single", "follow_up_single"), S)
  <2>1. pinned.case # NoScope => <<pinned.case>> \in Seq(S)
    BY DEF PinnedTypes
  <2>. QED  BY <1>0, <2>1 DEF ScopeSources
<1>. HIDE DEF explicit, earlier
<1>. DEFINE several == pinned.mode = "multi" /\ Len(pinned.multi) > 1
            A == Len(explicit) > 1
            B == Len(explicit) = 1
            C == Len(explicit) = 0 /\ several /\ question.comparative
            D == Len(explicit) = 0 /\ several /\ ScopedFollowUp(question)
            F == Len(explicit) = 0 /\ ~several /\ ScopedFollowUp(question) /\ pinned.case # NoScope
            a == Resolution(explicit, "multi", "explicit_multi")
            b == Resolution(explicit, "single", "explicit_single")
            c == Resolution(earlier, "multi", "follow_up_multi")
            d == [GlobalScope EXCEPT !.clarify = TRUE]
            f == Resolution(<<pinned.case>>, "single", "follow_up_single")
<1>5. ResolveScopeResolution(question, named, pinned) =
        CASE A -> a [] B -> b [] C -> c [] D -> d [] F -> f [] OTHER -> GlobalScope
  BY DEF ResolveScopeResolution, explicit, earlier
<1>6. F => pinned.case # NoScope
  OBVIOUS
<1>. HIDE DEF A, B, C, D, F, a, b, c, d, f
<1>7. (CASE A -> a [] B -> b [] C -> c [] D -> d [] F -> f [] OTHER -> GlobalScope)
         \in {a, b, c, d, GlobalScope} \/
      (F /\ (CASE A -> a [] B -> b [] C -> c [] D -> d [] F -> f [] OTHER -> GlobalScope) = f)
  OBVIOUS
<1>. QED  BY <1>2, <1>3, <1>4, <1>5, <1>6, <1>7 DEF a, b, c, d, f

LEMMA NextPinnedType ==
  ASSUME NEW S, NEW Own, NEW res, IsResolution(res, S), NEW pinned \in PinnedTypes(S, Own)
  PROVE  NextPinned(pinned, res) \in PinnedTypes(S, Own)
<1>. DEFINE single == res.source = "explicit_single" /\ Len(res.scopes) = 1
            multi == res.source = "explicit_multi" /\ Len(res.scopes) > 1
            same == SameCaseScopes(pinned.multi, res.scopes)
            written == pinned.set \/ res.mode # "global"
            w == pinned.set \/ res.mode # "global"
            a == IF single THEN res.scopes[1] ELSE pinned.case
            b == IF single THEN <<>> ELSE IF multi /\ ~same THEN res.scopes ELSE pinned.multi
            c == IF written THEN res.mode ELSE pinned.mode
            d == IF written THEN res.source ELSE pinned.source
<1>1. /\ pinned.set \in BOOLEAN /\ pinned.case \in S \cup {NoScope} /\ pinned.multi \in Seq(S)
      /\ pinned.mode \in {"none", "single", "multi", "global"} /\ pinned.source \in ScopeSources
      /\ pinned.own \in Own
      /\ res.scopes \in Seq(S) /\ res.mode \in {"single", "multi", "global"}
      /\ res.source \in ScopeSources
  BY DEF PinnedTypes, IsResolution
<1>2. NextPinned(pinned, res) = [pinned EXCEPT !.set = w, !.case = a, !.multi = b, !.mode = c, !.source = d]
  BY DEF NextPinned
<1>3. w \in BOOLEAN /\ c \in {"none", "single", "multi", "global"} /\ d \in ScopeSources
  BY <1>1
<1>4. a \in S \cup {NoScope} /\ b \in Seq(S)
  <2>1. single => res.scopes[1] \in S
    BY <1>1
  <2>2. <<>> \in Seq(S)
    OBVIOUS
  <2>. HIDE DEF single, multi, same
  <2>. QED  BY <1>1, <2>1, <2>2
<1>. HIDE DEF w, a, b, c, d
<1>. QED  BY <1>2, <1>3, <1>4 DEF PinnedTypes
=============================================================================
