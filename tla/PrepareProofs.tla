--------------------------- MODULE PrepareProofs ---------------------------
(***************************************************************************)
(* Proofs about Prepare: what get_targets and prepare_tests may put in    *)
(* standard_targets and tests_to_run, for every build graph, file tree and *)
(* command line.                                                          *)
(*                                                                         *)
(* They rest on lemmas about the two list operations of the model:        *)
(* FilterSeq, a list comprehension, and SortedSeq, sorted().  FilterSeq   *)
(* is a recursive function, so the lemmas first show, by a least          *)
(* counterexample, that a function satisfying its equation exists and     *)
(* what every such function holds.  SortedSeq chooses a sorting           *)
(* permutation; the lemmas show one exists by ranking each element by the *)
(* number of elements below it.                                           *)
(***************************************************************************)
EXTENDS Prepare, FiniteSetTheorems, SequenceTheorems, WellFoundedInduction,
        TLAPS

-----------------------------------------------------------------------------
(* Least elements *)

\* Every non-empty set of naturals has a least element.
LEMMA LeastNat ==
    ASSUME NEW S \in SUBSET Nat, S # {}
    PROVE  \E m \in S : \A y \in S : m <= y
<1>1. \E x \in S : \A y \in S : ~(<<y, x>> \in OpToRel(<, Nat))
  BY NatLessThanWellFounded, WFMin
<1>2. ASSUME NEW x \in Nat, NEW y \in Nat, ~(<<y, x>> \in OpToRel(<, Nat))
      PROVE  x <= y
  <2>1. <<y, x>> \in Nat \X Nat
    OBVIOUS
  <2>2. ~(y < x)
    BY <1>2, <2>1, Zenon DEF OpToRel
  <2>. QED
    BY <2>2
<1>. QED
  BY <1>1, <1>2

-----------------------------------------------------------------------------
(* FilterSeq *)

\* One step of FilterSeq's recursive function kept, for a function G.
FilterBody(s, T, G, i) ==
    IF i = 0 THEN << >>
    ELSE IF s[i] \in T THEN Append(G[i - 1], s[i]) ELSE G[i - 1]

\* The equation that defines kept.
FilterEq(s, T, F) == F = [i \in 0..Len(s) |-> FilterBody(s, T, F, i)]

\* A function from 0..n to sequences over X satisfies the equation up to n.
FilterUpto(s, X, T, n) ==
    \E G \in [0..n -> Seq(X)] : \A i \in 0..n : G[i] = FilterBody(s, T, G, i)

\* A function satisfying the equation exists: it is built up to each
\* length in turn, and a least length without one cannot be.
LEMMA FilterExists ==
    ASSUME NEW X, NEW s \in Seq(X), NEW T
    PROVE  \E F : FilterEq(s, T, F)
<1>0. Len(s) \in Nat
  BY LenProperties
<1>1. \A n \in 0..Len(s) : FilterUpto(s, X, T, n)
  <2> SUFFICES ASSUME NEW n0 \in 0..Len(s), ~FilterUpto(s, X, T, n0)
               PROVE  FALSE
    OBVIOUS
  <2> DEFINE Bad == {n \in 0..Len(s) : ~FilterUpto(s, X, T, n)}
  <2>1. Bad \subseteq Nat /\ Bad # {}
    BY <1>0
  <2>2. PICK m \in Bad : \A y \in Bad : m <= y
    BY <2>1, LeastNat
  <2>3. FilterUpto(s, X, T, 0)
    <3> DEFINE G0 == [i \in 0..0 |-> << >>]
    <3>1. G0 \in [0..0 -> Seq(X)]
      BY EmptySeq
    <3>2. \A i \in 0..0 : G0[i] = FilterBody(s, T, G0, i)
      BY DEF FilterBody
    <3> SUFFICES \E G \in [0..0 -> Seq(X)] :
                   \A i \in 0..0 : G[i] = FilterBody(s, T, G, i)
      BY DEF FilterUpto
    <3> WITNESS G0 \in [0..0 -> Seq(X)]
    <3>. QED
      BY <3>2
  <2>4. m \in 1..Len(s)
    BY <1>0, <2>2, <2>3
  <2>5. FilterUpto(s, X, T, m - 1)
    BY <1>0, <2>2, <2>4
  <2>6. PICK G \in [0..m - 1 -> Seq(X)] :
               \A i \in 0..m - 1 : G[i] = FilterBody(s, T, G, i)
    BY <2>5 DEF FilterUpto
  <2> DEFINE H == [i \in 0..m |-> IF i < m THEN G[i] ELSE FilterBody(s, T, G, m)]
  <2>7. s[m] \in X
    BY <2>4, ElementOfSeq
  <2>8. FilterBody(s, T, G, m) \in Seq(X)
    <3>1. G[m - 1] \in Seq(X)
      BY <2>4, <2>6
    <3>. QED
      BY <2>4, <2>7, <3>1, AppendProperties DEF FilterBody
  <2>9. H \in [0..m -> Seq(X)]
    BY <2>4, <2>6, <2>8
  <2>10. \A i \in 0..m : H[i] = FilterBody(s, T, H, i)
    <3> SUFFICES ASSUME NEW i \in 0..m
                 PROVE  H[i] = FilterBody(s, T, H, i)
      OBVIOUS
    <3>1. CASE i = 0
      BY <3>1, <2>4, <2>6 DEF FilterBody
    <3>2. CASE i \in 1..m - 1
      <4>1. H[i] = G[i] /\ H[i - 1] = G[i - 1]
        BY <3>2, <2>4
      <4>2. FilterBody(s, T, H, i) = FilterBody(s, T, G, i)
        BY <3>2, <4>1 DEF FilterBody
      <4>3. G[i] = FilterBody(s, T, G, i)
        BY <3>2, <2>6
      <4>. QED
        BY <4>1, <4>2, <4>3
    <3>3. CASE i = m
      <4>1. H[i] = FilterBody(s, T, G, m) /\ H[i - 1] = G[i - 1]
        BY <3>3, <2>4
      <4>. QED
        BY <3>3, <4>1, <2>4 DEF FilterBody
    <3>. QED
      BY <3>1, <3>2, <3>3, <2>4
  <2>11. FilterUpto(s, X, T, m)
    <3> SUFFICES \E K \in [0..m -> Seq(X)] :
                   \A i \in 0..m : K[i] = FilterBody(s, T, K, i)
      BY DEF FilterUpto
    <3> WITNESS H \in [0..m -> Seq(X)]
    <3>. QED
      BY <2>10
  <2>. QED
    BY <2>2, <2>11
<1>2. FilterUpto(s, X, T, Len(s))
  BY <1>0, <1>1
<1>3. PICK G \in [0..Len(s) -> Seq(X)] :
             \A i \in 0..Len(s) : G[i] = FilterBody(s, T, G, i)
  BY <1>2 DEF FilterUpto
<1>4. FilterEq(s, T, G)
  BY <1>3 DEF FilterEq
<1>. QED
  BY <1>4

\* Every function satisfying the equation holds, at each length, a sequence
\* of elements of s that are in T.
LEMMA FilterType ==
    ASSUME NEW X, NEW s \in Seq(X), NEW T, NEW F, FilterEq(s, T, F)
    PROVE  \A i \in 0..Len(s) : F[i] \in Seq(T \cap Range(s))
<1>0. Len(s) \in Nat
  BY LenProperties
<1> SUFFICES ASSUME NEW i0 \in 0..Len(s), F[i0] \notin Seq(T \cap Range(s))
             PROVE  FALSE
  OBVIOUS
<1> DEFINE Bad == {i \in 0..Len(s) : F[i] \notin Seq(T \cap Range(s))}
<1>1. Bad \subseteq Nat /\ Bad # {}
  BY <1>0
<1>2. PICK m \in Bad : \A y \in Bad : m <= y
  BY <1>1, LeastNat
<1>3. \A i \in 0..Len(s) : F[i] = FilterBody(s, T, F, i)
  BY DEF FilterEq
<1>4. F[0] = << >>
  BY <1>0, <1>3 DEF FilterBody
<1>5. m \in 1..Len(s)
  <2>1. 0 \notin Bad
    BY <1>4, EmptySeq
  <2>. QED
    BY <1>0, <1>2, <2>1
<1>6. F[m - 1] \in Seq(T \cap Range(s))
  BY <1>0, <1>2, <1>5
<1>7. F[m] = IF s[m] \in T THEN Append(F[m - 1], s[m]) ELSE F[m - 1]
  BY <1>3, <1>5 DEF FilterBody
<1>8. s[m] \in Range(s)
  BY <1>5 DEF Range
<1>9. F[m] \in Seq(T \cap Range(s))
  <2>1. CASE s[m] \in T
    BY <1>6, <1>7, <1>8, <2>1, AppendProperties
  <2>2. CASE s[m] \notin T
    BY <1>6, <1>7, <2>2
  <2>. QED
    BY <2>1, <2>2
<1>. QED
  BY <1>2, <1>9

\* A list comprehension keeps only elements of its list that pass its test.
LEMMA FilterSeqType ==
    ASSUME NEW X, NEW s \in Seq(X), NEW T
    PROVE  FilterSeq(s, T) \in Seq(T \cap Range(s))
<1>1. \E F : FilterEq(s, T, F)
  BY FilterExists
<1> DEFINE K == CHOOSE F : FilterEq(s, T, F)
<1>2. FilterEq(s, T, K)
  BY <1>1
<1>3. Len(s) \in 0..Len(s)
  BY LenProperties
<1>4. K[Len(s)] \in Seq(T \cap Range(s))
  BY <1>2, <1>3, FilterType
<1>. QED
  BY <1>4 DEF FilterSeq, FilterEq, FilterBody

-----------------------------------------------------------------------------
(* SortedSeq *)

\* The elements of D below x in the order R.
Below(D, R, x) == {y \in D : <<y, x>> \in R}

\* The place of each element of D in the sorted order: one more than the
\* number of elements below it.
Rank(D, R) == [x \in D |-> Cardinality(Below(D, R, x)) + 1]

\* A strict total order: irreflexive, transitive and total.
StrictTotal(D, R) ==
    /\ R \subseteq D \X D
    /\ \A a \in D : <<a, a>> \notin R
    /\ \A a, b, c \in D : <<a, b>> \in R /\ <<b, c>> \in R => <<a, c>> \in R
    /\ \A a, b \in D : a # b => <<a, b>> \in R \/ <<b, a>> \in R

\* A finite set under a strict total order has an enumeration in that
\* order: the inverse of the rank.
LEMMA SortedEnumeration ==
    ASSUME NEW D, IsFiniteSet(D), NEW R, StrictTotal(D, R)
    PROVE  \E f \in Bijection(1..Cardinality(D), D) :
             \A i, j \in 1..Cardinality(D) : i < j => <<f[i], f[j]>> \in R
<1> DEFINE n == Cardinality(D)
           rk == Rank(D, R)
<1>1. n \in Nat
  BY FS_CardinalityType
<1>2. ASSUME NEW x \in D
      PROVE  /\ IsFiniteSet(Below(D, R, x))
             /\ Cardinality(Below(D, R, x)) \in 0..n - 1
  <2>1. Below(D, R, x) \subseteq D \ {x}
    BY DEF StrictTotal, Below
  <2>2. IsFiniteSet(D \ {x}) /\ Cardinality(D \ {x}) = n - 1
    BY FS_RemoveElement
  <2>3. IsFiniteSet(Below(D, R, x)) /\ Cardinality(Below(D, R, x)) <= n - 1
    BY <2>1, <2>2, FS_Subset
  <2>4. Cardinality(Below(D, R, x)) \in Nat
    BY <2>3, FS_CardinalityType
  <2>. QED
    BY <2>3, <2>4
<1>3. ASSUME NEW x \in D, NEW y \in D, <<x, y>> \in R
      PROVE  rk[x] < rk[y]
  <2>1. Below(D, R, x) \cup {x} \subseteq Below(D, R, y)
    BY <1>3 DEF StrictTotal, Below
  <2>2. x \notin Below(D, R, x)
    BY DEF StrictTotal, Below
  <2>3. Cardinality(Below(D, R, x) \cup {x}) = Cardinality(Below(D, R, x)) + 1
    BY <1>2, <2>2, FS_AddElement
  <2>4. Cardinality(Below(D, R, x) \cup {x}) <= Cardinality(Below(D, R, y))
    BY <1>2, <2>1, FS_Subset
  <2>. QED
    BY <1>2, <2>3, <2>4 DEF Rank
<1>4. ASSUME NEW x \in D, NEW y \in D, x # y
      PROVE  rk[x] # rk[y]
  <2>1. <<x, y>> \in R \/ <<y, x>> \in R
    BY <1>4 DEF StrictTotal
  <2>2. rk[x] \in Nat /\ rk[y] \in Nat
    BY <1>2 DEF Rank
  <2>. QED
    BY <2>1, <2>2, <1>3
<1>5. rk \in Injection(D, 1..n)
  <2>1. rk \in [D -> 1..n]
    BY <1>1, <1>2 DEF Rank
  <2>. QED
    BY <2>1, <1>4 DEF Injection, IsInjective
<1>6. rk \in Surjection(D, 1..n)
  <2>1. IsFiniteSet(1..n) /\ Cardinality(1..n) = n
    BY <1>1, FS_Interval
  <2>. QED
    BY <1>5, <2>1, FS_Injection
<1> DEFINE f == [i \in 1..n |-> CHOOSE x \in D : rk[x] = i]
<1>7. \A i \in 1..n : f[i] \in D /\ rk[f[i]] = i
  BY <1>6 DEF Surjection
<1>8. f \in Bijection(1..n, D)
  <2>1. f \in [1..n -> D]
    BY <1>7
  <2>2. IsInjective(f)
    BY <1>7 DEF IsInjective
  <2>3. \A x \in D : \E i \in 1..n : f[i] = x
    <3> SUFFICES ASSUME NEW x \in D PROVE \E i \in 1..n : f[i] = x
      OBVIOUS
    <3>1. rk[x] \in 1..n
      BY <1>5 DEF Injection
    <3>2. f[rk[x]] = x
      BY <1>4, <1>7, <3>1
    <3>. QED
      BY <3>1, <3>2
  <2>. QED
    BY <2>1, <2>2, <2>3 DEF Bijection, Injection, Surjection
<1>9. \A i, j \in 1..n : i < j => <<f[i], f[j]>> \in R
  <2> SUFFICES ASSUME NEW i \in 1..n, NEW j \in 1..n, i < j
               PROVE  <<f[i], f[j]>> \in R
    OBVIOUS
  <2>1. f[i] # f[j]
    BY <1>7
  <2>2. ~(<<f[j], f[i]>> \in R)
    BY <1>3, <1>7
  <2>. QED
    BY <1>7, <2>1, <2>2 DEF StrictTotal
<1>. QED
  BY <1>8, <1>9

\* The order of the positions of s by their elements, ties broken by
\* position.
PosOrder(s, RV) ==
    {ij \in (1..Len(s)) \X (1..Len(s)) :
       \/ <<s[ij[1]], s[ij[2]]>> \in RV
       \/ s[ij[1]] = s[ij[2]] /\ ij[1] < ij[2]}

\* Every sequence over a strictly totally ordered set has a sorting
\* permutation: the enumeration of its positions in PosOrder.
LEMMA SortPermExists ==
    ASSUME NEW V, NEW RV, StrictTotal(V, RV), NEW s \in Seq(V)
    PROVE  \E p \in Bijection(1..Len(s), 1..Len(s)) :
             \A i, j \in 1..Len(s) :
               i < j => <<s[p[i]], s[p[j]]>> \in RV \/ s[p[i]] = s[p[j]]
<1> DEFINE D == 1..Len(s)
           P == PosOrder(s, RV)
<1>1. Len(s) \in Nat /\ IsFiniteSet(D) /\ Cardinality(D) = Len(s)
  <2>1. Len(s) \in Nat
    BY LenProperties
  <2>2. IsFiniteSet(1..Len(s)) /\ Cardinality(1..Len(s)) = Len(s)
    BY <2>1, FS_Interval
  <2>. QED
    BY <2>1, <2>2
<1>2. \A i \in D : s[i] \in V
  BY ElementOfSeq
<1>3. StrictTotal(D, P)
  <2>1. P \subseteq D \X D
    BY DEF PosOrder
  <2>2. \A a \in D : <<a, a>> \notin P
    <3> SUFFICES ASSUME NEW a \in D PROVE <<a, a>> \notin P
      OBVIOUS
    <3>1. <<s[a], s[a]>> \notin RV
      BY <1>2 DEF StrictTotal
    <3>. QED
      BY <3>1 DEF PosOrder
  <2>3. \A a, b, c \in D : <<a, b>> \in P /\ <<b, c>> \in P => <<a, c>> \in P
    <3> SUFFICES ASSUME NEW a \in D, NEW b \in D, NEW c \in D,
                        <<a, b>> \in P, <<b, c>> \in P
                 PROVE  <<a, c>> \in P
      OBVIOUS
    <3>1. /\ <<s[a], s[b]>> \in RV \/ (s[a] = s[b] /\ a < b)
          /\ <<s[b], s[c]>> \in RV \/ (s[b] = s[c] /\ b < c)
      BY DEF PosOrder
    <3>2. <<s[a], s[c]>> \in RV \/ (s[a] = s[c] /\ a < c)
      BY <1>2, <3>1 DEF StrictTotal
    <3>. QED
      BY <3>2 DEF PosOrder
  <2>4. \A a, b \in D : a # b => <<a, b>> \in P \/ <<b, a>> \in P
    <3> SUFFICES ASSUME NEW a \in D, NEW b \in D, a # b
                 PROVE  <<a, b>> \in P \/ <<b, a>> \in P
      OBVIOUS
    <3>1. CASE s[a] = s[b]
      BY <3>1 DEF PosOrder
    <3>2. CASE s[a] # s[b]
      <4>1. <<s[a], s[b]>> \in RV \/ <<s[b], s[a]>> \in RV
        BY <1>2, <3>2 DEF StrictTotal
      <4>. QED
        BY <4>1 DEF PosOrder
    <3>. QED
      BY <3>1, <3>2
  <2>. QED
    BY <2>1, <2>2, <2>3, <2>4 DEF StrictTotal
<1>4. PICK f \in Bijection(1..Len(s), D) :
             \A i, j \in 1..Len(s) : i < j => <<f[i], f[j]>> \in P
  BY <1>1, <1>3, SortedEnumeration
<1>5. f \in [1..Len(s) -> D]
  BY <1>4 DEF Bijection, Injection
<1>6. \A i, j \in 1..Len(s) :
        i < j => <<s[f[i]], s[f[j]]>> \in RV \/ s[f[i]] = s[f[j]]
  BY <1>4, <1>5 DEF PosOrder
<1>. QED
  BY <1>4, <1>6

\* A sequence read through a map of its positions into its positions is a
\* sequence of its elements.
LEMMA ReindexSeq ==
    ASSUME NEW X, NEW s \in Seq(X), NEW q \in [1..Len(s) -> 1..Len(s)]
    PROVE  [i \in 1..Len(s) |-> s[q[i]]] \in Seq(Range(s))
<1>1. Len(s) \in Nat /\ DOMAIN s = 1..Len(s)
  BY LenProperties
<1>2. [i \in 1..Len(s) |-> s[q[i]]] \in [1..Len(s) -> Range(s)]
  BY <1>1 DEF Range
<1>. QED
  BY <1>1, <1>2, SeqDef

\* sorted() under a strict total order returns a list of the list's
\* elements.
LEMMA SortedSeqType ==
    ASSUME NEW V, NEW R, StrictTotal(V, R), NEW s \in Seq(V)
    PROVE  SortedSeq(s, R) \in Seq(Range(s))
<1> DEFINE Sorts(p) == \A i, j \in 1..Len(s) :
                         i < j => << s[p[i]], s[p[j]] >> \in R \/ s[p[i]] = s[p[j]]
           perm == CHOOSE p \in Bijection(1..Len(s), 1..Len(s)) : Sorts(p)
<1>1. \E p \in Bijection(1..Len(s), 1..Len(s)) : Sorts(p)
  BY SortPermExists
<1>2. perm \in [1..Len(s) -> 1..Len(s)]
  BY <1>1 DEF Bijection, Injection
<1>3. [i \in 1..Len(s) |-> s[perm[i]]] \in Seq(Range(s))
  BY <1>2, ReindexSeq
<1>. QED
  BY <1>3 DEF SortedSeq

\* Labels, naturals ordered as their strings are, are strictly totally
\* ordered.
LEMMA LabelLessTotal == StrictTotal(Nat, LabelLess)
  BY DEF StrictTotal, LabelLess

\* Tuples of naturals compared element by element are strictly totally
\* ordered.
LEMMA ArtifactLessTotal == StrictTotal(Nat \X Nat, ArtifactLess)
<1> DEFINE V == Nat \X Nat
<1>1. \A a \in V : <<a, a>> \notin ArtifactLess
  BY DEF ArtifactLess, PairLess
<1>2. \A a, b, c \in V : <<a, b>> \in ArtifactLess /\ <<b, c>> \in ArtifactLess
                           => <<a, c>> \in ArtifactLess
  BY DEF ArtifactLess, PairLess
<1>3. \A a, b \in V : a # b => <<a, b>> \in ArtifactLess \/ <<b, a>> \in ArtifactLess
  <2> SUFFICES ASSUME NEW a \in V, NEW b \in V, a # b
               PROVE  PairLess(a, b) \/ PairLess(b, a)
    BY DEF ArtifactLess
  <2>1. a[1] # b[1] \/ a[2] # b[2]
    OBVIOUS
  <2>. QED
    BY <2>1 DEF PairLess
<1>4. ArtifactLess \subseteq V \X V
  BY DEF ArtifactLess
<1>. QED
  BY <1>1, <1>2, <1>3, <1>4 DEF StrictTotal

\* SetToSeq lists a finite set, each element once.
LEMMA SetToSeqType ==
    ASSUME NEW S, IsFiniteSet(S)
    PROVE  SetToSeq(S) \in Seq(S)
<1>1. Cardinality(S) \in Nat /\ ExistsBijection(1..Cardinality(S), S)
  BY FS_CardinalityType
<1>2. \E f \in [1..Cardinality(S) -> S] : IsInjective(f)
  BY <1>1 DEF ExistsBijection, Bijection, Injection
<1>3. SetToSeq(S) \in [1..Cardinality(S) -> S]
  BY <1>2 DEF SetToSeq
<1>. QED
  BY <1>1, <1>3, SeqDef

\* s[:limit] keeps a prefix of s: every element of the cut list is one of
\* s, whatever the limit, negative or zero included.
LEMMA PyHeadType ==
    ASSUME NEW X, NEW s \in Seq(X), NEW limit \in Int \cup {None}
    PROVE  PyHead(s, limit) \in Seq(X)
<1>1. Len(s) \in Nat
  BY LenProperties
<1>1a. None \notin Int
  BY PrepareAssumption
<1>2. CASE limit = None \/ limit = 0
  BY <1>2 DEF PyHead
<1>3. CASE limit # None /\ limit # 0
  <2> DEFINE n == IF limit >= 0 THEN Min({limit, Len(s)})
                  ELSE Max({Len(s) + limit, 0})
  <2>1. limit \in Int
    BY <1>3
  <2>2. n \in Int /\ n <= Len(s)
    <3>1. CASE limit >= 0
      <4>1. Min({limit, Len(s)}) \in {limit, Len(s)}
            /\ Min({limit, Len(s)}) <= Len(s)
        BY <1>1, <2>1 DEF Min
      <4>. QED
        BY <3>1, <4>1, <1>1, <2>1
    <3>2. CASE ~(limit >= 0)
      <4>1. Max({Len(s) + limit, 0}) \in {Len(s) + limit, 0}
        BY <1>1, <2>1 DEF Max
      <4>. QED
        BY <3>2, <4>1, <1>1, <2>1
    <3>. QED
      BY <3>1, <3>2
  <2>3. ASSUME NEW m \in Int, m <= Len(s)
        PROVE  SubSeq(s, 1, m) \in Seq(X)
    <3>1. \A i \in 1..m : s[i] \in X
      BY <2>3, <1>1, ElementOfSeq
    <3>. QED
      BY <3>1, SubSeqProperties
  <2>4. SubSeq(s, 1, n) \in Seq(X)
    BY <2>2, <2>3
  <2>. QED
    BY <1>3, <2>4 DEF PyHead
<1>. QED
  BY <1>2, <1>3

\* The labels of a list of rules form a list of labels.
LEMMA LabelsType ==
    ASSUME NEW L, NEW s \in Seq([label : L, ls : LinkerScripts])
    PROVE  [k \in DOMAIN s |-> s[k].label] \in Seq(L)
<1>1. Len(s) \in Nat /\ DOMAIN s = 1..Len(s)
  BY LenProperties
<1>2. \A k \in 1..Len(s) : s[k] \in [label : L, ls : LinkerScripts]
  BY <1>1, ElementOfSeq
<1>3. [k \in DOMAIN s |-> s[k].label] \in [1..Len(s) -> L]
  BY <1>1, <1>2
<1>. QED
  BY <1>1, <1>3, SeqDef

\* The first components of a list of pairs form a list.
LEMMA FirstsType ==
    ASSUME NEW A, NEW B, NEW s \in Seq(A \X B)
    PROVE  [k \in DOMAIN s |-> s[k][1]] \in Seq(A)
<1>1. Len(s) \in Nat /\ DOMAIN s = 1..Len(s)
  BY LenProperties
<1>2. \A k \in 1..Len(s) : s[k] \in A \X B
  BY <1>1, ElementOfSeq
<1>3. [k \in DOMAIN s |-> s[k][1]] \in [1..Len(s) -> A]
  BY <1>1, <1>2
<1>. QED
  BY <1>1, <1>3, SeqDef

\* get_targets returns labels of the query's rules or the --target given;
\* without --target none of them is denylisted (the test of 116-118 and
\* the sort and cut after it keep only elements of the filtered list).
LEMMA GetTargetsType ==
    ASSUME NEW q \in Seq(Rule), NEW limit \in Int \cup {None},
           NEW target \in StdLabels \cup FileNames \cup {None}
    PROVE  /\ GetTargets(q, limit, target) \in Seq(StdLabels \cup FileNames)
           /\ target = None => GetTargets(q, limit, target) \in Seq(StdLabels \ Denylist)
<1> DEFINE A == {r \in Rule : Accepted(r)}
           kept == FilterSeq(q, A)
           labels == [k \in DOMAIN kept |-> kept[k].label]
           OkRule == [label : StdLabels \ Denylist, ls : LinkerScripts]
<1>1. CASE target # None
  <2>1. target \in StdLabels \cup FileNames
    BY <1>1
  <2>. QED
    BY <1>1, <2>1 DEF GetTargets
<1>2. CASE target = None
  <2>1. kept \in Seq(A \cap Range(q))
    BY FilterSeqType
  <2>2. A \cap Range(q) \subseteq OkRule
    BY DEF Rule, Accepted
  <2>3. kept \in Seq(OkRule)
    <3>1. \A t \in Seq(A \cap Range(q)) : t \in Seq(OkRule)
      BY <2>2, SeqMonotonic
    <3>. QED
      BY <2>1, <3>1
  <2>4. labels \in Seq(StdLabels \ Denylist)
    BY <2>3, LabelsType
  <2>5. labels \in Seq(Nat)
    <3>1. \A t \in Seq(StdLabels \ Denylist) : t \in Seq(Nat)
      BY PrepareAssumption, SeqMonotonic
    <3>. QED
      BY <2>4, <3>1
  <2>6. SortedSeq(labels, LabelLess) \in Seq(StdLabels \ Denylist)
    <3>1. SortedSeq(labels, LabelLess) \in Seq(Range(labels))
      BY <2>5, LabelLessTotal, SortedSeqType
    <3>2. Range(labels) \subseteq StdLabels \ Denylist
      BY <2>4, RangeOfSeq
    <3>. QED
      BY <3>1, <3>2, SeqMonotonic
  <2>7. PyHead(SortedSeq(labels, LabelLess), limit) \in Seq(StdLabels \ Denylist)
    BY <2>6, PyHeadType
  <2>8. PyHead(SortedSeq(labels, LabelLess), limit) \in Seq(StdLabels \cup FileNames)
    BY <2>7, SeqMonotonic
  <2>. QED
    BY <1>2, <2>7, <2>8 DEF GetTargets
<1>. QED
  BY <1>1, <1>2

\* The (pseudo-target, path) pairs and the names of the suite files that
\* pass the tests of 370-378.
SuitePairs(fs) == {<< f.name, f.dir >> : f \in {g \in fs : SuiteKeeps(g)}}
SuiteNames(fs) == {f.name : f \in {g \in fs : SuiteKeeps(g)}}

\* get_riscv_test_artifacts lists only files that pass the tests of 370-378.
LEMMA SuiteArtifactsType ==
    ASSUME NEW ok \in BOOLEAN, NEW fs \in SUBSET File
    PROVE  SuiteArtifacts(ok, fs) \in Seq(SuitePairs(fs))
<1> DEFINE S == SetToSeq(SuitePairs(fs))
<1>1. SuitePairs(fs) \subseteq FileNames \X Dirs
  BY DEF SuitePairs, File
<1>2. IsFiniteSet(SuitePairs(fs))
  <2>1. IsFiniteSet(FileNames \X Dirs)
    BY PrepareAssumption, FS_Product
  <2>. QED
    BY <1>1, <2>1, FS_Subset
<1>3. S \in Seq(SuitePairs(fs))
  BY <1>2, SetToSeqType
<1>4. S \in Seq(Nat \X Nat)
  <2>1. SuitePairs(fs) \subseteq Nat \X Nat
    BY <1>1, PrepareAssumption
  <2>. QED
    BY <1>3, <2>1, SeqMonotonic
<1>5. SortedSeq(S, ArtifactLess) \in Seq(SuitePairs(fs))
  <2>1. SortedSeq(S, ArtifactLess) \in Seq(Range(S))
    BY <1>4, ArtifactLessTotal, SortedSeqType
  <2>2. Range(S) \subseteq SuitePairs(fs)
    BY <1>3, RangeOfSeq
  <2>. QED
    BY <2>1, <2>2, SeqMonotonic
<1>. QED
  BY <1>5 DEF SuiteArtifacts, SuitePairs

\* prepare_tests hands on only discovered standard targets and suite files
\* that pass the tests of 370-378: the --target filter, the ELF test and
\* the cut to --limit only drop elements.
LEMMA PrepareTestsType ==
    ASSUME NEW a \in Args, NEW std \in Seq(StdLabels \cup FileNames),
           NEW ok \in BOOLEAN, NEW fs \in SUBSET File, NEW resolved
    PROVE  PrepareTests(a, std, ok, fs, resolved) \in Seq(Range(std) \cup SuiteNames(fs))
<1> DEFINE U == Range(std) \cup SuiteNames(fs)
           SA == SuiteArtifacts(ok, fs)
           kept == FilterSeq(SA, {p \in FileNames \X Dirs : Selected(a, p[1])})
           names == [k \in DOMAIN kept |-> kept[k][1]]
           riscv == IF a.skipRiscv THEN << >> ELSE names
           stdRun == FilterSeq(std, {t \in resolved : Selected(a, t)})
<1>1. kept \in Seq(SuiteNames(fs) \X Dirs)
  <2>1. SA \in Seq(SuitePairs(fs))
    BY SuiteArtifactsType
  <2>2. kept \in Seq({p \in FileNames \X Dirs : Selected(a, p[1])} \cap Range(SA))
    BY <2>1, FilterSeqType
  <2>3. Range(SA) \subseteq SuitePairs(fs)
    BY <2>1, RangeOfSeq
  <2>4. SuitePairs(fs) \subseteq SuiteNames(fs) \X Dirs
    BY DEF SuitePairs, SuiteNames, File
  <2>. QED
    BY <2>2, <2>3, <2>4, SeqMonotonic
<1>2. riscv \in Seq(U)
  <2>1. names \in Seq(SuiteNames(fs))
    BY <1>1, FirstsType
  <2>2. names \in Seq(U)
    BY <2>1, SeqMonotonic
  <2>. QED
    BY <2>2
<1>3. stdRun \in Seq(U)
  <2>1. stdRun \in Seq({t \in resolved : Selected(a, t)} \cap Range(std))
    BY FilterSeqType
  <2>. QED
    BY <2>1, SeqMonotonic
<1>4. riscv \o stdRun \in Seq(U)
  BY <1>2, <1>3, ConcatProperties
<1>5. a.limit \in Int \cup {None}
  BY PrepareAssumption DEF Args
<1>6. PyHead(riscv \o stdRun, a.limit) \in Seq(U)
  BY <1>4, <1>5, PyHeadType
<1>. QED
  BY <1>6 DEF PrepareTests

\* Every element of a list is in the set the list ranges over.
LEMMA SeqElems ==
    ASSUME NEW U, NEW t \in Seq(U)
    PROVE  \A k \in DOMAIN t : t[k] \in U
<1>1. DOMAIN t = 1..Len(t)
  BY LenProperties
<1>. QED
  BY <1>1, ElementOfSeq

-----------------------------------------------------------------------------
(* The inductive invariant of main up to run_full_regression *)

\* The three invariants together are inductive: the catalog's labels are
\* not denylisted once discovered, and tests_to_run is built from that
\* catalog and from the suite files alone, which no later step changes.
PrepInv == PrepareTypeOK /\ DenylistExcluded /\ TestsFromCatalog

\* main starts with empty lists.
LEMMA PrepInitInv == PrepInit => PrepInv
  BY DEF PrepInit, PrepInv, PrepareTypeOK, DenylistExcluded, TestsFromCatalog

\* Every step of main keeps the invariant.
LEMMA PrepStepInv == PrepInv /\ [PrepNext]_prepVars => PrepInv'
<1> SUFFICES ASSUME PrepInv, [PrepNext]_prepVars PROVE PrepInv'
  OBVIOUS
<1>0. /\ query \in Seq(Rule)
      /\ args.limit \in Int \cup {None}
      /\ args.target \in StdLabels \cup FileNames \cup {None}
      /\ files \in SUBSET File
      /\ standard \in Seq(StdLabels \cup FileNames)
  BY PrepareAssumption DEF PrepInv, PrepareTypeOK, Args
<1>1. CASE Discover
  <2>1. /\ standard' \in Seq(StdLabels \cup FileNames)
        /\ args.target = None => standard' \in Seq(StdLabels \ Denylist)
    BY <1>0, <1>1, GetTargetsType DEF Discover
  <2>2. args.target = None => \A k \in DOMAIN standard' : standard'[k] \notin Denylist
    BY <2>1, SeqElems
  <2>. QED
    BY <1>1, <2>1, <2>2
    DEF Discover, PrepInv, PrepareTypeOK, DenylistExcluded, TestsFromCatalog
<1>2. CASE QueryFails
  BY <1>2 DEF QueryFails, PrepInv, PrepareTypeOK, DenylistExcluded, TestsFromCatalog
<1>3. CASE ListTargets
  BY <1>3 DEF ListTargets, PrepInv, PrepareTypeOK, DenylistExcluded, TestsFromCatalog
<1>4. CASE Prepare
  <2>1. PICK ok \in BOOLEAN, resolved \in SUBSET {r.label : r \in Range(query)} :
               /\ elf' = resolved
               /\ tests' = PrepareTests(args, standard, ok, files, resolved)
    BY <1>4 DEF Prepare
  <2>2. \A k \in DOMAIN tests' : tests'[k] \in Range(standard) \cup SuiteNames(files)
    <3>1. args \in Args
      BY DEF PrepInv, PrepareTypeOK
    <3>2. tests' \in Seq(Range(standard) \cup SuiteNames(files))
      BY <1>0, <2>1, <3>1, PrepareTestsType
    <3>. QED
      BY <3>2, SeqElems
  <2>3. tests' \in Seq(StdLabels \cup FileNames)
    <3>1. tests' \in Seq(Range(standard) \cup SuiteNames(files))
      BY <1>0, <2>1, PrepareTestsType DEF PrepInv, PrepareTypeOK
    <3>2. Range(standard) \subseteq StdLabels \cup FileNames
      BY <1>0, RangeOfSeq
    <3>3. SuiteNames(files) \subseteq StdLabels \cup FileNames
      BY <1>0 DEF SuiteNames, File
    <3>. QED
      BY <3>1, <3>2, <3>3, SeqMonotonic
  <2>4. elf' \subseteq StdLabels
    <3>1. Range(query) \subseteq Rule
      BY <1>0, RangeOfSeq
    <3>. QED
      BY <2>1, <3>1 DEF Rule
  <2>5. PrepareTypeOK'
    BY <1>4, <2>3, <2>4 DEF Prepare, PrepInv, PrepareTypeOK
  <2>6. DenylistExcluded'
    <3>1. SUFFICES ASSUME args.target = None
                   PROVE  /\ \A k \in DOMAIN standard : standard[k] \notin Denylist
                          /\ \A k \in DOMAIN tests' : tests'[k] \notin Denylist
      BY <1>4 DEF Prepare, DenylistExcluded
    <3>2. \A k \in DOMAIN standard : standard[k] \notin Denylist
      BY <1>4, <3>1 DEF Prepare, PrepInv, DenylistExcluded
    <3>3. Range(standard) \cap Denylist = {}
      BY <3>2 DEF Range
    <3>4. SuiteNames(files) \cap Denylist = {}
      BY DEF SuiteNames, SuiteKeeps
    <3>. QED
      BY <2>2, <3>2, <3>3, <3>4
  <2>7. TestsFromCatalog'
    <3>1. SUFFICES ASSUME NEW k \in DOMAIN tests', tests'[k] \notin Range(standard)
                   PROVE  \E f \in files : f.name = tests'[k]
                                           /\ tests'[k] \in Rv32Names \ DumpNames
      BY <1>4 DEF Prepare, TestsFromCatalog
    <3>2. tests'[k] \in SuiteNames(files)
      BY <2>2, <3>1
    <3>. QED
      BY <3>2 DEF SuiteNames, SuiteKeeps
  <2>. QED
    BY <2>5, <2>6, <2>7 DEF PrepInv
<1>5. CASE Done \/ UNCHANGED prepVars
  BY <1>5 DEF Done, prepVars, PrepInv, PrepareTypeOK, DenylistExcluded, TestsFromCatalog
<1>. QED
  BY <1>1, <1>2, <1>3, <1>4, <1>5 DEF PrepNext

\* Type correctness of main up to run_full_regression, for every build
\* graph, command line and outcome of the build and the queries.
THEOREM PrepareTypeCorrect == PrepSpec => []PrepareTypeOK
<1>1. PrepSpec => []PrepInv
  BY PrepInitInv, PrepStepInv, PTL DEF PrepSpec
<1>. QED
  BY <1>1, PTL DEF PrepInv

\* Without --target, no denylisted target is listed by --list-targets or
\* handed to the regression, from the query or from the suite, whatever
\* the build, the limit and the ELF lookups do.
THEOREM DenylistSafe == PrepSpec => []DenylistExcluded
<1>1. PrepSpec => []PrepInv
  BY PrepInitInv, PrepStepInv, PTL DEF PrepSpec
<1>. QED
  BY <1>1, PTL DEF PrepInv

\* Every test handed to the regression is a target get_targets returned or
\* an rv32 suite file, not a dump, found under the suite's directories.
THEOREM CatalogOnly == PrepSpec => []TestsFromCatalog
<1>1. PrepSpec => []PrepInv
  BY PrepInitInv, PrepStepInv, PTL DEF PrepSpec
<1>. QED
  BY <1>1, PTL DEF PrepInv
=============================================================================
