----------------------------- MODULE DataLemmas -----------------------------
(***************************************************************************)
(* Facts about numbers, finite sets and sequences that the proofs of the   *)
(* components cite: the maximum of a bounded set, by which turns, versions *)
(* and indexes are numbered; induction over numbers, stated for a set so   *)
(* that the provers can instantiate it; sorting a finite set; and folding  *)
(* a sequence.                                                             *)
(***************************************************************************)
EXTENDS FiniteSetsExt, SequencesExt, FiniteSetTheorems, SequenceTheorems, TLAPS

\* A nonempty set of numbers has a least element.
LEMMA LeastNumber ==
    ASSUME NEW S \in SUBSET Nat, S # {}
    PROVE  \E m \in S : \A n \in S : m <= n
<1>1. PICK m \in S : \A n \in S : <<n, m>> \notin OpToRel(<, Nat)
  BY NatLessThanWellFounded, WFMin
<1>2. ASSUME NEW n \in S PROVE m <= n
  <2>1. <<n, m>> \in Nat \X Nat
    OBVIOUS
  <2>2. ~(n < m)
    BY <1>1, <2>1 DEF OpToRel
  <2> QED BY <2>2
<1> QED BY <1>2

\* A nonempty bounded set of numbers has a greatest element, and Max is it.
LEMMA Maximum ==
    ASSUME NEW S \in SUBSET Nat, S # {}, NEW b \in Nat, \A n \in S : n <= b
    PROVE  Max(S) \in S /\ \A n \in S : n <= Max(S)
<1> DEFINE Bounds == {m \in Nat : \A n \in S : n <= m}
<1>1. PICK m \in Bounds : \A n \in Bounds : m <= n
  <2>1. Bounds \in SUBSET Nat /\ b \in Bounds
    OBVIOUS
  <2> HIDE DEF Bounds
  <2> QED BY <2>1, LeastNumber
<1>2. m \in S
  <2>1. SUFFICES ASSUME m \notin S PROVE FALSE
    OBVIOUS
  <2>2. \A n \in S : n <= m - 1
    BY <2>1, <1>1
  <2>3. m - 1 \in Nat
    <3>1. PICK n \in S : TRUE
      OBVIOUS
    <3>2. m \in Nat /\ n \in Nat /\ n <= m - 1
      BY <1>1, <2>2
    <3> QED BY <3>2
  <2> QED BY <1>1, <2>2, <2>3
<1> QED BY <1>1, <1>2 DEF Max

\* Induction, for the set of the numbers that have a property.
LEMMA Induction ==
    ASSUME NEW S \in SUBSET Nat, 0 \in S, \A n \in S : n + 1 \in S
    PROVE  S = Nat
<1>1. SUFFICES ASSUME Nat \ S # {} PROVE FALSE
  OBVIOUS
<1>2. PICK m \in Nat \ S : \A n \in Nat \ S : m <= n
  <2>1. Nat \ S \in SUBSET Nat
    OBVIOUS
  <2> QED BY <1>1, <2>1, LeastNumber
<1>3. m # 0
  BY <1>2
<1>4. m - 1 \in Nat /\ m - 1 \in S
  BY <1>2, <1>3
<1> QED BY <1>2, <1>4

-----------------------------------------------------------------------------
(* Sorting *)

\* The elements of S that come before x.
Preds(S, R, x) == {y \in S : <<y, x>> \in R}

\* R orders S strictly and totally.
StrictOrder(S, R) ==
    /\ \A x \in S : <<x, x>> \notin R
    /\ \A x, y, z \in S : <<x, y>> \in R /\ <<y, z>> \in R => <<x, z>> \in R
    /\ \A x, y \in S : x # y => <<x, y>> \in R \/ <<y, x>> \in R

\* Whoever comes later has more before it.
LEMMA PredsGrow ==
    ASSUME NEW S, IsFiniteSet(S), NEW R, StrictOrder(S, R)
    PROVE  /\ \A x \in S : Cardinality(Preds(S, R, x)) \in 0..(Cardinality(S) - 1)
           /\ \A x, y \in S : <<x, y>> \in R =>
                 Cardinality(Preds(S, R, x)) < Cardinality(Preds(S, R, y))
<1>1. Cardinality(S) \in Nat
  BY FS_CardinalityType
<1>2. ASSUME NEW x \in S
      PROVE  /\ Preds(S, R, x) \in SUBSET S /\ IsFiniteSet(Preds(S, R, x))
             /\ Cardinality(Preds(S, R, x)) \in 0..(Cardinality(S) - 1)
  <2>1. Preds(S, R, x) \in SUBSET (S \ {x})
    BY DEF Preds, StrictOrder
  <2>2. IsFiniteSet(S \ {x}) /\ Cardinality(S \ {x}) = Cardinality(S) - 1
    BY FS_RemoveElement
  <2>3. IsFiniteSet(Preds(S, R, x)) /\ Cardinality(Preds(S, R, x)) <= Cardinality(S) - 1
    BY <2>1, <2>2, FS_Subset
  <2>4. Cardinality(Preds(S, R, x)) \in Nat
    BY <2>3, FS_CardinalityType
  <2> QED BY <1>1, <2>1, <2>3, <2>4
<1>3. ASSUME NEW x \in S, NEW y \in S, <<x, y>> \in R
      PROVE  Cardinality(Preds(S, R, x)) < Cardinality(Preds(S, R, y))
  <2>1. Preds(S, R, x) \in SUBSET Preds(S, R, y) /\ Preds(S, R, x) # Preds(S, R, y)
    <3>1. x \in Preds(S, R, y) /\ x \notin Preds(S, R, x)
      BY <1>3 DEF Preds, StrictOrder
    <3>2. \A z \in Preds(S, R, x) : z \in Preds(S, R, y)
      BY <1>3 DEF Preds, StrictOrder
    <3> QED BY <3>1, <3>2
  <2>2. /\ Cardinality(Preds(S, R, x)) <= Cardinality(Preds(S, R, y))
        /\ Cardinality(Preds(S, R, x)) # Cardinality(Preds(S, R, y))
    BY <1>2, <2>1, FS_Subset
  <2>3. Cardinality(Preds(S, R, x)) \in Int /\ Cardinality(Preds(S, R, y)) \in Int
    BY <1>1, <1>2
  <2> QED BY <2>2, <2>3
<1> QED BY <1>2, <1>3

\* Each element stands at the place that the number of those before it gives.
Placed(s, S, R) ==
    /\ s = [n \in 1..Cardinality(S) |-> s[n]]
    /\ \A n \in 1..Cardinality(S) :
          (\E x \in S : Cardinality(Preds(S, R, x)) = n - 1) =>
             s[n] \in S /\ Cardinality(Preds(S, R, s[n])) = n - 1

\* A finite set whose elements stand at their places is sorted.
LEMMA Sorting ==
    ASSUME NEW S, IsFiniteSet(S), NEW R, StrictOrder(S, R), NEW s, Placed(s, S, R)
    PROVE  /\ s \in Seq(S) /\ Len(s) = Cardinality(S)
           /\ \A i, j \in 1..Len(s) : i < j => <<s[i], s[j]>> \in R
           /\ \A x \in S : \E i \in 1..Len(s) : s[i] = x
<1> DEFINE N == Cardinality(S)
           count(x) == Cardinality(Preds(S, R, x))
           place == [x \in S |-> count(x) + 1]
<1>1. N \in Nat
  BY FS_CardinalityType
<1>2. /\ \A x \in S : count(x) \in 0..(N - 1)
      /\ \A x, y \in S : <<x, y>> \in R => count(x) < count(y)
  BY PredsGrow
<1>3. ASSUME NEW x \in S, NEW y \in S, count(x) = count(y) PROVE x = y
  <2>1. count(x) \in Int
    BY <1>1, <1>2
  <2>2. ~(count(x) < count(y)) /\ ~(count(y) < count(x))
    BY <1>3, <2>1
  <2>3. <<x, y>> \notin R /\ <<y, x>> \notin R
    BY <1>2, <2>2
  <2> QED BY <2>3 DEF StrictOrder
<1>4. /\ s = [n \in 1..N |-> s[n]]
      /\ \A n \in 1..N : (\E x \in S : count(x) = n - 1) => s[n] \in S /\ count(s[n]) = n - 1
  BY DEF Placed
<1> HIDE DEF count, N
<1>5. place \in Injection(S, 1..N)
  <2>1. place \in [S -> 1..N]
    BY <1>1, <1>2
  <2>2. ASSUME NEW x \in S, NEW y \in S, place[x] = place[y] PROVE x = y
    <3>1. count(x) = count(y)
      BY <1>1, <1>2, <2>2
    <3> QED BY <1>3, <3>1
  <2> HIDE DEF place
  <2> QED BY <2>1, <2>2 DEF Injection, IsInjective
<1>6. place \in Surjection(S, 1..N)
  <2>1. IsFiniteSet(1..N) /\ Cardinality(1..N) = N
    BY <1>1, FS_Interval
  <2>2. Cardinality(S) = N
    BY DEF N
  <2> HIDE DEF place
  <2> QED BY <1>5, <2>1, <2>2, FS_Injection
<1>7. ASSUME NEW n \in 1..N
      PROVE  s[n] \in S /\ count(s[n]) = n - 1
  <2>1. PICK x \in S : place[x] = n
    <3> HIDE DEF place
    <3> QED BY <1>6 DEF Surjection
  <2>2. count(x) = n - 1
    BY <1>1, <1>2, <2>1
  <2> QED BY <1>4, <2>2
<1>8. s \in Seq(S) /\ Len(s) = N /\ DOMAIN s = 1..N
  <2>1. s \in [1..N -> S]
    BY <1>4, <1>7
  <2> QED BY <1>1, <2>1
<1>9. ASSUME NEW i \in 1..N, NEW j \in 1..N, i < j PROVE <<s[i], s[j]>> \in R
  <2>1. s[i] \in S /\ s[j] \in S /\ count(s[i]) < count(s[j])
    BY <1>1, <1>7, <1>9
  <2>2. count(s[i]) \in Int /\ count(s[j]) \in Int
    BY <1>1, <1>2, <2>1
  <2>3. ~(count(s[j]) < count(s[i])) /\ s[i] # s[j]
    BY <2>1, <2>2
  <2>4. <<s[j], s[i]>> \notin R
    BY <1>2, <2>1, <2>3
  <2> QED BY <2>1, <2>3, <2>4 DEF StrictOrder
<1>10. ASSUME NEW x \in S PROVE \E i \in 1..N : s[i] = x
  <2>1. count(x) + 1 \in 1..N /\ count(x) \in Int
    BY <1>1, <1>2
  <2>2. s[count(x) + 1] \in S /\ count(s[count(x) + 1]) = count(x)
    BY <1>7, <2>1
  <2>3. s[count(x) + 1] = x
    BY <1>3, <2>2
  <2> QED BY <2>1, <2>3
<1>11. N = Cardinality(S)
  BY DEF N
<1> QED BY <1>8, <1>9, <1>10, <1>11
-----------------------------------------------------------------------------
(* Folding. A step is a function of what was made so far and the next       *)
(* element, so that the facts can be instantiated with it.                  *)

\* h goes through the prefixes of s: from the base, a step for each element.
TraceTo(h, n, D, step, base, s) ==
    /\ h \in [0..n -> D] /\ h[0] = base
    /\ \A k \in 1..n : h[k] = step[<<h[k - 1], s[k]>>]

\* What a fold ends with.
Folded(D, step, base, s) ==
    (CHOOSE h : TraceTo(h, Len(s), D, step, base, s))[Len(s)]

\* There is a trace of every length.
LEMMA TraceExists ==
    ASSUME NEW T, NEW D, NEW base \in D, NEW step \in [D \X T -> D], NEW s \in Seq(T)
    PROVE  \E h : TraceTo(h, Len(s), D, step, base, s)
<1> DEFINE Reached == {n \in Nat : n <= Len(s) => \E h : TraceTo(h, n, D, step, base, s)}
<1>1. Len(s) \in Nat /\ \A k \in 1..Len(s) : s[k] \in T
  OBVIOUS
<1>2. 0 \in Reached
  <2> DEFINE h == [k \in 0..0 |-> base]
  <2>1. h \in [0..0 -> D] /\ h[0] = base
    OBVIOUS
  <2>2. \A k \in 1..0 : FALSE
    OBVIOUS
  <2>3. TraceTo(h, 0, D, step, base, s)
    BY <2>1, <2>2 DEF TraceTo
  <2> HIDE DEF h
  <2> QED BY <2>3
<1>3. ASSUME NEW n \in Reached PROVE n + 1 \in Reached
  <2>1. SUFFICES ASSUME n + 1 <= Len(s)
                 PROVE  \E h : TraceTo(h, n + 1, D, step, base, s)
    OBVIOUS
  <2>2. n \in Nat /\ n <= Len(s)
    BY <1>1, <2>1
  <2>3. PICK h : TraceTo(h, n, D, step, base, s)
    BY <2>2
  <2>4. h \in [0..n -> D] /\ h[0] = base /\ h[n] \in D /\ s[n + 1] \in T
    BY <1>1, <2>1, <2>2, <2>3 DEF TraceTo
  <2> DEFINE g == [k \in 0..(n + 1) |-> IF k = n + 1 THEN step[<<h[n], s[n + 1]>>] ELSE h[k]]
  <2>5. g \in [0..(n + 1) -> D] /\ g[0] = base
    BY <2>2, <2>4
  <2>6. ASSUME NEW k \in 1..(n + 1) PROVE g[k] = step[<<g[k - 1], s[k]>>]
    <3>1. k \in Nat /\ k - 1 \in 0..n /\ k - 1 # n + 1 /\ k \in 0..(n + 1)
      BY <2>2
    <3>2. g[k - 1] = h[k - 1]
      BY <2>2, <3>1
    <3>3. CASE k = n + 1
      <4>1. g[k] = step[<<h[n], s[n + 1]>>] /\ k - 1 = n
        BY <2>2, <3>1, <3>3
      <4> HIDE DEF g
      <4> QED BY <3>2, <3>3, <4>1
    <3>4. CASE k # n + 1
      <4>1. g[k] = h[k] /\ k \in 1..n
        BY <2>2, <3>1, <3>4
      <4> HIDE DEF g
      <4> QED BY <2>3, <3>2, <4>1 DEF TraceTo
    <3> QED BY <3>3, <3>4
  <2>7. TraceTo(g, n + 1, D, step, base, s)
    <3> HIDE DEF g
    <3> QED BY <2>5, <2>6 DEF TraceTo
  <2> HIDE DEF g
  <2> QED BY <2>7
<1>4. Reached = Nat
  <2>1. Reached \in SUBSET Nat
    OBVIOUS
  <2> HIDE DEF Reached
  <2> QED BY <1>2, <1>3, <2>1, Induction
<1>5. Len(s) \in Reached
  BY <1>1, <1>4
<1> QED BY <1>1, <1>5

\* h takes the steps as long as they stay in D.
Follows(h, D, step, base, s) ==
    /\ h[0] = base
    /\ \A k \in 1..Len(s) : h[k - 1] \in D => h[k] = step[<<h[k - 1], s[k]>>]

\* What takes the steps ends where the trace ends.
LEMMA TraceIsFolded ==
    ASSUME NEW T, NEW D, NEW base \in D, NEW step \in [D \X T -> D], NEW s \in Seq(T),
           NEW h, Follows(h, D, step, base, s)
    PROVE  h[Len(s)] = Folded(D, step, base, s) /\ Folded(D, step, base, s) \in D
<1> DEFINE g == CHOOSE f : TraceTo(f, Len(s), D, step, base, s)
           Equal == {n \in Nat : n <= Len(s) => h[n] = g[n]}
<1>1. TraceTo(g, Len(s), D, step, base, s)
  BY TraceExists
<1>2. Folded(D, step, base, s) = g[Len(s)]
  BY DEF Folded
<1> HIDE DEF g
<1>3. Len(s) \in Nat
  OBVIOUS
<1>4. 0 \in Equal
  BY <1>1 DEF TraceTo, Follows
<1>5. ASSUME NEW n \in Equal PROVE n + 1 \in Equal
  <2>1. SUFFICES ASSUME n + 1 <= Len(s) PROVE h[n + 1] = g[n + 1]
    OBVIOUS
  <2>2. n \in 0..Len(s) /\ n + 1 \in 1..Len(s) /\ (n + 1) - 1 = n
    BY <1>3, <2>1
  <2>3. h[n] = g[n] /\ g[n] \in D
    BY <1>1, <2>1, <2>2 DEF TraceTo
  <2> QED BY <1>1, <2>2, <2>3 DEF TraceTo, Follows
<1>6. Equal = Nat
  <2>1. Equal \in SUBSET Nat
    OBVIOUS
  <2> HIDE DEF Equal
  <2> QED BY <1>4, <1>5, <2>1, Induction
<1>7. h[Len(s)] = g[Len(s)] /\ g[Len(s)] \in D
  BY <1>1, <1>3, <1>6 DEF TraceTo
<1> QED BY <1>2, <1>7

\* A trace takes the steps.
LEMMA TraceFollows ==
    ASSUME NEW D, NEW step, NEW base, NEW s, NEW h, TraceTo(h, Len(s), D, step, base, s)
    PROVE  Follows(h, D, step, base, s)
BY DEF TraceTo, Follows

\* A step leads from D, where the base is, to D.
Stepping(T, D, step, base) == base \in D /\ step \in [D \X T -> D]

\* The empty sequence folds to the base, and one element more is one step more.
LEMMA FoldedLaws ==
    ASSUME NEW T, NEW D, NEW base, NEW step, Stepping(T, D, step, base)
    PROVE  /\ Folded(D, step, base, <<>>) = base
           /\ \A s \in Seq(T) : Folded(D, step, base, s) \in D
           /\ \A s \in Seq(T), x \in T :
                 Folded(D, step, base, Append(s, x)) = step[<<Folded(D, step, base, s), x>>]
<1>0. base \in D /\ step \in [D \X T -> D]
  BY DEF Stepping
<1>1. Folded(D, step, base, <<>>) = base
  <2>1. <<>> \in Seq(T) /\ Len(<<>>) = 0
    OBVIOUS
  <2>2. PICK h : TraceTo(h, Len(<<>>), D, step, base, <<>>)
    BY <1>0, <2>1, TraceExists
  <2>3. h[0] = base
    BY <2>2 DEF TraceTo
  <2>4. /\ h[Len(<<>>)] = Folded(D, step, base, <<>>)
        /\ Folded(D, step, base, <<>>) \in D
    BY <1>0, <2>1, <2>2, TraceFollows, TraceIsFolded
  <2> QED BY <2>1, <2>3, <2>4
<1>2. ASSUME NEW s \in Seq(T) PROVE Folded(D, step, base, s) \in D
  <2>1. PICK h : TraceTo(h, Len(s), D, step, base, s)
    BY <1>0, TraceExists
  <2> QED BY <1>0, <2>1, TraceFollows, TraceIsFolded
<1>3. ASSUME NEW s \in Seq(T), NEW x \in T
      PROVE  Folded(D, step, base, Append(s, x)) = step[<<Folded(D, step, base, s), x>>]
  <2> DEFINE z == Append(s, x)
  <2>1. /\ z \in Seq(T) /\ Len(z) = Len(s) + 1 /\ Len(s) \in Nat
        /\ \A k \in 1..Len(s) : z[k] = s[k]
        /\ z[Len(s) + 1] = x
    OBVIOUS
  <2> HIDE DEF z
  <2>2. PICK h : TraceTo(h, Len(z), D, step, base, z)
    BY <1>0, <2>1, TraceExists
  <2>3. h[Len(z)] = Folded(D, step, base, z) /\ Folded(D, step, base, z) \in D
    BY <1>0, <2>1, <2>2, TraceFollows, TraceIsFolded
  <2>4. h[Len(s)] = Folded(D, step, base, s) /\ Folded(D, step, base, s) \in D
    <3>1. Follows(h, D, step, base, s)
      BY <2>1, <2>2 DEF TraceTo, Follows
    <3> QED BY <1>0, <3>1, TraceIsFolded
  <2>5. h[Len(s) + 1] = step[<<h[Len(s)], x>>]
    <3>1. Len(s) + 1 \in 1..Len(z) /\ (Len(s) + 1) - 1 = Len(s)
      BY <2>1
    <3> QED BY <2>1, <2>2, <3>1 DEF TraceTo
  <2> QED BY <2>1, <2>3, <2>4, <2>5 DEF z
<1> QED BY <1>1, <1>2, <1>3

\* The function on sets of places by which FoldLeft is defined.
TableTo(it, n, D, step, base, s) ==
    /\ it \in [SUBSET (1..n) -> D] /\ it[{}] = base
    /\ \A X \in (SUBSET (1..n)) \ {{}} : it[X] = step[<<it[X \ {Max(X)}], s[Max(X)]>>]

\* The maximum of a set of places.
LEMMA MaxPlace ==
    ASSUME NEW n \in Nat, NEW X \in SUBSET (1..n), X # {}
    PROVE  Max(X) \in X /\ \A m \in X : m <= Max(X)
<1>1. X \in SUBSET Nat /\ \A m \in X : m <= n
  OBVIOUS
<1> QED BY <1>1, Maximum

\* There is such a function.
LEMMA TableExists ==
    ASSUME NEW T, NEW D, NEW base \in D, NEW step \in [D \X T -> D], NEW s \in Seq(T)
    PROVE  \E it : TableTo(it, Len(s), D, step, base, s)
<1> DEFINE Reached == {n \in Nat : n <= Len(s) => \E it : TableTo(it, n, D, step, base, s)}
<1>1. Len(s) \in Nat /\ \A k \in 1..Len(s) : s[k] \in T
  OBVIOUS
<1>2. 0 \in Reached
  <2> DEFINE it == [X \in SUBSET (1..0) |-> base]
  <2>1. it \in [SUBSET (1..0) -> D] /\ it[{}] = base
    OBVIOUS
  <2>2. \A X \in (SUBSET (1..0)) \ {{}} : FALSE
    OBVIOUS
  <2>3. TableTo(it, 0, D, step, base, s)
    <3> HIDE DEF it
    <3> QED BY <2>1, <2>2 DEF TableTo
  <2> HIDE DEF it
  <2> QED BY <2>3
<1>3. ASSUME NEW n \in Reached PROVE n + 1 \in Reached
  <2>1. SUFFICES ASSUME n + 1 <= Len(s)
                 PROVE  \E it : TableTo(it, n + 1, D, step, base, s)
    OBVIOUS
  <2>2. n \in Nat /\ n <= Len(s) /\ n + 1 \in Nat /\ s[n + 1] \in T
    BY <1>1, <2>1
  <2>3. PICK g : TableTo(g, n, D, step, base, s)
    BY <2>2
  <2>4. g \in [SUBSET (1..n) -> D] /\ g[{}] = base
    BY <2>3 DEF TableTo
  <2> DEFINE it == [X \in SUBSET (1..(n + 1)) |->
                       IF n + 1 \in X THEN step[<<g[X \ {n + 1}], s[n + 1]>>] ELSE g[X]]
  <2>5. ASSUME NEW X \in SUBSET (1..(n + 1)), n + 1 \in X
        PROVE  /\ X \ {n + 1} \in SUBSET (1..n) /\ X \ {n + 1} \in SUBSET (1..(n + 1))
               /\ n + 1 \notin X \ {n + 1} /\ Max(X) = n + 1
    <3>1. X \ {n + 1} \in SUBSET (1..n)
      BY <2>2
    <3>2. Max(X) \in X /\ \A m \in X : m <= Max(X)
      BY <2>2, <2>5, MaxPlace
    <3>3. Max(X) \in 1..(n + 1) /\ n + 1 <= Max(X)
      BY <2>5, <3>2
    <3> QED BY <2>2, <3>1, <3>3
  <2>6. ASSUME NEW X \in SUBSET (1..(n + 1)), n + 1 \notin X
        PROVE  X \in SUBSET (1..n)
    BY <2>2, <2>6
  <2>7. ASSUME NEW X \in SUBSET (1..(n + 1))
        PROVE  it[X] \in D
    <3>1. CASE n + 1 \in X
      <4>1. g[X \ {n + 1}] \in D
        BY <2>4, <2>5, <3>1
      <4> QED BY <2>2, <3>1, <4>1
    <3>2. CASE n + 1 \notin X
      BY <2>4, <2>6, <3>2
    <3> QED BY <3>1, <3>2
  <2>8. it \in [SUBSET (1..(n + 1)) -> D]
    BY <2>7
  <2>9. it[{}] = base
    BY <2>4
  <2>10. ASSUME NEW X \in (SUBSET (1..(n + 1))) \ {{}}
         PROVE  it[X] = step[<<it[X \ {Max(X)}], s[Max(X)]>>]
    <3>1. CASE n + 1 \in X
      <4>1. it[X] = step[<<g[X \ {n + 1}], s[n + 1]>>] /\ it[X \ {n + 1}] = g[X \ {n + 1}]
        BY <2>5, <3>1
      <4>2. Max(X) = n + 1
        BY <2>5, <3>1
      <4> HIDE DEF it
      <4> QED BY <4>1, <4>2
    <3>2. CASE n + 1 \notin X
      <4>1. X \in (SUBSET (1..n)) \ {{}}
        BY <2>6, <3>2
      <4>2. it[X] = g[X] /\ g[X] = step[<<g[X \ {Max(X)}], s[Max(X)]>>]
        BY <2>3, <3>2, <4>1 DEF TableTo
      <4>3. X \ {Max(X)} \in SUBSET (1..(n + 1)) /\ n + 1 \notin X \ {Max(X)}
        BY <3>2
      <4>4. it[X \ {Max(X)}] = g[X \ {Max(X)}]
        BY <4>3
      <4> HIDE DEF it
      <4> QED BY <4>2, <4>4
    <3> QED BY <3>1, <3>2
  <2> HIDE DEF it
  <2>11. TableTo(it, n + 1, D, step, base, s)
    BY <2>8, <2>9, <2>10 DEF TableTo
  <2> QED BY <2>11
<1>4. Reached = Nat
  <2>1. Reached \in SUBSET Nat
    OBVIOUS
  <2> HIDE DEF Reached
  <2> QED BY <1>2, <1>3, <2>1, Induction
<1>5. Len(s) \in Reached
  BY <1>1, <1>4
<1> QED BY <1>1, <1>5

\* it takes the steps from set to set as long as they stay in D.
TableFollows(it, D, step, base, s) ==
    /\ it[{}] = base
    /\ \A X \in (SUBSET (1..Len(s))) \ {{}} :
          Max(X) \in X /\ it[X \ {Max(X)}] \in D =>
             it[X] = step[<<it[X \ {Max(X)}], s[Max(X)]>>]

\* What takes the steps from set to set takes them from prefix to prefix.
LEMMA TableIsFolded ==
    ASSUME NEW T, NEW D, NEW base \in D, NEW step \in [D \X T -> D], NEW s \in Seq(T),
           NEW it, TableFollows(it, D, step, base, s)
    PROVE  it[1..Len(s)] = Folded(D, step, base, s) /\ Folded(D, step, base, s) \in D
<1> DEFINE h == [k \in 0..Len(s) |-> it[1..k]]
<1>1. Len(s) \in Nat
  OBVIOUS
<1>2. h[0] = base
  <2>1. 1..0 = {}
    OBVIOUS
  <2> QED BY <1>1, <2>1 DEF TableFollows
<1>3. ASSUME NEW k \in 1..Len(s), h[k - 1] \in D PROVE h[k] = step[<<h[k - 1], s[k]>>]
  <2> DEFINE X == 1..k
  <2>1. k \in Nat /\ k \in X /\ k - 1 \in 0..Len(s) /\ k \in 0..Len(s)
    BY <1>1
  <2>2. h[k] = it[X] /\ h[k - 1] = it[1..(k - 1)]
    BY <2>1
  <2>3. /\ X \in SUBSET (1..Len(s)) /\ X # {} /\ X \in SUBSET (1..k)
        /\ X \in (SUBSET (1..Len(s))) \ {{}}
    <3>1. X \in SUBSET (1..Len(s)) /\ X \in SUBSET (1..k)
      BY <1>1, <2>1
    <3> HIDE DEF X
    <3> QED BY <2>1, <3>1
  <2>4. X \ {k} = 1..(k - 1)
    BY <2>1
  <2> HIDE DEF X, h
  <2>5. Max(X) \in X /\ \A m \in X : m <= Max(X)
    BY <2>1, <2>3, MaxPlace
  <2>6. Max(X) = k
    <3>1. k <= Max(X) /\ Max(X) \in 1..k
      BY <2>1, <2>3, <2>5
    <3> QED BY <2>1, <3>1
  <2> QED BY <1>3, <2>2, <2>3, <2>4, <2>5, <2>6 DEF TableFollows
<1>4. h[Len(s)] = it[1..Len(s)]
  BY <1>1
<1> HIDE DEF h
<1>5. Follows(h, D, step, base, s)
  BY <1>2, <1>3 DEF Follows
<1>6. h[Len(s)] = Folded(D, step, base, s) /\ Folded(D, step, base, s) \in D
  BY <1>5, TraceIsFolded
<1> QED BY <1>4, <1>6

\* Of a set of places one is the first.
LEMMA FirstPlace ==
    ASSUME NEW n \in Nat, NEW I \in SUBSET (1..n), I # {}
    PROVE  \E i \in I : \A j \in 1..(i - 1) : j \notin I
<1>1. I \in SUBSET Nat
  OBVIOUS
<1>2. PICK i \in I : \A j \in I : i <= j
  BY <1>1, LeastNumber
<1>3. i \in Nat
  BY <1>1
<1>4. \A j \in 1..(i - 1) : j \notin I
  BY <1>2, <1>3
<1> QED BY <1>4

\* A sequence that is not empty is an earlier one with an element appended.
LEMMA LastAppended ==
    ASSUME NEW T, NEW s \in Seq(T), NEW n \in Nat, Len(s) = n + 1
    PROVE  /\ SubSeq(s, 1, n) \in Seq(T) /\ Len(SubSeq(s, 1, n)) = n
           /\ s[n + 1] \in T /\ s = Append(SubSeq(s, 1, n), s[n + 1])
<1> DEFINE front == SubSeq(s, 1, n)
           z == Append(front, s[n + 1])
<1>1. n + 1 \in 1..Len(s) /\ \A i \in 1..n : i \in 1..Len(s)
  OBVIOUS
<1>2. s[n + 1] \in T /\ \A i \in 1..n : s[i] \in T
  BY <1>1
<1>3. front \in Seq(T) /\ Len(front) = n /\ \A i \in 1..n : front[i] = s[i]
  <2>1. 1 \in Int /\ n \in Int
    OBVIOUS
  <2>2. /\ front \in Seq(T)
        /\ Len(front) = IF 1 <= n THEN n - 1 + 1 ELSE 0
        /\ \A i \in 1..(n - 1 + 1) : front[i] = s[1 + i - 1]
    BY <1>2, <2>1, SubSeqProperties
  <2>3. n - 1 + 1 = n /\ \A i \in 1..n : 1 + i - 1 = i
    OBVIOUS
  <2> HIDE DEF front
  <2>4. Len(front) = n
    BY <2>2
  <2> QED BY <2>2, <2>3, <2>4
<1> HIDE DEF front
<1>4. /\ z \in Seq(T) /\ Len(z) = n + 1 /\ z[n + 1] = s[n + 1]
      /\ \A i \in 1..n : z[i] = front[i]
  BY <1>2, <1>3
<1>5. z = s
  <2> HIDE DEF z
  <2>1. \A i \in 1..Len(z) : z[i] = s[i]
    BY <1>3, <1>4
  <2> QED BY <1>4, <2>1, SeqEqual
<1> QED BY <1>2, <1>3, <1>5 DEF front

\* Induction, for the set of the sequences that have a property.
LEMMA SequenceInduction ==
    ASSUME NEW T, NEW S \in SUBSET Seq(T), <<>> \in S,
           \A s \in S, x \in T : Append(s, x) \in S
    PROVE  S = Seq(T)
<1> DEFINE Reached == {n \in Nat : \A s \in Seq(T) : Len(s) = n => s \in S}
<1>1. 0 \in Reached
  <2>1. \A s \in Seq(T) : Len(s) = 0 => s = <<>>
    OBVIOUS
  <2> QED BY <2>1
<1>2. ASSUME NEW n \in Reached PROVE n + 1 \in Reached
  <2>1. ASSUME NEW s \in Seq(T), Len(s) = n + 1 PROVE s \in S
    <3>1. /\ SubSeq(s, 1, n) \in Seq(T) /\ Len(SubSeq(s, 1, n)) = n
          /\ s[n + 1] \in T /\ s = Append(SubSeq(s, 1, n), s[n + 1])
      BY <1>2, <2>1, LastAppended
    <3>2. SubSeq(s, 1, n) \in S
      BY <1>2, <3>1
    <3> QED BY <3>1, <3>2
  <2>2. n + 1 \in Nat
    BY <1>2
  <2> QED BY <2>1, <2>2
<1>3. Reached = Nat
  <2>1. Reached \in SUBSET Nat
    OBVIOUS
  <2> HIDE DEF Reached
  <2> QED BY <1>1, <1>2, <2>1, Induction
<1>4. ASSUME NEW s \in Seq(T) PROVE s \in S
  <2>1. Len(s) \in Reached
    BY <1>3
  <2> QED BY <2>1
<1> QED BY <1>4

\* The elements of a sequence, with one more.
LEMMA Appended ==
    ASSUME NEW T, NEW s \in Seq(T), NEW x \in T
    PROVE  /\ Append(s, x) \in Seq(T) /\ Len(Append(s, x)) = Len(s) + 1
           /\ DOMAIN Append(s, x) = 1..(Len(s) + 1) /\ DOMAIN s = 1..Len(s)
           /\ Len(s) \in Nat /\ Append(s, x)[Len(s) + 1] = x
           /\ \A i \in 1..Len(s) : Append(s, x)[i] = s[i]
OBVIOUS

=============================================================================
