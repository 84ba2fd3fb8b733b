-------------------------- MODULE AnswerPath_proofs --------------------------
(***************************************************************************)
(* Proofs about AnswerPath, for any corpus, conversation, approved answers *)
(* and outputs of the models.                                              *)
(*                                                                         *)
(* What the code computes of lists comes first: leaving repetitions out    *)
(* and collecting related sections are folds, the fusion and the ranking   *)
(* of subproblems are sorted sets, the citations are numbered by the first *)
(* of several equal sections. Then a turn is either under way or has one   *)
(* of three endings, and each step leads from the first to one of them.    *)
(***************************************************************************)
EXTENDS AnswerPath, DataLemmas

-----------------------------------------------------------------------------
(* Without repetitions *)

\* One step of _unique_chunk_indexes: an element that is already there is left out.
DistinctStep(T) ==
    [p \in Seq(T) \X T |-> IF Contains(p[1], p[2]) THEN p[1] ELSE Append(p[1], p[2])]

\* The loop that leaves repetitions out is a fold.
LEMMA DistinctIsFolded ==
    ASSUME NEW T, NEW s \in Seq(T)
    PROVE  Distinct(s) = Folded(Seq(T), DistinctStep(T), <<>>, s)
<1> DEFINE D == Seq(T)
           step == DistinctStep(T)
           next(it, X) == IF Contains(it[X \ {Max(X)}], s[Max(X)]) THEN it[X \ {Max(X)}]
                          ELSE Append(it[X \ {Max(X)}], s[Max(X)])
           Table(it) == it = [X \in SUBSET DOMAIN s |-> IF X = {} THEN <<>> ELSE next(it, X)]
           table == CHOOSE it : Table(it)
<1>1. step \in [D \X T -> D] /\ <<>> \in D
  BY DEF DistinctStep
<1>2. \A d \in D, x \in T : step[<<d, x>>] = IF Contains(d, x) THEN d ELSE Append(d, x)
  BY DEF DistinctStep
<1>3. DOMAIN s = 1..Len(s) /\ Len(s) \in Nat /\ \A k \in 1..Len(s) : s[k] \in T
  OBVIOUS
<1>4. Distinct(s) = table[1..Len(s)]
  BY <1>3 DEF Distinct, FoldLeft, MapThenFoldSet
<1> HIDE DEF D, step
<1>5. \E it : Table(it)
  <2>1. PICK it : TableTo(it, Len(s), D, step, <<>>, s)
    BY <1>1, TableExists DEF D
  <2>2. it = [X \in SUBSET DOMAIN s |-> it[X]] /\ it[{}] = <<>>
    BY <1>3, <2>1 DEF TableTo
  <2>3. ASSUME NEW X \in (SUBSET DOMAIN s) \ {{}} PROVE it[X] = next(it, X)
    <3>1. X \in (SUBSET (1..Len(s))) \ {{}} /\ Max(X) \in X
      BY <1>3, MaxPlace
    <3>2. it[X \ {Max(X)}] \in D /\ s[Max(X)] \in T
      BY <1>3, <2>1, <3>1 DEF TableTo
    <3> QED BY <1>2, <2>1, <3>1, <3>2 DEF TableTo
  <2> HIDE DEF next
  <2>4. Table(it)
    BY <2>2, <2>3
  <2> HIDE DEF Table
  <2> QED BY <2>4
<1>6. Table(table)
  <2> HIDE DEF Table
  <2> QED BY <1>5
<1> HIDE DEF table
<1>7. TableFollows(table, D, step, <<>>, s)
  <2>1. table[{}] = <<>>
    BY <1>6
  <2>2. ASSUME NEW X \in (SUBSET (1..Len(s))) \ {{}},
               Max(X) \in X, table[X \ {Max(X)}] \in D
        PROVE  table[X] = step[<<table[X \ {Max(X)}], s[Max(X)]>>]
    <3>1. table[X] = next(table, X) /\ s[Max(X)] \in T
      <4> HIDE DEF next
      <4> QED BY <1>3, <1>6, <2>2
    <3> QED BY <1>2, <2>2, <3>1
  <2> QED BY <2>1, <2>2 DEF TableFollows
<1>8. table[1..Len(s)] = Folded(D, step, <<>>, s) /\ Folded(D, step, <<>>, s) \in D
  BY <1>1, <1>7, TableIsFolded DEF D
<1> QED BY <1>4, <1>8 DEF D, step

\* What the loop makes of no element, and of one element more.
LEMMA DistinctLaws ==
    ASSUME NEW T
    PROVE  /\ Distinct(<<>>) = <<>>
           /\ \A s \in Seq(T) : Distinct(s) \in Seq(T)
           /\ \A s \in Seq(T), x \in T :
                 Distinct(Append(s, x)) =
                    IF Contains(Distinct(s), x) THEN Distinct(s) ELSE Append(Distinct(s), x)
<1> DEFINE D == Seq(T)
           step == DistinctStep(T)
<1>1. step \in [D \X T -> D] /\ <<>> \in D /\ Stepping(T, D, step, <<>>)
  BY DEF DistinctStep, Stepping
<1>2. \A d \in D, x \in T : step[<<d, x>>] = IF Contains(d, x) THEN d ELSE Append(d, x)
  BY DEF DistinctStep
<1> HIDE DEF step
<1>3. \A s \in D : Distinct(s) = Folded(D, step, <<>>, s)
  BY DistinctIsFolded DEF step
<1>4. /\ Folded(D, step, <<>>, <<>>) = <<>>
      /\ \A s \in Seq(T) : Folded(D, step, <<>>, s) \in D
      /\ \A s \in Seq(T), x \in T :
            Folded(D, step, <<>>, Append(s, x)) = step[<<Folded(D, step, <<>>, s), x>>]
  <2> HIDE DEF D
  <2> QED BY <1>1, FoldedLaws
<1>5. \A s \in D, x \in T : Append(s, x) \in D
  OBVIOUS
<1> HIDE DEF D
<1>6. Distinct(<<>>) = <<>>
  BY <1>1, <1>3, <1>4
<1>7. ASSUME NEW s \in D PROVE Distinct(s) \in D
  BY <1>3, <1>4 DEF D
<1>8. ASSUME NEW s \in D, NEW x \in T
      PROVE  Distinct(Append(s, x)) =
                IF Contains(Distinct(s), x) THEN Distinct(s) ELSE Append(Distinct(s), x)
  <2>1. Distinct(Append(s, x)) = step[<<Distinct(s), x>>]
    BY <1>3, <1>4, <1>5 DEF D
  <2> QED BY <1>2, <1>7, <2>1
<1> QED BY <1>6, <1>7, <1>8 DEF D

\* d has the elements of s, each once, none later than in s.
Once(d, s) ==
    /\ \A i, j \in 1..Len(d) : d[i] = d[j] => i = j
    /\ \A i \in 1..Len(s) : \E j \in 1..Len(d) : j <= i /\ d[j] = s[i]
    /\ \A j \in 1..Len(d) : \E i \in 1..Len(s) : d[j] = s[i]

\* Without repetitions, each at its first place.
LEMMA DistinctIsOnce ==
    ASSUME NEW T, NEW s \in Seq(T)
    PROVE  Distinct(s) \in Seq(T) /\ Once(Distinct(s), s) /\ Len(Distinct(s)) <= Len(s)
<1> DEFINE S == {t \in Seq(T) : Once(Distinct(t), t) /\ Len(Distinct(t)) <= Len(t)}
<1>1. <<>> \in S
  <2>1. Distinct(<<>>) = <<>> /\ <<>> \in Seq(T)
    BY DistinctLaws
  <2> QED BY <2>1 DEF Once
<1>2. ASSUME NEW t \in S, NEW x \in T PROVE Append(t, x) \in S
  <2> DEFINE d == Distinct(t)
             z == Append(t, x)
             e == Distinct(z)
  <2>1. t \in Seq(T) /\ Once(d, t) /\ Len(d) <= Len(t)
    BY <1>2
  <2>2. d \in Seq(T) /\ e = IF Contains(d, x) THEN d ELSE Append(d, x)
    BY <2>1, DistinctLaws
  <2>3. /\ z \in Seq(T) /\ Len(z) = Len(t) + 1 /\ Len(t) \in Nat /\ z[Len(t) + 1] = x
        /\ \A i \in 1..Len(t) : z[i] = t[i]
    BY <2>1, Appended
  <2>4. Len(d) \in Nat
    BY <2>2
  <2> HIDE DEF d, z, e
  <2>5. CASE Contains(d, x)
    <3>1. e = d
      BY <2>2, <2>5
    <3>2. PICK k \in 1..Len(d) : d[k] = x
      BY <2>5 DEF Contains
    <3>3. k <= Len(t) + 1
      BY <2>1, <2>3, <2>4
    <3>4. ASSUME NEW i \in 1..Len(z) PROVE \E j \in 1..Len(d) : j <= i /\ d[j] = z[i]
      <4>1. CASE i = Len(t) + 1
        BY <2>3, <3>2, <3>3, <4>1
      <4>2. CASE i \in 1..Len(t)
        BY <2>1, <2>3, <4>2 DEF Once
      <4> QED BY <2>3, <4>1, <4>2
    <3>5. ASSUME NEW j \in 1..Len(d) PROVE \E i \in 1..Len(z) : d[j] = z[i]
      <4>1. PICK i \in 1..Len(t) : d[j] = t[i]
        BY <2>1 DEF Once
      <4>2. i \in 1..Len(z) /\ z[i] = t[i]
        BY <2>3
      <4> QED BY <4>1, <4>2
    <3>6. Once(e, z)
      BY <2>1, <3>1, <3>4, <3>5 DEF Once
    <3>7. Len(e) <= Len(z)
      BY <2>1, <2>3, <2>4, <3>1
    <3> QED BY <2>3, <3>6, <3>7 DEF e, z
  <2>6. CASE ~Contains(d, x)
    <3>1. /\ e \in Seq(T) /\ Len(e) = Len(d) + 1 /\ e[Len(d) + 1] = x
          /\ \A i \in 1..Len(d) : e[i] = d[i]
      <4>1. e = Append(d, x)
        BY <2>2, <2>6
      <4> QED BY <2>2, <4>1, Appended
    <3>2. \A k \in 1..Len(d) : d[k] # x
      BY <2>6 DEF Contains
    <3>3. ASSUME NEW i \in 1..Len(e), NEW j \in 1..Len(e), e[i] = e[j] PROVE i = j
      <4>1. CASE i = Len(d) + 1 /\ j = Len(d) + 1
        BY <4>1
      <4>2. CASE i = Len(d) + 1 /\ j \in 1..Len(d)
        BY <3>1, <3>2, <3>3, <4>2
      <4>3. CASE j = Len(d) + 1 /\ i \in 1..Len(d)
        BY <3>1, <3>2, <3>3, <4>3
      <4>4. CASE i \in 1..Len(d) /\ j \in 1..Len(d)
        BY <2>1, <3>1, <3>3, <4>4 DEF Once
      <4> QED BY <2>4, <3>1, <4>1, <4>2, <4>3, <4>4
    <3>4. ASSUME NEW i \in 1..Len(z) PROVE \E j \in 1..Len(e) : j <= i /\ e[j] = z[i]
      <4>1. CASE i = Len(t) + 1
        <5>1. Len(d) + 1 \in 1..Len(e) /\ Len(d) + 1 <= i
          BY <2>1, <2>3, <2>4, <3>1, <4>1
        <5> QED BY <2>3, <3>1, <4>1, <5>1
      <4>2. CASE i \in 1..Len(t)
        <5>1. PICK j \in 1..Len(d) : j <= i /\ d[j] = t[i]
          BY <2>1, <4>2 DEF Once
        <5>2. j \in 1..Len(e) /\ e[j] = d[j]
          BY <2>4, <3>1
        <5> QED BY <2>3, <4>2, <5>1, <5>2
      <4> QED BY <2>3, <4>1, <4>2
    <3>5. ASSUME NEW j \in 1..Len(e) PROVE \E i \in 1..Len(z) : e[j] = z[i]
      <4>1. CASE j = Len(d) + 1
        <5>1. Len(t) + 1 \in 1..Len(z)
          BY <2>3
        <5> QED BY <2>3, <3>1, <4>1, <5>1
      <4>2. CASE j \in 1..Len(d)
        <5>1. PICK i \in 1..Len(t) : d[j] = t[i]
          BY <2>1, <4>2 DEF Once
        <5>2. i \in 1..Len(z) /\ z[i] = t[i]
          BY <2>3
        <5> QED BY <3>1, <4>2, <5>1, <5>2
      <4> QED BY <2>4, <3>1, <4>1, <4>2
    <3>6. Once(e, z)
      BY <3>3, <3>4, <3>5 DEF Once
    <3>7. Len(e) <= Len(z)
      BY <2>1, <2>3, <2>4, <3>1
    <3> QED BY <2>3, <3>6, <3>7 DEF e, z
  <2> QED BY <2>5, <2>6
<1>3. S = Seq(T)
  <2>1. S \in SUBSET Seq(T)
    OBVIOUS
  <2> HIDE DEF S
  <2> QED BY <1>1, <1>2, <2>1, SequenceInduction
<1>4. s \in S
  BY <1>3
<1> QED BY <1>4, DistinctLaws

-----------------------------------------------------------------------------
(* Related sections *)

\* The sections that citations and related sections name.
Sections == {Section(c) : c \in Chunk}

\* One step of _related_sections.
Pointed(seen, section, linked) ==
    IF linked /\ ~Contains(seen, section) /\ Len(seen) < MaxRelated
      THEN Append(seen, section) ELSE seen

\* It, as the step of a fold.
RelatedStep ==
    [p \in Seq(Sections) \X Chunk |-> Pointed(p[1], Section(p[2]), Linkable(p[2]))]

\* A chunk stands in a section.
LEMMA SectionType ==
    \A c \in Chunk : Section(c) \in Sections
BY DEF Sections

\* A step of the loop yields a list of sections.
LEMMA PointedType ==
    ASSUME NEW T, NEW seen \in Seq(T), NEW section \in T, NEW linked \in BOOLEAN
    PROVE  Pointed(seen, section, linked) \in Seq(T)
BY DEF Pointed

\* A chunk can be linked to or not.
LEMMA LinkableType ==
    \A c \in Chunk : Linkable(c) \in BOOLEAN
BY DEF Linkable

\* The loop of _related_sections is a fold.
LEMMA RelatedIsFolded ==
    ASSUME NEW s \in Seq(Chunk)
    PROVE  RelatedSections(s) = Folded(Seq(Sections), RelatedStep, <<>>, s)
<1> DEFINE D == Seq(Sections)
           T == Chunk
           step == RelatedStep
           next(it, X) == IF Linkable(s[Max(X)]) /\ ~Contains(it[X \ {Max(X)}], Section(s[Max(X)]))
                             /\ Len(it[X \ {Max(X)}]) < MaxRelated
                            THEN Append(it[X \ {Max(X)}], Section(s[Max(X)]))
                            ELSE it[X \ {Max(X)}]
           Table(it) == it = [X \in SUBSET DOMAIN s |-> IF X = {} THEN <<>> ELSE next(it, X)]
           table == CHOOSE it : Table(it)
<1>1. step \in [D \X T -> D] /\ <<>> \in D
  BY SectionType, LinkableType, PointedType DEF RelatedStep
<1>2. \A d \in D, x \in T : step[<<d, x>>] = Pointed(d, Section(x), Linkable(x))
  BY DEF RelatedStep
<1>3. DOMAIN s = 1..Len(s) /\ Len(s) \in Nat /\ \A k \in 1..Len(s) : s[k] \in T
  OBVIOUS
<1>4. RelatedSections(s) = table[1..Len(s)]
  BY <1>3 DEF RelatedSections, FoldLeft, MapThenFoldSet
<1> HIDE DEF D, T, step
<1>5. \E it : Table(it)
  <2>1. PICK it : TableTo(it, Len(s), D, step, <<>>, s)
    BY <1>1, TableExists DEF D, T
  <2>2. it = [X \in SUBSET DOMAIN s |-> it[X]] /\ it[{}] = <<>>
    BY <1>3, <2>1 DEF TableTo
  <2>3. ASSUME NEW X \in (SUBSET DOMAIN s) \ {{}} PROVE it[X] = next(it, X)
    <3>1. X \in (SUBSET (1..Len(s))) \ {{}} /\ Max(X) \in X
      BY <1>3, MaxPlace
    <3>2. it[X \ {Max(X)}] \in D /\ s[Max(X)] \in T
      BY <1>3, <2>1, <3>1 DEF TableTo
    <3> QED BY <1>2, <2>1, <3>1, <3>2 DEF TableTo, Pointed
  <2> HIDE DEF next
  <2>4. Table(it)
    BY <2>2, <2>3
  <2> HIDE DEF Table
  <2> QED BY <2>4
<1>6. Table(table)
  <2> HIDE DEF Table
  <2> QED BY <1>5
<1> HIDE DEF table
<1>7. TableFollows(table, D, step, <<>>, s)
  <2>1. table[{}] = <<>>
    BY <1>6
  <2>2. ASSUME NEW X \in (SUBSET (1..Len(s))) \ {{}},
               Max(X) \in X, table[X \ {Max(X)}] \in D
        PROVE  table[X] = step[<<table[X \ {Max(X)}], s[Max(X)]>>]
    <3>1. table[X] = next(table, X) /\ s[Max(X)] \in T
      <4> HIDE DEF next
      <4> QED BY <1>3, <1>6, <2>2
    <3> QED BY <1>2, <2>2, <3>1 DEF Pointed
  <2> QED BY <2>1, <2>2 DEF TableFollows
<1>8. table[1..Len(s)] = Folded(D, step, <<>>, s) /\ Folded(D, step, <<>>, s) \in D
  BY <1>1, <1>7, TableIsFolded DEF D, T
<1> QED BY <1>4, <1>8 DEF D, step


\* The related sections of no chunk, and of one chunk more.
LEMMA RelatedLaws ==
    /\ RelatedSections(<<>>) = <<>>
    /\ \A s \in Seq(Chunk) : RelatedSections(s) \in Seq(Sections)
    /\ \A s \in Seq(Chunk), x \in Chunk :
          RelatedSections(Append(s, x)) = Pointed(RelatedSections(s), Section(x), Linkable(x))
<1> DEFINE D == Seq(Sections)
<1>1. RelatedStep \in [D \X Chunk -> D] /\ <<>> \in D /\ Stepping(Chunk, D, RelatedStep, <<>>)
  <2>1. RelatedStep \in [D \X Chunk -> D] /\ <<>> \in D
    BY SectionType, LinkableType, PointedType DEF RelatedStep
  <2> QED BY <2>1 DEF Stepping
<1>2. \A d \in D, x \in Chunk : RelatedStep[<<d, x>>] = Pointed(d, Section(x), Linkable(x))
  BY DEF RelatedStep
<1>3. \A s \in Seq(Chunk) : RelatedSections(s) = Folded(D, RelatedStep, <<>>, s)
  BY RelatedIsFolded
<1> HIDE DEF D
<1>4. /\ Folded(D, RelatedStep, <<>>, <<>>) = <<>>
      /\ \A s \in Seq(Chunk) : Folded(D, RelatedStep, <<>>, s) \in D
      /\ \A s \in Seq(Chunk), x \in Chunk :
            Folded(D, RelatedStep, <<>>, Append(s, x)) =
               RelatedStep[<<Folded(D, RelatedStep, <<>>, s), x>>]
  BY <1>1, FoldedLaws
<1>5. <<>> \in Seq(Chunk) /\ \A s \in Seq(Chunk), x \in Chunk : Append(s, x) \in Seq(Chunk)
  OBVIOUS
<1>6. RelatedSections(<<>>) = <<>>
  BY <1>3, <1>4, <1>5
<1>7. ASSUME NEW s \in Seq(Chunk) PROVE RelatedSections(s) \in D
  BY <1>3, <1>4
<1>8. ASSUME NEW s \in Seq(Chunk), NEW x \in Chunk
      PROVE  RelatedSections(Append(s, x)) = Pointed(RelatedSections(s), Section(x), Linkable(x))
  <2>1. RelatedSections(Append(s, x)) = RelatedStep[<<RelatedSections(s), x>>]
    BY <1>3, <1>4, <1>5
  <2> QED BY <1>2, <1>7, <2>1
<1> QED BY <1>6, <1>7, <1>8 DEF D

\* The retrieval rows that a list of chunks leaves.
Rows(bm25, vector, s) ==
    FoldLeft(LAMBDA rows, c : rows \o (IF Contains(bm25, c) THEN <<c>> ELSE <<>>)
                                   \o (IF Contains(vector, c) THEN <<c>> ELSE <<>>),
             <<>>, s)

\* The rows with those of one more chunk.
Rowed(rows, c, bm25, vector) ==
    rows \o (IF Contains(bm25, c) THEN <<c>> ELSE <<>>)
         \o (IF Contains(vector, c) THEN <<c>> ELSE <<>>)

\* Leaving the rows of a chunk, as a step of a fold.
RowStep(bm25, vector) ==
    [p \in Seq(Chunk) \X Chunk |-> Rowed(p[1], p[2], bm25, vector)]

\* Rows name chunks.
LEMMA RowedType ==
    ASSUME NEW rows \in Seq(Chunk), NEW c \in Chunk, NEW bm25, NEW vector
    PROVE  Rowed(rows, c, bm25, vector) \in Seq(Chunk)
BY DEF Rowed

\* The loop that leaves the rows is a fold.
LEMMA RowsIsFolded ==
    ASSUME NEW bm25, NEW vector, NEW s \in Seq(Chunk)
    PROVE  Rows(bm25, vector, s) = Folded(Seq(Chunk), RowStep(bm25, vector), <<>>, s)
<1> DEFINE D == Seq(Chunk)
           T == Chunk
           step == RowStep(bm25, vector)
           next(it, X) == it[X \ {Max(X)}]
                             \o (IF Contains(bm25, s[Max(X)]) THEN <<s[Max(X)]>> ELSE <<>>)
                             \o (IF Contains(vector, s[Max(X)]) THEN <<s[Max(X)]>> ELSE <<>>)
           Table(it) == it = [X \in SUBSET DOMAIN s |-> IF X = {} THEN <<>> ELSE next(it, X)]
           table == CHOOSE it : Table(it)
<1>1. step \in [D \X T -> D] /\ <<>> \in D
  BY RowedType DEF RowStep
<1>2. \A d \in D, x \in T : step[<<d, x>>] = Rowed(d, x, bm25, vector)
  BY DEF RowStep
<1>3. DOMAIN s = 1..Len(s) /\ Len(s) \in Nat /\ \A k \in 1..Len(s) : s[k] \in T
  OBVIOUS
<1>4. Rows(bm25, vector, s) = table[1..Len(s)]
  BY <1>3 DEF Rows, FoldLeft, MapThenFoldSet
<1> HIDE DEF D, T, step
<1>5. \E it : Table(it)
  <2>1. PICK it : TableTo(it, Len(s), D, step, <<>>, s)
    BY <1>1, TableExists DEF D, T
  <2>2. it = [X \in SUBSET DOMAIN s |-> it[X]] /\ it[{}] = <<>>
    BY <1>3, <2>1 DEF TableTo
  <2>3. ASSUME NEW X \in (SUBSET DOMAIN s) \ {{}} PROVE it[X] = next(it, X)
    <3>1. X \in (SUBSET (1..Len(s))) \ {{}} /\ Max(X) \in X
      BY <1>3, MaxPlace
    <3>2. it[X \ {Max(X)}] \in D /\ s[Max(X)] \in T
      BY <1>3, <2>1, <3>1 DEF TableTo
    <3> QED BY <1>2, <2>1, <3>1, <3>2 DEF TableTo, Rowed
  <2> HIDE DEF next
  <2>4. Table(it)
    BY <2>2, <2>3
  <2> HIDE DEF Table
  <2> QED BY <2>4
<1>6. Table(table)
  <2> HIDE DEF Table
  <2> QED BY <1>5
<1> HIDE DEF table
<1>7. TableFollows(table, D, step, <<>>, s)
  <2>1. table[{}] = <<>>
    BY <1>6
  <2>2. ASSUME NEW X \in (SUBSET (1..Len(s))) \ {{}},
               Max(X) \in X, table[X \ {Max(X)}] \in D
        PROVE  table[X] = step[<<table[X \ {Max(X)}], s[Max(X)]>>]
    <3>1. table[X] = next(table, X) /\ s[Max(X)] \in T
      <4> HIDE DEF next
      <4> QED BY <1>3, <1>6, <2>2
    <3> QED BY <1>2, <2>2, <3>1 DEF Rowed
  <2> QED BY <2>1, <2>2 DEF TableFollows
<1>8. table[1..Len(s)] = Folded(D, step, <<>>, s) /\ Folded(D, step, <<>>, s) \in D
  BY <1>1, <1>7, TableIsFolded DEF D, T
<1> QED BY <1>4, <1>8 DEF D, step


\* The rows of no chunk, and of one chunk more.
LEMMA RowsLaws ==
    ASSUME NEW bm25, NEW vector
    PROVE  /\ Rows(bm25, vector, <<>>) = <<>>
           /\ \A s \in Seq(Chunk) : Rows(bm25, vector, s) \in Seq(Chunk)
           /\ \A s \in Seq(Chunk), x \in Chunk :
                 Rows(bm25, vector, Append(s, x)) = Rowed(Rows(bm25, vector, s), x, bm25, vector)
<1> DEFINE D == Seq(Chunk)
           step == RowStep(bm25, vector)
<1>1. step \in [D \X Chunk -> D] /\ <<>> \in D /\ Stepping(Chunk, D, step, <<>>)
  BY RowedType DEF RowStep, Stepping
<1>2. \A d \in D, x \in Chunk : step[<<d, x>>] = Rowed(d, x, bm25, vector)
  BY DEF RowStep
<1> HIDE DEF step
<1>3. \A s \in Seq(Chunk) : Rows(bm25, vector, s) = Folded(D, step, <<>>, s)
  BY RowsIsFolded DEF step
<1> HIDE DEF D
<1>4. /\ Folded(D, step, <<>>, <<>>) = <<>>
      /\ \A s \in Seq(Chunk) : Folded(D, step, <<>>, s) \in D
      /\ \A s \in Seq(Chunk), x \in Chunk :
            Folded(D, step, <<>>, Append(s, x)) = step[<<Folded(D, step, <<>>, s), x>>]
  BY <1>1, FoldedLaws
<1>5. <<>> \in Seq(Chunk) /\ \A s \in Seq(Chunk), x \in Chunk : Append(s, x) \in Seq(Chunk)
  OBVIOUS
<1>6. Rows(bm25, vector, <<>>) = <<>>
  BY <1>3, <1>4, <1>5
<1>7. ASSUME NEW s \in Seq(Chunk) PROVE Rows(bm25, vector, s) \in D
  BY <1>3, <1>4
<1>8. ASSUME NEW s \in Seq(Chunk), NEW x \in Chunk
      PROVE  Rows(bm25, vector, Append(s, x)) = Rowed(Rows(bm25, vector, s), x, bm25, vector)
  <2>1. Rows(bm25, vector, Append(s, x)) = step[<<Rows(bm25, vector, s), x>>]
    BY <1>3, <1>4, <1>5
  <2> QED BY <1>2, <1>7, <2>1
<1> QED BY <1>6, <1>7, <1>8 DEF D

\* Each section once is each section once.
LEMMA PointedTwice ==
    ASSUME NEW T, NEW seen \in Seq(T), NEW section \in T, NEW linked \in BOOLEAN
    PROVE  Pointed(Pointed(seen, section, linked), section, linked) = Pointed(seen, section, linked)
<1>1. Contains(Append(seen, section), section)
  BY Appended DEF Contains
<1> QED BY <1>1 DEF Pointed

\* The rows of a list of chunks, each of which one of the retrievers found, point
\* to the sections that the chunks point to: what a poll computes from the log is
\* what the turn was answered with.
LEMMA RowsPointToTheSame ==
    ASSUME NEW bm25, NEW vector, NEW s \in Seq(Chunk),
           \A i \in 1..Len(s) : Contains(bm25, s[i]) \/ Contains(vector, s[i])
    PROVE  RelatedSections(Rows(bm25, vector, s)) = RelatedSections(s)
<1> DEFINE Both(t) == \A i \in 1..Len(t) : Contains(bm25, t[i]) \/ Contains(vector, t[i])
           Same(t) == RelatedSections(Rows(bm25, vector, t)) = RelatedSections(t)
           S == {t \in Seq(Chunk) : Both(t) => Same(t)}
<1>1. <<>> \in S
  <2>1. <<>> \in Seq(Chunk) /\ Same(<<>>)
    BY RowsLaws
  <2> HIDE DEF Both, Same
  <2> QED BY <2>1
<1>2. ASSUME NEW t \in S, NEW x \in Chunk PROVE Append(t, x) \in S
  <2> DEFINE z == Append(t, x)
             rows == Rows(bm25, vector, t)
  <2>1. t \in Seq(Chunk) /\ z \in Seq(Chunk) /\ rows \in Seq(Chunk)
    <3>1. t \in Seq(Chunk) /\ z \in Seq(Chunk)
      OBVIOUS
    <3> HIDE DEF z
    <3>2. rows \in Seq(Chunk)
      BY <3>1, RowsLaws
    <3> QED BY <3>1, <3>2
  <2>2. SUFFICES ASSUME Both(z) PROVE Same(z)
    BY <2>1
  <2>3. Contains(bm25, x) \/ Contains(vector, x)
    <3>1. z[Len(t) + 1] = x /\ Len(t) + 1 \in 1..Len(z)
      BY <2>1, Appended
    <3> QED BY <2>2, <3>1
  <2>4. RelatedSections(rows) = RelatedSections(t)
    <3>1. \A i \in 1..Len(t) : i \in 1..Len(z) /\ z[i] = t[i]
      BY <2>1, Appended
    <3>2. Both(t)
      BY <2>2, <3>1
    <3> QED BY <1>2, <3>2
  <2> DEFINE r == RelatedSections(t)
             p == Pointed(r, Section(x), Linkable(x))
  <2>5. r \in Seq(Sections) /\ Section(x) \in Sections /\ Linkable(x) \in BOOLEAN
    BY <2>1, RelatedLaws, SectionType, LinkableType
  <2>6. RelatedSections(z) = p
    BY <2>1, RelatedLaws
  <2>7. \/ Rows(bm25, vector, z) = Append(rows, x)
        \/ Rows(bm25, vector, z) = Append(Append(rows, x), x)
    <3> HIDE DEF rows, z
    <3>1. /\ rows \o <<x>> = Append(rows, x) /\ rows \o <<>> = rows
          /\ Append(rows, x) \o <<>> = Append(rows, x)
          /\ Append(rows, x) \o <<x>> = Append(Append(rows, x), x)
      BY <2>1
    <3>2. Rows(bm25, vector, z) = Rowed(rows, x, bm25, vector)
      BY <2>1, RowsLaws DEF rows, z
    <3> QED BY <2>3, <3>1, <3>2 DEF Rowed
  <2>8. RelatedSections(Append(rows, x)) = p
    BY <2>1, <2>4, RelatedLaws
  <2>9. RelatedSections(Append(Append(rows, x), x)) = p
    <3>1. Append(rows, x) \in Seq(Chunk)
      BY <2>1
    <3>2. RelatedSections(Append(Append(rows, x), x)) = Pointed(p, Section(x), Linkable(x))
      BY <2>8, <3>1, RelatedLaws
    <3> QED BY <2>5, <3>2, PointedTwice
  <2> HIDE DEF z, p
  <2> QED BY <2>6, <2>7, <2>8, <2>9
<1>3. S = Seq(Chunk)
  <2>1. S \in SUBSET Seq(Chunk)
    OBVIOUS
  <2> HIDE DEF S
  <2> QED BY <1>1, <1>2, <2>1, SequenceInduction
<1>4. s \in S
  BY <1>3
<1> QED BY <1>4

-----------------------------------------------------------------------------
(* Arithmetic of the scores *)

\* An inequality times a positive number.
LEMMA Scaled ==
    ASSUME NEW x \in Int, NEW y \in Int, NEW z \in Int, z > 0
    PROVE  x > y <=> x * z > y * z
<1>1. ASSUME x > y PROVE x * z > y * z
  <2>1. (x - y) * z > 0
    BY <1>1
  <2> QED BY <2>1
<1>2. ASSUME ~(x > y) PROVE ~(x * z > y * z)
  <2>1. (y - x) * z >= 0
    BY <1>2
  <2> QED BY <2>1
<1> QED BY <1>1, <1>2

\* Ranks within K + 1 of both retrievers score higher than one rank of one of them.
LEMMA BothBeatOne ==
    ASSUME NEW K \in Nat \ {0}, NEW b \in 1..(K + 1), NEW v \in 1..(K + 1), NEW x \in Nat \ {0}
    PROVE  (2 * K + b + v) * (K + x) > (K + b) * (K + v)
<1> DEFINE B == K + b
           V == K + v
<1>1. B \in Int /\ V \in Int /\ K + 1 <= B /\ B <= 2 * K + 1 /\ K + 1 <= V /\ V <= 2 * K + 1
  OBVIOUS
<1>2. 2 * K + b + v = B + V /\ K + x >= K + 1 /\ K \in Int /\ K >= 1
  OBVIOUS
<1> HIDE DEF B, V
<1>3. B * (2 * K + 1 - V) >= 0 /\ V * (2 * K + 1 - B) >= 0
  BY <1>1, <1>2
<1>4. 2 * (B * V) <= (B + V) * (2 * K + 1)
  BY <1>1, <1>2, <1>3
<1>5. (B + V) * (2 * K + 1) < 2 * ((B + V) * (K + 1))
  BY <1>1, <1>2
<1>6. (B + V) * (K + x) >= (B + V) * (K + 1)
  <2>1. (B + V) * ((K + x) - (K + 1)) >= 0
    BY <1>1, <1>2
  <2> QED BY <1>1, <1>2, <2>1
<1>7. (B + V) * (K + x) > B * V
  BY <1>1, <1>2, <1>4, <1>5, <1>6
<1> QED BY <1>2, <1>7 DEF B, V

\* Better ranks of both retrievers have the higher sum of reciprocals.
LEMMA NearerIsHigher ==
    ASSUME NEW B \in Nat \ {0}, NEW V \in Nat \ {0}, NEW C \in Nat \ {0}, NEW W \in Nat \ {0},
           B <= C, V <= W, B < C \/ V < W
    PROVE  (B + V) * (C * W) > (C + W) * (B * V)
<1>1. B * C > 0 /\ V * W > 0 /\ W - V >= 0 /\ C - B >= 0
  OBVIOUS
<1>2. (B * C) * (W - V) >= 0 /\ (V * W) * (C - B) >= 0
  BY <1>1
<1>3. (B * C) * (W - V) > 0 \/ (V * W) * (C - B) > 0
  BY <1>1
<1>4. (B + V) * (C * W) - (C + W) * (B * V) = (B * C) * (W - V) + (V * W) * (C - B)
  OBVIOUS
<1> QED BY <1>2, <1>3, <1>4

\* Fractions, compared crosswise, are ordered transitively.
LEMMA HigherIsTransitive ==
    ASSUME NEW a \in Nat \ {0}, NEW b \in Nat \ {0}, NEW c \in Nat \ {0}, NEW d \in Nat \ {0},
           NEW e \in Nat \ {0}, NEW f \in Nat \ {0},
           a * d >= c * b, c * f >= e * d
    PROVE  /\ a * f >= e * b
           /\ a * d > c * b \/ c * f > e * d => a * f > e * b
<1>1. (a * d) * f >= (c * b) * f /\ (c * f) * b >= (e * d) * b
  OBVIOUS
<1>2. /\ a * d > c * b => (a * d) * f > (c * b) * f
      /\ c * f > e * d => (c * f) * b > (e * d) * b
  OBVIOUS
<1>3. /\ (a * d) * f = (a * f) * d /\ (c * b) * f = (c * f) * b /\ (e * d) * b = (e * b) * d
      /\ a * f \in Int /\ e * b \in Int /\ d \in Int /\ d > 0
  OBVIOUS
<1>4. (a * f) * d >= (e * b) * d
  BY <1>1, <1>3
<1>5. a * d > c * b \/ c * f > e * d => (a * f) * d > (e * b) * d
  BY <1>1, <1>2, <1>3
<1> QED BY <1>3, <1>4, <1>5, Scaled

-----------------------------------------------------------------------------
(* The fusion *)

\* A fraction of positive numbers.
Fraction == (Nat \ {0}) \X (Nat \ {0})

\* By score, then by id.
ByScore(S, p) ==
    {q \in S \X S : Higher(p[q[1]], p[q[2]]) \/ (~Higher(p[q[2]], p[q[1]]) /\ q[1] < q[2])}

\* Scores and ids order the chunks: two of them never tie.
LEMMA ByScoreOrders ==
    ASSUME NEW S \in SUBSET Nat, NEW p \in [S -> Fraction]
    PROVE  StrictOrder(S, ByScore(S, p))
<1> DEFINE n(x) == p[x][1]
           d(x) == p[x][2]
           above(x, y) == n(x) * d(y) > n(y) * d(x)
           R == ByScore(S, p)
<1>1. \A x \in S : n(x) \in Nat \ {0} /\ d(x) \in Nat \ {0}
  BY DEF Fraction
<1>2. \A x, y \in S : Higher(p[x], p[y]) <=> above(x, y)
  BY DEF Higher
<1>3. \A x, y \in S : <<x, y>> \in R <=> above(x, y) \/ (~above(y, x) /\ x < y)
  <2> HIDE DEF above
  <2> QED BY <1>2 DEF ByScore
<1> HIDE DEF n, d, R
<1>4. \A x, y \in S : n(x) * d(y) \in Int
  BY <1>1
<1>5. ASSUME NEW x \in S PROVE <<x, x>> \notin R
  <2>1. ~above(x, x) /\ ~(x < x)
    BY <1>4
  <2> QED BY <1>3, <2>1
<1>6. ASSUME NEW x \in S, NEW y \in S, x # y PROVE <<x, y>> \in R \/ <<y, x>> \in R
  <2>1. x < y \/ y < x
    BY <1>6
  <2>2. ~above(x, y) \/ ~above(y, x)
    BY <1>4
  <2> QED BY <1>3, <2>1, <2>2
<1>7. ASSUME NEW x \in S, NEW y \in S, NEW z \in S, <<x, y>> \in R, <<y, z>> \in R
      PROVE  <<x, z>> \in R
  <2>1. n(x) * d(y) >= n(y) * d(x) /\ n(y) * d(z) >= n(z) * d(y)
    BY <1>3, <1>4, <1>7
  <2>2. /\ n(x) * d(z) >= n(z) * d(x)
        /\ n(x) * d(y) > n(y) * d(x) \/ n(y) * d(z) > n(z) * d(y) => n(x) * d(z) > n(z) * d(x)
    BY <1>1, <2>1, HigherIsTransitive
  <2>3. CASE above(x, y) \/ above(y, z)
    BY <1>3, <2>2, <2>3
  <2>4. CASE ~above(x, y) /\ ~above(y, z)
    <3>1. x < y /\ y < z
      BY <1>3, <1>7, <2>4
    <3>2. x < z /\ ~above(z, x)
      BY <1>4, <2>2, <3>1
    <3> QED BY <1>3, <3>2
  <2> QED BY <2>3, <2>4
<1>8. \A x \in S : <<x, x>> \notin R
  BY <1>5
<1>9. \A x, y, z \in S : <<x, y>> \in R /\ <<y, z>> \in R => <<x, z>> \in R
  BY <1>7
<1>10. \A x, y \in S : x # y => <<x, y>> \in R \/ <<y, x>> \in R
  BY <1>6
<1> QED BY <1>8, <1>9, <1>10 DEF StrictOrder, R

\* What one retriever returns, and where a chunk is in it.
LEMMA Ranks ==
    ASSUME NEW list \in Bm25Lists
    PROVE  /\ list \in Seq(Chunk) /\ ToSet(list) \in SUBSET Chunk
           /\ \A c : RankIn(c, list) \in 0..CandidateK
           /\ \A c : RankIn(c, list) # 0 <=> Contains(list, c)
           /\ \A c : Contains(list, c) <=> c \in ToSet(list)
           /\ \A c, d : RankIn(c, list) # 0 /\ RankIn(c, list) = RankIn(d, list) => c = d
<1>0. CandidateK \in Nat
  <2>1. Cardinality(Chunk) \in Nat
    BY RetrievalAssumption, FS_CardinalityType
  <2> QED BY <2>1, RetrievalAssumption
<1>1. list \in Seq(Chunk) /\ DOMAIN list = 1..Len(list) /\ Len(list) \in 0..CandidateK
  <2>1. CASE list = <<>>
    BY <1>0, <2>1
  <2>2. CASE list \in [1..CandidateK -> Chunk]
    <3>1. list \in Seq(Chunk) /\ Len(list) = CandidateK
      BY <1>0, <2>2
    <3> QED BY <1>0, <2>2, <3>1
  <2> QED BY <2>1, <2>2 DEF Bm25Lists, VectorLists
<1>2. \A c : Contains(list, c) <=> \E i \in DOMAIN list : list[i] = c
  BY <1>1 DEF Contains
<1>3. \A c : Contains(list, c) => RankIn(c, list) \in DOMAIN list /\ list[RankIn(c, list)] = c
  BY <1>2 DEF RankIn
<1>4. \A c : ~Contains(list, c) => RankIn(c, list) = 0
  BY DEF RankIn
<1>5. \A i \in DOMAIN list : i \in 1..CandidateK
  BY <1>0, <1>1
<1>6. \A c : Contains(list, c) => RankIn(c, list) \in 1..CandidateK
  BY <1>3, <1>5
<1>7. \A c : RankIn(c, list) \in 0..CandidateK
  BY <1>0, <1>4, <1>6
<1>8. \A c : RankIn(c, list) # 0 <=> Contains(list, c)
  BY <1>0, <1>4, <1>6
<1>9. ToSet(list) \in SUBSET Chunk
  BY <1>1 DEF ToSet
<1>10. \A c : Contains(list, c) <=> c \in ToSet(list)
  BY <1>2 DEF ToSet
<1>11. ASSUME NEW c, NEW d, RankIn(c, list) # 0, RankIn(c, list) = RankIn(d, list) PROVE c = d
  BY <1>3, <1>8, <1>11
<1> QED BY <1>1, <1>7, <1>8, <1>9, <1>10, <1>11

\* The scores by which the fusion sorts what it found.
Scores(bm25, vector) == [c \in ToSet(bm25) \cup ToSet(vector) |-> RrfScore(c, bm25, vector)]

\* A list of the chunks that were found, each once, by score and id.
ByRank(s, bm25, vector) ==
    /\ s \in Seq(Chunk)
    /\ \A i \in 1..Len(s) : s[i] \in ToSet(bm25) \cup ToSet(vector)
    /\ \A i, j \in 1..Len(s) :
          i < j => <<s[i], s[j]>> \in ByScore(ToSet(bm25) \cup ToSet(vector), Scores(bm25, vector))

\* What is assumed of the constants of the retrieval.
LEMMA ConstantTypes ==
    /\ RrfK \in Nat \ {0} /\ CandidateK \in Nat \ {0} /\ CandidateK <= RrfK + 1
    /\ TopK \in Nat \ {0} /\ DocumentTopK \in Nat \ {0} /\ MaxRelated \in Nat \ {0}
    /\ TopK <= DocumentTopK /\ Chunk \in SUBSET Nat /\ IsFiniteSet(Chunk)
<1>1. Cardinality(Chunk) \in Nat
  BY RetrievalAssumption, FS_CardinalityType
<1> QED BY <1>1, RetrievalAssumption

\* What was found are chunks, and their scores are fractions.
LEMMA ScoreType ==
    ASSUME NEW bm25 \in Bm25Lists, NEW vector \in Bm25Lists
    PROVE  /\ Scores(bm25, vector) \in [ToSet(bm25) \cup ToSet(vector) -> Fraction]
           /\ ToSet(bm25) \cup ToSet(vector) \in SUBSET Chunk
<1>1. ASSUME NEW c \in ToSet(bm25) \cup ToSet(vector) PROVE RrfScore(c, bm25, vector) \in Fraction
  <2> DEFINE b == RankIn(c, bm25)
             v == RankIn(c, vector)
  <2>1. b \in 0..CandidateK /\ v \in 0..CandidateK /\ (b # 0 \/ v # 0)
    BY Ranks
  <2>2. b \in Nat /\ v \in Nat /\ RrfK \in Nat \ {0}
    BY <2>1, ConstantTypes
  <2>3. RrfScore(c, bm25, vector) =
           IF b = 0 THEN <<1, RrfK + v>>
           ELSE IF v = 0 THEN <<1, RrfK + b>>
           ELSE <<2 * RrfK + b + v, (RrfK + b) * (RrfK + v)>>
    BY DEF RrfScore
  <2> HIDE DEF b, v
  <2>4. /\ 1 \in Nat \ {0} /\ RrfK + v \in Nat \ {0} /\ RrfK + b \in Nat \ {0}
        /\ 2 * RrfK + b + v \in Nat \ {0}
    BY <2>2
  <2>5. (RrfK + b) * (RrfK + v) \in Nat \ {0}
    <3>1. \A x, y \in Nat \ {0} : x * y \in Nat \ {0}
      OBVIOUS
    <3> QED BY <2>4, <3>1
  <2> QED BY <2>3, <2>4, <2>5 DEF Fraction
<1>2. ToSet(bm25) \cup ToSet(vector) \in SUBSET Chunk
  BY Ranks
<1> QED BY <1>1, <1>2 DEF Scores

\* fuse_rrf_results sorts what the retrievers found.
LEMMA FusedIsByRank ==
    ASSUME NEW bm25 \in Bm25Lists, NEW vector \in Bm25Lists
    PROVE  /\ ByRank(AllFused(bm25, vector), bm25, vector)
           /\ Len(AllFused(bm25, vector)) = Cardinality(ToSet(bm25) \cup ToSet(vector))
<1> DEFINE S == ToSet(bm25) \cup ToSet(vector)
           p == Scores(bm25, vector)
           R == ByScore(S, p)
           s == AllFused(bm25, vector)
           before(c, d) == \/ Higher(RrfScore(c, bm25, vector), RrfScore(d, bm25, vector))
                           \/ /\ ~Higher(RrfScore(d, bm25, vector), RrfScore(c, bm25, vector))
                              /\ c < d
           prior(x) == {y \in S : before(y, x)}
<1>1. S \in SUBSET Chunk /\ p \in [S -> Fraction]
  BY ScoreType
<1>2. S \in SUBSET Nat /\ IsFiniteSet(S)
  BY <1>1, ConstantTypes, FS_Subset
<1>3. StrictOrder(S, R)
  BY <1>1, <1>2, ByScoreOrders
<1>4. \A c, d \in S : before(c, d) <=> <<c, d>> \in R
  BY DEF ByScore, Scores
<1>5. s = [n \in 1..Cardinality(S) |-> CHOOSE x \in S : Cardinality(prior(x)) = n - 1]
  BY DEF AllFused, SortedBy
<1> HIDE DEF S, s, R
<1>6. \A x \in S : prior(x) = Preds(S, R, x)
  <2> HIDE DEF before
  <2> QED BY <1>4 DEF Preds
<1> HIDE DEF prior
<1>7. Placed(s, S, R)
  <2>1. s = [n \in 1..Cardinality(S) |-> s[n]]
    BY <1>5
  <2>2. ASSUME NEW n \in 1..Cardinality(S), NEW x \in S, Cardinality(Preds(S, R, x)) = n - 1
        PROVE  s[n] \in S /\ Cardinality(Preds(S, R, s[n])) = n - 1
    <3>1. Cardinality(prior(x)) = n - 1
      BY <1>6, <2>2
    <3>2. s[n] = CHOOSE y \in S : Cardinality(prior(y)) = n - 1
      BY <1>5
    <3>3. s[n] \in S /\ Cardinality(prior(s[n])) = n - 1
      BY <3>1, <3>2
    <3> QED BY <1>6, <3>3
  <2> QED BY <2>1, <2>2 DEF Placed
<1>8. /\ s \in Seq(S) /\ Len(s) = Cardinality(S)
      /\ \A i, j \in 1..Len(s) : i < j => <<s[i], s[j]>> \in R
  BY <1>2, <1>3, <1>7, Sorting
<1>9. s \in Seq(Chunk) /\ \A i \in 1..Len(s) : s[i] \in S
  BY <1>1, <1>8
<1> QED BY <1>8, <1>9 DEF ByRank, S, s, R

\* A chunk that both retrievers found scores higher than one that only one found,
\* and one with better ranks scores higher than one with worse ranks.
Nearer(c, d, bm25, vector) ==
    LET rank(list, x) == IF RankIn(x, list) = 0 THEN CandidateK + 1 ELSE RankIn(x, list)
        both(x) == Contains(bm25, x) /\ Contains(vector, x)
    IN \/ both(c) /\ ~both(d)
       \/ /\ rank(bm25, c) <= rank(bm25, d) /\ rank(vector, c) <= rank(vector, d)
          /\ rank(bm25, c) < rank(bm25, d) \/ rank(vector, c) < rank(vector, d)

\* A chunk with the better ranks has the higher score.
LEMMA NearerScoresHigher ==
    ASSUME NEW bm25 \in Bm25Lists, NEW vector \in Bm25Lists,
           NEW c \in ToSet(bm25) \cup ToSet(vector), NEW d \in ToSet(bm25) \cup ToSet(vector),
           Nearer(c, d, bm25, vector)
    PROVE  Higher(RrfScore(c, bm25, vector), RrfScore(d, bm25, vector))
<1> DEFINE K == RrfK
           N == CandidateK
           b == RankIn(c, bm25)
           v == RankIn(c, vector)
           x == RankIn(d, bm25)
           y == RankIn(d, vector)
           rank(r) == IF r = 0 THEN N + 1 ELSE r
           score(r, q) == IF r = 0 THEN <<1, K + q>>
                          ELSE IF q = 0 THEN <<1, K + r>>
                          ELSE <<2 * K + r + q, (K + r) * (K + q)>>
<1>1. /\ b \in 0..N /\ v \in 0..N /\ x \in 0..N /\ y \in 0..N
      /\ b # 0 \/ v # 0
      /\ x # 0 \/ y # 0
  BY Ranks
<1>2. \/ b # 0 /\ v # 0 /\ (x = 0 \/ y = 0)
      \/ rank(b) <= rank(x) /\ rank(v) <= rank(y) /\ (rank(b) < rank(x) \/ rank(v) < rank(y))
  BY Ranks DEF Nearer
<1>3. RrfScore(c, bm25, vector) = score(b, v) /\ RrfScore(d, bm25, vector) = score(x, y)
  BY DEF RrfScore
<1>4. K \in Nat \ {0} /\ N \in Nat \ {0} /\ N <= K + 1
  BY ConstantTypes
<1> SUFFICES Higher(score(b, v), score(x, y))
  BY <1>3
<1> HIDE DEF K, N, b, v, x, y
<1>5. \A r \in 0..N : r # 0 => r \in 1..(K + 1) /\ K + r \in Nat \ {0} /\ r \in Nat \ {0}
  BY <1>4
<1>6. CASE b # 0 /\ v # 0 /\ (x = 0 \/ y = 0)
  <2>1. PICK z \in 1..N : score(x, y) = <<1, K + z>>
    BY <1>1, <1>4, <1>6
  <2>2. (2 * K + b + v) * (K + z) > (K + b) * (K + v)
    <3>1. b \in 1..(K + 1) /\ v \in 1..(K + 1) /\ z \in Nat \ {0}
      BY <1>1, <1>4, <1>5, <1>6
    <3> QED BY <1>4, <3>1, BothBeatOne
  <2>3. score(b, v) = <<2 * K + b + v, (K + b) * (K + v)>>
    BY <1>6
  <2>4. 1 * ((K + b) * (K + v)) = (K + b) * (K + v)
    BY <1>1, <1>4
  <2> HIDE DEF score
  <2> QED BY <2>1, <2>2, <2>3, <2>4 DEF Higher
<1>7. CASE b # 0 /\ v # 0 /\ x # 0 /\ y # 0
  <2>1. b <= x /\ v <= y /\ (b < x \/ v < y)
    BY <1>2, <1>7
  <2> DEFINE B == K + b
             V == K + v
             C == K + x
             W == K + y
  <2>2. /\ B \in Nat \ {0} /\ V \in Nat \ {0} /\ C \in Nat \ {0} /\ W \in Nat \ {0}
        /\ B <= C /\ V <= W /\ (B < C \/ V < W)
    BY <1>1, <1>4, <2>1
  <2>3. 2 * K + b + v = B + V /\ 2 * K + x + y = C + W
    BY <1>1, <1>4
  <2>4. score(b, v) = <<B + V, B * V>> /\ score(x, y) = <<C + W, C * W>>
    BY <1>7, <2>3
  <2> HIDE DEF B, V, C, W, score
  <2>5. (B + V) * (C * W) > (C + W) * (B * V)
    BY <2>2, NearerIsHigher
  <2> QED BY <2>4, <2>5 DEF Higher
<1>8. CASE b = 0 \/ v = 0
  <2>1. rank(b) <= rank(x) /\ rank(v) <= rank(y) /\ (rank(b) < rank(x) \/ rank(v) < rank(y))
    BY <1>2, <1>8
  <2>2. CASE b = 0
    <3>1. x = 0 /\ v \in 1..N /\ y \in 1..N /\ v < y
      BY <1>1, <1>4, <2>1, <2>2
    <3>2. score(b, v) = <<1, K + v>> /\ score(x, y) = <<1, K + y>>
      BY <2>2, <3>1
    <3>3. 1 * (K + y) > 1 * (K + v)
      BY <1>4, <3>1
    <3> HIDE DEF score
    <3> QED BY <3>2, <3>3 DEF Higher
  <2>3. CASE v = 0
    <3>1. y = 0 /\ b \in 1..N /\ x \in 1..N /\ b < x
      BY <1>1, <1>4, <2>1, <2>3
    <3>2. score(b, v) = <<1, K + b>> /\ score(x, y) = <<1, K + x>>
      BY <1>4, <2>3, <3>1
    <3>3. 1 * (K + x) > 1 * (K + b)
      BY <1>4, <3>1
    <3> HIDE DEF score
    <3> QED BY <3>2, <3>3 DEF Higher
  <2> QED BY <1>8, <2>2, <2>3
<1> QED BY <1>6, <1>7, <1>8

\* The list puts a chunk before each chunk that it is nearer than.
LEMMA NearerComesFirst ==
    ASSUME NEW bm25 \in Bm25Lists, NEW vector \in Bm25Lists,
           NEW i \in DOMAIN AllFused(bm25, vector), NEW j \in DOMAIN AllFused(bm25, vector),
           Nearer(AllFused(bm25, vector)[j], AllFused(bm25, vector)[i], bm25, vector)
    PROVE  j < i
<1> DEFINE S == ToSet(bm25) \cup ToSet(vector)
           p == Scores(bm25, vector)
           s == AllFused(bm25, vector)
           c == s[j]
           d == s[i]
<1>1. ByRank(s, bm25, vector)
  BY FusedIsByRank
<1>2. i \in 1..Len(s) /\ j \in 1..Len(s) /\ Len(s) \in Nat /\ c \in S /\ d \in S
  <2>1. s \in Seq(Chunk)
    BY <1>1 DEF ByRank
  <2>2. DOMAIN s = 1..Len(s) /\ Len(s) \in Nat
    BY <2>1
  <2>3. i \in 1..Len(s) /\ j \in 1..Len(s)
    BY <2>2
  <2> HIDE DEF s, S
  <2> QED BY <1>1, <2>2, <2>3 DEF ByRank, S
<1>3. Higher(p[c], p[d])
  <2>1. Higher(RrfScore(c, bm25, vector), RrfScore(d, bm25, vector))
    <3> HIDE DEF s
    <3> QED BY <1>2, NearerScoresHigher DEF s
  <2> QED BY <1>2, <2>1 DEF Scores
<1>4. StrictOrder(S, ByScore(S, p))
  <2>1. S \in SUBSET Chunk /\ p \in [S -> Fraction] /\ Chunk \in SUBSET Nat
    BY ScoreType, ConstantTypes
  <2>2. S \in SUBSET Nat
    BY <2>1
  <2> HIDE DEF S, p
  <2> QED BY <2>1, <2>2, ByScoreOrders
<1>5. <<c, d>> \in ByScore(S, p)
  <2> HIDE DEF c, d, p, S, s
  <2> QED BY <1>2, <1>3 DEF ByScore
<1>6. <<d, c>> \notin ByScore(S, p)
  <2> HIDE DEF c, d, p, S, s
  <2> QED BY <1>2, <1>4, <1>5 DEF StrictOrder
<1>7. c # d
  <2> HIDE DEF c, d, p, S, s
  <2> QED BY <1>2, <1>4, <1>5 DEF StrictOrder
<1>8. ~(i < j)
  <2>1. i < j => <<s[i], s[j]>> \in ByScore(S, p)
    <3> HIDE DEF s
    <3> QED BY <1>1, <1>2 DEF ByRank
  <2> QED BY <1>6, <2>1
<1> HIDE DEF s
<1> QED BY <1>2, <1>7, <1>8

\* The beginning of a list.
LEMMA Beginning ==
    ASSUME NEW T, NEW s \in Seq(T), NEW k \in Nat
    PROVE  /\ First(k, s) \in Seq(T) /\ Len(First(k, s)) = (IF Len(s) < k THEN Len(s) ELSE k)
           /\ DOMAIN First(k, s) = 1..Len(First(k, s)) /\ Len(First(k, s)) \in 0..k
           /\ DOMAIN First(k, s) \subseteq DOMAIN s
           /\ \A i \in DOMAIN First(k, s) : First(k, s)[i] = s[i] /\ s[i] \in T
<1> DEFINE n == IF Len(s) < k THEN Len(s) ELSE k
           f == SubSeq(s, 1, n)
<1>1. n \in Nat /\ n <= k /\ n <= Len(s) /\ DOMAIN s = 1..Len(s) /\ Len(s) \in Nat
  OBVIOUS
<1>2. First(k, s) = f
  BY DEF First
<1> HIDE DEF n
<1>3. \A i \in 1..n : i \in 1..Len(s) /\ s[i] \in T
  <2>1. \A i \in 1..n : i \in 1..Len(s)
    BY <1>1
  <2> QED BY <2>1
<1>4. /\ f \in Seq(T) /\ Len(f) = (IF 1 <= n THEN n - 1 + 1 ELSE 0)
      /\ \A i \in 1..(n - 1 + 1) : f[i] = s[1 + i - 1]
  BY <1>1, <1>3, SubSeqProperties
<1> HIDE DEF f
<1>5. Len(f) = n /\ DOMAIN f = 1..n
  BY <1>1, <1>4
<1>6. \A i \in 1..n : f[i] = s[i]
  <2>1. n - 1 + 1 = n /\ \A i \in 1..n : 1 + i - 1 = i
    BY <1>1
  <2> QED BY <1>4, <2>1
<1>7. n \in 0..k /\ \A i \in 1..n : i \in DOMAIN s
  BY <1>1, <1>3
<1>8. Len(f) = (IF Len(s) < k THEN Len(s) ELSE k)
  BY <1>5 DEF n
<1> QED BY <1>2, <1>3, <1>4, <1>5, <1>6, <1>7, <1>8

\* The document versions that are indexed.
Versions == {VersionOf[c] : c \in Chunk}

\* The evidence was found, and the judge is shown its documents.
LEMMA EvidenceIsShown ==
    ASSUME NEW bm25 \in Bm25Lists, NEW vector \in Bm25Lists
    PROVE  /\ Fused(bm25, vector) \in Seq(Chunk)
           /\ \A i \in 1..Len(Fused(bm25, vector)) :
                 Fused(bm25, vector)[i] \in ToSet(bm25) \cup ToSet(vector)
           /\ ToSet(RankDocuments(bm25, vector)) \subseteq Versions
           /\ \A i \in DOMAIN Fused(bm25, vector) :
                 Contains(RankDocuments(bm25, vector), VersionOf[Fused(bm25, vector)[i]])
<1> DEFINE s == AllFused(bm25, vector)
           f == Fused(bm25, vector)
           w == [i \in DOMAIN s |-> VersionOf[s[i]]]
           u == Distinct(w)
           r == RankDocuments(bm25, vector)
<1>1. s \in Seq(Chunk) /\ \A i \in 1..Len(s) : s[i] \in ToSet(bm25) \cup ToSet(vector)
  BY FusedIsByRank DEF ByRank
<1>2. f = First(TopK, s) /\ r = First(DocumentTopK, u)
  BY DEF Fused, RankDocuments
<1>3. TopK \in Nat /\ DocumentTopK \in Nat /\ TopK <= DocumentTopK
  BY ConstantTypes
<1> HIDE DEF s, f, r
<1>4. w \in Seq(Versions) /\ Len(w) = Len(s) /\ \A i \in 1..Len(s) : w[i] = VersionOf[s[i]]
  <2>1. DOMAIN s = 1..Len(s) /\ Len(s) \in Nat /\ \A i \in 1..Len(s) : s[i] \in Chunk
    BY <1>1
  <2>2. \A i \in 1..Len(s) : VersionOf[s[i]] \in Versions
    BY <2>1 DEF Versions
  <2> QED BY <2>1, <2>2
<1> HIDE DEF w
<1>5. u \in Seq(Versions) /\ Once(u, w)
  BY <1>4, DistinctIsOnce
<1> HIDE DEF u
<1>6. /\ f \in Seq(Chunk) /\ DOMAIN f = 1..Len(f) /\ Len(f) \in 0..TopK
      /\ DOMAIN f \subseteq DOMAIN s
      /\ \A i \in DOMAIN f : f[i] = s[i]
  BY <1>1, <1>2, <1>3, Beginning
<1>7. /\ r \in Seq(Versions) /\ DOMAIN r = 1..Len(r)
      /\ Len(r) = (IF Len(u) < DocumentTopK THEN Len(u) ELSE DocumentTopK)
      /\ \A i \in DOMAIN r : r[i] = u[i]
  BY <1>2, <1>3, <1>5, Beginning
<1>8. ASSUME NEW i \in 1..Len(f) PROVE f[i] \in ToSet(bm25) \cup ToSet(vector)
  BY <1>1, <1>6
<1>9. ToSet(r) \subseteq Versions
  BY <1>7 DEF ToSet
<1>10. ASSUME NEW i \in DOMAIN f PROVE Contains(r, VersionOf[f[i]])
  <2>1. i \in 1..Len(s) /\ f[i] = s[i] /\ i \in Nat /\ i <= TopK
    <3>1. DOMAIN s = 1..Len(s)
      BY <1>1
    <3>2. i \in 1..Len(f) /\ i \in DOMAIN s /\ f[i] = s[i]
      BY <1>6
    <3> QED BY <1>3, <1>6, <3>1, <3>2
  <2>2. PICK j \in 1..Len(u) : j <= i /\ u[j] = w[i]
    BY <1>4, <1>5, <2>1 DEF Once
  <2>3. j \in 1..Len(r)
    <3>1. Len(u) \in Nat
      BY <1>5
    <3>2. j <= DocumentTopK
      BY <1>3, <2>1, <2>2
    <3> QED BY <1>3, <1>7, <2>2, <3>1, <3>2
  <2>4. r[j] = VersionOf[f[i]]
    BY <1>4, <1>7, <2>1, <2>2, <2>3
  <2> QED BY <2>3, <2>4 DEF Contains
<1> QED BY <1>6, <1>8, <1>9, <1>10 DEF f, r

\* What a poll makes of the rows is what the turn makes of the evidence.
LEMMA RelatedIsPolled ==
    ASSUME NEW bm25 \in Bm25Lists, NEW vector \in Bm25Lists
    PROVE  PolledRelated(bm25, vector) = RelatedSections(Fused(bm25, vector))
<1> DEFINE f == Fused(bm25, vector)
<1>1. f \in Seq(Chunk) /\ \A i \in 1..Len(f) : f[i] \in ToSet(bm25) \cup ToSet(vector)
  BY EvidenceIsShown
<1>2. PolledRelated(bm25, vector) = RelatedSections(Rows(bm25, vector, f))
  BY DEF PolledRelated, EvidenceRows, Rows
<1> HIDE DEF f
<1>3. \A i \in 1..Len(f) : Contains(bm25, f[i]) \/ Contains(vector, f[i])
  BY <1>1, Ranks
<1>4. RelatedSections(Rows(bm25, vector, f)) = RelatedSections(f)
  BY <1>1, <1>3, RowsPointToTheSame
<1> QED BY <1>2, <1>4 DEF f

-----------------------------------------------------------------------------
(* The judgment *)

\* By similarity, then key, then id.
BySimilarity(similarity) ==
    {q \in Subproblem \X Subproblem :
        \/ similarity[q[1]] > similarity[q[2]]
        \/ similarity[q[1]] = similarity[q[2]] /\ KeyOf[q[1]] < KeyOf[q[2]]
        \/ similarity[q[1]] = similarity[q[2]] /\ KeyOf[q[1]] = KeyOf[q[2]] /\ q[1] < q[2]}

\* The judge is shown subproblems of the document group.
LEMMA RankedSubproblems ==
    ASSUME NEW similarity \in [Subproblem -> 1..2]
    PROVE  /\ RankSubproblems(similarity) \in Seq(Subproblem)
           /\ ToSet(RankSubproblems(similarity)) \subseteq Subproblem
<1> DEFINE S == Subproblem
           R == BySimilarity(similarity)
           before(s, t) ==
              \/ similarity[s] > similarity[t]
              \/ similarity[s] = similarity[t] /\ KeyOf[s] < KeyOf[t]
              \/ similarity[s] = similarity[t] /\ KeyOf[s] = KeyOf[t] /\ s < t
           prior(x) == {y \in S : before(y, x)}
           r == SortedBy(S, before)
<1>1. /\ S \in SUBSET Nat /\ IsFiniteSet(S) /\ SubproblemTopK \in Nat
      /\ \A x \in S : x \in Int /\ similarity[x] \in Int /\ KeyOf[x] \in Int
  BY JudgmentAssumption
<1>2. \A s, t \in S : before(s, t) <=> <<s, t>> \in R
  BY DEF BySimilarity
<1>3. StrictOrder(S, R)
  <2>1. /\ \A x \in S : ~before(x, x)
        /\ \A x, y \in S : x # y => before(x, y) \/ before(y, x)
    BY <1>1
  <2>2. \A x, y, z \in S : before(x, y) /\ before(y, z) => before(x, z)
    BY <1>1
  <2> HIDE DEF R, before
  <2> QED BY <1>2, <2>1, <2>2 DEF StrictOrder
<1>4. r = [n \in 1..Cardinality(S) |-> CHOOSE x \in S : Cardinality(prior(x)) = n - 1]
  BY DEF SortedBy
<1>5. RankSubproblems(similarity) = First(SubproblemTopK, r)
  BY DEF RankSubproblems
<1> HIDE DEF S, r, R
<1>6. \A x \in S : prior(x) = Preds(S, R, x)
  <2> HIDE DEF before
  <2> QED BY <1>2 DEF Preds
<1> HIDE DEF prior
<1>7. Placed(r, S, R)
  <2>1. r = [n \in 1..Cardinality(S) |-> r[n]]
    BY <1>4
  <2>2. ASSUME NEW n \in 1..Cardinality(S), NEW x \in S, Cardinality(Preds(S, R, x)) = n - 1
        PROVE  r[n] \in S /\ Cardinality(Preds(S, R, r[n])) = n - 1
    <3>1. Cardinality(prior(x)) = n - 1
      BY <1>6, <2>2
    <3>2. r[n] = CHOOSE y \in S : Cardinality(prior(y)) = n - 1
      BY <1>4
    <3>3. r[n] \in S /\ Cardinality(prior(r[n])) = n - 1
      BY <3>1, <3>2
    <3> QED BY <1>6, <3>3
  <2> QED BY <2>1, <2>2 DEF Placed
<1>8. r \in Seq(S)
  BY <1>1, <1>3, <1>7, Sorting
<1>9. First(SubproblemTopK, r) \in Seq(S)
  BY <1>1, <1>8, Beginning
<1>10. \A s \in Seq(S) : ToSet(s) \subseteq S
  BY DEF ToSet
<1> QED BY <1>5, <1>9, <1>10 DEF S

\* What a judgment says before the answer is there.
Judgable(j) ==
    /\ DOMAIN j = {"decision", "subproblem", "attribution", "confidence"}
    /\ j.decision \in {"CONNECT", "SEPARATE", "UNCLASSIFIED", "NOT_JUDGED"}
    /\ j.decision = "CONNECT" <=> j.attribution[1] = "SUBPROBLEM"
    /\ j.decision = "CONNECT" => j.attribution[2] = j.subproblem /\ j.subproblem \in Subproblem
    /\ j.attribution[1] \in {"SUBPROBLEM", "DOCUMENT", "NONE"}
    /\ j.attribution[1] = "DOCUMENT" => j.attribution[2] \in Versions

\* Each judgment that the code makes of an output is one.
LEMMA JudgmentsAreJudgable ==
    /\ Judgable(NotJudged) /\ Judgable(JudgmentFailed)
    /\ \A s \in Subproblem : \A c : Judgable(Judged("CONNECT", s, <<"SUBPROBLEM", s>>, c))
    /\ \A d \in {"SEPARATE", "UNCLASSIFIED"} : \A s, c : Judgable(Judged(d, s, NoAttribution, c))
    /\ \A d \in {"SEPARATE", "UNCLASSIFIED"}, v \in Versions : \A s, c :
          Judgable(Judged(d, s, <<"DOCUMENT", v>>, c))
<1>1. Judgable(NotJudged) /\ Judgable(JudgmentFailed)
  BY DEF Judgable, NotJudged, JudgmentFailed, Judged, NoAttribution
<1>2. \A s \in Subproblem : \A c : Judgable(Judged("CONNECT", s, <<"SUBPROBLEM", s>>, c))
  BY DEF Judgable, Judged
<1>3. \A d \in {"SEPARATE", "UNCLASSIFIED"} : \A s, c : Judgable(Judged(d, s, NoAttribution, c))
  BY DEF Judgable, Judged, NoAttribution
<1>4. ASSUME NEW d \in {"SEPARATE", "UNCLASSIFIED"}, NEW s, NEW v \in Versions, NEW c
      PROVE  Judgable(Judged(d, s, <<"DOCUMENT", v>>, c))
  BY DEF Judgable, Judged
<1>5. \A d \in {"SEPARATE", "UNCLASSIFIED"}, v \in Versions : \A s, c :
         Judgable(Judged(d, s, <<"DOCUMENT", v>>, c))
  BY <1>4
<1> QED BY <1>1, <1>2, <1>3, <1>5

\* Whatever the judge says, what is made of it is a judgment.
LEMMA NormalizedIsJudgable ==
    ASSUME NEW output, NEW shown, shown.subproblems \subseteq Subproblem,
           shown.documents \subseteq Versions
    PROVE  Judgable(Normalize(output, shown)) /\ Normalize(output, shown).decision # "NOT_JUDGED"
<1>1. CASE output.decision = "CONNECT" /\ output.key \in Keys(shown)
  <2> DEFINE s == CHOOSE t \in shown.subproblems : KeyOf[t] = output.key
  <2>1. s \in Subproblem
    BY <1>1 DEF Keys
  <2>2. Normalize(output, shown) = Judged("CONNECT", s, <<"SUBPROBLEM", s>>, output.confidence)
    BY <1>1 DEF Normalize
  <2> HIDE DEF s
  <2> QED BY <2>1, <2>2, JudgmentsAreJudgable DEF Judged
<1>2. CASE ~(output.decision = "CONNECT" /\ output.key \in Keys(shown))
           /\ output.decision \in Decisions \ {"CONNECT"}
  <2>1. Normalize(output, shown) =
           Judged(output.decision, NoId, SeparateDocument(output, shown), output.confidence)
    BY <1>2 DEF Normalize
  <2>2. output.decision \in {"SEPARATE", "UNCLASSIFIED"}
    BY <1>2 DEF Decisions
  <2>3. \/ SeparateDocument(output, shown) = NoAttribution
        \/ \E v \in Versions : SeparateDocument(output, shown) = <<"DOCUMENT", v>>
    BY DEF SeparateDocument
  <2>4. Judgable(Normalize(output, shown))
    <3> DEFINE d == output.decision
               c == output.confidence
               a == SeparateDocument(output, shown)
    <3>1. d \in {"SEPARATE", "UNCLASSIFIED"} /\ Normalize(output, shown) = Judged(d, NoId, a, c)
      BY <2>1, <2>2
    <3> HIDE DEF d, c, a
    <3>2. CASE a = NoAttribution
      <4>1. Judgable(Judged(d, NoId, NoAttribution, c))
        BY <3>1, JudgmentsAreJudgable
      <4> QED BY <3>1, <3>2, <4>1
    <3>3. ASSUME NEW v \in Versions, a = <<"DOCUMENT", v>>
          PROVE  Judgable(Normalize(output, shown))
      <4>1. Judgable(Judged(d, NoId, <<"DOCUMENT", v>>, c))
        BY <3>1, JudgmentsAreJudgable, Zenon
      <4> QED BY <3>1, <3>3, <4>1
    <3> QED BY <2>3, <3>2, <3>3 DEF a
  <2> QED BY <2>1, <2>2, <2>4 DEF Judged
<1>3. CASE /\ ~(output.decision = "CONNECT" /\ output.key \in Keys(shown))
           /\ output.decision \notin Decisions \ {"CONNECT"}
  <2>1. Normalize(output, shown) = JudgmentFailed
    BY <1>3 DEF Normalize
  <2> QED BY <2>1, JudgmentsAreJudgable DEF JudgmentFailed, Judged
<1> QED BY <1>1, <1>2, <1>3

\* The document a list cites most, of several the one that it cites first.
LEMMA MostCitedIsFirst ==
    ASSUME NEW cited \in Seq(Chunk), cited # <<>>
    PROVE  LET times(v) == Cardinality({i \in DOMAIN cited : VersionOf[cited[i]] = v})
           IN \E n \in DOMAIN cited :
                 /\ VersionOf[cited[n]] = MostCited(cited)
                 /\ \A m \in DOMAIN cited : times(VersionOf[cited[m]]) <= times(VersionOf[cited[n]])
                 /\ \A m \in 1..(n - 1) : times(VersionOf[cited[m]]) < times(VersionOf[cited[n]])
<1> DEFINE N == Len(cited)
           u == [i \in DOMAIN cited |-> VersionOf[cited[i]]]
           places(v) == {i \in DOMAIN u : u[i] = v}
           times(v) == Cardinality(places(v))
           first(v) == CHOOSE i \in DOMAIN u : u[i] = v /\ \A j \in 1..(i - 1) : u[j] # v
           S == ToSet(u)
           Wins(v) == \A w \in S \ {v} : times(v) > times(w)
                                         \/ (times(v) = times(w) /\ first(v) < first(w))
<1>1. N \in Nat \ {0} /\ DOMAIN cited = 1..N /\ DOMAIN u = 1..N
  BY EmptySeq
<1>2. MostCited(cited) = CHOOSE v \in S : Wins(v)
  BY DEF MostCited
<1>3. \A v : {i \in DOMAIN cited : VersionOf[cited[i]] = v} = places(v)
  BY <1>1
<1>4. \A i \in 1..N : u[i] = VersionOf[cited[i]]
  BY <1>1
<1> HIDE DEF u, N
<1>5. S = {u[i] : i \in 1..N}
  BY <1>1 DEF ToSet
<1>6. ASSUME NEW v PROVE times(v) \in Nat /\ times(v) <= N
  <2>1. places(v) \in SUBSET (1..N) /\ IsFiniteSet(1..N) /\ Cardinality(1..N) = N
    BY <1>1, FS_Interval
  <2> HIDE DEF places
  <2>2. IsFiniteSet(places(v)) /\ Cardinality(places(v)) <= N
    BY <2>1, FS_Subset
  <2> QED BY <2>2, FS_CardinalityType
<1>7. ASSUME NEW v \in S
      PROVE  first(v) \in 1..N /\ u[first(v)] = v /\ \A j \in 1..(first(v) - 1) : u[j] # v
  <2> DEFINE I == {i \in 1..N : u[i] = v}
  <2>1. I \in SUBSET (1..N) /\ I # {}
    BY <1>5
  <2> HIDE DEF I
  <2>2. PICK i \in I : \A j \in 1..(i - 1) : j \notin I
    BY <1>1, <2>1, FirstPlace
  <2>3. i \in 1..N /\ u[i] = v
    BY DEF I
  <2>4. \A j \in 1..(i - 1) : u[j] # v
    <3>1. \A j \in 1..(i - 1) : j \in 1..N
      BY <1>1, <2>3
    <3> QED BY <2>2, <3>1 DEF I
  <2> QED BY <1>1, <2>3, <2>4
<1> HIDE DEF S, times, first
<1>8. PICK t \in S : \A w \in S : times(w) <= times(t)
  <2> DEFINE A == {times(v) : v \in S}
  <2>1. A \in SUBSET Nat /\ \A n \in A : n <= N
    BY <1>6
  <2>2. A # {}
    <3>1. u[1] \in S
      BY <1>1, <1>5
    <3> QED BY <3>1
  <2> HIDE DEF A
  <2>3. Max(A) \in A /\ \A n \in A : n <= Max(A)
    BY <1>1, <2>1, <2>2, Maximum
  <2> QED BY <2>3 DEF A
<1>9. PICK best \in S : Wins(best)
  <2> DEFINE I == {i \in 1..N : times(u[i]) = times(t)}
  <2>1. I \in SUBSET (1..N) /\ I # {}
    BY <1>5, <1>8
  <2>2. \A i \in 1..N : i \in I <=> times(u[i]) = times(t)
    OBVIOUS
  <2> HIDE DEF I
  <2>3. PICK m \in I : \A j \in 1..(m - 1) : j \notin I
    BY <1>1, <2>1, FirstPlace
  <2>4. m \in 1..N /\ u[m] \in S /\ times(u[m]) = times(t)
    BY <1>5, <2>1, <2>2
  <2>5. ASSUME NEW w \in S \ {u[m]}, ~(times(u[m]) > times(w))
        PROVE  times(u[m]) = times(w) /\ first(u[m]) < first(w)
    <3>1. times(w) = times(t)
      BY <1>6, <1>8, <2>4, <2>5
    <3>2. first(w) \in I /\ u[first(w)] = w /\ first(w) \in 1..N
      BY <1>7, <2>2, <3>1
    <3>3. first(w) >= m
      BY <2>3, <2>4, <3>2
    <3>4. first(u[m]) \in 1..N /\ \A j \in 1..(first(u[m]) - 1) : u[j] # u[m]
      BY <1>7, <2>4
    <3>5. first(u[m]) <= m
      BY <2>4, <3>4
    <3>6. first(w) # m
      BY <2>5, <3>2
    <3> QED BY <2>4, <3>1, <3>2, <3>3, <3>4, <3>5, <3>6
  <2> QED BY <2>4, <2>5
<1> DEFINE x == MostCited(cited)
<1>10. x \in S /\ Wins(x)
  <2> HIDE DEF Wins
  <2> QED BY <1>2, <1>9
<1> HIDE DEF x
<1> DEFINE n == first(x)
<1>11. n \in 1..N /\ u[n] = x /\ \A j \in 1..(n - 1) : u[j] # x
  BY <1>7, <1>10
<1>12. ASSUME NEW m \in 1..N PROVE times(u[m]) <= times(u[n])
  <2>1. u[m] \in S
    BY <1>5
  <2> QED BY <1>6, <1>10, <1>11, <2>1
<1>13. ASSUME NEW m \in 1..(n - 1) PROVE times(u[m]) < times(u[n])
  <2> DEFINE w == u[m]
  <2>1. m \in 1..N /\ w \in S /\ w # x
    BY <1>1, <1>5, <1>11
  <2>2. first(w) \in 1..N /\ \A j \in 1..(first(w) - 1) : u[j] # w
    BY <1>7, <2>1
  <2>3. first(w) <= m
    BY <2>1, <2>2
  <2>4. ~(n < first(w))
    BY <1>11, <2>1, <2>2, <2>3
  <2> QED BY <1>6, <1>10, <1>11, <2>1, <2>4
<1> HIDE DEF n
<1>14. n \in DOMAIN cited /\ VersionOf[cited[n]] = MostCited(cited)
  BY <1>1, <1>4, <1>11 DEF x
<1>15. \A m \in DOMAIN cited : times(VersionOf[cited[m]]) <= times(VersionOf[cited[n]])
  BY <1>1, <1>4, <1>11, <1>12
<1>16. \A m \in 1..(n - 1) : times(VersionOf[cited[m]]) < times(VersionOf[cited[n]])
  <2>1. \A m \in 1..(n - 1) : m \in 1..N
    BY <1>1, <1>11
  <2> QED BY <1>4, <1>11, <1>13, <2>1
<1>17. \A v : Cardinality({i \in DOMAIN cited : VersionOf[cited[i]] = v}) = times(v)
  BY <1>3 DEF times
<1> QED BY <1>14, <1>15, <1>16, <1>17

-----------------------------------------------------------------------------
(* Citations *)

\* The citations of a draft whose markers are places of the evidence: one for
\* each section, and the numbers in the text point to them without a gap.
LEMMA CitationsAreNumbered ==
    ASSUME NEW e \in Seq(Chunk), NEW m \in Seq(DOMAIN e), m # <<>>
    PROVE  /\ Citations(m, e) \in Seq(Chunk) /\ Citations(m, e) # <<>>
           /\ \A n \in DOMAIN Citations(m, e) : \E i \in DOMAIN m : Citations(m, e)[n] = e[m[i]]
           /\ \A a, b \in DOMAIN Citations(m, e) :
                 Section(Citations(m, e)[a]) = Section(Citations(m, e)[b]) => a = b
           /\ ToSet(Numbers(m, e)) = DOMAIN Citations(m, e)
           /\ \A i \in DOMAIN m :
                 Section(Citations(m, e)[Numbers(m, e)[i]]) = Section(e[m[i]])
<1> DEFINE t == [i \in DOMAIN m |-> Section(e[m[i]])]
           d == CitedSections(m, e)
           C == Citations(m, e)
           M == Numbers(m, e)
           N == Len(m)
           First1(section) == CHOOSE i \in DOMAIN m :
                                 /\ Section(e[m[i]]) = section
                                 /\ \A j \in 1..(i - 1) : Section(e[m[j]]) # section
<1>1. N \in Nat \ {0} /\ DOMAIN m = 1..N /\ \A i \in 1..N : m[i] \in DOMAIN e /\ e[m[i]] \in Chunk
  <2>1. N \in Nat \ {0} /\ DOMAIN m = 1..N /\ \A i \in 1..N : m[i] \in DOMAIN e
    BY EmptySeq
  <2>2. \A x \in DOMAIN e : e[x] \in Chunk
    OBVIOUS
  <2> QED BY <2>1, <2>2
<1>2. t \in Seq(Sections) /\ Len(t) = N /\ \A i \in 1..N : t[i] = Section(e[m[i]])
  <2>1. \A i \in 1..N : Section(e[m[i]]) \in Sections
    BY <1>1, SectionType
  <2> QED BY <1>1, <2>1
<1>3. d = Distinct(t)
  BY DEF CitedSections
<1>4. C = [n \in DOMAIN d |-> e[m[First1(d[n])]]]
  BY DEF Citations
<1>5. M = [i \in DOMAIN m |-> CHOOSE n \in DOMAIN C : Section(C[n]) = Section(e[m[i]])]
  BY DEF Numbers
<1> HIDE DEF t, d, C, M, N
<1>6. d \in Seq(Sections) /\ Once(d, t) /\ DOMAIN d = 1..Len(d) /\ Len(d) \in Nat
  <2>1. d \in Seq(Sections) /\ Once(d, t)
    BY <1>2, <1>3, DistinctIsOnce
  <2> QED BY <2>1
<1>7. ASSUME NEW n \in DOMAIN d
      PROVE  /\ First1(d[n]) \in DOMAIN m /\ Section(e[m[First1(d[n])]]) = d[n]
             /\ C[n] = e[m[First1(d[n])]]
  <2> DEFINE I == {i \in 1..N : Section(e[m[i]]) = d[n]}
  <2>1. I \in SUBSET (1..N) /\ I # {}
    BY <1>2, <1>6 DEF Once
  <2>2. \A i \in 1..N : i \in I <=> Section(e[m[i]]) = d[n]
    OBVIOUS
  <2> HIDE DEF I
  <2>3. PICK i \in I : \A j \in 1..(i - 1) : j \notin I
    BY <1>1, <2>1, FirstPlace
  <2>4. i \in DOMAIN m /\ Section(e[m[i]]) = d[n]
    BY <1>1, <2>1, <2>2
  <2>5. \A j \in 1..(i - 1) : Section(e[m[j]]) # d[n]
    <3>1. \A j \in 1..(i - 1) : j \in 1..N
      BY <1>1, <2>1
    <3> QED BY <2>2, <2>3, <3>1
  <2> QED BY <1>4, <2>4, <2>5
<1> HIDE DEF First1
<1>8. DOMAIN C = 1..Len(d) /\ \A n \in 1..Len(d) : C[n] \in Chunk /\ Section(C[n]) = d[n]
  BY <1>1, <1>4, <1>6, <1>7
<1>9. C \in Seq(Chunk) /\ C # <<>>
  <2>1. C = [n \in 1..Len(d) |-> C[n]]
    BY <1>4, <1>6
  <2>2. C \in Seq(Chunk)
    BY <1>6, <1>8, <2>1
  <2>3. 1 \in DOMAIN C
    <3>1. 1 \in 1..Len(t)
      BY <1>1, <1>2
    <3>2. PICK j \in 1..Len(d) : j <= 1
      BY <1>6, <3>1 DEF Once
    <3> QED BY <1>6, <1>8, <3>2
  <2> QED BY <2>2, <2>3
<1>10. \A n \in DOMAIN C : \E i \in DOMAIN m : C[n] = e[m[i]]
  BY <1>6, <1>7, <1>8
<1>11. \A a, b \in DOMAIN C : Section(C[a]) = Section(C[b]) => a = b
  BY <1>6, <1>8 DEF Once
<1>12. ASSUME NEW i \in DOMAIN m PROVE M[i] \in DOMAIN C /\ Section(C[M[i]]) = Section(e[m[i]])
  <2>1. i \in 1..Len(t) /\ t[i] = Section(e[m[i]])
    BY <1>1, <1>2
  <2>2. PICK j \in 1..Len(d) : d[j] = t[i]
    BY <1>6, <2>1 DEF Once
  <2>3. j \in DOMAIN C /\ Section(C[j]) = Section(e[m[i]])
    BY <1>8, <2>1, <2>2
  <2>4. M[i] = CHOOSE n \in DOMAIN C : Section(C[n]) = Section(e[m[i]])
    BY <1>5
  <2> QED BY <2>3, <2>4
<1>13. ToSet(M) = DOMAIN C
  <2>1. ToSet(M) = {M[i] : i \in DOMAIN m}
    BY <1>5 DEF ToSet
  <2>2. ASSUME NEW n \in DOMAIN C PROVE n \in {M[i] : i \in DOMAIN m}
    <3>1. PICK i \in DOMAIN m : C[n] = e[m[i]]
      BY <1>10
    <3>2. M[i] \in DOMAIN C /\ Section(C[M[i]]) = Section(C[n])
      BY <1>12, <3>1
    <3>3. M[i] = n
      BY <1>11, <3>2
    <3> QED BY <3>3
  <2>3. \A i \in DOMAIN m : M[i] \in DOMAIN C
    BY <1>12
  <2> QED BY <2>1, <2>2, <2>3
<1> QED BY <1>9, <1>10, <1>11, <1>12, <1>13 DEF C, M

\* Of the sections that say what a citation says one is next to its place.
LEMMA NearestIsOneOfThem ==
    ASSUME NEW citation, citation.order \in Nat, NEW kept \in SUBSET Chunk, kept # {},
           \A c, d \in kept : VersionOf[c] = VersionOf[d]
    PROVE  Nearest(citation, kept) \in kept
<1> DEFINE dist(c) == Distance(citation, c)
           ord(c) == OrderOf[c]
           Wins(c) == \A d \in kept \ {c} : \/ dist(c) < dist(d)
                                            \/ dist(c) = dist(d) /\ OrderOf[c] < OrderOf[d]
<1>1. \A c \in kept : OrderOf[c] \in Nat
  BY CitationAssumption
<1>2. \A c \in kept : dist(c) \in Nat
  BY <1>1 DEF Distance
<1>3. \A c, d \in kept : OrderOf[c] = OrderOf[d] => c = d
  BY CitationAssumption
<1>4. Nearest(citation, kept) = CHOOSE c \in kept : Wins(c)
  BY DEF Nearest
<1> HIDE DEF dist
<1>5. PICK b \in kept : \A c \in kept : dist(b) <= dist(c)
  <2> DEFINE A == {dist(c) : c \in kept}
  <2>1. A \in SUBSET Nat /\ A # {}
    BY <1>2
  <2> HIDE DEF A
  <2>2. PICK n \in A : \A k \in A : n <= k
    BY <2>1, LeastNumber
  <2> QED BY <2>2 DEF A
<1>6. PICK c \in kept :
         dist(c) = dist(b) /\ \A d \in kept : dist(d) = dist(b) => OrderOf[c] <= OrderOf[d]
  <2> DEFINE A == {OrderOf[d] : d \in {x \in kept : dist(x) = dist(b)}}
  <2>1. A \in SUBSET Nat /\ A # {}
    BY <1>1
  <2> HIDE DEF A
  <2>2. PICK n \in A : \A k \in A : n <= k
    BY <2>1, LeastNumber
  <2> QED BY <2>2 DEF A
<1>7. Wins(c)
  <2>1. ASSUME NEW d \in kept \ {c}, ~(dist(c) < dist(d))
        PROVE  dist(c) = dist(d) /\ OrderOf[c] < OrderOf[d]
    <3>1. dist(d) = dist(b)
      BY <1>2, <1>5, <1>6, <2>1
    <3>2. OrderOf[c] <= OrderOf[d] /\ OrderOf[c] # OrderOf[d]
      BY <1>3, <1>6, <2>1, <3>1
    <3> QED BY <1>1, <1>6, <3>1, <3>2
  <2> QED BY <2>1
<1> HIDE DEF Wins
<1> QED BY <1>4, <1>7

\* A citation of an approved answer is found at a section that says the same, of
\* the cited identity if there is one.
LEMMA LocatedSaysTheSame ==
    ASSUME NEW answer \in Approved, NEW n \in DOMAIN answer, Kept(answer[n]) # {}
    PROVE  /\ Located(answer[n]) \in Kept(answer[n])
           /\ \A d \in Kept(answer[n]) :
                 IdentityOf[d] = answer[n].identity /\ answer[n].identity # 0
                 => IdentityOf[Located(answer[n])] = answer[n].identity
<1> DEFINE a == answer[n]
           kept == Kept(a)
           same == {c \in kept : a.identity # 0 /\ IdentityOf[c] = a.identity}
<1>1. kept \in SUBSET Chunk /\ \A c, d \in kept : VersionOf[c] = VersionOf[d]
  BY CitationAssumption DEF Kept
<1>2. /\ a.order \in Nat
      /\ a.chunk \in Chunk => a.identity = IdentityOf[a.chunk]
      /\ \A c \in Chunk : OrderOf[c] \in Nat
  BY CitationAssumption
<1>3. Located(a) = IF a.chunk \in kept THEN a.chunk
                   ELSE IF same # {}
                     THEN CHOOSE c \in same : \A d \in same : OrderOf[c] <= OrderOf[d]
                     ELSE Nearest(a, kept)
  BY DEF Located
<1>4. kept # {}
  OBVIOUS
<1>5. \A d \in kept : IdentityOf[d] = a.identity /\ a.identity # 0 => d \in same
  OBVIOUS
<1>6. \A d \in same : d \in kept /\ IdentityOf[d] = a.identity
  OBVIOUS
<1> SUFFICES /\ Located(a) \in kept
             /\ \A d \in kept : IdentityOf[d] = a.identity /\ a.identity # 0
                                => IdentityOf[Located(a)] = a.identity
  OBVIOUS
<1> HIDE DEF a, kept, same
<1>7. CASE a.chunk \in kept
  <2>1. Located(a) = a.chunk
    BY <1>3, <1>7
  <2>2. a.chunk \in Chunk
    BY <1>1, <1>7
  <2> QED BY <1>2, <1>7, <2>1, <2>2
<1>8. CASE a.chunk \notin kept /\ same # {}
  <2> DEFINE A == {OrderOf[d] : d \in same}
  <2>1. A \in SUBSET Nat /\ A # {}
    BY <1>1, <1>2, <1>6, <1>8
  <2> HIDE DEF A
  <2>2. PICK k \in A : \A l \in A : k <= l
    BY <2>1, LeastNumber
  <2>3. \E c \in same : \A d \in same : OrderOf[c] <= OrderOf[d]
    BY <2>2 DEF A
  <2>4. Located(a) \in same
    BY <1>3, <1>8, <2>3
  <2> QED BY <1>6, <2>4
<1>9. CASE a.chunk \notin kept /\ same = {}
  <2>1. Located(a) = Nearest(a, kept)
    BY <1>3, <1>9
  <2>2. Located(a) \in kept
    BY <1>1, <1>2, <1>4, <2>1, NearestIsOneOfThem
  <2> QED BY <1>5, <1>9, <2>2
<1> QED BY <1>7, <1>8, <1>9

\* A path without the separator in a heading comes back from the row of its
\* citation as it went there.
LEMMA SplitJoined ==
    ASSUME NEW path \in Seq(Seq(STRING)), Plain(path)
    PROVE  Split(Joined(path)) = path
<1> DEFINE n == Len(path)
           word(k) == path[k][1]
           f == [i \in 1..n |-> [k \in 1..i |-> word(k)]]
           flatten(g) == g = [i \in 1..n |-> IF i = 1 THEN path[i] ELSE g[i - 1] \o path[i]]
           g == CHOOSE h : flatten(h)
<1>1. n \in Nat /\ DOMAIN path = 1..n
  OBVIOUS
<1>2. \A i \in 1..n : path[i] \in Seq(STRING) /\ Len(path[i]) = 1
  BY DEF Plain
<1>3. \A i \in 1..n : word(i) \in STRING /\ path[i] = <<word(i)>>
  BY <1>2
<1>4. Joined(path) = IF n = 0 THEN path ELSE g[n]
  BY <1>1 DEF Joined, FlattenSeq
<1> HIDE DEF n, word, g
<1>5. \A i \in 1..n : f[i] \in Seq(STRING) /\ Len(f[i]) = i /\ \A k \in 1..i : f[i][k] = word(k)
  BY <1>1, <1>3
<1>6. ASSUME NEW i \in 1..n
      PROVE  f[i] = IF i = 1 THEN path[i] ELSE f[i - 1] \o path[i]
  <2>1. CASE i = 1
    <3>1. f[1] = <<word(1)>>
      BY <1>5, <2>1
    <3> HIDE DEF f
    <3> QED BY <1>3, <2>1, <3>1
  <2>2. CASE i # 1
    <3> DEFINE z == f[i - 1] \o <<word(i)>>
    <3>1. i - 1 \in 1..n /\ i \in Nat
      BY <1>1, <2>2
    <3>2. /\ f[i - 1] \in Seq(STRING) /\ Len(f[i - 1]) = i - 1
          /\ \A k \in 1..(i - 1) : f[i - 1][k] = word(k)
      BY <1>5, <3>1
    <3>3. f[i] \in Seq(STRING) /\ Len(f[i]) = i /\ \A k \in 1..i : f[i][k] = word(k)
      BY <1>5
    <3> HIDE DEF f
    <3>4. z = Append(f[i - 1], word(i))
      BY <1>3, <3>2
    <3>5. /\ z \in Seq(STRING) /\ Len(z) = i /\ z[i] = word(i)
          /\ \A k \in 1..(i - 1) : z[k] = word(k)
      <4>1. (i - 1) + 1 = i
        BY <3>1
      <4> HIDE DEF z
      <4> QED BY <1>3, <3>2, <3>4, <4>1, Appended
    <3> HIDE DEF z
    <3>6. \A k \in 1..Len(f[i]) : f[i][k] = z[k]
      BY <3>1, <3>3, <3>5
    <3>7. f[i] = z
      BY <3>3, <3>5, <3>6, SeqEqual
    <3> QED BY <1>3, <2>2, <3>7 DEF z
  <2> QED BY <2>1, <2>2
<1>7. flatten(f)
  <2>1. f = [i \in 1..n |-> f[i]]
    OBVIOUS
  <2> HIDE DEF f
  <2> QED BY <1>6, <2>1
<1>8. flatten(g)
  <2> HIDE DEF flatten, f
  <2> QED BY <1>7 DEF g
<1> HIDE DEF f
<1>9. \A i \in 1..n : g[i] = f[i]
  <2> DEFINE S == {i \in Nat : i \in 1..n => g[i] = f[i]}
  <2>1. 0 \in S
    BY <1>1
  <2>2. ASSUME NEW i \in S PROVE i + 1 \in S
    <3>1. SUFFICES ASSUME i + 1 \in 1..n PROVE g[i + 1] = f[i + 1]
      OBVIOUS
    <3>2. i \in Nat /\ (i + 1) - 1 = i /\ (i + 1 = 1 <=> i = 0) /\ (i # 0 => i \in 1..n)
      BY <1>1, <3>1
    <3>3. g[i + 1] = IF i + 1 = 1 THEN path[i + 1] ELSE g[(i + 1) - 1] \o path[i + 1]
      BY <1>8, <3>1
    <3>4. f[i + 1] = IF i + 1 = 1 THEN path[i + 1] ELSE f[(i + 1) - 1] \o path[i + 1]
      BY <1>6, <3>1
    <3>5. i # 0 => g[i] = f[i]
      BY <3>2
    <3> QED BY <3>2, <3>3, <3>4, <3>5
  <2>3. S = Nat
    <3>1. S \in SUBSET Nat
      OBVIOUS
    <3> HIDE DEF S
    <3> QED BY <2>1, <2>2, <3>1, Induction
  <2> QED BY <1>1, <2>3
<1>10. CASE n = 0
  <2>1. path = <<>> /\ Joined(path) = <<>>
    BY <1>4, <1>10 DEF n
  <2> QED BY <2>1 DEF Split
<1>11. CASE n # 0
  <2>1. n \in 1..n /\ Joined(path) = f[n]
    BY <1>1, <1>4, <1>9, <1>11
  <2>2. f[n] \in Seq(STRING) /\ Len(f[n]) = n /\ \A k \in 1..n : f[n][k] = word(k)
    BY <1>5, <2>1
  <2>3. DOMAIN f[n] = 1..n
    BY <2>2
  <2>4. Split(f[n]) = [i \in 1..n |-> <<word(i)>>]
    BY <2>2, <2>3 DEF Split
  <2>5. path = [i \in 1..n |-> path[i]]
    BY <1>1
  <2> QED BY <1>3, <2>1, <2>4, <2>5
<1> QED BY <1>10, <1>11

-----------------------------------------------------------------------------
(* The text that is searched *)

\* A UI reference leaves something of every text, and makes none longer.
LEMMA ReplacedShrinks ==
    ASSUME NEW F, NEW t \in Seq(F), NEW reference
    PROVE  /\ Replaced(t, reference) \in Seq(F) /\ Len(Replaced(t, reference)) <= Len(t)
           /\ t # <<>> => Replaced(t, reference) # <<>>
<1> DEFINE begins(i) == i < Len(t) /\ <<t[i], t[i + 1]>> = reference
           kept == {i \in DOMAIN t : ~begins(i)}
           R == {p \in Nat \X Nat : p[1] < p[2]}
           prior(i) == {j \in kept : j < i}
           s == [n \in 1..Cardinality(kept) |->
                   CHOOSE i \in kept : Cardinality(prior(i)) = n - 1]
           u == [n \in 1..Cardinality(kept) |-> t[s[n]]]
<1>1. Replaced(t, reference) = u
  BY DEF Replaced
<1>2. /\ Len(t) \in Nat /\ DOMAIN t = 1..Len(t) /\ kept \in SUBSET (1..Len(t))
      /\ kept \in SUBSET Nat /\ (Len(t) # 0 => Len(t) \in kept)
  OBVIOUS
<1> HIDE DEF kept
<1>3. IsFiniteSet(kept) /\ Cardinality(kept) \in Nat /\ Cardinality(kept) <= Len(t)
  <2> DEFINE N == Len(t)
  <2>1. N \in Nat /\ kept \in SUBSET (1..N)
    BY <1>2
  <2> HIDE DEF N
  <2>2. IsFiniteSet(1..N) /\ Cardinality(1..N) = N
    BY <2>1, FS_Interval
  <2>3. IsFiniteSet(kept) /\ Cardinality(kept) <= N
    BY <2>1, <2>2, FS_Subset
  <2> QED BY <2>3, FS_CardinalityType DEF N
<1>4. StrictOrder(kept, R)
  BY <1>2 DEF StrictOrder
<1>5. \A i \in kept : prior(i) = Preds(kept, R, i)
  BY <1>2 DEF Preds
<1> HIDE DEF prior, R
<1>6. Placed(s, kept, R)
  <2>1. s = [n \in 1..Cardinality(kept) |-> s[n]]
    OBVIOUS
  <2>2. ASSUME NEW n \in 1..Cardinality(kept), NEW i \in kept,
               Cardinality(Preds(kept, R, i)) = n - 1
        PROVE  s[n] \in kept /\ Cardinality(Preds(kept, R, s[n])) = n - 1
    <3>1. Cardinality(prior(i)) = n - 1
      BY <1>5, <2>2
    <3>2. s[n] = CHOOSE j \in kept : Cardinality(prior(j)) = n - 1
      OBVIOUS
    <3>3. s[n] \in kept /\ Cardinality(prior(s[n])) = n - 1
      BY <3>1, <3>2
    <3> QED BY <1>5, <3>3
  <2> HIDE DEF s
  <2> QED BY <2>1, <2>2 DEF Placed
<1> HIDE DEF s
<1>7. s \in Seq(kept) /\ Len(s) = Cardinality(kept)
  BY <1>3, <1>4, <1>6, Sorting
<1>8. ASSUME NEW n \in 1..Cardinality(kept) PROVE t[s[n]] \in F
  <2>1. s[n] \in kept
    BY <1>3, <1>7
  <2>2. s[n] \in 1..Len(t)
    BY <1>2, <2>1
  <2> QED BY <2>2
<1>9. u \in Seq(F) /\ Len(u) = Cardinality(kept)
  BY <1>3, <1>8
<1>10. t # <<>> => Cardinality(kept) # 0
  BY <1>2, <1>3, FS_EmptySet
<1> QED BY <1>1, <1>3, <1>9, <1>10

\* What the replacements make of t stays within these texts.
Shorter(t) ==
    {u \in Seq(Fragment) : Len(u) <= Len(t) /\ (t # <<>> => u # <<>>)}

\* One step of _normalize_reference_phrases.
ReplaceStep(t) == [p \in Shorter(t) \X ToSet(UiReferences) |-> Replaced(p[1], p[2])]

\* _normalize_reference_phrases leaves something of every text, and makes none longer.
LEMMA NormalizedShrinks ==
    ASSUME NEW t \in Seq(Fragment)
    PROVE  /\ Normalized(t) \in Seq(Fragment) /\ Len(Normalized(t)) <= Len(t)
           /\ t # <<>> => Normalized(t) # <<>>
<1> DEFINE D == Shorter(t)
           T == ToSet(UiReferences)
           s == UiReferences
           step == ReplaceStep(t)
           next(it, X) == Replaced(it[X \ {Max(X)}], s[Max(X)])
           Table(it) == it = [X \in SUBSET DOMAIN s |-> IF X = {} THEN t ELSE next(it, X)]
           table == CHOOSE it : Table(it)
<1>0. s \in Seq(T)
  BY RewriteAssumption DEF ToSet
<1>1. step \in [D \X T -> D] /\ t \in D
  <2>1. \A d \in D, x \in T : Replaced(d, x) \in D
    BY ReplacedShrinks DEF Shorter
  <2>2. t \in D
    BY DEF Shorter
  <2> HIDE DEF D, T
  <2> QED BY <2>1, <2>2 DEF ReplaceStep, D, T
<1>2. \A d \in D, x \in T : step[<<d, x>>] = Replaced(d, x)
  BY DEF ReplaceStep
<1>3. DOMAIN s = 1..Len(s) /\ Len(s) \in Nat /\ \A k \in 1..Len(s) : s[k] \in T
  BY <1>0
<1>4. Normalized(t) = table[1..Len(s)]
  BY <1>3 DEF Normalized, FoldLeft, MapThenFoldSet
<1> HIDE DEF D, T, s, step
<1>5. \E it : Table(it)
  <2>1. PICK it : TableTo(it, Len(s), D, step, t, s)
    BY <1>0, <1>1, TableExists
  <2>2. it = [X \in SUBSET DOMAIN s |-> it[X]] /\ it[{}] = t
    BY <1>3, <2>1 DEF TableTo
  <2>3. ASSUME NEW X \in (SUBSET DOMAIN s) \ {{}} PROVE it[X] = next(it, X)
    <3>1. X \in (SUBSET (1..Len(s))) \ {{}} /\ Max(X) \in X
      BY <1>3, MaxPlace
    <3>2. it[X \ {Max(X)}] \in D /\ s[Max(X)] \in T
      BY <1>3, <2>1, <3>1 DEF TableTo
    <3> QED BY <1>2, <2>1, <3>1, <3>2 DEF TableTo
  <2> HIDE DEF next
  <2>4. Table(it)
    BY <2>2, <2>3
  <2> HIDE DEF Table
  <2> QED BY <2>4
<1>6. Table(table)
  <2> HIDE DEF Table
  <2> QED BY <1>5
<1> HIDE DEF table
<1>7. TableFollows(table, D, step, t, s)
  <2>1. table[{}] = t
    BY <1>6
  <2>2. ASSUME NEW X \in (SUBSET (1..Len(s))) \ {{}},
               Max(X) \in X, table[X \ {Max(X)}] \in D
        PROVE  table[X] = step[<<table[X \ {Max(X)}], s[Max(X)]>>]
    <3>1. table[X] = next(table, X) /\ s[Max(X)] \in T
      <4> HIDE DEF next
      <4> QED BY <1>3, <1>6, <2>2
    <3> QED BY <1>2, <2>2, <3>1
  <2> QED BY <2>1, <2>2 DEF TableFollows
<1>8. table[1..Len(s)] = Folded(D, step, t, s) /\ Folded(D, step, t, s) \in D
  BY <1>0, <1>1, <1>7, TableIsFolded
<1> QED BY <1>4, <1>8 DEF D, Shorter

\* A text stands in itself with another one after it.
LEMMA BeginningIsWithin ==
    ASSUME NEW F, NEW p \in Seq(F), NEW t \in Seq(F)
    PROVE  Within(p, p \o t)
<1> DEFINE z == p \o t
<1>1. /\ z \in Seq(F) /\ Len(z) = Len(p) + Len(t) /\ Len(p) \in Nat /\ Len(t) \in Nat
      /\ \A i \in 1..Len(p) : z[i] = p[i]
  OBVIOUS
<1> HIDE DEF z
<1>2. SubSeq(z, 0 + 1, Len(p)) = p
  <2>1. /\ SubSeq(z, 1, Len(p)) \in Seq(F) /\ Len(SubSeq(z, 1, Len(p))) = Len(p)
        /\ \A i \in 1..Len(p) : SubSeq(z, 1, Len(p))[i] = z[i]
    BY <1>1
  <2> QED BY <1>1, <2>1, SeqEqual
<1>3. 0 \in 0..Len(z) /\ Len(p) \in 0..Len(z)
  BY <1>1
<1> QED BY <1>2, <1>3 DEF Within, SubSeqs, z

\* The retrievers get the text itself, or that of a rule that applies to it.
LEMMA ExpandedSays ==
    ASSUME NEW text
    PROVE  \/ Expanded(text) = text
           \/ \E i \in DOMAIN Expansions :
                 Applies(Expansions[i], text) /\ Expanded(text) = Expansions[i].text
<1> DEFINE applying == {i \in DOMAIN Expansions : Applies(Expansions[i], text)}
<1>1. CASE applying = {}
  BY <1>1 DEF Expanded
<1>2. CASE applying # {}
  <2>1. applying \in SUBSET Nat
    BY RewriteAssumption
  <2>2. Min(applying) \in applying
    <3> HIDE DEF applying
    <3>1. \E m \in applying : \A n \in applying : m <= n
      BY <1>2, <2>1, LeastNumber
    <3> QED BY <3>1 DEF Min
  <2> QED BY <1>2, <2>2 DEF Expanded
<1> QED BY <1>1, <1>2

-----------------------------------------------------------------------------
(* The inductive invariant *)

\* A turn that is under way: nothing is sent, its judgment says nothing of an
\* answer, and the log points to what its evidence points to, but between the
\* search and the checkpoint, where the retrieval is recorded.
Underway ==
    /\ pc \in {"START", "REWRITE", "SEARCH", "EMBED", "FOUND", "VECTOR", "JUDGE",
               "PLAN", "REPAIR", "WRITE"}
    /\ log = Open
    /\ pc \in {"START", "REWRITE", "SEARCH", "EMBED"} => question \in Question
    /\ pc = "START" => query \in {NewTopic(question), Unresolved}
    /\ SearchesWhatItSays
    /\ evidence \in Seq(Chunk)
    /\ IF pc \in {"FOUND", "VECTOR", "JUDGE"}
         THEN found \in Found /\ evidence = Fused(found[1], found[2])
         ELSE related = RelatedSections(evidence)
    /\ Judgable(judged)
    /\ pc = "WRITE" => plan.sources \subseteq DOMAIN evidence

\* A turn that ended without an answer.
Unanswered ==
    pc = "DONE" /\ log.status # "COMPLETED" /\ Judgable(judged) /\ PolledIsSent

\* What the log and the client are told of an approved answer ...
Served ==
    /\ pc = "DONE" /\ Judgable(judged) /\ judged.decision = "CONNECT"
    /\ \E answer \in {a \in Approved : Resolvable(a)} :
          LET chunks == ServedCitations(answer) IN
          /\ log = Entry("COMPLETED", "CACHED", [n \in DOMAIN chunks |-> Cited(chunks[n])])
          /\ sent = Response("COMPLETED", "NONE",
                             [n \in DOMAIN chunks |-> Restored(Cited(chunks[n]))], <<>>)

\* ... and of one that was written, with what the question is counted for.
Answered ==
    LET chunks == Citations(markers, evidence) IN
    /\ pc = "DONE" /\ evidence \in Seq(Chunk) /\ plan.sources \subseteq DOMAIN evidence
    /\ markers \in Seq(plan.sources) /\ markers # <<>>
    /\ log = Entry("COMPLETED", "WRITTEN", [n \in DOMAIN chunks |-> Cited(chunks[n])])
    /\ sent = Response("COMPLETED", "NONE", [n \in DOMAIN chunks |-> Section(chunks[n])], <<>>)
    /\ \/ Judgable(judged) /\ judged.decision \in {"NOT_JUDGED", "CONNECT"}
       \/ /\ judged.decision \in {"SEPARATE", "UNCLASSIFIED"}
          /\ judged.attribution = <<"CITATION", MostCited(chunks)>>

\* The inductive invariant: where a turn is, and what it has told by then.
IInv == Underway \/ Unanswered \/ Served \/ Answered

-----------------------------------------------------------------------------
(* What the invariant says of the properties *)

\* What is found are lists of the two retrievers.
LEMMA FoundLists ==
    ASSUME NEW f \in Found
    PROVE  f[1] \in Bm25Lists /\ f[2] \in Bm25Lists
BY DEF Found, Bm25Lists

\* The invariant says that the search text is the resolved question, and fits its field.
LEMMA SearchesHolds == IInv => SearchesWhatItSays
BY DEF IInv, Underway, Unanswered, Served, Answered, SearchesWhatItSays, CanBeFollowed

\* The invariant says that the evidence is ranked by its scores.
LEMMA FusionHolds == IInv => FusionIsRanked
<1> SUFFICES ASSUME IInv, pc = "FOUND" PROVE FusionIsRanked
  BY DEF FusionIsRanked
<1>1. found \in Found /\ evidence = Fused(found[1], found[2])
  BY DEF IInv, Underway, Unanswered, Served, Answered
<1> DEFINE b == found[1]
           v == found[2]
           fused == AllFused(b, v)
<1>2. b \in Bm25Lists /\ v \in Bm25Lists
  BY <1>1, FoundLists
<1>3. evidence = Fused(b, v)
  BY <1>1
<1> HIDE DEF b, v
<1>4. \A i, j \in DOMAIN fused : Nearer(fused[j], fused[i], b, v) => j < i
  BY <1>2, NearerComesFirst
<1>5. \A i \in DOMAIN evidence : Contains(RankDocuments(b, v), VersionOf[evidence[i]])
  BY <1>2, <1>3, EvidenceIsShown
<1> QED BY <1>4, <1>5 DEF FusionIsRanked, Nearer, b, v

\* The invariant says that an answer cites what it is grounded in.
LEMMA GroundedHolds == IInv => CompletedIsGrounded
<1>1. ASSUME log.status # "COMPLETED" PROVE CompletedIsGrounded
  BY <1>1 DEF CompletedIsGrounded
<1>2. Underway \/ Unanswered => log.status # "COMPLETED"
  BY DEF Underway, Unanswered, Open, Entry
<1>3. ASSUME Served PROVE CompletedIsGrounded
  <2>1. PICK answer \in Approved :
           /\ Resolvable(answer)
           /\ log = Entry("COMPLETED", "CACHED",
                          [n \in DOMAIN answer |-> Cited(Located(answer[n]))])
    <3>1. PICK answer \in {a \in Approved : Resolvable(a)} :
             log = Entry("COMPLETED", "CACHED",
                         [n \in DOMAIN ServedCitations(answer) |-> Cited(ServedCitations(answer)[n])])
      BY <1>3 DEF Served
    <3>2. /\ DOMAIN ServedCitations(answer) = DOMAIN answer
          /\ \A n \in DOMAIN answer : ServedCitations(answer)[n] = Located(answer[n])
      BY DEF ServedCitations
    <3>3. [n \in DOMAIN ServedCitations(answer) |-> Cited(ServedCitations(answer)[n])]
             = [n \in DOMAIN answer |-> Cited(Located(answer[n]))]
      BY <3>2
    <3> QED BY <3>1, <3>3
  <2>2. /\ log.reason = "CACHED" /\ DOMAIN log.cited = DOMAIN answer
        /\ \A n \in DOMAIN answer : log.cited[n] = Cited(Located(answer[n]))
    BY <2>1 DEF Entry
  <2>3. answer # <<>> /\ \A n \in DOMAIN answer : Kept(answer[n]) # {}
    BY <2>1 DEF Resolvable
  <2>4. ASSUME NEW n \in DOMAIN answer
        PROVE  LET c == log.cited[n].chunk IN
               /\ SourceOf[log.cited[n].version] = SourceOf[answer[n].version]
               /\ SourceOf[answer[n].version] \notin Off
               /\ ContentOf[c] = answer[n].content
               /\ \A d \in Chunk :
                     /\ VersionOf[d] = VersionOf[c] /\ ContentOf[d] = ContentOf[c]
                     /\ IdentityOf[d] = answer[n].identity /\ answer[n].identity # 0
                     => IdentityOf[c] = answer[n].identity
    <3> DEFINE x == Located(answer[n])
    <3>1. /\ x \in Kept(answer[n])
          /\ \A d \in Kept(answer[n]) :
                IdentityOf[d] = answer[n].identity /\ answer[n].identity # 0
                => IdentityOf[x] = answer[n].identity
      BY <2>3, LocatedSaysTheSame
    <3>2. log.cited[n] = Cited(x)
      BY <2>2
    <3> HIDE DEF x
    <3>3. log.cited[n].chunk = x /\ log.cited[n].version = VersionOf[x]
      BY <3>2 DEF Cited
    <3>4. /\ x \in Chunk /\ SourceOf[VersionOf[x]] = SourceOf[answer[n].version]
          /\ SourceOf[VersionOf[x]] \notin Off /\ ContentOf[x] = answer[n].content
      BY <3>1 DEF Kept
    <3>5. ASSUME NEW d \in Chunk, VersionOf[d] = VersionOf[x], ContentOf[d] = ContentOf[x]
          PROVE  d \in Kept(answer[n])
      BY <3>4, <3>5 DEF Kept
    <3> QED BY <3>3, <3>1, <3>4, <3>5
  <2> QED BY <2>2, <2>3, <2>4 DEF CompletedIsGrounded
<1>4. ASSUME Answered PROVE CompletedIsGrounded
  <2> DEFINE e == evidence
             m == markers
             C == Citations(m, e)
             M == Numbers(m, e)
  <2>1. /\ e \in Seq(Chunk) /\ m \in Seq(plan.sources) /\ m # <<>>
        /\ plan.sources \subseteq DOMAIN e
        /\ log = Entry("COMPLETED", "WRITTEN", [n \in DOMAIN C |-> Cited(C[n])])
    BY <1>4 DEF Answered
  <2>2. m \in Seq(DOMAIN e) /\ \A i \in DOMAIN m : m[i] \in plan.sources
    BY <2>1
  <2>3. /\ C \in Seq(Chunk) /\ C # <<>>
        /\ \A n \in DOMAIN C : \E i \in DOMAIN m : C[n] = e[m[i]]
        /\ \A a, b \in DOMAIN C : Section(C[a]) = Section(C[b]) => a = b
        /\ ToSet(M) = DOMAIN C
        /\ \A i \in DOMAIN m : Section(C[M[i]]) = Section(e[m[i]])
    BY <2>1, <2>2, CitationsAreNumbered
  <2>4. DOMAIN M = DOMAIN m
    BY DEF Numbers
  <2> HIDE DEF C, M
  <2>5. /\ log.reason = "WRITTEN" /\ DOMAIN log.cited = DOMAIN C
        /\ \A n \in DOMAIN C : log.cited[n].chunk = C[n]
    BY <2>1 DEF Entry, Cited
  <2>6. log.cited # <<>>
    <3>1. DOMAIN C # {}
      BY <2>3
    <3>2. DOMAIN <<>> = {}
      OBVIOUS
    <3> QED BY <2>5, <3>1, <3>2
  <2>7. \A n \in DOMAIN log.cited : log.cited[n].chunk \in {e[i] : i \in plan.sources}
    BY <2>2, <2>3, <2>5
  <2>8. \A i \in DOMAIN m : M[i] \in DOMAIN C
    BY <2>3, <2>4 DEF ToSet
  <2>9. \A i \in DOMAIN m : Section(log.cited[M[i]].chunk) = Section(e[m[i]])
    BY <2>3, <2>5, <2>8
  <2>10. \A a, b \in DOMAIN log.cited :
            Section(log.cited[a].chunk) = Section(log.cited[b].chunk) => a = b
    BY <2>3, <2>5
  <2>11. ToSet(M) = DOMAIN log.cited
    BY <2>3, <2>5
  <2> QED BY <2>5, <2>6, <2>7, <2>9, <2>10, <2>11 DEF CompletedIsGrounded, M
<1> QED BY <1>1, <1>2, <1>3, <1>4 DEF IInv

\* The invariant says that a poll restores what the client was sent.
LEMMA PolledHolds == IInv => PolledIsSent
<1>1. Underway \/ Unanswered => PolledIsSent
  BY DEF Underway, Unanswered, PolledIsSent
<1>2. ASSUME log.status = "COMPLETED"
      PROVE  Polled = Response("COMPLETED", "NONE",
                               [n \in DOMAIN log.cited |-> Restored(log.cited[n])], <<>>)
  BY <1>2 DEF Polled
<1>3. ASSUME Served PROVE PolledIsSent
  <2>1. PICK C :
           /\ log = Entry("COMPLETED", "CACHED", [n \in DOMAIN C |-> Cited(C[n])])
           /\ sent = Response("COMPLETED", "NONE", [n \in DOMAIN C |-> Restored(Cited(C[n]))], <<>>)
    BY <1>3 DEF Served
  <2>2. /\ log.status = "COMPLETED" /\ DOMAIN log.cited = DOMAIN C
        /\ \A n \in DOMAIN C : log.cited[n] = Cited(C[n])
    BY <2>1 DEF Entry
  <2>3. [n \in DOMAIN log.cited |-> Restored(log.cited[n])]
        = [n \in DOMAIN C |-> Restored(Cited(C[n]))]
    BY <2>2
  <2>4. Polled = sent
    BY <1>2, <2>1, <2>2, <2>3
  <2> QED BY <2>4 DEF PolledIsSent
<1>4. ASSUME Answered PROVE PolledIsSent
  <2> DEFINE C == Citations(markers, evidence)
             p == [n \in DOMAIN C |-> Restored(Cited(C[n]))]
             s == [n \in DOMAIN C |-> Section(C[n])]
  <2>1. /\ log = Entry("COMPLETED", "WRITTEN", [n \in DOMAIN C |-> Cited(C[n])])
        /\ sent = Response("COMPLETED", "NONE", s, <<>>)
        /\ evidence \in Seq(Chunk) /\ markers \in Seq(DOMAIN evidence) /\ markers # <<>>
    <3>1. /\ log = Entry("COMPLETED", "WRITTEN", [n \in DOMAIN C |-> Cited(C[n])])
          /\ sent = Response("COMPLETED", "NONE", s, <<>>)
          /\ evidence \in Seq(Chunk) /\ markers # <<>>
          /\ markers \in Seq(plan.sources) /\ plan.sources \subseteq DOMAIN evidence
      BY <1>4 DEF Answered
    <3> HIDE DEF C, s
    <3>2. markers \in Seq(DOMAIN evidence)
      BY <3>1
    <3> QED BY <3>1, <3>2
  <2>2. C \in Seq(Chunk)
    BY <2>1, CitationsAreNumbered
  <2> HIDE DEF C
  <2>3. DOMAIN C = 1..Len(C) /\ Len(C) \in Nat /\ \A n \in DOMAIN C : C[n] \in Chunk
    BY <2>2
  <2>4. /\ log.status = "COMPLETED" /\ DOMAIN log.cited = DOMAIN C
        /\ \A n \in DOMAIN C : log.cited[n] = Cited(C[n])
    BY <2>1 DEF Entry
  <2>5. [n \in DOMAIN log.cited |-> Restored(log.cited[n])] = p
    BY <2>4
  <2>6. Polled = Response("COMPLETED", "NONE", p, <<>>)
    BY <1>2, <2>4, <2>5
  <2>7. Len(s) = Len(p)
    BY <2>3
  <2>8. ASSUME NEW n \in DOMAIN s, Plain(s[n][2]) PROVE s[n] = p[n]
    <3>1. n \in DOMAIN C /\ s[n] = Section(C[n]) /\ p[n] = Restored(Cited(C[n]))
      OBVIOUS
    <3>2. C[n] \in Chunk /\ s[n][2] = PathOf[C[n]]
      BY <2>3, <3>1 DEF Section
    <3>3. PathOf[C[n]] \in Seq(Seq(STRING))
      BY <3>2, RetrievalAssumption
    <3>4. Split(Joined(PathOf[C[n]])) = PathOf[C[n]]
      BY <2>8, <3>2, <3>3, SplitJoined
    <3>5. Restored(Cited(C[n])) = <<VersionOf[C[n]], Split(Joined(PathOf[C[n]]))>>
      BY DEF Restored, Cited
    <3> QED BY <3>1, <3>4, <3>5 DEF Section
  <2> HIDE DEF s, p
  <2> QED BY <2>1, <2>6, <2>7, <2>8 DEF PolledIsSent, Response
<1> QED BY <1>1, <1>3, <1>4 DEF IInv

\* The invariant says that a question counts for what its answer cites.
LEMMA AttributionHolds == IInv => AttributionFollowsEvidence
<1>1. ASSUME log.status # "COMPLETED", Judgable(judged) PROVE AttributionFollowsEvidence
  BY <1>1 DEF AttributionFollowsEvidence, Judgable, Versions
<1>2. Underway \/ Unanswered => log.status # "COMPLETED" /\ Judgable(judged)
  BY DEF Underway, Unanswered, Open, Entry
<1>3. ASSUME Judgable(judged), judged.decision \in {"NOT_JUDGED", "CONNECT"}
      PROVE  AttributionFollowsEvidence
  BY <1>3 DEF AttributionFollowsEvidence, Judgable, Versions
<1>4. ASSUME Answered, judged.decision \in {"SEPARATE", "UNCLASSIFIED"},
             judged.attribution = <<"CITATION", MostCited(Citations(markers, evidence))>>
      PROVE  AttributionFollowsEvidence
  <2> DEFINE C == Citations(markers, evidence)
             cited == [n \in DOMAIN log.cited |-> log.cited[n].version]
             times(v) == Cardinality({n \in DOMAIN cited : cited[n] = v})
             counts(v) == Cardinality({n \in DOMAIN C : VersionOf[C[n]] = v})
  <2>1. /\ log = Entry("COMPLETED", "WRITTEN", [n \in DOMAIN C |-> Cited(C[n])])
        /\ evidence \in Seq(Chunk) /\ markers \in Seq(DOMAIN evidence) /\ markers # <<>>
    <3>1. /\ log = Entry("COMPLETED", "WRITTEN", [n \in DOMAIN C |-> Cited(C[n])])
          /\ evidence \in Seq(Chunk) /\ markers # <<>>
          /\ markers \in Seq(plan.sources) /\ plan.sources \subseteq DOMAIN evidence
      BY <1>4 DEF Answered
    <3> HIDE DEF C
    <3>2. markers \in Seq(DOMAIN evidence)
      BY <3>1
    <3> QED BY <3>1, <3>2
  <2>2. C \in Seq(Chunk) /\ C # <<>>
    BY <2>1, CitationsAreNumbered
  <2>3. judged.attribution = <<"CITATION", MostCited(C)>>
    BY <1>4
  <2> HIDE DEF C
  <2>4. /\ log.status = "COMPLETED" /\ DOMAIN log.cited = DOMAIN C
        /\ \A n \in DOMAIN C : log.cited[n].version = VersionOf[C[n]]
    BY <2>1 DEF Entry, Cited
  <2>5. DOMAIN cited = DOMAIN C /\ \A n \in DOMAIN C : cited[n] = VersionOf[C[n]]
    BY <2>4
  <2> HIDE DEF cited
  <2>6. \A v : times(v) = counts(v)
    <3>1. \A v : {n \in DOMAIN cited : cited[n] = v} = {n \in DOMAIN C : VersionOf[C[n]] = v}
      BY <2>5
    <3> QED BY <3>1
  <2>7. PICK n \in DOMAIN C :
           /\ VersionOf[C[n]] = MostCited(C)
           /\ \A m \in DOMAIN C : counts(VersionOf[C[m]]) <= counts(VersionOf[C[n]])
           /\ \A m \in 1..(n - 1) : counts(VersionOf[C[m]]) < counts(VersionOf[C[n]])
    BY <2>2, MostCitedIsFirst
  <2>8. DOMAIN C = 1..Len(C) /\ Len(C) \in Nat /\ \A m \in 1..(n - 1) : m \in DOMAIN C
    BY <2>2, <2>7
  <2> HIDE DEF times, counts
  <2> DEFINE target == judged.attribution[2]
  <2>9. target = MostCited(C) /\ judged.attribution[1] = "CITATION"
    BY <2>3
  <2> HIDE DEF target
  <2>10. /\ cited[n] = target /\ n \in DOMAIN cited
         /\ \A m \in DOMAIN cited : times(cited[m]) <= times(target)
         /\ \A m \in 1..(n - 1) : times(cited[m]) < times(target)
    BY <2>5, <2>6, <2>7, <2>8, <2>9
  <2>11. \E k \in DOMAIN cited :
            /\ cited[k] = target
            /\ \A m \in DOMAIN cited : times(cited[m]) <= times(target)
            /\ \A m \in 1..(k - 1) : times(cited[m]) < times(target)
    BY <2>10
  <2> QED BY <1>4, <2>4, <2>9, <2>11 DEF AttributionFollowsEvidence, cited, times, target
<1> QED BY <1>1, <1>2, <1>3, <1>4 DEF IInv, Served, Answered

-----------------------------------------------------------------------------
(* Endings *)

\* An error of the client is an error of the log, or a turn that is still open.
LEMMA ErrorEnds ==
    ASSUME pc' = "DONE", Judgable(judged'), sent'.status = "ERROR",
           log'.status \in {"ERROR", "PROCESSING"}
    PROVE  Unanswered'
<1>1. Polled'.status = log'.status
  BY DEF Polled, Response
<1>2. PolledIsSent'
  BY <1>1 DEF PolledIsSent
<1> QED BY <1>2 DEF Unanswered

\* A turn whose ending could not be recorded is an error to the client.
LEMMA RecordFails ==
    ASSUME pc' = "DONE", Judgable(judged'), sent' = Failed("INTERNAL_ERROR"),
           log' \in {Entry("ERROR", "INTERNAL_ERROR", <<>>), Open}
    PROVE  Unanswered'
BY ErrorEnds DEF Failed, Response, Entry, Open

\* A failed turn is an error, to the client and, if it could be recorded, in the log.
LEMMA FailEnds ==
    ASSUME NEW code, Fail(code), Judgable(judged')
    PROVE  Unanswered'
<1>1. CASE log' = Entry("ERROR", code, <<>>) /\ sent' = Failed(code)
  BY <1>1, ErrorEnds DEF Fail, Record, Failed, Response, Entry
<1>2. CASE /\ log' \in {Entry("ERROR", "INTERNAL_ERROR", <<>>), Open}
           /\ sent' = Failed("INTERNAL_ERROR")
  BY <1>2, RecordFails DEF Fail, Record
<1> QED BY <1>1, <1>2 DEF Fail, Record

\* What is withheld can be polled with its reason and its related sections.
LEMMA WithholdEnds ==
    ASSUME NEW reason, Withhold(reason), related' = RelatedSections(evidence), Judgable(judged')
    PROVE  Unanswered'
<1>1. CASE /\ log' = Entry("WITHHELD", reason, <<>>)
           /\ sent' = Response("WITHHELD", reason, <<>>,
                               IF reason \in Guiding THEN RelatedSections(evidence) ELSE <<>>)
  <2>1. log'.status = "WITHHELD" /\ log'.reason = reason
    BY <1>1 DEF Entry
  <2>2. Polled' = Response("WITHHELD", reason, <<>>,
                           IF reason \in Guiding THEN related' ELSE <<>>)
    BY <2>1 DEF Polled
  <2>3. sent' = Polled'
    BY <1>1, <2>2
  <2>4. PolledIsSent'
    BY <2>3 DEF PolledIsSent
  <2> QED BY <2>1, <2>4 DEF Unanswered, Withhold, Record
<1>2. CASE /\ log' \in {Entry("ERROR", "INTERNAL_ERROR", <<>>), Open}
           /\ sent' = Failed("INTERNAL_ERROR")
  BY <1>2, RecordFails DEF Withhold, Record
<1> QED BY <1>1, <1>2 DEF Withhold, Record

\* An approved answer is served as it was recorded, or the turn goes on.
LEMMA ServeEnds ==
    ASSUME NEW next, Serve(next), Judgable(judged'), judged'.decision = "CONNECT"
    PROVE  Served' \/ (pc' = next /\ UNCHANGED ending)
BY DEF Serve, Served

-----------------------------------------------------------------------------
(* Steps *)

\* What a resolution says of a question q.
Says(q, r) ==
    /\ Len(r.text) \in 1..MaxQuery
    /\ r.turn = 0 => r.text = q
    /\ r.turn # 0 =>
          LET previous == Candidates[r.turn].query
              merged == previous \o Normalized(q)
              ofTheModel == \E text \in Written, phrase \in Named :
                               /\ OfTurn(phrase, r.turn) /\ Within(phrase, text)
                               /\ r.text = Normalized(text)
          IN /\ r.text = merged \/ ofTheModel
             /\ ~HasUiReference(q) \/ Within(previous, r.text) \/ Len(merged) > MaxQuery

\* A question that is searched as it is asked says so.
LEMMA NewTopicSays ==
    ASSUME NEW q \in Question
    PROVE  Says(q, NewTopic(q))
<1>1. Len(q) \in 1..MaxQuery
  BY RewriteAssumption DEF IsText
<1> QED BY <1>1 DEF Says, NewTopic, Resolution

\* What a resolved follow-up is searched with.
LEMMA ResolvedSays ==
    ASSUME NEW q \in Question, NEW output \in Outputs, Acceptable(output),
           Resolve(q, output).decision # "FOLLOW_UP_UNRESOLVED"
    PROVE  Says(q, Resolve(q, output))
<1> DEFINE r == Resolve(q, output)
<1>1. CASE r = NewTopic(q)
  BY <1>1, NewTopicSays
<1>2. CASE output.decision = "FOLLOW_UP_RESOLVED" /\ r # NewTopic(q)
  <2> DEFINE previous == Candidates[output.turn].query
             merged == previous \o Normalized(q)
             n == Normalized(output.text)
             text == WithScope(q, previous, n)
  <2>1. /\ output.turn \in DOMAIN Candidates /\ output.turn # 0
        /\ OfTurn(output.phrase, output.turn) /\ Within(output.phrase, output.text)
        /\ output.phrase \in Named /\ output.text \in Written
    BY <1>2, RewriteAssumption DEF Acceptable, Outputs
  <2>2. r = Resolution("FOLLOW_UP_RESOLVED", text, output.turn)
    BY <1>2 DEF Resolve, Resolved
  <2>3. IsText(q) /\ IsText(previous) /\ IsText(output.text)
    BY <2>1, RewriteAssumption
  <2>4. /\ n \in Seq(Fragment) /\ Len(n) <= Len(output.text) /\ n # <<>>
        /\ Normalized(q) \in Seq(Fragment)
    BY <2>3, NormalizedShrinks DEF IsText
  <2>5. MaxQuery \in Nat /\ Len(n) \in Nat /\ Len(n) # 0 /\ Len(output.text) <= MaxQuery
    BY <2>3, <2>4, RewriteAssumption DEF IsText
  <2>6. Len(n) \in 1..MaxQuery
    <3>1. Len(output.text) \in Nat
      BY <2>3 DEF IsText
    <3> QED BY <2>4, <2>5, <3>1
  <2>7. Within(previous, merged) /\ Len(merged) \in Nat /\ Len(merged) >= 1
    <3>1. previous \in Seq(Fragment) /\ Len(previous) \in Nat /\ Len(previous) >= 1
      BY <2>3 DEF IsText
    <3>2. Len(merged) = Len(previous) + Len(Normalized(q)) /\ Len(Normalized(q)) \in Nat
      BY <2>4, <3>1
    <3>3. Within(previous, merged)
      BY <2>4, <3>1, BeginningIsWithin
    <3> QED BY <3>1, <3>2, <3>3
  <2>8. \/ /\ text = n
           /\ ~HasUiReference(q) \/ Within(previous, n) \/ Len(merged) > MaxQuery
        \/ text = merged /\ ~(Len(merged) > MaxQuery)
    BY DEF WithScope
  <2> HIDE DEF text, n, merged, previous, r
  <2>9. Len(text) \in 1..MaxQuery
    BY <2>5, <2>6, <2>7, <2>8
  <2>10. ~HasUiReference(q) \/ Within(previous, text) \/ Len(merged) > MaxQuery
    BY <2>7, <2>8
  <2>11. \/ text = merged
         \/ \E t \in Written, phrase \in Named :
               /\ OfTurn(phrase, output.turn) /\ Within(phrase, t) /\ text = Normalized(t)
    BY <2>1, <2>8 DEF n
  <2>12. r.text = text /\ r.turn = output.turn
    BY <2>2 DEF Resolution
  <2> QED BY <2>1, <2>9, <2>10, <2>11, <2>12 DEF Says, previous, merged, r
<1>3. r = NewTopic(q) \/ (output.decision = "FOLLOW_UP_RESOLVED" /\ r # NewTopic(q))
  <2>1. output.decision \in {"NEW_TOPIC", "FOLLOW_UP_UNRESOLVED", "FOLLOW_UP_RESOLVED"}
    BY DEF Outputs
  <2> QED BY <2>1 DEF Resolve, Unresolved, Resolution
<1> QED BY <1>1, <1>2, <1>3

\* What the properties say of the text, once a question is resolved ...
LEMMA SaysIsSearched ==
    ASSUME pc' = "SEARCH", Says(question', query')
    PROVE  SearchesWhatItSays'
BY DEF Says, SearchesWhatItSays, CanBeFollowed

\* ... and as long as the search is not asked for, or has been made.
LEMMA NothingIsSearched ==
    ASSUME pc' \notin {"SEARCH", "EMBED", "JUDGE"}
    PROVE  SearchesWhatItSays'
BY DEF SearchesWhatItSays, CanBeFollowed

\* A resolved question stays what it is while it is searched.
LEMMA SearchedIsKept ==
    ASSUME SearchesWhatItSays, pc \in {"EMBED", "JUDGE"}, pc' = pc,
           UNCHANGED searching
    PROVE  SearchesWhatItSays'
BY DEF SearchesWhatItSays, CanBeFollowed, searching

\* A step of a turn that is under way leads to where it is still, or to an ending.
LEMMA BeforeTheSearch ==
    ASSUME Underway, NoExactMatch \/ ExactMatch \/ RewriteAgain \/ Rewrite
    PROVE  IInv'
<1> USE DEF searching, writing, ending
<1>0. /\ evidence \in Seq(Chunk) /\ question \in Question /\ log = Open /\ Judgable(judged)
      /\ related = RelatedSections(evidence)
  BY DEF Underway, NoExactMatch, ExactMatch, RewriteAgain, Rewrite
<1>1. ASSUME pc = "START", pc' = ToResolve, question' = question, query' = query
      PROVE  /\ pc' \in {"REWRITE", "SEARCH"}
             /\ SearchesWhatItSays'
  <2>1. CASE pc' = "REWRITE"
    BY <2>1, NothingIsSearched
  <2>2. CASE pc' # "REWRITE"
    <3>1. query = NewTopic(question) /\ pc' = "SEARCH"
      BY <1>1, <2>2 DEF Underway, ToResolve
    <3>2. Says(question', query')
      BY <1>0, <1>1, <3>1, NewTopicSays
    <3> QED BY <3>1, <3>2, SaysIsSearched
  <2> QED BY <1>1, <2>1, <2>2
<1>2. CASE NoExactMatch
  <2>1. /\ pc' \in {"REWRITE", "SEARCH"}
        /\ SearchesWhatItSays'
    BY <1>1, <1>2 DEF NoExactMatch
  <2> QED BY <1>0, <1>2, <2>1 DEF IInv, Underway, NoExactMatch
<1>3. CASE ExactMatch
  <2>1. Judgable(judged') /\ judged'.decision = "CONNECT"
    <3>1. PICK s \in Subproblem : judged' = Judged("CONNECT", s, <<"SUBPROBLEM", s>>, "SURE")
      BY <1>3 DEF ExactMatch
    <3> QED BY <3>1, JudgmentsAreJudgable DEF Judged
  <2>2. Served' \/ (pc' = ToResolve /\ UNCHANGED ending)
    BY <1>3, <2>1, ServeEnds DEF ExactMatch
  <2>3. CASE Served'
    BY <2>3 DEF IInv
  <2>4. CASE pc' = ToResolve /\ UNCHANGED ending
    <3>1. /\ pc' \in {"REWRITE", "SEARCH"}
          /\ SearchesWhatItSays'
      BY <1>1, <1>3, <2>4 DEF ExactMatch
    <3> QED BY <1>0, <1>3, <2>1, <2>4, <3>1 DEF IInv, Underway, ExactMatch
  <2> QED BY <2>2, <2>3, <2>4
<1>4. CASE RewriteAgain
  <2>1. SearchesWhatItSays'
    BY <1>4, NothingIsSearched DEF RewriteAgain
  <2> QED BY <1>0, <1>4, <2>1 DEF IInv, Underway, RewriteAgain
<1>5. CASE Rewrite
  <2>1. /\ pc = "REWRITE" /\ related' = related /\ judged' = judged
        /\ question' = question /\ evidence' = evidence
    BY <1>5 DEF Rewrite
  <2>2. ASSUME NEW code, Fail(code) PROVE IInv'
    BY <1>0, <2>1, <2>2, FailEnds DEF IInv
  <2>3. ASSUME NEW resolution, Settle(resolution), resolution.decision = "FOLLOW_UP_UNRESOLVED"
        PROVE  IInv'
    BY <1>0, <2>1, <2>3, WithholdEnds DEF Settle, IInv
  <2>4. ASSUME NEW output \in Outputs, Acceptable(output), Settle(Resolve(question, output)),
               Resolve(question, output).decision # "FOLLOW_UP_UNRESOLVED"
        PROVE  IInv'
    <3>1. CASE query' = Resolve(question, output) /\ pc' = "SEARCH" /\ UNCHANGED ending
      <4>1. Says(question', query')
        BY <1>0, <2>1, <2>4, <3>1, ResolvedSays
      <4>2. SearchesWhatItSays'
        BY <3>1, <4>1, SaysIsSearched
      <4> QED BY <1>0, <2>1, <3>1, <4>2 DEF IInv, Underway
    <3>2. CASE /\ pc' = "DONE" /\ sent' = Failed("INTERNAL_ERROR")
               /\ log' \in {Entry("ERROR", "INTERNAL_ERROR", <<>>), Open}
      BY <1>0, <2>1, <3>2, RecordFails DEF IInv
    <3> QED BY <2>4, <3>1, <3>2 DEF Settle
  <2>5. Settle(Unresolved) => IInv'
    BY <2>3 DEF Unresolved, Resolution
  <2> QED BY <1>5, <2>2, <2>3, <2>4, <2>5 DEF Rewrite
<1> QED BY <1>2, <1>3, <1>4, <1>5

\* The search leads to evidence that is fused of what was found, or to an ending.
LEMMA Searching ==
    ASSUME Underway, Expand \/ EmbedAgain \/ SearchFails \/ Search
    PROVE  IInv'
<1> USE DEF searching, writing, ending
<1>0. /\ evidence \in Seq(Chunk) /\ question \in Question /\ log = Open
      /\ Judgable(judged) /\ SearchesWhatItSays
      /\ related = RelatedSections(evidence)
  BY DEF Underway, Expand, EmbedAgain, SearchFails, Search
<1>1. CASE Expand
  <2>1. /\ pc = "SEARCH" /\ pc' = "EMBED" /\ question' = question /\ query' = query
        /\ retrieval' = Expanded(query.text)
    BY <1>1 DEF Expand
  <2>2. SearchesWhatItSays'
    <3>1. \/ retrieval' = query'.text
          \/ \E i \in DOMAIN Expansions :
                Applies(Expansions[i], query'.text) /\ retrieval' = Expansions[i].text
      BY <2>1, ExpandedSays
    <3> QED BY <1>0, <2>1, <3>1 DEF SearchesWhatItSays, CanBeFollowed
  <2> QED BY <1>0, <1>1, <2>1, <2>2 DEF IInv, Underway, Expand
<1>2. CASE EmbedAgain
  <2>1. SearchesWhatItSays'
    BY <1>0, <1>2, SearchedIsKept DEF EmbedAgain
  <2> QED BY <1>0, <1>2, <2>1 DEF IInv, Underway, EmbedAgain
<1>3. CASE SearchFails
  <2>1. \E code : Fail(code)
    BY <1>3 DEF SearchFails
  <2>2. Judgable(judged')
    BY <1>0, <1>3 DEF SearchFails
  <2> QED BY <2>1, <2>2, FailEnds DEF IInv
<1>4. CASE Search
  <2>1. /\ found' \in Found /\ evidence' = Fused(found'[1], found'[2]) /\ pc' = "FOUND"
        /\ judged' = judged /\ log' = log
    BY <1>4 DEF Search
  <2>2. evidence' \in Seq(Chunk)
    <3>1. found'[1] \in Bm25Lists /\ found'[2] \in Bm25Lists
      BY <2>1, FoundLists
    <3> QED BY <2>1, <3>1, EvidenceIsShown
  <2>3. SearchesWhatItSays'
    BY <2>1, NothingIsSearched
  <2> QED BY <1>0, <2>1, <2>2, <2>3 DEF IInv, Underway
<1> QED BY <1>1, <1>2, <1>3, <1>4

\* What is recorded of the retrieval points to what the evidence points to.
LEMMA RetrievalIsRecorded ==
    ASSUME Underway, pc \in {"FOUND", "VECTOR", "JUDGE"}, RecordRetrieval
    PROVE  related' = RelatedSections(evidence)
<1>1. found \in Found /\ evidence = Fused(found[1], found[2])
  BY DEF Underway
<1>2. found[1] \in Bm25Lists /\ found[2] \in Bm25Lists
  BY <1>1, FoundLists
<1>3. related' = PolledRelated(found[1], found[2])
  BY DEF RecordRetrieval
<1>4. PolledRelated(found[1], found[2]) = RelatedSections(Fused(found[1], found[2]))
  BY <1>2, RelatedIsPolled
<1> QED BY <1>1, <1>3, <1>4

\* The judge is shown subproblems of the group and documents of the index.
LEMMA ShownIsKnown ==
    ASSUME found \in Found, NEW j \in Judgments
    PROVE  j.shown.subproblems \subseteq Subproblem /\ j.shown.documents \subseteq Versions
<1> DEFINE documents == ToSet(RankDocuments(found[1], found[2]))
           shownTo(similarity) == Presentation(ToSet(RankSubproblems(similarity)), documents)
<1>1. PICK s \in [Subproblem -> 1..2] : j.shown = shownTo(s)
  BY DEF Judgments
<1>2. documents \subseteq Versions
  BY FoundLists, EvidenceIsShown
<1>3. ToSet(RankSubproblems(s)) \subseteq Subproblem
  BY RankedSubproblems
<1> HIDE DEF documents
<1> QED BY <1>1, <1>2, <1>3 DEF Presentation

\* Every ending of the judgment leads to an answer, to the plan, or to an ending.
LEMMA Judging ==
    ASSUME Underway, NotJudging \/ ReuseVector \/ Vector \/ JudgmentFails \/ JudgeAgain \/ Judge
    PROVE  IInv'
<1> USE DEF searching, writing, ending
<1>0. /\ evidence \in Seq(Chunk) /\ log = Open
      /\ Judgable(judged)
  BY DEF Underway
<1>1. CASE NotJudging
  <2>1. related' = RelatedSections(evidence)
    BY <1>1, RetrievalIsRecorded DEF NotJudging
  <2>2. SearchesWhatItSays'
    BY <1>1, NothingIsSearched DEF NotJudging
  <2> QED BY <1>0, <1>1, <2>1, <2>2 DEF IInv, Underway, NotJudging
<1>2. CASE ReuseVector \/ Vector
  <2>1. pc \in {"FOUND", "VECTOR"} /\ pc' \in {"VECTOR", "JUDGE"}
    BY <1>2 DEF ReuseVector, Vector
  <2>2. pc' = "JUDGE" => embedded' = "RESOLVED"
    BY <1>2 DEF ReuseVector, Vector
  <2>3. SearchesWhatItSays'
    BY <2>1, <2>2 DEF SearchesWhatItSays, CanBeFollowed
  <2>4. found \in Found /\ evidence = Fused(found[1], found[2])
    BY <2>1 DEF Underway
  <2>5. found' = found /\ evidence' = evidence /\ judged' = judged /\ log' = log
    BY <1>2 DEF ReuseVector, Vector
  <2>6. pc' # "WRITE"
    BY <2>1
  <2> QED BY <1>0, <2>1, <2>3, <2>4, <2>5, <2>6 DEF IInv, Underway
<1>3. CASE JudgmentFails
  <2>1. related' = RelatedSections(evidence)
    BY <1>3, RetrievalIsRecorded DEF JudgmentFails
  <2>2. SearchesWhatItSays'
    BY <1>3, NothingIsSearched DEF JudgmentFails
  <2>3. Judgable(judged')
    BY <1>3, JudgmentsAreJudgable DEF JudgmentFails
  <2> QED BY <1>0, <1>3, <2>1, <2>2, <2>3 DEF IInv, Underway, JudgmentFails
<1>4. CASE JudgeAgain
  <2>1. SearchesWhatItSays'
    BY <1>4, SearchedIsKept DEF JudgeAgain, Underway
  <2> QED BY <1>4, <2>1 DEF IInv, Underway, JudgeAgain
<1>5. CASE Judge
  <2>1. related' = RelatedSections(evidence) /\ found \in Found
    BY <1>5, RetrievalIsRecorded DEF Judge, Underway
  <2>2. Judgable(judged')
    <3>1. PICK j \in Judgments : \E output \in j.outputs : judged' = Normalize(output, j.shown)
      BY <1>5 DEF Judge
    <3>2. PICK output : judged' = Normalize(output, j.shown)
      BY <3>1
    <3>3. j.shown.subproblems \subseteq Subproblem /\ j.shown.documents \subseteq Versions
      BY <2>1, ShownIsKnown
    <3> QED BY <3>2, <3>3, NormalizedIsJudgable
  <2>3. evidence' = evidence
    BY <1>5 DEF Judge
  <2>4. CASE judged'.decision = "CONNECT" /\ Serve("PLAN")
    <3>1. Served' \/ (pc' = "PLAN" /\ UNCHANGED ending)
      BY <2>2, <2>4, ServeEnds
    <3>2. CASE pc' = "PLAN" /\ UNCHANGED ending
      <4>1. SearchesWhatItSays'
        BY <3>2, NothingIsSearched
      <4> QED BY <1>0, <2>1, <2>2, <2>3, <3>2, <4>1 DEF IInv, Underway
    <3> QED BY <3>1, <3>2 DEF IInv
  <2>5. CASE pc' = "PLAN" /\ UNCHANGED ending
    <3>1. SearchesWhatItSays'
      BY <2>5, NothingIsSearched
    <3> QED BY <1>0, <2>1, <2>2, <2>3, <2>5, <3>1 DEF IInv, Underway
  <2> QED BY <1>5, <2>4, <2>5 DEF Judge
<1> QED BY <1>1, <1>2, <1>3, <1>4, <1>5

\* The plan leads to a draft from sources of the evidence, or to an ending.
LEMMA Planning ==
    ASSUME Underway, ModelAgain \/ RepairPlan \/ ModelFails \/ PlanWithholds \/ PlanAnswers
    PROVE  IInv'
<1> USE DEF searching, writing, ending
<1>0. /\ evidence \in Seq(Chunk) /\ log = Open
      /\ Judgable(judged)
  BY DEF Underway
<1>1. CASE ModelAgain
  <2>1. SearchesWhatItSays'
    BY <1>1, NothingIsSearched DEF ModelAgain
  <2> QED BY <1>1, <2>1 DEF IInv, Underway, ModelAgain
<1>2. CASE RepairPlan
  <2>1. SearchesWhatItSays'
    BY <1>2, NothingIsSearched DEF RepairPlan
  <2> QED BY <1>2, <2>1 DEF IInv, Underway, RepairPlan
<1>3. CASE ModelFails
  <2>1. \E code : Fail(code)
    BY <1>3 DEF ModelFails
  <2>2. Judgable(judged')
    BY <1>0, <1>3 DEF ModelFails
  <2> QED BY <2>1, <2>2, FailEnds DEF IInv
<1>4. CASE PlanWithholds
  <2>1. PICK reason : Withhold(reason)
    BY <1>4 DEF PlanWithholds
  <2>2. related' = RelatedSections(evidence) /\ Judgable(judged')
    BY <1>0, <1>4 DEF PlanWithholds, Underway
  <2> QED BY <2>1, <2>2, WithholdEnds DEF IInv
<1>5. CASE PlanAnswers
  <2>1. /\ related' = RelatedSections(evidence) /\ Judgable(judged') /\ evidence' = evidence
    BY <1>0, <1>5 DEF PlanAnswers, Underway
  <2>2. ASSUME NEW p, Selectable(p, evidence), plan' = p, pc' = "WRITE", UNCHANGED ending
        PROVE  IInv'
    <3>1. SearchesWhatItSays'
      BY <2>2, NothingIsSearched
    <3>2. plan'.sources \subseteq DOMAIN evidence'
      BY <2>1, <2>2 DEF Selectable
    <3> QED BY <1>0, <2>1, <2>2, <3>1, <3>2 DEF IInv, Underway
  <2>3. Fail("INTERNAL_ERROR") => IInv'
    BY <2>1, FailEnds DEF IInv
  <2> QED BY <1>5, <2>2, <2>3 DEF PlanAnswers
<1> QED BY <1>1, <1>2, <1>3, <1>4, <1>5

\* A draft that was checked is an answer, and one that was not is withheld.
LEMMA Writing ==
    ASSUME Underway, Write
    PROVE  IInv'
<1> USE DEF searching, writing, ending
<1>0. /\ evidence \in Seq(Chunk) /\ log = Open
      /\ Judgable(judged) /\ related = RelatedSections(evidence)
      /\ pc = "WRITE" /\ plan.sources \subseteq DOMAIN evidence
  BY DEF Underway, Write
<1>1. evidence' = evidence /\ related' = related /\ plan' = plan
  BY DEF Write
<1>2. PICK draft \in Drafts :
         DraftWithholds(draft) \/ DraftAnswers(draft) \/ DraftIsRefused(draft)
  BY DEF Write
<1>3. ASSUME NEW why, WriteAgain(why) PROVE IInv'
  <2>1. SearchesWhatItSays'
    BY <1>0, <1>3, NothingIsSearched DEF WriteAgain
  <2> QED BY <1>0, <1>1, <1>3, <2>1 DEF WriteAgain, IInv, Underway
<1>4. ASSUME NEW reason, Withhold(reason), judged' = judged PROVE IInv'
  BY <1>0, <1>1, <1>4, WithholdEnds DEF IInv
<1>5. CASE DraftWithholds(draft)
  BY <1>3, <1>4, <1>5 DEF DraftWithholds
<1>6. CASE DraftIsRefused(draft)
  BY <1>3, <1>4, <1>6 DEF DraftIsRefused
<1>7. CASE DraftAnswers(draft)
  <2> DEFINE m == draft.markers
             C == Citations(m, evidence)
             entry == Entry("COMPLETED", "WRITTEN", [n \in DOMAIN C |-> Cited(C[n])])
             response == Response("COMPLETED", "NONE", [n \in DOMAIN C |-> Section(C[n])], <<>>)
  <2>1. m \in Seq(plan.sources) /\ m # <<>>
    <3>1. draft.status = "ANSWERABLE" /\ Verifiable(draft, plan, evidence)
      BY <1>7 DEF DraftAnswers
    <3>2. draft.clean /\ m # <<>> /\ ToSet(m) \subseteq plan.sources
      BY <3>1 DEF Verifiable
    <3>3. PICK k \in 0..TopK : m \in [1..k -> Sources]
      BY <1>2, <3>1, <3>2 DEF Drafts, Withheld, Body
    <3>4. k \in Nat
      BY <3>3, ConstantTypes
    <3>5. m \in Seq(Sources) /\ DOMAIN m = 1..k
      BY <3>3, <3>4
    <3>6. m \in [1..k -> plan.sources]
      BY <3>2, <3>3, <3>5 DEF ToSet
    <3> QED BY <3>2, <3>4, <3>6
  <2>2. /\ markers' = m /\ pc' = "DONE"
        /\ judged' = IF log'.status = "COMPLETED" THEN Finalized(judged, C) ELSE judged
        /\ \/ log' = entry /\ sent' = response
           \/ /\ log' \in {Entry("ERROR", "INTERNAL_ERROR", <<>>), Open}
              /\ sent' = Failed("INTERNAL_ERROR")
    BY <1>7 DEF DraftAnswers, Record
  <2> HIDE DEF m
  <2>3. CASE /\ log' \in {Entry("ERROR", "INTERNAL_ERROR", <<>>), Open}
             /\ sent' = Failed("INTERNAL_ERROR")
    <3>1. judged' = judged
      BY <2>2, <2>3 DEF Entry, Open
    <3> QED BY <1>0, <2>2, <2>3, <3>1, RecordFails DEF IInv
  <2>4. CASE log' = entry /\ sent' = response
    <3>1. C # <<>>
      <4>1. m \in Seq(DOMAIN evidence)
        BY <1>0, <2>1
      <4> QED BY <1>0, <2>1, <4>1, CitationsAreNumbered
    <3>2. judged' = Finalized(judged, C)
      BY <2>2, <2>4 DEF Entry
    <3> HIDE DEF C
    <3>3. \/ Judgable(judged') /\ judged'.decision \in {"NOT_JUDGED", "CONNECT"}
          \/ /\ judged'.decision \in {"SEPARATE", "UNCLASSIFIED"}
             /\ judged'.attribution = <<"CITATION", MostCited(C)>>
      <4>1. CASE judged.decision \in {"NOT_JUDGED", "CONNECT"}
        BY <1>0, <3>2, <4>1 DEF Finalized
      <4>2. CASE judged.decision \notin {"NOT_JUDGED", "CONNECT"}
        <5>1. judged' = [judged EXCEPT !.attribution = <<"CITATION", MostCited(C)>>]
          BY <3>1, <3>2, <4>2 DEF Finalized
        <5>2. /\ DOMAIN judged = {"decision", "subproblem", "attribution", "confidence"}
              /\ judged.decision \in {"SEPARATE", "UNCLASSIFIED"}
          BY <1>0, <4>2 DEF Judgable
        <5> QED BY <5>1, <5>2
      <4> QED BY <4>1, <4>2
    <3>4. C = Citations(markers', evidence')
      BY <1>1, <2>2 DEF C
    <3> QED BY <1>0, <1>1, <2>1, <2>2, <2>4, <3>3, <3>4 DEF IInv, Answered
  <2> QED BY <2>2, <2>3, <2>4
<1> QED BY <1>2, <1>5, <1>6, <1>7

-----------------------------------------------------------------------------
(* The theorems *)

\* A turn starts under way.
LEMMA InitInvariant == Init => IInv
<1> SUFFICES ASSUME Init PROVE Underway
  BY DEF IInv
<1>1. <<>> \in Seq(Chunk) /\ RelatedSections(<<>>) = <<>>
  BY RelatedLaws
<1>2. SearchesWhatItSays
  BY DEF Init, SearchesWhatItSays, CanBeFollowed
<1>3. Judgable(judged)
  BY JudgmentsAreJudgable DEF Init
<1> QED BY <1>1, <1>2, <1>3 DEF Init, Underway

\* A turn that ended takes no step.
LEMMA EndingIsLast == Next => pc # "DONE"
BY DEF Next, NoExactMatch, ExactMatch, RewriteAgain, Rewrite, Expand, EmbedAgain, SearchFails, Search,
       NotJudging, ReuseVector, Vector, JudgmentFails, JudgeAgain, Judge, ModelAgain, RepairPlan, ModelFails,
       PlanWithholds, PlanAnswers, Write

\* Every step keeps the invariant.
LEMMA NextInvariant == IInv /\ [Next]_vars => IInv'
<1> SUFFICES ASSUME IInv, [Next]_vars PROVE IInv'
  OBVIOUS
<1>1. CASE Next
  <2>1. Underway
    BY <1>1, EndingIsLast DEF IInv, Unanswered, Served, Answered
  <2> QED BY <1>1, <2>1, BeforeTheSearch, Searching, Judging, Planning, Writing DEF Next
<1>2. CASE UNCHANGED vars
  <2> USE DEF vars, searching, writing, ending
  <2>1. Underway' = Underway
    BY <1>2 DEF Underway, SearchesWhatItSays, CanBeFollowed
  <2>2. Unanswered' = Unanswered
    BY <1>2 DEF Unanswered, PolledIsSent, Polled
  <2>3. Served' = Served
    BY <1>2 DEF Served
  <2>4. Answered' = Answered
    BY <1>2 DEF Answered
  <2> QED BY <2>1, <2>2, <2>3, <2>4 DEF IInv
<1> QED BY <1>1, <1>2

\* At every moment a turn is under way, or has ended unanswered, served or answered,
\* with what each of these says of its log, its judgment and its response.
THEOREM InductiveInvariant == Spec => []IInv
BY InitInvariant, NextInvariant, PTL DEF Spec

\* Whatever the conversation, the references and the outputs of the rewriting model, the
\* text that is searched is the question, or a follow-up resolved against one of its
\* turns, with that turn's question before "that button" as long as there is room, or a
\* canned text of it; and the judge is given the vector of the resolved text.
THEOREM SearchedAsResolved == Spec => []SearchesWhatItSays
BY InductiveInvariant, SearchesHolds, PTL

\* Whatever the two retrievers return, the evidence has each chunk once, those that
\* both found before those of one, none behind one that has worse ranks,
\* and the judge is shown the document of every chunk of it.
THEOREM FusionRanks == Spec => []FusionIsRanked
BY InductiveInvariant, FusionHolds, PTL

\* Whatever the corpus and the draft, an answer cites sections that were retrieved or
\* approved, each once, and is sent as it is logged.
THEOREM CompletedGrounded == Spec => []CompletedIsGrounded
BY InductiveInvariant, GroundedHolds, PTL

\* Whatever the rows that the checkpoint left, a poll after the end restores the
\* response that the client was sent, if its ending could be recorded.
THEOREM PolledAsSent == Spec => []PolledIsSent
BY InductiveInvariant, PolledHolds, PTL

\* Whatever the judge says, a question is counted for the subproblem it was connected
\* to, or for the document its answer cites most.
THEOREM AttributionFollows == Spec => []AttributionFollowsEvidence
BY InductiveInvariant, AttributionHolds, PTL

=============================================================================
