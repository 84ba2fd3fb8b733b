----------------------------- MODULE Retrieval -----------------------------
(***************************************************************************)
(* What one hybrid search finds and what is made of it: the evidence that  *)
(* answers are written from, the documents that the question judge sees,   *)
(* the rows of the log, and the sections a withheld turn points to.        *)
(***************************************************************************)
EXTENDS Integers, Sequences, SequencesExt, FiniteSets

CONSTANTS
    Chunk,          \* document_chunks.id of the active index, a set of naturals
    VersionOf,      \* the document version of a chunk, one per document
    PathOf,         \* its section: a sequence of headings, the title first
    Console,        \* documents uploaded in the console: not to be linked to
    RrfK,           \* RRF_RANK_CONSTANT
    CandidateK,     \* how many chunks each retriever returns
    TopK,           \* how many of them become evidence
    DocumentTopK,   \* how many documents the judge is shown
    MaxRelated      \* MAX_RELATED_SECTIONS

ASSUME RetrievalAssumption ==
    /\ Chunk \subseteq Nat /\ IsFiniteSet(Chunk)
    /\ RrfK \in Nat \ {0}
    /\ CandidateK \in 1..Cardinality(Chunk)
    /\ TopK \in Nat \ {0} /\ DocumentTopK \in Nat \ {0} /\ MaxRelated \in Nat \ {0}
    /\ \A c \in Chunk : PathOf[c] \in Seq(Seq(STRING))
    \* A chunk that both retrievers found is meant to win over any other one.
    /\ CandidateK < RrfK + 2
    \* The judge is shown a document for each chunk of evidence.
    /\ TopK <= DocumentTopK

(* A heading is a sequence of words here: its words are what is left of it   *)
(* when it is split at " > ". A section of a document is named by its path.  *)
Section(c) == <<VersionOf[c], PathOf[c]>>

\* The rank in one retriever's result, 0 if it is not there.
RankIn(c, list) == IF Contains(list, c) THEN CHOOSE i \in DOMAIN list : list[i] = c ELSE 0

\* A slip: a retriever that did not find the chunk counts as rank 0.
RrfScoreOfMissing(c, bm25, vector) ==
    LET b == RankIn(c, bm25)
        v == RankIn(c, vector)
    IN <<2 * RrfK + b + v, (RrfK + b) * (RrfK + v)>>

\* rrf_score as a fraction <<numerator, denominator>>.
RrfScore(c, bm25, vector) ==
    LET b == RankIn(c, bm25)
        v == RankIn(c, vector)
    IN IF b = 0 THEN <<1, RrfK + v>>
       ELSE IF v = 0 THEN <<1, RrfK + b>>
       ELSE <<2 * RrfK + b + v, (RrfK + b) * (RrfK + v)>>

Higher(p, q) == p[1] * q[2] > q[1] * p[2]

\* sorted, by a strict total order: each element at the place that the number of
\* those before it gives.
SortedBy(S, before(_, _)) ==
    [n \in 1..Cardinality(S) |->
        CHOOSE x \in S : Cardinality({y \in S : before(y, x)}) = n - 1]

\* fuse_rrf_results before it is cut: by score, then by id.
AllFused(bm25, vector) ==
    LET before(c, d) ==
            LET p == RrfScore(c, bm25, vector)
                q == RrfScore(d, bm25, vector)
            IN Higher(p, q) \/ (~Higher(q, p) /\ c < d)
    IN SortedBy(ToSet(bm25) \cup ToSet(vector), before)

First(k, s) == SubSeq(s, 1, IF Len(s) < k THEN Len(s) ELSE k)

Fused(bm25, vector) == First(TopK, AllFused(bm25, vector))

\* Without repetitions, each at its first place (dict.fromkeys, seen).
Distinct(s) ==
    FoldLeft(LAMBDA seen, x : IF Contains(seen, x) THEN seen ELSE Append(seen, x), <<>>, s)

\* rank_documents: by the best chunk of the document.
RankDocuments(bm25, vector) ==
    LET chunks == AllFused(bm25, vector)
    IN First(DocumentTopK, Distinct([i \in DOMAIN chunks |-> VersionOf[chunks[i]]]))

\* The evidence rows that _record_retrieval_results leaves, one for each
\* retriever that found the chunk, in the order in which get_rag_run_detail
\* reads them (fused_rank, id). The other rows are not read here.
EvidenceRows(bm25, vector) ==
    FoldLeft(LAMBDA rows, c : rows \o (IF Contains(bm25, c) THEN <<c>> ELSE <<>>)
                                   \o (IF Contains(vector, c) THEN <<c>> ELSE <<>>),
             <<>>, Fused(bm25, vector))

Linkable(c) == VersionOf[c] \notin Console

\* _related_sections: the sections of the first chunks, until there are enough.
RelatedSections(chunks) ==
    FoldLeft(LAMBDA seen, c :
                 IF Linkable(c) /\ ~Contains(seen, Section(c)) /\ Len(seen) < MaxRelated
                   THEN Append(seen, Section(c)) ELSE seen,
             <<>>, chunks)

\* A slip: the rows are counted before they are merged.
PolledRelatedOfRows(bm25, vector) ==
    RelatedSections(First(MaxRelated, SelectSeq(EvidenceRows(bm25, vector), Linkable)))

\* The related sections of get_rag_run_detail, which go over the rows in the log
\* the same way.
PolledRelated(bm25, vector) == RelatedSections(EvidenceRows(bm25, vector))

\* node_path_snapshot and its way back: " > ".join, split(" > ").
Joined(path) == FlattenSeq(path)
Split(words) == [i \in DOMAIN words |-> <<words[i]>>]
Plain(path) == \A i \in DOMAIN path : Len(path[i]) = 1

\* similarity_search returns the CandidateK nearest chunks, in any order here.
VectorLists == {list \in [1..CandidateK -> Chunk] : IsInjective(list)}

\* BM25Retriever.search ranks every chunk, those without a hit as well, unless
\* the question has no token to look for.
Bm25Lists == VectorLists \cup {<<>>}

\* What the two retrievers may return.
Found == Bm25Lists \X VectorLists

=============================================================================
