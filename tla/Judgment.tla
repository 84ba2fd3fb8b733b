------------------------------ MODULE Judgment ------------------------------
(***************************************************************************)
(* The judgment of a question: which subproblems and documents a judge is  *)
(* shown, what is made of its output, and which document or subproblem the *)
(* question is counted for, at first and when the answer is there.         *)
(***************************************************************************)
EXTENDS Retrieval

CONSTANTS
    Subproblem,         \* of the document group, naturals in the order of their ids
    KeyOf,              \* their keys, naturals: unique in a document only
    SubproblemTopK,     \* SUBPROBLEM_CANDIDATE_TOP_K
    Judges              \* clients in use: "OPENAI" (QuestionJudgeClient), "JEV"

ASSUME JudgmentAssumption ==
    /\ Subproblem \subseteq Nat /\ IsFiniteSet(Subproblem)
    /\ KeyOf \in [Subproblem -> Nat]
    /\ SubproblemTopK \in Nat \ {0}
    /\ Judges \subseteq {"OPENAI", "JEV"}

Decisions == {"CONNECT", "SEPARATE", "UNCLASSIFIED"}
NoId == 0           \* a field of the output that is null
UnknownId == 99     \* one that names nothing that was shown

\* rank_subproblems: by similarity to the question, then key, then id.
RankSubproblems(similarity) ==
    LET before(s, t) ==
            \/ similarity[s] > similarity[t]
            \/ similarity[s] = similarity[t] /\ KeyOf[s] < KeyOf[t]
            \/ similarity[s] = similarity[t] /\ KeyOf[s] = KeyOf[t] /\ s < t
    IN First(SubproblemTopK, SortedBy(Subproblem, before))

Presentation(subproblems, documents) == [subproblems |-> subproblems, documents |-> documents]
NothingShown == Presentation({}, {})

\* prepare_candidates, build_judge_presentation: two subproblems with one key
\* cannot be told apart in the output, and nothing is shown.
Presentable(ranked) == \A i, j \in DOMAIN ranked : KeyOf[ranked[i]] = KeyOf[ranked[j]] => i = j

\* An output as normalize_judgment parses it: a decision (OTHER is a word it
\* does not know) with the key, the document's id and the document decision.
Output(decision, key, documentDecision, document, confidence) ==
    [decision |-> decision, key |-> key, documentDecision |-> documentDecision,
     document |-> document, confidence |-> confidence]

Keys(shown) == {KeyOf[s] : s \in shown.subproblems}

\* QuestionJudgeClient hands the model's text on as it is.
OpenAiOutputs(shown) ==
    {Output(d, k, dd, v, "SURE") :
        d \in Decisions \cup {"OTHER"}, k \in Keys(shown) \cup {NoId, UnknownId},
        dd \in {"MATCHED", "NONE", "SUBPROBLEM_DOCUMENT"},
        v \in shown.documents \cup {NoId, UnknownId}}

\* _normalized_output of JevJudgeClient: a choice among the presented keys or
\* none of them, and a confidence, which SURE is JEV_THRESHOLD or more. NaN
\* compares false with everything.
Confidences == {"MISSING", "NAN", "LOW", "SURE"}
JevOutput(choice, confidence, presented) ==
    IF confidence = "MISSING" \/ choice \notin presented \cup {NoId}
      THEN IF choice # NoId THEN Output("CONNECT", choice, "NONE", NoId, confidence)
                            ELSE Output("OTHER", NoId, "NONE", NoId, confidence)
    ELSE IF confidence = "LOW" THEN Output("UNCLASSIFIED", NoId, "NONE", NoId, confidence)
    ELSE IF choice = NoId THEN Output("SEPARATE", NoId, "NONE", NoId, confidence)
    ELSE Output("CONNECT", choice, "NONE", NoId, confidence)

JevOutputs(shown) ==
    {JevOutput(choice, confidence, Keys(shown)) :
        choice \in Keys(shown) \cup {NoId, UnknownId}, confidence \in Confidences}

JudgeOutputs(judge, shown) ==
    IF judge = "OPENAI" THEN OpenAiOutputs(shown) ELSE JevOutputs(shown)

-----------------------------------------------------------------------------

NoAttribution == <<"NONE", 0>>

\* The judgment of a turn. NOT_JUDGED is a turn without a row.
Judged(decision, subproblem, attribution, confidence) ==
    [decision |-> decision, subproblem |-> subproblem, attribution |-> attribution,
     confidence |-> confidence]
NotJudged == Judged("NOT_JUDGED", NoId, NoAttribution, "SURE")

\* failed_turn_judgment
JudgmentFailed == Judged("UNCLASSIFIED", NoId, NoAttribution, "SURE")

\* _separate_document: only a document that was shown counts.
SeparateDocument(output, shown) ==
    IF output.documentDecision = "MATCHED" /\ output.document \in shown.documents
      THEN <<"DOCUMENT", output.document>> ELSE NoAttribution

\* normalize_judgment and build_turn_judgment: a connection is the subproblem
\* that was shown under the key, whatever the output says about documents.
Normalize(output, shown) ==
    IF output.decision = "CONNECT" /\ output.key \in Keys(shown)
      THEN LET s == CHOOSE t \in shown.subproblems : KeyOf[t] = output.key
           IN Judged("CONNECT", s, <<"SUBPROBLEM", s>>, output.confidence)
    ELSE IF output.decision \in Decisions \ {"CONNECT"}
      THEN Judged(output.decision, NoId, SeparateDocument(output, shown), output.confidence)
    ELSE JudgmentFailed

\* A slip: the document of the first citation.
FirstCited(cited) == VersionOf[cited[1]]

\* most_cited_document_source_id: of the cited chunks' documents the one cited
\* most, of several the one cited first.
MostCited(cited) ==
    LET documents == [i \in DOMAIN cited |-> VersionOf[cited[i]]]
        times(v) == Cardinality({i \in DOMAIN documents : documents[i] = v})
        first(v) == CHOOSE i \in DOMAIN documents :
                        documents[i] = v /\ \A j \in 1..(i - 1) : documents[j] # v
    IN CHOOSE v \in ToSet(documents) :
          \A w \in ToSet(documents) \ {v} :
             \/ times(v) > times(w)
             \/ times(v) = times(w) /\ first(v) < first(w)

\* finalize_attribution: a question that was not connected is counted for what
\* its answer cites.
Finalized(judged, cited) ==
    IF judged.decision \in {"NOT_JUDGED", "CONNECT"} \/ cited = <<>>
      THEN judged
      ELSE [judged EXCEPT !.attribution = <<"CITATION", MostCited(cited)>>]

=============================================================================
