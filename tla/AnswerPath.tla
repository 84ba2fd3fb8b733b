----------------------------- MODULE AnswerPath -----------------------------
(***************************************************************************)
(* One turn of ChatService from its question to what is sent and logged:   *)
(* the caches, the rewrite, the search, the judgment, the plan, the draft, *)
(* its check, and the record. ChatTurn has the turn's row and its rivals,  *)
(* QuestionGrouping the cache gate; here is what the answer is made of.    *)
(***************************************************************************)
EXTENDS QueryRewrite, Judgment, Generation, CanonicalCitations

VARIABLES
    pc, attempt,    \* the step of _run_turn, and the attempts of its model call
    similar,        \* whether the turn is judged, which the profile decides
    question,       \* what is asked, until it was searched
    query,          \* its QueryResolution; a first turn's is itself
    retrieval,      \* search.retrieval_query
    embedded,       \* whose embedding the search made: of the RESOLVED text, or CANNED
    found,          \* <<bm25, vector>> of HybridSearchCall
    evidence,       \* fused_results
    related,        \* what the retrieval rows of the log point to
    judged,         \* the turn's judgment row
    plan,           \* GenerationSourcePlan
    redone,         \* why the answer was written again, if it was
    markers,        \* of the draft that was accepted
    log,            \* rag_runs and answer_citations
    sent            \* ChatResponse

searching == <<question, query, retrieval, embedded, found>>
writing == <<plan, redone, markers>>
ending == <<log, sent>>
vars == <<pc, attempt, similar, searching, evidence, related, judged, writing, ending>>

NoFind == <<<<>>, <<>>>>
Entry(status, reason, cited) == [status |-> status, reason |-> reason, cited |-> cited]
Open == Entry("PROCESSING", "NONE", <<>>)
Response(status, reason, citations, sections) ==
    [status |-> status, reason |-> reason, citations |-> citations, sections |-> sections]
Nothing == Response("NONE", "NONE", <<>>, <<>>)
Failed(code) == Response("ERROR", code, <<>>, <<>>)

\* A row of answer_citations, and what the poll makes of it.
Cited(c) == [chunk |-> c, version |-> VersionOf[c], path |-> Joined(PathOf[c])]
Restored(row) == <<row.version, Split(row.path)>>

\* get_rag_run_response, of the log as it is
Polled ==
    CASE log.status = "COMPLETED" ->
           Response("COMPLETED", "NONE",
                    [n \in DOMAIN log.cited |-> Restored(log.cited[n])], <<>>)
      [] log.status = "WITHHELD" ->
           Response("WITHHELD", log.reason, <<>>, IF log.reason \in Guiding THEN related ELSE <<>>)
      [] OTHER -> Response(log.status, log.reason, <<>>, <<>>)

Init ==
    /\ pc = "START" /\ attempt = 1
    /\ similar \in BOOLEAN
    /\ question \in Question /\ query \in {NewTopic(question), Unresolved}
    /\ retrieval = <<>> /\ embedded = "NONE"
    /\ found = NoFind /\ evidence = <<>> /\ related = <<>>
    /\ judged = NotJudged
    /\ plan = NoPlan /\ redone = "NO" /\ markers = <<>>
    /\ log = Open /\ sent = Nothing

-----------------------------------------------------------------------------
(* Endings *)

\* The record that a response waits for: when it cannot be written the client
\* is told of an error, and so is the log if _fail_quietly can write that.
Record(entry, response) ==
    /\ pc' = "DONE" /\ attempt' = 1
    /\ \/ log' = entry /\ sent' = response
       \/ /\ log' \in {Entry("ERROR", "INTERNAL_ERROR", <<>>), Open}
          /\ sent' = Failed("INTERNAL_ERROR")

Fail(code) == Record(Entry("ERROR", code, <<>>), Failed(code))

Withhold(reason) ==
    Record(Entry("WITHHELD", reason, <<>>),
           Response("WITHHELD", reason, <<>>,
                    IF reason \in Guiding THEN RelatedSections(evidence) ELSE <<>>))

\* An approved answer is sent instead of a new one, if the gate lets it pass and
\* finds its citations, which go through their rows before they are sent. When it
\* cannot be recorded the turn goes on without the cache (record_serve_failure).
Serve(next) ==
    \/ \E answer \in {a \in Approved : Resolvable(a)} :
          LET chunks == ServedCitations(answer) IN
          /\ log' = Entry("COMPLETED", "CACHED", [n \in DOMAIN chunks |-> Cited(chunks[n])])
          /\ sent' = Response("COMPLETED", "NONE",
                              [n \in DOMAIN chunks |-> Restored(Cited(chunks[n]))], <<>>)
          /\ pc' = "DONE"
    \/ pc' = next /\ UNCHANGED ending

-----------------------------------------------------------------------------
(* Before the search *)

\* resolve_query: a first turn is searched as it is asked.
ToResolve == IF query = Unresolved THEN "REWRITE" ELSE "SEARCH"

\* No exact cache, or no approved question that is the same as this one.
NoExactMatch ==
    /\ pc = "START"
    /\ pc' = ToResolve
    /\ UNCHANGED <<attempt, similar, searching, evidence, related, judged, writing, ending>>

\* The judgment of the approved question is this turn's, whether the gate
\* serves its answer or not: nothing is judged again.
ExactMatch ==
    /\ pc = "START"
    /\ \E s \in Subproblem : judged' = Judged("CONNECT", s, <<"SUBPROBLEM", s>>, "SURE")
    /\ similar' = FALSE
    /\ Serve(ToResolve)
    /\ UNCHANGED <<attempt, searching, evidence, related, writing>>

\* _record_query_rewrite and what _resolve_follow_up makes of it
Settle(resolution) ==
    IF resolution.decision = "FOLLOW_UP_UNRESOLVED"
      THEN query' = resolution /\ Withhold("AMBIGUOUS_QUESTION")
      ELSE \/ /\ query' = resolution /\ pc' = "SEARCH" /\ attempt' = 1
              /\ UNCHANGED ending
           \/ /\ pc' = "DONE" /\ attempt' = 1 /\ sent' = Failed("INTERNAL_ERROR")
              /\ log' \in {Entry("ERROR", "INTERNAL_ERROR", <<>>), Open}
              /\ UNCHANGED query

\* An output that breaks a rule or was cut at its limit, and a transient error,
\* are worth a second attempt.
RewriteAgain ==
    /\ pc = "REWRITE" /\ attempt = 1 /\ attempt' = 2
    /\ UNCHANGED <<pc, similar, searching, evidence, related, judged, writing, ending>>

\* An attempt of QueryRewriteService.rewrite that is its last: it succeeds, it is
\* the second one, or it fails in a way that is not worth another.
Rewrite ==
    /\ pc = "REWRITE"
    /\ \/ /\ \E output \in {o \in Outputs : Acceptable(o)} : Settle(Resolve(question, output))
       \/ /\ attempt = 2
          /\ \/ Settle(Unresolved)
             \/ Fail("UPSTREAM_ERROR") /\ UNCHANGED query
       \/ /\ \E code \in {"UPSTREAM_ERROR", "INTERNAL_ERROR"} : Fail(code)
          /\ UNCHANGED query
    /\ UNCHANGED <<similar, question, retrieval, embedded, found, evidence, related, judged, writing>>

-----------------------------------------------------------------------------
(* Search and judgment *)

\* search_with_trace up to the embedding: both retrievers get the expanded text.
Expand ==
    /\ pc = "SEARCH"
    /\ retrieval' = Expanded(query.text)
    /\ pc' = "EMBED"
    /\ UNCHANGED <<attempt, similar, question, query, embedded, found, evidence, related, judged,
                   writing, ending>>

\* An attempt of the query's embedding fails in a way that is worth another.
EmbedAgain ==
    /\ pc = "EMBED" /\ attempt < 3 /\ attempt' = attempt + 1
    /\ UNCHANGED <<pc, similar, searching, evidence, related, judged, writing, ending>>

\* _search_error_code: only a transient failure of the embedding is upstream's.
SearchFails ==
    /\ pc \in {"SEARCH", "EMBED"}
    /\ \/ attempt = 3 /\ Fail("UPSTREAM_ERROR")
       \/ Fail("INTERNAL_ERROR")
    /\ UNCHANGED <<similar, searching, evidence, related, judged, writing>>

\* search_with_trace. Of the texts the turn still compares the searched one with
\* the resolved one, of which the judge's candidates are.
Search ==
    /\ pc = "EMBED"
    /\ found' \in Found
    /\ evidence' = Fused(found'[1], found'[2])
    /\ embedded' = (IF retrieval = query.text THEN "RESOLVED" ELSE "CANNED")
    /\ question' = <<>> /\ query' = Unresolved /\ retrieval' = <<>>
    /\ pc' = "FOUND" /\ attempt' = 1
    /\ UNCHANGED <<similar, related, judged, writing, ending>>

\* _record_retrieval_results, before the call that is checkpointed with it
RecordRetrieval ==
    /\ related' = PolledRelated(found[1], found[2])
    /\ found' = NoFind /\ embedded' = "NONE"

NotJudging ==
    /\ pc = "FOUND" /\ ~similar
    /\ RecordRetrieval
    /\ pc' = "PLAN"
    /\ UNCHANGED <<attempt, similar, question, query, retrieval, evidence, judged, writing, ending>>

\* resolve_question_vector: the search's own vector, if it is of the resolved text ...
ReuseVector ==
    /\ pc = "FOUND" /\ similar
    /\ pc' = (IF embedded = "RESOLVED" THEN "JUDGE" ELSE "VECTOR")
    /\ UNCHANGED <<attempt, similar, searching, evidence, related, judged, writing, ending>>

\* ... and else a new one, which takes up to three attempts.
Vector ==
    /\ pc = "VECTOR"
    /\ \/ pc' = "JUDGE" /\ embedded' = "RESOLVED" /\ attempt' = 1
       \/ attempt < 3 /\ attempt' = attempt + 1 /\ UNCHANGED <<pc, embedded>>
    /\ UNCHANGED <<similar, question, query, retrieval, found, evidence, related, judged, writing,
                   ending>>

\* A judgment that cannot be prepared or made is recorded as such, and the
\* answer is written without it.
JudgmentFails ==
    /\ pc \in {"VECTOR", "JUDGE"}
    /\ judged' = JudgmentFailed
    /\ RecordRetrieval
    /\ pc' = "PLAN" /\ attempt' = 1
    /\ UNCHANGED <<similar, question, query, retrieval, evidence, writing, ending>>

\* Judgments that one output of the judge can lead to, for any ranking of the
\* subproblems that does not show two of them under one key.
Judgments ==
    LET shownTo(similarity) ==
            Presentation(ToSet(RankSubproblems(similarity)),
                         ToSet(RankDocuments(found[1], found[2])))
        presentable == {similarity \in [Subproblem -> 1..2] :
                            Presentable(RankSubproblems(similarity))}
    IN {[shown |-> shownTo(s), outputs |-> UNION {JudgeOutputs(judge, shownTo(s)) : judge \in Judges}] :
            s \in presentable}

JudgeAgain ==
    /\ pc = "JUDGE" /\ attempt = 1 /\ attempt' = 2
    /\ UNCHANGED <<pc, similar, searching, evidence, related, judged, writing, ending>>

\* record_judgment_and_gate: an approved answer of the subproblem may be served.
Judge ==
    /\ pc = "JUDGE"
    /\ \E j \in Judgments : \E output \in j.outputs : judged' = Normalize(output, j.shown)
    /\ RecordRetrieval
    /\ attempt' = 1
    /\ \/ judged'.decision = "CONNECT" /\ Serve("PLAN")
       \/ pc' = "PLAN" /\ UNCHANGED ending
    /\ UNCHANGED <<similar, question, query, retrieval, evidence, writing>>

-----------------------------------------------------------------------------
(* Generation *)

\* _parse_with_retry: a transient error is worth one more attempt.
ModelAgain ==
    /\ pc \in {"PLAN", "REPAIR", "WRITE"} /\ attempt = 1 /\ attempt' = 2
    /\ UNCHANGED <<pc, similar, searching, evidence, related, judged, writing, ending>>

\* A plan that does not fit its schema is asked for once more, with attempts of
\* its own.
RepairPlan ==
    /\ pc = "PLAN" /\ pc' = "REPAIR" /\ attempt' = 1
    /\ UNCHANGED <<similar, searching, evidence, related, judged, writing, ending>>

ModelFails ==
    /\ pc \in {"PLAN", "REPAIR", "WRITE"}
    /\ \/ attempt = 2 /\ Fail("UPSTREAM_ERROR")
       \/ Fail("INTERNAL_ERROR")
    /\ UNCHANGED <<similar, searching, evidence, related, judged, writing>>

PlanWithholds ==
    /\ pc \in {"PLAN", "REPAIR"}
    /\ \E reason \in WithheldReasons : Withhold(reason)
    /\ UNCHANGED <<similar, searching, evidence, related, judged, writing>>

\* select_required_sources: a plan that names a source that is not there is an
\* error of the call.
PlanAnswers ==
    /\ pc \in {"PLAN", "REPAIR"}
    /\ \E p \in Plans :
          \/ /\ Selectable(p, evidence)
             /\ plan' = p /\ pc' = "WRITE" /\ attempt' = 1
             /\ UNCHANGED ending
          \/ ~Selectable(p, evidence) /\ Fail("INTERNAL_ERROR") /\ UNCHANGED plan
    /\ UNCHANGED <<similar, searching, evidence, related, judged, redone, markers>>

\* regenerate_answer_with_trace: the same plan and sources, once.
WriteAgain(why) ==
    /\ redone = "NO" /\ redone' = why
    /\ attempt' = 1
    /\ UNCHANGED <<pc, judged, markers, ending>>

\* A draft without an answer, by the writer's reason, unless the plan had found
\* the evidence: then only a second one counts, as UNVERIFIABLE_ANSWER.
DraftWithholds(draft) ==
    /\ draft.status = "WITHHELD"
    /\ \/ Contradicts(draft, plan) /\ WriteAgain("CONTRADICTED")
       \/ /\ ~Contradicts(draft, plan) \/ redone # "NO"
          /\ Withhold(IF redone = "CONTRADICTED" THEN "UNVERIFIABLE_ANSWER" ELSE draft.reason)
          /\ UNCHANGED <<judged, redone, markers>>

\* What can be verified is the answer: _finish_rag_run, with the attribution.
DraftAnswers(draft) ==
    LET chunks == Citations(draft.markers, evidence) IN
    /\ draft.status = "ANSWERABLE" /\ Verifiable(draft, plan, evidence)
    /\ markers' = draft.markers
    /\ Record(Entry("COMPLETED", "WRITTEN", [n \in DOMAIN chunks |-> Cited(chunks[n])]),
              Response("COMPLETED", "NONE", [n \in DOMAIN chunks |-> Section(chunks[n])], <<>>))
    /\ judged' = IF log'.status = "COMPLETED" THEN Finalized(judged, chunks) ELSE judged
    /\ UNCHANGED redone

DraftIsRefused(draft) ==
    /\ draft.status = "ANSWERABLE" /\ ~Verifiable(draft, plan, evidence)
    /\ \/ WriteAgain("UNVERIFIABLE")
       \/ /\ redone # "NO" /\ Withhold("UNVERIFIABLE_ANSWER")
          /\ UNCHANGED <<judged, redone, markers>>

Write ==
    /\ pc = "WRITE"
    /\ \E draft \in Drafts :
          DraftWithholds(draft) \/ DraftAnswers(draft) \/ DraftIsRefused(draft)
    /\ UNCHANGED <<similar, searching, evidence, related, plan>>

Next ==
    \/ NoExactMatch \/ ExactMatch \/ RewriteAgain \/ Rewrite
    \/ Expand \/ EmbedAgain \/ SearchFails \/ Search
    \/ NotJudging \/ ReuseVector \/ Vector \/ JudgmentFails \/ JudgeAgain \/ Judge
    \/ ModelAgain \/ RepairPlan \/ ModelFails \/ PlanWithholds \/ PlanAnswers \/ Write

Spec == Init /\ [][Next]_vars

-----------------------------------------------------------------------------
(* Properties *)

\* The text that is kept of a resolved question fits the next question's
\* QueryRewriteCandidateTurn, which takes no empty text and none beyond
\* MAX_QUERY_LENGTH: a longer one would fail every follow-up after it.
CanBeFollowed ==
    pc \in {"SEARCH", "EMBED"} => Len(query.text) \in 1..MaxQuery

\* What is searched is what was asked. Without a turn to refer to it is the
\* question itself. With one, it is that turn's question and this one after it,
\* or a text that the model wrote around a phrase of that turn, and for "that
\* button" then one in which the turn's question stands, unless there is no room
\* for both questions. The retrievers get this text, or the canned one of a rule
\* that applies to it, and the judge compares the resolved text in any case. A
\* resolved question can be followed up.
SearchesWhatItSays ==
    /\ CanBeFollowed
    /\ pc \in {"SEARCH", "EMBED"} /\ query.turn = 0 => query.text = question
    /\ pc \in {"SEARCH", "EMBED"} /\ query.turn # 0 =>
          LET previous == Candidates[query.turn].query
              merged == previous \o Normalized(question)
              ofTheModel == \E text \in Written, phrase \in Named :
                               /\ OfTurn(phrase, query.turn) /\ Within(phrase, text)
                               /\ query.text = Normalized(text)
          IN /\ query.text = merged \/ ofTheModel
             /\ \/ ~HasUiReference(question)
                \/ Within(previous, query.text)
                \/ Len(merged) > MaxQuery
    /\ pc = "EMBED" =>
          \/ retrieval = query.text
          \/ \E i \in DOMAIN Expansions :
                Applies(Expansions[i], query.text) /\ retrieval = Expansions[i].text
    /\ pc = "JUDGE" => embedded = "RESOLVED"

\* A chunk that both retrievers found comes before each that only one found, a
\* chunk that neither ranks lower than another one comes before it, and the
\* judge sees the document of every chunk that can become evidence.
FusionIsRanked ==
    pc = "FOUND" =>
       LET fused == AllFused(found[1], found[2])
           rank(list, c) == IF RankIn(c, list) = 0 THEN CandidateK + 1 ELSE RankIn(c, list)
           both(c) == Contains(found[1], c) /\ Contains(found[2], c)
       IN /\ \A i, j \in DOMAIN fused :
                \/ both(fused[j]) /\ ~both(fused[i])
                \/ /\ rank(found[1], fused[j]) <= rank(found[1], fused[i])
                   /\ rank(found[2], fused[j]) <= rank(found[2], fused[i])
                   /\ \/ rank(found[1], fused[j]) < rank(found[1], fused[i])
                      \/ rank(found[2], fused[j]) < rank(found[2], fused[i])
                => j < i
          /\ \A i \in DOMAIN evidence :
                Contains(RankDocuments(found[1], found[2]), VersionOf[evidence[i]])

\* A written answer has citations, each of a source that the plan handed to the
\* writer, numbered without gaps, one for each section, and each number in its
\* text points to the section of the source that the writer named there. An
\* approved answer cites, in its own numbering, sections of the documents it was
\* approved with that still say the same, and the cited section itself if it is
\* still there.
CompletedIsGrounded ==
    /\ log.status = "COMPLETED" /\ log.reason = "WRITTEN" =>
          LET numbers == Numbers(markers, evidence)
              handed == {evidence[i] : i \in plan.sources}
          IN /\ log.cited # <<>>
             /\ \A n \in DOMAIN log.cited : log.cited[n].chunk \in handed
             /\ \A m, n \in DOMAIN log.cited :
                   Section(log.cited[m].chunk) = Section(log.cited[n].chunk) => m = n
             /\ ToSet(numbers) = DOMAIN log.cited
             /\ \A i \in DOMAIN markers :
                   Section(log.cited[numbers[i]].chunk) = Section(evidence[markers[i]])
    /\ log.status = "COMPLETED" /\ log.reason = "CACHED" =>
          \E answer \in Approved :
             /\ DOMAIN log.cited = DOMAIN answer /\ answer # <<>>
             /\ \A n \in DOMAIN answer :
                   LET c == log.cited[n].chunk IN
                   /\ SourceOf[log.cited[n].version] = SourceOf[answer[n].version]
                   /\ SourceOf[answer[n].version] \notin Off
                   /\ ContentOf[c] = answer[n].content
                   /\ \A d \in Chunk :
                         /\ VersionOf[d] = VersionOf[c] /\ ContentOf[d] = ContentOf[c]
                         /\ IdentityOf[d] = answer[n].identity /\ answer[n].identity # 0
                         => IdentityOf[c] = answer[n].identity

\* What is sent is what the result can be fetched as afterwards, as long as no
\* heading holds the separator; after an error the log shows an error, or a turn
\* that the next question of its conversation will find open and close.
PolledIsSent ==
    pc = "DONE" =>
       \/ sent.status = "ERROR" /\ Polled.status \in {"ERROR", "PROCESSING"}
       \/ /\ sent.status = Polled.status /\ sent.reason = Polled.reason
          /\ sent.sections = Polled.sections
          /\ Len(sent.citations) = Len(Polled.citations)
          /\ \A n \in DOMAIN sent.citations :
                Plain(sent.citations[n][2]) => sent.citations[n] = Polled.citations[n]

\* What a question is counted for: the subproblem it was connected to; else the
\* document that its answer cites most, of several the one cited first; else a
\* document that the search found, which only the judge can have named.
AttributionFollowsEvidence ==
    LET cited == [n \in DOMAIN log.cited |-> log.cited[n].version]
        times(v) == Cardinality({n \in DOMAIN cited : cited[n] = v})
        byAnswer == log.status = "COMPLETED" /\ judged.decision \notin {"CONNECT", "NOT_JUDGED"}
        kind == judged.attribution[1]
        target == judged.attribution[2]
    IN /\ judged.decision = "CONNECT" <=> kind = "SUBPROBLEM"
       /\ kind = "SUBPROBLEM" => target = judged.subproblem /\ target \in Subproblem
       /\ byAnswer <=> kind = "CITATION"
       /\ kind = "CITATION" =>
             \E n \in DOMAIN cited :
                /\ cited[n] = target
                /\ \A m \in DOMAIN cited : times(cited[m]) <= times(target)
                /\ \A m \in 1..(n - 1) : times(cited[m]) < times(target)
       /\ kind = "DOCUMENT" => target \in {VersionOf[c] : c \in Chunk}

=============================================================================
