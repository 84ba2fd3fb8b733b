# TLA+ models of riido-chat-backend

The backend answers questions about the documents of a *document group*. An
operator uploads documents or recollects a GitBook in the console, builds a
search index from them and applies it; end users ask questions in
conversations, which are answered by retrieval and generation, or from an
approved canonical answer. Everything durable is in PostgreSQL; the corpus that
searches run on and the tasks that carry jobs and turns are in the memory of a
process. Operators publish revisions of a service's profile, seed and stop canonical answers,
and measure offline what another judge would have decided.

Paths below are relative to `src/`.

## 1. Inventory

| Component | State | Operations | Talks to |
|---|---|---|---|
| Job gate (`app/document/job_gate.py`) | none of its own: an advisory lock per group and the open rows of two tables | `acquire_group_job_gate`, `load_running_job` | entered by every acceptance |
| Document ingestion (`app/document/ingestion_service.py`, `ingestion.py`, `document_store.py`) | `document_sources`, `document_versions`, `ingestion_runs`, embedding `model_calls` | accept an upload or a revision; a worker that goes RECEIVING, NORMALIZING, PARSING, CHUNKING, EMBEDDING, PERSISTING; complete; fail | gate, embedding API |
| GitBook recollection (`recollect.py`, `recollect_service.py`) | a batch of runs, REMOVED runs, `document_sources.enabled` | accept a listing; take the pages one after the other | gate, GitBook |
| Startup recovery (`stale_runs.py`, `app/main.py`) | none | close what a dead process left PROCESSING; load the corpus | all job tables, registry |
| Index build and apply (`app/indexing/index_*.py`) | `index_versions`, `index_documents`, `index_runs`, `model_calls` | accept; load; embed; store; number; apply; publish; fail; the same from the command line | gate, embedding API, registry |
| Corpus registry and reload (`app/retrieval/corpus_state.py`, `app/api/internal.py`) | one (corpus, index id) pair per group and process | replace; read; reload endpoint | index apply, startup, search |
| Chat turn (`app/chat/service.py`, `log_store.py`, `app/answering/use_case.py`) | `conversations`, `rag_runs`, `model_calls`, the task of a turn | start; rewrite; search; judge; generate; record; fail; cancel; recover | LLM, registry, grouping |
| Delivery (`app/chat/router.py`, `stream.py`, `rag_run.py`, `rag_run_view.py`, `feedback.py`) | the task of a request, an event queue, `feedbacks` | plain answer, SSE stream, disconnect, poll, rate | chat turn |
| What a turn decides (`query_rewrite.py`, `app/retrieval/`, `app/answering/`, `app/question_grouping/decision.py` and others) | none | computations around the external calls: accept and resolve a rewrite, fuse rankings, normalize a judgment, plan, write and check an answer | chat turn |
| Cache gate and classification (`app/question_grouping/`) | `question_subproblems`, `canonical_answers` with their citations, `question_classifications`, `question_cache_attempts` | find the same question in the log; judge against the catalog; gate; record; serve; attribute citations | inside a chat turn; LLM |
| Question seeding (`app/ops/seed_question_grouping.py`) | the first two of these tables | plan under an advisory lock; write in one transaction | operators; embedding API |
| Profiles (`app/profiles/`, `app/chat/profile.py`, three migrations) | `chat_profiles`, revisions DRAFT to RETIRED with their component rows, triggers that lock them | create, test, publish, roll back, delete; migrate up and down; readiness of a deployment | each turn reads the PUBLISHED revision of its service |
| Offline evaluation of the cache path (`evaluation/core`, `evaluation/cache_path_eval`) | files: state, checkpoints, result and failure of a run; state and record of a plan | reserve, execute turn by turn, finalize, fail; prepare once for several child runs; compare | the cache path of a turn, stopped before generation |
| Console reads, schemas, parsing, other scripts and evaluations | see `PROJECT.json` | | |

What is hard in them:

- **Several transactions per job.** A job commits after every stage and calls
  an external service between two commits. What it checked early (the body is no
  duplicate, the document is the newest) must still hold when it writes.
- **Nothing but the database survives.** A process dies between any two commits;
  its successor sees rows that say PROCESSING and has to decide about them, while
  (with several processes) the owner of such a row may be alive.
- **What is cached.** A SQLAlchemy session here does not expire objects at a
  commit (`app/database/session.py:33`). Whether a locking `session.get` sees
  another transaction's write depends on whether the session still *holds* the
  object. The ingestion worker keeps no reference to its run between two commits,
  so it reads the row again; `run_index_job` keeps `run` and `index_version` in
  local variables for its whole life, so it does not. The two models differ there.
- **Publication after commit.** The switch of an index is a commit, its effect
  on searches is an assignment in one process.
- **Cached decisions.** A canonical answer is served on a judgment that may be weeks
  old, after reads that are separate statements of a READ COMMITTED transaction, while
  operators seed, stop and archive without any lock that turns respect. Its citations
  name sections of an index that is not there any more.
- **Turns race their own recovery.** A turn older than ten minutes is closed by
  the next question although its task may still be alive; clients disconnect at any
  moment, also during a commit, and read from the log afterwards what they missed.
- **Whatever a model says.** Every answer of a language model that its schema admits is
  possible. What a turn does with it must stay within what was found and was asked.
- **Two ways to the same tables.** The console changes a profile revision under a lock, an
  operator's statement or a migration meets only the triggers and indexes.
- **Files without transactions.** An evaluation writes its files one after the other; a
  signal, a full disk or a kill can fall between any two.

What makes each correct is the list of properties in section 4; `PROJECT.json`
lists the hazards with the line where each bites and the properties aimed at it.

## 2. Modules

| Module | Models | Grain |
|---|---|---|
| `DocumentIngestion` | gate, upload, revision, recollection, worker, startup pass of one group | one action per committed transaction or per answer of an external service |
| `DocumentIngestion_proofs` | theorems about it | |
| `ServedIndex` | abstract: what search uses changes only as a whole, and each time to what the documents are at that moment | |
| `IndexPipeline` | acceptance, worker, registry, reload, startup pass, command line of one group; implements `ServedIndex` | as `DocumentIngestion` |
| `ChatTurn` | conversations and turns, their tasks, cancellation, recovery, expiry | the same |
| `TurnStream` | `ChatTurn` composed with the two answer routes, the event queue, polling and feedback | the same, and one action per event that is sent |
| `QueryRewrite` | what the rewrite model may return, what is accepted of it, the text it resolves to, the canned texts that are searched in its place | operators |
| `Retrieval` | rank fusion, document ranking, evidence, related sections, what of them the log keeps | operators |
| `CanonicalCitations` | where the citations of an approved answer are in the index of the turn | operators |
| `Judgment` | candidates shown to the judge, both judge clients, normalization, attribution | operators |
| `Generation` | plan, draft, the citation check, reasons to withhold | operators |
| `AnswerPath` | composes these five into what one turn decides, writes and sends | one action per attempt of a model call or per decision |
| `QuestionGrouping` | seeds, operators, and the path of one question through exact cache, judgment, gate and recording | one action per committed transaction or per read that another commit can separate |
| `ProfileRevisions` | console, statements by hand, migrations, deployments, turns | one action per transaction; a transition of the console is two (what it read, what it writes) |
| `CacheProbe` | what the offline evaluation measures of a turn: alone, prepared by a plan, as a child of it | operators |
| `EvaluationRuns` | runs and plans of several evaluators over one directory | one action per file that is written |
| `TurnStream_proofs` | theorems about `ChatTurn` and its composition `TurnStream` (section 5) | |
| `AnswerPath_proofs`, `IndexPipeline_proofs`, `ProfileRevisions_proofs`, `QuestionGrouping_proofs`, `EvaluationRuns_proofs` | theorems about the module each is named after (section 5) | |
| `DataLemmas` | lemmas about numbers, finite sets and sequences that the proofs share: the maximum, induction, sorting, folding | |
| `MC...` | symmetry sets and data for TLC | |

How the state corresponds to the code:

- `DocumentIngestion`: `source` is `document_sources` (ABSENT, or the value of
  `enabled`), `versions` the READY `document_versions` of a source, oldest
  first, each the hash of its body; `run` is `ingestion_runs` (`batch` are the runs
  accepted together); `call` the embedding row of a run. `worker` is the
  background task: its `pc` is the stage it committed last or the call it is in.
  `stale` are the ids the startup pass has selected and not yet updated.
  Documents of different groups never meet, so the module is one group.
- `IndexPipeline`: `index` is `index_versions` with the `index_documents` it
  refers to (the version of each document), `run` is `index_runs`; both are created
  together and share an id here. `registry` is what `CorpusRegistry` holds in a process,
  `reload` what a reload request has read, `taken` what the command line has stored and not
  yet begun to index. `newest` and `enabled` are the
  documents, changed by ingestion while no index run is open: that is
  `DocumentIngestion!OneJobAtATime`, proved there and taken here as the guard of
  `DocumentChanges`. The command line does not pass the gate: `ShellTakes` and
  `ShellStarts` have no such guard, and from then on its run takes the steps of a worker.
- `ChatTurn`: `conv` is `conversations.status`, `idle` the ones whose last activity
  is a day old, `run` is `rag_runs` with its `turn_no` and the turns named in
  `context_snapshot`, `old` the runs past `RAG_RUN_STALE_AFTER`, `call` the model
  calls by purpose (CLOSED is SUCCESS or FAILED), `worker` the task, `reply` what the client received, `told` the
  conversations whose client was answered that they are over. Every commit of a turn may be applied and yet be reported as
  failed (`Reported`); what the task then does depends on where it was. An exception of the generation phase is handled around its result (RAISED, and RAISED_JUDGED if the
  judgment has recorded the retrieval), where only the calls are closed whose ids the turn holds (`RecordRaised`); any other one goes to
  the outer handler, which closes all (FAILING, `FailQuietly`).
- `TurnStream` adds `http` (which response a request has got), `queue` (the `asyncio.Queue` of
  `produce_turn`), `wire` (the events the client has received), `rating` (`feedbacks`, with
  `updated_at` modulo 2: whether it was changed) and `rater` (a request between its
  locking read and its write). `Produce` takes the steps of `ChatTurn` and puts the events
  that go with them in the same step, since `queue.put` on an unbounded queue never waits.
  `unrecorded` remembers turns whose ending nobody could write down.
- `AnswerPath`: `pc` is the stage of `AnswerQuestion.execute`, `attempt` the retry counter of the
  call it is in; `question`, `query`, `retrieval` and `found` are the text asked, its resolution, the text the retrievers get and
  the two rankings, `embedded` whether the search embedded the resolved text or a canned one, `evidence` what was selected, `related` what the log keeps of it,
  `judged` the classification of the turn, `plan` and `markers` those of generation, `redone` why the
  answer is written a second time, `log` the final row, `sent` the response. A text is a sequence of fragments (a word or a part of one, with the space after it), and
  `x in y` of the code is that `x` is a contiguous part of `y`. The references to the interface are replaced in the order of the code's table, each once,
  so that one may be left or made by another; the first rule of `expand_retrieval_query` that applies replaces the whole text. A chunk is a number with a document and a path.
- `QuestionGrouping`: `sub` is `question_subproblems` with the `enabled` of its document,
  `canon` is `canonical_answers`, `rows` is `question_classifications` each with its
  `question_cache_attempts` row, oldest first, `seed` the plan of the seed that holds
  the advisory lock, `turn` the task of a turn: the claim it wants to connect on (`basis`
  JUDGED, or a logged row whose presented answer is known, SEEN, or not, UNSEEN) and what
  the gate has read so far. A row's `born` stands for comparing `effective_from` with
  `created_at`. `live` is a history variable: which answers could have been served as a
  whole at some moment of the turn. All turns ask the same question, so the hash lookup
  is the set of rows of other first turns.
- `ProfileRevisions`: `rev` and `rows` are `chat_profile_revisions` and
  `profile_revision_components` (one setting per stage; the four stages of generation that are always written
  together are two here), `hold` what a transition has read under the lock of the profile,
  `registry` the settings the deployed code knows, `split` whether migration 20 is applied,
  `conv` and `turn` the columns that name a revision. `tested` is a history variable.
- `EvaluationRuns`: each file of the registry is a variable (`runState`, `saved`, `result`,
  `failure`, `planState`, `record`), written by the step that writes the file; `proc` is
  an evaluator. `data` is what the turns of the selection would meet, fixed at the start,
  so that two runs measure the same.

Bodies, questions, answers, chunks and vectors are abstracted to what the
properties tell apart. An external call has every outcome.
Definitions whose comment begins with "A slip" are not part of `Next`: each is a
plausible mistake in the definition that follows it, and `PROJECT.json` ("mutants")
names the property that detects it.

## 3. Runs

`tlc -config <cfg> <module>`; the bounds are in the `.cfg` files. Deadlock is not
checked in any run: runs, indexes, turns and revisions come from finite sets, and a system
that has used them up, with no request pending, rightly stops.

| Run | Instance | States | Question |
|---|---|---|---|
| `ingestion_single` | 1 process, 2 console documents, 2 pages, 2 bodies, 4 runs, 1 crash, outages | 401,808 | one process with a crash and outages, two console documents, two pages and four runs: jobs exclude each other and versions stay distinct, whatever the listing drops and brings back. |
| `ingestion_two_processes` | 2 processes, 2 uploads, 2 pages, 2 bodies, 2 runs, 2 crashes | 338,630 | two processes that crash and restart while the other works: a startup pass closes runs under a live worker, the worker then adds nothing, and every accepted run is closed. |
| `index_single` | 1 process, 2 documents, 3 indexes, 1 crash, reloads, outages | 314,975 | one process, two documents, three reindexes, a crash, reloads and outages: the served collection switches as a whole and only forward. |
| `index_two_processes` | 2 processes and a command line, 1 document, 2 indexes, 1 crash | 257,520 | two processes that crash and restart while the other builds: one ACTIVE index, and every accepted reindex is closed. |
| `index_reload_race` | 1 process, 2 indexes, reloads |  | **violated**: a reload that overlaps an apply puts the replaced index back into memory. |
| `chat_turns` | 2 conversations, 2 turns, 1 crash, losses | 1,750,902 | two conversations and two turns with a crash, a disconnect, stale recovery, lost endings and commits that are reported as failed: one open turn per conversation, outcomes are final, calls end with their turn but for an unconfirmed generation. |
| `chat_stream` | 1 conversation, an answered turn and one to deliver, 2 raters, 1 crash, losses | 124,922 | one turn on the SSE route or the plain route, with a reader that hangs up, failures at every step, polls, and two clients that rate the answer: the stream closes, tells the truth, and agrees with the log. |
| `grouping_cache` | 1 subproblem, 2 canonical answers, 2 turns, one of them a first turn, 3 changes by operators | 942,188 | a first turn and a later one race seeds, operators and document switches: log and answers agree, nothing stopped is served, and what was judged is what is served. |
| `grouping_shadow` | the same |  | **violated**: a seed that commits between two reads of the gate lets the exact path serve an answer that is in SHADOW. |
| `profile_revisions` | 3 revisions, 2 settings, 1 conversation, 1 turn, 1 statement by hand, 1 deployment, 2 migrations | 743,520 | three revisions of two services, an operator's script, statements by hand, migrations up and down and a deployment, while a conversation takes turns. |
| `answer_path` | 4 chunks, 3 subproblems, 2 judges, 7 questions, 2 earlier turns, 5 approved answers | 563,317 | a question from its rewrite to its answer over every output the models can give: the search is for what was resolved or for the canned text of it, a resolved question can be followed up, a completed answer cites what was found, and the log gives the same answer back. |
| `evaluation_runs` | 2 evaluators, 2 run ids, a plan, 2 turns, 2 faults | 1,602,405 | two evaluators, a plan of two runs and a single run of one of them, with two faults (failing writes, signals, kills, edited files). |

Why these bounds are enough to see the interesting cases. Ingestion: two
console documents are needed to collide on a body, two bodies for a version to
differ from the one before and for a document to return to an older body, two pages for a
batch in which one fails and one vanishes, and a fourth run for what follows a
batch of two and an upload. A crash leaves open runs behind; with two crashes a startup
pass is itself interrupted. Indexing: three indexes let a candidate be left over
READY, another be ACTIVE and a third replace both; two documents let one be
replaced while another is removed; a crash, a second process and a command line let three builders
meet at one switch. Chat: two turns of one conversation race each
other, two conversations show that they do not; `MaxRewriteTurns` 1 makes the limit bite. The stream has
one turn to deliver, with an answered one before it so that the delivered one may be a follow-up, and
two raters, since one cannot race itself.
Answer path: two references to one noun, of which a text may hold both ("said that button"), show a replacement that leaves another; texts of at
most three fragments let the two questions fit together or not; one canned text needs a phrase and one of several, the other two phrases. Four chunks give a section of two chunks, a heading that holds the separator, a document that must not
be linked to and one that is found by one search only; candidates of 2, evidence of 3 and
related sections of 2 each cut something off; three subproblems, two with one key, reach
the limit and the refusal to show a key twice; the approved answers have a citation of each
kind that `resolve_citation` tells apart. `RrfK` is the 60 of the code: with a small constant a chunk
found twice could lose, which `RetrievalAssumption` excludes as the code's constant does.
Grouping: a first turn can be the source of an exact match and the later one its user; two
answers let one replace the other; three changes are a seed, an approval and a second seed,
so that a replacement meets the reuse of an approved row. Two subproblems would only add
a second connection that the properties treat alike.
Profiles: three revisions are one served, one tested and one draft or retired; one statement by hand and one
deployment fall anywhere, also between the two steps of a transition; two migrations are up and down again.
Evaluation: a plan of two judges and another process that is started for the second run id; two turns, so that a fault
falls between checkpoints; two faults, so that the handling of one meets another. A result may be edited as soon as no evaluator works on its run, also between
the reference that a plan makes to it and the checkpoint that compares the file with it again (`PlanCheckpoint`).
The theorems of section 5 remove the bounds for every safety property of the passing runs. Only the liveness properties
(`EveryRunCloses`, `StreamCloses`, `EveryTurnEnds`) rest on the bounds alone.

### What the violated runs show

- **`index_reload_race`** (`ReloadInstallsActive`) - `reload_corpus` reads, then replaces; an apply between
  the two is undone in memory until the next apply, reload or restart.
- **`grouping_shadow`** (`ServedAnswersWereLive`) - `load_gate_inputs` reads the serving state and then the answer.
  A seed that replaces the answer and sets SHADOW, committed between the two, gives the
  exact path the old state with the new answer, and since that path hands the answer it has
  just read to the gate as the presented one, the gate compares it with itself.
  `README.md:138` says that in SHADOW only the attempt is recorded. It takes a logged
  row whose presented answer is not known, and an answer without applicability rules.
  `JudgedAnswersWereLive`, which does hold, shows that no other path is affected.

### What the models show besides

These follow from the modelled code and are not stated as properties, because they do
not hold, or because nothing in the repository says what should:

- `prepare_chunk_embeddings` promises that the outcome of an embedding call outlives a
  rollback (`app/document/ingestion.py:34-36`); its SUCCESS is only flushed into the
  transaction of the following stages. If one of these fails the row stays PROCESSING although its
  run is closed (`FinishedCall` in `DocumentIngestion`).
- With two processes the startup pass of one closes an index run of the other as FAILED, the
  worker's status checks read its own cached row, and `finish_apply_run` writes SUCCESS over
  it. `job_gate.py:4` speaks of several containers; the deployment files start one.
- `start_rag_run` marks a conversation EXPIRED and raises in the same transaction, which
  the caller rolls back: the refusal is right, the row stays ACTIVE (`AskIdle` in `ChatTurn`).
- The class comment of `ChatService` (`app/chat/service.py:439-441`) says that the result of a call is put into its row at the next
  checkpoint or at the final closing (`CallsEndWithTurn`, a theorem only where no commit is lost). An exception of the generation phase is recorded by `_record_turn`
  (`app/chat/service.py:930`), which closes the calls it is handed. If the commit of the generation checkpoint is applied but raises (the connection is
  lost before its answer), the turn knows of no generation call. On a turn without a judgment the embedding call, which that commit has closed, is closed a second time, which raises and
  leads to the outer handler, and that closes all. On a judged turn nothing is closed twice, ERROR is written, and the call stays PROCESSING for good.
  `OnlyUnconfirmedCallsStay` says that this is the only such case.
- `evaluation/baselines/mvp-quality-100-turns-report.md:114-115` says that the backend verifies that the final text has the phrase
  that the model named. It verifies the text as the model wrote it (`app/chat/query_rewrite.py:411`), and replaces references and joins the earlier question
  afterwards (415-420), so that the phrase "that button" becomes "button", and one taken from an answer may be gone. `SearchesWhatItSays` states what does hold of the final text.
- Statements by hand: publishing a revision while the console's transition to TESTING is between its
  read and its write makes the console retire what was just published, so `ServiceStaysUp`
  speaks of histories without such statements. Deleting a component row of a draft in the same gap leaves an incomplete revision in
  TESTING, although migration 21 says its row lock prevents this; turns then refuse to start.
  Revisions that migration 17 backfilled as RETIRED have no judge row and can never be restored.
- Evaluation: a signal or a kill right after a reservation leaves RUNNING and the run id is used
  up (`evaluation/core/run.py:60`). A signal after the last write of a success turns
  it into FINALIZATION_INCOMPLETE. A follow-up without an earlier turn raises in a
  run and is SKIPPED in a child; a rewrite that fails is FAILED in a run and SKIPPED in a child.
  `ChildrenMeasureAlike` names both as the code's own differences.
- A path whose heading holds " > " is split differently when it is polled, which
  `app/chat/rag_run_view.py:46-52` says of itself; `PolledIsSent` speaks of the other paths.

## 4. Properties

Each is stated with its comment in its module. Ingestion: `OneJobAtATime` (open runs come from one acceptance, none beside an
index run, one is worked on at a time), `NoDuplicateUpload`, `VersionsDiffer`,
`OpenRunsAreEnabled`, `VersionsComeFromOpenRuns`, `EveryRunCloses`.

Indexing: `OneActive`, `RegistryServesApplied`, `NumberedIndexIsFixed`,
`OnlyOpenRunsFinish` (one process), `ImplementsServedIndex` (the refinement, one process), `EveryRunCloses`.

Turns: `OpenTurnIsLast`, `OutcomeIsFinal`, `OnlyUnconfirmedCallsStay` (whoever ends a turn ends its calls, but for a generation whose checkpoint
was applied and reported as failed), `ContextIsAnswered`.

Delivery: `StreamIsLawful` (the run first, stages in order and once, one terminal event, which is last),
`EventsAreTrue` (an answer is sent only if the log has the same one; generation is announced only when it
runs), `FlipIsAFlip` (a rating changes its time exactly if it changes), `StreamCloses`, `EveryTurnEnds`.

What a turn decides: `SearchesWhatItSays` (whatever the rewrite model returns and the rules replace, the resolved text is the question, the question
after the earlier one, or a text written around a phrase of the earlier turn; one about "that button" has the earlier question with it if both fit; the retrievers get this
text or the canned one of a rule that applies to it, and the judge compares this text in any case; the resolved text is one that the next
follow-up accepts as a candidate, `CanBeFollowed`), `FusionIsRanked`, `CompletedIsGrounded`
(an answer cites what it was given, sections once, numbers without gaps; an approved one cites sections that still
say the same), `PolledIsSent`, `AttributionFollowsEvidence`.

Cache: `AnswerFitsDefinition` (whatever is seeded in whatever order, the approved answer
was written for the definition in force), `AttemptMatchesAnswer` (a turn was answered from
the cache exactly if its one attempt says so, with an answer of the connected subproblem
and version; also after a failed serving), `JudgedAnswersWereLive`
(the gate's separate reads never add up to an answer that could not be served at any
moment of the turn, if that answer was judged), `StoppedIsNotServed`.

Profiles: `TestedBeforeServed`, `TurnsAreExplained` (the log of a turn names a revision that still exists with the
rows the turn used), `TurnStaysInService`, `ServiceStaysUp`.

Evaluation: `RunsHaveOneOwner`, `LedgersTellTheTruth`, `ComparedWasMeasured`, `ChildrenMeasureAlike`, `NothingIsLeftOpen`.

**Fairness.** `WF(WorkerStep)` for every task of the service: asyncio schedules a live task until
it ends, and every external call has a timeout, so a task inside a call leaves it.
`WF(ProcessStep)` for every process: the container is started again
(`restart: unless-stopped` in `docker-compose.api.prod.yml`) and goes through its startup
pass. `WF(ReloadReplace)`: the second half of a request that runs. In `TurnStream`, `WF(Produce)` (the
task of a turn, held by `core/task_registry.py`) and `WF(Deliver)` (the response takes the next event,
or ends because its client is gone). Requests, clients, clocks,
crashes, outages and the start of a command line are owed nothing; once its index run is accepted the command line is a task like the
others, and a script that is killed is not modelled. The two runs that check `EveryRunCloses` exclude outages because
the code accepts their consequence: when a failure cannot be written down, or the
startup pass fails and the process serves anyway, the run stays open until the next
start. `EveryTurnEnds` counts a turn as done when its task is gone and its ending could
not be written (`unrecorded`): such a turn
is closed only by a later question of its conversation, which nobody has to ask. `StreamCloses` has no such exception.

## 5. What is proved

Every theorem holds for any number of processes, documents, turns, revisions, runs and so on, any number of crashes
and faults, and any bound that the instances of section 3 put on them. The assumptions are the named ones of each
module: the constants have their types, sets that play different parts are disjoint, `None` is no value, and where
something is counted the set is finite (`IndexAssumption` for the documents, `StreamAssumption`). Each module
follows one pattern: an inductive invariant that TLC has checked on an instance first, a lemma for each action,
and theorems that read the properties off it. Action properties are proved of a step under the invariant.

| Module | Theorem | States |
|---|---|---|
| `DocumentIngestion_proofs` | `TypeCorrect` | `TypeOK` |
| | `OneJob` | `OneJobAtATime` |
| | `UploadsDoNotRepeat`, `VersionsAlwaysDiffer` | `NoDuplicateUpload`, `VersionsDiffer` |
| | `OnlyOpenRunsAddVersions` | `VersionsComeFromOpenRuns` |
| | `OpenRunsEnabled` | `OpenRunsAreEnabled` |
| `IndexPipeline_proofs` | `TypeCorrect`, `NumbersDiffer` | `TypeOK`; numbered indexes have distinct numbers |
| | `OneIsActive`, `ServesApplied` | `OneActive`, `RegistryServesApplied`, with any processes and scripts |
| | `NumberedIsFixed`, `ClosedRunsStay` | `NumberedIndexIsFixed`, `OnlyOpenRunsFinish`, if `Alone` |
| | `Implements` | `ImplementsServedIndex`: the refinement, if `Alone` |
| `TurnStream_proofs` | `TypeCorrect`, `NumbersDiffer` | `TypeOK`; the turns of a conversation have distinct numbers |
| | `OpenIsLast`, `ContextHolds` | `OpenTurnIsLast`, `ContextIsAnswered` |
| | `CallsEnd` | `OnlyUnconfirmedCallsStay`, and `CallsEndWithTurn` where `Losses` is false |
| | `OutcomesAreFinal` | `OutcomeIsFinal` |
| | `TurnsOfStreams` | the invariants of `ChatTurn` hold with the routes in front of it |
| | `StreamLaw`, `EventTruth` | `StreamIsLawful`, `EventsAreTrue` |
| | `RatingsTurnOver` | `FlipIsAFlip` |
| `ProfileRevisions_proofs` | `TypeCorrect`, `IndexesAreUnique` | `TypeOK`; what the partial unique indexes promise |
| | `TestedFirst`, `Explained`, `StaysInService` | `TestedBeforeServed`, `TurnsAreExplained`, `TurnStaysInService` |
| | `StaysUp` | `ServiceStaysUp` |
| `QuestionGrouping_proofs` | `TypeCorrect` | `TypeOK` |
| | `AnswersFit`, `AttemptsMatch` | `AnswerFitsDefinition`, `AttemptMatchesAnswer` |
| | `JudgedWereLive`, `StoppedStays` | `JudgedAnswersWereLive`, `StoppedIsNotServed` |
| `EvaluationRuns_proofs` | `TypeCorrect`, `OneOwner`, `NothingOpen` | `TypeOK`, `RunsHaveOneOwner`, `NothingIsLeftOpen` |
| | `LedgersAreTrue`, `ComparedIsMeasured` | `LedgersTellTheTruth`, `ComparedWasMeasured` |
| | `ChildrenAlike` | `ChildrenMeasureAlike` |
| `AnswerPath_proofs` | `InductiveInvariant` | a turn is under way, or has ended in one of three ways (`IInv`) |
| | `SearchedAsResolved`, `FusionRanks` | `SearchesWhatItSays`, `FusionIsRanked` |
| | `CompletedGrounded`, `PolledAsSent` | `CompletedIsGrounded`, `PolledIsSent` |
| | `AttributionFollows` | `AttributionFollowsEvidence` |
| | `RowsPointToTheSame`, `MostCitedIsFirst`, `SplitJoined` | lemmas about what the code computes, for lists of any length |
| `DataLemmas` | `Maximum` | a nonempty bounded set of numbers contains its maximum |
| | `Sorting`, `FoldedLaws` | a set sorted by places is in order; a fold of one element more is one step more |

The arguments, by module.

**Ingestion.** `Typed` is `TypeOK` with `KnownRuns`: every run row that exists has a
document and is a member of its own batch, a task carries a run that exists and a body
once it has begun, and the ids a starting process holds exist. It is inductive by itself.
`NoDuplicateUpload` and `VersionsDiffer` are not: a version is written several commits
after the check that admitted it. `BodiesInv` adds `CheckStands`: while the run of
a task past NORMALIZING is open, the body it carries is still neither the latest
of its document nor, for a console document, held by another one. That this is
preserved when *another* run completes is where `OneJobAtATime` is needed: two open runs
that have both begun do not exist, so nobody else can complete. A task whose run
has been closed by another process may well carry a body that has become a
duplicate, and `Complete` of such a task is refused because the run is read again
under its lock: the invariant speaks of open runs only, and so covers several
processes. `OneJobAtATime` itself needs that a batch is known to each of its runs, so
that the run which has its turn excludes the others. `EnabledInv` strengthens `OpenRunsAreEnabled` in
the same way: a recollection that drops a page does so under the gate, when no run is open.

**Indexing.** `IInv` says of each index what its row, run and worker have to do with each other (`RowFits`), that one is
ACTIVE, that numbers are bounded and distinct, and that the memory of every process and every reload in
flight holds collections that were applied (`MemoryApplied`). It holds with any processes and scripts. `AInv` adds what the gate
guarantees a single process without a script (`Alone`): one run is open, it has its worker, and the documents are what
the worker has loaded. `NumberedIndexIsFixed`, `OnlyOpenRunsFinish` and the refinement are proved from `AInv`, and
under `Alone` only: with a second process they are false, as sections 3 and 6 say.

**Turns.** Every step is of one of four kinds: a turn moves on or ends, a turn begins and closes the stale ones before
it, a process dies, or only clocks and clients move (`StepKinds` looks at the worker's actions once). `IInv` adds to the
properties `CallsFit` (which model calls a task at its place may have open; RAISED_JUDGED, where the generation call may be one of them, is where the
exception of `OnlyUnconfirmedCallsStay` comes from) and `ReadsHold` (what a task has read as its
context is still answered): a turn whose row a stale recovery has closed under a live task is where they bite.

**Delivery.** What was sent to a client and what is in its queue are read as one line of events; putting prolongs
the line, sending only moves the place where it is cut. `DInv` says that this line is lawful, that a terminal event is in it
exactly if the task has replied, and (`SaysTrue`) that a response which a task holds but has not handed over agrees with the log already.
`FeedbackFits` says that a rating row which a request has read is locked: it is still the same when the request writes.

**Profiles.** `PInv` rests on one fact about steps: a revision in use (in service, tested before, or recorded by a turn) is never deleted and keeps
its rows and its group, whoever writes (`InUseKept`). What a transition of the console has read and not yet written is in `JobsFit`; a statement by
hand may come between the two, and what it may do to that transition is the case that needs the triggers and the indexes.

**Grouping.** The gate reads its parts one after the other. `GInv` follows through these reads the moment of the first one:
the subproblem it read and the one approved answer of that moment belonged together, and an answer that was presented before and is
approved later was approved then, because an answer is approved once (`CanonKept`). This is exactly what the exact path with
an unknown presentation lacks (`grouping_shadow`).

**Evaluation.** Ownership: whoever created a state file is the only one to write any file of that run or plan, so
that no step disturbs what another evaluator knows (`OthersKeepRuns`, `OthersKeepPlans`). What remains is one run and one plan with their
evaluator: the `Ledger` of the files and the `Phase` that the evaluator is in, and (`RefsFit`) that the results a plan refers to are those of
its own runs that succeeded. `ChildrenMeasureAlike` needs one more invariant, `MInv` (whatever was seen or saved was measured), and a case analysis of
one turn (`ChildIsDirect`).

**The answer.** A turn is *under way* (nothing sent, the judgment says nothing of an answer yet), or ended *unanswered*, *served*
or *answered*: `IInv` is the disjunction of these four. Under way it keeps two facts which the properties need. The
evidence is the fusion of what was found until the judgment is over; and what the log points to has the related
sections of the evidence, except between the search and the checkpoint that records the retrieval. Each ending says where the log and the
response came from (`Served`: the citations that an approved answer has in this index; `Answered`: those of a draft whose
markers are sources of the plan), and the five properties are read off it. What carries them are facts about what the code computes, for
lists of any length:

- `ResolvedSays`. A replacement never lengthens a text nor empties it (`ReplacedShrinks`, and by the fold `NormalizedShrinks`): it leaves out the first fragment of each
  reference and keeps the last. So a text that fits its field still fits, and the two questions together are only used if they fit. No fact about which references
  are left is used: whether one is left depends on their order.
- `NearerComesFirst`. The fusion is a set sorted by a strict total order (`ByScoreOrders`, `Sorting`). Of two sums of reciprocals, the one
  with better ranks is higher (`NearerIsHigher`), and two ranks of at most `RrfK + 1` outweigh any single one (`BothBeatOne`): this is where
  `CandidateK <= RrfK + 1` is needed (10 and 60 in `app/retrieval/hybrid_retriever.py:18-20`).
- `RelatedIsPolled`. A poll collects the related sections from the rows, where a chunk that both retrievers found stands twice. Two steps
  of the loop with the same section are one (`PointedTwice`), so the rows give what the evidence gave.
- `CitationsAreNumbered`, `LocatedSaysTheSame`, `MostCitedIsFirst`, `SplitJoined`: the numbering of sections by their first marker, the place of an
  approved citation, the attribution by count and then by place, and a path that is joined in the log and split by a poll.

The loops are folds. The library defines `FoldLeft` by a function on sets of places, and its induction theorems take an operator,
which the provers cannot instantiate. `DataLemmas` states induction for the *set* of the numbers that have a property, and derives from it that a fold of one element
more is one step more (`FoldedLaws`), if each step leads from a set `D` to `D`; each loop is then shown to be such a fold
(`DistinctIsFolded`, `RelatedIsFolded`, `RowsIsFolded`). This covers loops over lists of any length; what it does not cover are recursive operators.

Attempts at these proofs changed the model in four places. `SortSeq` has no definition that the provers
can expand, so that the rankings are now sorted by places (`SortedBy`), which is what `sorted` with a total key gives. The row that a poll reads is derived from
what was *found*, as the code writes it, and no longer from the evidence alone. An approved citation without an identity
(0) promised by `CompletedIsGrounded` a section with none, which the code does not look for: the property now speaks of citations that have one.
And the constants have the assumptions the argument uses, each of which holds in the code: the judge is shown at least
as many documents as there are pieces of evidence (`TopK <= DocumentTopK`; both are 5, `app/retrieval/hybrid_retriever.py:19`,
`app/question_grouping/constants.py:23`), an index holds one version of a document, and a cited
chunk that is still indexed has the content and identity it was cited with.

Only model-checked:

- Liveness (`EveryRunCloses`, `StreamCloses`, `EveryTurnEnds`), which the prover does not cover. No safety property of a run is left.
- The two expected violations of section 3.

## 6. Limits of the models

- **Several processes.** The deployment runs one container; a rolling restart or a
  second one gives two. The models are parameterised by `Proc`, and the properties that
  hold only for one process (`OnlyOpenRunsFinish`, `ImplementsServedIndex`) are checked with one.
- **Row locks inside a transaction** are below the grain: a committed transaction is
  a step. Lock order (the startup pass updates versions before runs, the index
  worker locks the run first) could deadlock in the database, which aborts one
  of the two; this is in the hazard list without a property.
- **The command line reindex** bypasses the gate. `OneActive` holds with it;
  what search serves afterwards is what the script was given, and a process of the service learns
  of it only at its next apply, reload or restart, so the refinement is not claimed with it.
- **Delivery.** Keep-alive comments, encoding and the time a client takes are not modelled; `LaterQuestion`
  stands for a next question of the conversation, and a client rates only what it has received.
- **What a turn decides.** Texts are sequences of fragments, so `SearchesWhatItSays` speaks of where a text comes from, not of what it means. How spaces are
  stripped and collapsed is not modelled: a phrase is found if its fragments are, and the space between two joined questions is part of the last fragment. A marker that
  ends in a space (`"그 "`) is one fragment, also where a question ends with the word and has no space after it. The limit of a text counts fragments, not characters.
  BM25 scores and vector distances are any two orders. The title of a document that changes between
  the answer and a poll is outside. The JEV judge client, which passes an answer on without a confidence
  (`app/question_grouping/jev_judge_client.py:276`), is modelled; it is not wired into the service and no rule about it is
  stated there.
- **Question grouping.** Whether the citations of an answer resolve is chosen freely at each
  gate there; `CanonicalCitations` says when they do. The hash by which a seed decides about replacing an answer names
  sections by path, so a cited section that was rewritten does not by itself make a seed replace the answer. A
  subproblem that the catalog leaves out for lack of an embedding is one the judgment does
  not choose. What operators do to these tables outside of the seed (archive, stop,
  approve, connect) is not in `src/`: it is modelled from the columns that the code reads
  (`map` marks it external), and they connect only turns that have ended. Whether a stop should survive a
  seed that is running is not stated anywhere; the seed wins. A seed of several
  subproblems is one commit in the code and several here, which allows more interleavings.
  GROUP_DISABLED is kept in the gate although a turn looks at the same switches earlier.
- **Profiles.** Services are the two registered ones; a component row is one setting, not its columns.
- **Evaluation.** A file is not edited while an evaluator works on its run, up to the reference that a plan makes to it: the result it has just
  written is then what it read. Fingerprints, manifests and summaries are left out. The database that is
  measured does not change during a run here; in the tool each turn opens a read-only snapshot of its own, so that an
  approval may change between two turns (`evaluation/cache_path_eval/README.md:79-80`). The other evaluations
  (retrieval, multi-turn, judge alone) are sequential measurements and are not modelled.
- **Not modelled**: console reads and schemas, the search status of a group (computed on each read),
  parsing and chunking, prompts, the legacy single corpus, the corpus bootstrap script, settings and health:
  they keep no state that the modelled parts depend on, or only
  transform text that is a value here.

## 7. Plan

Done: the modules of section 2, and the proofs of section 5: every safety property of the passing runs is a theorem.

Left:

1. What a seed computes for several subproblems at once, as one commit; and the search status of a group as a function of `IndexPipeline`.
2. Shorter proofs where two modules repeat an argument: the field lemmas of records that change one field.
