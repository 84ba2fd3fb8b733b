------------------------------ MODULE ChatTurn ------------------------------
(***************************************************************************)
(* How a question becomes an answered turn of a conversation: the start    *)
(* transaction that admits one open turn per conversation and closes the   *)
(* stale ones, the task that carries the turn through query rewrite,       *)
(* retrieval, the canonical-answer judgment and generation, and the ways   *)
(* it ends: answered, withheld, failed, cancelled by a disconnect, or lost *)
(* with its process and recovered by a later question.                     *)
(*                                                                         *)
(* Every write of a turn first locks its conversation, then its run, and   *)
(* reads both afresh (_get_processing_run), so each committed transaction  *)
(* is one step whose guard is the status at that moment. External calls    *)
(* happen between two steps.                                               *)
(***************************************************************************)
EXTENDS Naturals, FiniteSets, FiniteSetsExt

CONSTANTS
    Conv,       \* conversation ids
    Run,        \* rag_run ids
    MaxRewriteTurns,    \* MAX_QUERY_REWRITE_TURNS
    MaxCrash,   \* bound on process crashes
    Losses,     \* whether a commit may be applied and yet be reported as failed,
                \* and an ending go unrecorded
    None

ASSUME ChatAssumption ==
    /\ None \notin Conv
    /\ IsFiniteSet(Run)
    /\ MaxRewriteTurns \in Nat
    /\ MaxCrash \in Nat
    /\ Losses \in BOOLEAN

VARIABLES
    conv,       \* conversations.status
    idle,       \* conversations with no activity for 24 hours
    told,       \* conversations whose client was told that they are over
    run,        \* rag_runs
    old,        \* runs created more than RAG_RUN_STALE_AFTER ago
    call,       \* the model_calls of a run
    worker,     \* the task that carries a run
    reply,      \* what the client of a run received
    crashes

vars == <<conv, idle, told, run, old, call, worker, reply, crashes>>
world == <<conv, told, old, reply, crashes>>    \* what no worker step writes

Answered == {"COMPLETED", "WITHHELD"}
Ended == Answered \cup {"ERROR", "CANCELLED"}

\* QUESTION_EMBEDDING is the second call of purpose QUERY_EMBEDDING that a turn
\* makes when the judgment cannot reuse the vector of the search.
Purpose == {"QUERY_REWRITE", "QUERY_EMBEDDING", "QUESTION_EMBEDDING",
            "QUESTION_CLASSIFICATION", "ANSWER_GENERATION"}
CallState == {"NONE", "PROCESSING", "CLOSED"}     \* CLOSED is SUCCESS or FAILED
Saying == Answered \cup {"NONE", "ERROR"}

RunRow == [status: Ended \cup {"NONE", "PROCESSING"},
           conv: Conv \cup {None},
           no: Nat,                     \* turn_no
           context: SUBSET Run]         \* selectedTurns of context_snapshot
NoRun == [status |-> "NONE", conv |-> None, no |-> 0, context |-> {}]
NoCall == [p \in Purpose |-> "NONE"]

\* REWRITING, EMBEDDING, REEMBEDDING, JUDGING and GENERATING are inside an
\* external call. At RAISED and RAISED_JUDGED generate_answer has raised and
\* _run_turn knows of no generation call; FAILING has rolled back and is about
\* to write ERROR, REPLYING has a response.
Pc == {"NONE", "STARTED", "REWRITING", "AMBIGUOUS", "RESOLVED", "EMBEDDING",
       "RETRIEVED", "REEMBEDDING", "JUDGING", "JUDGED", "GENERATING",
       "RAISED", "RAISED_JUDGED", "FAILING", "REPLYING"}
Worker == [pc: Pc, read: SUBSET Run, says: Saying]
NoWorker == [pc |-> "NONE", read |-> {}, says |-> "NONE"]

Init ==
    /\ conv = [c \in Conv |-> "ABSENT"]
    /\ idle = {}
    /\ told = {}
    /\ run = [r \in Run |-> NoRun]
    /\ old = {}
    /\ call = [r \in Run |-> NoCall]
    /\ worker = [r \in Run |-> NoWorker]
    /\ reply = [r \in Run |-> "NONE"]
    /\ crashes = 0

-----------------------------------------------------------------------------
(* Reads *)

\* _get_processing_run accepts r
Processing(r) == run[r].status = "PROCESSING"

TurnsOf(c) == {r \in Run : run[r].conv = c}
OpenTurns(c) == {r \in TurnsOf(c) : Processing(r)}

\* A slip: failed and cancelled turns are candidates too.
AnyEarlierTurn(r) == {q \in TurnsOf(run[r].conv) : run[q].no < run[r].no}

\* get_query_rewrite_candidates: the last answered turns before this one.
Candidates(r) ==
    LET earlier == {q \in TurnsOf(run[r].conv) :
                       run[q].no < run[r].no /\ run[q].status \in Answered}
    IN {q \in earlier :
           Cardinality({x \in earlier : run[x].no > run[q].no}) < MaxRewriteTurns}

-----------------------------------------------------------------------------
(* _start_turn: one transaction that holds the conversation row *)

\* A slip: a stale turn is left open.
KeptOpen(row) == row
\* _recover_stale_runs
Recovered(row) == [row EXCEPT !.status = "ERROR"]
Abandoned(calls) ==
    [p \in Purpose |-> IF calls[p] = "PROCESSING" THEN "CLOSED" ELSE calls[p]]

\* start_rag_run: an open turn younger than ten minutes means 409, older ones
\* are closed first. Without a conversation id a new conversation is created.
Ask(c, r) ==
    /\ run[r].status = "NONE"
    /\ c \notin idle
    /\ OpenTurns(c) \subseteq old
    /\ conv' = [conv EXCEPT ![c] = "ACTIVE"]
    /\ run' = [q \in Run |->
           IF q = r THEN [status |-> "PROCESSING", conv |-> c, context |-> {},
                          no |-> Max({run[x].no : x \in TurnsOf(c)} \cup {0}) + 1]
           ELSE IF q \in OpenTurns(c) THEN Recovered(run[q])
           ELSE run[q]]
    /\ call' = [q \in Run |-> IF q \in OpenTurns(c) THEN Abandoned(call[q])
                                                   ELSE call[q]]
    /\ worker' = [worker EXCEPT ![r].pc = "STARTED"]
    /\ UNCHANGED <<idle, told, old, reply, crashes>>

\* A conversation without activity for a day is refused with 404. start_rag_run
\* sets EXPIRED, answer_question rolls the transaction back.
AskIdle(c) ==
    /\ c \in idle
    /\ told' = told \cup {c}
    /\ UNCHANGED <<conv, idle, run, old, call, worker, reply, crashes>>

-----------------------------------------------------------------------------
(* _run_turn *)

At(r, pc) == worker[r].pc = pc
Goto(r, pc) == worker' = [worker EXCEPT ![r].pc = pc]
EndWorker(r) == worker' = [worker EXCEPT ![r] = NoWorker]

\* _checkpoint_model_call, _finish_model_call: nothing was started, nothing is
\* closed.
Start(calls, p) == [calls EXCEPT ![p] = "PROCESSING"]
Closed(calls, p) ==
    [calls EXCEPT ![p] = IF @ = "PROCESSING" THEN "CLOSED" ELSE @]

\* A step that commits and takes the task to pc, or to raised if the commit,
\* though applied, is reported as failed.
Reported(pc, raised) == {pc} \cup (IF Losses THEN {raised} ELSE {})
Commits(r, pc, raised) == \E next \in Reported(pc, raised) : Goto(r, next)

\* The task has a response in hand. A commit that is applied but reported as
\* failed ends in an error response.
Respond(r, says) ==
    \E s \in Reported(says, "ERROR") :
        worker' = [worker EXCEPT ![r] = [NoWorker EXCEPT !.pc = "REPLYING", !.says = s]]

\* A slip: the run is closed without being read again.
FinishUnchecked(r, status) ==
    /\ run' = [run EXCEPT ![r].status = status]
    /\ idle' = IF status \in Answered THEN idle \ {run[r].conv} ELSE idle
    /\ Respond(r, status)

\* complete_rag_run, withhold_rag_run, fail_rag_run: an answer also touches the
\* conversation.
Finish(r, status) ==
    /\ Processing(r)
    /\ run' = [run EXCEPT ![r].status = status]
    /\ idle' = IF status \in Answered THEN idle \ {run[r].conv} ELSE idle
    /\ Respond(r, status)

\* handle_exact_decision: the exact cache serves a canonical answer.
ServeExact(r) ==
    /\ At(r, "STARTED")
    /\ Finish(r, "COMPLETED")
    /\ UNCHANGED <<world, call>>

\* _resolve_follow_up up to the external call.
StartRewrite(r) ==
    /\ At(r, "STARTED")
    /\ Processing(r)
    /\ run[r].no > 1
    /\ call' = [call EXCEPT ![r] = Start(@, "QUERY_REWRITE")]
    /\ \E next \in Reported("REWRITING", "FAILING") :
          worker' = [worker EXCEPT ![r].pc = next, ![r].read = Candidates(r)]
    /\ UNCHANGED <<world, idle, run>>

\* _record_query_rewrite: NEW_TOPIC stores no context, FOLLOW_UP some of the
\* turns that were read, an ambiguous question none.
RewriteAnswers(r) ==
    /\ At(r, "REWRITING")
    /\ Processing(r)
    /\ call' = [call EXCEPT ![r] = Closed(@, "QUERY_REWRITE")]
    /\ \/ /\ \E selected \in SUBSET worker[r].read :
                run' = [run EXCEPT ![r].context = selected]
          /\ Commits(r, "RESOLVED", "FAILING")
       \/ /\ UNCHANGED run
          /\ Commits(r, "AMBIGUOUS", "FAILING")
    /\ UNCHANGED <<world, idle>>

RewriteFails(r) ==
    /\ At(r, "REWRITING")
    /\ Finish(r, "ERROR")
    /\ call' = [call EXCEPT ![r] = Closed(@, "QUERY_REWRITE")]
    /\ UNCHANGED world

\* _withhold_ambiguous_follow_up, a commit of its own.
WithholdAmbiguous(r) ==
    /\ At(r, "AMBIGUOUS")
    /\ Finish(r, "WITHHELD")
    /\ UNCHANGED <<world, call>>

\* The first turn is searched as it was asked.
Searches(r) == At(r, "RESOLVED") \/ (At(r, "STARTED") /\ run[r].no = 1)

\* checkpoint_embedding
StartEmbedding(r) ==
    /\ Searches(r)
    /\ Processing(r)
    /\ call' = [call EXCEPT ![r] = Start(@, "QUERY_EMBEDDING")]
    /\ Commits(r, "EMBEDDING", "FAILING")
    /\ UNCHANGED <<world, idle, run>>

\* retrieve: the read transaction is rolled back, results stay in memory.
Retrieved(r) ==
    /\ At(r, "EMBEDDING")
    /\ Goto(r, "RETRIEVED")
    /\ UNCHANGED <<world, idle, run, call>>

\* search_with_trace returned an error, of BM25 before the call, of the call or
\* of the fusion: _record_turn without a generation.
SearchFails(r) ==
    /\ Searches(r) \/ At(r, "EMBEDDING")
    /\ Finish(r, "ERROR")
    /\ call' = [call EXCEPT ![r] = Closed(@, "QUERY_EMBEDDING")]
    /\ UNCHANGED world

EmbeddingsClosed(calls) ==
    Closed(Closed(calls, "QUERY_EMBEDDING"), "QUESTION_EMBEDDING")

\* prepare embeds the resolved question, with a checkpoint of its own.
StartReembedding(r) ==
    /\ At(r, "RETRIEVED")
    /\ Processing(r)
    /\ call' = [call EXCEPT ![r] = Start(@, "QUESTION_EMBEDDING")]
    /\ Commits(r, "REEMBEDDING", "FAILING")
    /\ UNCHANGED <<world, idle, run>>

\* record_preparation_failure: no vector or no candidates, generation follows.
PreparationFails(r) ==
    /\ worker[r].pc \in {"RETRIEVED", "REEMBEDDING"}
    /\ Processing(r)
    /\ call' = [call EXCEPT ![r] = EmbeddingsClosed(@)]
    /\ Commits(r, "JUDGED", "FAILING")
    /\ UNCHANGED <<world, idle, run>>

\* The judgment's checkpoint closes the embedding calls with it.
StartJudgment(r) ==
    /\ worker[r].pc \in {"RETRIEVED", "REEMBEDDING"}
    /\ Processing(r)
    /\ call' = [call EXCEPT ![r] =
           Start(EmbeddingsClosed(@), "QUESTION_CLASSIFICATION")]
    /\ Commits(r, "JUDGING", "FAILING")
    /\ UNCHANGED <<world, idle, run>>

\* handle_source: judgment and completion in one commit.
ServeCanonical(r) ==
    /\ At(r, "JUDGING")
    /\ Finish(r, "COMPLETED")
    /\ call' = [call EXCEPT ![r] = Closed(@, "QUESTION_CLASSIFICATION")]
    /\ UNCHANGED world

\* The judgment fails open: generation follows.
DeclineCanonical(r) ==
    /\ At(r, "JUDGING")
    /\ Processing(r)
    /\ call' = [call EXCEPT ![r] = Closed(@, "QUESTION_CLASSIFICATION")]
    /\ Commits(r, "JUDGED", "FAILING")
    /\ UNCHANGED <<world, idle, run>>

\* What generate_answer raises is caught by AnswerQuestion.execute, for the
\* handler that _run_turn has around its result.
Raised == [pc \in {"RETRIEVED", "JUDGED"} |->
              IF pc = "JUDGED" THEN "RAISED_JUDGED" ELSE "RAISED"]

\* checkpoint_generation. The call is known to the turn once its commit returns.
StartGeneration(r) ==
    /\ worker[r].pc \in DOMAIN Raised
    /\ Processing(r)
    /\ call' = [call EXCEPT ![r] =
           Start(Closed(@, "QUERY_EMBEDDING"), "ANSWER_GENERATION")]
    /\ Commits(r, "GENERATING", Raised[worker[r].pc])
    /\ UNCHANGED <<world, idle, run>>

\* generate_answer raises without a call, or its checkpoint is rolled back.
GenerationRaises(r) ==
    /\ worker[r].pc \in DOMAIN Raised
    /\ Goto(r, Raised[worker[r].pc])
    /\ UNCHANGED <<world, idle, run, call>>

\* A slip: the embedding call is left to the handler of other failures.
RecordRunOnly(r) ==
    /\ worker[r].pc \in {"RAISED", "RAISED_JUDGED"}
    /\ Finish(r, "ERROR")
    /\ UNCHANGED <<world, call>>

\* _record_turn for that handler. It closes the calls that it is told of: the
\* search's, unless the judgment has recorded it, and none of the generation. A
\* search's call that a checkpoint has closed after all makes it raise (Fails).
RecordRaised(r) ==
    /\ \/ At(r, "RAISED") /\ call[r]["QUERY_EMBEDDING"] = "PROCESSING"
       \/ At(r, "RAISED_JUDGED")
    /\ Finish(r, "ERROR")
    /\ call' = [call EXCEPT ![r] =
           IF At(r, "RAISED") THEN Closed(@, "QUERY_EMBEDDING") ELSE @]
    /\ UNCHANGED world

\* _record_turn
RecordTurn(r) ==
    /\ At(r, "GENERATING")
    /\ \E status \in Answered \cup {"ERROR"} : Finish(r, status)
    /\ call' = [call EXCEPT ![r] = Closed(@, "ANSWER_GENERATION")]
    /\ UNCHANGED world

\* Anything else may raise, in particular a commit, and of what is written here
\* nothing is left.
Fails(r) ==
    /\ worker[r].pc \notin {"NONE", "FAILING", "REPLYING"}
    /\ Goto(r, "FAILING")
    /\ UNCHANGED <<world, idle, run, call>>

\* A slip: the calls are closed, the run is not.
FailCallsOnly(r) ==
    /\ At(r, "FAILING")
    /\ Processing(r)
    /\ call' = [call EXCEPT ![r] = Abandoned(@)]
    /\ Respond(r, "ERROR")
    /\ UNCHANGED <<world, idle, run>>

\* _fail_quietly
FailQuietly(r) ==
    /\ At(r, "FAILING")
    /\ Finish(r, "ERROR")
    /\ call' = [call EXCEPT ![r] = Abandoned(@)]
    /\ UNCHANGED world

\* The run was closed by someone else: every write raises, the failure that
\* would be recorded as well.
Refused(r) ==
    /\ worker[r].pc \notin {"NONE", "REPLYING"}
    /\ ~Processing(r)
    /\ Respond(r, "ERROR")
    /\ UNCHANGED <<world, idle, run, call>>

FailUnrecorded(r) ==
    /\ Losses
    /\ At(r, "FAILING")
    /\ Respond(r, "ERROR")
    /\ UNCHANGED <<world, idle, run, call>>

Reply(r) ==
    /\ At(r, "REPLYING")
    /\ reply' = [reply EXCEPT ![r] = worker[r].says]
    /\ EndWorker(r)
    /\ UNCHANGED <<conv, idle, told, run, old, call, crashes>>

\* The client of a plain request hangs up: the task is cancelled and
\* _cancel_quietly closes the turn, unless it is closed already.
Disconnect(r) ==
    /\ ~At(r, "NONE")
    /\ EndWorker(r)
    /\ IF Processing(r)
         THEN /\ run' = [run EXCEPT ![r].status = "CANCELLED"]
              /\ call' = [call EXCEPT ![r] = Abandoned(@)]
         ELSE UNCHANGED <<run, call>>
    /\ UNCHANGED <<world, idle>>

\* A cancellation where no handler waits for it (in the start commit, in the
\* outer failure handler), or one that cannot be written down.
Lost(r) ==
    /\ Losses
    /\ ~At(r, "NONE")
    /\ EndWorker(r)
    /\ UNCHANGED <<world, idle, run, call>>

-----------------------------------------------------------------------------
(* Processes and time *)

\* A process dies with the tasks it carried. Startup does not look at rag_runs.
Crash ==
    /\ crashes < MaxCrash
    /\ crashes' = crashes + 1
    /\ \E lost \in SUBSET {r \in Run : ~At(r, "NONE")} :
          worker' = [r \in Run |-> IF r \in lost THEN NoWorker ELSE worker[r]]
    /\ UNCHANGED <<conv, idle, told, run, old, call, reply>>

Age(r) ==
    /\ Processing(r)
    /\ r \notin old
    /\ old' = old \cup {r}
    /\ UNCHANGED <<conv, idle, told, run, call, worker, reply, crashes>>

DayPasses(c) ==
    /\ conv[c] = "ACTIVE"
    /\ c \notin idle
    /\ idle' = idle \cup {c}
    /\ old' = old \cup OpenTurns(c)
    /\ UNCHANGED <<conv, told, run, call, worker, reply, crashes>>

-----------------------------------------------------------------------------

WorkerStep(r) ==
    \/ ServeExact(r)
    \/ StartRewrite(r)
    \/ RewriteAnswers(r)
    \/ RewriteFails(r)
    \/ WithholdAmbiguous(r)
    \/ StartEmbedding(r)
    \/ Retrieved(r)
    \/ SearchFails(r)
    \/ StartReembedding(r)
    \/ PreparationFails(r)
    \/ StartJudgment(r)
    \/ ServeCanonical(r)
    \/ DeclineCanonical(r)
    \/ StartGeneration(r)
    \/ GenerationRaises(r)
    \/ RecordRaised(r)
    \/ RecordTurn(r)
    \/ Fails(r)
    \/ FailQuietly(r)
    \/ Refused(r)
    \/ Reply(r)

Next ==
    \/ \E c \in Conv : AskIdle(c) \/ DayPasses(c) \/ \E r \in Run : Ask(c, r)
    \/ \E r \in Run :
          WorkerStep(r) \/ FailUnrecorded(r) \/ Disconnect(r) \/ Lost(r) \/ Age(r)
    \/ Crash

\* asyncio schedules a live task until it ends; every external call has a
\* timeout. Clients, clocks and crashes owe nothing.
Fairness == \A r \in Run : WF_vars(WorkerStep(r))

Spec == Init /\ [][Next]_vars
FairSpec == Spec /\ Fairness

-----------------------------------------------------------------------------
(* Properties *)

TypeOK ==
    /\ conv \in [Conv -> {"ABSENT", "ACTIVE", "EXPIRED"}]
    /\ idle \subseteq Conv
    /\ told \subseteq Conv
    /\ run \in [Run -> RunRow]
    /\ old \subseteq Run
    /\ call \in [Run -> [Purpose -> CallState]]
    /\ worker \in [Run -> Worker]
    /\ reply \in [Run -> Saying]
    /\ crashes \in Nat

\* The open turn of a conversation is its last one, and the only open one
\* (start_rag_run), also while tasks of recovered turns are still running.
OpenTurnIsLast ==
    \A r, q \in Run :
        (Processing(r) /\ q # r /\ run[q].conv = run[r].conv) => run[q].no < run[r].no

\* Once a turn has ended nobody changes its outcome or its calls: the late task
\* of a recovered turn, a cancellation and a recovery may all try
\* ("a late worker does not come back to life", _get_processing_run).
OutcomeIsFinal ==
    [][\A r \in Run : run[r].status \in Ended =>
          run'[r] = run[r] /\ call'[r] = call[r]]_vars

\* "The result of a call is put into its row at the next checkpoint or at the
\* final closing" (ChatService): no model call outlives its turn. The code keeps
\* this as long as the outcome of each commit is known to it.
CallsEndWithTurn ==
    \A r \in Run : run[r].status \in Ended =>
        \A p \in Purpose : call[r][p] # "PROCESSING"

\* Whoever ends a turn ends its calls in the same transaction, with one
\* exception: a generation whose checkpoint was applied but reported as failed,
\* in a turn that is then recorded as ERROR.
OnlyUnconfirmedCallsStay ==
    \A r \in Run : run[r].status \in Ended =>
        \A p \in Purpose : call[r][p] = "PROCESSING" =>
            Losses /\ p = "ANSWER_GENERATION" /\ run[r].status = "ERROR"

\* What a follow-up was resolved against is answered turns of its own
\* conversation that came before it, and they stay that way.
ContextIsAnswered ==
    \A r \in Run : \A q \in run[r].context :
        /\ run[q].conv = run[r].conv
        /\ run[q].no < run[r].no
        /\ run[q].status \in Answered

=============================================================================
