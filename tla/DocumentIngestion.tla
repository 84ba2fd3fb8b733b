------------------------- MODULE DocumentIngestion -------------------------
(***************************************************************************)
(* How one document group takes in documents: the job gate that admits one *)
(* job at a time, the acceptance of an upload, a revision or a GitBook     *)
(* recollection, the worker that carries an accepted run through its       *)
(* stages, and the startup pass that closes the runs a dead process left.  *)
(*                                                                         *)
(* The gate is an advisory lock held for the accepting transaction, so an  *)
(* acceptance is one atomic step guarded by "nothing is PROCESSING".       *)
(* Every worker step is one committed transaction of its own session.     *)
(* Groups do not share a gate, a source or a run: the module is one group. *)
(***************************************************************************)
EXTENDS Naturals, Sequences, FiniteSets

CONSTANTS
    Proc,       \* application processes (containers)
    Upload,     \* names of console documents
    Page,       \* page keys of the group's GitBook root
    Content,    \* hashes of normalised bodies
    Run,        \* identifiers of ingestion runs
    MaxCrash,   \* bound on process crashes
    Outages,    \* whether writing down a failure may itself fail
    None

Doc == Upload \cup Page

ASSUME IngestionAssumption ==
    /\ Upload \cap Page = {}
    /\ None \notin Proc \cup Doc \cup Content \cup Run
    /\ MaxCrash \in Nat
    /\ Outages \in BOOLEAN

VARIABLES
    source,     \* document_sources: [Doc -> SourceState]
    versions,   \* READY document_versions of a source, oldest first
    run,        \* ingestion_runs
    call,       \* the CHUNK_EMBEDDING model_calls row of a run
    worker,     \* the in-memory task that carries a run
    proc,       \* [Proc -> ProcState]
    stale,      \* run ids a starting process has read as PROCESSING
    indexing,   \* an index run of the group is PROCESSING
    crashes

vars == <<source, versions, run, call, worker, proc, stale, indexing, crashes>>

SourceState == {"ABSENT", "ENABLED", "DISABLED"}
ProcState == {"UP", "DOWN", "CLOSING"}
CallState == {"NONE", "PROCESSING", "SUCCESS", "FAILED"}

\* IngestionResultCode and error_code of a closed run. ERROR stands for
\* INVALID_FILE, UPSTREAM_ERROR and INTERNAL_ERROR.
Result == {"CREATED", "UPDATED", "NO_CHANGE", "REMOVED",
           "DUPLICATE_CONTENT", "ERROR", "INTERRUPTED"}

RunRow == [status: {"NONE", "PROCESSING", "SUCCESS", "FAILED"},
           doc: Doc \cup {None},
           batch: SUBSET Run,    \* the runs accepted together
           result: Result \cup {None}]
NoRun == [status |-> "NONE", doc |-> None, batch |-> {}, result |-> None]

\* QUEUED is a page of a batch whose turn has not come, CALLING a worker inside
\* the embedding request, EMBEDDED one that holds the vectors in an open
\* transaction, FAILING one about to write its failure. The others are the
\* IngestionStage the worker has committed.
Pc == {"NONE", "QUEUED", "RECEIVING", "NORMALIZING", "PARSING", "CHUNKING",
       "EMBEDDING", "CALLING", "EMBEDDED", "FAILING"}
Worker == [proc: Proc \cup {None}, pc: Pc, content: Content \cup {None}]
NoWorker == [proc |-> None, pc |-> "NONE", content |-> None]

Init ==
    /\ source = [d \in Doc |-> "ABSENT"]
    /\ versions = [d \in Doc |-> <<>>]
    /\ run = [r \in Run |-> NoRun]
    /\ call = [r \in Run |-> "NONE"]
    /\ worker = [r \in Run |-> NoWorker]
    /\ proc = [p \in Proc |-> "UP"]
    /\ stale = [p \in Proc |-> {}]
    /\ indexing = FALSE
    /\ crashes = 0

-----------------------------------------------------------------------------
(* Reads *)

Processing(r) == run[r].status = "PROCESSING"

\* Slips of load_running_job: a gate that forgets index runs, one that forgets
\* ingestion runs.
GateForgetsIndexRuns == \A r \in Run : ~Processing(r)
GateForgetsIngestion == ~indexing

\* load_running_job finds nothing: no ingestion run and no index run is open.
GateOpen == ~indexing /\ \A r \in Run : ~Processing(r)

Bodies(d) == {versions[d][i] : i \in DOMAIN versions[d]}

\* A slip: the oldest version instead of the newest.
Oldest(d) == IF versions[d] = <<>> THEN None ELSE versions[d][1]

\* find_latest_ready_version
Latest(d) == IF versions[d] = <<>> THEN None ELSE versions[d][Len(versions[d])]

\* A slip: only the latest version of the other documents is compared.
DuplicateOfLatest(d, c) == \E u \in Upload \ {d} : Latest(u) = c

\* find_duplicate_source: another console document holds this body in any READY
\* version, not only in its latest one.
DuplicateElsewhere(d, c) == \E u \in Upload \ {d} : c \in Bodies(u)

-----------------------------------------------------------------------------
(* Acceptance: one transaction under the gate, answered by process p *)

Accept(p, r, d, pc, c) ==
    /\ run' = [run EXCEPT ![r] = [status |-> "PROCESSING", doc |-> d,
                                  batch |-> {r}, result |-> None]]
    /\ worker' = [worker EXCEPT ![r] = [proc |-> p, pc |-> pc, content |-> c]]

\* start_new_document: a name that already has a version is refused with 409;
\* a source left without a version by a failed upload is taken over.
StartNewDocument(p, r, d, c) ==
    /\ proc[p] = "UP"
    /\ GateOpen
    /\ run[r].status = "NONE"
    /\ versions[d] = <<>>
    /\ source' = [source EXCEPT ![d] = "ENABLED"]
    /\ Accept(p, r, d, "RECEIVING", c)
    /\ UNCHANGED <<versions, call, proc, stale, indexing, crashes>>

\* start_document_revision: only a console document that has a version.
StartDocumentRevision(p, r, d, c) ==
    /\ proc[p] = "UP"
    /\ GateOpen
    /\ run[r].status = "NONE"
    /\ source[d] # "ABSENT"
    /\ versions[d] # <<>>
    /\ Accept(p, r, d, "RECEIVING", c)
    /\ UNCHANGED <<source, versions, call, proc, stale, indexing, crashes>>

\* start_sync and accept_recollect_batch: an open run for every entry of the
\* listing, a closed REMOVED run for every enabled page the listing no longer
\* has. rows gives each new run its page. A page listed twice gets two runs when
\* its source exists, and breaks a unique key of the table when it does not; then,
\* as when the listing cannot be read, everything is rolled back.
StartSync(p, listed, rows) ==
    LET vanished == {d \in Page \ listed : source[d] = "ENABLED"}
        taken == DOMAIN rows
    IN
    /\ proc[p] = "UP"
    /\ GateOpen
    /\ listed # {}
    /\ {rows[r] : r \in taken} = listed \cup vanished
    /\ \A r, q \in taken : (r # q /\ rows[r] = rows[q]) =>
           rows[r] \in listed /\ source[rows[r]] # "ABSENT"
    /\ \A r \in taken : run[r].status = "NONE"
    /\ source' = [d \in Doc |->
           CASE d \in listed -> "ENABLED"
             [] d \in vanished -> "DISABLED"
             [] OTHER -> source[d]]
    /\ run' = [r \in Run |->
           IF r \notin taken THEN run[r]
           ELSE [status |-> IF rows[r] \in listed THEN "PROCESSING" ELSE "SUCCESS",
                 doc |-> rows[r], batch |-> taken,
                 result |-> IF rows[r] \in listed THEN None ELSE "REMOVED"]]
    /\ worker' = [r \in Run |->
           IF r \in taken /\ rows[r] \in listed
             THEN [proc |-> p, pc |-> "QUEUED", content |-> None]
             ELSE worker[r]]
    /\ UNCHANGED <<versions, call, proc, stale, indexing, crashes>>

-----------------------------------------------------------------------------
(* The worker of run r. Its writes lock the run row and re-read it: a run   *)
(* another process has closed refuses them.                                 *)

At(r, pc) == worker[r].pc = pc
Goto(r, pc) == worker' = [worker EXCEPT ![r].pc = pc]
EndWorker(r) == worker' = [worker EXCEPT ![r] = NoWorker]
Close(r, status, result) ==
    run' = [run EXCEPT ![r] = [@ EXCEPT !.status = status, !.result = result]]

\* run_recollect_batch takes its pages one after the other.
Begun(r) == worker[r].pc \notin {"NONE", "QUEUED"}

\* A slip: a page waits until the others of its batch have ended.
AllOthersEnded(r) == \A q \in run[r].batch \ {r} : run[q].status # "PROCESSING"

HasTurn(r) == \A q \in run[r].batch \ {r} : ~Begun(q)

FetchPage(r, c) ==
    /\ At(r, "QUEUED")
    /\ HasTurn(r)
    /\ worker' = [worker EXCEPT ![r].pc = "RECEIVING", ![r].content = c]
    /\ UNCHANGED <<source, versions, run, call, proc, stale, indexing, crashes>>

\* A slip: a stage that nobody handles.
StagesRenamed == [RECEIVING |-> "NORMALIZING", PARSING |-> "CHUNKING",
                  CHUNKING |-> "EMBED"]

\* set_stage at the start of NORMALIZING, CHUNKING and EMBEDDING.
NextStage == [RECEIVING |-> "NORMALIZING", PARSING |-> "CHUNKING",
              CHUNKING |-> "EMBEDDING"]

SetStage(r) ==
    /\ worker[r].pc \in DOMAIN NextStage
    /\ Processing(r)
    /\ Goto(r, NextStage[worker[r].pc])
    /\ UNCHANGED <<source, versions, run, call, proc, stale, indexing, crashes>>

\* _decide_without_new_version, then set_stage(PARSING) when a version is due.
Decide(r) ==
    LET d == run[r].doc
        c == worker[r].content
    IN
    /\ At(r, "NORMALIZING")
    /\ Processing(r)
    /\ \/ /\ Latest(d) = c
          /\ Close(r, IF d \in Page THEN "SUCCESS" ELSE "FAILED", "NO_CHANGE")
          /\ EndWorker(r)
       \/ /\ Latest(d) # c
          /\ d \in Upload /\ DuplicateElsewhere(d, c)
          /\ Close(r, "FAILED", "DUPLICATE_CONTENT")
          /\ EndWorker(r)
       \/ /\ Latest(d) # c
          /\ ~(d \in Upload /\ DuplicateElsewhere(d, c))
          /\ Goto(r, "PARSING")
          /\ UNCHANGED run
    /\ UNCHANGED <<source, versions, call, proc, stale, indexing, crashes>>

\* prepare_chunk_embeddings when every vector of the previous versions fits.
ReuseEmbeddings(r) ==
    /\ At(r, "EMBEDDING")
    /\ versions[run[r].doc] # <<>>
    /\ Goto(r, "EMBEDDED")
    /\ UNCHANGED <<source, versions, run, call, proc, stale, indexing, crashes>>

\* start_embedding_model_call and its checkpoint commit: the run is not re-read.
StartCall(r) ==
    /\ At(r, "EMBEDDING")
    /\ call' = [call EXCEPT ![r] = "PROCESSING"]
    /\ Goto(r, "CALLING")
    /\ UNCHANGED <<source, versions, run, proc, stale, indexing, crashes>>

CallFails(r) ==
    /\ At(r, "CALLING")
    /\ call' = [call EXCEPT ![r] = "FAILED"]
    /\ Goto(r, "FAILING")
    /\ UNCHANGED <<source, versions, run, proc, stale, indexing, crashes>>

\* The answer is flushed, not committed: the row is SUCCESS only in the
\* worker's open transaction.
CallAnswers(r) ==
    /\ At(r, "CALLING")
    /\ Goto(r, "EMBEDDED")
    /\ UNCHANGED <<source, versions, run, call, proc, stale, indexing, crashes>>

FinishedCall(r) == IF call[r] = "PROCESSING" THEN "SUCCESS" ELSE call[r]

\* Slips of complete_ingestion: the run is not read again under a lock; every
\* version is reported as the first.
CompleteUnchecked(r) ==
    LET d == run[r].doc IN
    /\ At(r, "EMBEDDED")
    /\ versions' = [versions EXCEPT ![d] = Append(@, worker[r].content)]
    /\ Close(r, "SUCCESS", IF versions[d] = <<>> THEN "CREATED" ELSE "UPDATED")
    /\ call' = [call EXCEPT ![r] = FinishedCall(r)]
    /\ EndWorker(r)
    /\ UNCHANGED <<source, proc, stale, indexing, crashes>>

\* set_stage(PERSISTING), _result_code_for_new_version, complete_ingestion.
Complete(r) ==
    LET d == run[r].doc IN
    /\ At(r, "EMBEDDED")
    /\ Processing(r)
    /\ versions' = [versions EXCEPT ![d] = Append(@, worker[r].content)]
    /\ Close(r, "SUCCESS", IF versions[d] = <<>> THEN "CREATED" ELSE "UPDATED")
    /\ call' = [call EXCEPT ![r] = FinishedCall(r)]
    /\ EndWorker(r)
    /\ UNCHANGED <<source, proc, stale, indexing, crashes>>

\* Any stage may raise; the transaction is rolled back and fail_ingestion
\* closes the run. Inside the call the failure is CallFails.
Fail(r) ==
    /\ worker[r].pc \notin {"NONE", "CALLING"}
    /\ HasTurn(r)
    /\ Processing(r)
    /\ Close(r, "FAILED", "ERROR")
    /\ EndWorker(r)
    /\ UNCHANGED <<source, versions, call, proc, stale, indexing, crashes>>

\* _record_ingestion_failure that fails in turn is only logged.
FailureUnrecorded(r) ==
    /\ Outages
    /\ worker[r].pc \notin {"NONE", "CALLING"}
    /\ HasTurn(r)
    /\ EndWorker(r)
    /\ UNCHANGED <<source, versions, run, call, proc, stale, indexing, crashes>>

\* _get_processing_ingestion_run raises for a run closed elsewhere, and so does
\* the fail_ingestion that follows: the worker leaves without a write.
Refused(r) ==
    /\ worker[r].pc \notin {"NONE", "CALLING"}
    /\ HasTurn(r)
    /\ ~Processing(r)
    /\ EndWorker(r)
    /\ UNCHANGED <<source, versions, run, call, proc, stale, indexing, crashes>>

-----------------------------------------------------------------------------
(* Processes *)

Crash(p) ==
    /\ proc[p] # "DOWN"
    /\ crashes < MaxCrash
    /\ crashes' = crashes + 1
    /\ proc' = [proc EXCEPT ![p] = "DOWN"]
    /\ stale' = [stale EXCEPT ![p] = {}]
    /\ worker' = [r \in Run |-> IF worker[r].proc = p THEN NoWorker ELSE worker[r]]
    /\ UNCHANGED <<source, versions, run, call, indexing>>

\* close_interrupted_runs: read the open runs, then close exactly those rows.
\* The update names ids only, it does not ask again whether they are open.
StartupScan(p) ==
    /\ proc[p] = "DOWN"
    /\ proc' = [proc EXCEPT ![p] = "CLOSING"]
    /\ stale' = [stale EXCEPT ![p] = {r \in Run : Processing(r)}]
    /\ UNCHANGED <<source, versions, run, call, worker, indexing, crashes>>

StartupClose(p) ==
    /\ proc[p] = "CLOSING"
    /\ proc' = [proc EXCEPT ![p] = "UP"]
    /\ run' = [r \in Run |->
           IF r \in stale[p]
             THEN [run[r] EXCEPT !.status = "FAILED", !.result = "INTERRUPTED"]
             ELSE run[r]]
    /\ stale' = [stale EXCEPT ![p] = {}]
    /\ UNCHANGED <<source, versions, call, worker, indexing, crashes>>

\* _close_interrupted_runs swallows an error and the process serves anyway.
StartupCloseFails(p) ==
    /\ Outages
    /\ proc[p] = "CLOSING"
    /\ proc' = [proc EXCEPT ![p] = "UP"]
    /\ stale' = [stale EXCEPT ![p] = {}]
    /\ UNCHANGED <<source, versions, run, call, worker, indexing, crashes>>

\* The group's index job, seen from here: it passes the same gate.
IndexJobStarts ==
    /\ GateOpen
    /\ indexing' = TRUE
    /\ UNCHANGED <<source, versions, run, call, worker, proc, stale, crashes>>

IndexJobEnds ==
    /\ indexing
    /\ indexing' = FALSE
    /\ UNCHANGED <<source, versions, run, call, worker, proc, stale, crashes>>

-----------------------------------------------------------------------------

Requests(p) ==
    \/ \E r \in Run, d \in Upload, c \in Content :
          StartNewDocument(p, r, d, c) \/ StartDocumentRevision(p, r, d, c)
    \/ \E listed \in SUBSET Page, taken \in SUBSET {r \in Run : run[r].status = "NONE"} :
          \E rows \in [taken -> Page] : StartSync(p, listed, rows)

WorkerStep(r) ==
    \/ \E c \in Content : FetchPage(r, c)
    \/ SetStage(r)
    \/ Decide(r)
    \/ ReuseEmbeddings(r)
    \/ StartCall(r)
    \/ CallFails(r)
    \/ CallAnswers(r)
    \/ Complete(r)
    \/ Fail(r)
    \/ Refused(r)

ProcessStep(p) == StartupScan(p) \/ StartupClose(p) \/ StartupCloseFails(p)

Next ==
    \/ \E p \in Proc : Requests(p) \/ ProcessStep(p) \/ Crash(p)
    \/ \E r \in Run : WorkerStep(r) \/ FailureUnrecorded(r)
    \/ IndexJobStarts
    \/ IndexJobEnds

\* A live task is scheduled until it ends (asyncio) and every external call has
\* a timeout; a dead container is restarted (restart: unless-stopped) and runs
\* its startup pass. Nobody owes the system a request, a crash or an outage.
Fairness ==
    /\ \A r \in Run : WF_vars(WorkerStep(r))
    /\ \A p \in Proc : WF_vars(ProcessStep(p))

Spec == Init /\ [][Next]_vars
FairSpec == Spec /\ Fairness

-----------------------------------------------------------------------------
(* Properties *)

TypeOK ==
    /\ source \in [Doc -> SourceState]
    /\ versions \in [Doc -> Seq(Content)]
    /\ run \in [Run -> RunRow]
    /\ call \in [Run -> CallState]
    /\ worker \in [Run -> Worker]
    /\ proc \in [Proc -> ProcState]
    /\ stale \in [Proc -> SUBSET Run]
    /\ indexing \in BOOLEAN
    /\ crashes \in Nat

\* "Upload, revision, reindex and recollection: one at a time in a group"
\* (job_gate.py). Open runs all come from one acceptance, none is open beside an
\* index run, and at most one of them is being worked on, so a page that was
\* listed twice is not taken in twice at once.
OneJobAtATime ==
    \A r \in Run : Processing(r) =>
        /\ ~indexing
        /\ \A q \in Run \ {r} : Processing(q) =>
               /\ run[q].batch = run[r].batch
               /\ ~(Begun(q) /\ Begun(r))

\* Two console documents never hold the same body, in any of their versions:
\* the check is made once, at NORMALIZING, and the version appears five commits
\* later, so only the gate keeps what was checked true.
NoDuplicateUpload ==
    \A d, e \in Upload : d # e => Bodies(d) \cap Bodies(e) = {}

\* A new version always changes the body: an upload of the same body is refused
\* and a recollected page that did not change ends as NO_CHANGE.
VersionsDiffer ==
    \A d \in Doc : \A i \in DOMAIN versions[d] :
        i > 1 => versions[d][i] # versions[d][i - 1]

\* An open run never belongs to a page that the listing has dropped: a version
\* never appears on a source that search no longer uses.
OpenRunsAreEnabled == \A r \in Run : Processing(r) => source[run[r].doc] = "ENABLED"

\* A version appears only in the commit that closes an open run of its document
\* as CREATED (first version) or UPDATED; versions are never lost or replaced.
\* A worker that lives on after its run was closed cannot add one.
VersionsComeFromOpenRuns ==
    [][\A d \in Doc : versions'[d] # versions[d] =>
          /\ SubSeq(versions'[d], 1, Len(versions[d])) = versions[d]
          /\ Len(versions'[d]) = Len(versions[d]) + 1
          /\ \E r \in Run :
                /\ run[r].doc = d /\ Processing(r)
                /\ run'[r].status = "SUCCESS"
                /\ run'[r].result = IF versions[d] = <<>> THEN "CREATED"
                                                         ELSE "UPDATED"]_vars

\* Every accepted run is closed, whatever fails or crashes on the way: by its
\* worker, or by the next startup. Until then its group accepts no job.
EveryRunCloses == \A r \in Run : Processing(r) ~> ~Processing(r)

=============================================================================
