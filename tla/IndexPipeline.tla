--------------------------- MODULE IndexPipeline ---------------------------
(***************************************************************************)
(* How one document group gets a new search index: acceptance of a reindex *)
(* under the job gate, the worker that builds, validates and applies the   *)
(* candidate, the process memory (corpus registry) that chat searches, the *)
(* reload endpoint, the startup pass over what a dead process left, and    *)
(* the reindex from the command line, which does not look at the gate.     *)
(*                                                                         *)
(* An index version and its run are created together and share one id.    *)
(*                                                                         *)
(* The worker keeps the run and the version it loaded in its session. The  *)
(* session does not expire them at a commit and the locking read does not  *)
(* refresh them, so its status checks see what the worker itself wrote     *)
(* last, which pc tells; only a rollback makes it read the rows again.     *)
(*                                                                         *)
(* Documents change only while an ingestion run is open, and the gate lets *)
(* no index run be open beside one (DocumentIngestion!OneJobAtATime).      *)
(***************************************************************************)
EXTENDS Naturals, FiniteSets, FiniteSetsExt

CONSTANTS
    Proc,       \* application processes (containers)
    Source,     \* documents of the group
    MaxVersion, \* bound on the versions of a document
    Index,      \* ids of index versions and of their runs
    MaxCrash,   \* bound on process crashes
    Reloads,    \* whether the reload endpoint is called
    Outages,    \* whether recording a failure, or publishing, may fail
    Shell,      \* operators who run the command line reindex, one at most
    None

ASSUME IndexAssumption ==
    /\ None \notin Proc \cup Index \cup Shell
    /\ Shell \cap Proc = {}
    /\ Cardinality(Shell) <= 1
    /\ IsFiniteSet(Source)
    /\ MaxVersion \in Nat
    /\ MaxCrash \in Nat
    /\ Reloads \in BOOLEAN
    /\ Outages \in BOOLEAN

VARIABLES
    newest, enabled,    \* the documents, as in ServedIndex
    index,      \* index_versions with their index_documents
    run,        \* status of index_runs
    call,       \* the CHUNK_EMBEDDING model_calls row of a run
    worker,     \* the in-memory task that carries a run
    taken,      \* what the command line has taken in for its index
    registry,   \* the index a process searches
    reload,     \* the ACTIVE index a reload request of a process has read
    proc,
    stale,      \* run ids a starting process has read as PROCESSING
    crashes

documents == <<newest, enabled>>
rows == <<index, run, call>>
memory == <<registry, reload>>
processes == <<proc, stale, crashes>>
vars == <<documents, rows, worker, taken, memory, processes>>

Collection == [Source -> 0..MaxVersion]
Nothing == [s \in Source |-> 0]
Size(c) == Cardinality({s \in Source : c[s] > 0})

IndexStatus == {"NONE", "BUILDING", "VALIDATING", "READY", "ACTIVE", "INACTIVE", "FAILED"}
RunStatus == {"NONE", "PROCESSING", "SUCCESS", "FAILED"}
CallState == {"NONE", "PROCESSING", "SUCCESS", "FAILED"}
ProcState == {"UP", "DOWN", "CLOSING", "LOADING"}

IndexRow == [status: IndexStatus,
             no: Nat,                       \* version_no, 0 until READY
             docs: Collection,
             expected: 0..Cardinality(Source)]  \* run.summary.document_count
NoIndex == [status |-> "NONE", no |-> 0, docs |-> Nothing, expected |-> 0]

\* CALLING is inside the embedding request, EMBEDDED holds its vectors in an
\* open transaction, VALIDATING and READY are the version status the worker
\* committed, APPLIED has committed the switch, FAILING will record a failure.
Pc == {"NONE", "ACCEPTED", "LOADED", "CALLING", "EMBEDDED", "VALIDATING",
       "READY", "APPLIED", "FAILING"}
Worker == [proc: Proc \cup Shell \cup {None}, pc: Pc, read: Collection]
NoWorker == [proc |-> None, pc |-> "NONE", read |-> Nothing]

Init ==
    /\ newest = Nothing
    /\ enabled = {}
    /\ index = [i \in Index |-> NoIndex]
    /\ run = [i \in Index |-> "NONE"]
    /\ call = [i \in Index |-> "NONE"]
    /\ worker = [i \in Index |-> NoWorker]
    /\ taken = Nothing
    /\ registry = [p \in Proc |-> None]
    /\ reload = [p \in Proc |-> None]
    /\ proc = [p \in Proc |-> "UP"]
    /\ stale = [p \in Proc |-> {}]
    /\ crashes = 0

-----------------------------------------------------------------------------
(* Reads *)

\* A slip: documents and reindexes do not exclude each other.
GateAlwaysOpen == TRUE

\* load_running_job, seen from the index side.
GateOpen == \A i \in Index : run[i] # "PROCESSING"

Latest == [s \in Source |-> IF s \in enabled THEN newest[s] ELSE 0]

Having(status) == {i \in Index : index[i].status = status}

\* load_active_document_versions
Served == [s \in Source |->
              IF \E i \in Having("ACTIVE") : index[i].docs[s] > 0
                THEN index[CHOOSE i \in Having("ACTIVE") : index[i].docs[s] > 0].docs[s]
                ELSE 0]

\* load_pending_documents: NEW, UPDATED and REMOVED documents.
Pending == {s \in Source : Latest[s] # Served[s]}

-----------------------------------------------------------------------------
(* Ingestion results, while no index run is open *)

DocumentChanges ==
    /\ GateOpen
    /\ \E s \in Source :
          \/ /\ newest[s] < MaxVersion
             /\ newest' = [newest EXCEPT ![s] = @ + 1]
             /\ enabled' = enabled \cup {s}
          \/ /\ s \in enabled
             /\ enabled' = enabled \ {s}
             /\ UNCHANGED newest
          \/ /\ s \notin enabled /\ newest[s] > 0
             /\ enabled' = enabled \cup {s}
             /\ UNCHANGED newest
    /\ UNCHANGED <<taken, rows, worker, memory, processes>>

-----------------------------------------------------------------------------
(* start_reindex: refused without a READY document and with nothing pending *)

Accept(p, i) ==
    /\ proc[p] = "UP"
    /\ GateOpen
    /\ index[i].status = "NONE"
    /\ Latest # Nothing
    /\ Pending # {}
    /\ index' = [index EXCEPT ![i] = [NoIndex EXCEPT !.status = "BUILDING",
                                                     !.expected = Size(Latest)]]
    /\ run' = [run EXCEPT ![i] = "PROCESSING"]
    /\ worker' = [worker EXCEPT ![i] = [NoWorker EXCEPT !.proc = p, !.pc = "ACCEPTED"]]
    /\ UNCHANGED <<taken, documents, call, memory, processes>>

-----------------------------------------------------------------------------
(* run_reindex: the command line takes its documents in, one after the      *)
(* other, and indexes exactly these. Its steps are then those of a worker.  *)

ShellTakes(s) ==
    /\ Shell # {}
    /\ \A i \in Index : worker[i].proc \notin Shell
    /\ taken[s] = 0 /\ newest[s] < MaxVersion
    /\ newest' = [newest EXCEPT ![s] = @ + 1]
    /\ enabled' = enabled \cup {s}
    /\ taken' = [taken EXCEPT ![s] = newest'[s]]
    /\ UNCHANGED <<rows, worker, memory, processes>>

\* A document fails: its run is closed (DocumentIngestion!Fail) and nothing is
\* indexed.
ShellGivesUp ==
    /\ taken # Nothing
    /\ taken' = Nothing
    /\ UNCHANGED <<documents, rows, worker, memory, processes>>

ShellStarts(o, i) ==
    /\ taken # Nothing
    /\ index[i].status = "NONE"
    /\ index' = [index EXCEPT ![i] = [NoIndex EXCEPT !.status = "BUILDING",
                                                     !.expected = Size(taken)]]
    /\ run' = [run EXCEPT ![i] = "PROCESSING"]
    /\ worker' = [worker EXCEPT ![i] = [proc |-> o, pc |-> "LOADED", read |-> taken]]
    /\ taken' = Nothing
    /\ UNCHANGED <<documents, call, memory, processes>>

-----------------------------------------------------------------------------
(* run_index_job for run i *)

At(i, pc) == worker[i].pc = pc
Goto(i, pc) == worker' = [worker EXCEPT ![i].pc = pc]
EndWorker(i) == worker' = [worker EXCEPT ![i] = NoWorker]

\* A run that is no longer open is skipped.
Load(i) ==
    /\ At(i, "ACCEPTED")
    /\ \/ /\ run[i] = "PROCESSING"
          /\ worker' = [worker EXCEPT ![i].pc = "LOADED", ![i].read = Latest]
       \/ /\ run[i] # "PROCESSING"
          /\ EndWorker(i)
    /\ UNCHANGED <<taken, documents, rows, memory, processes>>

\* Chunks without a vector are rare: start_embedding_model_call and its commit.
\* The command line embeds them without a model_calls row.
StartCall(i) ==
    /\ At(i, "LOADED")
    /\ worker[i].proc \in Proc
    /\ call' = [call EXCEPT ![i] = "PROCESSING"]
    /\ Goto(i, "CALLING")
    /\ UNCHANGED <<taken, documents, index, run, memory, processes>>

CallFails(i) ==
    /\ At(i, "CALLING")
    /\ call' = [call EXCEPT ![i] = "FAILED"]
    /\ Goto(i, "FAILING")
    /\ UNCHANGED <<taken, documents, index, run, memory, processes>>

CallAnswers(i) ==
    /\ At(i, "CALLING")
    /\ Goto(i, "EMBEDDED")
    /\ UNCHANGED <<taken, documents, rows, memory, processes>>

FinishedCall(i) == IF call[i] = "PROCESSING" THEN "SUCCESS" ELSE call[i]

\* store_index_items: what was read must count what the acceptance counted.
Store(i) ==
    /\ worker[i].pc \in {"LOADED", "EMBEDDED"}
    /\ Size(worker[i].read) = index[i].expected
    /\ index' = [index EXCEPT ![i].status = "VALIDATING", ![i].docs = worker[i].read]
    /\ call' = [call EXCEPT ![i] = FinishedCall(i)]
    /\ Goto(i, "VALIDATING")
    /\ UNCHANGED <<taken, documents, run, memory, processes>>

NextNo == Max({index[j].no : j \in Index} \cup {0}) + 1

\* mark_index_ready
MarkReady(i) ==
    /\ At(i, "VALIDATING")
    /\ index' = [index EXCEPT ![i].status = "READY", ![i].no = NextNo]
    /\ Goto(i, "READY")
    /\ UNCHANGED <<taken, documents, run, call, memory, processes>>

\* A slip: only leftover candidates step down.
RetiredCandidates(i) == Having("READY") \ {i}

\* The ACTIVE version and the candidates left over all step down.
Retired(i) == (Having("ACTIVE") \cup Having("READY")) \ {i}

\* apply_index, load_active_chunks, finish_apply_run: one commit.
Apply(i) ==
    /\ At(i, "READY")
    /\ index' = [j \in Index |->
           IF j = i THEN [index[j] EXCEPT !.status = "ACTIVE"]
           ELSE IF j \in Retired(i) THEN [index[j] EXCEPT !.status = "INACTIVE"]
           ELSE index[j]]
    /\ run' = [run EXCEPT ![i] = "SUCCESS"]
    /\ Goto(i, "APPLIED")
    /\ UNCHANGED <<taken, documents, call, memory, processes>>

\* A slip: the registry is replaced before the switch is committed.
PublishFirst(i) ==
    /\ At(i, "READY")
    /\ registry' = [p \in Proc |-> IF p = worker[i].proc THEN i ELSE registry[p]]
    /\ UNCHANGED <<taken, documents, rows, worker, reload, processes>>

\* _publish_corpus: the registry follows the commit. The command line has none.
Publish(i) ==
    /\ At(i, "APPLIED")
    /\ registry' = [p \in Proc |-> IF p = worker[i].proc THEN i ELSE registry[p]]
    /\ EndWorker(i)
    /\ UNCHANGED <<taken, documents, rows, reload, processes>>

PublishFails(i) ==
    /\ Outages
    /\ At(i, "APPLIED")
    /\ EndWorker(i)
    /\ UNCHANGED <<taken, documents, rows, memory, processes>>

Working(i) == worker[i].pc \notin {"NONE", "ACCEPTED", "CALLING", "APPLIED"}

\* Any stage may raise. The rollback drops the cached rows, fail_index reads
\* them again; a candidate that is READY stays.
Fail(i) ==
    /\ Working(i)
    /\ run[i] = "PROCESSING"
    /\ index[i].status # "ACTIVE"
    /\ index' = [index EXCEPT ![i].status = IF @ = "READY" THEN "READY" ELSE "FAILED"]
    /\ run' = [run EXCEPT ![i] = "FAILED"]
    /\ EndWorker(i)
    /\ UNCHANGED <<taken, documents, call, memory, processes>>

\* fail_index raises for a run that is closed, _record_failure only logs it.
FailRefused(i) ==
    /\ Working(i)
    /\ run[i] # "PROCESSING" \/ index[i].status = "ACTIVE"
    /\ EndWorker(i)
    /\ UNCHANGED <<taken, documents, rows, memory, processes>>

FailureUnrecorded(i) ==
    /\ Outages
    /\ Working(i)
    /\ EndWorker(i)
    /\ UNCHANGED <<taken, documents, rows, memory, processes>>

-----------------------------------------------------------------------------
(* reload_corpus: read the ACTIVE index, then replace the registry entry *)

ReloadRead(p) ==
    /\ Reloads
    /\ proc[p] = "UP"
    /\ reload[p] = None
    /\ \E i \in Having("ACTIVE") : reload' = [reload EXCEPT ![p] = i]
    /\ UNCHANGED <<taken, documents, rows, worker, registry, processes>>

ReloadReplace(p) ==
    /\ reload[p] # None
    /\ registry' = [registry EXCEPT ![p] = reload[p]]
    /\ reload' = [reload EXCEPT ![p] = None]
    /\ UNCHANGED <<taken, documents, rows, worker, processes>>

-----------------------------------------------------------------------------
(* Processes *)

Crash(p) ==
    /\ proc[p] # "DOWN"
    /\ crashes < MaxCrash
    /\ crashes' = crashes + 1
    /\ proc' = [proc EXCEPT ![p] = "DOWN"]
    /\ stale' = [stale EXCEPT ![p] = {}]
    /\ worker' = [i \in Index |-> IF worker[i].proc = p THEN NoWorker ELSE worker[i]]
    /\ registry' = [registry EXCEPT ![p] = None]
    /\ reload' = [reload EXCEPT ![p] = None]
    /\ UNCHANGED <<taken, documents, rows>>

\* A slip: the scan does not ask for open runs only.
ScanEveryRun(p) ==
    /\ proc[p] = "DOWN"
    /\ proc' = [proc EXCEPT ![p] = "CLOSING"]
    /\ stale' = [stale EXCEPT ![p] = {i \in Index : run[i] # "NONE"}]
    /\ UNCHANGED <<taken, documents, rows, worker, memory, crashes>>

StartupScan(p) ==
    /\ proc[p] = "DOWN"
    /\ proc' = [proc EXCEPT ![p] = "CLOSING"]
    /\ stale' = [stale EXCEPT ![p] = {i \in Index : run[i] = "PROCESSING"}]
    /\ UNCHANGED <<taken, documents, rows, worker, memory, crashes>>

\* Slips: READY candidates fail too; only runs of failed candidates are closed.
CloseReadyToo(p) ==
    /\ proc[p] = "CLOSING"
    /\ proc' = [proc EXCEPT ![p] = "LOADING"]
    /\ index' = [i \in Index |->
           IF i \in stale[p] THEN [index[i] EXCEPT !.status = "FAILED"] ELSE index[i]]
    /\ run' = [i \in Index |-> IF i \in stale[p] THEN "FAILED" ELSE run[i]]
    /\ stale' = [stale EXCEPT ![p] = {}]
    /\ UNCHANGED <<taken, documents, call, worker, memory, crashes>>

CloseUnbuiltOnly(p) ==
    LET unbuilt == {i \in stale[p] : index[i].status \in {"BUILDING", "VALIDATING"}} IN
    /\ proc[p] = "CLOSING"
    /\ proc' = [proc EXCEPT ![p] = "LOADING"]
    /\ index' = [i \in Index |->
           IF i \in unbuilt THEN [index[i] EXCEPT !.status = "FAILED"] ELSE index[i]]
    /\ run' = [i \in Index |-> IF i \in unbuilt THEN "FAILED" ELSE run[i]]
    /\ stale' = [stale EXCEPT ![p] = {}]
    /\ UNCHANGED <<taken, documents, call, worker, memory, crashes>>

\* close_interrupted_runs: a READY candidate is kept.
StartupClose(p) ==
    /\ proc[p] = "CLOSING"
    /\ proc' = [proc EXCEPT ![p] = "LOADING"]
    /\ index' = [i \in Index |->
           IF i \in stale[p] /\ index[i].status \in {"BUILDING", "VALIDATING"}
             THEN [index[i] EXCEPT !.status = "FAILED"] ELSE index[i]]
    /\ run' = [i \in Index |-> IF i \in stale[p] THEN "FAILED" ELSE run[i]]
    /\ stale' = [stale EXCEPT ![p] = {}]
    /\ UNCHANGED <<taken, documents, call, worker, memory, crashes>>

StartupCloseFails(p) ==
    /\ Outages
    /\ proc[p] = "CLOSING"
    /\ proc' = [proc EXCEPT ![p] = "LOADING"]
    /\ stale' = [stale EXCEPT ![p] = {}]
    /\ UNCHANGED <<taken, documents, rows, worker, memory, crashes>>

\* _load_corpus_if_available
StartupLoad(p) ==
    /\ proc[p] = "LOADING"
    /\ proc' = [proc EXCEPT ![p] = "UP"]
    /\ \/ /\ Having("ACTIVE") = {}
          /\ UNCHANGED registry
       \/ \E i \in Having("ACTIVE") : registry' = [registry EXCEPT ![p] = i]
    /\ UNCHANGED <<taken, documents, rows, worker, reload, stale, crashes>>

-----------------------------------------------------------------------------

WorkerStep(i) ==
    \/ Load(i)
    \/ StartCall(i)
    \/ CallFails(i)
    \/ CallAnswers(i)
    \/ Store(i)
    \/ MarkReady(i)
    \/ Apply(i)
    \/ Publish(i)
    \/ Fail(i)
    \/ FailRefused(i)

ProcessStep(p) ==
    \/ StartupScan(p)
    \/ StartupClose(p)
    \/ StartupCloseFails(p)
    \/ StartupLoad(p)

Next ==
    \/ DocumentChanges
    \/ \E p \in Proc, i \in Index : Accept(p, i)
    \/ ShellGivesUp
    \/ \E s \in Source : ShellTakes(s)
    \/ \E o \in Shell, i \in Index : ShellStarts(o, i)
    \/ \E i \in Index : WorkerStep(i) \/ PublishFails(i) \/ FailureUnrecorded(i)
    \/ \E p \in Proc : ReloadRead(p) \/ ReloadReplace(p) \/ ProcessStep(p) \/ Crash(p)

\* As in DocumentIngestion: live tasks are scheduled, dead containers restart.
Fairness ==
    /\ \A i \in Index : WF_vars(WorkerStep(i))
    /\ \A p \in Proc : WF_vars(ProcessStep(p)) /\ WF_vars(ReloadReplace(p))

Spec == Init /\ [][Next]_vars
FairSpec == Spec /\ Fairness

-----------------------------------------------------------------------------
(* Properties *)

TypeOK ==
    /\ newest \in Collection
    /\ enabled \subseteq Source
    /\ index \in [Index -> IndexRow]
    /\ run \in [Index -> RunStatus]
    /\ call \in [Index -> CallState]
    /\ worker \in [Index -> Worker]
    /\ taken \in Collection
    /\ registry \in [Proc -> Index \cup {None}]
    /\ reload \in [Proc -> Index \cup {None}]
    /\ proc \in [Proc -> ProcState]
    /\ stale \in [Proc -> SUBSET Index]
    /\ crashes \in 0..MaxCrash

\* A group never has two ACTIVE indexes, however leftovers, failures and
\* restarts fall: apply_index never runs into the unique index of models.py.
OneActive == Cardinality(Having("ACTIVE")) <= 1

\* What chat searches was applied once: a process never holds a candidate that
\* a rollback could take back ("publish after the commit", _apply).
RegistryServesApplied ==
    \A p \in Proc : registry[p] # None => index[registry[p]].status \in {"ACTIVE", "INACTIVE"}

\* An index version is never changed once a number is given to it, so the pair
\* (BM25 corpus, index id) a running request pinned stays one generation.
NumberedIndexIsFixed ==
    [][\A i \in Index : index[i].no > 0 =>
          /\ index'[i].docs = index[i].docs
          /\ index'[i].no = index[i].no
          /\ index'[i].status \notin {"BUILDING", "VALIDATING", "FAILED"}]_vars

\* A run leaves PROCESSING once: the outcome of a closed run is final, whether
\* its worker, its failure handler or a startup pass closed it. It takes a single
\* process.
OnlyOpenRunsFinish ==
    [][\A i \in Index : run'[i] # run[i] /\ run[i] # "NONE" => run[i] = "PROCESSING"]_vars

\* The served collection switches as a whole, to the documents of the moment.
Promise == INSTANCE ServedIndex WITH served <- Served
ImplementsServedIndex == Promise!Spec

\* reload_corpus "replaces the BM25 index with the chunks of the ACTIVE index".
ReloadInstallsActive ==
    [][\A p \in Proc : (reload[p] # None /\ reload'[p] = None /\ proc'[p] = "UP")
          => registry'[p] \in Having("ACTIVE")]_vars

\* Every accepted reindex is closed, by its worker or by the next startup.
EveryRunCloses == \A i \in Index : run[i] = "PROCESSING" ~> run[i] # "PROCESSING"

=============================================================================
