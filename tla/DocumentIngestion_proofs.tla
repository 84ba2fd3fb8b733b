---------------------- MODULE DocumentIngestion_proofs ----------------------
(***************************************************************************)
(* Proofs about DocumentIngestion, for any number of processes, documents, *)
(* bodies and runs, with crashes and outages.                              *)
(***************************************************************************)
EXTENDS DocumentIngestion, TLAPS

-----------------------------------------------------------------------------
(* The inductive invariant *)

\* A run that exists has a document and belongs to its batch, a worker carries
\* an existing run and holds a body once it has begun, and what a starting
\* process has read exists.
KnownRuns ==
    /\ \A r \in Run : run[r].status # "NONE" => run[r].doc \in Doc /\ r \in run[r].batch
    /\ \A r \in Run : worker[r].pc # "NONE" => run[r].status # "NONE"
    /\ \A r \in Run : worker[r].pc \notin {"NONE", "QUEUED"} => worker[r].content \in Content
    /\ \A p \in Proc : \A r \in stale[p] : run[r].status # "NONE"

Typed == TypeOK /\ KnownRuns

-----------------------------------------------------------------------------

\* A run row that has been closed.
ClosedAs(row, status, result) == [row EXCEPT !.status = status, !.result = result]

\* Closing a run row changes its status and its result only.
LEMMA ClosedRow ==
    \A row \in RunRow, status \in {"SUCCESS", "FAILED"}, result \in Result :
        /\ ClosedAs(row, status, result) \in RunRow
        /\ ClosedAs(row, status, result).status = status
        /\ ClosedAs(row, status, result).result = result
        /\ ClosedAs(row, status, result).doc = row.doc
        /\ ClosedAs(row, status, result).batch = row.batch
BY DEF RunRow, ClosedAs

\* Close rewrites one row.
LEMMA CloseRow ==
    ASSUME run \in [Run -> RunRow], NEW r \in Run,
           NEW status \in {"SUCCESS", "FAILED"}, NEW result \in Result,
           Close(r, status, result)
    PROVE  /\ run' \in [Run -> RunRow]
           /\ run'[r].status = status /\ run'[r].result = result
           /\ \A q \in Run : run'[q].doc = run[q].doc /\ run'[q].batch = run[q].batch
           /\ \A q \in Run \ {r} : run'[q] = run[q]
<1>1. run' = [run EXCEPT ![r] = ClosedAs(run[r], status, result)]
  BY DEF Close, ClosedAs
<1> QED BY <1>1, ClosedRow

\* The startup pass rewrites the rows it has read.
LEMMA StartupRows ==
    ASSUME run \in [Run -> RunRow], NEW p \in Proc, StartupClose(p)
    PROVE  /\ run' \in [Run -> RunRow]
           /\ \A q \in Run : run'[q].doc = run[q].doc /\ run'[q].batch = run[q].batch
           /\ \A q \in stale[p] \cap Run : run'[q].status = "FAILED"
           /\ \A q \in Run \ stale[p] : run'[q] = run[q]
<1>1. run' = [q \in Run |-> IF q \in stale[p] THEN ClosedAs(run[q], "FAILED", "INTERRUPTED")
                                            ELSE run[q]]
  BY DEF StartupClose, ClosedAs
<1>2. "INTERRUPTED" \in Result
  BY DEF Result
<1> QED BY <1>1, <1>2, ClosedRow

\* The empty tables and idle processes are well formed.
LEMMA InitTyped == Init => Typed
<1> SUFFICES ASSUME Init PROVE Typed
  OBVIOUS
<1>1. versions \in [Doc -> Seq(Content)]
  BY DEF Init
<1>2. run \in [Run -> RunRow]
  BY DEF Init, NoRun, RunRow
<1>3. worker \in [Run -> Worker]
  BY DEF Init, NoWorker, Worker, Pc
<1>4. KnownRuns
  BY DEF Init, KnownRuns, NoRun, NoWorker
<1> QED
  BY <1>1, <1>2, <1>3, <1>4
     DEF Init, Typed, TypeOK, SourceState, CallState, ProcState

\* The row and the task of an accepted upload or revision are well formed.
LEMMA AcceptTyped ==
    ASSUME Typed,
           NEW p \in Proc, NEW r \in Run, NEW d \in Doc, NEW c \in Content,
           source' = source \/ source' = [source EXCEPT ![d] = "ENABLED"],
           run[r].status = "NONE", Accept(p, r, d, "RECEIVING", c),
           UNCHANGED <<versions, call, proc, stale, indexing, crashes>>
    PROVE  Typed'
BY DEF Typed, TypeOK, KnownRuns, Accept, SourceState, RunRow, Worker, Pc

\* The rows of a recollection are well formed.
LEMMA SyncTyped ==
    ASSUME Typed, NEW p \in Proc, NEW listed \in SUBSET Page,
           NEW taken \in SUBSET Run, NEW rows \in [taken -> Page],
           StartSync(p, listed, rows)
    PROVE  Typed'
<1>1. \A r \in taken : r \in Run /\ rows[r] \in Doc
  BY DEF Doc
<1>2. source' \in [Doc -> SourceState]
  BY DEF StartSync, Typed, TypeOK, SourceState
<1>3. run' = [r \in Run |->
           IF r \notin taken THEN run[r]
           ELSE [status |-> IF rows[r] \in listed THEN "PROCESSING" ELSE "SUCCESS",
                 doc |-> rows[r], batch |-> taken,
                 result |-> IF rows[r] \in listed THEN None ELSE "REMOVED"]]
  BY DEF StartSync
<1>4. worker' = [r \in Run |->
           IF r \in taken /\ rows[r] \in listed
             THEN [proc |-> p, pc |-> "QUEUED", content |-> None]
             ELSE worker[r]]
  BY DEF StartSync
<1>5. UNCHANGED <<versions, call, proc, stale, indexing, crashes>>
  BY DEF StartSync
<1>6. run' \in [Run -> RunRow]
  <2> SUFFICES ASSUME NEW r \in Run PROVE run'[r] \in RunRow
    BY <1>3
  <2>1. CASE r \in taken
    BY <1>1, <1>3, <2>1 DEF RunRow, Result
  <2>2. CASE r \notin taken
    BY <1>3, <2>2 DEF Typed, TypeOK
  <2> QED BY <2>1, <2>2
<1>7. worker' \in [Run -> Worker]
  BY <1>4 DEF Typed, TypeOK, Worker, Pc
<1>8. KnownRuns'
  BY <1>1, <1>3, <1>4, <1>5 DEF Typed, TypeOK, KnownRuns
<1> QED
  BY <1>2, <1>5, <1>6, <1>7, <1>8 DEF Typed, TypeOK

\* A worker that has begun moves on, and only its call may change beside it.
LEMMA GotoTyped ==
    ASSUME Typed, NEW r \in Run, NEW pc \in Pc \ {"NONE", "QUEUED"},
           worker[r].pc \notin {"NONE", "QUEUED"}, Goto(r, pc),
           call' \in [Run -> CallState] \/ UNCHANGED call,
           UNCHANGED <<source, versions, run, proc, stale, indexing, crashes>>
    PROVE  Typed'
<1>1. worker' \in [Run -> Worker]
  BY DEF Goto, Typed, TypeOK, Worker
<1>2. KnownRuns'
  BY DEF Goto, Typed, TypeOK, KnownRuns
<1> QED BY <1>1, <1>2 DEF Typed, TypeOK

\* A worker ends with the run it closes.
LEMMA CloseTyped ==
    ASSUME Typed, NEW r \in Run, run[r].status # "NONE",
           NEW status \in {"SUCCESS", "FAILED"}, NEW result \in Result,
           Close(r, status, result), EndWorker(r),
           versions' \in [Doc -> Seq(Content)] \/ UNCHANGED versions,
           call' \in [Run -> CallState] \/ UNCHANGED call,
           UNCHANGED <<source, proc, stale, indexing, crashes>>
    PROVE  Typed'
<1>1. /\ run' \in [Run -> RunRow]
      /\ run'[r].status # "NONE"
      /\ \A q \in Run : run'[q].doc = run[q].doc /\ run'[q].batch = run[q].batch
      /\ \A q \in Run \ {r} : run'[q] = run[q]
  BY CloseRow DEF Typed, TypeOK
<1>2. worker' \in [Run -> Worker]
  BY DEF EndWorker, NoWorker, Typed, TypeOK, Worker, Pc
<1>3. KnownRuns'
  BY <1>1 DEF EndWorker, NoWorker, Typed, TypeOK, KnownRuns
<1> QED BY <1>1, <1>2, <1>3 DEF Typed, TypeOK

\* Every step keeps the rows, the tasks and the processes well formed.
LEMMA StepTyped == Typed /\ [Next]_vars => Typed'
<1> SUFFICES ASSUME Typed, [Next]_vars PROVE Typed'
  OBVIOUS
<1> USE DEF Typed
<1>1. CASE UNCHANGED vars
  BY <1>1 DEF vars, TypeOK, KnownRuns
<1>2. ASSUME NEW p \in Proc, NEW r \in Run, NEW d \in Upload, NEW c \in Content,
             StartNewDocument(p, r, d, c) \/ StartDocumentRevision(p, r, d, c)
      PROVE  Typed'
  BY <1>2, AcceptTyped DEF StartNewDocument, StartDocumentRevision, Doc
<1>3. ASSUME NEW p \in Proc, NEW listed \in SUBSET Page,
             NEW taken \in SUBSET Run, NEW rows \in [taken -> Page],
             StartSync(p, listed, rows)
      PROVE  Typed'
  BY <1>3, SyncTyped
<1>4. ASSUME NEW r \in Run, NEW c \in Content, FetchPage(r, c)
      PROVE  Typed'
  BY <1>4 DEF FetchPage, At, TypeOK, KnownRuns, Worker, Pc
<1>5. ASSUME NEW r \in Run,
             SetStage(r) \/ ReuseEmbeddings(r) \/ CallAnswers(r)
      PROVE  Typed'
  <2>1. PICK pc \in Pc \ {"NONE", "QUEUED"} : Goto(r, pc)
    BY <1>5 DEF SetStage, NextStage, ReuseEmbeddings, CallAnswers, Pc
  <2>2. worker[r].pc \notin {"NONE", "QUEUED"}
    BY <1>5 DEF SetStage, NextStage, ReuseEmbeddings, CallAnswers, At
  <2>3. UNCHANGED <<source, versions, run, call, proc, stale, indexing, crashes>>
    BY <1>5 DEF SetStage, ReuseEmbeddings, CallAnswers
  <2> QED BY <2>1, <2>2, <2>3, GotoTyped
<1>6. ASSUME NEW r \in Run, Decide(r)
      PROVE  Typed'
  <2>1. CASE EndWorker(r)
    <3>1. PICK status \in {"SUCCESS", "FAILED"}, result \in Result : Close(r, status, result)
      BY <1>6, <2>1 DEF Decide, EndWorker, NoWorker, Goto, TypeOK, Result
    <3> QED BY <1>6, <2>1, <3>1, CloseTyped DEF Decide, Processing
  <2>2. CASE Goto(r, "PARSING") /\ UNCHANGED run
    BY <1>6, <2>2, GotoTyped DEF Decide, At, Pc
  <2> QED BY <1>6, <2>1, <2>2 DEF Decide
<1>7. ASSUME NEW r \in Run, StartCall(r) \/ CallFails(r)
      PROVE  Typed'
  <2>1. PICK pc \in Pc \ {"NONE", "QUEUED"} : Goto(r, pc)
    BY <1>7 DEF StartCall, CallFails, Pc
  <2>2. worker[r].pc \notin {"NONE", "QUEUED"}
    BY <1>7 DEF StartCall, CallFails, At
  <2>3. UNCHANGED <<source, versions, run, proc, stale, indexing, crashes>>
    BY <1>7 DEF StartCall, CallFails
  <2>4. call' \in [Run -> CallState]
    BY <1>7 DEF StartCall, CallFails, TypeOK, CallState
  <2> QED BY <2>1, <2>2, <2>3, <2>4, GotoTyped
<1>8. ASSUME NEW r \in Run, Complete(r)
      PROVE  Typed'
  <2>1. run[r].doc \in Doc /\ worker[r].content \in Content
    BY <1>8 DEF Complete, At, Processing, KnownRuns
  <2>2. versions' \in [Doc -> Seq(Content)]
    BY <1>8, <2>1 DEF Complete, TypeOK
  <2>3. call' \in [Run -> CallState]
    BY <1>8 DEF Complete, FinishedCall, TypeOK, CallState
  <2>4. EndWorker(r) /\ \E result \in Result : Close(r, "SUCCESS", result)
    BY <1>8 DEF Complete, Result
  <2> QED
    BY <1>8, <2>2, <2>3, <2>4, CloseTyped DEF Complete, Processing
<1>9. ASSUME NEW r \in Run, Fail(r) \/ FailureUnrecorded(r) \/ Refused(r)
      PROVE  Typed'
  <2>1. CASE Fail(r)
    BY <2>1, CloseTyped DEF Fail, Result, Processing
  <2>2. CASE FailureUnrecorded(r) \/ Refused(r)
    <3>1. EndWorker(r)
      BY <2>2 DEF FailureUnrecorded, Refused
    <3>2. UNCHANGED <<source, versions, run, call, proc, stale, indexing, crashes>>
      BY <2>2 DEF FailureUnrecorded, Refused
    <3> QED
      BY <3>1, <3>2 DEF EndWorker, NoWorker, TypeOK, KnownRuns, Worker, Pc
  <2> QED BY <1>9, <2>1, <2>2
<1>10. ASSUME NEW p \in Proc, Crash(p)
       PROVE  Typed'
  BY <1>10 DEF Crash, NoWorker, TypeOK, KnownRuns, Worker, Pc, ProcState
<1>11. ASSUME NEW p \in Proc, StartupScan(p) \/ StartupCloseFails(p)
       PROVE  Typed'
  <2>1. stale' \in [Proc -> SUBSET Run]
    BY <1>11 DEF StartupScan, StartupCloseFails, TypeOK
  <2>2. \A q \in Proc : \A r \in stale'[q] : run[r].status # "NONE"
    BY <1>11 DEF StartupScan, StartupCloseFails, Processing, TypeOK, KnownRuns
  <2> QED
    BY <1>11, <2>1, <2>2 DEF StartupScan, StartupCloseFails, TypeOK, KnownRuns, ProcState
<1>12. ASSUME NEW p \in Proc, StartupClose(p)
       PROVE  Typed'
  <2>1. run \in [Run -> RunRow]
    BY DEF TypeOK
  <2>2. run' \in [Run -> RunRow]
    BY <1>12, <2>1, StartupRows
  <2>3. \A r \in Run : /\ run'[r].doc = run[r].doc /\ run'[r].batch = run[r].batch
                        /\ (run[r].status # "NONE" <=> run'[r].status # "NONE")
    BY <1>12, <2>1, StartupRows DEF KnownRuns
  <2>4. stale' \in [Proc -> SUBSET Run] /\ \A q \in Proc : stale'[q] \subseteq stale[q]
    BY <1>12 DEF StartupClose, TypeOK
  <2>5. KnownRuns'
    BY <1>12, <2>3, <2>4 DEF StartupClose, KnownRuns
  <2> QED BY <1>12, <2>2, <2>4, <2>5 DEF StartupClose, TypeOK, ProcState
<1>13. CASE IndexJobStarts \/ IndexJobEnds
  BY <1>13 DEF IndexJobStarts, IndexJobEnds, TypeOK, KnownRuns
<1> QED
  BY <1>1, <1>2, <1>3, <1>4, <1>5, <1>6, <1>7, <1>8, <1>9, <1>10, <1>11, <1>12, <1>13
     DEF Next, Requests, WorkerStep, ProcessStep

\* The tables, the tasks and the processes always have their types.
THEOREM TypeCorrect == Spec => []TypeOK
<1>1. Spec => []Typed
  BY InitTyped, StepTyped, PTL DEF Spec
<1> QED
  BY <1>1, PTL DEF Typed

-----------------------------------------------------------------------------
(* One job at a time: the gate *)

\* A step that only closes runs, or touches none, opens nothing; when no worker
\* begins either, the job stays alone.
LEMMA NothingOpens ==
    ASSUME OneJobAtATime,
           \A q \in Run : Processing(q)' =>
               /\ Processing(q) /\ run'[q].batch = run[q].batch
               /\ Begun(q)' => Begun(q),
           indexing' => indexing
    PROVE  OneJobAtATime'
BY DEF OneJobAtATime, Processing, Begun

\* A run that is accepted finds the gate open, so it is alone.
LEMMA AcceptAlone ==
    ASSUME Typed, GateOpen, NEW p \in Proc, NEW r \in Run, NEW d, NEW c,
           Accept(p, r, d, "RECEIVING", c), UNCHANGED indexing
    PROVE  /\ OneJobAtATime'
           /\ \A q \in Run : Processing(q)' => q = r
<1>1. \A q \in Run \ {r} : run'[q] = run[q]
  BY DEF Accept, Typed, TypeOK
<1> QED
  BY <1>1 DEF GateOpen, OneJobAtATime, Processing

\* The runs of one recollection share their batch and all wait for their turn.
LEMMA SyncTogether ==
    ASSUME Typed, NEW p \in Proc, NEW listed \in SUBSET Page,
           NEW taken \in SUBSET Run, NEW rows \in [taken -> Page],
           StartSync(p, listed, rows)
    PROVE  /\ OneJobAtATime'
           /\ \A r \in Run : Processing(r)' => run'[r].doc \in listed /\ worker'[r].pc = "QUEUED"
<1>1. \A r \in Run : ~Processing(r)
  BY DEF StartSync, GateOpen
<1>2. /\ run' = [r \in Run |->
           IF r \notin taken THEN run[r]
           ELSE [status |-> IF rows[r] \in listed THEN "PROCESSING" ELSE "SUCCESS",
                 doc |-> rows[r], batch |-> taken,
                 result |-> IF rows[r] \in listed THEN None ELSE "REMOVED"]]
      /\ worker' = [r \in Run |->
           IF r \in taken /\ rows[r] \in listed
             THEN [proc |-> p, pc |-> "QUEUED", content |-> None]
             ELSE worker[r]]
      /\ ~indexing'
  BY DEF StartSync, GateOpen
<1>3. \A r \in Run : Processing(r)' =>
          /\ r \in taken /\ rows[r] \in listed
          /\ run'[r].doc = rows[r] /\ run'[r].batch = taken
          /\ worker'[r].pc = "QUEUED"
  BY <1>1, <1>2 DEF Processing
<1> QED BY <1>2, <1>3 DEF OneJobAtATime, Begun

\* One worker moves on. It had begun, or it was its turn: the other open runs
\* are of its batch and have not begun.
LEMMA MovesAlone ==
    ASSUME Typed, OneJobAtATime, NEW r \in Run,
           worker' \in [Run -> Worker], \A q \in Run \ {r} : worker'[q] = worker[q],
           Begun(r) \/ HasTurn(r),
           UNCHANGED <<run, indexing>>
    PROVE  OneJobAtATime'
<1>1. \A q \in Run \ {r} : Begun(q)' <=> Begun(q)
  BY DEF Begun
<1>2. \A q \in Run \ {r} : (Processing(q) /\ Processing(r)) => ~Begun(q)
  <2>1. CASE Begun(r)
    BY <2>1 DEF OneJobAtATime
  <2>2. CASE HasTurn(r)
    <3> SUFFICES ASSUME NEW q \in Run \ {r}, Processing(q), Processing(r) PROVE ~Begun(q)
      OBVIOUS
    <3>1. q \in run[r].batch
      BY DEF OneJobAtATime, Typed, KnownRuns, Processing
    <3> QED BY <2>2, <3>1 DEF HasTurn
  <2> QED BY <2>1, <2>2
<1>3. \A q \in Run : Processing(q)' <=> Processing(q)
  BY DEF Processing
<1> QED BY <1>1, <1>2, <1>3 DEF OneJobAtATime

\* No step lets a second job in, or a second run of a job begin.
LEMMA StepOneJob == Typed /\ OneJobAtATime /\ [Next]_vars => OneJobAtATime'
<1> SUFFICES ASSUME Typed, OneJobAtATime, [Next]_vars PROVE OneJobAtATime'
  OBVIOUS
<1>0. run \in [Run -> RunRow] /\ worker \in [Run -> Worker]
  BY DEF Typed, TypeOK
<1>1. ASSUME UNCHANGED <<run, indexing>>, \A q \in Run : Begun(q)' => Begun(q)
      PROVE  OneJobAtATime'
  BY <1>1, NothingOpens DEF Processing
<1>2. ASSUME NEW p \in Proc, NEW r \in Run, NEW d \in Upload, NEW c \in Content,
             StartNewDocument(p, r, d, c) \/ StartDocumentRevision(p, r, d, c)
      PROVE  OneJobAtATime'
  BY <1>2, AcceptAlone DEF StartNewDocument, StartDocumentRevision
<1>3. ASSUME NEW p \in Proc, NEW listed \in SUBSET Page,
             NEW taken \in SUBSET Run, NEW rows \in [taken -> Page],
             StartSync(p, listed, rows)
      PROVE  OneJobAtATime'
  BY <1>3, SyncTogether
<1>4. ASSUME NEW r \in Run, EndWorker(r), UNCHANGED indexing,
             \/ UNCHANGED run
             \/ \E status \in {"SUCCESS", "FAILED"}, result \in Result : Close(r, status, result)
      PROVE  OneJobAtATime'
  <2>1. \A q \in Run : Begun(q)' => Begun(q)
    BY <1>0, <1>4 DEF EndWorker, NoWorker, Begun
  <2>2. CASE UNCHANGED run
    BY <1>1, <1>4, <2>1, <2>2
  <2>3. ASSUME NEW status \in {"SUCCESS", "FAILED"}, NEW result \in Result,
               Close(r, status, result)
        PROVE  OneJobAtATime'
    BY <1>0, <1>4, <2>1, <2>3, CloseRow, NothingOpens DEF Processing
  <2> QED BY <1>4, <2>2, <2>3
<1>5. ASSUME NEW r \in Run, NEW pc \in Pc, Goto(r, pc), Begun(r), UNCHANGED <<run, indexing>>
      PROVE  OneJobAtATime'
  <2>1. worker' \in [Run -> Worker] /\ \A q \in Run \ {r} : worker'[q] = worker[q]
    BY <1>0, <1>5 DEF Goto, Worker
  <2> QED BY <1>5, <2>1, MovesAlone
<1>6. ASSUME NEW r \in Run, NEW c \in Content, FetchPage(r, c)
      PROVE  OneJobAtATime'
  <2>1. worker' \in [Run -> Worker] /\ \A q \in Run \ {r} : worker'[q] = worker[q]
    BY <1>0, <1>6 DEF FetchPage, Worker, Pc
  <2> QED BY <1>6, <2>1, MovesAlone DEF FetchPage
<1>7. ASSUME NEW r \in Run,
             SetStage(r) \/ ReuseEmbeddings(r) \/ StartCall(r) \/ CallFails(r) \/ CallAnswers(r)
      PROVE  OneJobAtATime'
  <2>1. PICK pc \in Pc : Goto(r, pc)
    BY <1>7 DEF SetStage, NextStage, ReuseEmbeddings, StartCall, CallFails, CallAnswers, Pc
  <2>2. Begun(r)
    BY <1>7 DEF SetStage, NextStage, ReuseEmbeddings, StartCall, CallFails, CallAnswers,
                At, Begun
  <2>3. UNCHANGED <<run, indexing>>
    BY <1>7 DEF SetStage, ReuseEmbeddings, StartCall, CallFails, CallAnswers
  <2> QED BY <1>5, <2>1, <2>2, <2>3
<1>8. ASSUME NEW r \in Run, Decide(r)
      PROVE  OneJobAtATime'
  <2>1. UNCHANGED indexing /\ Begun(r)
    BY <1>8 DEF Decide, At, Begun
  <2>2. CASE EndWorker(r)
    <3>1. \/ UNCHANGED run
          \/ \E status \in {"SUCCESS", "FAILED"}, result \in Result : Close(r, status, result)
      BY <1>8 DEF Decide, Result
    <3> QED BY <1>4, <2>1, <2>2, <3>1
  <2>3. CASE Goto(r, "PARSING") /\ UNCHANGED run
    BY <1>5, <2>1, <2>3 DEF Pc
  <2> QED BY <1>8, <2>2, <2>3 DEF Decide
<1>9. ASSUME NEW r \in Run,
             Complete(r) \/ Fail(r) \/ FailureUnrecorded(r) \/ Refused(r)
      PROVE  OneJobAtATime'
  <2>1. EndWorker(r) /\ UNCHANGED indexing
    BY <1>9 DEF Complete, Fail, FailureUnrecorded, Refused
  <2>2. \/ UNCHANGED run
        \/ \E status \in {"SUCCESS", "FAILED"}, result \in Result : Close(r, status, result)
    BY <1>9 DEF Complete, Fail, FailureUnrecorded, Refused, Result
  <2> QED BY <1>4, <2>1, <2>2
<1>10. ASSUME NEW p \in Proc, StartupClose(p)
       PROVE  OneJobAtATime'
  <2>1. UNCHANGED <<indexing, worker>>
    BY <1>10 DEF StartupClose
  <2> QED BY <1>0, <1>10, <2>1, StartupRows, NothingOpens DEF Processing, Begun
<1>11. CASE IndexJobStarts
  BY <1>11 DEF IndexJobStarts, GateOpen, OneJobAtATime, Processing
<1>12. CASE IndexJobEnds
  BY <1>12, NothingOpens DEF IndexJobEnds, Processing, Begun
<1>13. ASSUME NEW p \in Proc, Crash(p)
       PROVE  OneJobAtATime'
  BY <1>1, <1>13 DEF Crash, NoWorker, Begun
<1>14. ASSUME NEW p \in Proc, StartupScan(p) \/ StartupCloseFails(p)
       PROVE  OneJobAtATime'
  BY <1>1, <1>14 DEF StartupScan, StartupCloseFails, Begun
<1>15. CASE UNCHANGED vars
  BY <1>1, <1>15 DEF vars, Begun
<1> QED
  BY <1>2, <1>3, <1>6, <1>7, <1>8, <1>9, <1>10, <1>11, <1>12, <1>13, <1>14, <1>15
     DEF Next, Requests, WorkerStep, ProcessStep

\* Upload, revision, recollection and reindex exclude each other in a group,
\* whatever number of processes accepts them and however they die.
THEOREM OneJob == Spec => []OneJobAtATime
<1>1. Init => OneJobAtATime
  BY DEF Init, OneJobAtATime, Processing, NoRun
<1>2. Spec => []Typed
  BY InitTyped, StepTyped, PTL DEF Spec
<1> QED
  BY <1>1, <1>2, StepOneJob, PTL DEF Spec

-----------------------------------------------------------------------------
(* What a worker checked at NORMALIZING stays true until it is written *)

Due == {"PARSING", "CHUNKING", "EMBEDDING", "CALLING", "EMBEDDED"}

\* A body on its way to a new version differs from the latest version and, in a
\* console document, from every version of the others.
CheckStands ==
    \A r \in Run : (Processing(r) /\ worker[r].pc \in Due) =>
        /\ Latest(run[r].doc) # worker[r].content
        /\ run[r].doc \in Upload => ~DuplicateElsewhere(run[r].doc, worker[r].content)

BodiesInv == OneJobAtATime /\ CheckStands /\ NoDuplicateUpload /\ VersionsDiffer

\* A step that adds no version, opens no run and brings no worker past the check.
LEMMA ChecksKept ==
    ASSUME CheckStands, NoDuplicateUpload, VersionsDiffer,
           UNCHANGED versions,
           \A q \in Run : Processing(q)' =>
               /\ Processing(q) /\ run'[q].doc = run[q].doc
               /\ worker'[q].pc \in Due =>
                      worker[q].pc \in Due /\ worker'[q].content = worker[q].content
    PROVE  CheckStands' /\ NoDuplicateUpload' /\ VersionsDiffer'
<1>1. /\ \A d : Latest(d)' = Latest(d) /\ Bodies(d)' = Bodies(d)
      /\ \A d, c : DuplicateElsewhere(d, c)' <=> DuplicateElsewhere(d, c)
  BY DEF Latest, Bodies, DuplicateElsewhere
<1>2. CheckStands'
  BY <1>1 DEF CheckStands
<1>3. NoDuplicateUpload' /\ VersionsDiffer'
  BY <1>1 DEF NoDuplicateUpload, VersionsDiffer
<1> QED BY <1>2, <1>3

\* Acceptance: the only open runs are new ones, whose workers check later.
LEMMA AcceptedCheck ==
    ASSUME NoDuplicateUpload, VersionsDiffer, UNCHANGED versions,
           \A q \in Run : Processing(q)' => worker'[q].pc \notin Due
    PROVE  CheckStands' /\ NoDuplicateUpload' /\ VersionsDiffer'
<1>1. \A d : Bodies(d)' = Bodies(d)
  BY DEF Bodies
<1> QED
  BY <1>1 DEF CheckStands, NoDuplicateUpload, VersionsDiffer

\* The body that complete_ingestion appends.
LEMMA Appended ==
    ASSUME Typed, NEW r \in Run, Complete(r)
    PROVE  LET d == run[r].doc IN
           /\ d \in Doc
           /\ Len(versions'[d]) = Len(versions[d]) + 1
           /\ DOMAIN versions'[d] = 1..(Len(versions[d]) + 1)
           /\ \A i \in 1..Len(versions[d]) : versions'[d][i] = versions[d][i]
           /\ versions'[d][Len(versions[d]) + 1] = worker[r].content
           /\ SubSeq(versions'[d], 1, Len(versions[d])) = versions[d]
           /\ \A e \in Doc \ {d} : versions'[e] = versions[e]
<1> DEFINE d == run[r].doc
<1>1. d \in Doc /\ worker[r].content \in Content
  BY DEF Complete, At, Processing, Typed, KnownRuns
<1>2. versions[d] \in Seq(Content)
  BY <1>1 DEF Typed, TypeOK
<1>3. /\ versions'[d] = Append(versions[d], worker[r].content)
      /\ \A e \in Doc \ {d} : versions'[e] = versions[e]
  BY <1>1 DEF Complete, Typed, TypeOK
<1> HIDE DEF d
<1>4. SubSeq(versions'[d], 1, Len(versions[d])) = versions[d]
  BY <1>1, <1>2, <1>3
<1> QED BY <1>1, <1>2, <1>3, <1>4 DEF d

\* The new version keeps what the check at NORMALIZING established: no other open
\* run has a worker past its check, so no other worker's check is disturbed.
LEMMA CompleteBodies ==
    ASSUME Typed, BodiesInv, NEW r \in Run, Complete(r)
    PROVE  CheckStands' /\ NoDuplicateUpload' /\ VersionsDiffer'
<1>0. PICK d \in Doc, c \in Content, n \in Nat :
          d = run[r].doc /\ c = worker[r].content /\ n = Len(versions[d])
  <2>1. run[r].doc \in Doc /\ worker[r].content \in Content
    BY DEF Complete, At, Processing, Typed, KnownRuns
  <2>2. Len(versions[run[r].doc]) \in Nat
    BY <2>1 DEF Typed, TypeOK
  <2> QED BY <2>1, <2>2
<1>1. /\ Processing(r) /\ worker[r].pc \in Due
      /\ EndWorker(r)
      /\ \E result \in Result : Close(r, "SUCCESS", result)
  BY DEF Complete, At, Due, Result
<1>2. /\ d \in Doc
      /\ DOMAIN versions'[d] = 1..(n + 1)
      /\ \A i \in 1..n : versions'[d][i] = versions[d][i]
      /\ versions'[d][n + 1] = c
      /\ \A e \in Doc \ {d} : versions'[e] = versions[e]
  BY <1>0, Appended
<1>3. DOMAIN versions[d] = 1..n /\ versions[d] \in Seq(Content)
  BY <1>0 DEF Typed, TypeOK
<1>4. /\ Latest(d) # c
      /\ d \in Upload => ~DuplicateElsewhere(d, c)
  BY <1>0, <1>1 DEF BodiesInv, CheckStands
<1>5. /\ run \in [Run -> RunRow]
      /\ \A q \in Run \ {r} : run'[q] = run[q] /\ worker'[q] = worker[q]
      /\ run'[r].status = "SUCCESS"
  BY <1>1, CloseRow DEF EndWorker, Typed, TypeOK
<1>6. \A q \in Run : Processing(q)' => worker'[q].pc \notin Due
  <2> SUFFICES ASSUME NEW q \in Run, Processing(q)' PROVE worker'[q].pc \notin Due
    OBVIOUS
  <2>1. q # r /\ worker'[q] = worker[q] /\ Processing(q)
    BY <1>5 DEF Processing
  <2>2. ~Begun(q)
    BY <1>1, <2>1 DEF BodiesInv, OneJobAtATime, Begun, Due
  <2> QED BY <2>1, <2>2 DEF Begun, Due
<1>7. /\ Bodies(d)' = Bodies(d) \cup {c}
      /\ \A e \in Doc \ {d} : Bodies(e)' = Bodies(e) /\ Latest(e)' = Latest(e)
  BY <1>2, <1>3 DEF Bodies, Latest
<1>8. CheckStands'
  BY <1>6 DEF CheckStands
<1>9. NoDuplicateUpload'
  <2>1. d \in Upload => \A u \in Upload \ {d} : c \notin Bodies(u)
    BY <1>4 DEF DuplicateElsewhere
  <2>2. \A u \in Upload : u \in Doc
    BY DEF Doc
  <2> QED BY <1>7, <2>1, <2>2 DEF BodiesInv, NoDuplicateUpload
<1>10. VersionsDiffer'
  <2> SUFFICES ASSUME NEW e \in Doc, NEW i \in DOMAIN versions'[e], i > 1
               PROVE  versions'[e][i] # versions'[e][i - 1]
    BY DEF VersionsDiffer
  <2>1. CASE e # d
    BY <1>2, <2>1 DEF BodiesInv, VersionsDiffer
  <2>2. CASE e = d /\ i = n + 1
    BY <1>2, <1>3, <1>4, <2>2 DEF Latest
  <2>3. CASE e = d /\ i \in 1..n
    <3>1. versions[d][i] # versions[d][i - 1]
      BY <1>3, <2>3 DEF BodiesInv, VersionsDiffer
    <3>2. i - 1 \in 1..n
      BY <2>3
    <3> QED BY <1>2, <2>3, <3>1, <3>2
  <2> QED BY <1>2, <1>3, <2>1, <2>2, <2>3
<1> QED BY <1>8, <1>9, <1>10

\* Every step keeps the checks standing and the bodies distinct.
LEMMA StepBodies == Typed /\ BodiesInv /\ [Next]_vars => BodiesInv'
<1> DEFINE Kept == CheckStands' /\ NoDuplicateUpload' /\ VersionsDiffer'
<1> SUFFICES ASSUME Typed, BodiesInv, [Next]_vars PROVE Kept
  BY StepOneJob DEF BodiesInv
<1> USE DEF BodiesInv
<1>0. run \in [Run -> RunRow] /\ worker \in [Run -> Worker]
  BY DEF Typed, TypeOK
<1>1. ASSUME UNCHANGED versions, UNCHANGED run,
             \A q \in Run : worker'[q].pc \in Due =>
                 worker[q].pc \in Due /\ worker'[q].content = worker[q].content
      PROVE  Kept
  BY <1>1, ChecksKept DEF Processing
<1>2. ASSUME NEW r \in Run, NEW pc \in Pc, Goto(r, pc),
             pc \in Due => worker[r].pc \in Due,
             UNCHANGED versions, UNCHANGED run
      PROVE  Kept
  <2>1. /\ worker'[r].pc = pc /\ worker'[r].content = worker[r].content
        /\ \A q \in Run \ {r} : worker'[q] = worker[q]
    BY <1>0, <1>2 DEF Goto, Worker
  <2> QED BY <1>1, <1>2, <2>1
<1>3. ASSUME NEW r \in Run, EndWorker(r), UNCHANGED versions,
             \/ UNCHANGED run
             \/ \E status \in {"SUCCESS", "FAILED"}, result \in Result : Close(r, status, result)
      PROVE  Kept
  <2>1. /\ worker'[r].pc = "NONE"
        /\ \A q \in Run \ {r} : worker'[q] = worker[q]
    BY <1>0, <1>3 DEF EndWorker, NoWorker
  <2>2. CASE UNCHANGED run
    BY <1>1, <1>3, <2>1, <2>2 DEF Due
  <2>3. ASSUME NEW status \in {"SUCCESS", "FAILED"}, NEW result \in Result,
               Close(r, status, result)
        PROVE  Kept
    <3>1. /\ run'[r].status # "PROCESSING"
          /\ \A q \in Run \ {r} : run'[q] = run[q]
      BY <1>0, <2>3, CloseRow
    <3>2. \A q \in Run : Processing(q)' =>
              Processing(q) /\ run'[q] = run[q] /\ worker'[q] = worker[q]
      BY <2>1, <3>1 DEF Processing
    <3> QED BY <1>3, <3>2, ChecksKept
  <2> QED BY <1>3, <2>2, <2>3
<1>4. CASE UNCHANGED vars
  BY <1>1, <1>4 DEF vars
<1>5. ASSUME NEW p \in Proc, NEW r \in Run, NEW d \in Upload, NEW c \in Content,
             StartNewDocument(p, r, d, c) \/ StartDocumentRevision(p, r, d, c)
      PROVE  Kept
  <2>1. Accept(p, r, d, "RECEIVING", c) /\ GateOpen /\ UNCHANGED <<versions, indexing>>
    BY <1>5 DEF StartNewDocument, StartDocumentRevision
  <2>2. \A q \in Run : Processing(q)' => q = r
    BY <2>1, AcceptAlone
  <2>3. worker'[r].pc = "RECEIVING"
    BY <1>0, <2>1 DEF Accept
  <2> QED BY <2>1, <2>2, <2>3, AcceptedCheck DEF Due
<1>6. ASSUME NEW p \in Proc, NEW listed \in SUBSET Page,
             NEW taken \in SUBSET Run, NEW rows \in [taken -> Page],
             StartSync(p, listed, rows)
      PROVE  Kept
  <2>1. \A r \in Run : Processing(r)' => worker'[r].pc = "QUEUED"
    BY <1>6, SyncTogether
  <2>2. UNCHANGED versions
    BY <1>6 DEF StartSync
  <2> QED BY <2>1, <2>2, AcceptedCheck DEF Due
<1>7. ASSUME NEW r \in Run, NEW c \in Content, FetchPage(r, c)
      PROVE  Kept
  <2>1. /\ worker'[r].pc \notin Due
        /\ \A q \in Run \ {r} : worker'[q] = worker[q]
    BY <1>0, <1>7 DEF FetchPage, Due, Worker
  <2> QED BY <1>1, <1>7, <2>1 DEF FetchPage
<1>8. ASSUME NEW r \in Run, SetStage(r) \/ ReuseEmbeddings(r) \/ CallAnswers(r)
      PROVE  Kept
  <2>1. PICK pc \in Pc : Goto(r, pc) /\ (pc \in Due => worker[r].pc \in Due)
    BY <1>8 DEF SetStage, NextStage, ReuseEmbeddings, CallAnswers, At, Pc, Due
  <2>2. UNCHANGED <<versions, run>>
    BY <1>8 DEF SetStage, ReuseEmbeddings, CallAnswers
  <2> QED BY <1>2, <2>1, <2>2
<1>9. ASSUME NEW r \in Run, StartCall(r) \/ CallFails(r)
      PROVE  Kept
  <2>1. PICK pc \in Pc : Goto(r, pc) /\ (pc \in Due => worker[r].pc \in Due)
    BY <1>9 DEF StartCall, CallFails, At, Pc, Due
  <2>2. UNCHANGED <<versions, run>>
    BY <1>9 DEF StartCall, CallFails
  <2> QED BY <1>2, <2>1, <2>2
<1>10. ASSUME NEW r \in Run, Decide(r)
       PROVE  Kept
  <2>1. CASE EndWorker(r)
    <3>1. \/ UNCHANGED run
          \/ \E status \in {"SUCCESS", "FAILED"}, result \in Result : Close(r, status, result)
      BY <1>10 DEF Decide, Result
    <3> QED BY <1>3, <1>10, <2>1, <3>1 DEF Decide
  <2>2. CASE ~EndWorker(r)
    <3>1. /\ UNCHANGED <<versions, run>> /\ Goto(r, "PARSING")
          /\ Latest(run[r].doc) # worker[r].content
          /\ run[r].doc \in Upload => ~DuplicateElsewhere(run[r].doc, worker[r].content)
      BY <1>10, <2>2 DEF Decide
    <3>2. /\ worker'[r].content = worker[r].content
          /\ \A q \in Run \ {r} : worker'[q] = worker[q]
      BY <1>0, <3>1 DEF Goto, Worker
    <3>3. CheckStands'
      <4>1. \A q \in Run : (Processing(q) /\ worker'[q].pc \in Due) =>
                /\ Latest(run[q].doc) # worker'[q].content
                /\ run[q].doc \in Upload => ~DuplicateElsewhere(run[q].doc, worker'[q].content)
        BY <3>1, <3>2 DEF CheckStands
      <4> QED
        BY <3>1, <4>1 DEF CheckStands, Processing, Latest, DuplicateElsewhere, Bodies
    <3>4. NoDuplicateUpload' /\ VersionsDiffer'
      BY <3>1 DEF Processing, NoDuplicateUpload, Bodies, VersionsDiffer
    <3> QED BY <3>3, <3>4
  <2> QED BY <2>1, <2>2
<1>11. ASSUME NEW r \in Run, Complete(r)
       PROVE  Kept
  BY <1>11, CompleteBodies
<1>12. ASSUME NEW r \in Run, Fail(r) \/ FailureUnrecorded(r) \/ Refused(r)
       PROVE  Kept
  <2>1. /\ EndWorker(r) /\ UNCHANGED versions
        /\ \/ UNCHANGED run
           \/ \E status \in {"SUCCESS", "FAILED"}, result \in Result : Close(r, status, result)
    BY <1>12 DEF Fail, FailureUnrecorded, Refused, Result
  <2> QED BY <1>3, <2>1
<1>13. ASSUME NEW p \in Proc, Crash(p)
       PROVE  Kept
  <2>1. \A q \in Run : worker'[q] = worker[q] \/ worker'[q].pc = "NONE"
    BY <1>13 DEF Crash, NoWorker
  <2> QED BY <1>1, <1>13, <2>1 DEF Crash, Due
<1>14. ASSUME NEW p \in Proc, StartupScan(p) \/ StartupCloseFails(p)
       PROVE  Kept
  BY <1>1, <1>14 DEF StartupScan, StartupCloseFails
<1>15. ASSUME NEW p \in Proc, StartupClose(p)
       PROVE  Kept
  <2>1. UNCHANGED <<versions, worker>>
    BY <1>15 DEF StartupClose
  <2>2. \A q \in Run : Processing(q)' => Processing(q) /\ run'[q] = run[q]
    BY <1>0, <1>15, StartupRows DEF Processing
  <2> QED BY <2>1, <2>2, ChecksKept
<1>16. CASE IndexJobStarts \/ IndexJobEnds
  BY <1>1, <1>16 DEF IndexJobStarts, IndexJobEnds
<1> QED
  BY <1>4, <1>5, <1>6, <1>7, <1>8, <1>9, <1>10, <1>11, <1>12, <1>13, <1>14, <1>15, <1>16
     DEF Next, Requests, WorkerStep, ProcessStep

\* The inductive invariant of the bodies holds throughout.
LEMMA BodiesAlways == Spec => [](Typed /\ BodiesInv)
<1>1. Init => BodiesInv
  BY DEF Init, BodiesInv, OneJobAtATime, CheckStands, NoDuplicateUpload,
         VersionsDiffer, Processing, Bodies, NoRun, Doc
<1> QED
  BY <1>1, InitTyped, StepTyped, StepBodies, PTL DEF Spec

\* Two console documents never hold the same body in any version.
THEOREM UploadsDoNotRepeat == Spec => []NoDuplicateUpload
BY BodiesAlways, PTL DEF BodiesInv

\* Consecutive versions of a document always differ.
THEOREM VersionsAlwaysDiffer == Spec => []VersionsDiffer
BY BodiesAlways, PTL DEF BodiesInv

-----------------------------------------------------------------------------
(* Where versions come from *)

\* complete_ingestion is the only writer, and it closes its run.
LEMMA StepVersions ==
    ASSUME Typed, [Next]_vars, NEW d \in Doc, versions'[d] # versions[d]
    PROVE  /\ SubSeq(versions'[d], 1, Len(versions[d])) = versions[d]
           /\ Len(versions'[d]) = Len(versions[d]) + 1
           /\ \E r \in Run :
                 /\ run[r].doc = d /\ Processing(r)
                 /\ run'[r].status = "SUCCESS"
                 /\ run'[r].result = IF versions[d] = <<>> THEN "CREATED" ELSE "UPDATED"
<1>1. PICK r \in Run : Complete(r)
  <2>1. ASSUME NEW p \in Proc, Requests(p) \/ ProcessStep(p) \/ Crash(p)
        PROVE  UNCHANGED versions
    BY <2>1 DEF Requests, ProcessStep, Crash, StartNewDocument, StartDocumentRevision,
                StartSync, StartupScan, StartupClose, StartupCloseFails
  <2>2. ASSUME NEW r \in Run, WorkerStep(r) \/ FailureUnrecorded(r), ~Complete(r)
        PROVE  UNCHANGED versions
    BY <2>2 DEF WorkerStep, FetchPage, SetStage, Decide, ReuseEmbeddings, StartCall,
                CallFails, CallAnswers, Fail, FailureUnrecorded, Refused
  <2>3. ASSUME IndexJobStarts \/ IndexJobEnds \/ UNCHANGED vars
        PROVE  UNCHANGED versions
    BY <2>3 DEF IndexJobStarts, IndexJobEnds, vars
  <2> QED BY <2>1, <2>2, <2>3 DEF Next
<1>2. d = run[r].doc
  BY <1>1, Appended
<1>3. /\ SubSeq(versions'[d], 1, Len(versions[d])) = versions[d]
      /\ Len(versions'[d]) = Len(versions[d]) + 1
  BY <1>1, <1>2, Appended
<1>4. run \in [Run -> RunRow]
  BY DEF Typed, TypeOK
<1>5. /\ Processing(r)
      /\ Close(r, "SUCCESS", IF versions[d] = <<>> THEN "CREATED" ELSE "UPDATED")
  BY <1>1, <1>2 DEF Complete
<1>6. (IF versions[d] = <<>> THEN "CREATED" ELSE "UPDATED") \in Result
  BY DEF Result
<1>7. /\ run'[r].status = "SUCCESS"
      /\ run'[r].result = IF versions[d] = <<>> THEN "CREATED" ELSE "UPDATED"
  BY <1>4, <1>5, <1>6, CloseRow
<1> QED BY <1>2, <1>3, <1>5, <1>7

\* A version is appended, never replaced or lost, and only in the commit that
\* closes an open run of its document with the right result.
THEOREM OnlyOpenRunsAddVersions == Spec => VersionsComeFromOpenRuns
<1>1. Typed /\ [Next]_vars =>
          [\A d \in Doc : versions'[d] # versions[d] =>
              /\ SubSeq(versions'[d], 1, Len(versions[d])) = versions[d]
              /\ Len(versions'[d]) = Len(versions[d]) + 1
              /\ \E r \in Run :
                    /\ run[r].doc = d /\ Processing(r)
                    /\ run'[r].status = "SUCCESS"
                    /\ run'[r].result = IF versions[d] = <<>> THEN "CREATED"
                                                             ELSE "UPDATED"]_vars
  BY StepVersions
<1>2. Spec => []Typed
  BY InitTyped, StepTyped, PTL DEF Spec
<1> QED
  BY <1>1, <1>2, PTL DEF Spec, VersionsComeFromOpenRuns

-----------------------------------------------------------------------------
(* Documents that the listing dropped *)

UploadsStayEnabled == \A u \in Upload : source[u] # "DISABLED"
EnabledInv == OpenRunsAreEnabled /\ UploadsStayEnabled

\* Only a recollection disables a page, and it passes the gate.
LEMMA StepEnabled == Typed /\ EnabledInv /\ [Next]_vars => EnabledInv'
<1> SUFFICES ASSUME Typed, EnabledInv, [Next]_vars PROVE EnabledInv'
  OBVIOUS
<1> USE DEF EnabledInv
<1>0. run \in [Run -> RunRow] /\ source \in [Doc -> SourceState]
  BY DEF Typed, TypeOK
<1>1. ASSUME UNCHANGED source,
             \A q \in Run : Processing(q)' => Processing(q) /\ run'[q].doc = run[q].doc
      PROVE  EnabledInv'
  BY <1>1 DEF OpenRunsAreEnabled, UploadsStayEnabled
<1>2. ASSUME NEW p \in Proc, NEW r \in Run, NEW d \in Upload, NEW c \in Content,
             StartNewDocument(p, r, d, c) \/ StartDocumentRevision(p, r, d, c)
      PROVE  EnabledInv'
  <2>1. Accept(p, r, d, "RECEIVING", c) /\ GateOpen /\ UNCHANGED indexing
    BY <1>2 DEF StartNewDocument, StartDocumentRevision
  <2>2. \A q \in Run : Processing(q)' => q = r
    BY <2>1, AcceptAlone
  <2>3. run'[r].doc = d
    BY <1>0, <2>1 DEF Accept
  <2>4. source'[d] = "ENABLED" /\ \A u \in Upload \ {d} : source'[u] = source[u]
    BY <1>0, <1>2 DEF StartNewDocument, StartDocumentRevision, UploadsStayEnabled,
                      SourceState, Doc
  <2> QED BY <2>2, <2>3, <2>4 DEF OpenRunsAreEnabled, UploadsStayEnabled
<1>3. ASSUME NEW p \in Proc, NEW listed \in SUBSET Page,
             NEW taken \in SUBSET Run, NEW rows \in [taken -> Page],
             StartSync(p, listed, rows)
      PROVE  EnabledInv'
  <2>1. \A r \in Run : Processing(r)' => run'[r].doc \in listed
    BY <1>3, SyncTogether
  <2>2. /\ \A d \in listed : source'[d] = "ENABLED"
        /\ \A u \in Upload : source'[u] = source[u]
    BY <1>0, <1>3, IngestionAssumption DEF StartSync, Doc
  <2> QED BY <2>1, <2>2 DEF OpenRunsAreEnabled, UploadsStayEnabled
<1>4. ASSUME NEW r \in Run, NEW status \in {"SUCCESS", "FAILED"}, NEW result \in Result,
             Close(r, status, result), UNCHANGED source
      PROVE  EnabledInv'
  BY <1>0, <1>1, <1>4, CloseRow DEF Processing
<1>5. ASSUME NEW r \in Run, WorkerStep(r) \/ FailureUnrecorded(r)
      PROVE  EnabledInv'
  <2>1. UNCHANGED source
    BY <1>5 DEF WorkerStep, FetchPage, SetStage, Decide, ReuseEmbeddings, StartCall,
                CallFails, CallAnswers, Complete, Fail, FailureUnrecorded, Refused
  <2>2. \/ UNCHANGED run
        \/ \E status \in {"SUCCESS", "FAILED"}, result \in Result : Close(r, status, result)
    <3>1. CASE Decide(r)
      BY <3>1 DEF Decide, Result
    <3>2. CASE Complete(r) \/ Fail(r)
      BY <3>2 DEF Complete, Fail, Result
    <3> QED
      BY <1>5, <3>1, <3>2 DEF WorkerStep, FetchPage, SetStage, ReuseEmbeddings, StartCall,
                              CallFails, CallAnswers, FailureUnrecorded, Refused
  <2> QED BY <1>1, <1>4, <2>1, <2>2 DEF Processing
<1>6. ASSUME NEW p \in Proc, StartupClose(p)
      PROVE  EnabledInv'
  <2>1. UNCHANGED source
    BY <1>6 DEF StartupClose
  <2> QED BY <1>0, <1>1, <1>6, <2>1, StartupRows DEF Processing
<1>7. ASSUME NEW p \in Proc, Crash(p) \/ StartupScan(p) \/ StartupCloseFails(p)
      PROVE  EnabledInv'
  BY <1>1, <1>7 DEF Crash, StartupScan, StartupCloseFails, Processing
<1>8. CASE IndexJobStarts \/ IndexJobEnds \/ UNCHANGED vars
  BY <1>1, <1>8 DEF IndexJobStarts, IndexJobEnds, vars, Processing
<1> QED
  BY <1>2, <1>3, <1>5, <1>6, <1>7, <1>8 DEF Next, Requests, ProcessStep

\* An open run always belongs to a document that search may use.
THEOREM OpenRunsEnabled == Spec => []OpenRunsAreEnabled
<1>1. Init => EnabledInv
  BY DEF Init, EnabledInv, OpenRunsAreEnabled, UploadsStayEnabled, Processing, NoRun, Doc
<1>2. Spec => []Typed
  BY InitTyped, StepTyped, PTL DEF Spec
<1> QED
  BY <1>1, <1>2, StepEnabled, PTL DEF Spec, EnabledInv

=============================================================================
