--------------------------- MODULE EvaluationRuns ---------------------------
(***************************************************************************)
(* The runs and plans of the offline cache evaluation over one registry of *)
(* files.  An evaluator is a process that an operator starts, either for   *)
(* one run or for a plan, which prepares its turns once and runs one child *)
(* run per judge in order.  Nothing but files is shared: a run or plan is  *)
(* owned by whoever creates its state file, state files are replaced       *)
(* atomically, everything else is written once.                            *)
(*                                                                         *)
(* Each file is written in a step of its own.  A write may fail, a signal  *)
(* may arrive just after it (both raise in the code that called it), or    *)
(* the process may be killed before it; a file may be edited by hand       *)
(* afterwards, for the registry is a checkout.                             *)
(***************************************************************************)
EXTENDS CacheProbe, Sequences, FiniteSets, SequencesExt

CONSTANTS
    Evaluator,  \* processes
    Run,        \* run ids
    Plan,       \* plan ids
    PlanOf,     \* the plan an evaluator is started for, None for one run
    RunsOf,     \* its run ids in order; one for an evaluator without a plan
    Turns,      \* the number of turns of the selection
    Data,       \* what the turns may meet: sequences of turn data
    Verdict,    \* what judge and gate may make of a judged turn
    MaxFaults,  \* bound on writes that fail, signals, kills and edits
    None

ASSUME EvaluationAssumption ==
    /\ PlanOf \in [Evaluator -> Plan \cup {None}]
    /\ RunsOf \in [Evaluator -> Seq(Run)]
    /\ \A e \in Evaluator :
          /\ RunsOf[e] # <<>> /\ IsInjective(RunsOf[e])
          /\ PlanOf[e] = None => Len(RunsOf[e]) = 1
    /\ Turns \in Nat \ {0}
    /\ \A d \in Data : Len(d) = Turns /\ \A t \in 1 .. Turns : d[t] \in TurnData
    /\ Verdict \subseteq Outcomes
    /\ MaxFaults \in Nat
    /\ None \notin Plan

VARIABLES
    data,       \* what the turns of the selection meet
    runState,   \* state/<run>.json
    saved,      \* checkpoints/<run>/: the turns recorded so far
    result,     \* <run>.json
    failure,    \* failures/<run>.json
    planState,  \* plans/state/<plan>.json
    record,     \* plans/<plan>.json
    proc,       \* the evaluators
    faults, edited

vars == <<data, runState, saved, result, failure, planState, record, proc,
          faults, edited>>

files == <<runState, saved, result, failure, planState, record>>

\* A state file, with the evaluator that created it; one that was created and
\* not written cannot be read.
State(status, by, done) == [status |-> status, by |-> by, done |-> done]

Idle == [pc |-> "idle", at |-> 1, seen |-> <<>>, refs |-> <<>>,
         bundle |-> "none", lost |-> FALSE]

\* Where an evaluator is: at a write or a decision of its run or plan, or over.
Pc == {"idle", "reserve_plan", "prepare", "prepared", "reserve", "execute",
       "checkpoint", "count", "finalize", "write", "succeed", "fail_file",
       "fail_state", "refer", "plan_checkpoint", "finalize_plan", "abort",
       "record_plan", "succeed_plan", "unsaved_plan", "fail_plan",
       "ended", "raised", "killed"}

\* The files, by what is in them, and what an evaluator has in memory
Observation == {Direct(d, v) : d \in TurnData, v \in Verdict}
                 \cup {Child(d, Prepare(d), v) : d \in TurnData, v \in Verdict}
RunStatus == {"TORN", "RUNNING", "FINALIZING", "SUCCEEDED", "FAILED",
              "FINALIZATION_INCOMPLETE"}
RunFile == [status: RunStatus, by: Evaluator, done: Nat]
TurnFile == [by: Evaluator, observed: Observation]
ResultFile == [by: Evaluator, observed: Seq(Observation)]
FailureFile == [by: Evaluator, status: {"FAILED", "FINALIZATION_INCOMPLETE"}]
PlanStatus == RunStatus \ {"FINALIZING"}
PlanFile == [status: PlanStatus, by: Evaluator, done: Seq(ResultFile)]
Process == [pc: Pc, at: Nat, seen: Seq(Observation), refs: Seq(ResultFile),
            bundle: {"none", "open", "closed"}, lost: BOOLEAN]

\* None is the content of no file.
ASSUME SentinelAssumption ==
  None \notin RunFile \cup TurnFile \cup ResultFile \cup FailureFile
               \cup PlanFile \cup Seq(ResultFile)

Init ==
  /\ data \in Data
  /\ runState = [r \in Run |-> None]
  /\ saved = [r \in Run |-> [t \in 1 .. Turns |-> None]]
  /\ result = [r \in Run |-> None]
  /\ failure = [r \in Run |-> None]
  /\ planState = [p \in Plan |-> None]
  /\ record = [p \in Plan |-> None]
  /\ proc = [e \in Evaluator |-> Idle]
  /\ faults = 0
  /\ edited = {}

Planned(e) == PlanOf[e] # None

RunId(e) == RunsOf[e][proc[e].at]

At(e, pc) == proc[e].pc = pc

Goes(e, pc) == proc' = [proc EXCEPT ![e].pc = pc]

Over(e) == proc[e].pc \in {"ended", "raised", "killed"}

Fault == faults < MaxFaults /\ faults' = faults + 1

\* The step of e that writes a file. It succeeds and the code goes on; or an
\* exception is raised: the write did not happen, or it did and a signal came
\* before the next instruction.
Writes(e, effect, nothing, next, onError) ==
  \/ effect /\ Goes(e, next) /\ UNCHANGED faults
  \/ Fault /\ (effect \/ nothing) /\ Goes(e, onError)

\* The same where no handler follows, in an error handler or a reservation:
\* what the exception keeps from being written stays unwritten.
WritesLast(e, effect, nothing, next, onError) ==
  \/ effect /\ Goes(e, next) /\ UNCHANGED faults
  \/ /\ Fault /\ (effect \/ nothing)
     /\ proc' = [proc EXCEPT ![e].pc = onError, ![e].lost = TRUE]

(***************************************************************************)
(* One run: reserve, then execute and record turn by turn, then finalize.  *)
(***************************************************************************)

\* A slip: only a finished run is in the way.
AvailableUnlessFinished(r) == result[r] = None

Available(r) == result[r] = None /\ runState[r] = None

\* Where an exception of a run ends up: its plan, or the operator.
Unwound(e) == IF Planned(e) THEN "abort" ELSE "raised"

\* Reserving is outside of the part that records failures.
Reserve(e) ==
  /\ At(e, "reserve")
  /\ LET r == RunId(e)
         put(s) == runState' = [runState EXCEPT ![r] = State(s, e, 0)]
     IN \/ /\ Available(r)
           /\ WritesLast(e, put("RUNNING"), put("TORN") \/ UNCHANGED runState,
                         "execute", Unwound(e))
        \/ /\ ~Available(r)
           /\ Goes(e, Unwound(e)) /\ UNCHANGED <<runState, faults>>
  /\ UNCHANGED <<data, saved, result, failure, planState, record, edited>>

\* A slip: it is passed on as it is.
PassedOn(e) == Unwound(e)

\* An exception of a reserved run is recorded.
Recorded(e) == "fail_file"

\* What the turn is measured as; the children of a plan take it from what was
\* prepared and their evidence is checked.
Observed(e, t, verdict) ==
  LET p == Prepare(data[t])
      o == Child(data[t], p, verdict)
  IN IF ~Planned(e) THEN Direct(data[t], verdict)
     ELSE IF Accepted(data[t], p, o) THEN o ELSE Raises

Execute(e) ==
  /\ At(e, "execute")
  /\ LET t == Len(proc[e].seen) + 1
     IN \/ \E v \in Verdict :
             LET o == Observed(e, t, v)
             IN /\ UNCHANGED faults
                /\ IF o = Raises THEN Goes(e, Recorded(e))
                   ELSE proc' = [proc EXCEPT ![e].pc = "checkpoint",
                                             ![e].seen = Append(@, o)]
        \/ Fault /\ Goes(e, Recorded(e))
  /\ UNCHANGED <<data, files, edited>>

Checkpoint(e) ==
  /\ At(e, "checkpoint")
  /\ LET r == RunId(e)
         t == Len(proc[e].seen)
         put == saved' = [saved EXCEPT ![r][t] =
                            [by |-> e, observed |-> proc[e].seen[t]]]
     IN \/ /\ saved[r][t] = None
           /\ Writes(e, put, UNCHANGED saved, "count", Recorded(e))
        \/ /\ saved[r][t] # None
           /\ Goes(e, Recorded(e)) /\ UNCHANGED <<saved, faults>>
  /\ UNCHANGED <<data, runState, result, failure, planState, record, edited>>

Count(e) ==
  /\ At(e, "count")
  /\ Writes(e, runState' = [runState EXCEPT ![RunId(e)].done = @ + 1],
            UNCHANGED runState,
            IF Len(proc[e].seen) = Turns THEN "finalize" ELSE "execute",
            Recorded(e))
  /\ UNCHANGED <<data, saved, result, failure, planState, record, edited>>

BeginFinalization(e) ==
  /\ At(e, "finalize")
  /\ Writes(e, runState' = [runState EXCEPT ![RunId(e)].status = "FINALIZING"],
            UNCHANGED runState, "write", Recorded(e))
  /\ UNCHANGED <<data, saved, result, failure, planState, record, edited>>

WriteRun(e) ==
  /\ At(e, "write")
  /\ LET r == RunId(e)
         put == result' = [result EXCEPT ![r] =
                             [by |-> e, observed |-> proc[e].seen]]
     IN \/ /\ result[r] = None
           /\ Writes(e, put, UNCHANGED result, "succeed", Recorded(e))
        \/ /\ result[r] # None
           /\ Goes(e, Recorded(e)) /\ UNCHANGED <<result, faults>>
  /\ UNCHANGED <<data, runState, saved, failure, planState, record, edited>>

Succeed(e) ==
  /\ At(e, "succeed")
  /\ Writes(e, runState' = [runState EXCEPT ![RunId(e)].status = "SUCCEEDED"],
            UNCHANGED runState,
            IF Planned(e) THEN "refer" ELSE "ended", Recorded(e))
  /\ UNCHANGED <<data, saved, result, failure, planState, record, edited>>

\* A slip: an exception is a failure.
FailedAlways(published) == "FAILED"

\* A run that has published its result has not failed, whatever comes after.
FailedStatus(published) ==
  IF published THEN "FINALIZATION_INCOMPLETE" ELSE "FAILED"

FailFile(e) ==
  /\ At(e, "fail_file")
  /\ LET r == RunId(e)
         put == failure' = [failure EXCEPT ![r] =
                  [by |-> e, status |-> FailedStatus(result[r] # None)]]
     IN \/ /\ failure[r] = None
           /\ WritesLast(e, put, UNCHANGED failure, "fail_state", Unwound(e))
        \/ /\ failure[r] # None
           /\ Goes(e, Unwound(e)) /\ UNCHANGED <<failure, faults>>
  /\ UNCHANGED <<data, runState, saved, result, planState, record, edited>>

FailState(e) ==
  /\ At(e, "fail_state")
  /\ LET r == RunId(e)
     IN WritesLast(e, runState' = [runState EXCEPT ![r].status =
                                     failure[r].status],
                   UNCHANGED runState, Unwound(e), Unwound(e))
  /\ UNCHANGED <<data, saved, result, failure, planState, record, edited>>

(***************************************************************************)
(* A plan: reserve, prepare once, run its children in order, close what    *)
(* was prepared, and record that all of them succeeded.                    *)
(***************************************************************************)

\* The preflight of a plan looks at all its runs, that of a run at its own;
\* neither writes.
Preflight(e) == \A i \in DOMAIN RunsOf[e] : Available(RunsOf[e][i])

Start(e) ==
  /\ At(e, "idle") /\ Preflight(e)
  /\ Goes(e, IF Planned(e) THEN "reserve_plan" ELSE "reserve")
  /\ UNCHANGED <<data, files, faults, edited>>

ReservePlan(e) ==
  /\ At(e, "reserve_plan")
  /\ LET p == PlanOf[e]
         free == record[p] = None /\ planState[p] = None
         put(s) == planState' = [planState EXCEPT ![p] = State(s, e, <<>>)]
     IN \/ /\ free
           /\ WritesLast(e, put("RUNNING"), put("TORN") \/ UNCHANGED planState,
                         "prepare", "raised")
        \/ ~free /\ Goes(e, "raised") /\ UNCHANGED <<planState, faults>>
  /\ UNCHANGED <<data, runState, saved, result, failure, record, edited>>

\* A preparation that raises has closed its own bundle.
PrepareInputs(e) ==
  /\ At(e, "prepare")
  /\ \/ /\ proc' = [proc EXCEPT ![e].pc = "prepared", ![e].bundle = "open"]
        /\ UNCHANGED faults
     \/ Fault /\ Goes(e, "fail_plan")
  /\ UNCHANGED <<data, files, edited>>

RecordPrepared(e) ==
  /\ At(e, "prepared")
  /\ Writes(e, UNCHANGED planState, UNCHANGED planState, "reserve", "abort")
  /\ UNCHANGED <<data, files, edited>>

\* The reference to a child's result is made from the file as it is read.
Refer(e) ==
  /\ At(e, "refer")
  /\ \/ /\ proc' = [proc EXCEPT ![e].pc = "plan_checkpoint",
                                ![e].refs = Append(@, result[RunId(e)])]
        /\ UNCHANGED faults
     \/ Fault /\ Goes(e, "abort")
  /\ UNCHANGED <<data, files, edited>>

\* The reference is recorded if the file is still what it was made from.
PlanCheckpoint(e) ==
  /\ At(e, "plan_checkpoint")
  /\ LET p == PlanOf[e]
         same == result[RunId(e)] = proc[e].refs[proc[e].at]
         last == proc[e].at = Len(RunsOf[e])
         put == planState' = [planState EXCEPT ![p].done =
                                Append(@, proc[e].refs[proc[e].at])]
         more == proc' = [proc EXCEPT ![e].pc = "reserve",
                                      ![e].at = @ + 1, ![e].seen = <<>>]
     IN \/ same /\ put /\ ~last /\ more /\ UNCHANGED faults
        \/ same /\ put /\ last /\ Goes(e, "finalize_plan") /\ UNCHANGED faults
        \/ same /\ Fault /\ (put \/ UNCHANGED planState) /\ Goes(e, "abort")
        \/ ~same /\ Goes(e, "abort") /\ UNCHANGED <<planState, faults>>
  /\ UNCHANGED <<data, runState, saved, result, failure, record, edited>>

\* Closing the bundle comes before the outcome of the plan is written, after
\* an exception and without one.
Finalize(e) ==
  /\ proc[e].pc \in {"finalize_plan", "abort"}
  /\ LET clean == At(e, "finalize_plan")
         next == IF clean THEN "record_plan" ELSE "fail_plan"
     IN \/ /\ proc' = [proc EXCEPT ![e].pc = next, ![e].bundle = "closed"]
           /\ UNCHANGED faults
        \/ /\ Fault
           /\ proc' = [proc EXCEPT ![e].pc = "fail_plan",
                                   ![e].bundle = "closed"]
  /\ UNCHANGED <<data, files, edited>>

\* The references hold as long as the files are what they were.
Unchanged(e) ==
  \A i \in DOMAIN RunsOf[e] : result[RunsOf[e][i]] = proc[e].refs[i]

RecordPlan(e) ==
  /\ At(e, "record_plan")
  /\ LET p == PlanOf[e]
         put == record' = [record EXCEPT ![p] = proc[e].refs]
     IN \/ /\ Unchanged(e) /\ planState[p].done = proc[e].refs
           /\ record[p] = None
           /\ Writes(e, put, UNCHANGED record, "succeed_plan", "fail_plan")
        \/ /\ ~Unchanged(e)
           /\ Goes(e, "fail_plan") /\ UNCHANGED <<record, faults>>
  /\ UNCHANGED <<data, runState, saved, result, failure, planState, edited>>

SucceedPlan(e) ==
  /\ At(e, "succeed_plan")
  /\ LET put == planState' = [planState EXCEPT ![PlanOf[e]].status = "SUCCEEDED"]
     IN \/ put /\ Goes(e, "ended") /\ UNCHANGED faults
        \/ /\ Fault /\ (put \/ UNCHANGED planState)
           /\ Goes(e, "unsaved_plan") \/ Goes(e, "fail_plan")
  /\ UNCHANGED <<data, runState, saved, result, failure, record, edited>>

\* An error while saving the success, unlike a signal, is marked before it is
\* reported.
MarkIncomplete(e) ==
  /\ At(e, "unsaved_plan")
  /\ WritesLast(e, planState' = [planState EXCEPT ![PlanOf[e]].status =
                                   "FINALIZATION_INCOMPLETE"],
                UNCHANGED planState, "fail_plan", "fail_plan")
  /\ UNCHANGED <<data, runState, saved, result, failure, record, edited>>

FailPlan(e) ==
  /\ At(e, "fail_plan")
  /\ LET p == PlanOf[e]
     IN \/ /\ planState[p].status = "RUNNING"
           /\ WritesLast(e, planState' = [planState EXCEPT ![p].status =
                                            FailedStatus(record[p] # None)],
                         UNCHANGED planState, "raised", "raised")
        \/ /\ planState[p].status # "RUNNING"
           /\ Goes(e, "raised") /\ UNCHANGED <<planState, faults>>
  /\ UNCHANGED <<data, runState, saved, result, failure, record, edited>>

(***************************************************************************)
(* The environment.                                                        *)
(***************************************************************************)

\* Nothing of a killed process runs, not even its handlers.
Kill(e) ==
  /\ ~At(e, "idle") /\ ~Over(e)
  /\ Fault
  /\ Goes(e, "killed")
  /\ UNCHANGED <<data, files, edited>>

\* The result of a run is edited by hand, while no evaluator is between writing
\* it and making its plan's reference to it.
Edit(r) ==
  /\ result[r] # None /\ r \notin edited
  /\ \A e \in Evaluator :
        Over(e) \/ At(e, "idle") \/ RunId(e) # r \/ proc[e].at \in DOMAIN proc[e].refs
  /\ Fault
  /\ edited' = edited \cup {r}
  /\ result' = [result EXCEPT ![r].observed = <<>>]
  /\ UNCHANGED <<data, runState, saved, failure, planState, record, proc>>

Work(e) ==
  \/ Start(e) \/ Reserve(e) \/ Execute(e) \/ Checkpoint(e) \/ Count(e)
  \/ BeginFinalization(e) \/ WriteRun(e) \/ Succeed(e)
  \/ FailFile(e) \/ FailState(e)
  \/ ReservePlan(e) \/ PrepareInputs(e) \/ RecordPrepared(e) \/ Refer(e)
  \/ PlanCheckpoint(e) \/ Finalize(e) \/ RecordPlan(e) \/ SucceedPlan(e)
  \/ MarkIncomplete(e) \/ FailPlan(e)

Next ==
  \/ \E e \in Evaluator : Work(e) \/ Kill(e)
  \/ \E r \in Run : Edit(r)

Spec == Init /\ [][Next]_vars

(***************************************************************************)
(* Comparing the runs of a plan reads the record, the state of the plan    *)
(* and the results, and refuses what does not agree.                       *)
(***************************************************************************)

\* A slip: the record of the plan is enough.
ComparesRecorded(p, runs) ==
  /\ record[p] # None /\ planState[p] # None
  /\ planState[p].status = "SUCCEEDED"
  /\ planState[p].done = record[p]

Compares(p, runs) ==
  /\ record[p] # None /\ planState[p] # None
  /\ planState[p].status = "SUCCEEDED"
  /\ planState[p].done = record[p]
  /\ \A i \in DOMAIN runs : result[runs[i]] = record[p][i]

(***************************************************************************)
(* Properties.                                                             *)
(***************************************************************************)

TypeOK ==
  /\ data \in Data
  /\ runState \in [Run -> RunFile \cup {None}]
  /\ saved \in [Run -> [1 .. Turns -> TurnFile \cup {None}]]
  /\ result \in [Run -> ResultFile \cup {None}]
  /\ failure \in [Run -> FailureFile \cup {None}]
  /\ planState \in [Plan -> PlanFile \cup {None}]
  /\ record \in [Plan -> Seq(ResultFile) \cup {None}]
  /\ proc \in [Evaluator -> Process]
  /\ faults \in Nat
  /\ edited \subseteq Run

\* All files of a run are one evaluator's, however many are started for it at
\* once: the state file is created exclusively before any service work.
RunsHaveOneOwner ==
  \A r \in Run :
    LET by(file) == IF file = None THEN {} ELSE {file.by}
    IN Cardinality(by(runState[r]) \cup by(result[r]) \cup by(failure[r])
                     \cup UNION {by(saved[r][t]) : t \in 1 .. Turns}) <= 1

\* A run or plan that says it failed has published nothing; one that says it
\* succeeded has published all its turns or children; and one that has
\* published and says otherwise says that its finalization is incomplete, or
\* was stopped before it could. The failure of a run says what its state says.
LedgersTellTheTruth ==
  /\ \A r \in Run : runState[r] # None =>
       LET s == runState[r]
       IN /\ s.status = "FAILED" => result[r] = None
          /\ s.status = "SUCCEEDED" =>
               /\ result[r] # None /\ s.done = Turns
          /\ s.status = "FINALIZATION_INCOMPLETE" => result[r] # None
          /\ s.status \in {"FAILED", "FINALIZATION_INCOMPLETE"} =>
               failure[r] # None /\ failure[r].status = s.status
          /\ result[r] # None /\ r \notin edited =>
               \A t \in 1 .. Turns : saved[r][t].observed = result[r].observed[t]
  /\ \A p \in Plan : planState[p] # None =>
       LET s == planState[p]
       IN /\ s.status = "FAILED" => record[p] = None
          /\ s.status \in {"SUCCEEDED", "FINALIZATION_INCOMPLETE"} =>
               record[p] # None /\ record[p] = s.done

\* What can be compared was measured by the plan that is compared, whose record
\* names its runs: each result is that of a run that succeeded in it, with every
\* turn, and unedited.
ComparedWasMeasured ==
  \A p \in Plan : planState[p] # None =>
    LET runs == RunsOf[planState[p].by]
    IN Compares(p, runs) =>
         \A i \in DOMAIN runs :
           LET r == runs[i]
           IN /\ r \notin edited
              /\ runState[r].status = "SUCCEEDED"
              /\ runState[r].by = planState[p].by
              /\ Len(result[r].observed) = Turns

\* A child measures what a run of its own would have measured, and preparing
\* once neither adds nor saves a call of a judged turn. Two differences are the
\* code's own: without an earlier turn to rewrite from the child skips what a
\* run cannot measure, and a rewrite that failed is a skipped turn of a child.
ChildrenMeasureAlike ==
  \A r \in Run : \A t \in 1 .. Turns :
    saved[r][t] # None /\ Planned(saved[r][t].by) =>
      LET d == data[t]
          o == saved[r][t].observed
          k == Direct(d, o.outcome)
      IN d.query \notin {"no_history", "rewrite_failed"} =>
           /\ o.outcome = k.outcome /\ o.judged = k.judged
           /\ o.judged => Prepare(d).shared + o.shared = k.shared

\* An evaluator that ends by itself leaves nothing open behind it: the bundle
\* of its plan is closed and neither its run nor its plan still says that it
\* is running, unless a write of its own error handling failed or a signal came
\* right after it had reserved: that is before the part that records failures.
NothingIsLeftOpen ==
  \A e \in Evaluator :
    proc[e].pc \in {"ended", "raised"} =>
      /\ proc[e].bundle # "open"
      /\ ~proc[e].lost =>
           /\ LET s == runState[RunId(e)]
              IN s # None /\ s.by = e =>
                   s.status \notin {"RUNNING", "FINALIZING"}
           /\ Planned(e) =>
                LET s == planState[PlanOf[e]]
                IN s # None /\ s.by = e => s.status # "RUNNING"
=============================================================================
