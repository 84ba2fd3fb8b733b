------------------------ MODULE EvaluationRuns_proofs ------------------------
(***************************************************************************)
(* Proofs about EvaluationRuns, for any number of evaluators, runs and     *)
(* plans over one registry, plans of any length, selections of any length, *)
(* and any number of failing writes, signals, kills and edits.             *)
(*                                                                         *)
(* What the proofs rest on is ownership: whoever created a state file is   *)
(* the only one to write any file of that run or plan, so that a step of   *)
(* one evaluator leaves what the others know as it is (OthersKeepRuns and  *)
(* OthersKeepPlans). What remains is one run and one plan, each with its   *)
(* evaluator: the ledger of the files and the phase of the evaluator.      *)
(***************************************************************************)
EXTENDS EvaluationRuns, FiniteSetTheorems, SequenceTheorems, TLAPS

-----------------------------------------------------------------------------
(* The inductive invariant *)

\* Where a run is being written, and where nothing of it has been
Working == {"execute", "checkpoint", "count", "finalize", "write", "succeed",
            "fail_file", "fail_state"}
Before == {"idle", "reserve_plan", "prepare", "prepared", "reserve"}

\* Where only the evaluator of a plan gets, and where it owns its plan
OfPlan == {"reserve_plan", "prepare", "prepared", "refer", "plan_checkpoint", "finalize_plan",
           "abort", "record_plan", "succeed_plan", "unsaved_plan", "fail_plan"}
Out == {"ended", "raised", "killed"}

\* The files of a run: its state s, result res, failure fail and turns sav. They
\* are one evaluator's, the result is that of the turns unless it was edited,
\* and a failure says whether there is a result.
Ledger(r, s, res, fail, sav, ed) ==
    /\ res # None =>
          /\ s # None /\ res.by = s.by
          /\ r \in ed => res.observed = <<>>
          /\ r \notin ed => /\ Len(res.observed) = Turns
                            /\ \A t \in 1 .. Turns : sav[t] # None /\ sav[t].observed = res.observed[t]
    /\ res = None => r \notin ed
    /\ fail # None => s # None /\ fail.by = s.by /\ fail.status = FailedStatus(res # None)
    /\ \A t \in 1 .. Turns : sav[t] # None => s # None /\ sav[t].by = s.by
    /\ s # None =>
          /\ s.status = "FAILED" => res = None /\ fail # None
          /\ s.status = "SUCCEEDED" => res # None /\ s.done = Turns
          /\ s.status = "FINALIZATION_INCOMPLETE" => res # None /\ fail # None

\* The turns that were saved are those that were seen.
SavedSeen(sav, seen, n) == \A t \in 1 .. n : sav[t] # None /\ sav[t].observed = seen[t]

\* What an evaluator e at pc that has seen these turns knows about its run.
Phase(e, pc, seen, s, res, fail, sav) ==
    /\ pc \in Working \cup {"refer", "plan_checkpoint"} => s # None /\ s.by = e
    /\ pc \in Working \ {"fail_state"} => fail = None
    /\ pc = "fail_state" => fail # None
    /\ pc \in {"execute", "checkpoint", "count", "finalize"} => s.status = "RUNNING" /\ res = None
    /\ pc = "write" => s.status = "FINALIZING" /\ res = None
    /\ pc = "succeed" => s.status = "FINALIZING" /\ res # None /\ s.done = Turns
    /\ pc \in {"fail_file", "fail_state"} => s.status \in {"RUNNING", "FINALIZING", "SUCCEEDED"}
    /\ pc \in {"refer", "plan_checkpoint"} => s.status = "SUCCEEDED"
    /\ pc = "execute" => s.done = Len(seen) /\ Len(seen) < Turns /\ SavedSeen(sav, seen, Len(seen))
    /\ pc = "checkpoint" => s.done + 1 = Len(seen) /\ Len(seen) <= Turns /\ SavedSeen(sav, seen, Len(seen) - 1)
    /\ pc = "count" => s.done + 1 = Len(seen) /\ Len(seen) <= Turns /\ SavedSeen(sav, seen, Len(seen))
    /\ pc \in {"finalize", "write"} => s.done = Turns /\ Len(seen) = Turns /\ SavedSeen(sav, seen, Turns)

RunFits(r) == Ledger(r, runState[r], result[r], failure[r], saved[r], edited)

\* An evaluator is at one of its runs.
AtRun(e) ==
    /\ proc[e].at \in 1 .. Len(RunsOf[e])
    /\ proc[e].pc \in OfPlan => Planned(e)
    /\ proc[e].pc \in Before => proc[e].seen = <<>>

PhaseFits(e) ==
    /\ Phase(e, proc[e].pc, proc[e].seen, runState[RunId(e)], result[RunId(e)],
             failure[RunId(e)], saved[RunId(e)])
    /\ proc[e].pc \in Working \cup {"refer"} => RunId(e) \notin edited

\* It owns runs up to the one it is at, which it owns once it is reserved.
OwnsPast(e) ==
    \A r \in Run : runState[r] # None /\ runState[r].by = e =>
        \E i \in 1 .. proc[e].at : RunsOf[e][i] = r /\ (proc[e].pc \in Before => i < proc[e].at)

\* The results it refers to are those of its runs that have succeeded.
RefsFit(e) ==
    /\ Len(proc[e].refs) = proc[e].at - 1 \/ Len(proc[e].refs) = proc[e].at
    /\ proc[e].pc \in Before \cup Working \cup {"refer"} => Len(proc[e].refs) = proc[e].at - 1
    /\ proc[e].pc = "plan_checkpoint" => Len(proc[e].refs) = proc[e].at
    /\ proc[e].pc \in {"finalize_plan", "record_plan"} => Len(proc[e].refs) = Len(RunsOf[e])
    /\ \A i \in 1 .. Len(proc[e].refs) :
          /\ proc[e].refs[i].by = e /\ Len(proc[e].refs[i].observed) = Turns
          /\ runState[RunsOf[e][i]] # None /\ runState[RunsOf[e][i]].by = e
          /\ runState[RunsOf[e][i]].status = "SUCCEEDED"

\* Once it has left its run, this one is not open any more, unless a write of
\* the error handling was lost.
RunSettled(e) ==
    (/\ proc[e].pc \notin Before \cup Working \cup {"killed"} /\ ~proc[e].lost
     /\ runState[RunId(e)] # None /\ runState[RunId(e)].by = e)
        => runState[RunId(e)].status \notin {"RUNNING", "FINALIZING"}

\* What was prepared for a plan is closed before its outcome is written.
BundleFits(e) ==
    (~Planned(e) \/ proc[e].pc \in {"idle", "reserve_plan", "prepare", "record_plan", "succeed_plan",
                                    "unsaved_plan", "fail_plan", "ended", "raised"})
        => proc[e].bundle # "open"

\* The files of a plan p: its state and its record, which holds the references of
\* the evaluator that owns the plan.
PlanLedger(p) ==
    /\ planState[p] # None =>
          /\ PlanOf[planState[p].by] = p
          /\ planState[p].status = "FAILED" => record[p] = None
          /\ planState[p].status \in {"SUCCEEDED", "FINALIZATION_INCOMPLETE"} => record[p] # None
    /\ record[p] # None =>
          /\ planState[p] # None /\ record[p] = planState[p].done
          /\ record[p] = proc[planState[p].by].refs
          /\ Len(record[p]) = Len(RunsOf[planState[p].by])

\* What an evaluator at pc knows about its plan, from its state and its record.
PlanPhase(e, pc, s, rec) ==
    /\ pc \notin {"idle", "reserve_plan"} \cup Out => s # None /\ s.by = e
    /\ pc \notin {"idle", "reserve_plan", "succeed_plan", "unsaved_plan", "fail_plan"} \cup Out =>
          s.status = "RUNNING" /\ rec = None
    /\ pc = "succeed_plan" => s.status = "RUNNING" /\ rec # None
    /\ pc = "unsaved_plan" => rec # None
    /\ pc \in {"idle", "reserve_plan"} /\ s # None => s.by # e

PlanFits(e) == Planned(e) =>
    /\ PlanPhase(e, proc[e].pc, planState[PlanOf[e]], record[PlanOf[e]])
    /\ (/\ proc[e].pc \in {"ended", "raised"} /\ ~proc[e].lost
        /\ planState[PlanOf[e]] # None /\ planState[PlanOf[e]].by = e)
          => planState[PlanOf[e]].status # "RUNNING"

EvaluatorFits(e) ==
    /\ AtRun(e) /\ PhaseFits(e) /\ OwnsPast(e) /\ RefsFit(e)
    /\ RunSettled(e) /\ BundleFits(e) /\ PlanFits(e)

IInv ==
    /\ TypeOK
    /\ \A r \in Run : RunFits(r)
    /\ \A p \in Plan : PlanLedger(p)
    /\ \A e \in Evaluator : EvaluatorFits(e)

-----------------------------------------------------------------------------
(* Steps of an evaluator's process *)

\* Afterwards e is at pc, with these values in its memory, and nobody else moved.
Moves(e, pc, at, seen, refs, bundle) ==
    /\ proc' \in [Evaluator -> Process]
    /\ \A f \in Evaluator : f # e => proc'[f] = proc[f]
    /\ proc'[e].pc = pc /\ proc'[e].at = at /\ proc'[e].seen = seen
    /\ proc'[e].refs = refs /\ proc'[e].bundle = bundle

Stays(e, pc) == Moves(e, pc, proc[e].at, proc[e].seen, proc[e].refs, proc[e].bundle)

\* Going on keeps what is in memory.
LEMMA GoesMoves ==
    ASSUME TypeOK, NEW e \in Evaluator, NEW pc \in Pc, Goes(e, pc)
    PROVE  Stays(e, pc) /\ proc'[e].lost = proc[e].lost
<1>1. proc[e] \in Process /\ proc \in [Evaluator -> Process]
  BY DEF TypeOK
<1>2. proc' = [proc EXCEPT ![e] = [proc[e] EXCEPT !.pc = pc]]
  BY DEF Goes
<1>3. [proc[e] EXCEPT !.pc = pc] \in Process
  BY <1>1 DEF Process
<1> QED BY <1>1, <1>2, <1>3 DEF Stays, Moves, Process

\* So does losing a write of the error handling.
LEMMA LosingMoves ==
    ASSUME TypeOK, NEW e \in Evaluator, NEW pc \in Pc,
           proc' = [proc EXCEPT ![e].pc = pc, ![e].lost = TRUE]
    PROVE  Stays(e, pc) /\ proc'[e].lost
<1>1. proc[e] \in Process /\ proc \in [Evaluator -> Process]
  BY DEF TypeOK
<1>2. proc' = [proc EXCEPT ![e] = [proc[e] EXCEPT !.pc = pc, !.lost = TRUE]]
  BY <1>1
<1>3. [proc[e] EXCEPT !.pc = pc, !.lost = TRUE] \in Process
  BY <1>1 DEF Process
<1> QED BY <1>1, <1>2, <1>3 DEF Stays, Moves, Process

-----------------------------------------------------------------------------
(* Who owns what *)

\* The runs of an evaluator are distinct, and it is at one of them.
LEMMA RunsOfOne ==
    ASSUME NEW e \in Evaluator
    PROVE  /\ RunsOf[e] \in Seq(Run) /\ Len(RunsOf[e]) \in Nat \ {0}
           /\ \A i \in 1 .. Len(RunsOf[e]) : RunsOf[e][i] \in Run
           /\ \A i, j \in 1 .. Len(RunsOf[e]) : RunsOf[e][i] = RunsOf[e][j] => i = j
           /\ PlanOf[e] \in Plan \cup {None}
           /\ ~Planned(e) => Len(RunsOf[e]) = 1
           /\ Planned(e) => PlanOf[e] \in Plan
BY EvaluationAssumption DEF IsInjective, Planned

\* An evaluator is at one of its runs, and the earlier ones are others.
LEMMA AtOne ==
    ASSUME IInv, NEW e \in Evaluator
    PROVE  /\ RunId(e) \in Run
           /\ proc[e].at \in 1 .. Len(RunsOf[e]) /\ proc[e].at \in Nat
           /\ \A i \in 1 .. proc[e].at : /\ i \in 1 .. Len(RunsOf[e])
                                         /\ RunsOf[e][i] = RunId(e) => i = proc[e].at
BY RunsOfOne DEF IInv, EvaluatorFits, AtRun, RunId

Mine(e, file) == file # None /\ file.by = e

\* A step of e that writes no files but those of its run, and these only if the run
\* is its own before and after
WritesItsRun(e) ==
    LET r == RunId(e)
    IN /\ runState' \in [Run -> RunFile \cup {None}]
       /\ saved' \in [Run -> [1 .. Turns -> TurnFile \cup {None}]]
       /\ result' \in [Run -> ResultFile \cup {None}]
       /\ failure' \in [Run -> FailureFile \cup {None}]
       /\ faults' \in Nat
       /\ \A q \in Run : q # r => /\ runState'[q] = runState[q] /\ saved'[q] = saved[q]
                                  /\ result'[q] = result[q] /\ failure'[q] = failure[q]
       /\ \/ UNCHANGED <<runState, saved, result, failure>>
          \/ /\ runState[r] = None \/ Mine(e, runState[r])
             /\ runState'[r] = None \/ Mine(e, runState'[r])
       /\ UNCHANGED <<data, planState, record, edited>>

\* A step that writes no files but those of its plan
WritesItsPlan(e) ==
    /\ planState' \in [Plan -> PlanFile \cup {None}]
    /\ record' \in [Plan -> Seq(ResultFile) \cup {None}]
    /\ faults' \in Nat
    /\ \A p \in Plan : p # PlanOf[e] => planState'[p] = planState[p] /\ record'[p] = record[p]
    /\ Planned(e) => /\ planState[PlanOf[e]] = planState'[PlanOf[e]]
                           \/ planState[PlanOf[e]] = None \/ Mine(e, planState[PlanOf[e]])
                     /\ planState'[PlanOf[e]] = planState[PlanOf[e]]
                           \/ planState'[PlanOf[e]] = None \/ Mine(e, planState'[PlanOf[e]])
                     /\ ~Mine(e, planState[PlanOf[e]]) => record'[PlanOf[e]] = record[PlanOf[e]]
    /\ UNCHANGED <<data, runState, saved, result, failure, edited>>

\* Whoever is not working on a run knows nothing about it.
LEMMA NoPhase ==
    ASSUME NEW e, NEW pc, NEW seen, NEW s, NEW res, NEW fail, NEW sav,
           pc \notin Working \cup {"refer", "plan_checkpoint"}
    PROVE  Phase(e, pc, seen, s, res, fail, sav)
BY DEF Phase, Working

\* An evaluator that works on its run owns it.
LEMMA PhaseOwns ==
    ASSUME NEW e, NEW pc, NEW seen, NEW s, NEW res, NEW fail, NEW sav,
           Phase(e, pc, seen, s, res, fail, sav), pc \in Working \cup {"refer", "plan_checkpoint"}
    PROVE  Mine(e, s)
BY DEF Phase, Mine

\* What the others know about their runs is not touched.
LEMMA OthersKeepRuns ==
    ASSUME IInv, NEW e \in Evaluator, WritesItsRun(e), NEW f \in Evaluator, f # e,
           proc'[f] = proc[f]
    PROVE  EvaluatorFits(f)'
<1>1. EvaluatorFits(f)
  BY DEF IInv
<1>2. RunId(f)' = RunId(f) /\ RunId(f) \in Run /\ RunId(e) \in Run
  BY AtOne DEF RunId
<1>3. \A r \in Run : Mine(f, runState[r]) => /\ runState'[r] = runState[r] /\ result'[r] = result[r]
                                             /\ failure'[r] = failure[r] /\ saved'[r] = saved[r]
  BY <1>2 DEF WritesItsRun, Mine
<1>4. \A r \in Run : Mine(f, runState'[r]) => /\ runState'[r] = runState[r] /\ result'[r] = result[r]
                                              /\ failure'[r] = failure[r] /\ saved'[r] = saved[r]
  BY <1>2 DEF WritesItsRun, Mine
<1>5. edited' = edited /\ planState' = planState /\ record' = record
  BY DEF WritesItsRun
<1>6. AtRun(f)' /\ BundleFits(f)' /\ PlanFits(f)'
  BY <1>1, <1>5 DEF EvaluatorFits, AtRun, BundleFits, PlanFits
<1>7. PhaseFits(f)'
  <2>1. CASE proc[f].pc \in Working \cup {"refer", "plan_checkpoint"}
    <3>1. Mine(f, runState[RunId(f)])
      BY <1>1, <2>1, PhaseOwns DEF EvaluatorFits, PhaseFits
    <3> QED BY <1>1, <1>2, <1>3, <1>5, <3>1 DEF EvaluatorFits, PhaseFits
  <2>2. CASE proc[f].pc \notin Working \cup {"refer", "plan_checkpoint"}
    <3>1. Phase(f, proc'[f].pc, proc'[f].seen, runState'[RunId(f)'], result'[RunId(f)'],
                failure'[RunId(f)'], saved'[RunId(f)'])
      BY <2>2, NoPhase
    <3> QED BY <2>2, <3>1 DEF PhaseFits
  <2> QED BY <2>1, <2>2
<1>8. OwnsPast(f)'
  BY <1>1, <1>4 DEF EvaluatorFits, OwnsPast, Mine
<1>9. RefsFit(f)'
  <2>1. \A i \in 1 .. Len(proc[f].refs) : RunsOf[f][i] \in Run /\ Mine(f, runState[RunsOf[f][i]])
    BY <1>1, AtOne, RunsOfOne DEF EvaluatorFits, RefsFit, Mine
  <2>2. \A i \in 1 .. Len(proc[f].refs) : runState'[RunsOf[f][i]] = runState[RunsOf[f][i]]
    BY <1>3, <2>1
  <2> QED BY <1>1, <2>2 DEF EvaluatorFits, RefsFit
<1>10. RunSettled(f)'
  BY <1>1, <1>2, <1>4 DEF EvaluatorFits, RunSettled, Mine
<1> QED BY <1>6, <1>7, <1>8, <1>9, <1>10 DEF EvaluatorFits

\* Nor what they know about their plans
LEMMA OthersKeepPlans ==
    ASSUME IInv, NEW e \in Evaluator, WritesItsPlan(e), NEW f \in Evaluator, f # e,
           proc'[f] = proc[f]
    PROVE  EvaluatorFits(f)'
<1>1. EvaluatorFits(f)
  BY DEF IInv
<1>2. AtRun(f)' /\ BundleFits(f)' /\ PhaseFits(f)' /\ OwnsPast(f)' /\ RefsFit(f)' /\ RunSettled(f)'
  <2>1. RunId(f)' = RunId(f)
    BY DEF RunId
  <2>2. UNCHANGED <<runState, saved, result, failure, edited>>
    BY DEF WritesItsPlan
  <2> QED BY <1>1, <2>1, <2>2 DEF EvaluatorFits, AtRun, BundleFits, PhaseFits, OwnsPast, RefsFit, RunSettled
<1>3. PlanFits(f)'
  <2> SUFFICES ASSUME Planned(f) PROVE PlanFits(f)'
    BY DEF PlanFits, Planned
  <2> DEFINE p == PlanOf[f]
  <2>1. p \in Plan /\ PlanFits(f)
    BY <1>1, RunsOfOne DEF EvaluatorFits
  <2>2. CASE planState'[p] = planState[p] /\ record'[p] = record[p]
    BY <2>1, <2>2 DEF PlanFits, Planned
  <2>3. CASE ~(planState'[p] = planState[p] /\ record'[p] = record[p])
    <3>1. PlanOf[e] = p /\ Planned(e)
      BY <2>1, <2>3 DEF WritesItsPlan, Planned
    <3>2. ~Mine(f, planState[p]) /\ ~Mine(f, planState'[p])
      BY <2>1, <2>3, <3>1 DEF WritesItsPlan, Mine
    <3>3. PlanPhase(f, proc[f].pc, planState'[p], record'[p])
      BY <2>1, <3>2 DEF PlanFits, PlanPhase, Mine, Out
    <3> QED BY <3>2, <3>3 DEF PlanFits, Mine
  <2> QED BY <2>2, <2>3
<1> QED BY <1>2, <1>3 DEF EvaluatorFits

-----------------------------------------------------------------------------
(* The steps of a run *)

Unsettled(e, s) == Mine(e, s) /\ s.status \in {"RUNNING", "FINALIZING"}

\* A step of e in its run keeps the invariant if the files of the run agree
\* afterwards, e knows about them what it has to know where it goes, and it leaves
\* no open run behind without having lost a write.
LEMMA RunStepKeeps ==
    ASSUME IInv, NEW e \in Evaluator, NEW pc, NEW seen,
           Moves(e, pc, proc[e].at, seen, proc[e].refs, proc[e].bundle),
           WritesItsRun(e),
           proc[e].pc \in Working \cup {"reserve"},
           pc \in Working \cup {"refer", "abort", "ended", "raised"},
           pc \in {"refer", "abort"} => Planned(e),
           pc \in {"ended", "raised"} => ~Planned(e),
           pc \in Working \cup {"refer"} => RunId(e) \notin edited,
           pc \in {"refer", "abort", "ended", "raised"} =>
               proc'[e].lost \/ ~Unsettled(e, runState'[RunId(e)]),
           Ledger(RunId(e), runState'[RunId(e)], result'[RunId(e)], failure'[RunId(e)],
                  saved'[RunId(e)], edited),
           Phase(e, pc, seen, runState'[RunId(e)], result'[RunId(e)], failure'[RunId(e)],
                 saved'[RunId(e)])
    PROVE  IInv'
<1> DEFINE r == RunId(e)
<1>1. /\ \A f \in Evaluator : f # e => proc'[f] = proc[f]
      /\ proc' \in [Evaluator -> Process]
      /\ proc'[e].pc = pc /\ proc'[e].at = proc[e].at /\ proc'[e].seen = seen
      /\ proc'[e].refs = proc[e].refs /\ proc'[e].bundle = proc[e].bundle
  BY DEF Moves
<1>2. EvaluatorFits(e) /\ r \in Run /\ RunId(e)' = r
  BY <1>1, AtOne DEF IInv, RunId
<1>3. TypeOK'
  BY <1>1 DEF IInv, TypeOK, WritesItsRun
<1>4. \A q \in Run : RunFits(q)'
  <2> SUFFICES ASSUME NEW q \in Run PROVE RunFits(q)'
    OBVIOUS
  <2>1. CASE q = r
    BY <2>1 DEF RunFits, WritesItsRun
  <2>2. CASE q # r
    <3>1. RunFits(q)
      BY DEF IInv
    <3> QED BY <2>2, <3>1 DEF RunFits, WritesItsRun
  <2> QED BY <2>1, <2>2
<1>5. \A p \in Plan : PlanLedger(p)'
  <2> SUFFICES ASSUME NEW p \in Plan PROVE PlanLedger(p)'
    OBVIOUS
  <2>1. PlanLedger(p) /\ planState' = planState /\ record' = record
    BY DEF IInv, WritesItsRun
  <2>2. planState[p] # None => planState[p].by \in Evaluator
    BY DEF IInv, TypeOK, PlanFile
  <2>3. \A f \in Evaluator : proc'[f].refs = proc[f].refs
    BY <1>1
  <2> QED BY <2>1, <2>2, <2>3 DEF PlanLedger
<1>6. EvaluatorFits(e)'
  <2>1. AtRun(e)'
    BY <1>1, <1>2 DEF EvaluatorFits, AtRun, Working, Before, OfPlan
  <2>2. PhaseFits(e)'
    <3>1. edited' = edited
      BY DEF WritesItsRun
    <3> QED BY <1>1, <1>2, <3>1 DEF PhaseFits
  <2>3. OwnsPast(e)'
    <3> SUFFICES ASSUME NEW q \in Run, Mine(e, runState'[q])
                 PROVE  \E i \in 1 .. proc[e].at : RunsOf[e][i] = q
      BY <1>1 DEF OwnsPast, Mine, Before, Working
    <3>1. CASE q = r
      <4>1. proc[e].at \in 1 .. proc[e].at
        BY AtOne
      <4> QED BY <3>1, <4>1 DEF RunId
    <3>2. CASE q # r
      <4>1. runState'[q] = runState[q]
        BY <3>2 DEF WritesItsRun
      <4> QED BY <1>2, <4>1 DEF EvaluatorFits, OwnsPast, Mine
    <3> QED BY <3>1, <3>2
  <2>4. RefsFit(e)'
    <3>1. Len(proc[e].refs) = proc[e].at - 1
      BY <1>2 DEF EvaluatorFits, RefsFit, Before
    <3>2. \A i \in 1 .. Len(proc[e].refs) : RunsOf[e][i] \in Run \ {r}
      BY <3>1, AtOne, RunsOfOne
    <3>3. \A i \in 1 .. Len(proc[e].refs) : runState'[RunsOf[e][i]] = runState[RunsOf[e][i]]
      BY <3>2 DEF WritesItsRun
    <3> QED BY <1>1, <1>2, <3>1, <3>3 DEF EvaluatorFits, RefsFit, Working, Before
  <2>5. RunSettled(e)'
    BY <1>1, <1>2 DEF RunSettled, Unsettled, Mine
  <2>6. BundleFits(e)'
    BY <1>1, <1>2 DEF EvaluatorFits, BundleFits, Working
  <2>7. PlanFits(e)'
    <3>1. planState' = planState /\ record' = record
      BY DEF WritesItsRun
    <3>2. Planned(e) => PlanPhase(e, pc, planState[PlanOf[e]], record[PlanOf[e]])
      BY <1>2 DEF EvaluatorFits, PlanFits, PlanPhase, Working, Out
    <3> QED BY <1>1, <3>1, <3>2 DEF PlanFits, Planned
  <2> QED BY <2>1, <2>2, <2>3, <2>4, <2>5, <2>6, <2>7 DEF EvaluatorFits
<1>7. \A f \in Evaluator : EvaluatorFits(f)'
  BY <1>1, <1>6, OthersKeepRuns
<1> QED BY <1>3, <1>4, <1>5, <1>7 DEF IInv

\* A file of a run's state, with another status or one turn more
LEMMA StateFields ==
    ASSUME NEW s \in RunFile
    PROVE  /\ \A status \in RunStatus :
                 /\ [s EXCEPT !.status = status] \in RunFile
                 /\ [s EXCEPT !.status = status].status = status
                 /\ [s EXCEPT !.status = status].by = s.by
                 /\ [s EXCEPT !.status = status].done = s.done
           /\ [s EXCEPT !.done = @ + 1] \in RunFile
           /\ [s EXCEPT !.done = @ + 1].status = s.status
           /\ [s EXCEPT !.done = @ + 1].by = s.by
           /\ [s EXCEPT !.done = @ + 1].done = s.done + 1
BY DEF RunFile, RunStatus

\* The state file that is created.
LEMMA NewFields ==
    ASSUME NEW e \in Evaluator, NEW status \in RunStatus
    PROVE  /\ State(status, e, 0) \in RunFile
           /\ State(status, e, 0).status = status
           /\ State(status, e, 0).by = e
           /\ State(status, e, 0).done = 0
BY DEF State, RunFile, RunStatus

\* No file is None.
LEMMA NoneIsNoFile ==
    /\ None \notin RunFile /\ None \notin TurnFile /\ None \notin ResultFile
    /\ None \notin FailureFile /\ None \notin PlanFile /\ None \notin Seq(ResultFile)
BY SentinelAssumption

\* The files of the run that e is at, before the step
LEMMA HasRun ==
    ASSUME IInv, NEW e \in Evaluator
    PROVE  /\ RunId(e) \in Run
           /\ Ledger(RunId(e), runState[RunId(e)], result[RunId(e)], failure[RunId(e)],
                     saved[RunId(e)], edited)
           /\ Phase(e, proc[e].pc, proc[e].seen, runState[RunId(e)], result[RunId(e)],
                    failure[RunId(e)], saved[RunId(e)])
           /\ proc[e] \in Process /\ proc[e].seen \in Seq(Observation) /\ proc[e].pc \in Pc
           /\ runState[RunId(e)] \in RunFile \cup {None}
           /\ result[RunId(e)] \in ResultFile \cup {None}
           /\ failure[RunId(e)] \in FailureFile \cup {None}
           /\ saved[RunId(e)] \in [1 .. Turns -> TurnFile \cup {None}]
           /\ faults \in Nat /\ Turns \in Nat \ {0}
           /\ proc[e].pc \in Working \cup {"refer"} => RunId(e) \notin edited
           /\ proc[e].pc \in Working \cup {"refer", "plan_checkpoint"} => Mine(e, runState[RunId(e)])
<1>1. RunId(e) \in Run
  BY AtOne
<1>2. RunFits(RunId(e)) /\ PhaseFits(e) /\ TypeOK
  BY <1>1 DEF IInv, EvaluatorFits
<1>3. proc[e] \in Process
  BY <1>2 DEF TypeOK
<1> QED BY <1>1, <1>2, <1>3, PhaseOwns, EvaluationAssumption DEF RunFits, PhaseFits, TypeOK, Process

\* What a step may do to faults
LEMMA FaultCounts == ASSUME TypeOK, Fault \/ UNCHANGED faults PROVE faults' \in Nat
BY DEF TypeOK, Fault

\* An exception of a run ends in its plan, or with the operator.
LEMMA UnwoundWhere ==
    ASSUME NEW e
    PROVE  /\ Unwound(e) \in {"abort", "raised"} /\ Unwound(e) \in Pc
           /\ Unwound(e) = "abort" => Planned(e)
           /\ Unwound(e) = "raised" => ~Planned(e)
BY DEF Unwound, Pc

\* The ways of a step that writes and goes on, with a handler behind it
LEMMA WriteGoes ==
    ASSUME TypeOK, NEW e \in Evaluator, NEW ACTION effect, NEW ACTION nothing,
           NEW next \in Pc, NEW onError \in Pc, Writes(e, effect, nothing, next, onError)
    PROVE  /\ effect \/ nothing
           /\ faults' \in Nat
           /\ \/ effect /\ Stays(e, next)
              \/ Stays(e, onError)
BY GoesMoves, FaultCounts DEF Writes

\* The write of an error handler, or the exception that loses it
LEMMA LastWriteGoes ==
    ASSUME TypeOK, NEW e \in Evaluator, NEW ACTION effect, NEW ACTION nothing,
           NEW next \in Pc, NEW onError \in Pc, WritesLast(e, effect, nothing, next, onError)
    PROVE  /\ effect \/ nothing
           /\ faults' \in Nat
           /\ \/ effect /\ Stays(e, next)
              \/ Stays(e, onError) /\ proc'[e].lost
BY GoesMoves, LosingMoves, FaultCounts DEF WritesLast

\* It leaves the files of other runs alone if it leaves all but this file alone.
LEMMA StateWriteIsOwn ==
    ASSUME IInv, NEW e \in Evaluator, NEW s \in RunFile, s.by = e,
           \/ runState[RunId(e)] = None \/ Mine(e, runState[RunId(e)]),
           \/ runState' = runState \/ runState' = [runState EXCEPT ![RunId(e)] = s],
           UNCHANGED <<data, saved, result, failure, planState, record, edited>>, faults' \in Nat
    PROVE  /\ WritesItsRun(e)
           /\ runState'[RunId(e)] \in {runState[RunId(e)], s}
           /\ runState' # runState => runState'[RunId(e)] = s
<1>1. RunId(e) \in Run /\ TypeOK /\ s # None
  BY HasRun, NoneIsNoFile DEF IInv
<1>2. /\ runState \in [Run -> RunFile \cup {None}]
      /\ saved \in [Run -> [1 .. Turns -> TurnFile \cup {None}]]
      /\ result \in [Run -> ResultFile \cup {None}]
      /\ failure \in [Run -> FailureFile \cup {None}]
  BY <1>1 DEF TypeOK
<1>3. CASE runState' = runState
  BY <1>1, <1>2, <1>3 DEF WritesItsRun
<1>4. CASE runState' = [runState EXCEPT ![RunId(e)] = s]
  <2>1. /\ runState' \in [Run -> RunFile \cup {None}]
        /\ runState'[RunId(e)] = s
        /\ \A q \in Run : q # RunId(e) => runState'[q] = runState[q]
    BY <1>1, <1>2, <1>4
  <2> QED BY <1>1, <1>2, <2>1 DEF WritesItsRun, Mine
<1> QED BY <1>3, <1>4

\* What of a run's ledger only says where the state file comes from
LEMMA LedgerOfNew ==
    ASSUME NEW e \in Evaluator, NEW r, NEW res, NEW fail, NEW sav, NEW s \in RunFile,
           Ledger(r, None, res, fail, sav, edited), s.status \in {"RUNNING", "TORN"}
    PROVE  /\ Ledger(r, s, res, fail, sav, edited)
           /\ res = None /\ fail = None /\ \A t \in 1 .. Turns : sav[t] = None
BY NoneIsNoFile DEF Ledger

\* Reserving a run keeps the invariant: nobody owned it, or nothing is written.
LEMMA ReserveKeeps == ASSUME IInv, NEW e \in Evaluator, Reserve(e) PROVE IInv'
<1> DEFINE r == RunId(e)
           s == State("RUNNING", e, 0)
           torn == State("TORN", e, 0)
<1>1. TypeOK /\ EvaluatorFits(e) /\ proc[e].pc = "reserve"
  BY DEF IInv, Reserve, At
<1>2. proc[e].seen = <<>>
  BY <1>1 DEF EvaluatorFits, AtRun, Before
<1>3. /\ s \in RunFile /\ s.status = "RUNNING" /\ s.by = e /\ s.done = 0
      /\ torn \in RunFile /\ torn.status = "TORN" /\ torn.by = e
  BY NewFields DEF RunStatus
<1>4. UNCHANGED <<data, saved, result, failure, planState, record, edited>>
  BY DEF Reserve
<1>5. "execute" \in Pc /\ Unwound(e) \in Pc /\ Unwound(e) \in {"abort", "raised"}
  BY UnwoundWhere DEF Pc
<1> HIDE DEF s, torn
<1>6. CASE Available(r)
  <2>1. result[r] = None /\ runState[r] = None
    BY <1>6 DEF Available
  <2>2. r \notin edited
    BY <2>1, HasRun DEF Ledger
  <2>3. WritesLast(e, runState' = [runState EXCEPT ![r] = s],
                   runState' = [runState EXCEPT ![r] = torn] \/ UNCHANGED runState,
                   "execute", Unwound(e))
    BY <1>6 DEF Reserve, s, torn
  <2>4. /\ \/ runState' = [runState EXCEPT ![r] = s]
           \/ runState' = [runState EXCEPT ![r] = torn]
           \/ runState' = runState
        /\ faults' \in Nat
        /\ \/ runState' = [runState EXCEPT ![r] = s] /\ Stays(e, "execute")
           \/ Stays(e, Unwound(e)) /\ proc'[e].lost
    <3>1. /\ \/ runState' = [runState EXCEPT ![r] = s]
             \/ runState' = [runState EXCEPT ![r] = torn] \/ UNCHANGED runState
          /\ faults' \in Nat
          /\ \/ runState' = [runState EXCEPT ![r] = s] /\ Stays(e, "execute")
             \/ Stays(e, Unwound(e)) /\ proc'[e].lost
      BY <1>1, <1>5, <2>3, LastWriteGoes
    <3> QED BY <3>1
  <2>5. Ledger(r, s, result[r], failure[r], saved[r], edited)
    BY <1>3, <2>1, HasRun, LedgerOfNew
  <2>6. Ledger(r, torn, result[r], failure[r], saved[r], edited)
    BY <1>3, <2>1, HasRun, LedgerOfNew
  <2>7. failure[r] = None
    BY <2>1, HasRun DEF Ledger
  <2>8. CASE runState' = [runState EXCEPT ![r] = s] /\ Stays(e, "execute")
    <3>1. WritesItsRun(e) /\ runState'[r] = s
      <4>1. runState \in [Run -> RunFile \cup {None}] /\ r \in Run
        BY <1>1, HasRun DEF TypeOK
      <4> QED BY <1>3, <1>4, <2>1, <2>4, <2>8, <4>1, StateWriteIsOwn
    <3>2. Phase(e, "execute", <<>>, s, result[r], failure[r], saved[r])
      BY <1>3, <2>1, <2>7, NoneIsNoFile, EvaluationAssumption DEF Phase, Working, SavedSeen
    <3> QED BY <1>1, <1>2, <1>4, <2>2, <2>5, <2>8, <3>1, <3>2, RunStepKeeps DEF Stays, Working
  <2>9. CASE Stays(e, Unwound(e)) /\ proc'[e].lost
    <3>1. WritesItsRun(e) /\ runState'[r] \in {s, torn, runState[r]}
      BY <1>3, <1>4, <2>1, <2>4, StateWriteIsOwn
    <3>2. Ledger(r, runState'[r], result[r], failure[r], saved[r], edited)
      BY <2>5, <2>6, <3>1, HasRun
    <3>3. Phase(e, Unwound(e), proc[e].seen, runState'[r], result[r], failure[r], saved[r])
      BY <1>5, NoPhase DEF Working
    <3> QED BY <1>1, <1>4, <1>5, <2>9, <3>1, <3>2, <3>3, RunStepKeeps, UnwoundWhere DEF Stays, Working
  <2> QED BY <2>4, <2>8, <2>9
<1>7. CASE ~Available(r)
  <2>1. Goes(e, Unwound(e)) /\ UNCHANGED <<runState, faults>>
    BY <1>7 DEF Reserve
  <2>2. Stays(e, Unwound(e)) /\ faults' \in Nat
    BY <1>1, <1>5, <2>1, GoesMoves, HasRun
  <2>3. WritesItsRun(e)
    BY <1>1, <1>4, <2>1, <2>2 DEF WritesItsRun, TypeOK
  <2>4. ~Mine(e, runState[r])
    BY <1>1, AtOne DEF EvaluatorFits, OwnsPast, Mine, Before
  <2>5. Phase(e, Unwound(e), proc[e].seen, runState[r], result[r], failure[r], saved[r])
    BY <1>5, NoPhase DEF Working
  <2> QED BY <1>1, <1>4, <1>5, <2>1, <2>2, <2>3, <2>4, <2>5, HasRun, RunStepKeeps, UnwoundWhere
          DEF Stays, Working, Unsettled
<1> QED BY <1>6, <1>7

\* A step that writes no file leaves them all as they are.
LEMMA NoFileIsOwn ==
    ASSUME TypeOK, NEW e, UNCHANGED <<data, files, edited>>, faults' \in Nat
    PROVE  /\ WritesItsRun(e)
           /\ UNCHANGED <<data, runState, saved, result, failure, planState, record, edited>>
BY DEF TypeOK, WritesItsRun, files

\* What the error handling of a run has to know
LEMMA ToFailure ==
    ASSUME NEW e, NEW seen, NEW s, NEW res, NEW sav, Mine(e, s),
           s.status \in {"RUNNING", "FINALIZING", "SUCCEEDED"}
    PROVE  Phase(e, "fail_file", seen, s, res, None, sav)
BY DEF Phase, Working, Mine

\* A run that is being written has not failed, so that its error can be recorded.
LEMMA MayFail ==
    ASSUME IInv, NEW e \in Evaluator, proc[e].pc \in Working \ {"fail_file", "fail_state"}
    PROVE  /\ failure[RunId(e)] = None /\ Mine(e, runState[RunId(e)])
           /\ runState[RunId(e)].status \in {"RUNNING", "FINALIZING", "SUCCEEDED"}
           /\ RunId(e) \notin edited
           /\ Recorded(e) = "fail_file" /\ Recorded(e) \in Pc
<1> DEFINE r == RunId(e)
<1>1. /\ Phase(e, proc[e].pc, proc[e].seen, runState[r], result[r], failure[r], saved[r])
      /\ Mine(e, runState[r]) /\ r \notin edited
  BY HasRun DEF Working
<1>2. failure[r] = None
  BY <1>1 DEF Phase
<1>3. runState[r].status \in {"RUNNING", "FINALIZING", "SUCCEEDED"}
  BY <1>1 DEF Phase, Working
<1> QED BY <1>1, <1>2, <1>3 DEF Recorded, Pc

\* An exception that finds the files as they were is recorded.
LEMMA FailsUnwritten ==
    ASSUME IInv, NEW e \in Evaluator, proc[e].pc \in Working \ {"fail_file", "fail_state"},
           Stays(e, "fail_file"), WritesItsRun(e),
           UNCHANGED <<runState, saved, result, failure, edited>>
    PROVE  IInv'
<1>1. /\ failure[RunId(e)] = None /\ Mine(e, runState[RunId(e)])
      /\ runState[RunId(e)].status \in {"RUNNING", "FINALIZING", "SUCCEEDED"}
      /\ RunId(e) \notin edited
  BY MayFail
<1>2. Phase(e, "fail_file", proc[e].seen, runState[RunId(e)], result[RunId(e)],
            failure[RunId(e)], saved[RunId(e)])
  BY <1>1, ToFailure
<1>3. Ledger(RunId(e), runState[RunId(e)], result[RunId(e)], failure[RunId(e)],
             saved[RunId(e)], edited)
  BY HasRun
<1>4. Moves(e, "fail_file", proc[e].at, proc[e].seen, proc[e].refs, proc[e].bundle)
  BY DEF Stays
<1>5. /\ proc[e].pc \in Working \cup {"reserve"} /\ "fail_file" \in Working
      /\ "fail_file" \notin {"refer", "abort", "ended", "raised"}
  BY DEF Working
<1> QED BY <1>1, <1>2, <1>3, <1>4, <1>5, RunStepKeeps

\* A turn is measured or raises.
LEMMA ObservedWhat ==
    ASSUME TypeOK, NEW e, NEW t \in 1 .. Turns, NEW v \in Verdict
    PROVE  Observed(e, t, v) \in Observation \cup {Raises}
<1>1. data[t] \in TurnData
  BY EvaluationAssumption DEF TypeOK
<1> QED BY <1>1 DEF Observed, Observation

\* A turn that was measured has been seen.
LEMMA SeesMoves ==
    ASSUME TypeOK, NEW e \in Evaluator, NEW o \in Observation,
           proc' = [proc EXCEPT ![e].pc = "checkpoint", ![e].seen = Append(@, o)]
    PROVE  Moves(e, "checkpoint", proc[e].at, Append(proc[e].seen, o), proc[e].refs, proc[e].bundle)
<1>1. proc[e] \in Process /\ proc \in [Evaluator -> Process]
  BY DEF TypeOK
<1>2. proc' = [proc EXCEPT ![e] = [proc[e] EXCEPT !.pc = "checkpoint", !.seen = Append(proc[e].seen, o)]]
  BY <1>1
<1>3. Append(proc[e].seen, o) \in Seq(Observation)
  BY <1>1 DEF Process
<1>4. [proc[e] EXCEPT !.pc = "checkpoint", !.seen = Append(proc[e].seen, o)] \in Process
  BY <1>1, <1>3 DEF Process, Pc
<1> QED BY <1>1, <1>2, <1>4 DEF Moves, Process

\* Measuring a turn keeps the invariant.
LEMMA ExecuteKeeps == ASSUME IInv, NEW e \in Evaluator, Execute(e) PROVE IInv'
<1> DEFINE r == RunId(e)
           seen == proc[e].seen
<1>1. TypeOK /\ proc[e].pc = "execute" /\ UNCHANGED <<data, files, edited>>
  BY DEF IInv, Execute, At
<1>2. /\ seen \in Seq(Observation) /\ Len(seen) \in Nat /\ Len(seen) + 1 \in 1 .. Turns
      /\ runState[r].done = Len(seen) /\ SavedSeen(saved[r], seen, Len(seen))
      /\ Mine(e, runState[r]) /\ runState[r].status = "RUNNING" /\ result[r] = None
      /\ failure[r] = None
  BY <1>1, HasRun DEF Phase, Working
<1>3. proc[e].pc \in Working \ {"fail_file", "fail_state"}
  BY <1>1 DEF Working
<1>4. r \notin edited /\ Recorded(e) = "fail_file" /\ "fail_file" \in Pc
  BY <1>3, MayFail DEF Pc
<1>5. CASE Fault /\ Goes(e, Recorded(e))
  <2>1. Stays(e, "fail_file") /\ faults' \in Nat
    BY <1>1, <1>4, <1>5, GoesMoves, FaultCounts
  <2> QED BY <1>1, <1>3, <2>1, NoFileIsOwn, FailsUnwritten
<1>6. ASSUME NEW v \in Verdict, UNCHANGED faults, Observed(e, Len(seen) + 1, v) = Raises,
             Goes(e, Recorded(e))
      PROVE  IInv'
  <2>1. Stays(e, "fail_file") /\ faults' \in Nat
    BY <1>1, <1>4, <1>6, GoesMoves, FaultCounts
  <2> QED BY <1>1, <1>3, <2>1, NoFileIsOwn, FailsUnwritten
<1>7. ASSUME NEW v \in Verdict, UNCHANGED faults, Observed(e, Len(seen) + 1, v) # Raises,
             proc' = [proc EXCEPT ![e].pc = "checkpoint",
                                  ![e].seen = Append(@, Observed(e, Len(seen) + 1, v))]
      PROVE  IInv'
  <2> DEFINE o == Observed(e, Len(seen) + 1, v)
             now == Append(seen, o)
  <2>1. o \in Observation
    BY <1>1, <1>2, <1>7, ObservedWhat
  <2>2. Moves(e, "checkpoint", proc[e].at, now, proc[e].refs, proc[e].bundle)
    BY <1>1, <1>7, <2>1, SeesMoves
  <2>3. WritesItsRun(e) /\ UNCHANGED <<runState, saved, result, failure, edited>>
    BY <1>1, <1>7, NoFileIsOwn, FaultCounts
  <2>4. Len(now) = Len(seen) + 1 /\ \A t \in 1 .. Len(seen) : now[t] = seen[t]
    BY <1>2, <2>1
  <2> HIDE DEF o, now
  <2>5. SavedSeen(saved[r], now, Len(seen))
    BY <1>2, <2>4 DEF SavedSeen
  <2>6. Phase(e, "checkpoint", now, runState[r], result[r], failure[r], saved[r])
    <3>1. Len(now) - 1 = Len(seen) /\ Len(now) <= Turns
      BY <1>2, <2>4, EvaluationAssumption
    <3> QED BY <1>2, <2>4, <2>5, <3>1 DEF Phase, Working, Mine
  <2> QED BY <1>3, <1>4, <2>2, <2>3, <2>6, HasRun, RunStepKeeps DEF Working
<1>8. \/ Fault /\ Goes(e, Recorded(e))
      \/ \E v \in Verdict :
            /\ UNCHANGED faults
            /\ IF Observed(e, Len(seen) + 1, v) = Raises THEN Goes(e, Recorded(e))
               ELSE proc' = [proc EXCEPT ![e].pc = "checkpoint",
                                         ![e].seen = Append(@, Observed(e, Len(seen) + 1, v))]
  BY DEF Execute
<1> QED BY <1>5, <1>6, <1>7, <1>8

\* A write of the state of a run, or the exception instead of it or right after it
LEMMA StateStepKeeps ==
    ASSUME IInv, NEW e \in Evaluator, NEW s \in RunFile, s.by = e, NEW next,
           proc[e].pc \in Working \ {"fail_file", "fail_state"},
           runState' = runState \/ runState' = [runState EXCEPT ![RunId(e)] = s],
           \/ runState' = [runState EXCEPT ![RunId(e)] = s] /\ Stays(e, next)
           \/ Stays(e, "fail_file"),
           UNCHANGED <<data, saved, result, failure, planState, record, edited>>, faults' \in Nat,
           s.status \in {"RUNNING", "FINALIZING", "SUCCEEDED"},
           Ledger(RunId(e), s, result[RunId(e)], None, saved[RunId(e)], edited),
           Phase(e, next, proc[e].seen, s, result[RunId(e)], None, saved[RunId(e)]),
           next \in Working \cup {"refer", "ended"},
           next = "refer" => Planned(e), next = "ended" => ~Planned(e),
           next \in {"refer", "ended"} => s.status = "SUCCEEDED"
    PROVE  IInv'
<1> DEFINE r == RunId(e)
<1>1. /\ failure[r] = None /\ Mine(e, runState[r])
      /\ runState[r].status \in {"RUNNING", "FINALIZING", "SUCCEEDED"}
      /\ r \notin edited /\ r \in Run /\ runState \in [Run -> RunFile \cup {None}]
  BY MayFail, HasRun DEF IInv, TypeOK
<1>2. WritesItsRun(e)
  BY <1>1, StateWriteIsOwn
<1>3. runState'[r] = runState[r] \/ runState'[r] = s
  BY <1>1
<1>4. Mine(e, s)
  BY NoneIsNoFile DEF Mine
<1>5. /\ Ledger(r, runState[r], result[r], None, saved[r], edited)
      /\ proc[e].pc \in Working \cup {"reserve"}
  BY <1>1, HasRun
<1>6. CASE runState' = [runState EXCEPT ![r] = s] /\ Stays(e, next)
  <2>1. runState'[r] = s /\ Moves(e, next, proc[e].at, proc[e].seen, proc[e].refs, proc[e].bundle)
    BY <1>1, <1>6 DEF Stays
  <2>2. next \notin {"abort", "raised"} /\ next \in Working \cup {"refer", "abort", "ended", "raised"}
    BY DEF Working
  <2>3. next \in {"refer", "abort", "ended", "raised"} => ~Unsettled(e, s)
    BY <2>2 DEF Unsettled
  <2>4. Ledger(r, runState'[r], result'[r], failure'[r], saved'[r], edited)
    BY <1>1, <2>1
  <2>5. Phase(e, next, proc[e].seen, runState'[r], result'[r], failure'[r], saved'[r])
    BY <1>1, <2>1
  <2> QED BY <1>1, <1>2, <1>5, <2>1, <2>2, <2>3, <2>4, <2>5, RunStepKeeps
<1>7. CASE Stays(e, "fail_file")
  <2>1. Moves(e, "fail_file", proc[e].at, proc[e].seen, proc[e].refs, proc[e].bundle)
    BY <1>7 DEF Stays
  <2>2. Ledger(r, runState'[r], result'[r], failure'[r], saved'[r], edited)
    BY <1>1, <1>3, <1>5
  <2>3. Phase(e, "fail_file", proc[e].seen, runState'[r], result'[r], failure'[r], saved'[r])
    BY <1>1, <1>3, <1>4, ToFailure
  <2>4. "fail_file" \in Working /\ "fail_file" \notin {"refer", "abort", "ended", "raised"}
    BY DEF Working
  <2> QED BY <1>1, <1>2, <1>5, <2>1, <2>2, <2>3, <2>4, RunStepKeeps
<1> QED BY <1>6, <1>7

\* What e knows about its run in the three steps that write its state
LEMMA CountKeeps == ASSUME IInv, NEW e \in Evaluator, Count(e) PROVE IInv'
<1> DEFINE r == RunId(e)
           seen == proc[e].seen
           s == [runState[r] EXCEPT !.done = @ + 1]
           next == IF Len(seen) = Turns THEN "finalize" ELSE "execute"
<1>1. TypeOK /\ proc[e].pc = "count" /\ r \in Run /\ runState \in [Run -> RunFile \cup {None}]
  BY HasRun DEF IInv, TypeOK, Count, At
<1>2. proc[e].pc \in Working \ {"fail_file", "fail_state"}
  BY <1>1 DEF Working
<1>3. /\ failure[r] = None /\ Recorded(e) = "fail_file" /\ Recorded(e) \in Pc
      /\ Mine(e, runState[r]) /\ runState[r] \in RunFile
  BY <1>1, <1>2, MayFail, HasRun DEF Mine
<1>4. /\ seen \in Seq(Observation) /\ Len(seen) \in Nat /\ Len(seen) <= Turns
      /\ runState[r].done + 1 = Len(seen) /\ SavedSeen(saved[r], seen, Len(seen))
      /\ runState[r].status = "RUNNING" /\ result[r] = None
  BY <1>1, HasRun DEF Phase
<1>5. s \in RunFile /\ s.by = e /\ s.status = "RUNNING" /\ s.done = Len(seen) /\ s # None
  BY <1>3, <1>4, StateFields, NoneIsNoFile DEF Mine
<1>6. next \in Pc /\ next \in Working /\ next \in {"finalize", "execute"}
  BY DEF Pc, Working
<1>7. /\ UNCHANGED <<data, saved, result, failure, planState, record, edited>>
      /\ Writes(e, runState' = [runState EXCEPT ![r].done = @ + 1], UNCHANGED runState, next, Recorded(e))
  BY DEF Count
<1>8. [runState EXCEPT ![r].done = @ + 1] = [runState EXCEPT ![r] = s]
  BY <1>1
<1>9. /\ runState' = [runState EXCEPT ![r].done = @ + 1] \/ UNCHANGED runState
      /\ faults' \in Nat
      /\ \/ runState' = [runState EXCEPT ![r].done = @ + 1] /\ Stays(e, next)
         \/ Stays(e, Recorded(e))
  BY <1>1, <1>3, <1>6, <1>7, WriteGoes
<1>10. Ledger(r, s, result[r], None, saved[r], edited)
  BY <1>3, <1>4, <1>5, HasRun DEF Ledger, Mine
<1>11. Phase(e, next, seen, s, result[r], None, saved[r])
  BY <1>4, <1>5, EvaluationAssumption DEF Phase, Working
<1> HIDE DEF s, next
<1> QED BY <1>2, <1>3, <1>5, <1>6, <1>7, <1>8, <1>9, <1>10, <1>11, StateStepKeeps

\* Announcing the result keeps the invariant.
LEMMA BeginFinalizationKeeps == ASSUME IInv, NEW e \in Evaluator, BeginFinalization(e) PROVE IInv'
<1> DEFINE r == RunId(e)
           seen == proc[e].seen
           s == [runState[r] EXCEPT !.status = "FINALIZING"]
<1>1. TypeOK /\ proc[e].pc = "finalize" /\ r \in Run /\ runState \in [Run -> RunFile \cup {None}]
  BY HasRun DEF IInv, TypeOK, BeginFinalization, At
<1>2. proc[e].pc \in Working \ {"fail_file", "fail_state"}
  BY <1>1 DEF Working
<1>3. /\ failure[r] = None /\ Recorded(e) = "fail_file" /\ Recorded(e) \in Pc
      /\ Mine(e, runState[r]) /\ runState[r] \in RunFile
  BY <1>1, <1>2, MayFail, HasRun DEF Mine
<1>4. /\ Len(seen) = Turns /\ runState[r].done = Turns /\ SavedSeen(saved[r], seen, Turns)
      /\ result[r] = None
  BY <1>1, HasRun DEF Phase
<1>5. s \in RunFile /\ s.by = e /\ s.status = "FINALIZING" /\ s.done = Turns /\ s # None
  <2>1. "FINALIZING" \in RunStatus
    BY DEF RunStatus
  <2>2. s \in RunFile /\ s.by = runState[r].by /\ s.status = "FINALIZING" /\ s.done = runState[r].done
    BY <1>3, <2>1, StateFields
  <2> QED BY <1>3, <1>4, <2>2, NoneIsNoFile DEF Mine
<1>6. "write" \in Pc /\ "write" \in Working
  BY DEF Pc, Working
<1>7. /\ UNCHANGED <<data, saved, result, failure, planState, record, edited>>
      /\ Writes(e, runState' = [runState EXCEPT ![r].status = "FINALIZING"], UNCHANGED runState,
                "write", Recorded(e))
  BY DEF BeginFinalization
<1>8. [runState EXCEPT ![r].status = "FINALIZING"] = [runState EXCEPT ![r] = s]
  BY <1>1
<1>9. /\ runState' = [runState EXCEPT ![r].status = "FINALIZING"] \/ UNCHANGED runState
      /\ faults' \in Nat
      /\ \/ runState' = [runState EXCEPT ![r].status = "FINALIZING"] /\ Stays(e, "write")
         \/ Stays(e, Recorded(e))
  BY <1>1, <1>3, <1>6, <1>7, WriteGoes
<1>10. Ledger(r, s, result[r], None, saved[r], edited)
  BY <1>3, <1>4, <1>5, HasRun DEF Ledger, Mine
<1>11. Phase(e, "write", seen, s, result[r], None, saved[r])
  BY <1>4, <1>5 DEF Phase, Working
<1> HIDE DEF s
<1> QED BY <1>2, <1>3, <1>5, <1>6, <1>7, <1>8, <1>9, <1>10, <1>11, StateStepKeeps

\* Recording the success of a run keeps the invariant: its result is written.
LEMMA SucceedKeeps == ASSUME IInv, NEW e \in Evaluator, Succeed(e) PROVE IInv'
<1> DEFINE r == RunId(e)
           seen == proc[e].seen
           s == [runState[r] EXCEPT !.status = "SUCCEEDED"]
           next == IF Planned(e) THEN "refer" ELSE "ended"
<1>1. TypeOK /\ proc[e].pc = "succeed" /\ r \in Run /\ runState \in [Run -> RunFile \cup {None}]
  BY HasRun DEF IInv, TypeOK, Succeed, At
<1>2. proc[e].pc \in Working \ {"fail_file", "fail_state"}
  BY <1>1 DEF Working
<1>3. /\ failure[r] = None /\ Recorded(e) = "fail_file" /\ Recorded(e) \in Pc
      /\ Mine(e, runState[r]) /\ runState[r] \in RunFile
  BY <1>1, <1>2, MayFail, HasRun DEF Mine
<1>4. runState[r].done = Turns /\ result[r] # None
  BY <1>1, HasRun DEF Phase
<1>5. s \in RunFile /\ s.by = e /\ s.status = "SUCCEEDED" /\ s.done = Turns /\ s # None
  <2>1. "SUCCEEDED" \in RunStatus
    BY DEF RunStatus
  <2>2. s \in RunFile /\ s.by = runState[r].by /\ s.status = "SUCCEEDED" /\ s.done = runState[r].done
    BY <1>3, <2>1, StateFields
  <2> QED BY <1>3, <1>4, <2>2, NoneIsNoFile DEF Mine
<1>6. /\ next \in Pc /\ next \in {"refer", "ended"}
      /\ next = "refer" => Planned(e)
      /\ next = "ended" => ~Planned(e)
  BY DEF Pc
<1>7. /\ UNCHANGED <<data, saved, result, failure, planState, record, edited>>
      /\ Writes(e, runState' = [runState EXCEPT ![r].status = "SUCCEEDED"], UNCHANGED runState,
                next, Recorded(e))
  BY DEF Succeed
<1>8. [runState EXCEPT ![r].status = "SUCCEEDED"] = [runState EXCEPT ![r] = s]
  BY <1>1
<1>9. /\ runState' = [runState EXCEPT ![r].status = "SUCCEEDED"] \/ UNCHANGED runState
      /\ faults' \in Nat
      /\ \/ runState' = [runState EXCEPT ![r].status = "SUCCEEDED"] /\ Stays(e, next)
         \/ Stays(e, Recorded(e))
  BY <1>1, <1>3, <1>6, <1>7, WriteGoes
<1>10. Ledger(r, s, result[r], None, saved[r], edited)
  BY <1>3, <1>4, <1>5, HasRun DEF Ledger, Mine
<1>11. Phase(e, next, seen, s, result[r], None, saved[r])
  BY <1>5, <1>6 DEF Phase, Working
<1> HIDE DEF s, next
<1> QED BY <1>2, <1>3, <1>5, <1>6, <1>7, <1>8, <1>9, <1>10, <1>11, StateStepKeeps

\* Saving a turn keeps the invariant: it is the next one of its run.
LEMMA CheckpointKeeps == ASSUME IInv, NEW e \in Evaluator, Checkpoint(e) PROVE IInv'
<1> DEFINE r == RunId(e)
           seen == proc[e].seen
           t == Len(seen)
           file == [by |-> e, observed |-> seen[t]]
           sav == [saved[r] EXCEPT ![t] = file]
           put == saved' = [saved EXCEPT ![r][t] = file]
<1>1. TypeOK /\ proc[e].pc = "checkpoint" /\ r \in Run
  BY HasRun DEF IInv, Checkpoint, At
<1>2. proc[e].pc \in Working \ {"fail_file", "fail_state"} /\ proc[e].pc \in Working \cup {"reserve"}
  BY <1>1 DEF Working
<1>3. /\ failure[r] = None /\ Recorded(e) = "fail_file" /\ Recorded(e) \in Pc
      /\ Mine(e, runState[r]) /\ r \notin edited
      /\ saved[r] \in [1 .. Turns -> TurnFile \cup {None}]
  BY <1>1, <1>2, MayFail, HasRun
<1>4. /\ seen \in Seq(Observation) /\ t \in 1 .. Turns /\ t \in 1 .. Len(seen)
      /\ runState[r].done + 1 = t /\ SavedSeen(saved[r], seen, t - 1)
      /\ runState[r].status = "RUNNING" /\ result[r] = None
  <2>1. /\ seen \in Seq(Observation) /\ runState[r].done + 1 = t /\ t <= Turns
        /\ SavedSeen(saved[r], seen, t - 1) /\ runState[r].status = "RUNNING" /\ result[r] = None
    BY <1>1, HasRun DEF Phase
  <2>2. runState[r].done \in Nat
    BY <1>3, HasRun DEF RunFile, Mine
  <2>3. t \in Nat /\ Turns \in Nat
    BY <2>1, EvaluationAssumption
  <2> QED BY <2>1, <2>2, <2>3
<1>5. UNCHANGED <<data, runState, result, failure, planState, record, edited>>
  BY DEF Checkpoint
<1>6. "count" \in Pc /\ "count" \in Working /\ "fail_file" \in Working /\ "fail_file" \in Pc
  BY DEF Pc, Working
<1>7. file \in TurnFile /\ file.by = e /\ file.observed = seen[t] /\ file # None
  BY <1>4, NoneIsNoFile DEF TurnFile
<1> HIDE DEF file
<1>8. /\ sav \in [1 .. Turns -> TurnFile \cup {None}]
      /\ sav[t] = file
      /\ \A u \in 1 .. Turns : u # t => sav[u] = saved[r][u]
  BY <1>3, <1>4, <1>7
<1>9. [saved EXCEPT ![r][t] = file] = [saved EXCEPT ![r] = sav]
  OBVIOUS
<1>10. saved \in [Run -> [1 .. Turns -> TurnFile \cup {None}]]
  BY <1>1 DEF TypeOK
<1> HIDE DEF sav
<1>11. ASSUME put
       PROVE  /\ saved' \in [Run -> [1 .. Turns -> TurnFile \cup {None}]]
              /\ saved'[r] = sav
              /\ \A q \in Run : q # r => saved'[q] = saved[q]
  BY <1>1, <1>8, <1>9, <1>10, <1>11
<1>12. Ledger(r, runState[r], None, None, sav, edited)
  <2>1. Ledger(r, runState[r], None, None, saved[r], edited)
    BY <1>1, <1>3, <1>4, HasRun
  <2>2. \A u \in 1 .. Turns : sav[u] # None => sav[u].by = runState[r].by
    BY <1>3, <1>7, <1>8, <2>1 DEF Ledger, Mine
  <2> QED BY <1>3, <2>1, <2>2 DEF Ledger, Mine
<1>13. Phase(e, "count", seen, runState[r], None, None, sav)
  <2>1. SavedSeen(sav, seen, t)
    <3> SUFFICES ASSUME NEW u \in 1 .. t PROVE sav[u] # None /\ sav[u].observed = seen[u]
      BY DEF SavedSeen
    <3>1. u \in 1 .. Turns
      BY <1>4, EvaluationAssumption
    <3>2. CASE u = t
      BY <1>7, <1>8, <3>2
    <3>3. CASE u # t
      <4>1. u \in 1 .. (t - 1)
        BY <1>4, <3>3
      <4> QED BY <1>4, <1>8, <3>1, <3>3, <4>1 DEF SavedSeen
    <3> QED BY <3>2, <3>3
  <2> QED BY <1>3, <1>4, <2>1 DEF Phase, Working, Mine
<1>14. Phase(e, "fail_file", seen, runState[r], result[r], None, sav)
  BY <1>3, <1>4, ToFailure
<1>15. CASE saved[r][t] = None
  <2>1. Writes(e, put, UNCHANGED saved, "count", Recorded(e))
    BY <1>15 DEF Checkpoint, file
  <2> HIDE DEF put
  <2>2. /\ put \/ UNCHANGED saved
        /\ faults' \in Nat
        /\ \/ put /\ Stays(e, "count")
           \/ Stays(e, Recorded(e))
    BY <1>1, <1>3, <1>6, <2>1, GoesMoves, FaultCounts DEF Writes
  <2> USE DEF put
  <2>3. WritesItsRun(e)
    BY <1>1, <1>3, <1>5, <1>10, <1>11, <2>2 DEF WritesItsRun, TypeOK
  <2>4. CASE put /\ Stays(e, "count")
    <3>1. Moves(e, "count", proc[e].at, seen, proc[e].refs, proc[e].bundle)
      BY <2>4 DEF Stays
    <3>2. saved'[r] = sav
      BY <1>11, <2>4
    <3>3. Ledger(r, runState'[r], result'[r], failure'[r], saved'[r], edited)
      BY <1>3, <1>4, <1>5, <1>12, <3>2
    <3>4. Phase(e, "count", seen, runState'[r], result'[r], failure'[r], saved'[r])
      BY <1>3, <1>4, <1>5, <1>13, <3>2
    <3>5. "count" \notin {"refer", "abort", "ended", "raised"}
      OBVIOUS
    <3> QED BY <1>2, <1>3, <1>6, <2>3, <3>1, <3>3, <3>4, <3>5, RunStepKeeps
  <2>5. CASE put /\ Stays(e, Recorded(e))
    <3>1. Moves(e, "fail_file", proc[e].at, seen, proc[e].refs, proc[e].bundle)
      BY <1>3, <2>5 DEF Stays
    <3>2. saved'[r] = sav
      BY <1>11, <2>5
    <3>3. Ledger(r, runState'[r], result'[r], failure'[r], saved'[r], edited)
      BY <1>3, <1>4, <1>5, <1>12, <3>2
    <3>4. Phase(e, "fail_file", seen, runState'[r], result'[r], failure'[r], saved'[r])
      BY <1>3, <1>4, <1>5, <1>14, <3>2
    <3>5. "fail_file" \notin {"refer", "abort", "ended", "raised"}
      OBVIOUS
    <3> QED BY <1>2, <1>3, <1>6, <2>3, <3>1, <3>3, <3>4, <3>5, RunStepKeeps
  <2>6. CASE UNCHANGED saved /\ Stays(e, Recorded(e))
    BY <1>2, <1>3, <1>5, <2>3, <2>6, FailsUnwritten
  <2> QED BY <2>2, <2>4, <2>5, <2>6
<1>16. CASE saved[r][t] # None
  <2>1. Goes(e, Recorded(e)) /\ UNCHANGED <<saved, faults>>
    BY <1>16 DEF Checkpoint
  <2>2. Stays(e, "fail_file") /\ faults' \in Nat
    BY <1>1, <1>3, <2>1, GoesMoves, FaultCounts
  <2>3. WritesItsRun(e)
    BY <1>1, <1>5, <2>1, <2>2 DEF WritesItsRun, TypeOK
  <2> QED BY <1>2, <1>5, <2>1, <2>2, <2>3, FailsUnwritten
<1> QED BY <1>15, <1>16

\* Writing the result keeps the invariant: it is what was saved turn by turn.
LEMMA WriteRunKeeps == ASSUME IInv, NEW e \in Evaluator, WriteRun(e) PROVE IInv'
<1> DEFINE r == RunId(e)
           seen == proc[e].seen
           file == [by |-> e, observed |-> seen]
           put == result' = [result EXCEPT ![r] = file]
<1>1. TypeOK /\ proc[e].pc = "write" /\ r \in Run
  BY HasRun DEF IInv, WriteRun, At
<1>2. proc[e].pc \in Working \ {"fail_file", "fail_state"} /\ proc[e].pc \in Working \cup {"reserve"}
  BY <1>1 DEF Working
<1>3. /\ failure[r] = None /\ Recorded(e) = "fail_file" /\ Recorded(e) \in Pc
      /\ Mine(e, runState[r]) /\ r \notin edited
  BY <1>1, <1>2, MayFail, HasRun
<1>4. /\ seen \in Seq(Observation) /\ Len(seen) = Turns
      /\ runState[r].done = Turns /\ SavedSeen(saved[r], seen, Turns)
      /\ runState[r].status = "FINALIZING" /\ result[r] = None
  BY <1>1, HasRun DEF Phase
<1>5. UNCHANGED <<data, runState, saved, failure, planState, record, edited>>
  BY DEF WriteRun
<1>6. "succeed" \in Pc /\ "succeed" \in Working /\ "fail_file" \in Working /\ "fail_file" \in Pc
  BY DEF Pc, Working
<1>7. file \in ResultFile /\ file.by = e /\ file.observed = seen /\ file # None
  BY <1>4, NoneIsNoFile DEF ResultFile
<1>8. Writes(e, put, UNCHANGED result, "succeed", Recorded(e))
  BY <1>4 DEF WriteRun
<1> HIDE DEF file, put
<1>9. /\ put \/ UNCHANGED result
      /\ faults' \in Nat
      /\ \/ put /\ Stays(e, "succeed")
         \/ Stays(e, Recorded(e))
  BY <1>1, <1>3, <1>6, <1>8, GoesMoves, FaultCounts DEF Writes
<1>10. result \in [Run -> ResultFile \cup {None}]
  BY <1>1 DEF TypeOK
<1>11. ASSUME put
       PROVE  /\ result' \in [Run -> ResultFile \cup {None}]
              /\ result'[r] = file
              /\ \A q \in Run : q # r => result'[q] = result[q]
  BY <1>1, <1>7, <1>10, <1>11 DEF put
<1>12. Ledger(r, runState[r], file, None, saved[r], edited)
  <2>1. Ledger(r, runState[r], None, None, saved[r], edited)
    BY <1>1, <1>3, <1>4, HasRun
  <2> QED BY <1>3, <1>4, <1>7, <2>1 DEF Ledger, Mine, SavedSeen
<1>13. Phase(e, "succeed", seen, runState[r], file, None, saved[r])
  BY <1>3, <1>4, <1>7 DEF Phase, Working, Mine
<1>14. Phase(e, "fail_file", seen, runState[r], file, None, saved[r])
  BY <1>3, <1>4, ToFailure
<1>15. WritesItsRun(e)
  BY <1>1, <1>3, <1>5, <1>10, <1>11, <1>9 DEF WritesItsRun, TypeOK
<1>16. CASE put /\ Stays(e, "succeed")
  <2>1. Moves(e, "succeed", proc[e].at, seen, proc[e].refs, proc[e].bundle) /\ result'[r] = file
    BY <1>11, <1>16 DEF Stays
  <2>2. Ledger(r, runState'[r], result'[r], failure'[r], saved'[r], edited)
    BY <1>3, <1>5, <1>12, <2>1
  <2>3. Phase(e, "succeed", seen, runState'[r], result'[r], failure'[r], saved'[r])
    BY <1>3, <1>5, <1>13, <2>1
  <2>4. "succeed" \notin {"refer", "abort", "ended", "raised"}
    OBVIOUS
  <2> QED BY <1>2, <1>3, <1>6, <1>15, <2>1, <2>2, <2>3, <2>4, RunStepKeeps
<1>17. CASE put /\ Stays(e, Recorded(e))
  <2>1. Moves(e, "fail_file", proc[e].at, seen, proc[e].refs, proc[e].bundle) /\ result'[r] = file
    BY <1>3, <1>11, <1>17 DEF Stays
  <2>2. Ledger(r, runState'[r], result'[r], failure'[r], saved'[r], edited)
    BY <1>3, <1>5, <1>12, <2>1
  <2>3. Phase(e, "fail_file", seen, runState'[r], result'[r], failure'[r], saved'[r])
    BY <1>3, <1>5, <1>14, <2>1
  <2>4. "fail_file" \notin {"refer", "abort", "ended", "raised"}
    OBVIOUS
  <2> QED BY <1>2, <1>3, <1>6, <1>15, <2>1, <2>2, <2>3, <2>4, RunStepKeeps
<1>18. CASE UNCHANGED result /\ Stays(e, Recorded(e))
  BY <1>2, <1>3, <1>5, <1>15, <1>18, FailsUnwritten
<1> QED BY <1>9, <1>16, <1>17, <1>18

\* Writing the failure keeps the invariant: it says whether there is a result.
LEMMA FailFileKeeps == ASSUME IInv, NEW e \in Evaluator, FailFile(e) PROVE IInv'
<1> DEFINE r == RunId(e)
           seen == proc[e].seen
           file == [by |-> e, status |-> FailedStatus(result[r] # None)]
           put == failure' = [failure EXCEPT ![r] = file]
<1>1. TypeOK /\ proc[e].pc = "fail_file" /\ r \in Run
  BY HasRun DEF IInv, FailFile, At
<1>2. /\ proc[e].pc \in Working \cup {"reserve"} /\ "fail_state" \in Working /\ "fail_state" \in Pc
      /\ Unwound(e) \in {"refer", "abort", "ended", "raised"} /\ Unwound(e) \in Pc
      /\ Unwound(e) \notin Working \cup {"refer", "plan_checkpoint"}
  BY <1>1, UnwoundWhere DEF Working, Pc
<1>3. /\ failure[r] = None /\ Mine(e, runState[r]) /\ r \notin edited
      /\ runState[r].status \in {"RUNNING", "FINALIZING", "SUCCEEDED"}
  BY <1>1, HasRun DEF Phase, Working
<1>4. UNCHANGED <<data, runState, saved, result, planState, record, edited>>
  BY DEF FailFile
<1>5. file \in FailureFile /\ file.by = e /\ file.status = FailedStatus(result[r] # None) /\ file # None
  BY NoneIsNoFile DEF FailureFile, FailedStatus
<1>6. WritesLast(e, put, UNCHANGED failure, "fail_state", Unwound(e))
  BY <1>3 DEF FailFile
<1> HIDE DEF file, put
<1>7. /\ put \/ UNCHANGED failure
      /\ faults' \in Nat
      /\ \/ put /\ Stays(e, "fail_state")
         \/ Stays(e, Unwound(e)) /\ proc'[e].lost
  BY <1>1, <1>2, <1>6, GoesMoves, LosingMoves, FaultCounts DEF WritesLast
<1>8. failure \in [Run -> FailureFile \cup {None}]
  BY <1>1 DEF TypeOK
<1>9. ASSUME put
      PROVE  /\ failure' \in [Run -> FailureFile \cup {None}]
             /\ failure'[r] = file
             /\ \A q \in Run : q # r => failure'[q] = failure[q]
  BY <1>1, <1>5, <1>8, <1>9 DEF put
<1>10. Ledger(r, runState[r], result[r], file, saved[r], edited)
  <2>1. Ledger(r, runState[r], result[r], None, saved[r], edited)
    BY <1>1, <1>3, HasRun
  <2> QED BY <1>3, <1>5, <2>1 DEF Ledger, Mine
<1>11. WritesItsRun(e)
  BY <1>1, <1>3, <1>4, <1>7, <1>8, <1>9 DEF WritesItsRun, TypeOK
<1>12. Ledger(r, runState'[r], result'[r], failure'[r], saved'[r], edited)
  <2>1. Ledger(r, runState[r], result[r], failure[r], saved[r], edited)
    BY HasRun
  <2>2. failure'[r] = file \/ failure'[r] = failure[r]
    BY <1>7, <1>9
  <2> QED BY <1>4, <1>10, <2>1, <2>2
<1>13. CASE put /\ Stays(e, "fail_state")
  <2>1. Moves(e, "fail_state", proc[e].at, seen, proc[e].refs, proc[e].bundle) /\ failure'[r] = file
    BY <1>9, <1>13 DEF Stays
  <2>2. Phase(e, "fail_state", seen, runState'[r], result'[r], failure'[r], saved'[r])
    BY <1>3, <1>4, <1>5, <2>1 DEF Phase, Working, Mine
  <2>3. "fail_state" \notin {"refer", "abort", "ended", "raised"}
    OBVIOUS
  <2> QED BY <1>2, <1>3, <1>11, <1>12, <2>1, <2>2, <2>3, RunStepKeeps
<1>14. CASE Stays(e, Unwound(e)) /\ proc'[e].lost
  <2>1. Moves(e, Unwound(e), proc[e].at, seen, proc[e].refs, proc[e].bundle)
    BY <1>14 DEF Stays
  <2>2. Phase(e, Unwound(e), seen, runState'[r], result'[r], failure'[r], saved'[r])
    BY <1>2, NoPhase
  <2> QED BY <1>2, <1>3, <1>11, <1>12, <1>14, <2>1, <2>2, RunStepKeeps, UnwoundWhere
<1> QED BY <1>7, <1>13, <1>14

\* Recording the failure keeps the invariant: the state says what the failure says.
LEMMA FailStateKeeps == ASSUME IInv, NEW e \in Evaluator, FailState(e) PROVE IInv'
<1> DEFINE r == RunId(e)
           seen == proc[e].seen
           s == [runState[r] EXCEPT !.status = failure[r].status]
           put == runState' = [runState EXCEPT ![r].status = failure[r].status]
<1>1. TypeOK /\ proc[e].pc = "fail_state" /\ r \in Run
  BY HasRun DEF IInv, FailState, At
<1>2. /\ proc[e].pc \in Working \cup {"reserve"}
      /\ Unwound(e) \in {"refer", "abort", "ended", "raised"} /\ Unwound(e) \in Pc
      /\ Unwound(e) \notin Working \cup {"refer", "plan_checkpoint"}
  BY <1>1, UnwoundWhere DEF Working, Pc
<1>3. /\ failure[r] # None /\ failure[r] \in FailureFile
      /\ Mine(e, runState[r]) /\ runState[r] \in RunFile
      /\ runState \in [Run -> RunFile \cup {None}]
      /\ Ledger(r, runState[r], result[r], failure[r], saved[r], edited)
  BY <1>1, HasRun DEF Phase, Working, Mine, TypeOK
<1>4. /\ failure[r].status = FailedStatus(result[r] # None)
      /\ failure[r].status \in {"FAILED", "FINALIZATION_INCOMPLETE"}
      /\ failure[r].status = "FAILED" <=> result[r] = None
  BY <1>3 DEF Ledger, FailedStatus
<1>5. UNCHANGED <<data, saved, result, failure, planState, record, edited>>
  BY DEF FailState
<1>6. s \in RunFile /\ s.by = e /\ s.status = failure[r].status /\ s # None
  <2>1. failure[r].status \in RunStatus
    BY <1>4 DEF RunStatus
  <2>2. runState[r] \in RunFile /\ runState[r].by = e
    BY <1>3 DEF Mine
  <2>3. /\ s \in RunFile /\ s.status = failure[r].status /\ s.by = runState[r].by
    BY <2>1, <2>2, StateFields
  <2> QED BY <2>2, <2>3, NoneIsNoFile
<1>7. WritesLast(e, put, UNCHANGED runState, Unwound(e), Unwound(e))
  BY DEF FailState
<1>8. put <=> runState' = [runState EXCEPT ![r] = s]
  BY <1>1, <1>3
<1> HIDE DEF s, put
<1>9. /\ put \/ UNCHANGED runState
      /\ faults' \in Nat
      /\ Stays(e, Unwound(e))
      /\ put \/ proc'[e].lost
  BY <1>1, <1>2, <1>7, GoesMoves, LosingMoves, FaultCounts DEF WritesLast
<1>10. WritesItsRun(e) /\ runState'[r] \in {runState[r], s}
  BY <1>3, <1>5, <1>6, <1>8, <1>9, StateWriteIsOwn
<1>11. Ledger(r, s, result[r], failure[r], saved[r], edited)
  BY <1>3, <1>4, <1>6 DEF Ledger, Mine
<1>12. Ledger(r, runState'[r], result'[r], failure'[r], saved'[r], edited)
  BY <1>3, <1>5, <1>10, <1>11
<1>13. Moves(e, Unwound(e), proc[e].at, seen, proc[e].refs, proc[e].bundle)
  BY <1>9 DEF Stays
<1>14. Phase(e, Unwound(e), seen, runState'[r], result'[r], failure'[r], saved'[r])
  BY <1>2, NoPhase
<1>15. proc'[e].lost \/ ~Unsettled(e, runState'[r])
  <2>1. put => runState'[r] = s
    BY <1>1, <1>3, <1>8
  <2> QED BY <1>4, <1>6, <1>9, <2>1 DEF Unsettled
<1> QED BY <1>2, <1>10, <1>12, <1>13, <1>14, <1>15, RunStepKeeps, UnwoundWhere

-----------------------------------------------------------------------------
(* The steps of a plan *)

\* A step of e in its plan keeps the invariant if e fits afterwards and so do the
\* files of its plan.
LEMMA PlanStepKeeps ==
    ASSUME IInv, NEW e \in Evaluator, WritesItsPlan(e),
           proc' \in [Evaluator -> Process],
           \A f \in Evaluator : f # e => proc'[f] = proc[f],
           EvaluatorFits(e)',
           Planned(e) => PlanLedger(PlanOf[e])',
           ~Planned(e) => proc'[e].refs = proc[e].refs
    PROVE  IInv'
<1>1. TypeOK'
  BY DEF IInv, TypeOK, WritesItsPlan
<1>2. \A r \in Run : RunFits(r)'
  BY DEF IInv, RunFits, WritesItsPlan
<1>3. \A p \in Plan : PlanLedger(p)'
  <2> SUFFICES ASSUME NEW p \in Plan, PlanOf[e] # p PROVE PlanLedger(p)'
    BY EvaluationAssumption DEF Planned
  <2>1. PlanLedger(p) /\ planState'[p] = planState[p] /\ record'[p] = record[p]
    BY DEF IInv, WritesItsPlan
  <2>2. planState[p] # None => planState[p].by \in Evaluator
    BY DEF IInv, TypeOK, PlanFile
  <2>3. planState[p] # None => planState[p].by # e
    BY <2>1 DEF PlanLedger
  <2>4. planState[p] # None => proc'[planState[p].by] = proc[planState[p].by]
    BY <2>2, <2>3
  <2> QED BY <2>1, <2>4 DEF PlanLedger
<1>4. \A f \in Evaluator : EvaluatorFits(f)'
  BY OthersKeepPlans
<1> QED BY <1>1, <1>2, <1>3, <1>4 DEF IInv

\* As long as e stays at its run, what it has to know of the run follows from where
\* it comes from.
LEMMA StayingKeeps ==
    ASSUME IInv, NEW e \in Evaluator, WritesItsPlan(e), NEW pc, NEW refs, NEW bundle,
           Moves(e, pc, proc[e].at, proc[e].seen, refs, bundle),
           proc[e].lost => proc'[e].lost,
           pc = "killed" \/ proc[e].pc \notin Working \cup {"killed"},
           pc \notin Working \cup {"refer"},
           pc \in OfPlan => Planned(e),
           pc \in Before => proc[e].pc \in Before,
           pc = "plan_checkpoint" => /\ Mine(e, runState[RunId(e)])
                                     /\ runState[RunId(e)].status = "SUCCEEDED",
           RefsFit(e)', BundleFits(e)', PlanFits(e)',
           Planned(e) => PlanLedger(PlanOf[e])',
           ~Planned(e) => refs = proc[e].refs
    PROVE  IInv'
<1>1. EvaluatorFits(e)
  BY DEF IInv
<1>2. /\ \A f \in Evaluator : f # e => proc'[f] = proc[f]
      /\ proc' \in [Evaluator -> Process]
      /\ proc'[e].pc = pc /\ proc'[e].at = proc[e].at /\ proc'[e].seen = proc[e].seen
      /\ proc'[e].refs = refs
  BY DEF Moves
<1>3. /\ RunId(e)' = RunId(e) /\ RunId(e) \in Run
      /\ UNCHANGED <<runState, saved, result, failure, edited>>
  BY <1>2, AtOne DEF RunId, WritesItsPlan
<1>4. AtRun(e)'
  BY <1>1, <1>2 DEF EvaluatorFits, AtRun
<1>5. PhaseFits(e)'
  <2>1. Phase(e, pc, proc[e].seen, runState[RunId(e)], result[RunId(e)], failure[RunId(e)],
              saved[RunId(e)])
    <3>1. CASE pc = "plan_checkpoint"
      BY <3>1 DEF Phase, Working, Mine
    <3>2. CASE pc # "plan_checkpoint"
      BY <3>2, NoPhase
    <3> QED BY <3>1, <3>2
  <2> QED BY <1>2, <1>3, <2>1 DEF PhaseFits
<1>6. OwnsPast(e)'
  BY <1>1, <1>2, <1>3 DEF EvaluatorFits, OwnsPast
<1>7. RunSettled(e)'
  <2> SUFFICES ASSUME pc \notin Before \cup Working \cup {"killed"}, ~proc'[e].lost,
                      Mine(e, runState[RunId(e)])
               PROVE  runState[RunId(e)].status \notin {"RUNNING", "FINALIZING"}
    BY <1>2, <1>3 DEF RunSettled, Mine
  <2>1. ~proc[e].lost /\ proc[e].pc \notin Working \cup {"killed"}
    OBVIOUS
  <2>2. proc[e].pc \notin Before
    <3>1. ASSUME NEW i \in 1 .. proc[e].at, RunsOf[e][i] = RunId(e), i < proc[e].at PROVE FALSE
      BY <3>1, AtOne
    <3> QED BY <1>1, <1>3, <3>1 DEF EvaluatorFits, OwnsPast, Mine
  <2> QED BY <1>1, <2>1, <2>2 DEF EvaluatorFits, RunSettled, Mine
<1>8. EvaluatorFits(e)'
  BY <1>4, <1>5, <1>6, <1>7 DEF EvaluatorFits
<1> QED BY <1>2, <1>8, PlanStepKeeps

\* Nothing of the plan has changed.
LEMMA PlanUntouched ==
    ASSUME IInv, NEW e \in Evaluator, UNCHANGED <<data, files, edited>>, faults' \in Nat,
           proc'[e].refs = proc[e].refs, \A f \in Evaluator : f # e => proc'[f] = proc[f]
    PROVE  /\ WritesItsPlan(e)
           /\ UNCHANGED <<data, runState, saved, result, failure, planState, record, edited>>
           /\ Planned(e) => PlanLedger(PlanOf[e])'
<1>1. UNCHANGED <<data, runState, saved, result, failure, planState, record, edited>>
  BY DEF files
<1>2. WritesItsPlan(e)
  BY <1>1 DEF IInv, TypeOK, WritesItsPlan
<1>3. ASSUME Planned(e) PROVE PlanLedger(PlanOf[e])'
  <2> DEFINE p == PlanOf[e]
  <2>1. p \in Plan /\ PlanLedger(p)
    BY <1>3, RunsOfOne DEF IInv
  <2>2. planState[p] # None => planState[p].by \in Evaluator
    BY <2>1 DEF IInv, TypeOK, PlanFile
  <2>3. \A f \in Evaluator : proc'[f].refs = proc[f].refs
    OBVIOUS
  <2> QED BY <1>1, <2>1, <2>2, <2>3 DEF PlanLedger
<1> QED BY <1>1, <1>2, <1>3

\* What e knows, in one place
LEMMA HasPlan ==
    ASSUME IInv, NEW e \in Evaluator
    PROVE  /\ TypeOK /\ RefsFit(e) /\ BundleFits(e) /\ PlanFits(e) /\ OwnsPast(e) /\ AtRun(e)
           /\ proc[e].pc \in OfPlan => Planned(e)
           /\ proc[e].pc \notin Before \cup Working => proc[e].pc \notin {"idle", "reserve_plan"}
           /\ Planned(e) => /\ PlanOf[e] \in Plan /\ PlanLedger(PlanOf[e])
                            /\ PlanPhase(e, proc[e].pc, planState[PlanOf[e]], record[PlanOf[e]])
                            /\ planState[PlanOf[e]] \in PlanFile \cup {None}
                            /\ record[PlanOf[e]] \in Seq(ResultFile) \cup {None}
           /\ proc[e].refs \in Seq(ResultFile) /\ Len(proc[e].refs) \in Nat
<1>1. TypeOK /\ EvaluatorFits(e)
  BY DEF IInv
<1>2. AtRun(e) /\ PlanFits(e)
  BY <1>1 DEF EvaluatorFits
<1>3. Planned(e) => PlanOf[e] \in Plan /\ PlanLedger(PlanOf[e])
  BY RunsOfOne DEF IInv
<1>4. proc[e] \in Process
  BY <1>1 DEF TypeOK
<1> QED BY <1>1, <1>2, <1>3, <1>4 DEF EvaluatorFits, AtRun, PlanFits, TypeOK, Process, Before

\* The steps that write no file: a start, a kill and what is done in memory
LEMMA StartKeeps == ASSUME IInv, NEW e \in Evaluator, Start(e) PROVE IInv'
<1> DEFINE pc == IF Planned(e) THEN "reserve_plan" ELSE "reserve"
<1>1. TypeOK /\ proc[e].pc = "idle" /\ UNCHANGED <<data, files, edited>> /\ faults' = faults
  BY DEF IInv, Start, At
<1>2. pc \in Pc
  BY DEF Pc
<1>3. Goes(e, pc)
  BY DEF Start
<1>4. Stays(e, pc) /\ proc'[e].lost = proc[e].lost
  BY <1>1, <1>2, <1>3, GoesMoves
<1>5. Moves(e, pc, proc[e].at, proc[e].seen, proc[e].refs, proc[e].bundle)
  BY <1>4 DEF Stays
<1>6. /\ \A f \in Evaluator : f # e => proc'[f] = proc[f]
      /\ proc'[e].pc = pc /\ proc'[e].at = proc[e].at /\ proc'[e].refs = proc[e].refs
      /\ proc'[e].bundle = proc[e].bundle
  BY <1>5 DEF Moves
<1>7. /\ WritesItsPlan(e) /\ (Planned(e) => PlanLedger(PlanOf[e])')
      /\ UNCHANGED <<data, runState, saved, result, failure, planState, record, edited>>
  <2>1. faults' \in Nat
    BY <1>1 DEF TypeOK
  <2> QED BY <1>1, <1>6, <2>1, PlanUntouched
<1>8. /\ pc \in {"reserve_plan", "reserve"} /\ pc \in Before /\ proc[e].pc \in Before
      /\ pc \notin Working \cup {"refer"} /\ pc # "plan_checkpoint"
      /\ proc[e].pc \notin Working \cup {"killed"}
      /\ pc \in OfPlan => Planned(e)
  BY <1>1 DEF Before, Working, OfPlan
<1>9. RefsFit(e)'
  BY <1>6, <1>7, <1>8, HasPlan DEF RefsFit
<1>10. BundleFits(e)'
  BY <1>1, <1>6, HasPlan DEF BundleFits
<1>11. PlanFits(e)'
  BY <1>1, <1>6, <1>7, HasPlan DEF PlanFits, PlanPhase, Out, Planned
<1> HIDE DEF pc
<1> QED BY <1>4, <1>5, <1>7, <1>8, <1>9, <1>10, <1>11, StayingKeeps

\* A kill keeps the invariant: no file changes.
LEMMA KillKeeps == ASSUME IInv, NEW e \in Evaluator, Kill(e) PROVE IInv'
<1>1. /\ TypeOK /\ UNCHANGED <<data, files, edited>> /\ faults' \in Nat
      /\ "killed" \in Pc /\ Goes(e, "killed") /\ proc[e].pc # "killed"
  BY FaultCounts DEF IInv, Kill, Pc, Over
<1>2. Stays(e, "killed") /\ proc'[e].lost = proc[e].lost
  BY <1>1, GoesMoves
<1>3. Moves(e, "killed", proc[e].at, proc[e].seen, proc[e].refs, proc[e].bundle)
  BY <1>2 DEF Stays
<1>4. /\ \A f \in Evaluator : f # e => proc'[f] = proc[f]
      /\ proc'[e].pc = "killed" /\ proc'[e].at = proc[e].at /\ proc'[e].refs = proc[e].refs
      /\ proc'[e].bundle = proc[e].bundle
  BY <1>3 DEF Moves
<1>5. /\ WritesItsPlan(e) /\ (Planned(e) => PlanLedger(PlanOf[e])')
      /\ UNCHANGED <<data, runState, saved, result, failure, planState, record, edited>>
  BY <1>1, <1>4, PlanUntouched
<1>6. "killed" \notin Working \cup {"refer"} /\ "killed" \notin OfPlan /\ "killed" \notin Before
  BY DEF Before, Working, OfPlan
<1>7. RefsFit(e)'
  BY <1>4, <1>5, <1>6, HasPlan DEF RefsFit
<1>8. BundleFits(e)'
  BY <1>4, HasPlan DEF BundleFits
<1>9. PlanFits(e)'
  BY <1>4 DEF PlanFits, PlanPhase, Out
<1> QED BY <1>2, <1>3, <1>5, <1>6, <1>7, <1>8, <1>9, StayingKeeps

\* Opening or closing the bundle of a plan, and going on.
LEMMA BundleMoves ==
    ASSUME TypeOK, NEW e \in Evaluator, NEW pc \in Pc, NEW bundle \in {"none", "open", "closed"},
           proc' = [proc EXCEPT ![e].pc = pc, ![e].bundle = bundle]
    PROVE  /\ Moves(e, pc, proc[e].at, proc[e].seen, proc[e].refs, bundle)
           /\ proc'[e].lost = proc[e].lost
<1>1. proc[e] \in Process /\ proc \in [Evaluator -> Process]
  BY DEF TypeOK
<1>2. proc' = [proc EXCEPT ![e] = [proc[e] EXCEPT !.pc = pc, !.bundle = bundle]]
  BY <1>1
<1>3. [proc[e] EXCEPT !.pc = pc, !.bundle = bundle] \in Process
  BY <1>1 DEF Process
<1> QED BY <1>1, <1>2, <1>3 DEF Moves, Process

\* Going on in the plan without a write: what is needed of the next place
LEMMA GoesOnKeeps ==
    ASSUME IInv, NEW e \in Evaluator, NEW pc, NEW bundle,
           UNCHANGED <<data, files, edited>>, faults' \in Nat,
           Moves(e, pc, proc[e].at, proc[e].seen, proc[e].refs, bundle),
           proc'[e].lost = proc[e].lost,
           proc[e].pc \in OfPlan, proc[e].pc # "reserve_plan",
           pc \in {"prepared", "reserve", "record_plan", "abort", "fail_plan"},
           pc \in Before => proc[e].pc \in Before,
           pc = "record_plan" => proc[e].pc = "finalize_plan",
           pc \in {"record_plan", "fail_plan"} => bundle # "open",
           pc # "fail_plan" => proc[e].pc \notin {"succeed_plan", "unsaved_plan", "fail_plan"}
    PROVE  IInv'
<1>1. /\ \A f \in Evaluator : f # e => proc'[f] = proc[f]
      /\ proc'[e].pc = pc /\ proc'[e].at = proc[e].at /\ proc'[e].refs = proc[e].refs
      /\ proc'[e].bundle = bundle
  BY DEF Moves
<1>2. /\ WritesItsPlan(e) /\ (Planned(e) => PlanLedger(PlanOf[e])')
      /\ UNCHANGED <<data, runState, saved, result, failure, planState, record, edited>>
  BY <1>1, PlanUntouched
<1>3. /\ Planned(e) /\ proc[e].pc \notin Working \cup {"killed"}
      /\ pc \notin Working \cup {"refer"} /\ pc # "plan_checkpoint"
      /\ proc[e].pc \notin {"idle", "reserve_plan"} \cup Out
  BY HasPlan DEF Working, OfPlan, Out
<1>4. RefsFit(e)'
  BY <1>1, <1>2, <1>3, HasPlan DEF RefsFit
<1>5. BundleFits(e)'
  BY <1>1, <1>3 DEF BundleFits, Planned
<1>6. PlanFits(e)'
  <2>1. PlanPhase(e, proc[e].pc, planState[PlanOf[e]], record[PlanOf[e]])
    BY <1>3, HasPlan
  <2>2. PlanPhase(e, pc, planState[PlanOf[e]], record[PlanOf[e]])
    BY <1>3, <2>1 DEF PlanPhase, Out
  <2> QED BY <1>1, <1>2, <2>2 DEF PlanFits, Out
<1> QED BY <1>1, <1>2, <1>3, <1>4, <1>5, <1>6, StayingKeeps

\* Preparing the turns keeps the invariant: the bundle is open before the first child.
LEMMA PrepareInputsKeeps == ASSUME IInv, NEW e \in Evaluator, PrepareInputs(e) PROVE IInv'
<1>1. /\ TypeOK /\ proc[e].pc = "prepare" /\ UNCHANGED <<data, files, edited>>
      /\ "prepared" \in Pc /\ "fail_plan" \in Pc /\ "prepare" \in OfPlan /\ "prepare" \in Before
      /\ "fail_plan" \notin Before /\ Planned(e)
  BY HasPlan DEF IInv, PrepareInputs, At, Pc, OfPlan, Before
<1>2. CASE /\ proc' = [proc EXCEPT ![e].pc = "prepared", ![e].bundle = "open"]
           /\ UNCHANGED faults
  <2>1. /\ Moves(e, "prepared", proc[e].at, proc[e].seen, proc[e].refs, "open")
        /\ proc'[e].lost = proc[e].lost /\ faults' \in Nat
    BY <1>1, <1>2, BundleMoves, FaultCounts
  <2>2. /\ "prepared" \in {"prepared", "reserve", "record_plan", "abort", "fail_plan"}
        /\ "prepared" \notin {"record_plan", "fail_plan"}
        /\ proc[e].pc \notin {"succeed_plan", "unsaved_plan", "fail_plan"}
        /\ proc[e].pc # "reserve_plan" /\ proc[e].pc \in OfPlan /\ proc[e].pc \in Before
    BY <1>1
  <2> QED BY <1>1, <2>1, <2>2, GoesOnKeeps
<1>3. CASE Fault /\ Goes(e, "fail_plan")
  <2>1. Stays(e, "fail_plan") /\ proc'[e].lost = proc[e].lost /\ faults' \in Nat
    BY <1>1, <1>3, GoesMoves, FaultCounts
  <2>2. proc[e].bundle # "open"
    BY <1>1, HasPlan DEF BundleFits
  <2> QED BY <1>1, <2>1, <2>2, GoesOnKeeps DEF Stays
<1> QED BY <1>2, <1>3 DEF PrepareInputs

\* Recording the preparation keeps the invariant.
LEMMA RecordPreparedKeeps == ASSUME IInv, NEW e \in Evaluator, RecordPrepared(e) PROVE IInv'
<1>1. /\ TypeOK /\ proc[e].pc = "prepared" /\ UNCHANGED <<data, files, edited>>
      /\ "reserve" \in Pc /\ "abort" \in Pc /\ "prepared" \in OfPlan /\ "prepared" \in Before
      /\ "abort" \notin Before
  BY DEF IInv, RecordPrepared, At, Pc, OfPlan, Before
<1>2. /\ faults' \in Nat
      /\ Goes(e, "reserve") \/ Goes(e, "abort")
  BY <1>1, FaultCounts DEF RecordPrepared, Writes
<1>3. \/ Stays(e, "reserve") /\ proc'[e].lost = proc[e].lost
      \/ Stays(e, "abort") /\ proc'[e].lost = proc[e].lost
  BY <1>1, <1>2, GoesMoves
<1> QED BY <1>1, <1>2, <1>3, GoesOnKeeps DEF Stays

\* Closing the bundle keeps the invariant: no outcome is written before.
LEMMA FinalizeKeeps == ASSUME IInv, NEW e \in Evaluator, Finalize(e) PROVE IInv'
<1> DEFINE next == IF At(e, "finalize_plan") THEN "record_plan" ELSE "fail_plan"
<1>1. /\ TypeOK /\ proc[e].pc \in {"finalize_plan", "abort"} /\ UNCHANGED <<data, files, edited>>
      /\ next \in Pc /\ "fail_plan" \in Pc /\ proc[e].pc \in OfPlan
      /\ next \in {"record_plan", "fail_plan"}
      /\ next = "record_plan" => proc[e].pc = "finalize_plan"
      /\ next \notin Before /\ "fail_plan" \notin Before
  BY DEF IInv, Finalize, At, Pc, OfPlan, Before
<1>2. /\ faults' \in Nat
      /\ \/ proc' = [proc EXCEPT ![e].pc = next, ![e].bundle = "closed"]
         \/ proc' = [proc EXCEPT ![e].pc = "fail_plan", ![e].bundle = "closed"]
  BY <1>1, FaultCounts DEF Finalize
<1> HIDE DEF next
<1>3. PICK pc \in {next, "fail_plan"} : proc' = [proc EXCEPT ![e].pc = pc, ![e].bundle = "closed"]
  BY <1>2
<1>4. pc \in Pc /\ "closed" \in {"none", "open", "closed"}
  BY <1>1, <1>3
<1>5. /\ Moves(e, pc, proc[e].at, proc[e].seen, proc[e].refs, "closed")
      /\ proc'[e].lost = proc[e].lost
  BY <1>1, <1>3, <1>4, BundleMoves
<1>6. /\ pc \in {"prepared", "reserve", "record_plan", "abort", "fail_plan"} /\ pc \notin Before
      /\ proc[e].pc \notin {"succeed_plan", "unsaved_plan", "fail_plan"}
      /\ proc[e].pc # "reserve_plan" /\ proc[e].pc \in OfPlan /\ "closed" # "open"
  BY <1>1, <1>3
<1>7. pc = "record_plan" => proc[e].pc = "finalize_plan"
  BY <1>1, <1>3
<1> QED BY <1>1, <1>2, <1>5, <1>6, <1>7, GoesOnKeeps

\* What is left of the state of a plan when its status changes or a child is added.
LEMMA PlanFields ==
    ASSUME NEW s \in PlanFile
    PROVE  /\ \A status \in PlanStatus :
                 /\ [s EXCEPT !.status = status] \in PlanFile
                 /\ [s EXCEPT !.status = status].status = status
                 /\ [s EXCEPT !.status = status].by = s.by
                 /\ [s EXCEPT !.status = status].done = s.done
           /\ \A ref \in ResultFile :
                 /\ [s EXCEPT !.done = Append(@, ref)] \in PlanFile
                 /\ [s EXCEPT !.done = Append(@, ref)].status = s.status
                 /\ [s EXCEPT !.done = Append(@, ref)].by = s.by
<1>1. \A ref \in ResultFile : Append(s.done, ref) \in Seq(ResultFile)
  BY DEF PlanFile
<1>2. \A status \in PlanStatus :
        /\ [s EXCEPT !.status = status] \in PlanFile
        /\ [s EXCEPT !.status = status].status = status
        /\ [s EXCEPT !.status = status].by = s.by
        /\ [s EXCEPT !.status = status].done = s.done
  BY DEF PlanFile
<1>3. \A ref \in ResultFile :
        /\ [s EXCEPT !.done = Append(@, ref)] \in PlanFile
        /\ [s EXCEPT !.done = Append(@, ref)].status = s.status
        /\ [s EXCEPT !.done = Append(@, ref)].by = s.by
  BY <1>1 DEF PlanFile
<1> QED BY <1>2, <1>3

\* The state file of a plan that is created.
LEMMA NewPlanFields ==
    ASSUME NEW e \in Evaluator, NEW status \in PlanStatus
    PROVE  /\ State(status, e, <<>>) \in PlanFile
           /\ State(status, e, <<>>).status = status
           /\ State(status, e, <<>>).by = e
BY DEF State, PlanFile

\* A new state s of a plan agrees with its record, and so did the old one.
Agrees(s, old, rec) ==
    /\ s.status = "FAILED" => rec = None
    /\ s.status \in {"SUCCEEDED", "FINALIZATION_INCOMPLETE"} => rec # None
    /\ rec # None => old # None /\ s.done = old.done

\* Where a write of the state of a plan leads from where
InPlan(from, to) ==
    \/ from = "reserve_plan" /\ to \in {"prepare", "raised"}
    \/ from = "plan_checkpoint" /\ to \in {"finalize_plan", "abort"}
    \/ from = "succeed_plan" /\ to \in {"ended", "unsaved_plan", "fail_plan"}
    \/ from = "unsaved_plan" /\ to = "fail_plan"
    \/ from = "fail_plan" /\ to = "raised"

\* A write of the state of a plan: the file agrees with the record of the plan.
LEMMA PlanWriteIsOwn ==
    ASSUME IInv, NEW e \in Evaluator, Planned(e), NEW s \in PlanFile, s.by = e,
           planState' = planState \/ planState' = [planState EXCEPT ![PlanOf[e]] = s],
           planState[PlanOf[e]] = None \/ Mine(e, planState[PlanOf[e]]),
           UNCHANGED <<data, runState, saved, result, failure, record, edited>>, faults' \in Nat,
           \A f \in Evaluator : proc'[f].refs = proc[f].refs,
           Agrees(s, planState[PlanOf[e]], record[PlanOf[e]])
    PROVE  /\ WritesItsPlan(e) /\ PlanLedger(PlanOf[e])'
           /\ planState'[PlanOf[e]] \in {planState[PlanOf[e]], s}
           /\ planState' = [planState EXCEPT ![PlanOf[e]] = s] => planState'[PlanOf[e]] = s
<1> DEFINE p == PlanOf[e]
<1>1. /\ p \in Plan /\ PlanLedger(p) /\ s # None
      /\ planState \in [Plan -> PlanFile \cup {None}]
      /\ record \in [Plan -> Seq(ResultFile) \cup {None}]
  BY HasPlan, NoneIsNoFile DEF TypeOK
<1>2. /\ planState' \in [Plan -> PlanFile \cup {None}]
      /\ planState'[p] \in {planState[p], s}
      /\ \A q \in Plan : q # p => planState'[q] = planState[q]
      /\ planState' = [planState EXCEPT ![p] = s] => planState'[p] = s
  BY <1>1
<1>3. WritesItsPlan(e)
  BY <1>1, <1>2 DEF WritesItsPlan, Mine
<1>4. PlanLedger(p)'
  <2>1. CASE planState'[p] = planState[p]
    <3>1. planState[p] # None => planState[p].by \in Evaluator
      BY <1>1 DEF PlanFile
    <3> QED BY <1>1, <2>1, <3>1 DEF PlanLedger
  <2>2. CASE planState'[p] = s
    <3>1. record[p] # None => /\ Mine(e, planState[p])
                              /\ record[p] = s.done /\ record[p] = proc[e].refs
                              /\ Len(record[p]) = Len(RunsOf[e])
      BY <1>1 DEF PlanLedger, Mine, Agrees
    <3> QED BY <1>1, <2>2, <3>1 DEF PlanLedger, Agrees
  <2> QED BY <1>2, <2>1, <2>2
<1> QED BY <1>2, <1>3, <1>4

\* A step that writes at most the state of the plan and goes on without a new reference
LEMMA PlanWriteKeeps ==
    ASSUME IInv, NEW e \in Evaluator, Planned(e), NEW s \in PlanFile, s.by = e, NEW pc,
           planState' = planState \/ planState' = [planState EXCEPT ![PlanOf[e]] = s],
           planState[PlanOf[e]] = None \/ Mine(e, planState[PlanOf[e]]),
           UNCHANGED <<data, runState, saved, result, failure, record, edited>>, faults' \in Nat,
           Stays(e, pc), proc[e].lost => proc'[e].lost,
           Agrees(s, planState[PlanOf[e]], record[PlanOf[e]]),
           InPlan(proc[e].pc, pc),
           pc = "finalize_plan" => Len(proc[e].refs) = Len(RunsOf[e]),
           PlanPhase(e, pc, planState'[PlanOf[e]], record[PlanOf[e]]),
           pc \in {"ended", "raised"} =>
              \/ proc'[e].lost
              \/ ~(Mine(e, planState'[PlanOf[e]]) /\ planState'[PlanOf[e]].status = "RUNNING")
    PROVE  IInv'
<1>1. Moves(e, pc, proc[e].at, proc[e].seen, proc[e].refs, proc[e].bundle)
  BY DEF Stays
<1>2. /\ \A f \in Evaluator : f # e => proc'[f] = proc[f]
      /\ proc'[e].pc = pc /\ proc'[e].at = proc[e].at /\ proc'[e].refs = proc[e].refs
      /\ proc'[e].bundle = proc[e].bundle
  BY <1>1 DEF Moves
<1>3. WritesItsPlan(e) /\ PlanLedger(PlanOf[e])'
  BY <1>2, PlanWriteIsOwn
<1>4. /\ proc[e].pc \notin Working \cup {"killed"} /\ pc \notin Working \cup {"refer"}
      /\ pc # "plan_checkpoint" /\ pc # "record_plan"
      /\ pc \in Before => proc[e].pc \in Before
  BY DEF InPlan, Working, Before
<1>5. RefsFit(e)'
  <2>1. UNCHANGED runState
    OBVIOUS
  <2> QED BY <1>2, <1>4, <2>1, HasPlan DEF RefsFit
<1>6. BundleFits(e)'
  BY <1>2, HasPlan DEF BundleFits, Planned, InPlan
<1>7. PlanFits(e)'
  BY <1>2 DEF PlanFits, Mine
<1> QED BY <1>1, <1>3, <1>4, <1>5, <1>6, <1>7, StayingKeeps

\* Reserving a plan keeps the invariant: nobody owned it, or nothing is written.
LEMMA ReservePlanKeeps == ASSUME IInv, NEW e \in Evaluator, ReservePlan(e) PROVE IInv'
<1> DEFINE p == PlanOf[e]
           s == State("RUNNING", e, <<>>)
           torn == State("TORN", e, <<>>)
<1>1. /\ TypeOK /\ proc[e].pc = "reserve_plan" /\ InPlan("reserve_plan", "prepare") /\ InPlan("reserve_plan", "raised")
      /\ "prepare" \in Pc /\ "raised" \in Pc
  BY DEF IInv, ReservePlan, At, InPlan, Pc
<1>2. /\ Planned(e) /\ p \in Plan
      /\ PlanPhase(e, "reserve_plan", planState[p], record[p])
  BY <1>1, HasPlan DEF OfPlan
<1>3. /\ s \in PlanFile /\ s.status = "RUNNING" /\ s.by = e /\ s # None
      /\ torn \in PlanFile /\ torn.status = "TORN" /\ torn.by = e /\ torn # None
      /\ Agrees(s, planState[p], None) /\ Agrees(torn, planState[p], None)
  BY NewPlanFields, NoneIsNoFile DEF PlanStatus, RunStatus, Agrees
<1>4. UNCHANGED <<data, runState, saved, result, failure, record, edited>>
  BY DEF ReservePlan
<1>5. CASE record[p] = None /\ planState[p] = None
  <2>1. WritesLast(e, planState' = [planState EXCEPT ![p] = s],
                   planState' = [planState EXCEPT ![p] = torn] \/ UNCHANGED planState,
                   "prepare", "raised")
    BY <1>5 DEF ReservePlan
  <2> HIDE DEF s, torn
  <2>2. faults' \in Nat
    BY <1>1, <2>1, FaultCounts DEF WritesLast
  <2>3. \/ planState' = [planState EXCEPT ![p] = s] /\ Goes(e, "prepare")
        \/ /\ planState' = [planState EXCEPT ![p] = s] \/ planState' = planState
           /\ proc' = [proc EXCEPT ![e].pc = "raised", ![e].lost = TRUE]
        \/ /\ planState' = [planState EXCEPT ![p] = torn]
           /\ proc' = [proc EXCEPT ![e].pc = "raised", ![e].lost = TRUE]
    BY <2>1 DEF WritesLast
  <2>4. CASE planState' = [planState EXCEPT ![p] = s] /\ Goes(e, "prepare")
    <3>1. Stays(e, "prepare") /\ proc'[e].lost = proc[e].lost
      BY <1>1, <2>4, GoesMoves
    <3>2. planState'[p] = s
      BY <1>1, <1>2, <2>4 DEF TypeOK
    <3>3. PlanPhase(e, "prepare", planState'[p], record[p])
      BY <1>3, <1>5, <3>2 DEF PlanPhase, Out
    <3> QED BY <1>1, <1>2, <1>3, <1>4, <1>5, <2>2, <2>4, <3>1, <3>3, PlanWriteKeeps
  <2>5. ASSUME proc' = [proc EXCEPT ![e].pc = "raised", ![e].lost = TRUE]
        PROVE  /\ Stays(e, "raised") /\ proc'[e].lost
               /\ PlanPhase(e, "raised", planState'[p], record[p])
    BY <1>1, <2>5, LosingMoves DEF PlanPhase, Out
  <2>6. CASE /\ planState' = [planState EXCEPT ![p] = s] \/ planState' = planState
             /\ proc' = [proc EXCEPT ![e].pc = "raised", ![e].lost = TRUE]
    BY <1>1, <1>2, <1>3, <1>4, <1>5, <2>2, <2>5, <2>6, PlanWriteKeeps
  <2>7. CASE /\ planState' = [planState EXCEPT ![p] = torn]
             /\ proc' = [proc EXCEPT ![e].pc = "raised", ![e].lost = TRUE]
    BY <1>1, <1>2, <1>3, <1>4, <1>5, <2>2, <2>5, <2>7, PlanWriteKeeps
  <2> QED BY <2>3, <2>4, <2>6, <2>7
<1>6. CASE ~(record[p] = None /\ planState[p] = None)
  <2>1. Goes(e, "raised") /\ UNCHANGED <<planState, faults>>
    BY <1>6 DEF ReservePlan
  <2>2. Stays(e, "raised") /\ proc'[e].lost = proc[e].lost /\ faults' \in Nat
    BY <1>1, <2>1, GoesMoves, FaultCounts
  <2>3. Moves(e, "raised", proc[e].at, proc[e].seen, proc[e].refs, proc[e].bundle)
    BY <2>2 DEF Stays
  <2>4. /\ \A f \in Evaluator : f # e => proc'[f] = proc[f]
        /\ proc'[e].pc = "raised" /\ proc'[e].at = proc[e].at /\ proc'[e].refs = proc[e].refs
        /\ proc'[e].bundle = proc[e].bundle
    BY <2>3 DEF Moves
  <2>5. UNCHANGED <<data, files, edited>>
    BY <1>4, <2>1 DEF files
  <2>6. WritesItsPlan(e) /\ (Planned(e) => PlanLedger(PlanOf[e])')
    BY <2>2, <2>4, <2>5, PlanUntouched
  <2>7. RefsFit(e)'
    BY <1>1, <1>4, <2>4, HasPlan DEF RefsFit, Before, Working
  <2>8. BundleFits(e)'
    BY <1>1, <2>4, HasPlan DEF BundleFits
  <2>9. PlanFits(e)'
    BY <1>2, <1>4, <2>1, <2>4 DEF PlanFits, PlanPhase, Out
  <2>10. /\ "raised" \notin Working \cup {"refer"} /\ "raised" \notin OfPlan /\ "raised" \notin Before
         /\ proc[e].pc \notin Working \cup {"killed"}
    BY <1>1 DEF Working, OfPlan, Before
  <2> QED BY <2>2, <2>3, <2>6, <2>7, <2>8, <2>9, <2>10, StayingKeeps
<1> QED BY <1>5, <1>6

\* What a plan that is past its preparation knows
LEMMA SucceedPlanKeeps == ASSUME IInv, NEW e \in Evaluator, SucceedPlan(e) PROVE IInv'
<1> DEFINE p == PlanOf[e]
           s == [planState[p] EXCEPT !.status = "SUCCEEDED"]
           put == planState' = [planState EXCEPT ![p].status = "SUCCEEDED"]
<1>1. /\ TypeOK /\ proc[e].pc = "succeed_plan" /\ InPlan("succeed_plan", "ended")
      /\ InPlan("succeed_plan", "unsaved_plan") /\ InPlan("succeed_plan", "fail_plan")
      /\ "ended" \in Pc /\ "unsaved_plan" \in Pc /\ "fail_plan" \in Pc
  BY DEF IInv, SucceedPlan, At, InPlan, Pc
<1>2. /\ Planned(e) /\ p \in Plan /\ planState[p] \in PlanFile \cup {None}
      /\ PlanPhase(e, "succeed_plan", planState[p], record[p])
  BY <1>1, HasPlan DEF OfPlan
<1>3. Mine(e, planState[p]) /\ planState[p].status = "RUNNING" /\ record[p] # None
  BY <1>2 DEF PlanPhase, Mine, Out
<1>4. /\ s \in PlanFile /\ s.status = "SUCCEEDED" /\ s.by = e /\ s # None
      /\ Agrees(s, planState[p], record[p])
  <2>1. "SUCCEEDED" \in PlanStatus
    BY DEF PlanStatus, RunStatus
  <2>2. /\ s \in PlanFile /\ s.status = "SUCCEEDED" /\ s.by = planState[p].by
        /\ s.done = planState[p].done
    BY <1>2, <1>3, <2>1, PlanFields DEF Mine
  <2> QED BY <1>3, <2>2, NoneIsNoFile DEF Mine, Agrees
<1>5. UNCHANGED <<data, runState, saved, result, failure, record, edited>>
  BY DEF SucceedPlan
<1>6. put <=> planState' = [planState EXCEPT ![p] = s]
  BY <1>1, <1>2 DEF TypeOK
<1> HIDE DEF s, put
<1>7. /\ faults' \in Nat
      /\ \/ put /\ Goes(e, "ended")
         \/ /\ put \/ planState' = planState
            /\ Goes(e, "unsaved_plan") \/ Goes(e, "fail_plan")
  BY <1>1, FaultCounts DEF SucceedPlan, put
<1>8. planState'[p] \in {planState[p], s} /\ (put => planState'[p] = s)
  <2>1. planState \in [Plan -> PlanFile \cup {None}]
    BY <1>1 DEF TypeOK
  <2> QED BY <1>2, <1>6, <1>7, <2>1
<1>9. Mine(e, planState'[p])
  BY <1>3, <1>4, <1>8 DEF Mine
<1>10. CASE put /\ Goes(e, "ended")
  <2>1. Stays(e, "ended") /\ proc'[e].lost = proc[e].lost
    BY <1>1, <1>10, GoesMoves
  <2>2. PlanPhase(e, "ended", planState'[p], record[p])
    BY DEF PlanPhase, Out
  <2>3. planState'[p].status # "RUNNING"
    BY <1>4, <1>8, <1>10
  <2> QED BY <1>1, <1>2, <1>3, <1>4, <1>5, <1>6, <1>7, <1>10, <2>1, <2>2, <2>3, PlanWriteKeeps
<1>11. CASE Goes(e, "unsaved_plan")
  <2>1. Stays(e, "unsaved_plan") /\ proc'[e].lost = proc[e].lost
    BY <1>1, <1>11, GoesMoves
  <2>2. PlanPhase(e, "unsaved_plan", planState'[p], record[p])
    BY <1>3, <1>9 DEF PlanPhase, Mine
  <2> QED BY <1>1, <1>2, <1>3, <1>4, <1>5, <1>6, <1>7, <2>1, <2>2, PlanWriteKeeps
<1>12. CASE Goes(e, "fail_plan")
  <2>1. Stays(e, "fail_plan") /\ proc'[e].lost = proc[e].lost
    BY <1>1, <1>12, GoesMoves
  <2>2. PlanPhase(e, "fail_plan", planState'[p], record[p])
    BY <1>3, <1>9 DEF PlanPhase, Mine
  <2> QED BY <1>1, <1>2, <1>3, <1>4, <1>5, <1>6, <1>7, <2>1, <2>2, PlanWriteKeeps
<1> QED BY <1>7, <1>10, <1>11, <1>12

\* Marking an unsaved success keeps the invariant: the record is written.
LEMMA MarkIncompleteKeeps == ASSUME IInv, NEW e \in Evaluator, MarkIncomplete(e) PROVE IInv'
<1> DEFINE p == PlanOf[e]
           s == [planState[p] EXCEPT !.status = "FINALIZATION_INCOMPLETE"]
           put == planState' = [planState EXCEPT ![p].status = "FINALIZATION_INCOMPLETE"]
<1>1. /\ TypeOK /\ proc[e].pc = "unsaved_plan" /\ InPlan("unsaved_plan", "fail_plan")
      /\ "fail_plan" \in Pc
  BY DEF IInv, MarkIncomplete, At, InPlan, Pc
<1>2. /\ Planned(e) /\ p \in Plan /\ planState[p] \in PlanFile \cup {None}
      /\ PlanPhase(e, "unsaved_plan", planState[p], record[p])
  BY <1>1, HasPlan DEF OfPlan
<1>3. Mine(e, planState[p]) /\ record[p] # None
  BY <1>2 DEF PlanPhase, Mine, Out
<1>4. /\ s \in PlanFile /\ s.status = "FINALIZATION_INCOMPLETE" /\ s.by = e /\ s # None
      /\ Agrees(s, planState[p], record[p])
  <2>1. "FINALIZATION_INCOMPLETE" \in PlanStatus
    BY DEF PlanStatus, RunStatus
  <2>2. /\ s \in PlanFile /\ s.status = "FINALIZATION_INCOMPLETE" /\ s.by = planState[p].by
        /\ s.done = planState[p].done
    BY <1>2, <1>3, <2>1, PlanFields DEF Mine
  <2> QED BY <1>3, <2>2, NoneIsNoFile DEF Mine, Agrees
<1>5. UNCHANGED <<data, runState, saved, result, failure, record, edited>>
  BY DEF MarkIncomplete
<1>6. put <=> planState' = [planState EXCEPT ![p] = s]
  BY <1>1, <1>2 DEF TypeOK
<1>7. WritesLast(e, put, UNCHANGED planState, "fail_plan", "fail_plan")
  BY DEF MarkIncomplete
<1> HIDE DEF s, put
<1>8. /\ put \/ UNCHANGED planState
      /\ faults' \in Nat
      /\ \/ Stays(e, "fail_plan") /\ proc'[e].lost = proc[e].lost
         \/ Stays(e, "fail_plan") /\ proc'[e].lost
  BY <1>1, <1>7, GoesMoves, LosingMoves, FaultCounts DEF WritesLast
<1>9. planState'[p] \in {planState[p], s}
  <2>1. planState \in [Plan -> PlanFile \cup {None}]
    BY <1>1 DEF TypeOK
  <2> QED BY <1>2, <1>6, <1>8, <2>1
<1>10. PlanPhase(e, "fail_plan", planState'[p], record[p])
  BY <1>3, <1>4, <1>9 DEF PlanPhase, Mine
<1> QED BY <1>1, <1>2, <1>3, <1>4, <1>5, <1>6, <1>8, <1>10, PlanWriteKeeps

\* Recording the failure of a plan keeps the invariant: it says whether there is a record.
LEMMA FailPlanKeeps == ASSUME IInv, NEW e \in Evaluator, FailPlan(e) PROVE IInv'
<1> DEFINE p == PlanOf[e]
           s == [planState[p] EXCEPT !.status = FailedStatus(record[p] # None)]
           put == planState' = [planState EXCEPT ![p].status = FailedStatus(record[p] # None)]
<1>1. /\ TypeOK /\ proc[e].pc = "fail_plan" /\ InPlan("fail_plan", "raised")
      /\ "raised" \in Pc
  BY DEF IInv, FailPlan, At, InPlan, Pc
<1>2. /\ Planned(e) /\ p \in Plan /\ planState[p] \in PlanFile \cup {None}
      /\ PlanPhase(e, "fail_plan", planState[p], record[p])
      /\ PlanLedger(p)
  BY <1>1, HasPlan DEF OfPlan
<1>3. Mine(e, planState[p])
  BY <1>2 DEF PlanPhase, Mine, Out
<1>4. /\ s \in PlanFile /\ s.by = e /\ s # None /\ s.done = planState[p].done
      /\ s.status = FailedStatus(record[p] # None)
  <2>1. FailedStatus(record[p] # None) \in PlanStatus
    BY DEF PlanStatus, RunStatus, FailedStatus
  <2>2. /\ s \in PlanFile /\ s.status = FailedStatus(record[p] # None) /\ s.by = planState[p].by
        /\ s.done = planState[p].done
    BY <1>2, <1>3, <2>1, PlanFields DEF Mine
  <2> QED BY <1>3, <2>2, NoneIsNoFile DEF Mine
<1>5. Agrees(s, planState[p], record[p]) /\ s.status # "RUNNING"
  BY <1>3, <1>4 DEF FailedStatus, Agrees, Mine
<1>6. UNCHANGED <<data, runState, saved, result, failure, record, edited>>
  BY DEF FailPlan
<1>7. put <=> planState' = [planState EXCEPT ![p] = s]
  BY <1>1, <1>2 DEF TypeOK
<1>8. PlanPhase(e, "raised", planState'[p], record[p])
  BY DEF PlanPhase, Out
<1>9. \/ WritesLast(e, put, UNCHANGED planState, "raised", "raised")
      \/ planState[p].status # "RUNNING" /\ Goes(e, "raised") /\ UNCHANGED <<planState, faults>>
  BY DEF FailPlan
<1> HIDE DEF s, put
<1>10. CASE WritesLast(e, put, UNCHANGED planState, "raised", "raised")
  <2>1. /\ put \/ UNCHANGED planState
        /\ faults' \in Nat
        /\ \/ put /\ Stays(e, "raised") /\ proc'[e].lost = proc[e].lost
           \/ Stays(e, "raised") /\ proc'[e].lost
    BY <1>1, <1>10, GoesMoves, LosingMoves, FaultCounts DEF WritesLast
  <2>2. put => planState'[p] = s
    BY <1>1, <1>2, <1>7 DEF TypeOK
  <2> QED BY <1>1, <1>2, <1>3, <1>4, <1>5, <1>6, <1>7, <1>8, <2>1, <2>2, PlanWriteKeeps
<1>11. CASE planState[p].status # "RUNNING" /\ Goes(e, "raised") /\ UNCHANGED <<planState, faults>>
  <2>1. Stays(e, "raised") /\ proc'[e].lost = proc[e].lost /\ faults' \in Nat
    BY <1>1, <1>11, GoesMoves, FaultCounts
  <2> QED BY <1>1, <1>2, <1>3, <1>4, <1>5, <1>6, <1>8, <1>11, <2>1, PlanWriteKeeps
<1> QED BY <1>9, <1>10, <1>11

\* The results that e refers to: one more, that of the run it is at
LEMMA RefersMoves ==
    ASSUME TypeOK, NEW e \in Evaluator, NEW ref \in ResultFile,
           proc' = [proc EXCEPT ![e].pc = "plan_checkpoint", ![e].refs = Append(@, ref)]
    PROVE  /\ Moves(e, "plan_checkpoint", proc[e].at, proc[e].seen, Append(proc[e].refs, ref),
                    proc[e].bundle)
           /\ proc'[e].lost = proc[e].lost
<1>1. proc[e] \in Process /\ proc \in [Evaluator -> Process]
  BY DEF TypeOK
<1>2. proc' = [proc EXCEPT ![e] = [proc[e] EXCEPT !.pc = "plan_checkpoint",
                                                  !.refs = Append(proc[e].refs, ref)]]
  BY <1>1
<1>3. Append(proc[e].refs, ref) \in Seq(ResultFile)
  BY <1>1 DEF Process
<1>4. [proc[e] EXCEPT !.pc = "plan_checkpoint", !.refs = Append(proc[e].refs, ref)] \in Process
  BY <1>1, <1>3 DEF Process, Pc
<1> QED BY <1>1, <1>2, <1>4 DEF Moves, Process

\* Referring to a result keeps the invariant: it is that of the run that just succeeded.
LEMMA ReferKeeps == ASSUME IInv, NEW e \in Evaluator, Refer(e) PROVE IInv'
<1> DEFINE r == RunId(e)
           p == PlanOf[e]
           refs == proc[e].refs
           now == Append(refs, result[r])
<1>1. /\ TypeOK /\ proc[e].pc = "refer" /\ UNCHANGED <<data, files, edited>>
      /\ "refer" \in OfPlan /\ "abort" \in Pc /\ "abort" \notin Before
  BY DEF IInv, Refer, At, OfPlan, Pc, Before
<1>2. /\ Planned(e) /\ p \in Plan /\ RefsFit(e) /\ refs \in Seq(ResultFile)
      /\ PlanPhase(e, "refer", planState[p], record[p])
      /\ PlanLedger(p)
  BY <1>1, HasPlan DEF OfPlan
<1>3. /\ Mine(e, runState[r]) /\ runState[r].status = "SUCCEEDED" /\ r \notin edited
      /\ result[r] # None /\ result[r] \in ResultFile
      /\ result[r].by = e /\ Len(result[r].observed) = Turns
  <2>1. /\ Mine(e, runState[r]) /\ r \notin edited /\ result[r] \in ResultFile \cup {None}
        /\ Phase(e, "refer", proc[e].seen, runState[r], result[r], failure[r], saved[r])
        /\ Ledger(r, runState[r], result[r], failure[r], saved[r], edited)
    BY <1>1, HasRun
  <2>2. runState[r].status = "SUCCEEDED" /\ runState[r] # None
    BY <2>1 DEF Phase, Mine
  <2>3. result[r] # None
    BY <2>1, <2>2 DEF Ledger
  <2> QED BY <2>1, <2>2, <2>3 DEF Ledger, Mine
<1>4. CASE Fault /\ Goes(e, "abort")
  <2>1. Stays(e, "abort") /\ proc'[e].lost = proc[e].lost /\ faults' \in Nat
    BY <1>1, <1>4, GoesMoves, FaultCounts
  <2> QED BY <1>1, <2>1, GoesOnKeeps DEF Stays
<1>5. CASE /\ proc' = [proc EXCEPT ![e].pc = "plan_checkpoint", ![e].refs = Append(@, result[r])]
           /\ UNCHANGED faults
  <2>1. /\ Moves(e, "plan_checkpoint", proc[e].at, proc[e].seen, now, proc[e].bundle)
        /\ proc'[e].lost = proc[e].lost
    BY <1>1, <1>3, <1>5, RefersMoves
  <2>2. /\ Len(now) = Len(refs) + 1 /\ now[Len(refs) + 1] = result[r]
        /\ \A i \in 1 .. Len(refs) : now[i] = refs[i]
        /\ Len(refs) \in Nat
    BY <1>2, <1>3
  <2> HIDE DEF now
  <2>3. /\ \A f \in Evaluator : f # e => proc'[f] = proc[f]
        /\ proc'[e].pc = "plan_checkpoint" /\ proc'[e].at = proc[e].at /\ proc'[e].refs = now
        /\ proc'[e].bundle = proc[e].bundle
    BY <2>1 DEF Moves
  <2>4. UNCHANGED <<data, runState, saved, result, failure, planState, record, edited>>
    BY <1>1 DEF files
  <2>5. WritesItsPlan(e)
    BY <1>1, <1>5, <2>4 DEF WritesItsPlan, TypeOK
  <2>6. PlanLedger(p)'
    <3>1. record[p] = None /\ Mine(e, planState[p])
      BY <1>2 DEF PlanPhase, Mine, Out
    <3> QED BY <1>2, <2>4, <3>1 DEF PlanLedger
  <2>7. RefsFit(e)'
    <3>1. Len(refs) = proc[e].at - 1 /\ proc[e].at \in Nat
      BY <1>1, <1>2, AtOne DEF RefsFit
    <3>2. \A i \in 1 .. Len(now) :
             /\ now[i].by = e /\ Len(now[i].observed) = Turns
             /\ runState[RunsOf[e][i]] # None /\ runState[RunsOf[e][i]].by = e
             /\ runState[RunsOf[e][i]].status = "SUCCEEDED"
      <4> SUFFICES ASSUME NEW i \in 1 .. Len(now)
                   PROVE  /\ now[i].by = e /\ Len(now[i].observed) = Turns
                          /\ Mine(e, runState[RunsOf[e][i]])
                          /\ runState[RunsOf[e][i]].status = "SUCCEEDED"
        BY DEF Mine
      <4>1. CASE i = Len(refs) + 1
        <5>1. i = proc[e].at
          BY <2>2, <3>1, <4>1
        <5>2. RunsOf[e][i] = r /\ now[i] = result[r]
          BY <2>2, <4>1, <5>1 DEF RunId
        <5> QED BY <1>3, <5>2
      <4>2. CASE i # Len(refs) + 1
        <5>1. i \in 1 .. Len(refs)
          BY <2>2, <4>2
        <5> QED BY <1>2, <2>2, <5>1 DEF RefsFit, Mine
      <4> QED BY <4>1, <4>2
    <3>3. Len(now) = proc[e].at
      BY <2>2, <3>1
    <3> QED BY <2>3, <2>4, <3>2, <3>3 DEF RefsFit, Before, Working
  <2>8. BundleFits(e)'
    BY <1>2, <2>3 DEF BundleFits, Planned
  <2>9. PlanFits(e)'
    <3>1. PlanPhase(e, "plan_checkpoint", planState[p], record[p])
      BY <1>2 DEF PlanPhase, Out
    <3> QED BY <2>3, <2>4, <3>1 DEF PlanFits
  <2>10. /\ "plan_checkpoint" \notin Working \cup {"refer"} /\ "plan_checkpoint" \notin Before
         /\ proc[e].pc \notin Working \cup {"killed"}
    BY <1>1 DEF Working, Before
  <2> QED BY <1>2, <1>3, <2>1, <2>5, <2>6, <2>7, <2>8, <2>9, <2>10, StayingKeeps
<1> QED BY <1>4, <1>5 DEF Refer

\* The next child starts at the next run with nothing seen.
LEMMA NextRunMoves ==
    ASSUME TypeOK, NEW e \in Evaluator,
           proc' = [proc EXCEPT ![e].pc = "reserve", ![e].at = @ + 1, ![e].seen = <<>>]
    PROVE  /\ Moves(e, "reserve", proc[e].at + 1, <<>>, proc[e].refs, proc[e].bundle)
           /\ proc'[e].lost = proc[e].lost
<1>1. proc[e] \in Process /\ proc \in [Evaluator -> Process]
  BY DEF TypeOK
<1>2. proc' = [proc EXCEPT ![e] = [proc[e] EXCEPT !.pc = "reserve", !.at = proc[e].at + 1, !.seen = <<>>]]
  BY <1>1
<1>3. <<>> \in Seq(Observation) /\ proc[e].at + 1 \in Nat
  BY <1>1 DEF Process
<1>4. [proc[e] EXCEPT !.pc = "reserve", !.at = proc[e].at + 1, !.seen = <<>>] \in Process
  BY <1>1, <1>3 DEF Process, Pc
<1> QED BY <1>1, <1>2, <1>4 DEF Moves, Process

\* Adding a child to the plan keeps the invariant, and the next run is not reserved yet.
LEMMA PlanCheckpointKeeps == ASSUME IInv, NEW e \in Evaluator, PlanCheckpoint(e) PROVE IInv'
<1> DEFINE p == PlanOf[e]
           refs == proc[e].refs
           s == [planState[p] EXCEPT !.done = Append(@, refs[proc[e].at])]
           last == proc[e].at = Len(RunsOf[e])
           put == planState' = [planState EXCEPT ![p].done = Append(@, refs[proc[e].at])]
           more == proc' = [proc EXCEPT ![e].pc = "reserve", ![e].at = @ + 1, ![e].seen = <<>>]
<1>1. /\ TypeOK /\ proc[e].pc = "plan_checkpoint"
      /\ InPlan("plan_checkpoint", "finalize_plan") /\ InPlan("plan_checkpoint", "abort")
      /\ "finalize_plan" \in Pc /\ "abort" \in Pc
  BY DEF IInv, PlanCheckpoint, At, InPlan, Pc
<1>2. /\ Planned(e) /\ p \in Plan /\ planState[p] \in PlanFile \cup {None}
      /\ PlanPhase(e, "plan_checkpoint", planState[p], record[p])
      /\ RefsFit(e) /\ refs \in Seq(ResultFile) /\ EvaluatorFits(e)
  BY <1>1, HasPlan DEF OfPlan, IInv
<1>3. /\ Mine(e, planState[p]) /\ planState[p].status = "RUNNING" /\ record[p] = None
      /\ Len(refs) = proc[e].at /\ proc[e].at \in 1 .. Len(RunsOf[e])
      /\ refs[proc[e].at] \in ResultFile
  <2>1. Mine(e, planState[p]) /\ planState[p].status = "RUNNING" /\ record[p] = None
    BY <1>2 DEF PlanPhase, Mine, Out
  <2>2. Len(refs) = proc[e].at /\ proc[e].at \in 1 .. Len(RunsOf[e]) /\ proc[e].at \in Nat
    BY <1>1, <1>2, AtOne DEF RefsFit
  <2>3. proc[e].at \in 1 .. Len(refs)
    BY <2>2, RunsOfOne
  <2> QED BY <1>2, <2>1, <2>2, <2>3
<1>4. /\ s \in PlanFile /\ s.status = "RUNNING" /\ s.by = e /\ s # None
      /\ Agrees(s, planState[p], record[p])
  <2>1. s \in PlanFile /\ s.status = planState[p].status /\ s.by = planState[p].by
    BY <1>2, <1>3, PlanFields DEF Mine
  <2> QED BY <1>3, <2>1, NoneIsNoFile DEF Mine, Agrees
<1>5. UNCHANGED <<data, runState, saved, result, failure, record, edited>>
  BY DEF PlanCheckpoint
<1>6. put <=> planState' = [planState EXCEPT ![p] = s]
  BY <1>1, <1>2 DEF TypeOK
<1>7. \/ put /\ ~last /\ more /\ UNCHANGED faults
      \/ put /\ last /\ Goes(e, "finalize_plan") /\ UNCHANGED faults
      \/ Fault /\ (put \/ UNCHANGED planState) /\ Goes(e, "abort")
      \/ Goes(e, "abort") /\ UNCHANGED <<planState, faults>>
  BY DEF PlanCheckpoint
<1> HIDE DEF s, put, more
<1>8. faults' \in Nat /\ (put \/ planState' = planState)
  BY <1>1, <1>7, FaultCounts
<1>9. planState'[p] \in {planState[p], s}
  <2>1. planState \in [Plan -> PlanFile \cup {None}]
    BY <1>1 DEF TypeOK
  <2> QED BY <1>2, <1>6, <1>8, <2>1
<1>10. ASSUME NEW pc \in {"finalize_plan", "abort", "reserve"}
       PROVE  PlanPhase(e, pc, planState'[p], record[p])
  BY <1>3, <1>4, <1>9 DEF PlanPhase, Out, Mine
<1>11. CASE last /\ Goes(e, "finalize_plan")
  <2>1. Stays(e, "finalize_plan") /\ proc'[e].lost = proc[e].lost
    BY <1>1, <1>11, GoesMoves
  <2> QED BY <1>1, <1>2, <1>3, <1>4, <1>5, <1>6, <1>8, <1>10, <1>11, <2>1, PlanWriteKeeps
<1>12. CASE Goes(e, "abort")
  <2>1. Stays(e, "abort") /\ proc'[e].lost = proc[e].lost
    BY <1>1, <1>12, GoesMoves
  <2> QED BY <1>1, <1>2, <1>3, <1>4, <1>5, <1>6, <1>8, <1>10, <2>1, PlanWriteKeeps
<1>13. CASE ~last /\ more
  <2>1. Moves(e, "reserve", proc[e].at + 1, <<>>, refs, proc[e].bundle)
    BY <1>1, <1>13, NextRunMoves DEF more
  <2>2. /\ \A f \in Evaluator : f # e => proc'[f] = proc[f]
        /\ proc' \in [Evaluator -> Process]
        /\ proc'[e].pc = "reserve" /\ proc'[e].at = proc[e].at + 1 /\ proc'[e].seen = <<>>
        /\ proc'[e].refs = refs /\ proc'[e].bundle = proc[e].bundle
    BY <2>1 DEF Moves
  <2>3. WritesItsPlan(e) /\ PlanLedger(p)'
    <3>1. \A f \in Evaluator : proc'[f].refs = proc[f].refs
      BY <2>2
    <3> QED BY <1>2, <1>3, <1>4, <1>5, <1>6, <1>8, <3>1, PlanWriteIsOwn
  <2>4. proc[e].at \in Nat /\ proc[e].at + 1 \in 1 .. Len(RunsOf[e])
    BY <1>3, <1>13, RunsOfOne
  <2>5. AtRun(e)'
    BY <1>2, <2>2, <2>4 DEF AtRun, OfPlan
  <2>6. PhaseFits(e)'
    <3>1. "reserve" \notin Working \cup {"refer", "plan_checkpoint"}
      BY DEF Working
    <3>2. Phase(e, "reserve", <<>>, runState'[RunId(e)'], result'[RunId(e)'], failure'[RunId(e)'],
                saved'[RunId(e)'])
      BY <3>1, NoPhase
    <3> QED BY <2>2, <3>1, <3>2 DEF PhaseFits
  <2>7. OwnsPast(e)'
    <3> SUFFICES ASSUME NEW r \in Run, Mine(e, runState[r])
                 PROVE  \E i \in 1 .. (proc[e].at + 1) : RunsOf[e][i] = r /\ i < proc[e].at + 1
      BY <1>5, <2>2 DEF OwnsPast, Mine
    <3>1. PICK i \in 1 .. proc[e].at : RunsOf[e][i] = r
      BY <1>2 DEF EvaluatorFits, OwnsPast, Mine
    <3>2. i \in 1 .. (proc[e].at + 1) /\ i < proc[e].at + 1
      BY <2>4
    <3> QED BY <3>1, <3>2
  <2>8. RefsFit(e)'
    BY <1>2, <1>3, <1>5, <2>2, <2>4 DEF RefsFit, Before, Working
  <2>9. RunSettled(e)' /\ BundleFits(e)'
    BY <1>2, <2>2 DEF RunSettled, BundleFits, Before, Planned
  <2>10. PlanFits(e)'
    BY <1>5, <1>10, <2>2 DEF PlanFits
  <2>11. EvaluatorFits(e)'
    BY <2>5, <2>6, <2>7, <2>8, <2>9, <2>10 DEF EvaluatorFits
  <2> QED BY <1>2, <2>2, <2>3, <2>11, PlanStepKeeps
<1> QED BY <1>7, <1>11, <1>12, <1>13

\* Writing the record keeps the invariant: it is what the state of the plan has.
LEMMA RecordPlanKeeps == ASSUME IInv, NEW e \in Evaluator, RecordPlan(e) PROVE IInv'
<1> DEFINE p == PlanOf[e]
           refs == proc[e].refs
           put == record' = [record EXCEPT ![p] = refs]
<1>1. /\ TypeOK /\ proc[e].pc = "record_plan" /\ "record_plan" \in OfPlan
      /\ "succeed_plan" \in Pc /\ "fail_plan" \in Pc /\ "fail_plan" \notin Before
  BY DEF IInv, RecordPlan, At, OfPlan, Pc, Before
<1>2. /\ Planned(e) /\ p \in Plan /\ planState[p] \in PlanFile \cup {None}
      /\ PlanPhase(e, "record_plan", planState[p], record[p])
      /\ RefsFit(e) /\ refs \in Seq(ResultFile) /\ BundleFits(e) /\ PlanLedger(p)
  BY <1>1, HasPlan
<1>3. /\ Mine(e, planState[p]) /\ planState[p].status = "RUNNING" /\ record[p] = None
      /\ Len(refs) = Len(RunsOf[e]) /\ refs # None /\ proc[e].bundle # "open"
  BY <1>1, <1>2, NoneIsNoFile DEF PlanPhase, Mine, Out, RefsFit, BundleFits
<1>4. UNCHANGED <<data, runState, saved, result, failure, planState, edited>>
  BY DEF RecordPlan
<1>5. \/ /\ planState[p].done = refs
         /\ Writes(e, put, UNCHANGED record, "succeed_plan", "fail_plan")
      \/ Goes(e, "fail_plan") /\ UNCHANGED <<record, faults>>
  BY DEF RecordPlan
<1>6. record \in [Plan -> Seq(ResultFile) \cup {None}] /\ planState \in [Plan -> PlanFile \cup {None}]
  BY <1>1 DEF TypeOK
<1>7. ASSUME put
      PROVE  /\ record' \in [Plan -> Seq(ResultFile) \cup {None}]
             /\ record'[p] = refs
             /\ \A q \in Plan : q # p => record'[q] = record[q]
  BY <1>2, <1>6, <1>7
<1> HIDE DEF put
<1>8. /\ faults' \in Nat
      /\ \/ put /\ planState[p].done = refs /\ Stays(e, "succeed_plan")
                /\ proc'[e].lost = proc[e].lost
         \/ put /\ planState[p].done = refs /\ Stays(e, "fail_plan") /\ proc'[e].lost = proc[e].lost
         \/ UNCHANGED record /\ Stays(e, "fail_plan") /\ proc'[e].lost = proc[e].lost
  BY <1>1, <1>5, GoesMoves, FaultCounts DEF Writes
<1>9. ASSUME put, planState[p].done = refs, NEW pc \in {"succeed_plan", "fail_plan"},
             Stays(e, pc), proc'[e].lost = proc[e].lost
      PROVE  IInv'
  <2>1. Moves(e, pc, proc[e].at, proc[e].seen, refs, proc[e].bundle)
    BY <1>9 DEF Stays
  <2>2. /\ \A f \in Evaluator : f # e => proc'[f] = proc[f]
        /\ proc'[e].pc = pc /\ proc'[e].at = proc[e].at /\ proc'[e].refs = refs
        /\ proc'[e].bundle = proc[e].bundle
    BY <2>1 DEF Moves
  <2>3. WritesItsPlan(e)
    BY <1>3, <1>4, <1>6, <1>7, <1>8, <1>9 DEF WritesItsPlan
  <2>4. PlanLedger(p)'
    BY <1>2, <1>3, <1>4, <1>7, <1>9, <2>2 DEF PlanLedger, Mine
  <2>5. /\ pc \notin Working \cup {"refer"} /\ pc \notin Before /\ pc # "plan_checkpoint"
        /\ pc \notin {"finalize_plan", "record_plan"}
        /\ proc[e].pc \notin Working \cup {"killed"}
    BY <1>1 DEF Working, Before
  <2>6. RefsFit(e)'
    BY <1>2, <1>4, <2>2, <2>5 DEF RefsFit
  <2>7. BundleFits(e)'
    BY <1>3, <2>2 DEF BundleFits
  <2>8. PlanFits(e)'
    <3>1. PlanPhase(e, pc, planState[p], refs)
      BY <1>3 DEF PlanPhase, Mine
    <3> QED BY <1>4, <1>7, <1>9, <2>2, <3>1 DEF PlanFits
  <2> QED BY <1>2, <1>9, <2>1, <2>3, <2>4, <2>5, <2>6, <2>7, <2>8, StayingKeeps
<1>10. CASE UNCHANGED record /\ Stays(e, "fail_plan") /\ proc'[e].lost = proc[e].lost
  <2>1. UNCHANGED <<data, files, edited>>
    BY <1>4, <1>10 DEF files
  <2>2. Moves(e, "fail_plan", proc[e].at, proc[e].seen, refs, proc[e].bundle)
    BY <1>10 DEF Stays
  <2>3. /\ "fail_plan" \in {"prepared", "reserve", "record_plan", "abort", "fail_plan"}
        /\ "fail_plan" # "record_plan" /\ proc[e].pc # "reserve_plan" /\ proc[e].pc \in OfPlan
    BY <1>1
  <2> QED BY <1>1, <1>3, <1>8, <1>10, <2>1, <2>2, <2>3, GoesOnKeeps
<1> QED BY <1>8, <1>9, <1>10

-----------------------------------------------------------------------------
(* Edits, the start, and the invariant *)

\* An edit keeps the invariant: whoever is still at the run has its reference already.
LEMMA EditKeeps == ASSUME IInv, NEW r \in Run, Edit(r) PROVE IInv'
<1> DEFINE res == [result[r] EXCEPT !.observed = <<>>]
<1>1. /\ result[r] # None /\ r \notin edited /\ edited' = edited \cup {r}
      /\ result' = [result EXCEPT ![r].observed = <<>>]
      /\ UNCHANGED <<data, runState, saved, failure, planState, record, proc>>
      /\ Fault
  BY DEF Edit
<1>2. TypeOK /\ result \in [Run -> ResultFile \cup {None}] /\ result[r] \in ResultFile
  BY <1>1 DEF IInv, TypeOK
<1>3. res \in ResultFile /\ res.by = result[r].by /\ res.observed = <<>> /\ res # None
  <2>1. result[r] \in [by: Evaluator, observed: Seq(Observation)]
    BY <1>2 DEF ResultFile
  <2>2. <<>> \in Seq(Observation)
    OBVIOUS
  <2>3. /\ res \in [by: Evaluator, observed: Seq(Observation)]
        /\ res.by = result[r].by /\ res.observed = <<>>
    BY <2>1, <2>2
  <2>4. res \in ResultFile
    BY <2>3 DEF ResultFile
  <2> QED BY <2>3, <2>4, NoneIsNoFile
<1>4. [result EXCEPT ![r].observed = <<>>] = [result EXCEPT ![r] = res]
  BY <1>2
<1> HIDE DEF res
<1>5. /\ result' \in [Run -> ResultFile \cup {None}] /\ result'[r] = res
      /\ \A q \in Run : q # r => result'[q] = result[q]
  BY <1>1, <1>2, <1>3, <1>4
<1>6. TypeOK'
  <2>1. faults' \in Nat
    BY <1>1, <1>2, FaultCounts
  <2> QED BY <1>1, <1>2, <1>5, <2>1 DEF TypeOK
<1>7. \A q \in Run : RunFits(q)'
  <2> SUFFICES ASSUME NEW q \in Run PROVE RunFits(q)'
    OBVIOUS
  <2>1. Ledger(q, runState[q], result[q], failure[q], saved[q], edited)
    BY DEF IInv, RunFits
  <2>2. CASE q = r
    <3>1. Ledger(r, runState[r], res, failure[r], saved[r], edited')
      BY <1>1, <1>3, <2>1, <2>2 DEF Ledger
    <3> QED BY <1>1, <1>5, <2>2, <3>1 DEF RunFits
  <2>3. CASE q # r
    <3>1. Ledger(q, runState[q], result[q], failure[q], saved[q], edited')
      BY <1>1, <2>1, <2>3 DEF Ledger
    <3> QED BY <1>1, <1>5, <2>3, <3>1 DEF RunFits
  <2> QED BY <2>2, <2>3
<1>8. \A p \in Plan : PlanLedger(p)'
  BY <1>1 DEF IInv, PlanLedger
<1>9. \A e \in Evaluator : EvaluatorFits(e)'
  <2> SUFFICES ASSUME NEW e \in Evaluator PROVE EvaluatorFits(e)'
    OBVIOUS
  <2>1. EvaluatorFits(e) /\ RunId(e)' = RunId(e) /\ RunId(e) \in Run
    BY <1>1, AtOne DEF IInv, RunId
  <2>2. AtRun(e)' /\ OwnsPast(e)' /\ RefsFit(e)' /\ RunSettled(e)' /\ BundleFits(e)' /\ PlanFits(e)'
    BY <1>1, <2>1 DEF EvaluatorFits, AtRun, OwnsPast, RefsFit, RunSettled, BundleFits, PlanFits
  <2>3. PhaseFits(e)'
    <3>1. CASE RunId(e) # r
      BY <1>1, <1>5, <2>1, <3>1 DEF EvaluatorFits, PhaseFits
    <3>2. CASE RunId(e) = r
      <4>1. Over(e) \/ At(e, "idle") \/ proc[e].at \in DOMAIN proc[e].refs
        BY <3>2 DEF Edit
      <4>2. proc[e].pc \notin Working \cup {"refer"}
        <5>1. CASE Over(e) \/ At(e, "idle")
          BY <5>1 DEF Over, At, Working
        <5>2. CASE proc[e].at \in DOMAIN proc[e].refs
          <6>1. proc[e].at <= Len(proc[e].refs) /\ proc[e].at \in Nat
            BY <1>2, <5>2, AtOne DEF TypeOK, Process
          <6> QED BY <2>1, <6>1 DEF EvaluatorFits, RefsFit
        <5> QED BY <4>1, <5>1, <5>2
      <4>3. Phase(e, proc[e].pc, proc[e].seen, runState[r], res, failure[r], saved[r])
        BY <2>1, <3>2, <4>2 DEF EvaluatorFits, PhaseFits, Phase, Working
      <4> QED BY <1>1, <1>5, <2>1, <3>2, <4>2, <4>3 DEF PhaseFits
    <3> QED BY <3>1, <3>2
  <2> QED BY <2>2, <2>3 DEF EvaluatorFits
<1> QED BY <1>6, <1>7, <1>8, <1>9 DEF IInv

\* The invariant holds before the first evaluator starts.
LEMMA InitIInv == Init => IInv
<1> SUFFICES ASSUME Init PROVE IInv
  OBVIOUS
<1>1. /\ Idle \in Process /\ Idle.pc = "idle" /\ Idle.at = 1 /\ Idle.seen = <<>> /\ Idle.refs = <<>>
      /\ Idle.bundle = "none"
  BY DEF Idle, Process, Pc
<1>2. /\ data \in Data
      /\ runState = [r \in Run |-> None]
      /\ saved = [r \in Run |-> [t \in 1 .. Turns |-> None]]
      /\ result = [r \in Run |-> None]
      /\ failure = [r \in Run |-> None]
      /\ planState = [p \in Plan |-> None]
      /\ record = [p \in Plan |-> None]
      /\ proc = [e \in Evaluator |-> Idle]
      /\ faults = 0
      /\ edited = {}
  BY DEF Init
<1> HIDE DEF Idle
<1>3. TypeOK
  BY <1>1, <1>2 DEF TypeOK
<1>4. \A r \in Run : RunFits(r)
  BY <1>2 DEF RunFits, Ledger
<1>5. \A p \in Plan : PlanLedger(p)
  BY <1>2 DEF PlanLedger
<1>6. \A e \in Evaluator : EvaluatorFits(e)
  <2> SUFFICES ASSUME NEW e \in Evaluator PROVE EvaluatorFits(e)
    OBVIOUS
  <2>1. /\ proc[e].pc = "idle" /\ proc[e].at = 1 /\ proc[e].seen = <<>> /\ proc[e].refs = <<>>
        /\ proc[e].bundle = "none"
    BY <1>1, <1>2
  <2>2. "idle" \notin Working /\ "idle" \in Before /\ "idle" \notin OfPlan
    BY DEF Working, Before, OfPlan
  <2>3. AtRun(e)
    BY <2>1, <2>2, RunsOfOne DEF AtRun
  <2>4. PhaseFits(e)
    BY <2>1, <2>2, NoPhase DEF PhaseFits
  <2>5. OwnsPast(e)
    BY <1>2 DEF OwnsPast
  <2>6. RefsFit(e)
    BY <2>1, <2>2 DEF RefsFit
  <2>7. RunSettled(e) /\ BundleFits(e)
    BY <2>1, <2>2 DEF RunSettled, BundleFits
  <2>8. PlanFits(e)
    <3>1. Planned(e) => planState[PlanOf[e]] = None
      BY <1>2, RunsOfOne
    <3> QED BY <2>1, <3>1 DEF PlanFits, PlanPhase, Out
  <2> QED BY <2>3, <2>4, <2>5, <2>6, <2>7, <2>8 DEF EvaluatorFits
<1> QED BY <1>3, <1>4, <1>5, <1>6 DEF IInv

\* Every step of an evaluator keeps the invariant.
LEMMA WorkKeeps == ASSUME IInv, NEW e \in Evaluator, Work(e) PROVE IInv'
BY StartKeeps, ReserveKeeps, ExecuteKeeps, CheckpointKeeps, CountKeeps, BeginFinalizationKeeps,
   WriteRunKeeps, SucceedKeeps, FailFileKeeps, FailStateKeeps, ReservePlanKeeps,
   PrepareInputsKeeps, RecordPreparedKeeps, ReferKeeps, PlanCheckpointKeeps, FinalizeKeeps,
   RecordPlanKeeps, SucceedPlanKeeps, MarkIncompleteKeeps, FailPlanKeeps DEF Work

\* Every step keeps the invariant.
LEMMA NextIInv == IInv /\ [Next]_vars => IInv'
<1> SUFFICES ASSUME IInv, [Next]_vars PROVE IInv'
  OBVIOUS
<1>1. ASSUME NEW e \in Evaluator, Work(e) PROVE IInv'
  BY <1>1, WorkKeeps
<1>2. ASSUME NEW e \in Evaluator, Kill(e) PROVE IInv'
  BY <1>2, KillKeeps
<1>3. ASSUME NEW r \in Run, Edit(r) PROVE IInv'
  BY <1>3, EditKeeps
<1>4. CASE UNCHANGED vars
  BY <1>4 DEF vars, IInv, TypeOK, RunFits, PlanLedger, EvaluatorFits, AtRun, PhaseFits, OwnsPast,
              RefsFit, RunSettled, BundleFits, PlanFits, RunId
<1> QED BY <1>1, <1>2, <1>3, <1>4 DEF Next

\* The inductive invariant of the registry and its evaluators.
THEOREM Invariance == Spec => []IInv
BY InitIInv, NextIInv, PTL DEF Spec

\* run.py, store.py, plan_store.py: the files and the evaluators keep their types.
THEOREM TypeCorrect == Spec => []TypeOK
<1>1. IInv => TypeOK
  BY DEF IInv
<1> QED BY <1>1, Invariance, PTL

\* store.py create_state: all files of a run were written by the evaluator that
\* created its state, whoever else was started for the run.
THEOREM OneOwner == Spec => []RunsHaveOneOwner
<1>1. IInv => RunsHaveOneOwner
  <2> SUFFICES ASSUME IInv, NEW r \in Run
               PROVE  Cardinality((IF runState[r] = None THEN {} ELSE {runState[r].by})
                                    \cup (IF result[r] = None THEN {} ELSE {result[r].by})
                                    \cup (IF failure[r] = None THEN {} ELSE {failure[r].by})
                                    \cup UNION {IF saved[r][t] = None THEN {} ELSE {saved[r][t].by} :
                                                   t \in 1 .. Turns}) <= 1
    BY DEF RunsHaveOneOwner
  <2> DEFINE owners == (IF runState[r] = None THEN {} ELSE {runState[r].by})
                         \cup (IF result[r] = None THEN {} ELSE {result[r].by})
                         \cup (IF failure[r] = None THEN {} ELSE {failure[r].by})
                         \cup UNION {IF saved[r][t] = None THEN {} ELSE {saved[r][t].by} :
                                        t \in 1 .. Turns}
  <2>1. Ledger(r, runState[r], result[r], failure[r], saved[r], edited)
    BY DEF IInv, RunFits
  <2>2. /\ result[r] # None => result[r].by = runState[r].by
        /\ failure[r] # None => failure[r].by = runState[r].by
        /\ \A t \in 1 .. Turns : saved[r][t] # None => saved[r][t].by = runState[r].by
    BY <2>1 DEF Ledger
  <2>3. owners \in SUBSET {runState[r].by}
    BY <2>2
  <2> HIDE DEF owners
  <2>4. IsFiniteSet({runState[r].by}) /\ Cardinality({runState[r].by}) = 1
    BY FS_Singleton
  <2>5. Cardinality(owners) <= 1
    BY <2>3, <2>4, FS_Subset
  <2> QED BY <2>5 DEF owners
<1> QED BY <1>1, Invariance, PTL

\* run.py: FAILED, SUCCEEDED and FINALIZATION_INCOMPLETE say what is published,
\* whichever write failed and whenever a signal or a kill came.
THEOREM LedgersAreTrue == Spec => []LedgersTellTheTruth
<1>1. IInv => LedgersTellTheTruth
  <2> SUFFICES ASSUME IInv PROVE LedgersTellTheTruth
    OBVIOUS
  <2>1. ASSUME NEW r \in Run, runState[r] # None
        PROVE  /\ runState[r].status = "FAILED" => result[r] = None
               /\ runState[r].status = "SUCCEEDED" =>
                    /\ result[r] # None /\ runState[r].done = Turns
               /\ runState[r].status = "FINALIZATION_INCOMPLETE" => result[r] # None
               /\ runState[r].status \in {"FAILED", "FINALIZATION_INCOMPLETE"} =>
                    failure[r] # None /\ failure[r].status = runState[r].status
               /\ result[r] # None /\ r \notin edited =>
                    \A t \in 1 .. Turns : saved[r][t].observed = result[r].observed[t]
    <3>1. Ledger(r, runState[r], result[r], failure[r], saved[r], edited)
      BY DEF IInv, RunFits
    <3> QED BY <2>1, <3>1 DEF Ledger, FailedStatus
  <2>2. ASSUME NEW p \in Plan, planState[p] # None
        PROVE  /\ planState[p].status = "FAILED" => record[p] = None
               /\ planState[p].status \in {"SUCCEEDED", "FINALIZATION_INCOMPLETE"} =>
                    record[p] # None /\ record[p] = planState[p].done
    BY <2>2 DEF IInv, PlanLedger
  <2> QED BY <2>1, <2>2 DEF LedgersTellTheTruth
<1> QED BY <1>1, Invariance, PTL

\* plan.py compare_cache_path_plan: what it accepts was measured in the plan that it
\* is asked about, completely and by the plan's own children, and was not edited.
THEOREM ComparedIsMeasured == Spec => []ComparedWasMeasured
<1>1. IInv => ComparedWasMeasured
  <2> SUFFICES ASSUME IInv, NEW p \in Plan, planState[p] # None,
                      Compares(p, RunsOf[planState[p].by]),
                      NEW i \in DOMAIN RunsOf[planState[p].by]
               PROVE  LET r == RunsOf[planState[p].by][i]
                      IN /\ r \notin edited
                         /\ runState[r].status = "SUCCEEDED"
                         /\ runState[r].by = planState[p].by
                         /\ Len(result[r].observed) = Turns
    BY DEF ComparedWasMeasured
  <2> DEFINE e == planState[p].by
             r == RunsOf[e][i]
  <2>1. e \in Evaluator /\ PlanLedger(p)
    BY DEF IInv, TypeOK, PlanFile
  <2>2. RefsFit(e) /\ i \in 1 .. Len(RunsOf[e]) /\ r \in Run
    BY <2>1, RunsOfOne DEF IInv, EvaluatorFits
  <2>3. /\ record[p] = proc[e].refs /\ Len(record[p]) = Len(RunsOf[e])
        /\ result[r] = record[p][i]
    BY <2>1 DEF PlanLedger, Compares
  <2>4. /\ Len(result[r].observed) = Turns
        /\ runState[r] # None /\ runState[r].by = e /\ runState[r].status = "SUCCEEDED"
    BY <2>2, <2>3 DEF RefsFit
  <2>5. Ledger(r, runState[r], result[r], failure[r], saved[r], edited)
    BY <2>2 DEF IInv, RunFits
  <2>6. result[r] # None
    BY <2>4, <2>5 DEF Ledger
  <2>7. r \notin edited
    <3>1. r \in edited => Len(result[r].observed) = 0
      BY <2>5, <2>6 DEF Ledger
    <3> QED BY <2>4, <3>1, EvaluationAssumption
  <2> QED BY <2>4, <2>7
<1> QED BY <1>1, Invariance, PTL

\* run.py, plan.py: whichever exception ends an evaluator, it has closed what it
\* opened, unless a write of the error handling itself was lost.
THEOREM NothingOpen == Spec => []NothingIsLeftOpen
<1>1. IInv => NothingIsLeftOpen
  <2> SUFFICES ASSUME IInv, NEW e \in Evaluator, proc[e].pc \in {"ended", "raised"}
               PROVE  /\ proc[e].bundle # "open"
                      /\ ~proc[e].lost =>
                           /\ LET s == runState[RunId(e)]
                              IN s # None /\ s.by = e => s.status \notin {"RUNNING", "FINALIZING"}
                           /\ Planned(e) =>
                                LET s == planState[PlanOf[e]]
                                IN s # None /\ s.by = e => s.status # "RUNNING"
    BY DEF NothingIsLeftOpen
  <2>1. BundleFits(e) /\ RunSettled(e) /\ PlanFits(e)
    BY DEF IInv, EvaluatorFits
  <2>2. proc[e].bundle # "open"
    BY <2>1 DEF BundleFits
  <2>3. proc[e].pc \notin Before \cup Working \cup {"killed"}
    BY DEF Before, Working
  <2> QED BY <2>1, <2>2, <2>3 DEF RunSettled, PlanFits
<1> QED BY <1>1, Invariance, PTL

-----------------------------------------------------------------------------
(* What the turns were measured as *)

\* That a child's measurement o of a turn agrees with a run's own k, when n calls
\* are charged to the preparation.
Alike(o, k, n) ==
    /\ o.outcome = k.outcome /\ o.judged = k.judged
    /\ o.judged => n + o.shared = k.shared

\* Measurements of a turn that was not judged agree by their outcome,
LEMMA NotJudged ==
    ASSUME NEW a, NEW i, NEW j, NEW n
    PROVE  Alike(Measured(a, i, FALSE), Measured(a, j, FALSE), n)
BY DEF Alike, Measured

\* and those of a judged one by the calls that preparing it took.
LEMMA IsJudged ==
    ASSUME NEW a, NEW n \in Nat
    PROVE  Alike(Measured(a, 0, TRUE), Measured(a, n, TRUE), n)
BY DEF Alike, Measured

\* A child takes the turn where a run of its own would, case by case: what it
\* charges to itself and to the preparation is what the run is charged.
LEMMA ChildIsDirect ==
    ASSUME NEW d \in TurnData, d.query \notin {"no_history", "rewrite_failed"},
           NEW v, Child(d, Prepare(d), v) # Raises
    PROVE  LET o == Child(d, Prepare(d), v)
           IN  Alike(o, Direct(d, o.outcome), Prepare(d).shared)
<1> DEFINE o == Child(d, Prepare(d), v)
           k == Direct(d, o.outcome)
           R == RewriteCalls(d)
           V == VectorCalls(d)
<1>1. /\ d.query \in {"first", "rewritten", "no_search"}
      /\ d.search \in {"found", "error", "empty"}
      /\ d.query # "no_search" => Resolved(d)
  BY DEF TurnData, Resolved
<1>2. R \in Nat /\ V \in Nat
  BY DEF RewriteCalls, VectorCalls
<1> SUFFICES Alike(o, k, Prepare(d).shared)
  OBVIOUS
<1> HIDE DEF R, V
<1>3. CASE Served(d)
  <2>1. o = Measured("SERVED", 0, FALSE)
    BY <1>3 DEF Child
  <2>2. \A w : Direct(d, w) = Measured("SERVED", 0, FALSE)
    BY <1>3 DEF Direct
  <2> HIDE DEF o
  <2> QED BY <2>1, <2>2, NotJudged
<1>4. CASE ~Served(d) /\ d.query = "no_search"
  <2>1. ~Resolved(d)
    BY <1>4 DEF Resolved
  <2>2. ~Prepare(d).query /\ Prepare(d).search = "none"
    <3>1. Prepare(d) = Prepared(FALSE, "none", FALSE, R)
      BY <1>4, <2>1 DEF Prepare, R
    <3> QED BY <3>1 DEF Prepared
  <2>3. o = Measured(Reported(d, "SKIPPED"), 0, FALSE)
    BY <1>4, <2>2 DEF Child
  <2>4. \A w : Direct(d, w) = Measured(Reported(d, "SKIPPED"), R, FALSE)
    BY <1>4, <2>1 DEF Direct, R
  <2> HIDE DEF o
  <2> QED BY <2>3, <2>4, NotJudged
<1>5. CASE ~Served(d) /\ d.query # "no_search" /\ d.search = "empty"
  <2>1. Prepare(d).query /\ Prepare(d).search = "none"
    <3>1. Prepare(d) = Prepared(TRUE, "none", FALSE, R)
      BY <1>1, <1>5 DEF Prepare, R
    <3> QED BY <3>1 DEF Prepared
  <2>2. o = Raises
    BY <1>5, <2>1 DEF Child
  <2> QED BY <2>2
<1>6. CASE ~Served(d) /\ d.query # "no_search" /\ d.search = "error"
  <2>1. Prepare(d).query /\ Prepare(d).search = "error"
    <3>1. \/ Prepare(d) = Prepared(TRUE, "error", FALSE, R + 1)
          \/ Prepare(d) = Prepared(TRUE, "error", WithCandidates(d), R + 1 + VectorCalls(d))
      BY <1>1, <1>6 DEF Prepare, R
    <3> QED BY <3>1 DEF Prepared
  <2>2. o = Measured(Reported(d, "FAILED"), 0, FALSE)
    BY <1>6, <2>1 DEF Child
  <2>3. \A w : Direct(d, w) = Measured(Reported(d, "FAILED"), R + 1, FALSE)
    BY <1>1, <1>6 DEF Direct, R
  <2> HIDE DEF o
  <2> QED BY <2>2, <2>3, NotJudged
<1>7. CASE ~Served(d) /\ d.query # "no_search" /\ d.search = "found"
  <2>1. /\ Decided(d) => Prepare(d) = Prepared(TRUE, "found", FALSE, R + 1)
        /\ ~Decided(d) => Prepare(d) = Prepared(TRUE, "found", WithCandidates(d), R + 1 + V)
    BY <1>1, <1>7 DEF Prepare, R, V
  <2>0. Prepare(d).query /\ Prepare(d).search = "found"
    BY <2>1 DEF Prepared
  <2>2. o = IF Decided(d) THEN Measured("REJECTED", 0, FALSE)
            ELSE IF ~d.semantic THEN Measured("SKIPPED", 0, FALSE)
            ELSE IF Prepare(d).payload THEN Measured(v, 0, TRUE)
            ELSE Measured("FAILED", 0, FALSE)
    BY <1>7, <2>0 DEF Child
  <2>3. \A w : Direct(d, w) =
            IF Decided(d) THEN Measured("REJECTED", R + 1, FALSE)
            ELSE IF ~d.semantic THEN Measured("SKIPPED", R + 1, FALSE)
            ELSE IF WithCandidates(d) THEN Measured(w, R + 1 + V, TRUE)
            ELSE Measured("FAILED", R + 1 + V, FALSE)
    BY <1>1, <1>7 DEF Direct, R, V
  <2>4. ~Decided(d) => /\ Prepare(d).payload = WithCandidates(d)
                       /\ Prepare(d).shared = R + 1 + V
    BY <2>1 DEF Prepared
  <2> HIDE DEF o
  <2>5. CASE Decided(d)
    BY <2>2, <2>3, <2>5, NotJudged
  <2>6. CASE ~Decided(d) /\ ~d.semantic
    BY <2>2, <2>3, <2>6, NotJudged
  <2>7. CASE ~Decided(d) /\ d.semantic /\ WithCandidates(d)
    <3>1. o = Measured(v, 0, TRUE) /\ o.outcome = v
      BY <2>2, <2>4, <2>7 DEF Measured
    <3>2. Direct(d, o.outcome) = Measured(v, R + 1 + V, TRUE)
      BY <2>3, <2>7, <3>1
    <3>3. Prepare(d).shared = R + 1 + V /\ R + 1 + V \in Nat
      BY <1>2, <2>4, <2>7
    <3> QED BY <3>1, <3>2, <3>3, IsJudged
  <2>8. CASE ~Decided(d) /\ d.semantic /\ ~WithCandidates(d)
    <3>1. o = Measured("FAILED", 0, FALSE)
      BY <2>2, <2>4, <2>8
    <3>2. Direct(d, o.outcome) = Measured("FAILED", R + 1 + V, FALSE)
      BY <2>3, <2>8
    <3> QED BY <3>1, <3>2, NotJudged
  <2> QED BY <2>5, <2>6, <2>7, <2>8
<1> QED BY <1>1, <1>3, <1>4, <1>5, <1>6, <1>7

\* That o is what e may have measured of a turn that meets d
IsMeasured(d, e, o) == \E v \in Verdict :
    o # Raises /\ o = IF Planned(e) THEN Child(d, Prepare(d), v) ELSE Direct(d, v)

\* What was saved and what an evaluator has seen was measured.
MInv ==
    /\ \A r \in Run : \A t \in 1 .. Turns :
          saved[r][t] # None => IsMeasured(data[t], saved[r][t].by, saved[r][t].observed)
    /\ \A e \in Evaluator : \A t \in 1 .. Len(proc[e].seen) : IsMeasured(data[t], e, proc[e].seen[t])

\* An evaluator remembers what it has seen, until it starts its next run.
Remembers == \A f \in Evaluator : proc'[f].seen = proc[f].seen \/ proc'[f].seen = <<>>

\* Going on keeps what was seen,
LEMMA GoesRemembers ==
    ASSUME TypeOK, NEW e \in Evaluator, NEW pc, Goes(e, pc) PROVE Remembers
BY DEF TypeOK, Process, Goes, Remembers

\* so does losing a write of the error handling.
LEMMA LosingRemembers ==
    ASSUME TypeOK, NEW e \in Evaluator, NEW pc,
           proc' = [proc EXCEPT ![e].pc = pc, ![e].lost = TRUE]
    PROVE  Remembers
BY DEF TypeOK, Process, Remembers

\* A step that saves no turn and forgets at most what was seen keeps the invariant.
LEMMA RememberingKeeps ==
    ASSUME TypeOK, MInv, Remembers, UNCHANGED <<data, saved>> PROVE MInv'
<1>1. ASSUME NEW r \in Run, NEW t \in 1 .. Turns, saved'[r][t] # None
      PROVE  IsMeasured(data'[t], saved'[r][t].by, saved'[r][t].observed)
  <2>1. IsMeasured(data[t], saved[r][t].by, saved[r][t].observed) /\ saved' = saved
    BY <1>1 DEF MInv
  <2> QED BY <2>1
<1>2. ASSUME NEW e \in Evaluator, NEW t \in 1 .. Len(proc'[e].seen)
      PROVE  IsMeasured(data'[t], e, proc'[e].seen[t])
  <2>1. proc'[e].seen = proc[e].seen
    BY <1>2 DEF Remembers
  <2>2. IsMeasured(data[t], e, proc[e].seen[t])
    BY <1>2, <2>1 DEF MInv
  <2> QED BY <2>1, <2>2
<1> QED BY <1>1, <1>2 DEF MInv

\* The steps of a run that measure and save nothing
LEMMA RunStepsRemember ==
    ASSUME IInv, NEW e \in Evaluator,
           \/ Start(e) \/ Reserve(e) \/ Count(e) \/ BeginFinalization(e) \/ WriteRun(e)
           \/ Succeed(e) \/ FailFile(e) \/ FailState(e) \/ Kill(e)
    PROVE  Remembers /\ UNCHANGED <<data, saved>>
<1>1. TypeOK
  BY DEF IInv
<1>2. CASE Start(e) \/ Kill(e)
  BY <1>1, <1>2, GoesRemembers DEF Start, Kill, files
<1>3. CASE Reserve(e)
  BY <1>1, <1>3, GoesRemembers, LosingRemembers DEF Reserve, WritesLast
<1>4. CASE Count(e)
  BY <1>1, <1>4, GoesRemembers DEF Count, Writes
<1>5. CASE BeginFinalization(e)
  BY <1>1, <1>5, GoesRemembers DEF BeginFinalization, Writes
<1>6. CASE WriteRun(e)
  BY <1>1, <1>6, GoesRemembers DEF WriteRun, Writes
<1>7. CASE Succeed(e)
  BY <1>1, <1>7, GoesRemembers DEF Succeed, Writes
<1>8. CASE FailFile(e)
  BY <1>1, <1>8, GoesRemembers, LosingRemembers DEF FailFile, WritesLast
<1>9. CASE FailState(e)
  BY <1>1, <1>9, GoesRemembers, LosingRemembers DEF FailState, WritesLast
<1> QED BY <1>2, <1>3, <1>4, <1>5, <1>6, <1>7, <1>8, <1>9

\* The steps of a plan
LEMMA PlanStepsRemember ==
    ASSUME IInv, NEW e \in Evaluator,
           \/ ReservePlan(e) \/ PrepareInputs(e) \/ RecordPrepared(e) \/ Refer(e)
           \/ PlanCheckpoint(e) \/ Finalize(e) \/ RecordPlan(e) \/ SucceedPlan(e)
           \/ MarkIncomplete(e) \/ FailPlan(e)
    PROVE  Remembers /\ UNCHANGED <<data, saved>>
<1>1. TypeOK /\ proc \in [Evaluator -> Process]
  BY DEF IInv, TypeOK
<1>2. CASE ReservePlan(e)
  BY <1>1, <1>2, GoesRemembers, LosingRemembers DEF ReservePlan, WritesLast
<1>3. CASE PrepareInputs(e)
  <2>1. ASSUME proc' = [proc EXCEPT ![e].pc = "prepared", ![e].bundle = "open"] PROVE Remembers
    BY <1>1, <2>1 DEF Remembers, Process
  <2> QED BY <1>1, <1>3, <2>1, GoesRemembers DEF PrepareInputs, files
<1>4. CASE RecordPrepared(e)
  BY <1>1, <1>4, GoesRemembers DEF RecordPrepared, Writes, files
<1>5. CASE Refer(e)
  <2>1. ASSUME proc' = [proc EXCEPT ![e].pc = "plan_checkpoint",
                                    ![e].refs = Append(@, result[RunId(e)])]
        PROVE  Remembers
    BY <1>1, <2>1 DEF Remembers, Process
  <2> QED BY <1>1, <1>5, <2>1, GoesRemembers DEF Refer, files
<1>6. CASE PlanCheckpoint(e)
  <2>1. ASSUME proc' = [proc EXCEPT ![e].pc = "reserve", ![e].at = @ + 1, ![e].seen = <<>>]
        PROVE  Remembers
    BY <1>1, <2>1 DEF Remembers, Process
  <2> QED BY <1>1, <1>6, <2>1, GoesRemembers DEF PlanCheckpoint
<1>7. CASE Finalize(e)
  <2>1. ASSUME NEW pc, proc' = [proc EXCEPT ![e].pc = pc, ![e].bundle = "closed"] PROVE Remembers
    BY <1>1, <2>1 DEF Remembers, Process
  <2> QED BY <1>7, <2>1 DEF Finalize, files
<1>8. CASE RecordPlan(e)
  BY <1>1, <1>8, GoesRemembers DEF RecordPlan, Writes
<1>9. CASE SucceedPlan(e)
  BY <1>1, <1>9, GoesRemembers DEF SucceedPlan
<1>10. CASE MarkIncomplete(e)
  BY <1>1, <1>10, GoesRemembers, LosingRemembers DEF MarkIncomplete, WritesLast
<1>11. CASE FailPlan(e)
  BY <1>1, <1>11, GoesRemembers, LosingRemembers DEF FailPlan, WritesLast
<1> QED BY <1>2, <1>3, <1>4, <1>5, <1>6, <1>7, <1>8, <1>9, <1>10, <1>11

\* What a turn is measured as was measured.
LEMMA ExecuteMeasures == ASSUME IInv, MInv, NEW e \in Evaluator, Execute(e) PROVE MInv'
<1> DEFINE seen == proc[e].seen
<1>1. /\ TypeOK /\ proc[e].pc = "execute" /\ UNCHANGED <<data, saved>>
      /\ proc \in [Evaluator -> Process] /\ seen \in Seq(Observation)
  BY DEF IInv, TypeOK, Process, Execute, At, files
<1>2. CASE \E pc \in Pc : Goes(e, pc)
  BY <1>1, <1>2, GoesRemembers, RememberingKeeps
<1>3. ASSUME NEW v \in Verdict, Observed(e, Len(seen) + 1, v) # Raises,
             proc' = [proc EXCEPT ![e].pc = "checkpoint",
                                  ![e].seen = Append(@, Observed(e, Len(seen) + 1, v))]
      PROVE  MInv'
  <2> DEFINE o == Observed(e, Len(seen) + 1, v)
             now == Append(seen, o)
  <2>1. /\ proc'[e].seen = now
        /\ \A f \in Evaluator : f # e => proc'[f].seen = proc[f].seen
    BY <1>1, <1>3 DEF Process
  <2>2. IsMeasured(data[Len(seen) + 1], e, o)
    BY <1>3 DEF IsMeasured, Observed
  <2>3. Len(now) = Len(seen) + 1 /\ now[Len(seen) + 1] = o
        /\ \A t \in 1 .. Len(seen) : now[t] = seen[t]
    BY <1>1
  <2> HIDE DEF o, now
  <2>4. ASSUME NEW r \in Run, NEW t \in 1 .. Turns, saved'[r][t] # None
        PROVE  IsMeasured(data'[t], saved'[r][t].by, saved'[r][t].observed)
    <3>1. IsMeasured(data[t], saved[r][t].by, saved[r][t].observed) /\ saved' = saved
      BY <1>1, <2>4 DEF MInv
    <3> QED BY <1>1, <3>1
  <2>5. ASSUME NEW f \in Evaluator, NEW t \in 1 .. Len(proc'[f].seen)
        PROVE  IsMeasured(data'[t], f, proc'[f].seen[t])
    <3>1. IsMeasured(data[t], f, proc'[f].seen[t])
      <4>1. CASE f # e
        BY <2>1, <2>5, <4>1 DEF MInv
      <4>2. CASE f = e /\ t = Len(seen) + 1
        BY <2>1, <2>2, <2>3, <4>2
      <4>3. CASE f = e /\ t # Len(seen) + 1
        <5>1. t \in 1 .. Len(seen)
          BY <1>1, <2>1, <2>3, <2>5, <4>3
        <5> QED BY <2>1, <2>3, <4>3, <5>1 DEF MInv
      <4> QED BY <4>1, <4>2, <4>3
    <3> QED BY <1>1, <3>1
  <2> QED BY <2>4, <2>5 DEF MInv
<1>4. Recorded(e) \in Pc
  BY DEF Recorded, Pc
<1> QED BY <1>2, <1>3, <1>4 DEF Execute

\* What is saved of a turn is what was seen of it.
LEMMA CheckpointSaves == ASSUME IInv, MInv, NEW e \in Evaluator, Checkpoint(e) PROVE MInv'
<1> DEFINE r == RunId(e)
           n == Len(proc[e].seen)
           new == [by |-> e, observed |-> proc[e].seen[n]]
<1>1. TypeOK /\ proc[e].pc = "checkpoint" /\ UNCHANGED data
  BY DEF IInv, Checkpoint, At
<1>2. r \in Run /\ n \in 1 .. Turns /\ n \in 1 .. Len(proc[e].seen)
  <2>1. /\ r \in Run /\ proc[e].seen \in Seq(Observation)
        /\ runState[r].done + 1 = n /\ n <= Turns
    BY <1>1, HasRun DEF Phase
  <2>2. Mine(e, runState[r])
    BY <1>1, HasRun DEF Working
  <2>3. runState[r].done \in Nat
    BY <2>2, HasRun DEF RunFile, Mine
  <2>4. n \in Nat /\ Turns \in Nat
    BY <2>1, EvaluationAssumption
  <2> QED BY <2>1, <2>3, <2>4
<1>3. Remembers
  BY <1>1, GoesRemembers DEF Checkpoint, Writes
<1>4. CASE UNCHANGED saved
  BY <1>1, <1>3, <1>4, RememberingKeeps
<1>5. CASE saved' = [saved EXCEPT ![r][n] = new]
  <2>1. IsMeasured(data[n], e, proc[e].seen[n]) /\ new.by = e /\ new.observed = proc[e].seen[n]
    BY <1>2 DEF MInv
  <2> HIDE DEF new
  <2>2. \A q \in Run : \A t \in 1 .. Turns :
          saved'[q][t] = saved[q][t] \/ (t = n /\ saved'[q][t] = new)
    BY <1>1, <1>2, <1>5 DEF TypeOK
  <2>3. ASSUME NEW q \in Run, NEW t \in 1 .. Turns, saved'[q][t] # None
        PROVE  IsMeasured(data'[t], saved'[q][t].by, saved'[q][t].observed)
    <3>1. IsMeasured(data[t], saved'[q][t].by, saved'[q][t].observed)
      BY <2>1, <2>2, <2>3 DEF MInv
    <3> QED BY <1>1, <3>1
  <2>4. ASSUME NEW f \in Evaluator, NEW t \in 1 .. Len(proc'[f].seen)
        PROVE  IsMeasured(data'[t], f, proc'[f].seen[t])
    <3>1. proc'[f].seen = proc[f].seen
      BY <2>4, <1>3 DEF Remembers
    <3>2. IsMeasured(data[t], f, proc[f].seen[t])
      BY <2>4, <3>1 DEF MInv
    <3> QED BY <1>1, <3>1, <3>2
  <2> QED BY <2>3, <2>4 DEF MInv
<1> QED BY <1>4, <1>5 DEF Checkpoint, Writes

\* Both invariants together are inductive.
LEMMA NextMInv == IInv /\ MInv /\ [Next]_vars => MInv'
<1> SUFFICES ASSUME IInv, MInv, [Next]_vars PROVE MInv'
  OBVIOUS
<1>1. TypeOK
  BY DEF IInv
<1>2. ASSUME NEW e \in Evaluator, Work(e) \/ Kill(e) PROVE MInv'
  <2>1. CASE Execute(e)
    BY <2>1, ExecuteMeasures
  <2>2. CASE Checkpoint(e)
    BY <2>2, CheckpointSaves
  <2>3. CASE ~Execute(e) /\ ~Checkpoint(e)
    <3>1. Remembers /\ UNCHANGED <<data, saved>>
      BY <1>2, <2>3, RunStepsRemember, PlanStepsRemember DEF Work
    <3> QED BY <1>1, <3>1, RememberingKeeps
  <2> QED BY <2>1, <2>2, <2>3
<1>3. ASSUME NEW r \in Run, Edit(r) PROVE MInv'
  BY <1>1, <1>3, RememberingKeeps DEF Edit, Remembers
<1>4. CASE UNCHANGED vars
  BY <1>1, <1>4, RememberingKeeps DEF vars, Remembers
<1> QED BY <1>2, <1>3, <1>4 DEF Next

\* plan.py, cache_path.py: what a child records of a turn is what a run of its own
\* would have recorded, and the preparation is charged what the child is not,
\* whatever the turn meets and however judge and gate decide.
THEOREM ChildrenAlike == Spec => []ChildrenMeasureAlike
<1>1. Init => MInv
  <2>1. Init => /\ \A r \in Run : \A t \in 1 .. Turns : saved[r][t] = None
                /\ \A e \in Evaluator : Len(proc[e].seen) = 0
    BY DEF Init, Idle
  <2> QED BY <2>1 DEF MInv
<1>2. TypeOK /\ MInv => ChildrenMeasureAlike
  <2> SUFFICES ASSUME TypeOK, MInv, NEW r \in Run, NEW t \in 1 .. Turns,
                      saved[r][t] # None, Planned(saved[r][t].by),
                      data[t].query \notin {"no_history", "rewrite_failed"}
               PROVE  LET o == saved[r][t].observed
                      IN  Alike(o, Direct(data[t], o.outcome), Prepare(data[t]).shared)
    BY DEF ChildrenMeasureAlike, Alike
  <2>1. data[t] \in TurnData
    BY EvaluationAssumption DEF TypeOK
  <2>2. IsMeasured(data[t], saved[r][t].by, saved[r][t].observed)
    BY DEF MInv
  <2>3. PICK v \in Verdict : /\ saved[r][t].observed # Raises
                             /\ saved[r][t].observed = Child(data[t], Prepare(data[t]), v)
    BY <2>2 DEF IsMeasured
  <2> QED BY <2>1, <2>3, ChildIsDirect
<1>3. IInv => TypeOK
  BY DEF IInv
<1> QED BY <1>1, <1>2, <1>3, InitIInv, NextIInv, NextMInv, PTL DEF Spec

=============================================================================
