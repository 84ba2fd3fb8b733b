-------------------------- MODULE MCEvaluationRuns --------------------------
EXTENDS EvaluationRuns

CONSTANTS e1, e2, r1, r2, p1

\* A plan of two judges, and another process that is started for its second run.
PlanOfEvaluator == (e1 :> p1) @@ (e2 :> None)
RunsOfEvaluator == (e1 :> <<r1, r2>>) @@ (e2 :> <<r2>>)

\* Data that differ only in what is not reached are one.
Settled(d) ==
  /\ d.exact = "served" => d.query = "first" /\ ~d.semantic
  /\ d.exact = "served" \/ d.query \notin {"first", "rewritten"} =>
       d.search = "found"
  /\ \/ d.exact = "served" \/ d.query \notin {"first", "rewritten"}
     \/ d.search # "found" \/ d.exact \in {"invalid", "refused"} => ~d.semantic
  /\ ~d.semantic => d.vector = "reused"
  /\ ~d.semantic \/ d.vector = "failed" => d.candidates
  /\ d.exact \in {"elsewhere", "stale", "invalid"} => d.query = "first"
  /\ d.exact = "off" => d.search = "found"

\* One turn meets anything, the other a served exact match.
ServedTurn ==
  [exact |-> "served", semantic |-> FALSE, query |-> "first",
   search |-> "found", vector |-> "reused", candidates |-> TRUE]
TwoTurns == {<<ServedTurn, d>> : d \in {d \in TurnData : Settled(d)}}
=============================================================================
