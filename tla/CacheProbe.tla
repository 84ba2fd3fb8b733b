----------------------------- MODULE CacheProbe -----------------------------
(***************************************************************************)
(* What an offline evaluation measures of one turn: the cache path of the  *)
(* service, stopped before generation.                                     *)
(*                                                                         *)
(* A turn is measured in two ways.  A single run takes every step itself   *)
(* (Direct).  A plan compares several judges over one selection: it checks *)
(* the exact cache, rewrites, searches, embeds and collects candidates     *)
(* once (Prepare), and the child run of each judge takes the rest from     *)
(* what was prepared (Child).                                              *)
(*                                                                         *)
(* The data a turn meets is a record of what each stage would answer:      *)
(*   exact       what the exact cache finds: it is off, has no match, a    *)
(*               match of another group, a stale one, one with broken      *)
(*               rows, one the gate refuses, or one it serves              *)
(*   semantic    whether the profile judges questions after the search     *)
(*   query       "first", or how the rewrite of a follow-up goes           *)
(*   search      "found", "error", or "empty" for an index without chunks  *)
(*   vector      the question vector: the search's, embedded, or failed    *)
(*   candidates  whether the candidates can be collected                   *)
(* The verdict of a judge, with that of the gate after it, is the caller's.*)
(***************************************************************************)
EXTENDS Naturals

TurnData == [exact: {"off", "none", "elsewhere", "stale",
                     "invalid", "refused", "served"},
             semantic: BOOLEAN,
             query: {"first", "rewritten", "no_search",
                     "rewrite_failed", "no_history"},
             search: {"found", "error", "empty"},
             vector: {"reused", "embedded", "failed"},
             candidates: BOOLEAN]

Outcomes == {"SERVED", "REJECTED", "SKIPPED", "FAILED"}

\* What is recorded of a turn: its outcome, the calls for rewriting and
\* embedding that it made, and whether it called the judge.
Measured(outcome, shared, judged) ==
  [outcome |-> outcome, shared |-> shared, judged |-> judged]

\* A turn that raises is not measured: its run fails.
Raises == Measured("RAISES", 0, FALSE)

\* The exact cache answers the turn and nothing else is done for it.
Served(d) == d.exact = "served"

\* An exact match of this group that is not stale is decided on, and nothing
\* is judged after it, even when it is refused.
Decided(d) == d.exact \in {"invalid", "refused", "served"}

\* The decision of the exact cache is reported before anything else.
Reported(d, otherwise) == IF Decided(d) THEN "REJECTED" ELSE otherwise

RewriteCalls(d) ==
  IF d.query \in {"rewritten", "no_search", "rewrite_failed"} THEN 1 ELSE 0

\* The search embeds the query; the question is embedded again if it differs.
VectorCalls(d) == IF d.vector = "reused" THEN 0 ELSE 1

Resolved(d) == d.query \in {"first", "rewritten"}

WithCandidates(d) == d.vector # "failed" /\ d.candidates

\* The callbacks of a turn without prepared inputs, run by the use case of the
\* service for the target CACHE_DECISION, and their summary.
Direct(d, verdict) ==
  LET rewritten == RewriteCalls(d)
      searched == rewritten + 1
      embedded == searched + VectorCalls(d)
  IN CASE Served(d) -> Measured("SERVED", 0, FALSE)
       [] ~Served(d) /\ d.query = "no_history" -> Raises
       [] ~Served(d) /\ d.query = "rewrite_failed" ->
            Measured(Reported(d, "FAILED"), rewritten, FALSE)
       [] ~Served(d) /\ d.query = "no_search" ->
            Measured(Reported(d, "SKIPPED"), rewritten, FALSE)
       [] ~Served(d) /\ Resolved(d) /\ d.search = "empty" -> Raises
       [] ~Served(d) /\ Resolved(d) /\ d.search = "error" ->
            Measured(Reported(d, "FAILED"), searched, FALSE)
       [] ~Served(d) /\ Resolved(d) /\ d.search = "found" ->
            IF Decided(d) THEN Measured("REJECTED", searched, FALSE)
            ELSE IF ~d.semantic THEN Measured("SKIPPED", searched, FALSE)
            ELSE IF WithCandidates(d) THEN Measured(verdict, embedded, TRUE)
            ELSE Measured("FAILED", embedded, FALSE)

\* The shared preparation stops where the turn is settled. Its calls are
\* charged to the plan; a payload is the fixed input of the judges.
Prepared(query, search, payload, shared) ==
  [query |-> query, search |-> search, payload |-> payload, shared |-> shared]

\* A slip: an index without chunks is a search that failed.
PrepareEmptyAsFailed(d) ==
  Prepared(Resolved(d), IF d.search = "found" THEN "found" ELSE "error",
           WithCandidates(d), RewriteCalls(d) + 1 + VectorCalls(d))

Prepare(d) ==
  IF Served(d) \/ ~Resolved(d)
  THEN Prepared(FALSE, "none", FALSE,
                IF Served(d) THEN 0 ELSE RewriteCalls(d))
  ELSE IF d.search = "empty"
  THEN Prepared(TRUE, "none", FALSE, RewriteCalls(d))
  ELSE IF Decided(d)
  THEN Prepared(TRUE, d.search, FALSE, RewriteCalls(d) + 1)
  ELSE Prepared(TRUE, d.search, WithCandidates(d),
                RewriteCalls(d) + 1 + VectorCalls(d))

\* The callbacks of a turn that was prepared as p: only the judge is called.
Child(d, p, verdict) ==
  CASE Served(d) -> Measured("SERVED", 0, FALSE)
    [] ~Served(d) /\ ~p.query ->
         Measured(Reported(d, "SKIPPED"), 0, FALSE)
    [] ~Served(d) /\ p.query /\ p.search = "none" -> Raises
    [] ~Served(d) /\ p.search = "error" ->
         Measured(Reported(d, "FAILED"), 0, FALSE)
    [] ~Served(d) /\ p.search = "found" ->
         IF Decided(d) THEN Measured("REJECTED", 0, FALSE)
         ELSE IF ~d.semantic THEN Measured("SKIPPED", 0, FALSE)
         ELSE IF p.payload THEN Measured(verdict, 0, TRUE)
         ELSE Measured("FAILED", 0, FALSE)

\* What the plan asks of a child's evidence before it is recorded: no work of
\* the preparation is repeated, a judged turn has a fixed input, and one that
\* is served without a judge names its exact source.
Accepted(d, p, o) ==
  /\ o.shared = 0
  /\ o.judged => p.payload
  /\ o.outcome = "SERVED" /\ ~o.judged => d.exact \notin {"off", "none"}
=============================================================================
