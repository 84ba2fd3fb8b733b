-------------------------- MODULE QuestionGrouping --------------------------
(***************************************************************************)
(* When a turn is answered from an approved canonical answer instead of    *)
(* being generated. A seed (app/ops/seed_question_grouping.py) defines     *)
(* subproblems and their canonical answers; a turn finds a subproblem      *)
(* either because the same question was once connected to it and an        *)
(* operator approved that (exact path), or because a model connects the    *)
(* question to it (judged path); the cache gate then reads everything      *)
(* again and decides.                                                      *)
(*                                                                         *)
(* The database runs at READ COMMITTED, so the reads of the gate are       *)
(* separate steps, and a seed may commit between two of them. All turns    *)
(* of the module ask the same question. Whether the citations of a         *)
(* canonical answer still resolve is chosen freely at each gate.           *)
(***************************************************************************)
EXTENDS Naturals, FiniteSets, Sequences

CONSTANTS
    Sub,        \* subproblem ids
    Canon,      \* canonical answer ids
    Turn,       \* rag_run ids
    FirstTurn,  \* those that are the first turn of their conversation
    Options,    \* the --serving-state values that seeds are run with, or None
    Profiles,   \* the cache switches of the profile revisions that turns read
    MaxChange,  \* bound on what operators and the document console do
    None,
    Unrecorded  \* in a row: which canonical answer was presented is not known

ASSUME GroupingAssumption ==
    /\ FirstTurn \subseteq Turn
    /\ None \notin Sub \cup Canon \cup Turn
    /\ Unrecorded \notin Canon \cup {None}
    /\ Options \subseteq {"UNUSED", "SHADOW", "SERVING", "STOPPED", None}
    /\ Profiles \subseteq SUBSET {"EXACT", "SEMANTIC"}
    /\ MaxChange \in Nat

VARIABLES
    sub,        \* question_subproblems
    canon,      \* canonical_answers
    seed,       \* the plan of the seed that runs, it holds the advisory lock
    rows,       \* question_classifications with their attempts, oldest first
    turn,       \* rag_runs and their tasks
    changes,
    live        \* history: the canonical answers that could have been served at
                \* some moment of a turn, while it is open or if it was served one

vars == <<sub, canon, seed, rows, turn, changes, live>>

Serving == {"UNUSED", "SHADOW", "SERVING", "STOPPED"}
Outcome == {"SERVED", "SHADOW", "GROUP_DISABLED", "REJECTED", "FAILED"}

SubRow == [status: {"ABSENT", "APPROVED", "ARCHIVED"}, version: Nat,
           serving: Serving, enabled: BOOLEAN]  \* of the document it belongs to
CanonRow == [approval: {"NONE", "APPROVED", "REVOKED"}, sub: Sub \cup {None},
             version: Nat, rules: BOOLEAN]      \* has applicability rules
Plan == [sub: Sub, version: Nat, serving: Serving \cup {None},
         new: Canon \cup {None}, rules: BOOLEAN]

\* outcome is NONE in a row that an operator added, it has no attempt.
\* born: the canonical answers created_at or before effective_from, which is read
\* only of rows whose presented answer is not known.
Row == [turn: Turn, decision: {"CONNECT", "OTHER", "FAILED"}, sub: Sub \cup {None},
        version: Nat, shown: Canon \cup {None, Unrecorded},
        attribution: {"SUBPROBLEM", "INITIAL", "CITATION"},
        outcome: Outcome \cup {"NONE"}, answer: Canon \cup {None},
        approved: BOOLEAN, current: BOOLEAN, born: SUBSET Canon]

\* What a turn wants to connect to, and why it may: a judgment, or a row whose
\* presented canonical answer is known (SEEN) or not (UNSEEN).
Claim == [sub: Sub, version: Nat, shown: Canon \cup {None, Unrecorded},
          basis: {"JUDGED", "SEEN", "UNSEEN"}, born: SUBSET Canon]

Pc == {"NONE", "ASKED", "STATE", "CANONICAL", "GATE", "SERVING", "GENERAL", "DONE"}
TurnRow == [pc: Pc, status: {"NONE", "PROCESSING", "ENDED", "GENERATED", "CACHED"},
            on: SUBSET {"EXACT", "SEMANTIC"},
            claim: Claim \cup {None},
            state: SubRow \cup {None}, read: Canon \cup {None}]
NoTurn == [pc |-> "NONE", status |-> "NONE", on |-> {}, claim |-> None, state |-> None, read |-> None]

Init ==
    /\ sub = [s \in Sub |-> [status |-> "ABSENT", version |-> 0,
                             serving |-> "UNUSED", enabled |-> TRUE]]
    /\ canon = [c \in Canon |-> [approval |-> "NONE", sub |-> None,
                                 version |-> 0, rules |-> FALSE]]
    /\ seed = None
    /\ rows = <<>>
    /\ turn = [t \in Turn |-> NoTurn]
    /\ changes = 0
    /\ live = [t \in Turn |-> {}]

-----------------------------------------------------------------------------
(* Reads *)

ApprovedOf(s) == {c \in Canon : canon[c].approval = "APPROVED" /\ canon[c].sub = s}

\* _load_approved_canonical
CanonicalOf(s) ==
    IF ApprovedOf(s) = {} THEN None ELSE CHOOSE c \in ApprovedOf(s) : TRUE

\* load_subproblem_catalog, one SELECT
Catalog == {s \in Sub : sub[s].status = "APPROVED" /\ sub[s].enabled}

\* Rows whose created_at or effective_from is taken now come after these.
Born == {c \in Canon : canon[c].approval # "NONE" \/ (seed # None /\ seed.new = c)}

\* find_exact_question_log_match: the approved current CONNECT rows of the other
\* first turns.
Sources(t) ==
    {i \in DOMAIN rows :
        /\ rows[i].current /\ rows[i].approved /\ rows[i].decision = "CONNECT"
        /\ rows[i].turn \in FirstTurn \ {t}}

Newest(S) == CHOOSE i \in S : \A j \in S : j <= i

OwnRows(t) == {i \in DOMAIN rows : rows[i].turn = t /\ rows[i].outcome # "NONE"}

-----------------------------------------------------------------------------
(* The seed *)

\* A slip: the version is not part of the hash, the old answer stays.
KeepsAnswer(bumped, rewritten) == rewritten

\* plan_subproblem, canonical_action: the hash of a canonical answer contains
\* the version, so a new definition replaces the answer with it.
NeedsAnswer(bumped, rewritten) == bumped \/ rewritten

\* resolve_source: the document that s belongs to is in the group, switched on
\* and indexed. Its sections, its index and the file are right or there is no plan.
Resolves(s) == sub[s].enabled

\* existing_subproblems: a seed creates s or changes what is in force, it never
\* brings back what was archived.
Plannable(s) == Resolves(s) /\ sub[s].status \in {"ABSENT", "APPROVED"}

\* build_seed_plan under the advisory lock, and the moment at which the rows
\* get their created_at. Errors in the input leave no plan.
SeedPlans(s) ==
    /\ seed = None
    /\ Plannable(s)
    /\ \E bumped, rewritten, rules \in BOOLEAN,
          option \in Options, c \in Canon \cup {None} :
          LET new == sub[s].status = "ABSENT"
              serving == IF option = sub[s].serving THEN None ELSE option
          IN /\ IF new \/ NeedsAnswer(bumped, rewritten)
                  THEN c \in Canon /\ canon[c].approval = "NONE"
                  ELSE c = None /\ ~rules
             /\ new => bumped /\ ~rewritten     \* version 0 becomes 1
             /\ bumped \/ c # None \/ serving # None     \* something to write
             /\ seed' = [sub |-> s, new |-> c, rules |-> rules,
                         version |-> sub[s].version + IF bumped THEN 1 ELSE 0,
                         serving |-> serving]
    /\ changes < MaxChange
    /\ changes' = changes + 1
    /\ UNCHANGED <<sub, canon, rows, turn>>

\* apply_seed_plan: one transaction
SeedCommits ==
    /\ seed # None
    /\ LET s == seed.sub
       IN /\ sub' = [sub EXCEPT ![s].version = seed.version,
                                ![s].serving = IF seed.serving = None THEN @
                                                                      ELSE seed.serving,
                                ![s].status = IF @ = "ABSENT" THEN "APPROVED" ELSE @]
          /\ canon' = [c \in Canon |->
                 IF c = seed.new
                   THEN [approval |-> "APPROVED", sub |-> s,
                         version |-> seed.version, rules |-> seed.rules]
                 ELSE IF seed.new # None /\ c \in ApprovedOf(s)
                   THEN [canon[c] EXCEPT !.approval = "REVOKED"]
                 ELSE canon[c]]
    /\ seed' = None
    /\ UNCHANGED <<rows, turn, changes>>

\* The embedding call, a write or the process fails.
SeedFails ==
    /\ seed # None
    /\ seed' = None
    /\ UNCHANGED <<sub, canon, rows, turn, changes>>

-----------------------------------------------------------------------------
(* What others do to these tables *)

Change == changes < MaxChange /\ changes' = changes + 1

\* A recollection or the console switches the document of s on or off.
DocumentSwitches(s) ==
    /\ Change
    /\ sub' = [sub EXCEPT ![s].enabled = ~@]
    /\ UNCHANGED <<canon, seed, rows, turn>>

\* An operator archives a definition, or stops it in an emergency.
Withdraw(s) ==
    /\ Change
    /\ sub[s].status = "APPROVED"
    /\ \/ sub' = [sub EXCEPT ![s].status = "ARCHIVED"]
       \/ sub' = [sub EXCEPT ![s].serving = "STOPPED"]
    /\ UNCHANGED <<canon, seed, rows, turn>>

\* An operator approves the question of a connected row for the exact path, which
\* looks at first turns only.
Approve(i) ==
    /\ Change
    /\ rows[i].turn \in FirstTurn
    /\ rows[i].current /\ rows[i].decision = "CONNECT" /\ ~rows[i].approved
    /\ rows' = [rows EXCEPT ![i].approved = TRUE]
    /\ UNCHANGED <<sub, canon, seed, turn>>

\* An operator connects a logged question: a new current row, nothing presented.
Connect(t, s) ==
    /\ Change
    /\ turn[t].pc = "DONE"
    /\ sub[s].status = "APPROVED"
    /\ rows' = Append([i \in DOMAIN rows |->
                          IF rows[i].turn = t THEN [rows[i] EXCEPT !.current = FALSE]
                                              ELSE rows[i]],
                      [turn |-> t, decision |-> "CONNECT", sub |-> s,
                       version |-> sub[s].version, shown |-> Unrecorded,
                       attribution |-> "SUBPROBLEM", outcome |-> "NONE",
                       answer |-> None, approved |-> TRUE, current |-> TRUE,
                       born |-> Born])
    /\ UNCHANGED <<sub, canon, seed, turn>>

-----------------------------------------------------------------------------
(* The gate *)

\* resolve_citations is the choice of cited. Slips: the canonical answer that
\* was presented is not compared; the versions are not; only SHADOW is looked at.
GateAnyAnswer(claim, state, c, cited) ==
    /\ state.status = "APPROVED" /\ c # None
    /\ canon[c].version = state.version /\ claim.version = state.version
    /\ state.enabled
    /\ cited
GateAnyVersion(claim, state, c, cited) ==
    /\ state.status = "APPROVED" /\ c # None
    /\ claim.shown = c
    /\ state.enabled
    /\ cited
OpenUnlessShadow(state, on) == IF state.serving = "SHADOW" THEN "SHADOW" ELSE "SERVED"

\* evaluate_cache_gate, steps 2 and 3. In the exact path claim.shown is the
\* answer that was just read.
Passes(claim, state, c, cited) ==
    /\ state.status = "APPROVED" /\ c # None
    /\ canon[c].version = state.version /\ claim.version = state.version
    /\ claim.shown = c
    /\ state.enabled
    /\ cited

\* evaluate_cache_gate, steps 4 to 7. The switches were already looked at when the
\* path was chosen, so GROUP_DISABLED does not occur in a turn.
Opened(state, on) ==
    CASE state.serving = "SHADOW" -> "SHADOW"
      [] state.serving \in {"UNUSED", "STOPPED"} -> "REJECTED"
      [] state.serving = "SERVING" /\ ~on -> "GROUP_DISABLED"
      [] state.serving = "SERVING" /\ on -> "SERVED"

\* exact_source_fallthrough_reasons: the claim of an old row is not taken over.
Stale(claim, state, c) ==
    \/ claim.version # state.version
    \/ claim.basis = "SEEN" /\ claim.shown # c
    \/ claim.basis = "UNSEEN" /\ c # None /\ canon[c].rules /\ c \notin claim.born

-----------------------------------------------------------------------------
(* Turns *)

At(t, pc) == turn[t].pc = pc
Goto(t, pc) == turn' = [turn EXCEPT ![t].pc = pc]

\* The turn goes on without an answer from the cache.
GoOn(t) == turn' = [turn EXCEPT ![t].pc = "GENERAL", ![t].claim = None,
                                ![t].state = None, ![t].read = None]

\* The turn is over; what was not committed is gone.
Finished(status) == [NoTurn EXCEPT !.pc = "DONE", !.status = status]

Begin(t) ==
    /\ At(t, "NONE")
    /\ \E on \in Profiles :
          turn' = [turn EXCEPT ![t] = [NoTurn EXCEPT
              !.pc = "ASKED", !.status = "PROCESSING", !.on = on]]
    /\ UNCHANGED <<sub, canon, seed, rows, changes>>

\* record_exact_question: the newest source, or nothing.
LookUp(t) ==
    /\ At(t, "ASKED")
    /\ IF "EXACT" \in turn[t].on /\ Sources(t) # {}
         THEN LET row == rows[Newest(Sources(t))]
              IN turn' = [turn EXCEPT ![t].pc = "STATE",
                     ![t].claim = [sub |-> row.sub, version |-> row.version,
                         shown |-> row.shown, born |-> row.born,
                         basis |-> IF row.shown = Unrecorded THEN "UNSEEN"
                                                             ELSE "SEEN"]]
         ELSE Goto(t, "GENERAL")
    /\ UNCHANGED <<sub, canon, seed, rows, changes>>

\* load_gate_inputs: the subproblem first, then its canonical answer
ReadState(t) ==
    /\ At(t, "STATE")
    /\ turn' = [turn EXCEPT ![t].pc = "CANONICAL",
                            ![t].state = sub[turn[t].claim.sub]]
    /\ UNCHANGED <<sub, canon, seed, rows, changes>>

ReadCanonical(t) ==
    /\ At(t, "CANONICAL")
    /\ turn' = [turn EXCEPT ![t].pc = "GATE",
                            ![t].read = CanonicalOf(turn[t].claim.sub)]
    /\ UNCHANGED <<sub, canon, seed, rows, changes>>

\* Nothing is written, the judged path stays open.
FallThrough(t) ==
    /\ At(t, "GATE")
    /\ turn[t].claim.basis # "JUDGED"
    /\ Stale(turn[t].claim, turn[t].state, turn[t].read)
    /\ GoOn(t)
    /\ UNCHANGED <<sub, canon, seed, rows, changes>>

\* _insert_rows: the row of a turn and its attempt
Insert(t, decision, outcome) ==
    LET claim == turn[t].claim
        connected == decision = "CONNECT"
    IN rows' = Append(rows,
           [turn |-> t, decision |-> decision,
            sub |-> IF connected THEN claim.sub ELSE None,
            version |-> IF connected THEN claim.version ELSE 0,
            shown |-> IF connected /\ claim.basis = "JUDGED" THEN claim.shown
                                                             ELSE Unrecorded,
            attribution |-> IF connected THEN "SUBPROBLEM" ELSE "INITIAL",
            outcome |-> outcome,
            answer |-> IF outcome \in {"SERVED", "SHADOW", "GROUP_DISABLED"}
                         THEN turn[t].read ELSE None,
            approved |-> FALSE, current |-> TRUE,
            born |-> IF connected /\ claim.basis # "JUDGED" THEN Born ELSE {}])

Claimed(t) == [turn[t].claim EXCEPT !.shown =
                  IF turn[t].claim.basis = "JUDGED" THEN @ ELSE turn[t].read]

GateOutcome(t, cited) ==
    IF Passes(Claimed(t), turn[t].state, turn[t].read, cited)
      THEN Opened(turn[t].state,
                  (IF turn[t].claim.basis = "JUDGED" THEN "SEMANTIC" ELSE "EXACT")
                      \in turn[t].on)
      ELSE "REJECTED"

\* A refusal is committed before the turn goes on. SERVED is committed with the
\* answer.
Decide(t) ==
    /\ At(t, "GATE")
    /\ turn[t].claim.basis # "JUDGED" =>
           ~Stale(turn[t].claim, turn[t].state, turn[t].read)
    /\ \E cited \in BOOLEAN :
          IF GateOutcome(t, cited) = "SERVED"
            THEN Goto(t, "SERVING") /\ UNCHANGED rows
            ELSE GoOn(t) /\ Insert(t, "CONNECT", GateOutcome(t, cited))
    /\ UNCHANGED <<sub, canon, seed, changes>>

\* complete_rag_run and the rows, one commit
Serve(t) ==
    /\ At(t, "SERVING")
    /\ Insert(t, "CONNECT", "SERVED")
    /\ turn' = [turn EXCEPT ![t] = [Finished("CACHED") EXCEPT !.claim = turn[t].claim]]
    /\ UNCHANGED <<sub, canon, seed, changes>>

\* That commit fails: record_serve_failure writes the row as refused.
ServeFails(t) ==
    /\ At(t, "SERVING")
    /\ Insert(t, "CONNECT", "REJECTED")
    /\ GoOn(t)
    /\ UNCHANGED <<sub, canon, seed, changes>>

\* should_choose_source: a turn that has its row is not judged again.
CanJudge(t) == "SEMANTIC" \in turn[t].on /\ OwnRows(t) = {}

\* prepare reads the catalog and presents the subproblems with their canonical
\* answers; the judgment connects the question to one of them.
JudgeConnects(t) ==
    /\ At(t, "GENERAL")
    /\ CanJudge(t)
    /\ \E s \in Catalog :
          turn' = [turn EXCEPT ![t].pc = "STATE",
              ![t].claim = [sub |-> s, version |-> sub[s].version, born |-> {},
                            shown |-> CanonicalOf(s), basis |-> "JUDGED"]]
    /\ UNCHANGED <<sub, canon, seed, rows, changes>>

\* SEPARATE, a failed judgment, or a preparation that failed
JudgeDeclines(t) ==
    /\ At(t, "GENERAL")
    /\ CanJudge(t)
    /\ \/ Insert(t, "OTHER", "REJECTED")
       \/ Insert(t, "FAILED", "FAILED")
    /\ UNCHANGED <<sub, canon, seed, turn, changes>>

\* finalize_citation_attribution
Cited(t) == {i \in OwnRows(t) : rows[i].current /\ rows[i].decision # "CONNECT"}

\* A generated answer is completed together with the attribution.
Generate(t) ==
    /\ At(t, "GENERAL")
    /\ ~CanJudge(t)
    /\ rows' = [i \in DOMAIN rows |->
                   IF i \in Cited(t) THEN [rows[i] EXCEPT !.attribution = "CITATION"]
                                     ELSE rows[i]]
    /\ turn' = [turn EXCEPT ![t] = Finished("GENERATED")]
    /\ UNCHANGED <<sub, canon, seed, changes>>

\* Withheld, failed, cancelled, lost, or closed by a later question.
Ends(t) ==
    /\ turn[t].pc \notin {"NONE", "DONE"}
    /\ turn' = [turn EXCEPT ![t] = Finished("ENDED")]
    /\ UNCHANGED <<sub, canon, seed, rows, changes>>

-----------------------------------------------------------------------------

TurnStep(t) ==
    \/ Begin(t)
    \/ LookUp(t)
    \/ ReadState(t)
    \/ ReadCanonical(t)
    \/ FallThrough(t)
    \/ Decide(t)
    \/ Serve(t)
    \/ ServeFails(t)
    \/ JudgeConnects(t)
    \/ JudgeDeclines(t)
    \/ Generate(t)
    \/ Ends(t)

Servable ==
    {c \in Canon :
        /\ canon[c].approval = "APPROVED"
        /\ LET s == sub[canon[c].sub]
           IN /\ s.status = "APPROVED" /\ s.serving = "SERVING" /\ s.enabled
              /\ s.version = canon[c].version}

Open(t) == turn[t].pc \notin {"NONE", "DONE"}
History == live' = [t \in Turn |->
    IF Open(t)' THEN live[t] \cup Servable'
    ELSE IF turn'[t].status = "CACHED" THEN live[t] ELSE {}]

Next ==
    /\ \/ SeedCommits
       \/ SeedFails
       \/ \E s \in Sub : SeedPlans(s) \/ DocumentSwitches(s) \/ Withdraw(s)
       \/ \E i \in DOMAIN rows : Approve(i)
       \/ \E t \in Turn, s \in Sub : Connect(t, s)
       \/ \E t \in Turn : TurnStep(t)
    /\ History

Spec == Init /\ [][Next]_vars

-----------------------------------------------------------------------------
(* Properties *)

TypeOK ==
    /\ sub \in [Sub -> SubRow]
    /\ canon \in [Canon -> CanonRow]
    /\ seed \in Plan \cup {None}
    /\ \A i \in DOMAIN rows : rows[i] \in Row
    /\ turn \in [Turn -> TurnRow]
    /\ changes \in 0 .. MaxChange
    /\ live \in [Turn -> SUBSET Canon]

ServedRows == {i \in DOMAIN rows : rows[i].outcome = "SERVED"}

\* A subproblem has one approved canonical answer, written for the definition
\* that is in force (uq_canonical_answers_subproblem_id_approved, plan_subproblem):
\* no seed, interleaved with anything, leaves an old answer under a new definition.
AnswerFitsDefinition ==
    \A s \in Sub : sub[s].status # "ABSENT" =>
        \E c \in Canon : ApprovedOf(s) = {c} /\ canon[c].version = sub[s].version

\* The log agrees with what users got: a turn was answered from the cache exactly
\* if its one attempt says SERVED, and the answer belongs to the subproblem and
\* the version that its row connects the question to; also after a serving
\* that failed and was written again, and between two commits of a seed.
AttemptMatchesAnswer ==
    \A t \in Turn :
        /\ turn[t].status = "CACHED" <=> \E i \in ServedRows : rows[i].turn = t
        /\ Cardinality(OwnRows(t)) <= 1
        /\ \A i \in OwnRows(t) : rows[i].outcome = "SERVED" =>
              /\ canon[rows[i].answer].sub = rows[i].sub
              /\ canon[rows[i].answer].version = rows[i].version

\* What was served could be served as a whole at some moment of the turn, although
\* the gate reads its parts one after the other, if the question had been judged
\* against that very answer.
JudgedAnswersWereLive ==
    \A i \in ServedRows :
        turn[rows[i].turn].claim.basis # "UNSEEN" => rows[i].answer \in live[rows[i].turn]

\* No turn is answered for a subproblem that was stopped, archived or switched off
\* before the turn began and stayed so, whatever path it takes.
StoppedIsNotServed ==
    \A i \in ServedRows : \E c \in live[rows[i].turn] : canon[c].sub = rows[i].sub

\* "In SHADOW only the attempt is recorded": every answer that is served could be
\* served at some moment of the turn.
ServedAnswersWereLive ==
    \A i \in ServedRows : rows[i].answer \in live[rows[i].turn]

=============================================================================
