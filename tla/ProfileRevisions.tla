-------------------------- MODULE ProfileRevisions --------------------------
(***************************************************************************)
(* The revisions of a chat service's profile: the console creates, tests,  *)
(* publishes, restores and deletes them under the lock of the profile row, *)
(* an operator writes to the same tables by hand and meets only the        *)
(* triggers, indexes and foreign keys of the database, a migration moves   *)
(* revisions between two services and back, deployments change what the    *)
(* running code can serve, and every turn picks the published revision of  *)
(* its service and records which one it used.                              *)
(*                                                                         *)
(* A transition reads and validates under the lock of the profile and      *)
(* writes afterwards; hand-written statements do not take that lock, so    *)
(* the two parts are two steps. Creating and deleting are one step each:   *)
(* what they read is repeated by the triggers at their only write.         *)
(***************************************************************************)
EXTENDS Naturals, FiniteSets, FiniteSetsExt

CONSTANTS
    Rev,        \* chat_profile_revisions ids
    Setting,    \* what a component row may ask of the code: a prompt with its fingerprint and model
    Current,    \* the setting of the code when the component rows were introduced
    Conv,       \* conversation ids
    Turn,       \* rag_run ids
    MaxHand,    \* bound on hand-written statements
    MaxDeploy,  \* bound on deployments
    MaxVersion, \* bound on version numbers
    MaxMigrate, \* bound on runs of the migration, up or down
    None

ASSUME ProfileAssumption ==
    /\ IsFiniteSet(Rev)
    /\ Current \in Setting
    /\ None \notin Setting \cup Conv \cup Rev
    /\ {MaxHand, MaxDeploy, MaxVersion, MaxMigrate} \subseteq Nat

VARIABLES
    profile,    \* services that have a chat_profiles row; one while the schema is joint
    split,      \* migration 20 is applied
    rev,        \* chat_profile_revisions
    rows,       \* profile_revision_components of a revision
    hold,       \* the transition that holds the lock of a profile
    registry,   \* the settings that the running code can serve
    conv,       \* conversations: service and starting revision
    turn,       \* turns: revision and rows in use
    tested,     \* revisions that were in TESTING, or in use before the migrations
    hands, deploys, migrations

vars == <<profile, split, rev, rows, hold, registry, conv, turn, tested,
          hands, deploys, migrations>>

\* REGISTERED_SERVICES; each service has one document group of the same name.
Service == {"HELP_CHATBOT", "HELP_CHATBOT_TEST"}
Public == "HELP_CHATBOT"
Test == "HELP_CHATBOT_TEST"
Status == {"DRAFT", "TESTING", "PUBLISHED", "RETIRED"}

\* "answer" stands for the four stages below generation, whose rows are written,
\* checked and missing together.
Stage == {"rewrite", "judge", "generation", "answer"}

\* A row without fingerprint, which no code can serve
Unknown == "UNKNOWN"
Rows == [Stage -> Setting \cup {Unknown, None}]
NoRows == [s \in Stage |-> None]

RevRow == [profile: Service, group: Service, version: Nat \ {0}, status: Status]
Exists(r) == rev[r] # None
RevisionsOf(s) == {r \in Rev : Exists(r) /\ rev[r].profile = s}
In(s, status) == {r \in RevisionsOf(s) : rev[r].status = status}
NoTurn == [pc |-> "NONE", rev |-> None, rows |-> NoRows, conv |-> None]

\* A transition under the lock, a conversation that has started
Job == [rev: Rev, previous: Rev \cup {None}, to: {"TESTING", "PUBLISHED"}]
Started == [profile: Service \cup {None}, start: Rev]

\* None is no row of a table, and no code asks for the missing fingerprint.
ASSUME SentinelAssumption ==
    /\ None \notin RevRow \cup Job \cup Started
    /\ Unknown \notin Setting

-----------------------------------------------------------------------------
(* Indexes and triggers *)

\* Slip: a draft may be retired.
DraftMayRetire(before, after) ==
    <<before, after>> \in {<<"DRAFT", "TESTING">>, <<"DRAFT", "RETIRED">>,
        <<"TESTING", "PUBLISHED">>, <<"PUBLISHED", "RETIRED">>,
        <<"TESTING", "RETIRED">>, <<"RETIRED", "PUBLISHED">>}

\* uq_chat_profile_revisions_profile_published and _testing
UniqueInStatus(table) ==
    \A r, q \in {x \in Rev : table[x] # None} :
        table[r].profile = table[q].profile /\ table[r].status = table[q].status
            /\ table[r].status \in {"TESTING", "PUBLISHED"} => r = q

\* uq_chat_profile_revisions_profile_id_version
UniqueVersion(table) ==
    \A r, q \in {x \in Rev : table[x] # None} :
        table[r].profile = table[q].profile /\ table[r].version = table[q].version => r = q

\* chat_profile_revision_lock_update
TransitionAllowed(before, after) ==
    <<before, after>> \in {<<"DRAFT", "TESTING">>, <<"TESTING", "PUBLISHED">>,
        <<"PUBLISHED", "RETIRED">>, <<"TESTING", "RETIRED">>, <<"RETIRED", "PUBLISHED">>}

\* conversations.chat_profile_revision_id and rag_runs.profile_revision_id
Referenced(r) ==
    \/ \E c \in Conv : conv[c] # None /\ conv[c].start = r
    \/ \E t \in Turn : turn[t].pc = "RECORDED" /\ turn[t].rev = r

\* Slip: rows of a revision that is in use are deleted with it.
RowsOfUnusedMayGo(r) == rev[r].status \in {"DRAFT", "RETIRED"}

\* profile_revision_component_lock: rows change only below a draft, a new row
\* also in the transaction that creates its revision. There is no UPDATE.
RowsMayChange(r) == rev[r].status = "DRAFT"

\* chat_profile_revision_lock_delete
DeleteAllowed(r) == rev[r].status = "DRAFT" /\ ~Referenced(r)

-----------------------------------------------------------------------------
(* What the running code can serve: _resolve, _check_composite *)

\* The prompt is registered with the row's fingerprint and output schema.
Registered(config, s) == config[s] \in registry

\* The fingerprint of generation is rebuilt from the rows below it.
CompositeFits(config) == config["answer"] = config["generation"]

Servable(config) == (\A s \in Stage : Registered(config, s)) /\ CompositeFits(config)

\* code_components: the rows of a setting that a request or the code proposes
Uniform(setting) == [s \in Stage |-> setting]

-----------------------------------------------------------------------------
(* The tables before migrations 17, 20 and 21 *)

\* backfill_statements: the judge of a revision in service is the code's own, and
\* only a revision with the code's generation version has rows below it.
Backfilled(status, setting) ==
    LET known == IF setting = Current THEN Current ELSE Unknown
    IN [rewrite |-> known, generation |-> known,
        judge |-> IF status \in {"PUBLISHED", "TESTING"} THEN Current ELSE None,
        answer |-> IF setting = Current THEN Current ELSE None]

\* One profile. Its published revision uses the public group; the revision of the
\* internal endpoint is in TESTING and uses the test group. Versions as numbered.
Init ==
    /\ profile = {Public}
    /\ split = FALSE
    /\ \E number \in {f \in [Rev -> 1 .. Cardinality(Rev)] :
                        \A r, q \in Rev : f[r] = f[q] => r = q} :
       \E old \in SUBSET Rev :
       \E status \in [old -> Status], group \in [old -> Service], setting \in [old -> Setting] :
          /\ rev = [r \in Rev |-> IF r \notin old THEN None
                      ELSE [profile |-> Public, group |-> group[r],
                            version |-> number[r], status |-> status[r]]]
          /\ UniqueInStatus(rev)
          /\ \A r \in old : number[r] <= Cardinality(old)
                         /\ (status[r] = "PUBLISHED" => group[r] = Public)
                         /\ (status[r] = "TESTING" => group[r] = Test)
          /\ \E r \in old : status[r] = "PUBLISHED"
          /\ rows = [r \in Rev |-> IF r \in old THEN Backfilled(status[r], setting[r])
                                                ELSE NoRows]
          /\ \E started \in [Conv -> {None} \cup {r \in old : status[r] # "DRAFT"}] :
                conv = [c \in Conv |-> IF started[c] = None THEN None
                                       ELSE [profile |-> None, start |-> started[c]]]
          /\ tested = {r \in old : status[r] # "DRAFT"}
    /\ hold = [s \in Service |-> None]
    /\ registry = {Current}
    /\ turn = [t \in Turn |-> NoTurn]
    /\ hands = 0
    /\ deploys = 0
    /\ migrations = 0

-----------------------------------------------------------------------------
(* Migration 20, with the service stopped *)

Stopped == (\A s \in Service : hold[s] = None) /\ \A t \in Turn : turn[t].pc # "RESOLVED"

\* upgrade: revisions of the test group move to a profile of their own, and the
\* one in TESTING, which the internal endpoint served, is published there. The
\* public profile takes the group of its published revision, and a revision
\* that is left with another group than its profile stops the migration.
MovedUp(row) == [row EXCEPT !.profile = Test,
                            !.status = IF @ = "TESTING" THEN "PUBLISHED" ELSE @]
Upgrade ==
    LET moved == {r \in Rev : Exists(r) /\ rev[r].group = Test}
        table == [r \in Rev |-> IF r \in moved THEN MovedUp(rev[r]) ELSE rev[r]]
    IN /\ ~split
       /\ Stopped
       /\ migrations < MaxMigrate
       /\ \A r \in moved : rev[r].status # "PUBLISHED"
       /\ \E r \in Rev \ moved : Exists(r)
       /\ split' = TRUE
       /\ profile' = {Public} \cup (IF moved = {} THEN {} ELSE {Test})
       /\ rev' = table
       /\ conv' = [c \in Conv |-> IF conv[c] = None THEN None
                     ELSE [conv[c] EXCEPT !.profile = table[conv[c].start].profile]]
       /\ migrations' = migrations + 1
       /\ UNCHANGED <<rows, hold, registry, turn, tested, hands, deploys>>

\* A version that the public profile has already is replaced by the next free one.
RestoredVersion(r) ==
    LET taken == {rev[q].version : q \in RevisionsOf(Public)}
        all == taken \cup {rev[q].version : q \in RevisionsOf(Test)}
        renumbered == {q \in RevisionsOf(Test) :
                          rev[q].version \in taken /\ rev[q].version <= rev[r].version}
    IN IF rev[r].version \in taken THEN Max(all) + Cardinality(renumbered)
                                   ELSE rev[r].version

\* _restore_test_revisions. Migration 21 is undone before it, so no trigger
\* objects to a published revision that returns to TESTING.
MovedDown(r) ==
    [rev[r] EXCEPT !.profile = Public, !.version = RestoredVersion(r),
                   !.status = IF @ = "PUBLISHED" THEN "TESTING" ELSE @]
Downgrade ==
    /\ split
    /\ Stopped
    /\ migrations < MaxMigrate
    /\ Test \in profile => /\ In(Test, "TESTING") = {}
                           /\ In(Test, "PUBLISHED") # {} => In(Public, "TESTING") = {}
    /\ split' = FALSE
    /\ profile' = {Public}
    /\ rev' = [r \in Rev |-> IF r \in RevisionsOf(Test) THEN MovedDown(r) ELSE rev[r]]
    /\ conv' = [c \in Conv |-> IF conv[c] = None THEN None
                               ELSE [conv[c] EXCEPT !.profile = None]]
    /\ migrations' = migrations + 1
    /\ UNCHANGED <<rows, hold, registry, turn, tested, hands, deploys>>

-----------------------------------------------------------------------------
(* The console: ProfileRevisionService *)

\* create: seven rows of the running code or of the request, validated before
\* they are stored. The rows of one setting stand for both.
Create(s, r, setting) ==
    LET config == Uniform(setting)
    IN /\ split /\ s \in profile
       /\ hold[s] = None
       /\ ~Exists(r)
       /\ Servable(config)
       /\ \A q \in RevisionsOf(s) : rev[q].version < MaxVersion
       /\ rev' = [rev EXCEPT ![r] = [profile |-> s, group |-> s, status |-> "DRAFT",
             version |-> Max({rev[q].version : q \in RevisionsOf(s)} \cup {0}) + 1]]
       /\ rows' = [rows EXCEPT ![r] = config]
       /\ UNCHANGED <<profile, split, hold, registry, conv, turn, tested,
                      hands, deploys, migrations>>

\* testing, publish, rollback
Transition == {<<"DRAFT", "TESTING">>, <<"TESTING", "PUBLISHED">>, <<"RETIRED", "PUBLISHED">>}

\* _transition up to its first write: the profile is locked, the revision, its
\* rows and the one it replaces are read afresh.
Begin(s, r, step) ==
    /\ split /\ s \in profile
    /\ hold[s] = None
    /\ r \in In(s, step[1])
    /\ Servable(rows[r])
    /\ \E previous \in IF In(s, step[2]) = {} THEN {None} ELSE In(s, step[2]) :
          hold' = [hold EXCEPT ![s] = [rev |-> r, previous |-> previous, to |-> step[2]]]
    /\ UNCHANGED <<profile, split, rev, rows, registry, conv, turn, tested,
                   hands, deploys, migrations>>

Reaches(r, status) ==
    Exists(r) /\ (rev[r].status = status \/ TransitionAllowed(rev[r].status, status))

\* Slip: the replaced revision is retired in a transaction of its own, after
\* which the process may end.
RetiredFirst(job) ==
    LET q == IF job.previous = None THEN job.rev ELSE job.previous
        status == IF job.previous = None THEN job.to ELSE "RETIRED"
    IN [rev EXCEPT ![q].status = status]

\* The writes of _transition: the replaced revision is retired first.
Replaced(job) ==
    [q \in Rev |-> IF q = job.rev THEN [rev[q] EXCEPT !.status = job.to]
                   ELSE IF q = job.previous THEN [rev[q] EXCEPT !.status = "RETIRED"]
                   ELSE rev[q]]

Finish(s) ==
    LET job == hold[s]
    IN /\ job # None
       /\ job.previous # None => Reaches(job.previous, "RETIRED")
       /\ Reaches(job.rev, job.to)
       /\ UniqueInStatus(Replaced(job))
       /\ rev' = Replaced(job)
       /\ tested' = IF job.to = "TESTING" THEN tested \cup {job.rev} ELSE tested
       /\ hold' = [hold EXCEPT ![s] = None]
       /\ UNCHANGED <<profile, split, rows, registry, conv, turn, hands, deploys, migrations>>

\* A refusal of the database or a lost connection rolls everything back.
RollBack(s) ==
    /\ hold[s] # None
    /\ hold' = [hold EXCEPT ![s] = None]
    /\ UNCHANGED <<profile, split, rev, rows, registry, conv, turn, tested,
                   hands, deploys, migrations>>

Delete(s, r) ==
    /\ split /\ s \in profile
    /\ hold[s] = None
    /\ r \in In(s, "DRAFT")
    /\ DeleteAllowed(r) /\ RowsMayChange(r)
    /\ rev' = [rev EXCEPT ![r] = None]
    /\ rows' = [rows EXCEPT ![r] = NoRows]
    /\ tested' = tested \ {r}
    /\ UNCHANGED <<profile, split, hold, registry, conv, turn, hands, deploys, migrations>>

-----------------------------------------------------------------------------
(* Statements by hand: only triggers, indexes and foreign keys apply *)

ByHand == split /\ hands < MaxHand /\ hands' = hands + 1
       /\ UNCHANGED <<profile, split, hold, registry, conv, turn, deploys, migrations>>

HandStatus(r, status) ==
    LET table == [rev EXCEPT ![r].status = status]
    IN /\ Exists(r)
       /\ TransitionAllowed(rev[r].status, status)
       /\ UniqueInStatus(table)
       /\ rev' = table
       /\ tested' = IF status = "TESTING" THEN tested \cup {r} ELSE tested
       /\ UNCHANGED rows
       /\ ByHand

\* A row is inserted or deleted, never changed.
HandRow(r, s, value) ==
    /\ Exists(r)
    /\ RowsMayChange(r)
    /\ (rows[r][s] = None) # (value = None)
    /\ rows' = [rows EXCEPT ![r][s] = value]
    /\ UNCHANGED <<rev, tested>>
    /\ ByHand

\* A foreign key (RESTRICT) wants the rows gone before the revision: a script of
\* two statements and one commit.
HandDelete(r) ==
    /\ Exists(r)
    /\ RowsMayChange(r) /\ DeleteAllowed(r)
    /\ rows' = [rows EXCEPT ![r] = NoRows]
    /\ rev' = [rev EXCEPT ![r] = None]
    /\ tested' = tested \ {r}
    /\ ByHand

-----------------------------------------------------------------------------
(* Turns and deployments *)

\* Slip: the code is not asked whether it can serve the rows.
ReadyUnchecked(s) == Cardinality(In(s, "PUBLISHED")) = 1

\* check_service: what a deployment asks for, and a turn as well
Ready(s) ==
    /\ Cardinality(In(s, "PUBLISHED")) = 1
    /\ \A r \in In(s, "PUBLISHED") : Servable(rows[r])

\* Slip: a conversation is continued on any service.
ContinuesAnywhere(c, s) == conv[c] # None => conv[c].profile \in profile
Continues(c, s) ==
    conv[c] # None => conv[c].profile = s /\ rev[conv[c].start].profile = s

\* resolve_chat_profile_revision and load_turn_stage_settings: not the revision
\* that the conversation started with but the one that is published now.
Resolve(t, c, s) ==
    /\ split
    /\ turn[t].pc = "NONE"
    /\ conv[c] = None => \A q \in Turn : turn[q].conv # c
    /\ Continues(c, s)
    /\ Ready(s)
    /\ \E r \in In(s, "PUBLISHED") :
          turn' = [turn EXCEPT ![t] =
              [pc |-> "RESOLVED", rev |-> r, rows |-> rows[r], conv |-> c]]
    /\ UNCHANGED <<profile, split, rev, rows, hold, registry, conv, tested,
                   hands, deploys, migrations>>

\* The rest of _start_turn: the conversation and the run are inserted. A foreign
\* key wants the revision to exist, a conversation that appeared is another one.
Record(t) ==
    LET c == turn[t].conv
        r == turn[t].rev
    IN /\ turn[t].pc = "RESOLVED"
       /\ Exists(r)
       /\ turn' = [turn EXCEPT ![t].pc = "RECORDED"]
       /\ conv' = [conv EXCEPT ![c] =
              IF @ = None THEN [profile |-> rev[r].profile, start |-> r] ELSE @]
       /\ UNCHANGED <<profile, split, rev, rows, hold, registry, tested,
                      hands, deploys, migrations>>

\* A process with other code takes over. Open transactions are lost.
Deploy(code) ==
    /\ split
    /\ deploys < MaxDeploy
    /\ code # registry
    /\ registry' = code
    /\ deploys' = deploys + 1
    /\ hold' = [s \in Service |-> None]
    /\ turn' = [t \in Turn |-> IF turn[t].pc = "RESOLVED" THEN NoTurn ELSE turn[t]]
    /\ UNCHANGED <<profile, split, rev, rows, conv, tested, hands, migrations>>

Next ==
    \/ Upgrade \/ Downgrade
    \/ \E s \in Service, r \in Rev :
          \/ \E setting \in Setting : Create(s, r, setting)
          \/ \E step \in Transition : Begin(s, r, step)
          \/ Delete(s, r)
    \/ \E s \in Service : Finish(s) \/ RollBack(s)
    \/ \E r \in Rev : \/ \E status \in Status : HandStatus(r, status)
                      \/ \E s \in Stage, v \in Setting \cup {None} : HandRow(r, s, v)
                      \/ HandDelete(r)
    \/ \E t \in Turn : \/ \E c \in Conv, s \in Service : Resolve(t, c, s)
                       \/ Record(t)
    \/ \E code \in (SUBSET Setting) \ {{}} : Deploy(code)

Spec == Init /\ [][Next]_vars

-----------------------------------------------------------------------------
(* Properties *)

TypeOK ==
    /\ profile \in {{Public}, Service}
    /\ split \in BOOLEAN
    /\ rev \in [Rev -> RevRow \cup {None}]
    /\ rows \in [Rev -> Rows]
    /\ hold \in [Service -> {None} \cup Job]
    /\ registry \in SUBSET Setting
    /\ conv \in [Conv -> {None} \cup Started]
    /\ turn \in [Turn -> [pc: {"NONE", "RESOLVED", "RECORDED"}, rev: Rev \cup {None},
                          rows: Rows, conv: Conv \cup {None}]]
    /\ tested \subseteq Rev
    /\ {hands, deploys, migrations} \subseteq Nat

\* No revision reaches customers without the TESTING validation: the trigger
\* refuses DRAFT to RETIRED because the restore of a retired revision would then
\* go around it, for the console and for statements by hand.
TestedBeforeServed ==
    \A r \in Rev : Exists(r) /\ rev[r].status \in {"PUBLISHED", "RETIRED"} => r \in tested

\* The log of a turn stays explainable: the revision it names still exists, with
\* exactly the rows that the turn used, complete and known to the code then.
TurnsAreExplained ==
    \A t \in Turn : turn[t].pc = "RECORDED" =>
        /\ Exists(turn[t].rev)
        /\ rows[turn[t].rev] = turn[t].rows
        /\ \A s \in Stage : turn[t].rows[s] \notin {None, Unknown}

\* A conversation is answered from the documents of one service, whatever is
\* published meanwhile and wherever the migration moves its revisions.
TurnStaysInService ==
    \A t \in Turn : turn[t].pc = "RECORDED" =>
        rev[turn[t].rev].group = rev[conv[turn[t].conv].start].group

\* As long as nobody writes by hand, publishing, restoring, deleting, migrating
\* and deploying never leave a service that has a published revision without one.
\* A statement by hand can, on its own or by publishing the revision that a
\* testing transition has read and is about to retire.
ServiceStaysUp ==
    [][\A s \in profile' : split /\ split' /\ hands' = 0 /\ In(s, "PUBLISHED") # {}
          => \E r \in Rev : rev'[r] # None /\ rev'[r].profile = s
                           /\ rev'[r].status = "PUBLISHED"]_vars
=============================================================================
