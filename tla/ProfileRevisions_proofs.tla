------------------------ MODULE ProfileRevisions_proofs ------------------------
(***************************************************************************)
(* Proofs about ProfileRevisions, for any number of revisions, settings,   *)
(* conversations and turns, statements by hand, deployments and runs of    *)
(* the migration.                                                          *)
(*                                                                         *)
(* A revision in use keeps its rows and its group in every step            *)
(* (InUseKept); what turns and conversations rely on follows from it.      *)
(***************************************************************************)
EXTENDS ProfileRevisions, DataLemmas

-----------------------------------------------------------------------------
(* The inductive invariant *)

\* A revision that left DRAFT: it is never deleted, nor are its rows changed.
InUse(r) == Exists(r) /\ rev[r].status # "DRAFT"

Bounded == \E b \in Nat : \A r \in Rev : Exists(r) => rev[r].version <= b

LeftTesting == \A r \in Rev : InUse(r) => r \in tested

\* While the schema is joint there is one profile, afterwards the revisions of a
\* profile use the group of its name.
GroupsFit ==
    /\ ~split => profile = {Public}
    /\ \A r \in Rev : Exists(r) =>
          /\ rev[r].profile \in profile
          /\ split => rev[r].group = rev[r].profile

ConversationsStarted == \A c \in Conv : conv[c] # None => InUse(conv[c].start)

\* What a turn has resolved stays as it was until it is recorded, and after.
TurnFits(t) ==
    IF turn[t].pc = "NONE" THEN turn[t].conv = None
    ELSE /\ turn[t].conv \in Conv /\ turn[t].rev \in Rev
         /\ InUse(turn[t].rev)
         /\ turn[t].rows = rows[turn[t].rev]
         /\ \A s \in Stage : turn[t].rows[s] \notin {None, Unknown}
         /\ turn[t].pc = "RECORDED" => conv[turn[t].conv] # None
         /\ conv[turn[t].conv] # None =>
               rev[turn[t].rev].group = rev[conv[turn[t].conv].start].group

\* One turn at most is about to start a conversation.
OneStarts ==
    \A t, q \in Turn :
        (turn[t].conv = turn[q].conv /\ turn[t].conv # None /\ conv[turn[t].conv] = None) => t = q

\* Without statements by hand a transition finds what it has read.
JobsFit ==
    hands = 0 => \A s \in Service : hold[s] # None =>
        /\ split
        /\ Exists(hold[s].rev) /\ rev[hold[s].rev].profile = s
        /\ hold[s].to = "TESTING" => rev[hold[s].rev].status = "DRAFT"
        /\ hold[s].previous # None =>
              /\ Exists(hold[s].previous)
              /\ rev[hold[s].previous].profile = s
              /\ rev[hold[s].previous].status = hold[s].to

\* The unique indexes of the table hold, through the migrations as well, which
\* rewrite profiles, versions and statuses.
IndexesHold == UniqueInStatus(rev) /\ UniqueVersion(rev)

PInv ==
    /\ TypeOK
    /\ Bounded
    /\ LeftTesting
    /\ GroupsFit
    /\ ConversationsStarted
    /\ \A t \in Turn : TurnFits(t)
    /\ OneStarts
    /\ JobsFit
    /\ IndexesHold

-----------------------------------------------------------------------------
(* Rows with some fields changed *)

RowAs(row, s) == [row EXCEPT !.status = s]
TurnRow == [pc: {"NONE", "RESOLVED", "RECORDED"}, rev: Rev \cup {None},
            rows: Rows, conv: Conv \cup {None}]
TurnRecorded(row) == [row EXCEPT !.pc = "RECORDED"]

\* None stands for what is not there.
LEMMA NoneIsNoRow ==
    /\ \A x \in RevRow : x # None
    /\ \A x \in Job : x # None
    /\ \A x \in Started : x # None
BY SentinelAssumption

\* What is left of the row of a revision when its status changes, or the upgrade
\* moves it.
LEMMA RowFields ==
    ASSUME NEW row \in RevRow
    PROVE  /\ \A s \in Status :
                 /\ RowAs(row, s) \in RevRow
                 /\ RowAs(row, s).status = s
                 /\ RowAs(row, s).profile = row.profile
                 /\ RowAs(row, s).group = row.group
                 /\ RowAs(row, s).version = row.version
           /\ MovedUp(row) \in RevRow
           /\ MovedUp(row).status = IF row.status = "TESTING" THEN "PUBLISHED" ELSE row.status
           /\ MovedUp(row).profile = Test
           /\ MovedUp(row).group = row.group
           /\ MovedUp(row).version = row.version
BY DEF RevRow, RowAs, MovedUp, Status, Service, Test

\* What is left of a turn when it is recorded.
LEMMA TurnFields ==
    ASSUME NEW row \in TurnRow
    PROVE  /\ TurnRecorded(row) \in TurnRow
           /\ TurnRecorded(row).pc = "RECORDED"
           /\ TurnRecorded(row).rev = row.rev
           /\ TurnRecorded(row).rows = row.rows
           /\ TurnRecorded(row).conv = row.conv
BY DEF TurnRow, TurnRecorded

\* A turn that is not there belongs to no conversation.
LEMMA NoTurnFields ==
    /\ NoRows \in Rows
    /\ NoTurn \in TurnRow /\ NoTurn.pc = "NONE" /\ NoTurn.conv = None
BY DEF NoTurn, TurnRow, NoRows, Rows

\* A revision that exists is a row, and a row is not None.
LEMMA ExistsRow ==
    ASSUME TypeOK, NEW r \in Rev
    PROVE  Exists(r) <=> rev[r] \in RevRow
BY NoneIsNoRow DEF TypeOK, Exists

-----------------------------------------------------------------------------
(* What is kept of a revision in use *)

InUseKept ==
    \A r \in Rev : InUse(r) =>
        InUse(r)' /\ rev'[r].group = rev[r].group /\ rows'[r] = rows[r]

\* The same conversations, with the same starting revisions
SameStarts ==
    \A c \in Conv : IF conv[c] = None THEN conv'[c] = None
                    ELSE conv'[c] # None /\ conv'[c].start = conv[c].start

\* A conversation that has started did so on a revision.
LEMMA StartTypes ==
    ASSUME TypeOK, NEW c \in Conv, conv[c] # None
    PROVE  conv[c] \in Started /\ conv[c].start \in Rev
BY DEF TypeOK, Started

\* Turns and conversations fit as long as nobody touches them.
LEMMA TurnsKeep ==
    ASSUME PInv, InUseKept, SameStarts,
           \A t \in Turn : turn'[t] = turn[t] \/ turn'[t] = NoTurn
    PROVE  /\ ConversationsStarted'
           /\ \A t \in Turn : TurnFits(t)'
           /\ OneStarts'
<1>1. \A c \in Conv : conv[c] # None => conv[c].start \in Rev
  BY StartTypes DEF PInv
<1>2. ConversationsStarted'
  BY <1>1 DEF PInv, ConversationsStarted, SameStarts, InUseKept
<1>3. ASSUME NEW t \in Turn PROVE TurnFits(t)'
  <2>1. CASE turn'[t] = NoTurn
    BY <2>1, NoTurnFields DEF TurnFits
  <2>2. CASE turn'[t] = turn[t] /\ turn[t].pc = "NONE"
    BY <2>2 DEF PInv, TurnFits
  <2>3. CASE turn'[t] = turn[t] /\ turn[t].pc # "NONE"
    <3>1. /\ turn[t].conv \in Conv /\ turn[t].rev \in Rev
          /\ InUse(turn[t].rev)
          /\ turn[t].rows = rows[turn[t].rev]
          /\ \A s \in Stage : turn[t].rows[s] \notin {None, Unknown}
          /\ turn[t].pc = "RECORDED" => conv[turn[t].conv] # None
          /\ conv[turn[t].conv] # None =>
               rev[turn[t].rev].group = rev[conv[turn[t].conv].start].group
      BY <2>3 DEF PInv, TurnFits
    <3>2. InUse(turn[t].rev)' /\ rev'[turn[t].rev].group = rev[turn[t].rev].group
          /\ rows'[turn[t].rev] = rows[turn[t].rev]
      BY <2>3, <3>1 DEF InUseKept, InUse, Exists
    <3>3. conv'[turn[t].conv] # None =>
             rev'[turn[t].rev].group = rev'[conv'[turn[t].conv].start].group
      BY <1>1, <3>1, <3>2 DEF PInv, ConversationsStarted, SameStarts, InUseKept
    <3>4. turn[t].pc = "RECORDED" => conv'[turn[t].conv] # None
      BY <3>1 DEF SameStarts
    <3> QED BY <2>3, <3>1, <3>2, <3>3, <3>4 DEF TurnFits
  <2> QED BY <2>1, <2>2, <2>3
<1>4. OneStarts'
  <2> SUFFICES ASSUME NEW t \in Turn, NEW q \in Turn, turn'[t].conv = turn'[q].conv,
                      turn'[t].conv # None, conv'[turn'[t].conv] = None
               PROVE  t = q
    BY DEF OneStarts
  <2>1. turn'[t] = turn[t] /\ turn'[q] = turn[q]
    BY NoTurnFields
  <2>2. turn[t].conv \in Conv
    BY <2>1 DEF PInv, TurnFits
  <2>3. conv[turn[t].conv] = None
    BY <2>1, <2>2 DEF SameStarts
  <2> QED BY <2>1, <2>3 DEF PInv, OneStarts
<1> QED BY <1>2, <1>3, <1>4

-----------------------------------------------------------------------------
(* Steps that change statuses only *)

\* A step that only changes the status of tested revisions keeps the invariant.
LEMMA Restatus ==
    ASSUME PInv, TypeOK', UniqueInStatus(rev'), JobsFit',
           UNCHANGED <<profile, split, rows, conv, turn>>, tested \subseteq tested',
           \A q \in Rev : \/ rev'[q] = rev[q]
                          \/ /\ Exists(q) /\ q \in tested'
                             /\ \E s \in {"TESTING", "PUBLISHED", "RETIRED"} :
                                   rev'[q] = RowAs(rev[q], s)
    PROVE  PInv'
<1>1. ASSUME NEW q \in Rev
      PROVE  /\ Exists(q)' <=> Exists(q)
             /\ Exists(q) => /\ rev'[q].profile = rev[q].profile
                             /\ rev'[q].group = rev[q].group
                             /\ rev'[q].version = rev[q].version
                             /\ \/ rev'[q].status = rev[q].status
                                \/ rev'[q].status # "DRAFT" /\ q \in tested'
  <2>1. CASE rev'[q] = rev[q]
    BY <2>1 DEF Exists
  <2>2. ASSUME NEW s \in {"TESTING", "PUBLISHED", "RETIRED"}, rev'[q] = RowAs(rev[q], s),
               Exists(q), q \in tested'
        PROVE  /\ Exists(q)'
               /\ rev'[q].profile = rev[q].profile
               /\ rev'[q].group = rev[q].group
               /\ rev'[q].version = rev[q].version
               /\ rev'[q].status # "DRAFT"
    <3>1. rev[q] \in RevRow /\ s \in Status
      BY <2>2, ExistsRow DEF PInv, Status
    <3>2. /\ RowAs(rev[q], s) \in RevRow
          /\ RowAs(rev[q], s).status = s
          /\ RowAs(rev[q], s).profile = rev[q].profile
          /\ RowAs(rev[q], s).group = rev[q].group
          /\ RowAs(rev[q], s).version = rev[q].version
      BY <3>1, RowFields
    <3> QED BY <2>2, <3>2, NoneIsNoRow DEF Exists
  <2> QED BY <2>1, <2>2
<1>2. InUseKept
  BY <1>1 DEF InUseKept, InUse
<1>3. ConversationsStarted' /\ (\A t \in Turn : TurnFits(t)') /\ OneStarts'
  <2>1. SameStarts
    BY DEF SameStarts
  <2> QED BY <1>2, <2>1, TurnsKeep
<1>4. Bounded' /\ GroupsFit'
  BY <1>1 DEF PInv, Bounded, GroupsFit
<1>5. LeftTesting'
  BY <1>1 DEF PInv, LeftTesting, InUse
<1>6. UniqueVersion(rev')
  <2>1. \A q \in Rev : rev'[q] # None <=> rev[q] # None
    BY <1>1 DEF Exists
  <2> QED BY <1>1, <2>1 DEF PInv, IndexesHold, UniqueVersion, Exists
<1> QED BY <1>3, <1>4, <1>5, <1>6 DEF PInv, IndexesHold

-----------------------------------------------------------------------------
(* The console *)

\* A step that leaves the tables alone
LEMMA TablesUntouched ==
    ASSUME PInv, TypeOK', JobsFit', UNCHANGED <<profile, split, rev, rows, conv, tested>>,
           \A t \in Turn : turn'[t] = turn[t] \/ turn'[t] = NoTurn
    PROVE  PInv'
<1>1. InUseKept /\ SameStarts
  BY DEF InUseKept, InUse, Exists, SameStarts
<1>2. (Bounded /\ LeftTesting /\ GroupsFit /\ IndexesHold)'
  BY DEF PInv, Bounded, LeftTesting, GroupsFit, IndexesHold, UniqueInStatus, UniqueVersion,
         InUse, Exists
<1> QED BY <1>1, <1>2, TurnsKeep DEF PInv

\* Publishing or testing begins: its job names what it has read under the lock.
LEMMA BeginKeeps ==
    ASSUME PInv, NEW s \in Service, NEW r \in Rev, NEW step \in Transition, Begin(s, r, step)
    PROVE  PInv'
<1> DEFINE from == step[1]
           to == step[2]
<1>1. /\ from = "DRAFT" /\ to = "TESTING"
      \/ to = "PUBLISHED"
  BY DEF Transition
<1>2. /\ split /\ r \in In(s, from)
      /\ UNCHANGED <<profile, split, rev, rows, registry, conv, turn, tested,
                     hands, deploys, migrations>>
  BY DEF Begin
<1> HIDE DEF from
<1>3. PICK previous \in IF In(s, to) = {} THEN {None} ELSE In(s, to) :
         hold' = [hold EXCEPT ![s] = [rev |-> r, previous |-> previous, to |-> to]]
  BY DEF Begin
<1> HIDE DEF to
<1> DEFINE job == [rev |-> r, previous |-> previous, to |-> to]
<1>4. job \in Job /\ job.rev = r /\ job.previous = previous /\ job.to = to
  BY <1>1 DEF Job, In, RevisionsOf
<1> HIDE DEF job
<1>5. /\ hold' \in [Service -> {None} \cup Job] /\ hold'[s] = job
      /\ \A x \in Service \ {s} : hold'[x] = hold[x]
  BY <1>3, <1>4 DEF PInv, TypeOK, job
<1>6. TypeOK'
  BY <1>2, <1>5 DEF PInv, TypeOK
<1>7. JobsFit'
  <2>1. /\ Exists(r) /\ rev[r].profile = s /\ rev[r].status = from
        /\ previous # None => /\ Exists(previous) /\ rev[previous].profile = s
                              /\ rev[previous].status = to
    BY <1>2, <1>3 DEF In, RevisionsOf
  <2> QED BY <1>1, <1>2, <1>4, <1>5, <2>1 DEF PInv, JobsFit, Exists
<1> QED BY <1>2, <1>6, <1>7, TablesUntouched

\* A transition that is given up leaves nothing behind.
LEMMA RollBackKeeps ==
    ASSUME PInv, NEW s \in Service, RollBack(s)
    PROVE  PInv'
<1>1. /\ hold' = [hold EXCEPT ![s] = None]
      /\ UNCHANGED <<profile, split, rev, rows, registry, conv, turn, tested,
                     hands, deploys, migrations>>
  BY DEF RollBack
<1>2. TypeOK'
  BY <1>1 DEF PInv, TypeOK
<1>3. JobsFit'
  BY <1>1 DEF PInv, TypeOK, JobsFit, Exists
<1> QED BY <1>1, <1>2, <1>3, TablesUntouched

\* A deployment ends the transitions and the turns under way.
LEMMA DeployKeeps ==
    ASSUME PInv, NEW code \in SUBSET Setting, Deploy(code)
    PROVE  PInv'
<1>1. /\ registry' = code /\ deploys' = deploys + 1
      /\ hold' = [s \in Service |-> None]
      /\ turn' = [t \in Turn |-> IF turn[t].pc = "RESOLVED" THEN NoTurn ELSE turn[t]]
      /\ UNCHANGED <<profile, split, rev, rows, conv, tested, hands, migrations>>
  BY DEF Deploy
<1>2. turn' \in [Turn -> TurnRow]
  BY <1>1, NoTurnFields DEF PInv, TypeOK, TurnRow
<1>3. TypeOK'
  BY <1>1, <1>2 DEF PInv, TypeOK, TurnRow
<1>4. JobsFit'
  BY <1>1 DEF JobsFit
<1> QED BY <1>1, <1>3, <1>4, TablesUntouched

\* What a transition that succeeds writes: the status of its revision and of the
\* one it replaces.
LEMMA FinishEffect ==
    ASSUME PInv, NEW s \in Service, Finish(s), NEW job, job = hold[s]
    PROVE  /\ job \in Job /\ hold' = [hold EXCEPT ![s] = None]
           /\ UNCHANGED <<profile, split, rows, registry, conv, turn, hands, deploys, migrations>>
           /\ tested' = IF job.to = "TESTING" THEN tested \cup {job.rev} ELSE tested
           /\ UniqueInStatus(rev')
           /\ Exists(job.rev) /\ (job.to = "PUBLISHED" => InUse(job.rev))
           /\ job.previous # None => InUse(job.previous)
           /\ rev' = [q \in Rev |-> IF q = job.rev THEN RowAs(rev[q], job.to)
                                    ELSE IF q = job.previous THEN RowAs(rev[q], "RETIRED")
                                    ELSE rev[q]]
<1>1. job \in Job
  BY DEF Finish, PInv, TypeOK
<1>2. Exists(job.rev) /\ (job.to = "PUBLISHED" => InUse(job.rev))
  BY DEF Finish, Reaches, TransitionAllowed, InUse
<1>3. job.previous # None => InUse(job.previous)
  BY DEF Finish, Reaches, TransitionAllowed, InUse
<1>4. rev' = [q \in Rev |-> IF q = job.rev THEN RowAs(rev[q], job.to)
                            ELSE IF q = job.previous THEN RowAs(rev[q], "RETIRED")
                            ELSE rev[q]]
  BY DEF Finish, Replaced, RowAs
<1>5. UniqueInStatus(rev')
  BY DEF Finish
<1>6. /\ hold' = [hold EXCEPT ![s] = None]
      /\ UNCHANGED <<profile, split, rows, registry, conv, turn, hands, deploys, migrations>>
      /\ tested' = IF job.to = "TESTING" THEN tested \cup {job.rev} ELSE tested
  BY DEF Finish
<1> QED BY <1>1, <1>2, <1>3, <1>4, <1>5, <1>6

\* A transition that succeeds keeps the invariant.
LEMMA FinishKeeps ==
    ASSUME PInv, NEW s \in Service, Finish(s)
    PROVE  PInv'
<1> DEFINE job == hold[s]
<1>1. /\ job \in Job /\ hold' = [hold EXCEPT ![s] = None]
      /\ UNCHANGED <<profile, split, rows, registry, conv, turn, hands, deploys, migrations>>
      /\ tested' = IF job.to = "TESTING" THEN tested \cup {job.rev} ELSE tested
      /\ UniqueInStatus(rev')
      /\ Exists(job.rev) /\ (job.to = "PUBLISHED" => InUse(job.rev))
      /\ job.previous # None => InUse(job.previous)
      /\ rev' = [q \in Rev |-> IF q = job.rev THEN RowAs(rev[q], job.to)
                               ELSE IF q = job.previous THEN RowAs(rev[q], "RETIRED")
                               ELSE rev[q]]
  BY FinishEffect
<1> HIDE DEF job
<1>2. job.rev \in Rev /\ job.to \in {"TESTING", "PUBLISHED"} /\ job.previous \in Rev \cup {None}
  BY <1>1 DEF Job
<1>3. \A q \in Rev : \/ rev'[q] = rev[q]
                     \/ /\ Exists(q) /\ q \in tested'
                        /\ \E st \in {"TESTING", "PUBLISHED", "RETIRED"} : rev'[q] = RowAs(rev[q], st)
  <2> SUFFICES ASSUME NEW q \in Rev, rev'[q] # rev[q]
               PROVE  /\ Exists(q) /\ q \in tested'
                      /\ \E st \in {"TESTING", "PUBLISHED", "RETIRED"} : rev'[q] = RowAs(rev[q], st)
    OBVIOUS
  <2>1. CASE q = job.rev
    BY <1>1, <1>2, <2>1 DEF PInv, LeftTesting
  <2>2. CASE q # job.rev /\ q = job.previous
    <3>1. q # None
      BY ProfileAssumption
    <3> QED BY <1>1, <2>2, <3>1 DEF PInv, LeftTesting, InUse
  <2> QED BY <1>1, <2>1, <2>2
<1>4. rev' \in [Rev -> RevRow \cup {None}]
  <2>1. \A q \in Rev : rev'[q] \in RevRow \cup {None}
    <3> SUFFICES ASSUME NEW q \in Rev PROVE rev'[q] \in RevRow \cup {None}
      OBVIOUS
    <3>1. ASSUME NEW st \in {"TESTING", "PUBLISHED", "RETIRED"}, Exists(q)
          PROVE  RowAs(rev[q], st) \in RevRow
      BY <3>1, ExistsRow, RowFields DEF PInv, Status
    <3> QED BY <1>3, <3>1 DEF PInv, TypeOK
  <2> QED BY <1>1, <2>1
<1>5. TypeOK'
  BY <1>1, <1>2, <1>4 DEF PInv, TypeOK
<1>6. JobsFit'
  <2> SUFFICES ASSUME hands = 0, NEW x \in Service, hold'[x] # None
               PROVE  /\ split
                      /\ Exists(hold[x].rev)' /\ rev'[hold[x].rev].profile = x
                      /\ hold[x].to = "TESTING" => rev'[hold[x].rev].status = "DRAFT"
                      /\ hold[x].previous # None =>
                            /\ Exists(hold[x].previous)'
                            /\ rev'[hold[x].previous].profile = x
                            /\ rev'[hold[x].previous].status = hold[x].to
                      /\ hold'[x] = hold[x]
    BY <1>1 DEF JobsFit
  <2>1. x # s /\ hold'[x] = hold[x]
    BY <1>1 DEF PInv, TypeOK
  <2>2. hold[x] \in Job /\ hold[x].rev \in Rev /\ hold[x].previous \in Rev \cup {None}
    BY <2>1 DEF PInv, TypeOK, Job
  <2>3. hold[s] # None
    BY <1>1, NoneIsNoRow DEF job
  <2>4. /\ rev[job.rev].profile = s
        /\ job.previous # None => rev[job.previous].profile = s
    BY <2>3 DEF PInv, JobsFit, job
  <2>5. \A q \in Rev : rev[q].profile = x => rev'[q] = rev[q]
    BY <1>1, <2>1, <2>4, ProfileAssumption
  <2>6. /\ split
        /\ Exists(hold[x].rev) /\ rev[hold[x].rev].profile = x
        /\ hold[x].to = "TESTING" => rev[hold[x].rev].status = "DRAFT"
        /\ hold[x].previous # None =>
              /\ Exists(hold[x].previous)
              /\ rev[hold[x].previous].profile = x
              /\ rev[hold[x].previous].status = hold[x].to
    BY <2>1 DEF PInv, JobsFit
  <2> QED BY <2>1, <2>2, <2>5, <2>6 DEF Exists
<1> QED BY <1>1, <1>3, <1>5, <1>6, Restatus

\* A status set by hand goes where the trigger of the database lets it.
LEMMA HandStatusKeeps ==
    ASSUME PInv, NEW r \in Rev, NEW status \in Status, HandStatus(r, status)
    PROVE  PInv'
<1> DEFINE row == RowAs(rev[r], status)
<1>1. /\ Exists(r) /\ TransitionAllowed(rev[r].status, status)
      /\ tested' = IF status = "TESTING" THEN tested \cup {r} ELSE tested
      /\ rev' = [rev EXCEPT ![r] = row] /\ UniqueInStatus(rev')
      /\ UNCHANGED rows /\ ByHand
  BY DEF HandStatus, RowAs
<1>2. row \in RevRow
  BY <1>1, ExistsRow, RowFields DEF PInv
<1> HIDE DEF row
<1>3. /\ rev' \in [Rev -> RevRow \cup {None}] /\ rev'[r] = row
      /\ \A q \in Rev \ {r} : rev'[q] = rev[q]
  BY <1>1, <1>2 DEF PInv, TypeOK
<1>4. status \in {"TESTING", "PUBLISHED", "RETIRED"} /\ (status # "TESTING" => InUse(r))
  BY <1>1 DEF TransitionAllowed, InUse
<1>5. r \in tested' /\ tested \subseteq tested'
  BY <1>1, <1>4 DEF PInv, LeftTesting
<1>6. /\ UNCHANGED <<profile, split, hold, registry, conv, turn, deploys, migrations>>
      /\ hands' = hands + 1 /\ hands \in Nat
  BY <1>1 DEF ByHand, PInv, TypeOK
<1>7. TypeOK'
  BY <1>1, <1>3, <1>6 DEF PInv, TypeOK
<1>8. JobsFit'
  BY <1>6 DEF JobsFit
<1>9. \A q \in Rev : \/ rev'[q] = rev[q]
                     \/ /\ Exists(q) /\ q \in tested'
                        /\ \E st \in {"TESTING", "PUBLISHED", "RETIRED"} : rev'[q] = RowAs(rev[q], st)
  BY <1>1, <1>3, <1>4, <1>5 DEF row
<1> QED BY <1>1, <1>5, <1>6, <1>7, <1>8, <1>9, Restatus



\* Only the rows of revisions that are not in use differ.
LEMMA RowsGone ==
    ASSUME PInv, NEW r \in Rev, Exists(r), rev[r].status = "DRAFT", JobsFit',
           rev' = [rev EXCEPT ![r] = None], rows' = [rows EXCEPT ![r] = NoRows],
           tested' = tested \ {r}, UNCHANGED <<profile, split, hold, registry, conv, turn>>,
           {hands, deploys, migrations}' \subseteq Nat
    PROVE  PInv'
<1>1. /\ rev' \in [Rev -> RevRow \cup {None}] /\ rev'[r] = None
      /\ \A q \in Rev \ {r} : rev'[q] = rev[q]
  BY DEF PInv, TypeOK
<1>2. /\ rows' \in [Rev -> Rows]
      /\ \A q \in Rev \ {r} : rows'[q] = rows[q]
  BY NoTurnFields DEF PInv, TypeOK
<1>3. TypeOK'
  BY <1>1, <1>2 DEF PInv, TypeOK
<1>4. InUseKept /\ SameStarts
  BY <1>1, <1>2 DEF InUseKept, InUse, Exists, SameStarts
<1>5. ConversationsStarted' /\ (\A t \in Turn : TurnFits(t)') /\ OneStarts'
  BY <1>4, TurnsKeep
<1>6. Bounded' /\ LeftTesting' /\ GroupsFit'
  BY <1>1 DEF PInv, Bounded, LeftTesting, GroupsFit, InUse, Exists
<1>7. UniqueInStatus(rev') /\ UniqueVersion(rev')
  BY <1>1 DEF PInv, IndexesHold, UniqueInStatus, UniqueVersion
<1> QED BY <1>3, <1>5, <1>6, <1>7 DEF PInv, IndexesHold

\* Deleting a draft keeps the invariant: no turn was ever served by one.
LEMMA DeleteKeeps ==
    ASSUME PInv, NEW s \in Service, NEW r \in Rev, Delete(s, r)
    PROVE  PInv'
<1>1. /\ hold[s] = None /\ Exists(r) /\ rev[r].status = "DRAFT" /\ rev[r].profile = s
      /\ rev' = [rev EXCEPT ![r] = None] /\ rows' = [rows EXCEPT ![r] = NoRows]
      /\ tested' = tested \ {r}
      /\ UNCHANGED <<profile, split, hold, registry, conv, turn, hands, deploys, migrations>>
  BY DEF Delete, In, RevisionsOf
<1>2. \A q \in Rev \ {r} : rev'[q] = rev[q]
  BY <1>1 DEF PInv, TypeOK
<1>3. JobsFit'
  <2> SUFFICES ASSUME hands = 0, NEW x \in Service, hold[x] # None
               PROVE  /\ split
                      /\ Exists(hold[x].rev)' /\ rev'[hold[x].rev].profile = x
                      /\ hold[x].to = "TESTING" => rev'[hold[x].rev].status = "DRAFT"
                      /\ hold[x].previous # None =>
                            /\ Exists(hold[x].previous)'
                            /\ rev'[hold[x].previous].profile = x
                            /\ rev'[hold[x].previous].status = hold[x].to
    BY <1>1 DEF JobsFit
  <2>1. x # s
    BY <1>1
  <2>2. hold[x] \in Job /\ hold[x].rev \in Rev /\ hold[x].previous \in Rev \cup {None}
    BY DEF PInv, TypeOK, Job
  <2>3. \A q \in Rev : rev[q].profile = x => rev'[q] = rev[q]
    BY <1>1, <1>2, <2>1
  <2>4. /\ split
        /\ Exists(hold[x].rev) /\ rev[hold[x].rev].profile = x
        /\ hold[x].to = "TESTING" => rev[hold[x].rev].status = "DRAFT"
        /\ hold[x].previous # None =>
              /\ Exists(hold[x].previous)
              /\ rev[hold[x].previous].profile = x
              /\ rev[hold[x].previous].status = hold[x].to
    BY DEF PInv, JobsFit
  <2> QED BY <1>1, <2>2, <2>3, <2>4 DEF Exists
<1>4. {hands, deploys, migrations}' \subseteq Nat
  BY <1>1 DEF PInv, TypeOK
<1> QED BY <1>1, <1>3, <1>4, RowsGone

\* One more statement by hand: nothing is promised of the open transitions.
LEMMA HandsCount ==
    ASSUME PInv, ByHand
    PROVE  /\ JobsFit' /\ {hands, deploys, migrations}' \subseteq Nat
           /\ UNCHANGED <<profile, split, hold, registry, conv, turn>>
BY DEF PInv, TypeOK, ByHand, JobsFit

\* So does deleting a draft by hand.
LEMMA HandDeleteKeeps ==
    ASSUME PInv, NEW r \in Rev, HandDelete(r)
    PROVE  PInv'
<1>1. /\ Exists(r) /\ rev[r].status = "DRAFT" /\ ByHand
      /\ rev' = [rev EXCEPT ![r] = None] /\ rows' = [rows EXCEPT ![r] = NoRows]
      /\ tested' = tested \ {r}
  BY DEF HandDelete, RowsMayChange
<1> QED BY <1>1, HandsCount, RowsGone

\* A stage changed by hand is one of a draft.
LEMMA HandRowKeeps ==
    ASSUME PInv, NEW r \in Rev, NEW s \in Stage, NEW v \in Setting \cup {None}, HandRow(r, s, v)
    PROVE  PInv'
<1> DEFINE row == [rows[r] EXCEPT ![s] = v]
<1>1. /\ rev[r].status = "DRAFT" /\ UNCHANGED <<rev, tested>> /\ ByHand
      /\ rows' = [rows EXCEPT ![r] = row]
  BY DEF HandRow, RowsMayChange
<1>2. row \in Rows
  BY DEF PInv, TypeOK, Rows
<1> HIDE DEF row
<1>3. rows' \in [Rev -> Rows] /\ \A q \in Rev \ {r} : rows'[q] = rows[q]
  BY <1>1, <1>2 DEF PInv, TypeOK
<1>4. /\ JobsFit' /\ {hands, deploys, migrations}' \subseteq Nat
      /\ UNCHANGED <<profile, split, hold, registry, conv, turn>>
  BY <1>1, HandsCount
<1>5. TypeOK'
  BY <1>1, <1>3, <1>4 DEF PInv, TypeOK
<1>6. InUseKept /\ SameStarts
  BY <1>1, <1>3, <1>4 DEF InUseKept, InUse, Exists, SameStarts
<1>7. ConversationsStarted' /\ (\A t \in Turn : TurnFits(t)') /\ OneStarts'
  BY <1>4, <1>6, TurnsKeep
<1>8. (Bounded /\ LeftTesting /\ GroupsFit /\ IndexesHold)'
  BY <1>1, <1>4 DEF PInv, Bounded, LeftTesting, GroupsFit, IndexesHold, UniqueInStatus,
         UniqueVersion, InUse, Exists
<1> QED BY <1>4, <1>5, <1>7, <1>8 DEF PInv

\* The next free version of a service
LEMMA NextVersion ==
    ASSUME PInv, NEW s \in Service
    PROVE  LET next == Max({rev[q].version : q \in RevisionsOf(s)} \cup {0}) + 1
           IN next \in Nat \ {0} /\ \A q \in RevisionsOf(s) : rev[q].version < next
<1> DEFINE taken == {rev[q].version : q \in RevisionsOf(s)} \cup {0}
<1>1. \A q \in RevisionsOf(s) : q \in Rev /\ rev[q] \in RevRow
  BY ExistsRow DEF RevisionsOf, PInv
<1>2. \A q \in RevisionsOf(s) : rev[q].version \in Nat /\ rev[q].version \in taken
  BY <1>1 DEF RevRow
<1>3. PICK b \in Nat : \A q \in RevisionsOf(s) : rev[q].version <= b
  BY DEF PInv, Bounded, RevisionsOf
<1>4. taken \in SUBSET Nat /\ taken # {} /\ \A n \in taken : n <= b
  BY <1>2, <1>3
<1> HIDE DEF taken
<1>5. Max(taken) \in Nat /\ \A n \in taken : n <= Max(taken)
  BY <1>4, Maximum
<1>6. \A q \in RevisionsOf(s) : rev[q].version \in Nat /\ rev[q].version <= Max(taken)
  BY <1>2, <1>5
<1>7. Max(taken) + 1 \in Nat \ {0} /\ \A q \in RevisionsOf(s) : rev[q].version < Max(taken) + 1
  BY <1>5, <1>6
<1> QED BY <1>7 DEF taken

\* A new draft takes the next version of its profile.
LEMMA CreateKeeps ==
    ASSUME PInv, NEW s \in Service, NEW r \in Rev, NEW setting \in Setting,
           Create(s, r, setting)
    PROVE  PInv'
<1> DEFINE next == Max({rev[q].version : q \in RevisionsOf(s)} \cup {0}) + 1
           row == [profile |-> s, group |-> s, status |-> "DRAFT", version |-> next]
           config == Uniform(setting)
<1>1. next \in Nat \ {0} /\ \A q \in RevisionsOf(s) : rev[q].version < next
  BY NextVersion
<1>2. /\ split /\ s \in profile /\ ~Exists(r)
      /\ rev' = [rev EXCEPT ![r] = row] /\ rows' = [rows EXCEPT ![r] = config]
      /\ UNCHANGED <<profile, split, hold, registry, conv, turn, tested,
                     hands, deploys, migrations>>
  BY DEF Create
<1> HIDE DEF next
<1>3. /\ row \in RevRow /\ row # None
      /\ row.profile = s /\ row.group = s /\ row.status = "DRAFT" /\ row.version = next
  BY <1>1, NoneIsNoRow DEF RevRow, Status
<1>4. config \in Rows
  BY DEF Uniform, Rows
<1> HIDE DEF row, config
<1>5. /\ rev' \in [Rev -> RevRow \cup {None}] /\ rev'[r] = row
      /\ \A q \in Rev \ {r} : rev'[q] = rev[q]
  BY <1>2, <1>3 DEF PInv, TypeOK
<1>6. rows' \in [Rev -> Rows] /\ \A q \in Rev \ {r} : rows'[q] = rows[q]
  BY <1>2, <1>4 DEF PInv, TypeOK
<1>7. TypeOK'
  BY <1>2, <1>5, <1>6 DEF PInv, TypeOK
<1>8. InUseKept /\ SameStarts
  BY <1>2, <1>5, <1>6 DEF InUseKept, InUse, Exists, SameStarts
<1>9. ConversationsStarted' /\ (\A t \in Turn : TurnFits(t)') /\ OneStarts'
  BY <1>2, <1>8, TurnsKeep
<1>10. LeftTesting' /\ GroupsFit'
  BY <1>2, <1>3, <1>5 DEF PInv, LeftTesting, GroupsFit, InUse, Exists
<1>11. Bounded'
  <2>1. PICK b \in Nat : \A q \in Rev : Exists(q) => rev[q].version <= b
    BY DEF PInv, Bounded
  <2>2. \A q \in Rev : Exists(q) => rev[q].version \in Nat
    BY ExistsRow DEF PInv, RevRow
  <2>3. \A q \in Rev : Exists(q)' => rev'[q].version <= b + next
    BY <1>1, <1>3, <1>5, <2>1, <2>2 DEF Exists
  <2>4. b + next \in Nat
    BY <1>1
  <2> QED BY <2>3, <2>4 DEF Bounded
<1>12. UniqueInStatus(rev')
  BY <1>3, <1>5 DEF PInv, IndexesHold, UniqueInStatus
<1>13. UniqueVersion(rev')
  <2> SUFFICES ASSUME NEW p \in Rev, NEW q \in Rev, rev'[p] # None, rev'[q] # None,
                      rev'[p].profile = rev'[q].profile, rev'[p].version = rev'[q].version
               PROVE  p = q
    BY DEF UniqueVersion
  <2>1. CASE p # r /\ q # r
    BY <1>5, <2>1 DEF PInv, IndexesHold, UniqueVersion
  <2>2. ASSUME NEW x \in Rev, x # r, rev[x] # None, rev[x].profile = s, rev[x].version = next
        PROVE  FALSE
    BY <1>1, <2>2 DEF RevisionsOf, Exists
  <2> QED BY <1>3, <1>5, <2>1, <2>2
<1>14. JobsFit'
  <2> SUFFICES ASSUME hands = 0, NEW x \in Service, hold[x] # None
               PROVE  /\ split
                      /\ Exists(hold[x].rev)' /\ rev'[hold[x].rev].profile = x
                      /\ hold[x].to = "TESTING" => rev'[hold[x].rev].status = "DRAFT"
                      /\ hold[x].previous # None =>
                            /\ Exists(hold[x].previous)'
                            /\ rev'[hold[x].previous].profile = x
                            /\ rev'[hold[x].previous].status = hold[x].to
    BY <1>2 DEF JobsFit
  <2>1. hold[x] \in Job /\ hold[x].rev \in Rev /\ hold[x].previous \in Rev \cup {None}
    BY DEF PInv, TypeOK, Job
  <2>2. \A q \in Rev : Exists(q) => rev'[q] = rev[q]
    BY <1>2, <1>5
  <2>3. /\ split
        /\ Exists(hold[x].rev) /\ rev[hold[x].rev].profile = x
        /\ hold[x].to = "TESTING" => rev[hold[x].rev].status = "DRAFT"
        /\ hold[x].previous # None =>
              /\ Exists(hold[x].previous)
              /\ rev[hold[x].previous].profile = x
              /\ rev[hold[x].previous].status = hold[x].to
    BY DEF PInv, JobsFit
  <2> QED BY <1>2, <2>1, <2>2, <2>3 DEF Exists
<1> QED BY <1>7, <1>9, <1>10, <1>11, <1>12, <1>13, <1>14 DEF PInv, IndexesHold

-----------------------------------------------------------------------------
(* Turns *)

\* A turn resolves to what is published, with the settings it has.
LEMMA ResolveKeeps ==
    ASSUME PInv, NEW t \in Turn, NEW c \in Conv, NEW s \in Service, Resolve(t, c, s)
    PROVE  PInv'
<1>1. /\ split /\ turn[t].pc = "NONE"
      /\ conv[c] = None => \A q \in Turn : turn[q].conv # c
      /\ Continues(c, s) /\ \A r \in In(s, "PUBLISHED") : Servable(rows[r])
      /\ UNCHANGED <<profile, split, rev, rows, hold, registry, conv, tested,
                     hands, deploys, migrations>>
  BY DEF Resolve, Ready
<1>2. PICK r \in In(s, "PUBLISHED") :
         turn' = [turn EXCEPT ![t] =
                    [pc |-> "RESOLVED", rev |-> r, rows |-> rows[r], conv |-> c]]
  BY DEF Resolve
<1> DEFINE row == [pc |-> "RESOLVED", rev |-> r, rows |-> rows[r], conv |-> c]
<1>3. r \in Rev /\ InUse(r) /\ rev[r].profile = s /\ rows[r] \in Rows
  BY DEF In, RevisionsOf, InUse, PInv, TypeOK
<1>4. row \in TurnRow /\ row.pc = "RESOLVED" /\ row.rev = r /\ row.rows = rows[r] /\ row.conv = c
  BY <1>3 DEF TurnRow
<1> HIDE DEF row
<1>5. /\ turn' \in [Turn -> TurnRow] /\ turn'[t] = row
      /\ \A q \in Turn \ {t} : turn'[q] = turn[q]
  BY <1>2, <1>4 DEF PInv, TypeOK, TurnRow, row
<1>6. TypeOK'
  BY <1>1, <1>5 DEF PInv, TypeOK, TurnRow
<1>7. (Bounded /\ LeftTesting /\ GroupsFit /\ IndexesHold /\ ConversationsStarted /\ JobsFit)'
  BY <1>1 DEF PInv, Bounded, LeftTesting, GroupsFit, IndexesHold, UniqueInStatus,
         UniqueVersion, ConversationsStarted, JobsFit, InUse, Exists
<1>8. \A x \in Stage : rows[r][x] \notin {None, Unknown}
  <2>1. \A x \in Stage : rows[r][x] \in registry
    BY <1>1, <1>2 DEF Servable, Registered
  <2>2. registry \subseteq Setting
    BY DEF PInv, TypeOK
  <2> QED BY <2>1, <2>2, ProfileAssumption, SentinelAssumption
<1>9. conv[c] # None => rev[r].group = rev[conv[c].start].group
  <2> SUFFICES ASSUME conv[c] # None PROVE rev[r].group = rev[conv[c].start].group
    OBVIOUS
  <2>1. conv[c].start \in Rev /\ Exists(conv[c].start)
    BY StartTypes DEF PInv, ConversationsStarted, InUse
  <2>2. rev[conv[c].start].profile = s
    BY <1>1 DEF Continues
  <2> QED BY <1>1, <1>3, <2>1, <2>2 DEF PInv, GroupsFit, InUse
<1>10. ASSUME NEW q \in Turn PROVE TurnFits(q)'
  <2>1. CASE q = t
    BY <1>1, <1>3, <1>4, <1>5, <1>8, <1>9, <2>1 DEF TurnFits, InUse, Exists
  <2>2. CASE q # t
    BY <1>1, <1>5, <2>2 DEF PInv, TurnFits, InUse, Exists
  <2> QED BY <2>1, <2>2
<1>11. OneStarts'
  BY <1>1, <1>4, <1>5 DEF PInv, OneStarts
<1> QED BY <1>6, <1>7, <1>10, <1>11 DEF PInv

\* A turn that is recorded starts its conversation or continues it.
LEMMA RecordKeeps ==
    ASSUME PInv, NEW t \in Turn, Record(t)
    PROVE  PInv'
<1> DEFINE c == turn[t].conv
           r == turn[t].rev
           start == [profile |-> rev[r].profile, start |-> r]
           row == TurnRecorded(turn[t])
<1>1. /\ turn[t].pc = "RESOLVED" /\ Exists(r)
      /\ turn' = [turn EXCEPT ![t] = row]
      /\ conv' = [conv EXCEPT ![c] = IF conv[c] = None THEN start ELSE conv[c]]
      /\ UNCHANGED <<profile, split, rev, rows, hold, registry, tested,
                     hands, deploys, migrations>>
  BY DEF Record, TurnRecorded
<1>2. /\ c \in Conv /\ r \in Rev /\ InUse(r) /\ turn[t].rows = rows[r]
      /\ \A s \in Stage : turn[t].rows[s] \notin {None, Unknown}
      /\ conv[c] # None => rev[r].group = rev[conv[c].start].group
  BY <1>1 DEF PInv, TurnFits
<1>3. start \in Started /\ start.start = r /\ start # None
  <2>1. rev[r].profile \in Service
    BY <1>1, <1>2, ExistsRow DEF PInv, RevRow
  <2> QED BY <1>2, <2>1, NoneIsNoRow DEF Started
<1>4. row \in TurnRow /\ row.pc = "RECORDED" /\ row.rev = r /\ row.rows = turn[t].rows /\ row.conv = c
  BY TurnFields DEF PInv, TypeOK, TurnRow
<1> HIDE DEF row, start
<1>5. /\ turn' \in [Turn -> TurnRow] /\ turn'[t] = row
      /\ \A q \in Turn \ {t} : turn'[q] = turn[q]
  BY <1>1, <1>4 DEF PInv, TypeOK, TurnRow
<1>6. /\ conv' \in [Conv -> {None} \cup Started]
      /\ conv'[c] = IF conv[c] = None THEN start ELSE conv[c]
      /\ \A x \in Conv \ {c} : conv'[x] = conv[x]
  BY <1>1, <1>2, <1>3 DEF PInv, TypeOK
<1>7. conv'[c] # None /\ (conv[c] # None => conv'[c] = conv[c])
  BY <1>3, <1>6
<1> HIDE DEF c, r
<1>8. TypeOK'
  BY <1>1, <1>5, <1>6 DEF PInv, TypeOK, TurnRow
<1>9. (Bounded /\ LeftTesting /\ GroupsFit /\ IndexesHold /\ JobsFit)'
  BY <1>1 DEF PInv, Bounded, LeftTesting, GroupsFit, IndexesHold, UniqueInStatus,
         UniqueVersion, JobsFit, InUse, Exists
<1>10. ConversationsStarted'
  BY <1>1, <1>2, <1>3, <1>6 DEF PInv, ConversationsStarted, InUse, Exists
<1>11. ASSUME NEW q \in Turn PROVE TurnFits(q)'
  <2>1. CASE q = t
    <3>1. rev[r].group = rev[conv'[c].start].group
      BY <1>2, <1>3, <1>6
    <3> QED BY <1>1, <1>2, <1>4, <1>5, <1>7, <2>1, <3>1 DEF TurnFits, InUse, Exists
  <2>2. CASE q # t /\ turn[q].pc = "NONE"
    BY <1>5, <2>2 DEF PInv, TurnFits
  <2>3. CASE q # t /\ turn[q].pc # "NONE"
    <3>1. /\ turn[q].conv \in Conv /\ turn[q].rev \in Rev
          /\ InUse(turn[q].rev)
          /\ turn[q].rows = rows[turn[q].rev]
          /\ \A s \in Stage : turn[q].rows[s] \notin {None, Unknown}
          /\ turn[q].pc = "RECORDED" => conv[turn[q].conv] # None
          /\ conv[turn[q].conv] # None =>
               rev[turn[q].rev].group = rev[conv[turn[q].conv].start].group
      BY <2>3 DEF PInv, TurnFits
    <3>2. conv[turn[q].conv] = None => turn[q].conv # c
      BY <2>3, <3>1, ProfileAssumption DEF PInv, OneStarts, c
    <3>3. conv'[turn[q].conv] = conv[turn[q].conv]
      BY <1>6, <1>7, <3>1, <3>2
    <3> QED BY <1>1, <1>5, <2>3, <3>1, <3>3 DEF TurnFits, InUse, Exists
  <2> QED BY <2>1, <2>2, <2>3
<1>12. OneStarts'
  <2>1. \A q \in Turn : turn'[q].conv = turn[q].conv
    BY <1>4, <1>5 DEF c
  <2>2. \A q \in Turn : turn[q].conv # None => turn[q].conv \in Conv
    BY DEF PInv, TurnFits
  <2>3. \A x \in Conv : conv'[x] = None => conv[x] = None
    BY <1>6, <1>7
  <2> QED BY <2>1, <2>2, <2>3 DEF PInv, OneStarts
<1> QED BY <1>8, <1>9, <1>10, <1>11, <1>12 DEF PInv


-----------------------------------------------------------------------------
(* The migration *)

StartAs(x, s) == [x EXCEPT !.profile = s]

\* A conversation that is moved keeps the revision it started with.
LEMMA StartFields ==
    ASSUME NEW x \in Started, NEW s \in Service \cup {None}
    PROVE  StartAs(x, s) \in Started /\ StartAs(x, s).start = x.start /\ StartAs(x, s) # None
<1>1. StartAs(x, s) \in Started /\ StartAs(x, s).start = x.start
  BY DEF StartAs, Started
<1> QED BY <1>1, NoneIsNoRow

\* A run of the migration meets no open transition.
LEMMA MigrationCounts ==
    ASSUME PInv, Stopped, UNCHANGED <<hold, registry, turn, tested, hands, deploys, rows>>,
           migrations' = migrations + 1,
           profile' \in {{Public}, Service}, split' \in BOOLEAN,
           rev' \in [Rev -> RevRow \cup {None}], conv' \in [Conv -> {None} \cup Started]
    PROVE  TypeOK' /\ JobsFit'
<1>1. TypeOK'
  BY DEF PInv, TypeOK
<1>2. JobsFit'
  BY DEF Stopped, JobsFit
<1> QED BY <1>1, <1>2

\* A run of the migration keeps groups and leaves no revision in use a draft.
LEMMA MigrationKeeps ==
    ASSUME PInv, TypeOK', JobsFit', UNCHANGED <<rows, turn, tested>>,
           \A q \in Rev : /\ Exists(q)' <=> Exists(q)
                          /\ Exists(q) => /\ rev'[q].group = rev[q].group
                                          /\ rev'[q].status = "DRAFT" <=> rev[q].status = "DRAFT",
           \A c \in Conv : IF conv[c] = None THEN conv'[c] = None
                           ELSE \E s \in Service \cup {None} : conv'[c] = StartAs(conv[c], s),
           Bounded', GroupsFit', IndexesHold'
    PROVE  PInv'
<1>1. InUseKept
  BY DEF InUseKept, InUse
<1>2. SameStarts
  <2> SUFFICES ASSUME NEW c \in Conv, conv[c] # None
               PROVE  conv'[c] # None /\ conv'[c].start = conv[c].start
    BY DEF SameStarts
  <2>1. PICK s \in Service \cup {None} : conv'[c] = StartAs(conv[c], s)
    OBVIOUS
  <2>2. conv[c] \in Started
    BY StartTypes DEF PInv
  <2> QED BY <2>1, <2>2, StartFields
<1>3. ConversationsStarted' /\ (\A t \in Turn : TurnFits(t)') /\ OneStarts'
  BY <1>1, <1>2, TurnsKeep
<1>4. LeftTesting'
  BY DEF PInv, LeftTesting, InUse
<1> QED BY <1>3, <1>4 DEF PInv

\* The upgrade of the migration keeps the invariant.
LEMMA UpgradeKeeps ==
    ASSUME PInv, Upgrade
    PROVE  PInv'
<1> DEFINE moved == {r \in Rev : Exists(r) /\ rev[r].group = Test}
           table == [r \in Rev |-> IF r \in moved THEN MovedUp(rev[r]) ELSE rev[r]]
<1>1. /\ ~split /\ Stopped /\ \A r \in moved : rev[r].status # "PUBLISHED"
      /\ split' = TRUE
      /\ profile' = {Public} \cup (IF moved = {} THEN {} ELSE {Test})
      /\ rev' = table
      /\ conv' = [c \in Conv |-> IF conv[c] = None THEN None
                     ELSE StartAs(conv[c], table[conv[c].start].profile)]
      /\ migrations' = migrations + 1
      /\ UNCHANGED <<rows, hold, registry, turn, tested, hands, deploys>>
  BY DEF Upgrade, StartAs
<1>2. ASSUME NEW q \in Rev, Exists(q)
      PROVE  /\ rev[q] \in RevRow /\ rev[q].profile = Public /\ rev[q].group \in Service
             /\ MovedUp(rev[q]) \in RevRow
             /\ MovedUp(rev[q]).status = IF rev[q].status = "TESTING" THEN "PUBLISHED" ELSE rev[q].status
             /\ MovedUp(rev[q]).profile = Test
             /\ MovedUp(rev[q]).group = rev[q].group
             /\ MovedUp(rev[q]).version = rev[q].version
  <2>1. rev[q] \in RevRow
    BY <1>2, ExistsRow DEF PInv
  <2>2. rev[q].profile = Public
    BY <1>1, <1>2 DEF PInv, GroupsFit
  <2>3. rev[q].group \in Service
    BY <2>1 DEF RevRow
  <2> QED BY <2>1, <2>2, <2>3, RowFields
<1>3. ASSUME NEW q \in Rev
      PROVE  /\ rev'[q] \in RevRow \cup {None}
             /\ Exists(q)' <=> Exists(q)
             /\ Exists(q) => /\ rev'[q].group = rev[q].group
                             /\ rev'[q].version = rev[q].version
                             /\ rev'[q].profile = rev[q].group
                             /\ rev'[q].status = IF q \in moved /\ rev[q].status = "TESTING"
                                                 THEN "PUBLISHED" ELSE rev[q].status
  <2>1. CASE q \in moved
    <3>1. rev'[q] = MovedUp(rev[q]) /\ Exists(q) /\ rev[q].group = Test
      BY <1>1, <2>1
    <3> QED BY <1>2, <2>1, <3>1, NoneIsNoRow DEF Exists
  <2>2. CASE q \notin moved
    <3>1. rev'[q] = rev[q]
      BY <1>1, <2>2
    <3>2. Exists(q) => rev[q].group # Test
      BY <2>2
    <3> QED BY <1>2, <2>2, <3>1, <3>2, NoneIsNoRow DEF Exists, Service, Public, Test
  <2> QED BY <2>1, <2>2
<1>4. \A c \in Conv : IF conv[c] = None THEN conv'[c] = None
                      ELSE \E s \in Service \cup {None} : conv'[c] = StartAs(conv[c], s)
  <2> SUFFICES ASSUME NEW c \in Conv, conv[c] # None
               PROVE  \E s \in Service \cup {None} : conv'[c] = StartAs(conv[c], s)
    BY <1>1
  <2>1. conv[c].start \in Rev /\ Exists(conv[c].start)
    BY StartTypes DEF PInv, ConversationsStarted, InUse
  <2>2. rev'[conv[c].start].profile \in Service
    BY <1>2, <1>3, <2>1
  <2> QED BY <1>1, <2>2
<1>5. conv' \in [Conv -> {None} \cup Started]
  <2>1. \A c \in Conv : conv'[c] \in {None} \cup Started
    BY <1>4, StartTypes, StartFields DEF PInv
  <2> QED BY <1>1, <2>1
<1>6. rev' \in [Rev -> RevRow \cup {None}]
  <2>1. rev' = [q \in Rev |-> rev'[q]]
    BY <1>1
  <2> QED BY <1>3, <2>1
<1>7. profile' \in {{Public}, Service}
  BY <1>1 DEF Service, Public, Test
<1>8. TypeOK' /\ JobsFit'
  BY <1>1, <1>5, <1>6, <1>7, MigrationCounts
<1>9. Bounded'
  <2>1. PICK b \in Nat : \A q \in Rev : Exists(q) => rev[q].version <= b
    BY DEF PInv, Bounded
  <2>2. \A q \in Rev : Exists(q)' => rev'[q].version <= b
    BY <1>3, <2>1
  <2> QED BY <2>2 DEF Bounded
<1>10. GroupsFit'
  <2>1. ASSUME NEW q \in Rev, Exists(q)' PROVE rev'[q].profile \in profile' /\ rev'[q].group = rev'[q].profile
    <3>1. Exists(q) /\ rev'[q].profile = rev[q].group /\ rev'[q].group = rev[q].group
      BY <1>3, <2>1
    <3>2. rev[q].group \in Service /\ (rev[q].group = Test => q \in moved)
      BY <1>2, <3>1
    <3> QED BY <1>1, <3>1, <3>2 DEF Service, Public, Test
  <2> QED BY <1>1, <2>1 DEF GroupsFit
<1>11. UniqueVersion(rev')
  <2> SUFFICES ASSUME NEW p \in Rev, NEW q \in Rev, Exists(p)', Exists(q)',
                      rev'[p].profile = rev'[q].profile, rev'[p].version = rev'[q].version
               PROVE  p = q
    BY DEF UniqueVersion, Exists
  <2>1. /\ Exists(p) /\ Exists(q) /\ rev[p].version = rev[q].version
        /\ rev[p].profile = rev[q].profile
    BY <1>2, <1>3
  <2> QED BY <2>1 DEF PInv, IndexesHold, UniqueVersion, Exists
<1>12. UniqueInStatus(rev')
  <2> SUFFICES ASSUME NEW p \in Rev, NEW q \in Rev, Exists(p)', Exists(q)',
                      rev'[p].profile = rev'[q].profile, rev'[p].status = rev'[q].status,
                      rev'[p].status \in {"TESTING", "PUBLISHED"}
               PROVE  p = q
    BY DEF UniqueInStatus, Exists
  <2>1. /\ Exists(p) /\ Exists(q) /\ rev[p].profile = rev[q].profile
        /\ rev[p].group = rev[q].group
    BY <1>2, <1>3
  <2>2. p \in moved <=> q \in moved
    BY <2>1
  <2>3. /\ p \in moved => rev[p].status # "PUBLISHED"
        /\ q \in moved => rev[q].status # "PUBLISHED"
    BY <1>1
  <2>4. /\ rev'[p].status = IF p \in moved /\ rev[p].status = "TESTING"
                            THEN "PUBLISHED" ELSE rev[p].status
        /\ rev'[q].status = IF q \in moved /\ rev[q].status = "TESTING"
                            THEN "PUBLISHED" ELSE rev[q].status
    BY <1>3, <2>1
  <2> HIDE DEF moved
  <2>5. rev[p].status = rev[q].status /\ rev[p].status \in {"TESTING", "PUBLISHED"}
    BY <2>2, <2>3, <2>4
  <2> QED BY <2>1, <2>5 DEF PInv, IndexesHold, UniqueInStatus, Exists
<1>13. \A q \in Rev : Exists(q) => (rev'[q].status = "DRAFT" <=> rev[q].status = "DRAFT")
  BY <1>3
<1> HIDE DEF moved, table
<1> QED BY <1>1, <1>3, <1>4, <1>8, <1>9, <1>10, <1>11, <1>12, <1>13, MigrationKeeps DEF IndexesHold


\* The versions below go back to the public profile without a collision.
LEMMA Renumbering ==
    ASSUME PInv
    PROVE  /\ \E b \in Nat : \A r \in RevisionsOf(Test) :
                 RestoredVersion(r) \in Nat \ {0} /\ RestoredVersion(r) <= b
           /\ \A r \in RevisionsOf(Test), q \in RevisionsOf(Public) :
                 RestoredVersion(r) # rev[q].version
           /\ \A r, q \in RevisionsOf(Test) : RestoredVersion(r) = RestoredVersion(q) => r = q
<1> DEFINE taken == {rev[q].version : q \in RevisionsOf(Public)}
           all == taken \cup {rev[q].version : q \in RevisionsOf(Test)}
           renumbered(r) == {q \in RevisionsOf(Test) :
                               rev[q].version \in taken /\ rev[q].version <= rev[r].version}
<1>1. \A r \in RevisionsOf(Test) :
         RestoredVersion(r) = IF rev[r].version \in taken
                              THEN Max(all) + Cardinality(renumbered(r)) ELSE rev[r].version
  BY DEF RestoredVersion
<1>2. ASSUME NEW s \in Service, NEW q \in RevisionsOf(s)
      PROVE  q \in Rev /\ Exists(q) /\ rev[q].profile = s /\ rev[q].version \in Nat \ {0}
  <2>1. q \in Rev /\ Exists(q) /\ rev[q].profile = s
    BY DEF RevisionsOf
  <2>2. rev[q] \in RevRow
    BY <2>1, ExistsRow DEF PInv
  <2> QED BY <2>1, <2>2 DEF RevRow
<1>3. Test \in Service /\ Public \in Service
  BY DEF Test, Public, Service
<1>4. PICK b \in Nat : \A q \in Rev : Exists(q) => rev[q].version <= b
  BY DEF PInv, Bounded
<1>5. all \in SUBSET Nat /\ \A n \in all : n <= b
  BY <1>2, <1>3, <1>4
<1>6. all # {} => Max(all) \in Nat /\ Max(all) \in all /\ \A n \in all : n <= Max(all)
  <2> HIDE DEF all
  <2> QED BY <1>5, Maximum
<1>7. \A r \in RevisionsOf(Test) : rev[r].version \in all
  OBVIOUS
<1>8. taken \subseteq all /\ \A q \in RevisionsOf(Public) : rev[q].version \in taken
  OBVIOUS
<1>9. ASSUME NEW r \in RevisionsOf(Test)
      PROVE  /\ IsFiniteSet(renumbered(r)) /\ Cardinality(renumbered(r)) \in Nat
             /\ Cardinality(renumbered(r)) <= Cardinality(Rev)
             /\ rev[r].version \in taken => Cardinality(renumbered(r)) # 0
  <2>1. renumbered(r) \in SUBSET Rev
    BY <1>2, <1>3
  <2>2. rev[r].version \in taken => r \in renumbered(r)
    BY <1>2, <1>3
  <2> HIDE DEF renumbered
  <2> QED BY <2>1, <2>2, ProfileAssumption, FS_Subset, FS_CardinalityType, FS_EmptySet
<1>10. ASSUME NEW r \in RevisionsOf(Test), NEW q \in RevisionsOf(Test),
              rev[r].version \in taken, rev[q].version \in taken, rev[r].version < rev[q].version
       PROVE  Cardinality(renumbered(r)) # Cardinality(renumbered(q))
  <2>1. \A x \in RevisionsOf(Test) : rev[x].version \in Nat
    BY <1>2, <1>3
  <2>2. renumbered(r) \in SUBSET renumbered(q)
    BY <1>10, <2>1
  <2>3. q \in renumbered(q) /\ q \notin renumbered(r)
    BY <1>10, <2>1
  <2>4. IsFiniteSet(renumbered(q))
    BY <1>9
  <2> HIDE DEF renumbered
  <2> QED BY <2>2, <2>3, <2>4, FS_Subset
<1>11. ASSUME NEW r \in RevisionsOf(Test), NEW q \in RevisionsOf(Test), rev[r].version = rev[q].version
       PROVE  r = q
  BY <1>2, <1>3, <1>11 DEF PInv, IndexesHold, UniqueVersion, Exists
<1>12. Cardinality(Rev) \in Nat
  BY ProfileAssumption, FS_CardinalityType
<1> DEFINE card(r) == Cardinality(renumbered(r))
           top == Max(all)
<1>13. ASSUME NEW r \in RevisionsOf(Test)
       PROVE  /\ rev[r].version \in Nat \ {0} /\ rev[r].version <= top /\ top \in Nat /\ top <= b
              /\ card(r) \in Nat /\ card(r) <= Cardinality(Rev)
              /\ rev[r].version \in taken => card(r) # 0
              /\ RestoredVersion(r) = IF rev[r].version \in taken
                                      THEN top + card(r) ELSE rev[r].version
  <2>1. rev[r].version \in all
    BY <1>7
  <2>2. top \in Nat /\ rev[r].version <= top /\ top <= b
    BY <1>5, <1>6, <2>1
  <2> QED BY <1>1, <1>2, <1>3, <1>9, <2>2
<1>14. ASSUME NEW r \in RevisionsOf(Test), NEW q \in RevisionsOf(Test),
              rev[r].version \in taken, rev[q].version \in taken, card(r) = card(q)
       PROVE  r = q
  <2>1. rev[r].version \in Nat /\ rev[q].version \in Nat
    BY <1>13
  <2>2. ~(rev[r].version < rev[q].version) /\ ~(rev[q].version < rev[r].version)
    BY <1>10, <1>14
  <2>3. rev[r].version = rev[q].version
    BY <2>1, <2>2
  <2> QED BY <1>11, <2>3
<1> HIDE DEF card, top
<1>15. ASSUME NEW r \in RevisionsOf(Test)
       PROVE  RestoredVersion(r) \in Nat \ {0} /\ RestoredVersion(r) <= b + Cardinality(Rev)
  BY <1>12, <1>13
<1>16. ASSUME NEW r \in RevisionsOf(Test), NEW q \in RevisionsOf(Public)
       PROVE  RestoredVersion(r) # rev[q].version
  <2>1. rev[q].version \in taken /\ rev[q].version \in all
    BY <1>8
  <2>2. rev[q].version <= top /\ rev[q].version \in Nat
    BY <1>5, <1>6, <2>1 DEF top
  <2> HIDE DEF taken, all
  <2> QED BY <1>13, <2>1, <2>2
<1>17. ASSUME NEW r \in RevisionsOf(Test), NEW q \in RevisionsOf(Test),
              RestoredVersion(r) = RestoredVersion(q)
       PROVE  r = q
  <2> HIDE DEF taken, all
  <2>1. CASE rev[r].version \in taken /\ rev[q].version \in taken
    <3>1. card(r) = card(q)
      BY <1>13, <1>17, <2>1
    <3> QED BY <1>14, <2>1, <3>1
  <2>2. CASE rev[r].version \notin taken /\ rev[q].version \notin taken
    BY <1>11, <1>13, <1>17, <2>2
  <2>3. CASE rev[r].version \in taken /\ rev[q].version \notin taken
    BY <1>13, <1>17, <2>3
  <2>4. CASE rev[r].version \notin taken /\ rev[q].version \in taken
    BY <1>13, <1>17, <2>4
  <2> QED BY <2>1, <2>2, <2>3, <2>4
<1>18. b + Cardinality(Rev) \in Nat
  BY <1>12
<1> QED BY <1>15, <1>16, <1>17, <1>18

\* The row that the downgrade leaves of a revision of the test profile.
LEMMA MovedDownFields ==
    ASSUME NEW r, rev[r] \in RevRow, RestoredVersion(r) \in Nat \ {0}
    PROVE  /\ MovedDown(r) \in RevRow
           /\ MovedDown(r).profile = Public
           /\ MovedDown(r).group = rev[r].group
           /\ MovedDown(r).version = RestoredVersion(r)
           /\ MovedDown(r).status = IF rev[r].status = "PUBLISHED" THEN "TESTING" ELSE rev[r].status
BY DEF RevRow, MovedDown, Status, Service, Public

\* The downgrade of the migration keeps the invariant: it restores the version a
\* revision had, or one that is free.
LEMMA DowngradeKeeps ==
    ASSUME PInv, Downgrade
    PROVE  PInv'
<1> DEFINE moved == RevisionsOf(Test)
<1>1. /\ split /\ Stopped
      /\ Test \in profile => /\ In(Test, "TESTING") = {}
                             /\ In(Test, "PUBLISHED") # {} => In(Public, "TESTING") = {}
      /\ split' = FALSE /\ profile' = {Public}
      /\ rev' = [r \in Rev |-> IF r \in moved THEN MovedDown(r) ELSE rev[r]]
      /\ conv' = [c \in Conv |-> IF conv[c] = None THEN None ELSE StartAs(conv[c], None)]
      /\ migrations' = migrations + 1
      /\ UNCHANGED <<rows, hold, registry, turn, tested, hands, deploys>>
  BY DEF Downgrade, StartAs
<1>2. PICK b \in Nat : \A r \in moved : RestoredVersion(r) \in Nat \ {0} /\ RestoredVersion(r) <= b
  BY Renumbering
<1>3. ASSUME NEW q \in Rev
      PROVE  /\ rev'[q] \in RevRow \cup {None}
             /\ Exists(q)' <=> Exists(q)
             /\ Exists(q) => /\ rev'[q].group = rev[q].group
                             /\ rev'[q].profile = Public
                             /\ q \notin moved => rev'[q] = rev[q] /\ q \in RevisionsOf(Public)
                             /\ q \in moved =>
                                  /\ rev'[q].version = RestoredVersion(q)
                                  /\ rev'[q].status = IF rev[q].status = "PUBLISHED"
                                                      THEN "TESTING" ELSE rev[q].status
  <2>1. CASE q \in moved
    <3>1. rev'[q] = MovedDown(q) /\ Exists(q)
      BY <1>1, <2>1 DEF RevisionsOf
    <3>2. rev[q] \in RevRow
      BY <3>1, ExistsRow DEF PInv
    <3>3. RestoredVersion(q) \in Nat \ {0}
      BY <1>2, <2>1
    <3>4. /\ MovedDown(q) \in RevRow
          /\ MovedDown(q).profile = Public
          /\ MovedDown(q).group = rev[q].group
          /\ MovedDown(q).version = RestoredVersion(q)
          /\ MovedDown(q).status = IF rev[q].status = "PUBLISHED" THEN "TESTING" ELSE rev[q].status
      BY <3>2, <3>3, MovedDownFields
    <3> HIDE DEF moved
    <3> QED BY <2>1, <3>1, <3>4, NoneIsNoRow DEF Exists
  <2>2. CASE q \notin moved
    <3>1. rev'[q] = rev[q] /\ rev[q] \in RevRow \cup {None}
      BY <1>1, <2>2 DEF PInv, TypeOK
    <3>2. Exists(q) => rev[q].profile \in Service /\ rev[q].profile # Test
      BY <2>2, <3>1 DEF RevisionsOf, Exists, RevRow
    <3>3. Exists(q) => rev[q].profile = Public
      BY <3>2 DEF Service, Public, Test
    <3> QED BY <2>2, <3>1, <3>3 DEF RevisionsOf, Exists
  <2> QED BY <2>1, <2>2
<1>4. \A c \in Conv : IF conv[c] = None THEN conv'[c] = None
                      ELSE \E s \in Service \cup {None} : conv'[c] = StartAs(conv[c], s)
  BY <1>1
<1>5. conv' \in [Conv -> {None} \cup Started]
  <2>1. \A c \in Conv : conv'[c] \in {None} \cup Started
    BY <1>4, StartTypes, StartFields DEF PInv
  <2> QED BY <1>1, <2>1
<1>6. rev' \in [Rev -> RevRow \cup {None}]
  <2>1. rev' = [q \in Rev |-> rev'[q]]
    BY <1>1
  <2> QED BY <1>3, <2>1
<1>7. TypeOK' /\ JobsFit'
  BY <1>1, <1>5, <1>6, MigrationCounts
<1>8. Bounded'
  <2>1. PICK a \in Nat : \A q \in Rev : Exists(q) => rev[q].version <= a
    BY DEF PInv, Bounded
  <2>2. ASSUME NEW q \in Rev, Exists(q)' PROVE rev'[q].version <= a + b
    <3>1. Exists(q) /\ rev[q] \in RevRow
      BY <1>3, <2>2, ExistsRow DEF PInv
    <3>2. rev[q].version \in Nat /\ rev[q].version <= a
      BY <2>1, <3>1 DEF RevRow
    <3>3. CASE q \in moved
      <4>1. rev'[q].version = RestoredVersion(q) /\ RestoredVersion(q) \in Nat /\ RestoredVersion(q) <= b
        BY <1>2, <1>3, <3>1, <3>3
      <4> QED BY <4>1
    <3>4. CASE q \notin moved
      <4>1. rev'[q] = rev[q]
        BY <1>3, <3>1, <3>4
      <4> QED BY <3>2, <4>1
    <3> QED BY <3>3, <3>4
  <2>3. a + b \in Nat
    OBVIOUS
  <2> QED BY <2>2, <2>3 DEF Bounded
<1>9. GroupsFit'
  BY <1>1, <1>3 DEF GroupsFit
<1>10. UniqueVersion(rev')
  <2> SUFFICES ASSUME NEW p \in Rev, NEW q \in Rev, Exists(p)', Exists(q)',
                      rev'[p].version = rev'[q].version
               PROVE  p = q
    BY DEF UniqueVersion, Exists
  <2>1. Exists(p) /\ Exists(q)
    BY <1>3
  <2>2. /\ \A r \in moved, x \in RevisionsOf(Public) : RestoredVersion(r) # rev[x].version
        /\ \A r, x \in moved : RestoredVersion(r) = RestoredVersion(x) => r = x
    BY Renumbering
  <2>3. CASE p \in moved /\ q \in moved
    BY <1>3, <2>1, <2>2, <2>3
  <2>4. CASE p \in moved /\ q \notin moved
    BY <1>3, <2>1, <2>2, <2>4
  <2>5. CASE p \notin moved /\ q \in moved
    BY <1>3, <2>1, <2>2, <2>5
  <2>6. CASE p \notin moved /\ q \notin moved
    BY <1>3, <2>1, <2>6 DEF PInv, IndexesHold, UniqueVersion, RevisionsOf, Exists
  <2> QED BY <2>3, <2>4, <2>5, <2>6
<1>11. UniqueInStatus(rev')
  <2>1. ASSUME NEW p \in moved, rev'[p].status \in {"TESTING", "PUBLISHED"}
        PROVE  /\ p \in Rev /\ Exists(p) /\ rev[p].profile = Test
               /\ rev[p].status = "PUBLISHED" /\ rev'[p].status = "TESTING"
               /\ In(Public, "TESTING") = {}
    <3>1. p \in Rev /\ Exists(p) /\ rev[p].profile = Test
      BY DEF RevisionsOf
    <3>2. Test \in profile
      BY <3>1 DEF PInv, GroupsFit
    <3>3. rev[p].status # "TESTING"
      BY <1>1, <3>2 DEF In
    <3>4. rev'[p].status = IF rev[p].status = "PUBLISHED" THEN "TESTING" ELSE rev[p].status
      BY <1>3, <3>1
    <3>5. rev[p].status = "PUBLISHED"
      BY <2>1, <3>3, <3>4
    <3>6. p \in In(Test, "PUBLISHED")
      BY <3>5 DEF In
    <3> QED BY <1>1, <3>1, <3>2, <3>4, <3>5, <3>6
  <2> SUFFICES ASSUME NEW p \in Rev, NEW q \in Rev, Exists(p)', Exists(q)',
                      rev'[p].status = rev'[q].status,
                      rev'[p].status \in {"TESTING", "PUBLISHED"}
               PROVE  p = q
    BY DEF UniqueInStatus, Exists
  <2>2. Exists(p) /\ Exists(q)
    BY <1>3
  <2>3. CASE p \in moved /\ q \in moved
    <3>1. /\ rev[p].profile = Test /\ rev[q].profile = Test
          /\ rev[p].status = "PUBLISHED" /\ rev[q].status = "PUBLISHED"
      BY <2>1, <2>3
    <3> QED BY <2>2, <3>1 DEF PInv, IndexesHold, UniqueInStatus, Exists
  <2>4. ASSUME NEW x \in moved, NEW y \in Rev, Exists(y), y \notin moved,
               rev'[x].status = rev'[y].status, rev'[x].status \in {"TESTING", "PUBLISHED"}
        PROVE  FALSE
    <3>1. rev'[x].status = "TESTING" /\ In(Public, "TESTING") = {}
      BY <2>1, <2>4
    <3>2. rev'[y] = rev[y] /\ y \in RevisionsOf(Public)
      BY <1>3, <2>4
    <3> QED BY <2>4, <3>1, <3>2 DEF In
  <2>5. CASE p \notin moved /\ q \notin moved
    BY <1>3, <2>2, <2>5 DEF PInv, IndexesHold, UniqueInStatus, RevisionsOf, Exists
  <2> QED BY <2>2, <2>3, <2>4, <2>5
<1>12. \A q \in Rev : /\ Exists(q)' <=> Exists(q)
                      /\ Exists(q) => /\ rev'[q].group = rev[q].group
                                      /\ rev'[q].status = "DRAFT" <=> rev[q].status = "DRAFT"
  BY <1>3
<1> HIDE DEF moved
<1> QED BY <1>1, <1>4, <1>7, <1>8, <1>9, <1>10, <1>11, <1>12, MigrationKeeps DEF IndexesHold

-----------------------------------------------------------------------------
(* The initial states *)

\* The invariant holds of what the earlier migrations leave.
LEMMA InitPInv == Init => PInv
<1> SUFFICES ASSUME Init PROVE PInv
  OBVIOUS
<1>1. /\ profile = {Public} /\ split = FALSE
      /\ hold = [s \in Service |-> None] /\ registry = {Current}
      /\ turn = [t \in Turn |-> NoTurn]
      /\ hands = 0 /\ deploys = 0 /\ migrations = 0
      /\ UniqueInStatus(rev)
  BY DEF Init
<1>2. PICK number \in {f \in [Rev -> 1 .. Cardinality(Rev)] :
                        \A r, q \in Rev : f[r] = f[q] => r = q} :
           \E old \in SUBSET Rev :
           \E status \in [old -> Status], group \in [old -> Service], setting \in [old -> Setting] :
           /\ rev = [r \in Rev |-> IF r \notin old THEN None
                       ELSE [profile |-> Public, group |-> group[r],
                             version |-> number[r], status |-> status[r]]]
           /\ UniqueInStatus(rev)
           /\ \A r \in old : number[r] <= Cardinality(old)
                          /\ (status[r] = "PUBLISHED" => group[r] = Public)
                          /\ (status[r] = "TESTING" => group[r] = Test)
           /\ \E r \in old : status[r] = "PUBLISHED"
           /\ rows = [r \in Rev |-> IF r \in old THEN Backfilled(status[r], setting[r])
                                                 ELSE NoRows]
           /\ \E started \in [Conv -> {None} \cup {r \in old : status[r] # "DRAFT"}] :
                 conv = [c \in Conv |-> IF started[c] = None THEN None
                                        ELSE [profile |-> None, start |-> started[c]]]
           /\ tested = {r \in old : status[r] # "DRAFT"}
  BY DEF Init
<1>3. PICK old \in SUBSET Rev :
           \E status \in [old -> Status], group \in [old -> Service], setting \in [old -> Setting] :
           /\ rev = [r \in Rev |-> IF r \notin old THEN None
                       ELSE [profile |-> Public, group |-> group[r],
                             version |-> number[r], status |-> status[r]]]
           /\ UniqueInStatus(rev)
           /\ \A r \in old : number[r] <= Cardinality(old)
                          /\ (status[r] = "PUBLISHED" => group[r] = Public)
                          /\ (status[r] = "TESTING" => group[r] = Test)
           /\ \E r \in old : status[r] = "PUBLISHED"
           /\ rows = [r \in Rev |-> IF r \in old THEN Backfilled(status[r], setting[r])
                                                 ELSE NoRows]
           /\ \E started \in [Conv -> {None} \cup {r \in old : status[r] # "DRAFT"}] :
                 conv = [c \in Conv |-> IF started[c] = None THEN None
                                        ELSE [profile |-> None, start |-> started[c]]]
           /\ tested = {r \in old : status[r] # "DRAFT"}
  BY <1>2
<1>4. PICK status \in [old -> Status], group \in [old -> Service], setting \in [old -> Setting] :
           /\ rev = [r \in Rev |-> IF r \notin old THEN None
                       ELSE [profile |-> Public, group |-> group[r],
                             version |-> number[r], status |-> status[r]]]
           /\ UniqueInStatus(rev)
           /\ \A r \in old : number[r] <= Cardinality(old)
                          /\ (status[r] = "PUBLISHED" => group[r] = Public)
                          /\ (status[r] = "TESTING" => group[r] = Test)
           /\ \E r \in old : status[r] = "PUBLISHED"
           /\ rows = [r \in Rev |-> IF r \in old THEN Backfilled(status[r], setting[r])
                                                 ELSE NoRows]
           /\ \E started \in [Conv -> {None} \cup {r \in old : status[r] # "DRAFT"}] :
                 conv = [c \in Conv |-> IF started[c] = None THEN None
                                        ELSE [profile |-> None, start |-> started[c]]]
           /\ tested = {r \in old : status[r] # "DRAFT"}
  BY <1>3
<1>5. PICK started \in [Conv -> {None} \cup {r \in old : status[r] # "DRAFT"}] :
           /\ conv = [c \in Conv |-> IF started[c] = None THEN None
                                    ELSE [profile |-> None, start |-> started[c]]]
           /\ rev = [r \in Rev |-> IF r \notin old THEN None
                       ELSE [profile |-> Public, group |-> group[r],
                             version |-> number[r], status |-> status[r]]]
           /\ rows = [r \in Rev |-> IF r \in old THEN Backfilled(status[r], setting[r])
                                                 ELSE NoRows]
           /\ tested = {r \in old : status[r] # "DRAFT"}
  BY <1>4
<1> DEFINE row(r) == [profile |-> Public, group |-> group[r],
                      version |-> number[r], status |-> status[r]]
           start(c) == [profile |-> None, start |-> started[c]]
<1>6. ASSUME NEW r \in old
      PROVE  /\ row(r) \in RevRow /\ row(r).profile = Public /\ row(r).status = status[r]
             /\ row(r).version = number[r] /\ number[r] \in Nat
             /\ number[r] <= Cardinality(Rev)
  <2>1. Cardinality(Rev) \in Nat
    BY ProfileAssumption, FS_CardinalityType
  <2>2. number[r] \in 1 .. Cardinality(Rev)
    OBVIOUS
  <2>3. number[r] \in Nat \ {0} /\ number[r] <= Cardinality(Rev)
    BY <2>1, <2>2
  <2> QED BY <2>3 DEF RevRow, Service, Public
<1>7. \A r \in Rev : rev[r] = IF r \notin old THEN None ELSE row(r)
  BY <1>5
<1>8. \A c \in Conv : conv[c] # None => conv[c] = start(c) /\ started[c] # None
  BY <1>5
<1>9. ASSUME NEW c \in Conv, started[c] # None
      PROVE  /\ start(c) \in Started /\ start(c).start = started[c]
             /\ started[c] \in old /\ status[started[c]] # "DRAFT"
  BY <1>9 DEF Started
<1>10. conv \in [Conv -> {None} \cup Started]
  BY <1>5, <1>9
<1> HIDE DEF row, start
<1>11. \A r \in Rev : Exists(r) <=> r \in old
  BY <1>6, <1>7, NoneIsNoRow DEF Exists
<1>12. rev \in [Rev -> RevRow \cup {None}]
  BY <1>5, <1>6, <1>7
<1>13. ASSUME NEW r \in old PROVE Backfilled(status[r], setting[r]) \in Rows
  BY ProfileAssumption DEF Backfilled, Rows, Stage
<1>14. rows \in [Rev -> Rows]
  BY <1>5, <1>13, NoTurnFields
<1>15. TypeOK
  <2>1. turn \in [Turn -> TurnRow]
    BY <1>1, NoTurnFields
  <2>2. tested \subseteq Rev /\ registry \in SUBSET Setting
    BY <1>1, <1>5, ProfileAssumption
  <2>3. hold \in [Service -> {None} \cup Job]
    BY <1>1
  <2>4. profile \in {{Public}, Service}
    BY <1>1, Zenon
  <2>5. split \in BOOLEAN
    BY <1>1
  <2>6. {hands, deploys, migrations} \subseteq Nat
    BY <1>1
  <2> QED BY <1>10, <1>12, <1>14, <2>1, <2>2, <2>3, <2>4, <2>5, <2>6 DEF TypeOK, TurnRow
<1>16. Bounded
  <2>1. Cardinality(Rev) \in Nat
    BY ProfileAssumption, FS_CardinalityType
  <2> QED BY <1>6, <1>7, <1>11, <2>1 DEF Bounded
<1>17. LeftTesting /\ GroupsFit
  BY <1>1, <1>5, <1>6, <1>7, <1>11 DEF LeftTesting, GroupsFit, InUse
<1>18. ConversationsStarted
  BY <1>6, <1>7, <1>8, <1>9, <1>11 DEF ConversationsStarted, InUse
<1>19. (\A t \in Turn : TurnFits(t)) /\ OneStarts
  BY <1>1, NoTurnFields DEF TurnFits, OneStarts
<1>20. JobsFit
  BY <1>1 DEF JobsFit
<1>21. UniqueVersion(rev)
  BY <1>2, <1>6, <1>7, <1>11 DEF UniqueVersion, Exists
<1> QED BY <1>1, <1>15, <1>16, <1>17, <1>18, <1>19, <1>20, <1>21 DEF PInv, IndexesHold

-----------------------------------------------------------------------------
(* Every step *)

\* Every step keeps the invariant.
LEMMA NextPInv == PInv /\ [Next]_vars => PInv'
<1> SUFFICES ASSUME PInv, [Next]_vars PROVE PInv'
  OBVIOUS
<1>1. CASE Upgrade
  BY <1>1, UpgradeKeeps
<1>2. CASE Downgrade
  BY <1>2, DowngradeKeeps
<1>3. ASSUME NEW s \in Service, NEW r \in Rev, NEW setting \in Setting, Create(s, r, setting)
      PROVE  PInv'
  BY <1>3, CreateKeeps
<1>4. ASSUME NEW s \in Service, NEW r \in Rev, NEW step \in Transition, Begin(s, r, step)
      PROVE  PInv'
  BY <1>4, BeginKeeps
<1>5. ASSUME NEW s \in Service, NEW r \in Rev, Delete(s, r) PROVE PInv'
  BY <1>5, DeleteKeeps
<1>6. ASSUME NEW s \in Service, Finish(s) \/ RollBack(s) PROVE PInv'
  BY <1>6, FinishKeeps, RollBackKeeps
<1>7. ASSUME NEW r \in Rev, NEW status \in Status, HandStatus(r, status) PROVE PInv'
  BY <1>7, HandStatusKeeps
<1>8. ASSUME NEW r \in Rev, NEW s \in Stage, NEW v \in Setting \cup {None}, HandRow(r, s, v)
      PROVE  PInv'
  BY <1>8, HandRowKeeps
<1>9. ASSUME NEW r \in Rev, HandDelete(r) PROVE PInv'
  BY <1>9, HandDeleteKeeps
<1>10. ASSUME NEW t \in Turn, NEW c \in Conv, NEW s \in Service, Resolve(t, c, s) PROVE PInv'
  BY <1>10, ResolveKeeps
<1>11. ASSUME NEW t \in Turn, Record(t) PROVE PInv'
  BY <1>11, RecordKeeps
<1>12. ASSUME NEW code \in SUBSET Setting, Deploy(code) PROVE PInv'
  BY <1>12, DeployKeeps
<1>13. CASE UNCHANGED vars
  <2>1. UNCHANGED <<profile, split, rev, rows, hold, registry, conv, turn, tested,
                    hands, deploys, migrations>>
    BY <1>13 DEF vars
  <2>2. TypeOK' /\ JobsFit'
    BY <2>1 DEF PInv, TypeOK, JobsFit, Exists
  <2> QED BY <2>1, <2>2, TablesUntouched
<1> QED BY <1>1, <1>2, <1>3, <1>4, <1>5, <1>6, <1>7, <1>8, <1>9, <1>10, <1>11, <1>12, <1>13
        DEF Next


\* A transition publishes its revision, or leaves the published one alone.
LEMMA FinishKeepsUp ==
    ASSUME PInv, hands = 0, NEW s \in Service, Finish(s), NEW x,
           NEW p \in Rev, Exists(p), rev[p].profile = x, rev[p].status = "PUBLISHED"
    PROVE  \E r \in Rev : rev'[r] # None /\ rev'[r].profile = x /\ rev'[r].status = "PUBLISHED"
<1> DEFINE job == hold[s]
<1>1. /\ job \in Job /\ Exists(job.rev)
      /\ rev' = [q \in Rev |-> IF q = job.rev THEN RowAs(rev[q], job.to)
                               ELSE IF q = job.previous THEN RowAs(rev[q], "RETIRED")
                               ELSE rev[q]]
  BY FinishEffect
<1>2. /\ rev[job.rev].profile = s
      /\ job.to = "TESTING" => rev[job.rev].status = "DRAFT"
      /\ job.previous # None => rev[job.previous].profile = s /\ rev[job.previous].status = job.to
  BY <1>1, NoneIsNoRow DEF PInv, JobsFit
<1>3. job.rev \in Rev /\ job.to \in {"TESTING", "PUBLISHED"}
  BY <1>1 DEF Job
<1> HIDE DEF job
<1>4. CASE p # job.rev /\ p # job.previous
  <2>1. rev'[p] = rev[p]
    BY <1>1, <1>4
  <2> QED BY <2>1 DEF Exists
<1>5. CASE p = job.rev \/ p = job.previous
  <2>1. p # None
    BY ProfileAssumption
  <2>2. x = s /\ job.to = "PUBLISHED"
    BY <1>2, <1>3, <1>5, <2>1
  <2>3. rev[job.rev] \in RevRow /\ "PUBLISHED" \in Status
    BY <1>1, <1>3, ExistsRow DEF PInv, Status
  <2>4. /\ RowAs(rev[job.rev], "PUBLISHED") \in RevRow
        /\ RowAs(rev[job.rev], "PUBLISHED").status = "PUBLISHED"
        /\ RowAs(rev[job.rev], "PUBLISHED").profile = rev[job.rev].profile
    BY <2>3, RowFields
  <2>5. rev'[job.rev] = RowAs(rev[job.rev], "PUBLISHED")
    BY <1>1, <1>3, <2>2
  <2> QED BY <1>2, <1>3, <2>2, <2>4, <2>5, NoneIsNoRow
<1> QED BY <1>4, <1>5

\* As long as nobody writes by hand a profile that has a published revision has
\* one after the next step.
LEMMA StepStaysUp ==
    ASSUME PInv, Next, NEW s, split, split', hands' = 0, In(s, "PUBLISHED") # {}
    PROVE  \E r \in Rev : rev'[r] # None /\ rev'[r].profile = s /\ rev'[r].status = "PUBLISHED"
<1>1. PICK p \in Rev : Exists(p) /\ rev[p].profile = s /\ rev[p].status = "PUBLISHED"
  BY DEF In, RevisionsOf
<1>2. hands \in Nat
  BY DEF PInv, TypeOK
<1>3. ASSUME rev'[p] = rev[p]
      PROVE  \E r \in Rev : rev'[r] # None /\ rev'[r].profile = s /\ rev'[r].status = "PUBLISHED"
  BY <1>1, <1>3 DEF Exists
<1>4. CASE Upgrade \/ Downgrade
  BY <1>4 DEF Upgrade, Downgrade
<1>5. ASSUME NEW x \in Service, NEW r \in Rev, NEW setting \in Setting, Create(x, r, setting)
      PROVE  rev'[p] = rev[p]
  <2>1. r # p
    BY <1>1, <1>5 DEF Create
  <2> QED BY <1>5, <2>1 DEF Create, PInv, TypeOK
<1>6. ASSUME NEW x \in Service, NEW r \in Rev, NEW step \in Transition, Begin(x, r, step)
      PROVE  rev'[p] = rev[p]
  BY <1>6 DEF Begin
<1>7. ASSUME NEW x \in Service, NEW r \in Rev, Delete(x, r)
      PROVE  rev'[p] = rev[p]
  <2>1. r # p
    BY <1>1, <1>7 DEF Delete, In
  <2> QED BY <1>7, <2>1 DEF Delete, PInv, TypeOK
<1>8. ASSUME NEW x \in Service, Finish(x)
      PROVE  \E r \in Rev : rev'[r] # None /\ rev'[r].profile = s /\ rev'[r].status = "PUBLISHED"
  <2>1. hands = 0
    BY <1>8 DEF Finish
  <2> QED BY <1>1, <1>8, <2>1, FinishKeepsUp
<1>9. ASSUME NEW x \in Service, RollBack(x) PROVE rev'[p] = rev[p]
  BY <1>9 DEF RollBack
<1>10. ASSUME NEW r \in Rev,
              \/ \E status \in Status : HandStatus(r, status)
              \/ \E x \in Stage, v \in Setting \cup {None} : HandRow(r, x, v)
              \/ HandDelete(r)
       PROVE  FALSE
  <2>1. ByHand
    BY <1>10 DEF HandStatus, HandRow, HandDelete
  <2> QED BY <1>2, <2>1 DEF ByHand
<1>11. ASSUME NEW t \in Turn, (\E c \in Conv, x \in Service : Resolve(t, c, x)) \/ Record(t)
       PROVE  rev'[p] = rev[p]
  BY <1>11 DEF Resolve, Record
<1>12. ASSUME NEW code \in (SUBSET Setting) \ {{}}, Deploy(code) PROVE rev'[p] = rev[p]
  BY <1>12 DEF Deploy
<1> QED BY <1>3, <1>4, <1>5, <1>6, <1>7, <1>8, <1>9, <1>10, <1>11, <1>12 DEF Next

-----------------------------------------------------------------------------
(* The theorems *)

\* The invariant holds in every reachable state.
THEOREM Invariance == Spec => []PInv
BY InitPInv, NextPInv, PTL DEF Spec

\* Every variable keeps its type.
THEOREM TypeCorrect == Spec => []TypeOK
<1>1. PInv => TypeOK
  BY DEF PInv
<1> QED BY <1>1, Invariance, PTL

\* No revision is published or retired that has not been in TESTING, whatever is
\* written by hand (chat_profile_revision_lock_update).
THEOREM TestedFirst == Spec => []TestedBeforeServed
<1>1. PInv => TestedBeforeServed
  BY DEF PInv, LeftTesting, InUse, TestedBeforeServed
<1> QED BY <1>1, Invariance, PTL

\* The revision that a recorded turn names is kept with the rows that the turn
\* used (chat_profile_revision_lock_delete, profile_revision_component_lock).
THEOREM Explained == Spec => []TurnsAreExplained
<1>1. PInv => TurnsAreExplained
  BY DEF PInv, TurnFits, InUse, TurnsAreExplained
<1> QED BY <1>1, Invariance, PTL

\* A turn answers from the document group of the revision that its conversation
\* started with, before and after the migrations.
THEOREM StaysInService == Spec => []TurnStaysInService
<1>1. PInv => TurnStaysInService
  BY DEF PInv, TurnFits, TurnStaysInService
<1> QED BY <1>1, Invariance, PTL

\* One revision of a profile at most is PUBLISHED, one at most in TESTING, and no
\* two have the same version: the restored versions of the migration included.
THEOREM IndexesAreUnique == Spec => []IndexesHold
<1>1. PInv => IndexesHold
  BY DEF PInv
<1> QED BY <1>1, Invariance, PTL

\* Without statements by hand a service with a published revision keeps one
\* through every step of the console, of a turn and of a deployment.
THEOREM StaysUp == Spec => ServiceStaysUp
<1>1. PInv /\ [Next]_vars =>
        [\A s \in profile' : split /\ split' /\ hands' = 0 /\ In(s, "PUBLISHED") # {}
            => \E r \in Rev : rev'[r] # None /\ rev'[r].profile = s
                             /\ rev'[r].status = "PUBLISHED"]_vars
  BY StepStaysUp
<1> QED BY <1>1, Invariance, PTL DEF Spec, ServiceStaysUp

=============================================================================
