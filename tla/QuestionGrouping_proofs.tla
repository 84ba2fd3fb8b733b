---------------------- MODULE QuestionGrouping_proofs ----------------------
(***************************************************************************)
(* Proofs about QuestionGrouping, for any number of subproblems, canonical *)
(* answers and turns, and any number of seeds and operators' changes.      *)
(*                                                                         *)
(* The gate reads its parts one after the other. What the proofs follow    *)
(* through these reads is the moment of the first one, at which the        *)
(* subproblem and its one approved answer belonged together: an answer     *)
(* that was presented before it and is approved after it was approved at   *)
(* that moment, because a canonical answer is approved once (CanonKept).   *)
(***************************************************************************)
EXTENDS QuestionGrouping, DataLemmas

-----------------------------------------------------------------------------
(* The inductive invariant *)

\* Approved once, maybe revoked since
Known(c) == c \in Canon /\ canon[c].approval # "NONE"

\* The plan of a seed still fits: nobody else writes what it has read.
SeedFits ==
    seed # None =>
        /\ seed.new # None => canon[seed.new].approval = "NONE"
        /\ seed.new = None => /\ sub[seed.sub].status # "ABSENT"
                              /\ seed.version = sub[seed.sub].version

\* Some canonical answer of s could be served during turn t.
WasLive(t, s) == \E c \in live[t] : Known(c) /\ canon[c].sub = s

RowFits(i) ==
    LET row == rows[i]
    IN /\ row.decision = "CONNECT" => row.sub \in Sub
       /\ row.shown \in Canon => Known(row.shown)
       /\ row.outcome = "SERVED" =>
             /\ turn[row.turn].status = "CACHED"
             /\ Known(row.answer)
             /\ canon[row.answer].sub = row.sub
             /\ canon[row.answer].version = row.version
             /\ WasLive(row.turn, row.sub)
             /\ turn[row.turn].claim.basis # "UNSEEN" => row.answer \in live[row.turn]

Serves(state) == state.status = "APPROVED" /\ state.serving = "SERVING" /\ state.enabled

\* What the gate has read of t so far
ReadsFit(t) ==
    LET claim == turn[t].claim
        read == turn[t].read
    IN /\ turn[t].pc \in {"STATE", "CANONICAL", "GATE", "SERVING"} =>
             /\ claim \in Claim
             /\ claim.shown \in Canon => Known(claim.shown)
       /\ turn[t].pc \in {"CANONICAL", "GATE", "SERVING"} =>
             /\ turn[t].state \in SubRow
             /\ Serves(turn[t].state) => WasLive(t, claim.sub)
       /\ turn[t].pc = "CANONICAL" /\ Serves(turn[t].state) =>
             (claim.shown \in ApprovedOf(claim.sub) => claim.shown \in live[t])
       /\ turn[t].pc \in {"GATE", "SERVING"} /\ read # None =>
             /\ Known(read)
             /\ canon[read].sub = claim.sub
             /\ Serves(turn[t].state) /\ read = claim.shown => read \in live[t]
       /\ turn[t].pc = "SERVING" =>
             /\ read # None
             /\ canon[read].version = claim.version
             /\ Serves(turn[t].state)
             /\ claim.basis # "UNSEEN" => read = claim.shown

\* A turn has at most one attempt, and none before it was decided on.
AttemptsFit(t) ==
    /\ \A i, j \in OwnRows(t) : i = j
    /\ turn[t].pc \notin {"GENERAL", "DONE"} => OwnRows(t) = {}
    /\ turn[t].status = "CACHED" => /\ turn[t].pc = "DONE"
                                    /\ \E i \in ServedRows : rows[i].turn = t

GInv ==
    /\ TypeOK /\ rows \in Seq(Row)
    /\ AnswerFitsDefinition
    /\ SeedFits
    /\ \A i \in DOMAIN rows : RowFits(i)
    /\ \A t \in Turn : ReadsFit(t) /\ AttemptsFit(t)


-----------------------------------------------------------------------------
(* Records with some fields changed *)

AtPc(row, pc) == [row EXCEPT !.pc = pc]
Cleared(row) == [row EXCEPT !.pc = "GENERAL", !.claim = None, !.state = None, !.read = None]
WithClaim(row, claim) == [row EXCEPT !.pc = "STATE", !.claim = claim]
WithState(row, state) == [row EXCEPT !.pc = "CANONICAL", !.state = state]
WithRead(row, c) == [row EXCEPT !.pc = "GATE", !.read = c]
Asked(on) == [NoTurn EXCEPT !.pc = "ASKED", !.status = "PROCESSING", !.on = on]
ServedAs(claim) == [Finished("CACHED") EXCEPT !.claim = claim]

\* What the steps of a turn make of its record
LEMMA TurnFields ==
    ASSUME NEW row \in TurnRow
    PROVE  /\ \A pc \in Pc : /\ AtPc(row, pc) \in TurnRow
                             /\ AtPc(row, pc).pc = pc
                             /\ AtPc(row, pc).status = row.status
                             /\ AtPc(row, pc).claim = row.claim
                             /\ AtPc(row, pc).state = row.state
                             /\ AtPc(row, pc).read = row.read
           /\ Cleared(row) \in TurnRow
           /\ Cleared(row).pc = "GENERAL"
           /\ Cleared(row).status = row.status
           /\ \A claim \in Claim : /\ WithClaim(row, claim) \in TurnRow
                                   /\ WithClaim(row, claim).pc = "STATE"
                                   /\ WithClaim(row, claim).status = row.status
                                   /\ WithClaim(row, claim).claim = claim
           /\ \A state \in SubRow : /\ WithState(row, state) \in TurnRow
                                    /\ WithState(row, state).pc = "CANONICAL"
                                    /\ WithState(row, state).status = row.status
                                    /\ WithState(row, state).claim = row.claim
                                    /\ WithState(row, state).state = state
           /\ \A c \in Canon \cup {None} :
                 /\ WithRead(row, c) \in TurnRow
                 /\ WithRead(row, c).pc = "GATE"
                 /\ WithRead(row, c).status = row.status
                 /\ WithRead(row, c).claim = row.claim
                 /\ WithRead(row, c).state = row.state
                 /\ WithRead(row, c).read = c
<1>1. \A pc \in Pc : /\ AtPc(row, pc) \in TurnRow
                     /\ AtPc(row, pc).pc = pc
                     /\ AtPc(row, pc).status = row.status
                     /\ AtPc(row, pc).claim = row.claim
                     /\ AtPc(row, pc).state = row.state
                     /\ AtPc(row, pc).read = row.read
  BY DEF TurnRow, AtPc
<1>2. Cleared(row) \in TurnRow /\ Cleared(row).pc = "GENERAL" /\ Cleared(row).status = row.status
  BY DEF TurnRow, Cleared, Pc
<1>3. \A claim \in Claim : /\ WithClaim(row, claim) \in TurnRow
                           /\ WithClaim(row, claim).pc = "STATE"
                           /\ WithClaim(row, claim).status = row.status
                           /\ WithClaim(row, claim).claim = claim
  BY DEF TurnRow, WithClaim, Pc
<1>4. \A state \in SubRow : /\ WithState(row, state) \in TurnRow
                            /\ WithState(row, state).pc = "CANONICAL"
                            /\ WithState(row, state).status = row.status
                            /\ WithState(row, state).claim = row.claim
                            /\ WithState(row, state).state = state
  BY DEF TurnRow, WithState, Pc
<1>5. \A c \in Canon \cup {None} : /\ WithRead(row, c) \in TurnRow
                                   /\ WithRead(row, c).pc = "GATE"
                                   /\ WithRead(row, c).status = row.status
                                   /\ WithRead(row, c).claim = row.claim
                                   /\ WithRead(row, c).state = row.state
                                   /\ WithRead(row, c).read = c
  BY DEF TurnRow, WithRead, Pc
<1> QED BY <1>1, <1>2, <1>3, <1>4, <1>5

\* A turn before its start, just started, and at its end
LEMMA PlainTurnFields ==
    /\ NoTurn \in TurnRow /\ NoTurn.pc = "NONE" /\ NoTurn.status = "NONE"
    /\ \A on \in SUBSET {"EXACT", "SEMANTIC"} :
          Asked(on) \in TurnRow /\ Asked(on).pc = "ASKED" /\ Asked(on).status = "PROCESSING"
    /\ \A status \in {"ENDED", "GENERATED"} :
          /\ Finished(status) \in TurnRow
          /\ Finished(status).pc = "DONE" /\ Finished(status).status = status
    /\ \A claim \in Claim :
          /\ ServedAs(claim) \in TurnRow
          /\ ServedAs(claim).pc = "DONE" /\ ServedAs(claim).status = "CACHED"
          /\ ServedAs(claim).claim = claim
BY DEF TurnRow, NoTurn, Asked, Finished, ServedAs, Pc

-----------------------------------------------------------------------------
(* What no step takes back *)

\* A canonical answer that was approved keeps its subproblem and version, and is
\* not approved a second time.
CanonKept ==
    \A c \in Canon : canon[c].approval # "NONE" =>
        /\ canon'[c].approval # "NONE"
        /\ canon'[c].sub = canon[c].sub /\ canon'[c].version = canon[c].version
        /\ canon'[c].approval = "APPROVED" => canon[c].approval = "APPROVED"

SameRow(new, old) ==
    /\ new.turn = old.turn /\ new.decision = old.decision /\ new.sub = old.sub
    /\ new.version = old.version /\ new.shown = old.shown
    /\ new.outcome = old.outcome /\ new.answer = old.answer

RowsKept == /\ DOMAIN rows \subseteq DOMAIN rows'
            /\ \A i \in DOMAIN rows : SameRow(rows'[i], rows[i])

CachedKept == \A t \in Turn : turn[t].status = "CACHED" => turn'[t] = turn[t]

\* The history of an open turn and of a served one is not shortened.
LEMMA LiveKept ==
    ASSUME GInv, History
    PROVE  /\ live' \in [Turn -> SUBSET Canon]
           /\ \A t \in Turn :
                 /\ Open(t)' \/ turn'[t].status = "CACHED" => live[t] \subseteq live'[t]
                 /\ Open(t)' => Servable' \subseteq live'[t]
<1>1. Servable' \subseteq Canon
  BY DEF Servable
<1>2. live \in [Turn -> SUBSET Canon]
  BY DEF GInv, TypeOK
<1> QED BY <1>1, <1>2 DEF History

\* The same of the next state, for the values of this one
KnownThen(c) == c \in Canon /\ canon'[c].approval # "NONE"
WasLiveThen(t, s) == \E c \in live'[t] : KnownThen(c) /\ canon'[c].sub = s

\* A canonical answer that was approved stays known, with subproblem and version.
LEMMA KnownKept ==
    ASSUME CanonKept
    PROVE  \A c : Known(c) => /\ KnownThen(c)
                              /\ canon'[c].sub = canon[c].sub
                              /\ canon'[c].version = canon[c].version
BY DEF CanonKept, Known, KnownThen

\* A subproblem that had a live answer had one.
LEMMA WasLiveKept ==
    ASSUME CanonKept
    PROVE  \A t, s : live[t] \subseteq live'[t] /\ WasLive(t, s) => WasLiveThen(t, s)
BY KnownKept DEF WasLive, WasLiveThen

\* A row that is there stays true.
LEMMA OldRowFits ==
    ASSUME GInv, History, CanonKept, RowsKept, CachedKept, NEW i \in DOMAIN rows
    PROVE  RowFits(i)'
<1> DEFINE row == rows[i]
<1>1. RowFits(i) /\ SameRow(rows'[i], row) /\ row \in Row
  BY DEF GInv, RowsKept, TypeOK
<1>2. row.turn \in Turn
  BY <1>1 DEF Row
<1>3. /\ row.decision = "CONNECT" => row.sub \in Sub
      /\ row.shown \in Canon => KnownThen(row.shown)
  BY <1>1, KnownKept DEF RowFits
<1>4. ASSUME row.outcome = "SERVED"
      PROVE  /\ turn'[row.turn].status = "CACHED"
             /\ KnownThen(row.answer)
             /\ canon'[row.answer].sub = row.sub
             /\ canon'[row.answer].version = row.version
             /\ WasLiveThen(row.turn, row.sub)
             /\ turn'[row.turn].claim.basis # "UNSEEN" => row.answer \in live'[row.turn]
  <2>1. /\ turn[row.turn].status = "CACHED"
        /\ Known(row.answer)
        /\ canon[row.answer].sub = row.sub
        /\ canon[row.answer].version = row.version
        /\ WasLive(row.turn, row.sub)
        /\ turn[row.turn].claim.basis # "UNSEEN" => row.answer \in live[row.turn]
    BY <1>1, <1>4 DEF RowFits
  <2>2. turn'[row.turn] = turn[row.turn]
    BY <1>2, <2>1 DEF CachedKept
  <2>3. live[row.turn] \subseteq live'[row.turn]
    BY <1>2, <2>1, <2>2, LiveKept
  <2>4. WasLiveThen(row.turn, row.sub)
    BY <2>1, <2>3, WasLiveKept
  <2> HIDE DEF row
  <2> QED BY <2>1, <2>2, <2>3, <2>4, KnownKept
<1> QED BY <1>1, <1>3, <1>4 DEF RowFits, SameRow, Known, KnownThen, WasLive, WasLiveThen


\* The attempts of a turn are the same rows as before.
LEMMA SameAttempts ==
    ASSUME RowsKept, NEW t,
           \A i \in DOMAIN rows' \ DOMAIN rows : rows'[i].turn # t \/ rows'[i].outcome = "NONE"
    PROVE  OwnRows(t)' = OwnRows(t)
BY DEF RowsKept, SameRow, OwnRows

\* What is true of a turn stays true as long as it does not move.
LEMMA TurnUntouched ==
    ASSUME GInv, History, CanonKept, RowsKept, NEW t \in Turn, turn'[t] = turn[t],
           \A i \in DOMAIN rows' \ DOMAIN rows : rows'[i].turn # t \/ rows'[i].outcome = "NONE"
    PROVE  ReadsFit(t)' /\ AttemptsFit(t)'
<1> DEFINE claim == turn[t].claim
           read == turn[t].read
           pc == turn[t].pc
<1>1. ReadsFit(t) /\ AttemptsFit(t)
  BY DEF GInv
<1>2. pc \notin {"NONE", "DONE"} => live[t] \subseteq live'[t]
  BY LiveKept DEF Open
<1>3. pc \in {"STATE", "CANONICAL", "GATE", "SERVING"} =>
             /\ claim \in Claim
             /\ claim.shown \in Canon => KnownThen(claim.shown)
  BY <1>1, KnownKept DEF ReadsFit
<1>4. pc \in {"CANONICAL", "GATE", "SERVING"} =>
             /\ turn[t].state \in SubRow
             /\ Serves(turn[t].state) => WasLiveThen(t, claim.sub)
  BY <1>1, <1>2, WasLiveKept DEF ReadsFit
<1>5. ASSUME pc = "CANONICAL", Serves(turn[t].state), claim.shown \in Canon,
             canon'[claim.shown].approval = "APPROVED", canon'[claim.shown].sub = claim.sub
      PROVE  claim.shown \in live'[t]
  <2>1. Known(claim.shown)
    BY <1>1, <1>5 DEF ReadsFit
  <2>2. canon[claim.shown].approval = "APPROVED" /\ canon[claim.shown].sub = claim.sub
    BY <1>5, <2>1 DEF Known, CanonKept
  <2>3. claim.shown \in ApprovedOf(claim.sub)
    BY <1>5, <2>2 DEF ApprovedOf
  <2>4. claim.shown \in live[t]
    BY <1>1, <1>5, <2>3 DEF ReadsFit
  <2> QED BY <1>2, <1>5, <2>4
<1>6. pc \in {"GATE", "SERVING"} /\ read # None =>
             /\ KnownThen(read)
             /\ canon'[read].sub = claim.sub
             /\ Serves(turn[t].state) /\ read = claim.shown => read \in live'[t]
  BY <1>1, <1>2, KnownKept DEF ReadsFit
<1>7. pc = "SERVING" =>
             /\ read # None
             /\ canon'[read].version = claim.version
             /\ Serves(turn[t].state)
             /\ claim.basis # "UNSEEN" => read = claim.shown
  BY <1>1, KnownKept DEF ReadsFit
<1>8. ReadsFit(t)'
  <2>1. ApprovedOf(turn[t].claim.sub)' = {c \in Canon : canon'[c].approval = "APPROVED"
                                            /\ canon'[c].sub = claim.sub}
    BY DEF ApprovedOf
  <2> QED BY <1>3, <1>4, <1>5, <1>6, <1>7, <2>1
          DEF ReadsFit, Known, KnownThen, WasLive, WasLiveThen, Serves
<1>9. AttemptsFit(t)'
  <2>1. OwnRows(t)' = OwnRows(t)
    BY SameAttempts
  <2>2. \A i \in ServedRows : i \in ServedRows' /\ rows'[i].turn = rows[i].turn
    BY DEF RowsKept, SameRow, ServedRows
  <2> QED BY <1>1, <2>1, <2>2 DEF AttemptsFit
<1> QED BY <1>8, <1>9


-----------------------------------------------------------------------------
(* Seeds, operators and documents *)

\* A step of the tables, during which no turn moves
LEMMA TablesStep ==
    ASSUME GInv, History, CanonKept, RowsKept, UNCHANGED turn, rows' \in Seq(Row),
           \A i \in DOMAIN rows' \ DOMAIN rows : rows'[i].outcome = "NONE" /\ RowFits(i)',
           sub' \in [Sub -> SubRow], canon' \in [Canon -> CanonRow],
           seed' \in Plan \cup {None}, changes' \in 0 .. MaxChange,
           AnswerFitsDefinition', SeedFits'
    PROVE  GInv'
<1>1. CachedKept
  BY DEF CachedKept
<1>2. \A i \in DOMAIN rows' : RowFits(i)'
  BY <1>1, OldRowFits
<1>3. ASSUME NEW t \in Turn PROVE ReadsFit(t)' /\ AttemptsFit(t)'
  BY TurnUntouched
<1>4. TypeOK'
  BY LiveKept DEF GInv, TypeOK
<1> QED BY <1>2, <1>3, <1>4 DEF GInv

\* The definition and the answers stay as they are.
DefinitionsKept ==
    /\ UNCHANGED canon
    /\ \A s \in Sub : /\ sub'[s].status = "ABSENT" <=> sub[s].status = "ABSENT"
                      /\ sub'[s].version = sub[s].version

\* A step that leaves definitions and answers alone keeps what is said of them.
LEMMA DefinitionsStay ==
    ASSUME GInv, DefinitionsKept
    PROVE  CanonKept /\ AnswerFitsDefinition' /\ (UNCHANGED seed => SeedFits')
<1>1. CanonKept
  BY DEF CanonKept, DefinitionsKept
<1>2. AnswerFitsDefinition'
  BY DEF GInv, AnswerFitsDefinition, ApprovedOf, DefinitionsKept
<1>3. ASSUME UNCHANGED seed PROVE SeedFits'
  BY <1>3 DEF GInv, TypeOK, SeedFits, Plan, DefinitionsKept
<1> QED BY <1>1, <1>2, <1>3

\* Rows that are not touched are kept.
LEMMA RowsUnchanged ==
    ASSUME GInv, UNCHANGED rows
    PROVE  RowsKept /\ rows' \in Seq(Row) /\ DOMAIN rows' \ DOMAIN rows = {}
BY DEF GInv, RowsKept, SameRow

\* The count of changes stays within its bound.
LEMMA ChangesCount ==
    ASSUME GInv, changes < MaxChange, changes' = changes + 1
    PROVE  changes' \in 0 .. MaxChange
BY GroupingAssumption DEF GInv, TypeOK

\* A seed that reads what it will change keeps the invariant.
LEMMA SeedPlansKeeps ==
    ASSUME GInv, History, NEW s \in Sub, SeedPlans(s)
    PROVE  GInv'
<1>1. /\ Plannable(s) /\ changes < MaxChange /\ changes' = changes + 1
      /\ UNCHANGED <<sub, canon, rows, turn>>
  BY DEF SeedPlans
<1>2. PICK bumped, rewritten, rules \in BOOLEAN,
           option \in Options, c \in Canon \cup {None} :
          LET new == sub[s].status = "ABSENT"
              serving == IF option = sub[s].serving THEN None ELSE option
          IN /\ IF new \/ NeedsAnswer(bumped, rewritten)
                  THEN c \in Canon /\ canon[c].approval = "NONE"
                  ELSE c = None /\ ~rules
             /\ new => bumped /\ ~rewritten
             /\ bumped \/ c # None \/ serving # None
             /\ seed' = [sub |-> s, new |-> c, rules |-> rules,
                         version |-> sub[s].version + IF bumped THEN 1 ELSE 0,
                         serving |-> serving]
  BY DEF SeedPlans
<1>3. sub[s] \in SubRow /\ sub[s].version \in Nat
  BY DEF GInv, TypeOK, SubRow
<1>4. /\ seed' \in Plan
      /\ seed'.sub = s /\ seed'.new = c
      /\ seed'.version = sub[s].version + IF bumped THEN 1 ELSE 0
  <2>1. (IF option = sub[s].serving THEN None ELSE option) \in Serving \cup {None}
    BY GroupingAssumption DEF Serving
  <2>2. sub[s].version + (IF bumped THEN 1 ELSE 0) \in Nat
    BY <1>3
  <2> QED BY <1>2, <2>1, <2>2 DEF Plan
<1>5. SeedFits'
  <2>1. c # None => canon[c].approval = "NONE"
    BY <1>2
  <2>2. c = None => sub[s].status # "ABSENT" /\ ~bumped
    BY <1>2, GroupingAssumption DEF NeedsAnswer
  <2> QED BY <1>1, <1>3, <1>4, <2>1, <2>2 DEF SeedFits
<1>6. CanonKept /\ AnswerFitsDefinition'
  BY <1>1, DefinitionsStay DEF DefinitionsKept
<1>7. sub' \in [Sub -> SubRow] /\ canon' \in [Canon -> CanonRow]
  BY <1>1 DEF GInv, TypeOK
<1> QED BY <1>1, <1>4, <1>5, <1>6, <1>7, RowsUnchanged, ChangesCount, TablesStep

\* A seed that is refused changes nothing.
LEMMA SeedFailsKeeps ==
    ASSUME GInv, History, SeedFails
    PROVE  GInv'
<1>1. seed' = None /\ UNCHANGED <<sub, canon, rows, turn, changes>>
  BY DEF SeedFails
<1>2. CanonKept /\ AnswerFitsDefinition' /\ SeedFits'
  BY <1>1, DefinitionsStay DEF DefinitionsKept, SeedFits
<1>3. sub' \in [Sub -> SubRow] /\ canon' \in [Canon -> CanonRow] /\ changes' \in 0 .. MaxChange
  BY <1>1 DEF GInv, TypeOK
<1> QED BY <1>1, <1>2, <1>3, RowsUnchanged, TablesStep

SubAs(row, version, serving) ==
    [row EXCEPT !.version = version,
                !.serving = IF serving = None THEN @ ELSE serving,
                !.status = IF @ = "ABSENT" THEN "APPROVED" ELSE @]
Switched(row) == [row EXCEPT !.enabled = ~@]
Archived(row) == [row EXCEPT !.status = "ARCHIVED"]
Halted(row) == [row EXCEPT !.serving = "STOPPED"]
Revoked(row) == [row EXCEPT !.approval = "REVOKED"]

\* What happens to the rows of the tables
LEMMA TableFields ==
    /\ \A row \in SubRow :
          /\ \A v \in Nat, serving \in Serving \cup {None} :
                /\ SubAs(row, v, serving) \in SubRow
                /\ SubAs(row, v, serving).version = v
                /\ SubAs(row, v, serving).status # "ABSENT"
          /\ \A new \in {Switched(row), Archived(row), Halted(row)} :
                new \in SubRow /\ new.version = row.version
          /\ Switched(row).status = row.status
          /\ Archived(row).status = "ARCHIVED"
          /\ Halted(row).status = row.status
    /\ \A row \in CanonRow :
          /\ Revoked(row) \in CanonRow
          /\ Revoked(row).approval = "REVOKED"
          /\ Revoked(row).sub = row.sub
          /\ Revoked(row).version = row.version
<1>1. ASSUME NEW row \in SubRow, NEW v \in Nat, NEW serving \in Serving \cup {None}
      PROVE  /\ SubAs(row, v, serving) \in SubRow
             /\ SubAs(row, v, serving).version = v
             /\ SubAs(row, v, serving).status # "ABSENT"
  BY DEF SubRow, SubAs
<1>2. ASSUME NEW row \in SubRow
      PROVE  /\ Switched(row) \in SubRow /\ Switched(row).version = row.version
             /\ Switched(row).status = row.status
  BY DEF SubRow, Switched
<1>3. ASSUME NEW row \in SubRow
      PROVE  /\ Archived(row) \in SubRow /\ Archived(row).version = row.version
             /\ Archived(row).status = "ARCHIVED"
  BY DEF SubRow, Archived
<1>4. ASSUME NEW row \in SubRow
      PROVE  /\ Halted(row) \in SubRow /\ Halted(row).version = row.version
             /\ Halted(row).status = row.status
  BY DEF SubRow, Halted, Serving
<1>5. ASSUME NEW row \in CanonRow
      PROVE  /\ Revoked(row) \in CanonRow
             /\ Revoked(row).approval = "REVOKED"
             /\ Revoked(row).sub = row.sub
             /\ Revoked(row).version = row.version
  BY DEF CanonRow, Revoked
<1> QED BY <1>1, <1>2, <1>3, <1>4, <1>5

\* A seed that commits keeps the invariant: it bumps the version where the
\* definition changed, and approves one answer for it.
LEMMA SeedCommitsKeeps ==
    ASSUME GInv, History, SeedCommits
    PROVE  GInv'
<1> DEFINE s == seed.sub
           k == seed.new
           row == SubAs(sub[s], seed.version, seed.serving)
           answer == [approval |-> "APPROVED", sub |-> s, version |-> seed.version,
                      rules |-> seed.rules]
<1>1. /\ seed # None /\ seed' = None /\ UNCHANGED <<rows, turn, changes>>
      /\ canon' = [c \in Canon |-> IF c = k THEN answer
                                   ELSE IF k # None /\ c \in ApprovedOf(s) THEN Revoked(canon[c])
                                   ELSE canon[c]]
  BY DEF SeedCommits, Revoked
<1>2. seed \in Plan
  BY <1>1 DEF GInv, TypeOK
<1>3. /\ s \in Sub /\ k \in Canon \cup {None} /\ seed.version \in Nat
      /\ seed.serving \in Serving \cup {None} /\ seed.rules \in BOOLEAN
  BY <1>2 DEF Plan
<1>4. sub' = [sub EXCEPT ![s] = row]
  BY <1>3 DEF SeedCommits, SubAs, GInv, TypeOK
<1>5. row \in SubRow /\ row.version = seed.version /\ row.status # "ABSENT"
  <2>1. sub[s] \in SubRow
    BY <1>3 DEF GInv, TypeOK
  <2>2. \A v \in Nat, serving \in Serving \cup {None} :
           /\ SubAs(sub[s], v, serving) \in SubRow
           /\ SubAs(sub[s], v, serving).version = v
           /\ SubAs(sub[s], v, serving).status # "ABSENT"
    BY <2>1, TableFields
  <2> QED BY <1>3, <2>2
<1>6. /\ answer \in CanonRow /\ answer.approval = "APPROVED" /\ answer.sub = s
      /\ answer.version = seed.version
  BY <1>3 DEF CanonRow
<1>7. /\ k # None => canon[k].approval = "NONE"
      /\ k = None => sub[s].status # "ABSENT" /\ seed.version = sub[s].version
  BY <1>1 DEF GInv, SeedFits
<1> HIDE DEF row, answer, s, k
<1>8. sub' \in [Sub -> SubRow] /\ sub'[s] = row /\ \A x \in Sub \ {s} : sub'[x] = sub[x]
  BY <1>3, <1>4, <1>5 DEF GInv, TypeOK
<1>9. ASSUME NEW c \in Canon
      PROVE  /\ canon[c] \in CanonRow /\ Revoked(canon[c]) \in CanonRow
             /\ Revoked(canon[c]).approval = "REVOKED"
             /\ Revoked(canon[c]).sub = canon[c].sub
             /\ Revoked(canon[c]).version = canon[c].version
  BY TableFields DEF GInv, TypeOK
<1>10. \A c \in Canon :
          /\ c = k => canon'[c] = answer
          /\ c # k /\ k # None /\ c \in ApprovedOf(s) => canon'[c] = Revoked(canon[c])
          /\ c # k /\ ~(k # None /\ c \in ApprovedOf(s)) => canon'[c] = canon[c]
  BY <1>1
<1>11. canon' \in [Canon -> CanonRow]
  BY <1>1, <1>6, <1>9
<1>12. CanonKept
  <2> SUFFICES ASSUME NEW c \in Canon, canon[c].approval # "NONE"
               PROVE  /\ canon'[c].approval # "NONE"
                      /\ canon'[c].sub = canon[c].sub /\ canon'[c].version = canon[c].version
                      /\ canon'[c].approval = "APPROVED" => canon[c].approval = "APPROVED"
    BY DEF CanonKept
  <2>1. c # k
    BY <1>7, GroupingAssumption
  <2>2. canon'[c] = canon[c] \/ canon'[c] = Revoked(canon[c])
    BY <1>10, <2>1
  <2> QED BY <1>9, <2>2
<1>13. AnswerFitsDefinition'
  <2> SUFFICES ASSUME NEW x \in Sub, sub'[x].status # "ABSENT"
               PROVE  \E c \in Canon : ApprovedOf(x)' = {c} /\ canon'[c].version = sub'[x].version
    BY DEF AnswerFitsDefinition
  <2>1. CASE x = s /\ k # None
    <3>1. k \in Canon
      BY <1>3, <2>1
    <3>2. ApprovedOf(x)' = {k}
      BY <1>6, <1>9, <1>10, <2>1, <3>1 DEF ApprovedOf
    <3> QED BY <1>5, <1>6, <1>8, <1>10, <2>1, <3>1, <3>2
  <2>2. CASE x = s /\ k = None
    <3>1. PICK c \in Canon : ApprovedOf(s) = {c} /\ canon[c].version = sub[s].version
      BY <1>3, <1>7, <2>2 DEF GInv, AnswerFitsDefinition
    <3>2. canon' = canon
      BY <1>11, <1>10, <2>2, GroupingAssumption DEF GInv, TypeOK
    <3>3. ApprovedOf(x)' = {c}
      BY <2>2, <3>1, <3>2 DEF ApprovedOf
    <3> QED BY <1>5, <1>7, <1>8, <2>2, <3>1, <3>2, <3>3
  <2>3. CASE x # s
    <3>1. PICK c \in Canon : ApprovedOf(x) = {c} /\ canon[c].version = sub[x].version
      BY <1>8, <2>3 DEF GInv, AnswerFitsDefinition
    <3>2. \A d \in Canon : d \in ApprovedOf(x)' <=> d \in ApprovedOf(x)
      <4> SUFFICES ASSUME NEW d \in Canon PROVE d \in ApprovedOf(x)' <=> d \in ApprovedOf(x)
        OBVIOUS
      <4>1. CASE d = k
        BY <1>6, <1>7, <1>10, <2>3, <4>1, GroupingAssumption DEF ApprovedOf
      <4>2. CASE d # k /\ d \in ApprovedOf(s)
        <5>1. canon[d].sub = s
          BY <4>2 DEF ApprovedOf
        <5>2. canon'[d].sub = s
          BY <1>9, <1>10, <4>2, <5>1
        <5> QED BY <2>3, <5>1, <5>2 DEF ApprovedOf
      <4>3. CASE d # k /\ d \notin ApprovedOf(s)
        <5>1. canon'[d] = canon[d]
          BY <1>10, <4>3
        <5> QED BY <5>1 DEF ApprovedOf
      <4> QED BY <4>1, <4>2, <4>3
    <3>3. ApprovedOf(x)' = {c}
      BY <3>1, <3>2 DEF ApprovedOf
    <3>4. canon'[c].version = canon[c].version
      <4>1. canon[c].approval # "NONE"
        BY <3>1 DEF ApprovedOf
      <4> QED BY <1>12, <4>1 DEF CanonKept
    <3> QED BY <1>8, <2>3, <3>1, <3>3, <3>4
  <2> QED BY <2>1, <2>2, <2>3
<1>14. SeedFits'
  BY <1>1 DEF SeedFits
<1>15. changes' \in 0 .. MaxChange
  BY <1>1 DEF GInv, TypeOK
<1> QED BY <1>1, <1>8, <1>11, <1>12, <1>13, <1>14, <1>15, RowsUnchanged, TablesStep

\* A change of one subproblem that leaves its definition alone keeps the
\* invariant.
LEMMA SubChanges ==
    ASSUME GInv, History, NEW s \in Sub, Change, UNCHANGED <<canon, seed, rows, turn>>,
           NEW row \in SubRow, sub' = [sub EXCEPT ![s] = row], row.version = sub[s].version,
           row.status = "ABSENT" <=> sub[s].status = "ABSENT"
    PROVE  GInv'
<1>1. sub' \in [Sub -> SubRow] /\ sub'[s] = row /\ \A x \in Sub \ {s} : sub'[x] = sub[x]
  BY DEF GInv, TypeOK
<1>2. DefinitionsKept
  BY <1>1 DEF DefinitionsKept
<1>3. CanonKept /\ AnswerFitsDefinition' /\ SeedFits'
  BY <1>2, DefinitionsStay
<1>4. canon' \in [Canon -> CanonRow] /\ seed' \in Plan \cup {None}
  BY DEF GInv, TypeOK
<1>5. changes' \in 0 .. MaxChange
  BY ChangesCount DEF Change
<1> QED BY <1>1, <1>3, <1>4, <1>5, RowsUnchanged, TablesStep

\* A document that goes out of service or comes back keeps the invariant.
LEMMA DocumentSwitchesKeeps ==
    ASSUME GInv, History, NEW s \in Sub, DocumentSwitches(s)
    PROVE  GInv'
<1>1. /\ Change /\ UNCHANGED <<canon, seed, rows, turn>>
      /\ sub' = [sub EXCEPT ![s] = Switched(sub[s])]
  BY DEF DocumentSwitches, Switched
<1>2. sub[s] \in SubRow
  BY DEF GInv, TypeOK
<1>3. /\ Switched(sub[s]) \in SubRow /\ Switched(sub[s]).version = sub[s].version
      /\ Switched(sub[s]).status = sub[s].status
  BY <1>2, TableFields
<1> QED BY <1>1, <1>3, SubChanges

\* Withdrawing a subproblem or its answer keeps the invariant.
LEMMA WithdrawKeeps ==
    ASSUME GInv, History, NEW s \in Sub, Withdraw(s)
    PROVE  GInv'
<1>1. /\ Change /\ UNCHANGED <<canon, seed, rows, turn>> /\ sub[s].status = "APPROVED"
      /\ \/ sub' = [sub EXCEPT ![s] = Archived(sub[s])]
         \/ sub' = [sub EXCEPT ![s] = Halted(sub[s])]
  BY DEF Withdraw, Archived, Halted
<1>2. sub[s] \in SubRow
  BY DEF GInv, TypeOK
<1>3. /\ Archived(sub[s]) \in SubRow /\ Archived(sub[s]).version = sub[s].version
      /\ Archived(sub[s]).status = "ARCHIVED"
      /\ Halted(sub[s]) \in SubRow /\ Halted(sub[s]).version = sub[s].version
      /\ Halted(sub[s]).status = sub[s].status
  BY <1>2, TableFields
<1> QED BY <1>1, <1>3, SubChanges


-----------------------------------------------------------------------------
(* The rows of the log *)

Approving(row) == [row EXCEPT !.approved = TRUE]
Replacing(row) == [row EXCEPT !.current = FALSE]
Citing(row) == [row EXCEPT !.attribution = "CITATION"]

\* A row that is changed still says the same of its turn.
LEMMA RowFields ==
    ASSUME NEW row \in Row
    PROVE  /\ Approving(row) \in Row /\ SameRow(Approving(row), row)
           /\ Replacing(row) \in Row /\ SameRow(Replacing(row), row)
           /\ Citing(row) \in Row /\ SameRow(Citing(row), row)
           /\ SameRow(row, row)
BY DEF Row, Approving, Replacing, Citing, SameRow

\* Rows are changed one by one.
LEMMA RowsChanged ==
    ASSUME GInv, NEW f, DOMAIN f = DOMAIN rows, f = [i \in DOMAIN rows |-> f[i]],
           \A i \in DOMAIN rows : f[i] \in Row
    PROVE  f \in Seq(Row) /\ Len(f) = Len(rows)
<1>1. rows \in Seq(Row)
  BY DEF GInv
<1>2. Len(rows) \in Nat /\ DOMAIN rows = 1 .. Len(rows)
  BY <1>1
<1> QED BY <1>2

\* A row is appended.
LEMMA RowAppended ==
    ASSUME GInv, NEW f, f \in Seq(Row), Len(f) = Len(rows),
           \A i \in DOMAIN rows : SameRow(f[i], rows[i]),
           NEW row \in Row, rows' = Append(f, row)
    PROVE  /\ rows' \in Seq(Row) /\ RowsKept
           /\ DOMAIN rows' \ DOMAIN rows = {Len(rows) + 1}
           /\ DOMAIN rows' = DOMAIN rows \cup {Len(rows) + 1}
           /\ rows'[Len(rows) + 1] = row
<1>1. rows \in Seq(Row) /\ Len(rows) \in Nat /\ DOMAIN rows = 1 .. Len(rows)
  BY DEF GInv
<1>2. rows' \in Seq(Row) /\ Len(rows') = Len(rows) + 1 /\ rows'[Len(rows) + 1] = row
  BY <1>1
<1>3. DOMAIN rows' = 1 .. (Len(rows) + 1)
  BY <1>2
<1>4. \A i \in DOMAIN rows : rows'[i] = f[i]
  BY <1>1
<1>5. RowsKept
  BY <1>1, <1>3, <1>4 DEF RowsKept
<1> QED BY <1>1, <1>2, <1>3, <1>5

\* Approving a row changes nothing that the gate recorded.
LEMMA ApproveKeeps ==
    ASSUME GInv, History, NEW i \in DOMAIN rows, Approve(i)
    PROVE  GInv'
<1> DEFINE row == Approving(rows[i])
<1>1. /\ Change /\ rows' = [rows EXCEPT ![i] = row]
      /\ UNCHANGED <<sub, canon, seed, turn>>
  BY DEF Approve, Approving
<1>2. \A j \in DOMAIN rows : rows[j] \in Row
  BY DEF GInv, TypeOK
<1>3. row \in Row /\ SameRow(row, rows[i])
  BY <1>2, RowFields
<1> HIDE DEF row
<1>4. /\ DOMAIN rows' = DOMAIN rows /\ rows' = [j \in DOMAIN rows |-> rows'[j]]
      /\ \A j \in DOMAIN rows : rows'[j] = IF j = i THEN row ELSE rows[j]
  BY <1>1
<1>5. \A j \in DOMAIN rows : rows'[j] \in Row /\ SameRow(rows'[j], rows[j])
  BY <1>2, <1>3, <1>4, RowFields
<1>6. rows' \in Seq(Row)
  BY <1>4, <1>5, RowsChanged
<1>7. RowsKept /\ DOMAIN rows' \ DOMAIN rows = {}
  BY <1>4, <1>5 DEF RowsKept
<1>8. CanonKept /\ AnswerFitsDefinition' /\ SeedFits'
  BY <1>1, DefinitionsStay DEF DefinitionsKept
<1>9. /\ sub' \in [Sub -> SubRow] /\ canon' \in [Canon -> CanonRow] /\ seed' \in Plan \cup {None}
      /\ changes' \in 0 .. MaxChange
  BY <1>1, ChangesCount DEF GInv, TypeOK, Change
<1> QED BY <1>1, <1>6, <1>7, <1>8, <1>9, TablesStep

\* A row added by an operator presents nothing and attempts nothing.
LEMMA ConnectKeeps ==
    ASSUME GInv, History, NEW t \in Turn, NEW s \in Sub, Connect(t, s)
    PROVE  GInv'
<1> DEFINE f == [i \in DOMAIN rows |-> IF rows[i].turn = t THEN Replacing(rows[i]) ELSE rows[i]]
           row == [turn |-> t, decision |-> "CONNECT", sub |-> s,
                   version |-> sub[s].version, shown |-> Unrecorded,
                   attribution |-> "SUBPROBLEM", outcome |-> "NONE",
                   answer |-> None, approved |-> TRUE, current |-> TRUE, born |-> Born]
           n == Len(rows) + 1
<1>1. /\ Change /\ UNCHANGED <<sub, canon, seed, turn>>
      /\ rows' = Append(f, row)
  BY DEF Connect, Replacing
<1>2. \A j \in DOMAIN rows : rows[j] \in Row
  BY DEF GInv, TypeOK
<1>3. \A j \in DOMAIN rows : f[j] \in Row /\ SameRow(f[j], rows[j])
  BY <1>2, RowFields
<1>4. row \in Row /\ row.outcome = "NONE" /\ row.decision = "CONNECT" /\ row.sub = s
      /\ row.shown = Unrecorded
  <2>1. sub[s].version \in Nat
    BY DEF GInv, TypeOK, SubRow
  <2>2. Born \in SUBSET Canon
    BY DEF Born
  <2> QED BY <2>1, <2>2 DEF Row
<1>5. DOMAIN f = DOMAIN rows /\ f = [i \in DOMAIN rows |-> f[i]]
  OBVIOUS
<1> HIDE DEF f, row
<1>6. f \in Seq(Row) /\ Len(f) = Len(rows)
  BY <1>3, <1>5, RowsChanged
<1>7. /\ rows' \in Seq(Row) /\ RowsKept
      /\ DOMAIN rows' \ DOMAIN rows = {n} /\ rows'[n] = row
  BY <1>1, <1>3, <1>4, <1>6, RowAppended
<1>8. \A i \in DOMAIN rows' \ DOMAIN rows : rows'[i].outcome = "NONE" /\ RowFits(i)'
  BY <1>4, <1>7, GroupingAssumption DEF RowFits
<1>9. CanonKept /\ AnswerFitsDefinition' /\ SeedFits'
  BY <1>1, DefinitionsStay DEF DefinitionsKept
<1>10. /\ sub' \in [Sub -> SubRow] /\ canon' \in [Canon -> CanonRow] /\ seed' \in Plan \cup {None}
       /\ changes' \in 0 .. MaxChange
  BY <1>1, ChangesCount DEF GInv, TypeOK, Change
<1> QED BY <1>1, <1>4, <1>7, <1>8, <1>9, <1>10, TablesStep


-----------------------------------------------------------------------------
(* The steps of a turn *)

\* A step of t: the tables and the other turns stay as they are.
LEMMA TurnMoves ==
    ASSUME GInv, History, NEW t \in Turn, turn[t].pc # "DONE", NEW row \in TurnRow,
           turn' = [turn EXCEPT ![t] = row],
           UNCHANGED <<sub, canon, seed, changes>>, rows' \in Seq(Row), RowsKept,
           \A i \in DOMAIN rows' \ DOMAIN rows : rows'[i].turn = t /\ RowFits(i)',
           ReadsFit(t)', AttemptsFit(t)'
    PROVE  GInv'
<1>1. /\ turn' \in [Turn -> TurnRow] /\ turn'[t] = row
      /\ \A q \in Turn \ {t} : turn'[q] = turn[q]
  BY DEF GInv, TypeOK
<1>2. CachedKept
  BY <1>1 DEF GInv, AttemptsFit, CachedKept
<1>3. CanonKept /\ AnswerFitsDefinition' /\ SeedFits'
  BY DefinitionsStay DEF DefinitionsKept
<1>4. \A i \in DOMAIN rows' : RowFits(i)'
  BY <1>2, <1>3, OldRowFits
<1>5. ASSUME NEW q \in Turn PROVE ReadsFit(q)' /\ AttemptsFit(q)'
  <2>1. CASE q # t
    BY <1>1, <1>3, <2>1, TurnUntouched
  <2> QED BY <2>1
<1>6. TypeOK'
  BY <1>1, LiveKept DEF GInv, TypeOK
<1> QED BY <1>3, <1>4, <1>5, <1>6 DEF GInv

\* A step of t that adds no row and does not serve
LEMMA QuietMove ==
    ASSUME GInv, History, NEW t \in Turn, turn[t].pc # "DONE", NEW row \in TurnRow,
           turn' = [turn EXCEPT ![t] = row], row.status # "CACHED",
           UNCHANGED <<sub, canon, seed, changes>>, rows' \in Seq(Row), RowsKept,
           DOMAIN rows' = DOMAIN rows,
           row.pc \notin {"GENERAL", "DONE"} =>
               turn[t].pc \notin {"GENERAL", "DONE"} \/ OwnRows(t) = {},
           ReadsFit(t)'
    PROVE  GInv'
<1>1. turn'[t] = row
  BY DEF GInv, TypeOK
<1>2. OwnRows(t)' = OwnRows(t)
  BY SameAttempts
<1>3. AttemptsFit(t)'
  BY <1>1, <1>2 DEF GInv, AttemptsFit
<1> QED BY <1>3, TurnMoves

\* Before and after the reads of the gate there is nothing to fit.
LEMMA NoReads ==
    ASSUME GInv, NEW t \in Turn, NEW row \in TurnRow, turn' = [turn EXCEPT ![t] = row],
           row.pc \notin {"STATE", "CANONICAL", "GATE", "SERVING"}
    PROVE  ReadsFit(t)'
<1>1. turn'[t] = row
  BY DEF GInv, TypeOK
<1> QED BY <1>1 DEF ReadsFit

\* A turn has its type.
LEMMA TurnType ==
    ASSUME GInv, NEW t \in Turn
    PROVE  /\ turn[t] \in TurnRow /\ turn[t].pc \in Pc
           /\ turn[t].on \in SUBSET {"EXACT", "SEMANTIC"}
           /\ turn[t].read \in Canon \cup {None}
BY DEF GInv, TypeOK, TurnRow

\* A turn begins with nothing read and nothing attempted.
LEMMA BeginKeeps ==
    ASSUME GInv, History, NEW t \in Turn, Begin(t)
    PROVE  GInv'
<1>1. PICK on \in Profiles : turn' = [turn EXCEPT ![t] = Asked(on)]
  BY DEF Begin, Asked
<1>2. Asked(on) \in TurnRow /\ Asked(on).pc = "ASKED" /\ Asked(on).status = "PROCESSING"
  BY GroupingAssumption, PlainTurnFields
<1>3. turn[t].pc = "NONE" /\ UNCHANGED <<sub, canon, seed, rows, changes>>
  BY DEF Begin, At
<1> QED BY <1>1, <1>2, <1>3, NoReads, RowsUnchanged, QuietMove

\* A turn that ends without an answer keeps the invariant.
LEMMA EndsKeeps ==
    ASSUME GInv, History, NEW t \in Turn, Ends(t)
    PROVE  GInv'
<1>1. /\ turn' = [turn EXCEPT ![t] = Finished("ENDED")] /\ turn[t].pc # "DONE"
      /\ UNCHANGED <<sub, canon, seed, rows, changes>>
  BY DEF Ends
<1>2. /\ Finished("ENDED") \in TurnRow /\ Finished("ENDED").pc = "DONE"
      /\ Finished("ENDED").status = "ENDED"
  BY PlainTurnFields
<1> QED BY <1>1, <1>2, NoReads, RowsUnchanged, QuietMove

\* A turn that generates its answer keeps the invariant.
LEMMA GenerateKeeps ==
    ASSUME GInv, History, NEW t \in Turn, Generate(t)
    PROVE  GInv'
<1>1. /\ turn' = [turn EXCEPT ![t] = Finished("GENERATED")] /\ turn[t].pc # "DONE"
      /\ UNCHANGED <<sub, canon, seed, changes>>
      /\ rows' = [i \in DOMAIN rows |-> IF i \in Cited(t) THEN Citing(rows[i]) ELSE rows[i]]
  BY DEF Generate, At, Citing
<1>2. /\ Finished("GENERATED") \in TurnRow /\ Finished("GENERATED").pc = "DONE"
      /\ Finished("GENERATED").status = "GENERATED"
  BY PlainTurnFields
<1>3. \A i \in DOMAIN rows : rows[i] \in Row
  BY DEF GInv, TypeOK
<1>4. \A i \in DOMAIN rows : rows'[i] \in Row /\ SameRow(rows'[i], rows[i])
  BY <1>1, <1>3, RowFields
<1>5. DOMAIN rows' = DOMAIN rows /\ rows' = [i \in DOMAIN rows |-> rows'[i]]
  BY <1>1
<1>6. rows' \in Seq(Row) /\ RowsKept
  BY <1>4, <1>5, RowsChanged DEF RowsKept
<1> QED BY <1>1, <1>2, <1>5, <1>6, NoReads, QuietMove

\* The turn leaves the gate for generation.
LEMMA GoesOn ==
    ASSUME GInv, NEW t \in Turn, GoOn(t)
    PROVE  /\ turn' = [turn EXCEPT ![t] = Cleared(turn[t])]
           /\ Cleared(turn[t]) \in TurnRow
           /\ Cleared(turn[t]).pc = "GENERAL"
           /\ Cleared(turn[t]).status = turn[t].status
<1>1. turn[t] \in TurnRow
  BY TurnType
<1>2. turn' = [turn EXCEPT ![t] = Cleared(turn[t])]
  BY <1>1 DEF GoOn, Cleared, GInv, TypeOK, TurnRow
<1> QED BY <1>1, <1>2, TurnFields

\* An open turn is not answered from the cache yet.
LEMMA OpenIsNotCached ==
    ASSUME GInv, NEW t \in Turn, turn[t].pc # "DONE"
    PROVE  turn[t].status # "CACHED"
BY DEF GInv, AttemptsFit

\* A turn that leaves a path of the cache forgets what it read there.
LEMMA FallThroughKeeps ==
    ASSUME GInv, History, NEW t \in Turn, FallThrough(t)
    PROVE  GInv'
<1>1. turn[t].pc = "GATE" /\ GoOn(t) /\ UNCHANGED <<sub, canon, seed, rows, changes>>
  BY DEF FallThrough, At
<1> QED BY <1>1, GoesOn, OpenIsNotCached, NoReads, RowsUnchanged, QuietMove

\* The newest source is one of them.
LEMMA NewestSource ==
    ASSUME GInv, NEW t, Sources(t) # {}
    PROVE  Newest(Sources(t)) \in Sources(t)
<1>1. rows \in Seq(Row) /\ Len(rows) \in Nat /\ DOMAIN rows = 1 .. Len(rows)
  BY DEF GInv
<1>2. Sources(t) \in SUBSET Nat /\ \A i \in Sources(t) : i <= Len(rows)
  BY <1>1 DEF Sources
<1>3. \E i \in Sources(t) : \A j \in Sources(t) : j <= i
  BY <1>1, <1>2, Maximum
<1> QED BY <1>3 DEF Newest

\* A turn that takes up a claim
LEMMA ClaimKeeps ==
    ASSUME GInv, History, NEW t \in Turn, turn[t].pc \in {"ASKED", "GENERAL"}, OwnRows(t) = {},
           NEW claim \in Claim, claim.shown \in Canon => Known(claim.shown),
           turn' = [turn EXCEPT ![t] = WithClaim(turn[t], claim)],
           UNCHANGED <<sub, canon, seed, rows, changes>>
    PROVE  GInv'
<1> DEFINE row == WithClaim(turn[t], claim)
<1>1. row \in TurnRow /\ row.pc = "STATE" /\ row.claim = claim /\ row.status # "CACHED"
  <2>1. turn[t] \in TurnRow /\ turn[t].status # "CACHED"
    BY TurnType, OpenIsNotCached
  <2> QED BY <2>1, TurnFields
<1> HIDE DEF row
<1>2. turn'[t] = row
  BY DEF GInv, TypeOK, row
<1>3. ReadsFit(t)'
  BY <1>1, <1>2 DEF ReadsFit, Known
<1>4. turn' = [turn EXCEPT ![t] = row]
  BY DEF row
<1> QED BY <1>1, <1>3, <1>4, RowsUnchanged, QuietMove

\* A claim from an earlier row keeps the invariant: what the row presented was
\* approved.
LEMMA LookUpKeeps ==
    ASSUME GInv, History, NEW t \in Turn, LookUp(t)
    PROVE  GInv'
<1>1. turn[t].pc = "ASKED" /\ UNCHANGED <<sub, canon, seed, rows, changes>>
  BY DEF LookUp, At
<1>2. turn[t] \in TurnRow /\ OwnRows(t) = {}
  BY <1>1, TurnType DEF GInv, AttemptsFit
<1>3. CASE "EXACT" \in turn[t].on /\ Sources(t) # {}
  <2> DEFINE i == Newest(Sources(t))
             claim == [sub |-> rows[i].sub, version |-> rows[i].version,
                       shown |-> rows[i].shown, born |-> rows[i].born,
                       basis |-> IF rows[i].shown = Unrecorded THEN "UNSEEN" ELSE "SEEN"]
  <2>1. i \in DOMAIN rows /\ rows[i].decision = "CONNECT"
    BY <1>3, NewestSource DEF Sources
  <2>2. rows[i] \in Row /\ RowFits(i)
    BY <2>1 DEF GInv, TypeOK
  <2>3. rows[i].sub \in Sub /\ (rows[i].shown \in Canon => Known(rows[i].shown))
    BY <2>1, <2>2 DEF RowFits
  <2>4. claim \in Claim /\ claim.shown = rows[i].shown
    BY <2>2, <2>3 DEF Claim, Row
  <2>5. turn' = [turn EXCEPT ![t].pc = "STATE", ![t].claim = claim]
    BY <1>3 DEF LookUp
  <2> HIDE DEF i, claim
  <2>6. turn' = [turn EXCEPT ![t] = WithClaim(turn[t], claim)]
    BY <1>2, <2>5 DEF WithClaim, GInv, TypeOK, TurnRow
  <2> QED BY <1>1, <1>2, <2>3, <2>4, <2>6, ClaimKeeps
<1>4. CASE ~("EXACT" \in turn[t].on /\ Sources(t) # {})
  <2> DEFINE row == AtPc(turn[t], "GENERAL")
  <2>1. turn' = [turn EXCEPT ![t] = row]
    BY <1>4 DEF LookUp, Goto, AtPc
  <2>2. row \in TurnRow /\ row.pc = "GENERAL" /\ row.status = turn[t].status
    BY <1>2, TurnFields DEF Pc
  <2> HIDE DEF row
  <2> QED BY <1>1, <2>1, <2>2, OpenIsNotCached, NoReads, RowsUnchanged, QuietMove
<1> QED BY <1>3, <1>4

\* The canonical answer that is read is approved for the subproblem.
LEMMA CanonicalOfFits ==
    ASSUME NEW s, CanonicalOf(s) # None
    PROVE  /\ CanonicalOf(s) \in ApprovedOf(s) /\ Known(CanonicalOf(s))
           /\ canon[CanonicalOf(s)].sub = s
<1>1. CanonicalOf(s) \in ApprovedOf(s)
  BY DEF CanonicalOf
<1> QED BY <1>1 DEF ApprovedOf, Known

\* A judged claim keeps the invariant: what was presented is live.
LEMMA JudgeConnectsKeeps ==
    ASSUME GInv, History, NEW t \in Turn, JudgeConnects(t)
    PROVE  GInv'
<1>1. /\ turn[t].pc = "GENERAL" /\ OwnRows(t) = {}
      /\ UNCHANGED <<sub, canon, seed, rows, changes>>
  BY DEF JudgeConnects, At, CanJudge
<1>2. PICK s \in Catalog :
          turn' = [turn EXCEPT ![t].pc = "STATE",
              ![t].claim = [sub |-> s, version |-> sub[s].version, born |-> {},
                            shown |-> CanonicalOf(s), basis |-> "JUDGED"]]
  BY DEF JudgeConnects
<1> DEFINE claim == [sub |-> s, version |-> sub[s].version, born |-> {},
                     shown |-> CanonicalOf(s), basis |-> "JUDGED"]
<1>3. s \in Sub /\ sub[s].version \in Nat
  BY DEF Catalog, GInv, TypeOK, SubRow
<1>4. CanonicalOf(s) \in Canon \cup {None}
  BY DEF CanonicalOf, ApprovedOf
<1>5. claim \in Claim /\ claim.shown = CanonicalOf(s)
  BY <1>3, <1>4 DEF Claim
<1>6. turn[t] \in TurnRow
  BY TurnType
<1> HIDE DEF claim
<1>7. turn' = [turn EXCEPT ![t] = WithClaim(turn[t], claim)]
  BY <1>2, <1>6 DEF WithClaim, GInv, TypeOK, TurnRow, claim
<1>8. claim.shown \in Canon => Known(claim.shown)
  BY <1>5, CanonicalOfFits, GroupingAssumption
<1> QED BY <1>1, <1>5, <1>7, <1>8, ClaimKeeps


\* The state of a claimed subproblem and its one approved answer belong together.
LEMMA ReadStateKeeps ==
    ASSUME GInv, History, NEW t \in Turn, ReadState(t)
    PROVE  GInv'
<1> DEFINE s == turn[t].claim.sub
           row == WithState(turn[t], sub[s])
           claim == turn[t].claim
<1>1. turn[t].pc = "STATE" /\ UNCHANGED <<sub, canon, seed, rows, changes>>
  BY DEF ReadState, At
<1>2. turn[t] \in TurnRow /\ turn[t].status # "CACHED"
  BY <1>1, TurnType, OpenIsNotCached
<1>3. claim \in Claim /\ s \in Sub /\ (claim.shown \in Canon => Known(claim.shown))
  BY <1>1 DEF GInv, ReadsFit, Claim
<1>4. sub[s] \in SubRow
  BY <1>3 DEF GInv, TypeOK
<1>5. turn' = [turn EXCEPT ![t] = row]
  BY <1>1, <1>2 DEF ReadState, WithState, GInv, TypeOK, TurnRow
<1>6. /\ row \in TurnRow /\ row.pc = "CANONICAL" /\ row.claim = claim
      /\ row.state = sub[s] /\ row.status # "CACHED"
  BY <1>2, <1>4, TurnFields
<1> HIDE DEF s, row, claim
<1>7. turn'[t] = row
  BY <1>5 DEF GInv, TypeOK
<1>8. Servable \subseteq live'[t]
  <2>1. Open(t)'
    BY <1>6, <1>7 DEF Open
  <2>2. Servable' = Servable
    BY <1>1 DEF Servable
  <2> QED BY <2>1, <2>2, LiveKept
<1>9. ASSUME Serves(sub[s])
      PROVE  \E c \in live'[t] : ApprovedOf(s) = {c} /\ Known(c) /\ canon[c].sub = s
  <2>1. PICK c \in Canon : ApprovedOf(s) = {c} /\ canon[c].version = sub[s].version
    BY <1>3, <1>9 DEF GInv, AnswerFitsDefinition, Serves
  <2>2. canon[c].approval = "APPROVED" /\ canon[c].sub = s
    BY <2>1 DEF ApprovedOf
  <2>3. c \in Servable
    BY <1>9, <2>1, <2>2 DEF Servable, Serves
  <2> QED BY <1>8, <2>1, <2>2, <2>3 DEF Known
<1>10. ReadsFit(t)'
  <2>1. claim.shown \in Canon => KnownThen(claim.shown)
    BY <1>1, <1>3 DEF Known, KnownThen
  <2>2. Serves(row.state) => WasLiveThen(t, s)
    BY <1>1, <1>6, <1>9 DEF WasLiveThen, KnownThen, Known
  <2>3. Serves(row.state) => (claim.shown \in ApprovedOf(s) => claim.shown \in live'[t])
    BY <1>6, <1>9
  <2>4. ApprovedOf(turn[t].claim.sub)' = ApprovedOf(s)
    BY <1>1, <1>6, <1>7 DEF ApprovedOf, s, claim
  <2>5. row.claim.sub = s
    BY <1>6 DEF s, claim
  <2> QED BY <1>3, <1>4, <1>6, <1>7, <2>1, <2>2, <2>3, <2>4, <2>5
          DEF ReadsFit, Known, KnownThen, WasLive, WasLiveThen, Serves
<1> QED BY <1>1, <1>5, <1>6, <1>10, RowsUnchanged, QuietMove

\* The answer the gate reads is one of the claimed subproblem, and live, now or
\* when it was presented.
LEMMA ReadCanonicalKeeps ==
    ASSUME GInv, History, NEW t \in Turn, ReadCanonical(t)
    PROVE  GInv'
<1> DEFINE claim == turn[t].claim
           s == claim.sub
           c == CanonicalOf(s)
           state == turn[t].state
           row == WithRead(turn[t], c)
<1>1. turn[t].pc = "CANONICAL" /\ UNCHANGED <<sub, canon, seed, rows, changes>>
  BY DEF ReadCanonical, At
<1>2. turn[t] \in TurnRow /\ turn[t].status # "CACHED"
  BY <1>1, TurnType, OpenIsNotCached
<1>3. /\ claim \in Claim
      /\ claim.shown \in Canon => Known(claim.shown)
      /\ state \in SubRow
      /\ Serves(state) => WasLive(t, s)
      /\ Serves(state) => (claim.shown \in ApprovedOf(s) => claim.shown \in live[t])
  BY <1>1 DEF GInv, ReadsFit
<1>4. c \in Canon \cup {None}
  BY DEF CanonicalOf, ApprovedOf
<1>5. turn' = [turn EXCEPT ![t] = row]
  BY <1>1, <1>2 DEF ReadCanonical, WithRead, GInv, TypeOK, TurnRow
<1>6. /\ row \in TurnRow /\ row.pc = "GATE" /\ row.claim = claim
      /\ row.state = state /\ row.read = c /\ row.status # "CACHED"
  BY <1>2, <1>4, TurnFields
<1>7. c # None => c \in ApprovedOf(s) /\ Known(c) /\ canon[c].sub = s
  BY CanonicalOfFits
<1> HIDE DEF row, c
<1>8. turn'[t] = row
  BY <1>5 DEF GInv, TypeOK
<1>9. live[t] \subseteq live'[t]
  BY <1>6, <1>8, LiveKept DEF Open
<1>10. CanonKept
  BY <1>1 DEF CanonKept
<1>11. ReadsFit(t)'
  <2>1. claim.shown \in Canon => KnownThen(claim.shown)
    BY <1>3, <1>10, KnownKept
  <2>2. Serves(state) => WasLiveThen(t, s)
    BY <1>3, <1>9, <1>10, WasLiveKept
  <2>3. c # None => /\ KnownThen(c) /\ canon'[c].sub = s
                    /\ Serves(state) /\ c = claim.shown => c \in live'[t]
    BY <1>3, <1>7, <1>9, <1>10, KnownKept
  <2> HIDE DEF claim, state
  <2> QED BY <1>3, <1>6, <1>8, <2>1, <2>2, <2>3
          DEF ReadsFit, Known, KnownThen, WasLive, WasLiveThen, Serves
<1> QED BY <1>1, <1>5, <1>6, <1>11, RowsUnchanged, QuietMove

-----------------------------------------------------------------------------
(* The decision of the gate *)

\* What the gate compares as presented
LEMMA ClaimedFields ==
    ASSUME NEW t, turn[t].claim \in Claim
    PROVE  /\ Claimed(t).version = turn[t].claim.version
           /\ Claimed(t).shown = IF turn[t].claim.basis = "JUDGED" THEN turn[t].claim.shown
                                                                   ELSE turn[t].read
BY DEF Claimed, Claim

\* The gate serves what it has read, of a subproblem that it read as serving.
LEMMA GateServes ==
    ASSUME NEW t, NEW cited \in BOOLEAN, turn[t].claim \in Claim, turn[t].state \in SubRow,
           turn[t].claim.basis # "JUDGED" => ~Stale(turn[t].claim, turn[t].state, turn[t].read)
    PROVE  /\ GateOutcome(t, cited) \in Outcome
           /\ GateOutcome(t, cited) = "SERVED" =>
                 /\ turn[t].read # None /\ Serves(turn[t].state)
                 /\ canon[turn[t].read].version = turn[t].claim.version
                 /\ turn[t].claim.basis # "UNSEEN" => turn[t].read = turn[t].claim.shown
<1> DEFINE claim == turn[t].claim
           state == turn[t].state
           read == turn[t].read
           on == (IF claim.basis = "JUDGED" THEN "SEMANTIC" ELSE "EXACT") \in turn[t].on
<1>1. \/ GateOutcome(t, cited) = "REJECTED"
      \/ /\ Passes(Claimed(t), state, read, cited)
         /\ GateOutcome(t, cited) = Opened(state, on)
  BY DEF GateOutcome
<1>2. ASSUME NEW b \in BOOLEAN
      PROVE  /\ Opened(state, b) \in Outcome
             /\ Opened(state, b) = "SERVED" => state.serving = "SERVING"
  BY DEF Opened, SubRow, Serving, Outcome
<1>3. on \in BOOLEAN
  OBVIOUS
<1>4. "REJECTED" \in Outcome /\ "REJECTED" # "SERVED"
  BY DEF Outcome
<1> HIDE DEF on
<1>5. Opened(state, on) \in Outcome /\ (Opened(state, on) = "SERVED" => state.serving = "SERVING")
  BY <1>2, <1>3
<1>6. ASSUME Passes(Claimed(t), state, read, cited)
      PROVE  /\ read # None /\ state.status = "APPROVED" /\ state.enabled
             /\ canon[read].version = claim.version
             /\ claim.basis # "UNSEEN" => read = claim.shown
  <2>1. /\ Claimed(t).version = claim.version
        /\ Claimed(t).shown = IF claim.basis = "JUDGED" THEN claim.shown ELSE read
    BY ClaimedFields
  <2>2. /\ read # None /\ state.status = "APPROVED" /\ state.enabled
        /\ canon[read].version = state.version /\ Claimed(t).version = state.version
        /\ Claimed(t).shown = read
    BY <1>6 DEF Passes
  <2>3. claim.basis = "SEEN" => claim.shown = read
    BY DEF Stale
  <2>4. claim.basis \in {"JUDGED", "SEEN", "UNSEEN"}
    BY DEF Claim
  <2> QED BY <2>1, <2>2, <2>3, <2>4
<1> QED BY <1>1, <1>4, <1>5, <1>6 DEF Serves

NewRow(t, decision, outcome) ==
    LET claim == turn[t].claim
        connected == decision = "CONNECT"
    IN [turn |-> t, decision |-> decision,
        sub |-> IF connected THEN claim.sub ELSE None,
        version |-> IF connected THEN claim.version ELSE 0,
        shown |-> IF connected /\ claim.basis = "JUDGED" THEN claim.shown ELSE Unrecorded,
        attribution |-> IF connected THEN "SUBPROBLEM" ELSE "INITIAL",
        outcome |-> outcome,
        answer |-> IF outcome \in {"SERVED", "SHADOW", "GROUP_DISABLED"}
                     THEN turn[t].read ELSE None,
        approved |-> FALSE, current |-> TRUE,
        born |-> IF connected /\ claim.basis # "JUDGED" THEN Born ELSE {}]

\* The row that an attempt leaves.
LEMMA NewRowFields ==
    ASSUME GInv, NEW t \in Turn, NEW decision \in {"CONNECT", "OTHER", "FAILED"},
           NEW outcome \in Outcome, decision = "CONNECT" => turn[t].claim \in Claim
    PROVE  /\ NewRow(t, decision, outcome) \in Row
           /\ NewRow(t, decision, outcome).turn = t
           /\ NewRow(t, decision, outcome).decision = decision
           /\ NewRow(t, decision, outcome).outcome = outcome
           /\ decision = "CONNECT" =>
                 /\ NewRow(t, decision, outcome).sub = turn[t].claim.sub
                 /\ NewRow(t, decision, outcome).version = turn[t].claim.version
           /\ NewRow(t, decision, outcome).shown # Unrecorded =>
                 decision = "CONNECT" /\ NewRow(t, decision, outcome).shown = turn[t].claim.shown
           /\ outcome = "SERVED" => NewRow(t, decision, outcome).answer = turn[t].read
<1>1. turn[t].read \in Canon \cup {None} /\ Born \in SUBSET Canon
  BY TurnType DEF Born
<1>2. CASE decision = "CONNECT"
  <2>1. /\ turn[t].claim.sub \in Sub /\ turn[t].claim.version \in Nat
        /\ turn[t].claim.shown \in Canon \cup {None, Unrecorded}
    BY <1>2 DEF Claim
  <2> QED BY <1>1, <1>2, <2>1 DEF NewRow, Row
<1>3. CASE decision # "CONNECT"
  BY <1>1, <1>3 DEF NewRow, Row
<1> QED BY <1>2, <1>3

\* A step of t that writes its row: the first attempt of the turn.
LEMMA InsertMove ==
    ASSUME GInv, History, NEW t \in Turn, turn[t].pc # "DONE", OwnRows(t) = {},
           NEW row \in TurnRow, turn' = [turn EXCEPT ![t] = row], row.pc \in {"GENERAL", "DONE"},
           NEW decision \in {"CONNECT", "OTHER", "FAILED"}, NEW outcome \in Outcome,
           Insert(t, decision, outcome), UNCHANGED <<sub, canon, seed, changes>>,
           decision = "CONNECT" => /\ turn[t].claim \in Claim
                                   /\ turn[t].claim.shown \in Canon => Known(turn[t].claim.shown),
           row.status = "CACHED" <=> outcome = "SERVED",
           outcome = "SERVED" =>
              /\ decision = "CONNECT" /\ row.pc = "DONE" /\ row.claim = turn[t].claim
              /\ Known(turn[t].read)
              /\ canon[turn[t].read].sub = turn[t].claim.sub
              /\ canon[turn[t].read].version = turn[t].claim.version
              /\ WasLive(t, turn[t].claim.sub)
              /\ turn[t].claim.basis # "UNSEEN" => turn[t].read \in live[t]
    PROVE  GInv'
<1> DEFINE new == NewRow(t, decision, outcome)
           n == Len(rows) + 1
<1>1. turn'[t] = row
  BY DEF GInv, TypeOK
<1>2. /\ new \in Row /\ new.turn = t /\ new.decision = decision /\ new.outcome = outcome
      /\ decision = "CONNECT" => new.sub = turn[t].claim.sub /\ new.version = turn[t].claim.version
      /\ new.shown # Unrecorded => decision = "CONNECT" /\ new.shown = turn[t].claim.shown
      /\ outcome = "SERVED" => new.answer = turn[t].read
  BY NewRowFields
<1>3. rows' = Append(rows, new)
  BY DEF Insert, NewRow
<1> HIDE DEF new
<1>4. rows \in Seq(Row) /\ \A i \in DOMAIN rows : SameRow(rows[i], rows[i])
  BY DEF GInv, SameRow
<1>5. /\ rows' \in Seq(Row) /\ RowsKept
      /\ DOMAIN rows' \ DOMAIN rows = {n} /\ DOMAIN rows' = DOMAIN rows \cup {n}
      /\ rows'[n] = new
  BY <1>2, <1>3, <1>4, RowAppended
<1> HIDE DEF n
<1>6. CanonKept
  BY DEF CanonKept
<1>7. ASSUME outcome = "SERVED"
      PROVE  /\ KnownThen(turn[t].read)
             /\ canon'[turn[t].read].sub = turn[t].claim.sub
             /\ canon'[turn[t].read].version = turn[t].claim.version
             /\ WasLiveThen(t, turn[t].claim.sub)
             /\ turn[t].claim.basis # "UNSEEN" => turn[t].read \in live'[t]
  <2>1. live[t] \subseteq live'[t]
    BY <1>1, <1>7, LiveKept
  <2> QED BY <1>6, <1>7, <2>1, KnownKept, WasLiveKept
<1>8. decision = "CONNECT" => turn[t].claim.sub \in Sub
  BY DEF Claim
<1>9. new.shown \in Canon => KnownThen(new.shown)
  BY <1>2, <1>6, KnownKept, GroupingAssumption
<1>10. \A i \in DOMAIN rows' \ DOMAIN rows : rows'[i].turn = t /\ RowFits(i)'
  BY <1>1, <1>2, <1>5, <1>7, <1>8, <1>9
     DEF RowFits, Known, KnownThen, WasLive, WasLiveThen
<1>11. ReadsFit(t)'
  BY NoReads
<1>12. AttemptsFit(t)'
  <2>1. OwnRows(t)' = {n}
    <3>1. \A i \in DOMAIN rows : ~(rows'[i].turn = t /\ rows'[i].outcome # "NONE")
      BY <1>5 DEF OwnRows, RowsKept, SameRow
    <3>2. rows'[n].turn = t /\ rows'[n].outcome # "NONE"
      BY <1>2, <1>5 DEF Outcome
    <3> QED BY <1>5, <3>1, <3>2 DEF OwnRows
  <2>2. outcome = "SERVED" => n \in ServedRows' /\ rows'[n].turn = t
    BY <1>2, <1>5 DEF ServedRows
  <2> QED BY <1>1, <2>1, <2>2 DEF AttemptsFit
<1> QED BY <1>5, <1>10, <1>11, <1>12, TurnMoves

\* The gate decides: what is not served is recorded, what is goes on to the
\* serving transaction.
LEMMA DecideKeeps ==
    ASSUME GInv, History, NEW t \in Turn, Decide(t)
    PROVE  GInv'
<1> DEFINE claim == turn[t].claim
           state == turn[t].state
           read == turn[t].read
<1>1. /\ turn[t].pc = "GATE" /\ UNCHANGED <<sub, canon, seed, changes>>
      /\ claim.basis # "JUDGED" => ~Stale(claim, state, read)
  BY DEF Decide, At
<1>2. PICK cited \in BOOLEAN :
          IF GateOutcome(t, cited) = "SERVED"
            THEN Goto(t, "SERVING") /\ UNCHANGED rows
            ELSE GoOn(t) /\ Insert(t, "CONNECT", GateOutcome(t, cited))
  BY DEF Decide
<1>3. turn[t] \in TurnRow /\ turn[t].status # "CACHED" /\ OwnRows(t) = {}
  BY <1>1, TurnType, OpenIsNotCached DEF GInv, AttemptsFit
<1>4. /\ claim \in Claim
      /\ claim.shown \in Canon => Known(claim.shown)
      /\ state \in SubRow
      /\ Serves(state) => WasLive(t, claim.sub)
      /\ read # None => /\ Known(read) /\ canon[read].sub = claim.sub
                        /\ Serves(state) /\ read = claim.shown => read \in live[t]
  BY <1>1 DEF GInv, ReadsFit
<1>5. /\ GateOutcome(t, cited) \in Outcome
      /\ GateOutcome(t, cited) = "SERVED" =>
            /\ read # None /\ Serves(state) /\ canon[read].version = claim.version
            /\ claim.basis # "UNSEEN" => read = claim.shown
  BY <1>1, <1>4, GateServes
<1>6. CASE GateOutcome(t, cited) = "SERVED"
  <2> DEFINE row == AtPc(turn[t], "SERVING")
  <2>1. turn' = [turn EXCEPT ![t] = row]
    BY <1>2, <1>6 DEF Goto, AtPc
  <2>2. /\ row \in TurnRow /\ row.pc = "SERVING" /\ row.status # "CACHED"
        /\ row.claim = claim /\ row.state = state /\ row.read = read
    BY <1>3, TurnFields DEF Pc
  <2> HIDE DEF row
  <2>3. turn'[t] = row
    BY <2>1 DEF GInv, TypeOK
  <2>4. live[t] \subseteq live'[t]
    BY <2>2, <2>3, LiveKept DEF Open
  <2>5. CanonKept
    BY <1>1 DEF CanonKept
  <2>6. ReadsFit(t)'
    <3>1. claim.shown \in Canon => KnownThen(claim.shown)
      BY <1>4, <2>5, KnownKept
    <3>2. Serves(state) => WasLiveThen(t, claim.sub)
      BY <1>4, <2>4, <2>5, WasLiveKept
    <3>3. /\ KnownThen(read) /\ canon'[read].sub = claim.sub
          /\ canon'[read].version = claim.version
          /\ Serves(state) /\ read = claim.shown => read \in live'[t]
      BY <1>4, <1>5, <1>6, <2>4, <2>5, KnownKept
    <3>4. /\ read # None /\ Serves(state)
          /\ claim.basis # "UNSEEN" => read = claim.shown
      BY <1>5, <1>6
    <3> HIDE DEF claim, state, read
    <3> QED BY <1>4, <2>2, <2>3, <3>1, <3>2, <3>3, <3>4
            DEF ReadsFit, Known, KnownThen, WasLive, WasLiveThen, Serves
  <2>7. UNCHANGED rows
    BY <1>2, <1>6
  <2> QED BY <1>1, <1>3, <2>1, <2>2, <2>6, <2>7, RowsUnchanged, QuietMove
<1>7. CASE GateOutcome(t, cited) # "SERVED"
  <2>1. GoOn(t) /\ Insert(t, "CONNECT", GateOutcome(t, cited))
    BY <1>2, <1>7
  <2> DEFINE row == Cleared(turn[t])
  <2>2. /\ turn' = [turn EXCEPT ![t] = row] /\ row \in TurnRow
        /\ row.pc = "GENERAL" /\ row.status # "CACHED"
    BY <1>3, <2>1, GoesOn
  <2> HIDE DEF row
  <2> QED BY <1>1, <1>3, <1>4, <1>5, <1>7, <2>1, <2>2, InsertMove
<1> QED BY <1>6, <1>7

\* What is known of a turn whose answer is being committed
LEMMA ServingFits ==
    ASSUME GInv, NEW t \in Turn, turn[t].pc = "SERVING"
    PROVE  /\ turn[t].claim \in Claim
           /\ turn[t].claim.shown \in Canon => Known(turn[t].claim.shown)
           /\ OwnRows(t) = {} /\ Known(turn[t].read)
           /\ canon[turn[t].read].sub = turn[t].claim.sub
           /\ canon[turn[t].read].version = turn[t].claim.version
           /\ WasLive(t, turn[t].claim.sub)
           /\ turn[t].claim.basis # "UNSEEN" => turn[t].read \in live[t]
BY DEF GInv, ReadsFit, AttemptsFit

\* Serving records the answer that the gate let through.
LEMMA ServeKeeps ==
    ASSUME GInv, History, NEW t \in Turn, Serve(t)
    PROVE  GInv'
<1> DEFINE row == ServedAs(turn[t].claim)
<1>1. /\ turn[t].pc = "SERVING" /\ Insert(t, "CONNECT", "SERVED")
      /\ turn' = [turn EXCEPT ![t] = row] /\ UNCHANGED <<sub, canon, seed, changes>>
  BY DEF Serve, At, ServedAs
<1>2. /\ turn[t].claim \in Claim
      /\ turn[t].claim.shown \in Canon => Known(turn[t].claim.shown)
      /\ OwnRows(t) = {} /\ Known(turn[t].read)
      /\ canon[turn[t].read].sub = turn[t].claim.sub
      /\ canon[turn[t].read].version = turn[t].claim.version
      /\ WasLive(t, turn[t].claim.sub)
      /\ turn[t].claim.basis # "UNSEEN" => turn[t].read \in live[t]
  BY <1>1, ServingFits
<1>3. row \in TurnRow /\ row.pc = "DONE" /\ row.status = "CACHED" /\ row.claim = turn[t].claim
  BY <1>2, PlainTurnFields
<1>4. "SERVED" \in Outcome
  BY DEF Outcome
<1> HIDE DEF row
<1> QED BY <1>1, <1>2, <1>3, <1>4, InsertMove

\* A serving transaction that fails records the attempt without an answer.
LEMMA ServeFailsKeeps ==
    ASSUME GInv, History, NEW t \in Turn, ServeFails(t)
    PROVE  GInv'
<1> DEFINE row == Cleared(turn[t])
<1>1. /\ turn[t].pc = "SERVING" /\ Insert(t, "CONNECT", "REJECTED") /\ GoOn(t)
      /\ UNCHANGED <<sub, canon, seed, changes>>
  BY DEF ServeFails, At
<1>2. /\ turn' = [turn EXCEPT ![t] = row] /\ row \in TurnRow
      /\ row.pc = "GENERAL" /\ row.status # "CACHED"
  BY <1>1, GoesOn, OpenIsNotCached
<1>3. "REJECTED" \in Outcome
  BY DEF Outcome
<1> HIDE DEF row
<1> QED BY <1>1, <1>2, <1>3, ServingFits, InsertMove

\* A judge that finds nothing, or fails, leaves a row that serves nothing.
LEMMA JudgeDeclinesKeeps ==
    ASSUME GInv, History, NEW t \in Turn, JudgeDeclines(t)
    PROVE  GInv'
<1>1. /\ turn[t].pc = "GENERAL" /\ OwnRows(t) = {}
      /\ UNCHANGED <<sub, canon, seed, turn, changes>>
      /\ Insert(t, "OTHER", "REJECTED") \/ Insert(t, "FAILED", "FAILED")
  BY DEF JudgeDeclines, At, CanJudge
<1>2. turn' = [turn EXCEPT ![t] = turn[t]] /\ turn[t] \in TurnRow /\ turn[t].status # "CACHED"
  BY <1>1, TurnType, OpenIsNotCached DEF GInv, TypeOK
<1>3. {"REJECTED", "FAILED"} \subseteq Outcome
  BY DEF Outcome
<1> QED BY <1>1, <1>2, <1>3, InsertMove

-----------------------------------------------------------------------------
(* The initial state and every step *)

\* The invariant holds before the first seed and the first turn.
LEMMA InitGInv == Init => GInv
<1> SUFFICES ASSUME Init PROVE GInv
  OBVIOUS
<1>1. TypeOK
  <2>1. turn \in [Turn -> TurnRow]
    BY PlainTurnFields DEF Init
  <2>2. sub \in [Sub -> SubRow] /\ canon \in [Canon -> CanonRow]
    BY DEF Init, SubRow, CanonRow, Serving
  <2>3. changes \in 0 .. MaxChange
    BY GroupingAssumption DEF Init
  <2>4. live \in [Turn -> SUBSET Canon] /\ seed \in Plan \cup {None}
    BY DEF Init
  <2>5. \A i \in DOMAIN rows : rows[i] \in Row
    BY DEF Init
  <2> QED BY <2>1, <2>2, <2>3, <2>4, <2>5 DEF TypeOK
<1>2. rows \in Seq(Row) /\ DOMAIN rows = {}
  BY DEF Init
<1>3. AnswerFitsDefinition /\ SeedFits
  BY DEF Init, AnswerFitsDefinition, SeedFits
<1>4. \A t \in Turn : ReadsFit(t) /\ AttemptsFit(t)
  BY <1>2, PlainTurnFields DEF Init, ReadsFit, AttemptsFit, OwnRows
<1> QED BY <1>1, <1>2, <1>3, <1>4 DEF GInv

\* Every step keeps the invariant.
LEMMA NextGInv == GInv /\ [Next]_vars => GInv'
<1> SUFFICES ASSUME GInv, [Next]_vars PROVE GInv'
  OBVIOUS
<1>1. CASE Next
  <2>1. History
    BY <1>1 DEF Next
  <2>2. CASE SeedCommits
    BY <2>1, <2>2, SeedCommitsKeeps
  <2>3. CASE SeedFails
    BY <2>1, <2>3, SeedFailsKeeps
  <2>4. ASSUME NEW s \in Sub, SeedPlans(s) \/ DocumentSwitches(s) \/ Withdraw(s) PROVE GInv'
    BY <2>1, <2>4, SeedPlansKeeps, DocumentSwitchesKeeps, WithdrawKeeps
  <2>5. ASSUME NEW i \in DOMAIN rows, Approve(i) PROVE GInv'
    BY <2>1, <2>5, ApproveKeeps
  <2>6. ASSUME NEW t \in Turn, NEW s \in Sub, Connect(t, s) PROVE GInv'
    BY <2>1, <2>6, ConnectKeeps
  <2>7. ASSUME NEW t \in Turn, TurnStep(t) PROVE GInv'
    BY <2>1, <2>7, BeginKeeps, LookUpKeeps, ReadStateKeeps, ReadCanonicalKeeps, FallThroughKeeps,
       DecideKeeps, ServeKeeps, ServeFailsKeeps, JudgeConnectsKeeps, JudgeDeclinesKeeps,
       GenerateKeeps, EndsKeeps DEF TurnStep
  <2> QED BY <1>1, <2>2, <2>3, <2>4, <2>5, <2>6, <2>7 DEF Next
<1>2. CASE UNCHANGED vars
  <2>1. UNCHANGED <<sub, canon, seed, rows, turn, changes, live>>
    BY <1>2 DEF vars
  <2>2. /\ TypeOK' /\ rows' \in Seq(Row) /\ AnswerFitsDefinition' /\ SeedFits'
    BY <2>1 DEF GInv, TypeOK, AnswerFitsDefinition, SeedFits, ApprovedOf
  <2>3. \A i \in DOMAIN rows' : RowFits(i)'
    BY <2>1 DEF GInv, RowFits, Known, WasLive
  <2>4. \A t \in Turn : ReadsFit(t)' /\ AttemptsFit(t)'
    BY <2>1 DEF GInv, ReadsFit, AttemptsFit, Known, WasLive, ApprovedOf, OwnRows, ServedRows
  <2> QED BY <2>2, <2>3, <2>4 DEF GInv
<1> QED BY <1>1, <1>2

-----------------------------------------------------------------------------
(* The theorems *)

\* The invariant holds in every reachable state.
THEOREM Invariance == Spec => []GInv
BY InitGInv, NextGInv, PTL DEF Spec

\* Every variable keeps its type.
THEOREM TypeCorrect == Spec => []TypeOK
<1>1. GInv => TypeOK
  BY DEF GInv
<1> QED BY <1>1, Invariance, PTL

\* Every subproblem has one approved canonical answer, of the version in force
\* (uq_canonical_answers_subproblem_id_approved, plan_subproblem).
THEOREM AnswersFit == Spec => []AnswerFitsDefinition
<1>1. GInv => AnswerFitsDefinition
  BY DEF GInv
<1> QED BY <1>1, Invariance, PTL

\* A turn is answered from the cache exactly if its one attempt says SERVED, with
\* an answer of the subproblem and version that its row names.
THEOREM AttemptsMatch == Spec => []AttemptMatchesAnswer
<1>1. ASSUME GInv PROVE AttemptMatchesAnswer
  <2> SUFFICES ASSUME NEW t \in Turn
               PROVE  /\ turn[t].status = "CACHED" <=> \E i \in ServedRows : rows[i].turn = t
                      /\ Cardinality(OwnRows(t)) <= 1
                      /\ \A i \in OwnRows(t) : rows[i].outcome = "SERVED" =>
                            /\ canon[rows[i].answer].sub = rows[i].sub
                            /\ canon[rows[i].answer].version = rows[i].version
    BY DEF AttemptMatchesAnswer
  <2>1. turn[t].status = "CACHED" <=> \E i \in ServedRows : rows[i].turn = t
    BY <1>1 DEF GInv, AttemptsFit, RowFits, ServedRows
  <2>2. Cardinality(OwnRows(t)) <= 1
    <3>1. \A i, j \in OwnRows(t) : i = j
      BY <1>1 DEF GInv, AttemptsFit
    <3>2. OwnRows(t) = {} \/ \E i : OwnRows(t) = {i}
      BY <3>1
    <3>3. Cardinality(OwnRows(t)) = 0 \/ Cardinality(OwnRows(t)) = 1
      BY <3>2, FS_EmptySet, FS_Singleton
    <3> QED BY <3>3
  <2>3. \A i \in OwnRows(t) : i \in DOMAIN rows
    BY DEF OwnRows
  <2> QED BY <1>1, <2>1, <2>2, <2>3 DEF GInv, RowFits
<1> QED BY <1>1, Invariance, PTL

\* What was served after a judgment, or after an approved question whose presented
\* answer is known, could be served as a whole at some moment of the turn.
THEOREM JudgedWereLive == Spec => []JudgedAnswersWereLive
<1>1. GInv => JudgedAnswersWereLive
  BY DEF GInv, RowFits, ServedRows, JudgedAnswersWereLive
<1> QED BY <1>1, Invariance, PTL

\* Nothing is served for a subproblem that could not be served at any moment of
\* the turn, whatever path it takes.
THEOREM StoppedStays == Spec => []StoppedIsNotServed
<1>1. GInv => StoppedIsNotServed
  BY DEF GInv, RowFits, WasLive, ServedRows, StoppedIsNotServed
<1> QED BY <1>1, Invariance, PTL

=============================================================================
