-------------------------- MODULE TurnStream_proofs --------------------------
(***************************************************************************)
(* Proofs about ChatTurn and about its composition TurnStream, for any     *)
(* number of conversations, turns, crashes and feedback requests, with or  *)
(* without losses.                                                         *)
(*                                                                         *)
(* Every step of ChatTurn is of one of four kinds: a turn moves on or ends *)
(* (Moves), a turn begins and closes the stale ones before it (Ask), a     *)
(* process dies, or only clocks and clients move. The worker's actions are *)
(* looked at once, in MovesOn; the invariants are then proved of the four  *)
(* kinds.                                                                  *)
(*                                                                         *)
(* The turns of the composition take the steps of ChatTurn, so that its    *)
(* invariant holds here as well (TurnsKeep). What was sent to a client and *)
(* what is still in its queue are read as one line of events: the stages   *)
(* in their order, and once the task has replied one terminal event and    *)
(* the sentinel. Putting an event prolongs the line, sending moves the     *)
(* place where it is cut.                                                  *)
(***************************************************************************)
EXTENDS TurnStream, DataLemmas


-----------------------------------------------------------------------------
(* The inductive invariant *)

OpenCalls(r) == {p \in Purpose : call[r][p] = "PROCESSING"}

\* The calls that may stay open when a turn ends with status s
Unclosed(s) == IF Losses /\ s = "ERROR" THEN {"ANSWER_GENERATION"} ELSE {}

\* The calls that may be open where a task stands. A task that is gone, that is
\* about to record a failure or that could not record one may leave any open.
\* Where the generation has raised, the search's call may be open, or one of the
\* generation that nobody knows of.
CallsAt(pc) ==
    CASE pc = "REWRITING" -> {"QUERY_REWRITE"}
      [] pc \in {"EMBEDDING", "RETRIEVED"} -> {"QUERY_EMBEDDING"}
      [] pc = "REEMBEDDING" -> {"QUERY_EMBEDDING", "QUESTION_EMBEDDING"}
      [] pc = "JUDGING" -> {"QUESTION_CLASSIFICATION"}
      [] pc = "GENERATING" -> {"ANSWER_GENERATION"}
      [] pc = "RAISED" -> {"QUERY_EMBEDDING"} \cup Unclosed("ERROR")
      [] pc = "RAISED_JUDGED" -> Unclosed("ERROR")
      [] pc \in {"NONE", "FAILING", "REPLYING"} -> Purpose
      [] OTHER -> {}

\* A turn that has begun has a conversation, another one has neither calls nor
\* a task; and the numbers of all turns are bounded.
KnownTurns ==
    /\ \A r \in Run : run[r].status = "NONE" <=> run[r].conv = None
    /\ \A r \in Run : run[r].status = "NONE" => OpenCalls(r) = {} /\ worker[r].pc = "NONE"
    /\ \E b \in Nat : \A r \in Run : run[r].no <= b

Typed == TypeOK /\ KnownTurns

\* What a task did not start, or has moved past, is closed.
CallsFit == \A r \in Run : OpenCalls(r) \subseteq CallsAt(worker[r].pc)

\* Turns that may be named in the context of r
Precedes(q, r) ==
    /\ run[q].conv = run[r].conv
    /\ run[q].no < run[r].no
    /\ run[q].status \in Answered

\* What a task has read for the rewrite still holds when it is written down.
ReadsHold == \A r \in Run : \A q \in worker[r].read : Precedes(q, r)

-----------------------------------------------------------------------------
(* The kinds of steps *)

\* Rows and tasks with some fields changed
WithStatus(row, s) == [row EXCEPT !.status = s]
WithContext(row, x) == [row EXCEPT !.context = x]
TaskAt(task, pc) == [task EXCEPT !.pc = pc]
TaskSays(task, pc, s) == [task EXCEPT !.pc = pc, !.says = s]
TaskReads(task, pc, x) == [task EXCEPT !.pc = pc, !.read = x]

\* The row of a turn that moves: as it was, ended with every call closed that
\* is known to be there, or given a part of what the task has read as its
\* context.
RowMoves(r) ==
    \/ run'[r] = run[r]
    \/ /\ Processing(r)
       /\ \E s \in Ended : run'[r] = WithStatus(run[r], s) /\ OpenCalls(r)' \subseteq Unclosed(s)
    \/ /\ Processing(r)
       /\ \E x \in SUBSET worker[r].read : run'[r] = WithContext(run[r], x)

\* One turn moves. Its calls change only while it is open.
Moves(r) ==
    /\ UNCHANGED <<conv, told, old, crashes>>
    /\ run' \in [Run -> RunRow] /\ call' \in [Run -> [Purpose -> CallState]]
    /\ worker' \in [Run -> Worker]
    /\ idle' \subseteq Conv /\ reply' \in [Run -> Saying]
    /\ \A q \in Run \ {r} : run'[q] = run[q] /\ call'[q] = call[q] /\ worker'[q] = worker[q]
    /\ RowMoves(r)
    /\ Processing(r) \/ call'[r] = call[r]
    /\ worker[r].pc # "NONE"
    /\ worker'[r].read \subseteq worker[r].read \/ worker'[r].read = Candidates(r)
    /\ OpenCalls(r)' \subseteq CallsAt(worker'[r].pc)

\* Changing one field of a row leaves the others alone.
LEMMA RowFields ==
    ASSUME NEW row \in RunRow
    PROVE  /\ \A s \in Ended \cup {"NONE", "PROCESSING"} :
                 /\ WithStatus(row, s) \in RunRow
                 /\ WithStatus(row, s).status = s
                 /\ WithStatus(row, s).conv = row.conv
                 /\ WithStatus(row, s).no = row.no
                 /\ WithStatus(row, s).context = row.context
           /\ \A x \in SUBSET Run :
                 /\ WithContext(row, x) \in RunRow
                 /\ WithContext(row, x).status = row.status
                 /\ WithContext(row, x).conv = row.conv
                 /\ WithContext(row, x).no = row.no
                 /\ WithContext(row, x).context = x
BY DEF RunRow, WithStatus, WithContext

\* What is left of a task when it goes on, has something to say, or has read
\* its context.
LEMMA TaskFields ==
    ASSUME NEW task \in Worker, NEW pc \in Pc
    PROVE  /\ TaskAt(task, pc) \in Worker
           /\ TaskAt(task, pc).pc = pc
           /\ TaskAt(task, pc).read = task.read
           /\ \A s \in Saying :
                 /\ TaskSays(task, pc, s) \in Worker
                 /\ TaskSays(task, pc, s).pc = pc
                 /\ TaskSays(task, pc, s).read = task.read
           /\ \A x \in SUBSET Run :
                 /\ TaskReads(task, pc, x) \in Worker
                 /\ TaskReads(task, pc, x).pc = pc
                 /\ TaskReads(task, pc, x).read = x
BY DEF Worker, TaskAt, TaskSays, TaskReads

\* No task is a task that is nowhere and has read nothing.
LEMMA NoTask == NoWorker \in Worker /\ NoWorker.pc = "NONE" /\ NoWorker.read = {}
BY DEF NoWorker, Worker, Pc, Saying

\* Respond leaves a task that holds nothing but a response.
LEMMA RespondEffect ==
    ASSUME TypeOK, NEW r \in Run, NEW says \in Answered \cup {"ERROR"}, Respond(r, says)
    PROVE  /\ worker' \in [Run -> Worker]
           /\ worker'[r].pc = "REPLYING" /\ worker'[r].read = {}
           /\ \A q \in Run \ {r} : worker'[q] = worker[q]
<1>1. PICK s \in Answered \cup {"ERROR"} :
         worker' = [worker EXCEPT ![r] = TaskSays(NoWorker, "REPLYING", s)]
  BY DEF Respond, Reported, TaskSays
<1>2. "REPLYING" \in Pc /\ s \in Saying
  BY DEF Pc, Saying
<1> DEFINE task == TaskSays(NoWorker, "REPLYING", s)
<1>3. task \in Worker /\ task.pc = "REPLYING" /\ task.read = {}
  BY <1>2, NoTask, TaskFields
<1> HIDE DEF task
<1> QED BY <1>1, <1>3 DEF TypeOK, task

\* A task goes to another place.
LEMMA GotoEffect ==
    ASSUME TypeOK, NEW r \in Run, NEW pc \in Pc, Goto(r, pc)
    PROVE  /\ worker' \in [Run -> Worker]
           /\ worker'[r].pc = pc /\ worker'[r].read = worker[r].read
           /\ \A q \in Run \ {r} : worker'[q] = worker[q]
<1>1. worker' = [worker EXCEPT ![r] = TaskAt(worker[r], pc)]
  BY DEF Goto, TaskAt
<1> QED BY <1>1, TaskFields DEF TypeOK

\* Finish closes an open turn and nothing else.
LEMMA FinishEffect ==
    ASSUME TypeOK, NEW r \in Run, NEW status \in Answered \cup {"ERROR"}, Finish(r, status)
    PROVE  /\ Processing(r)
           /\ run' \in [Run -> RunRow]
           /\ run'[r] = WithStatus(run[r], status)
           /\ \A q \in Run \ {r} : run'[q] = run[q]
           /\ idle' \subseteq Conv
<1>1. run' = [run EXCEPT ![r] = WithStatus(run[r], status)]
  BY DEF Finish, WithStatus
<1>2. WithStatus(run[r], status) \in RunRow
  BY RowFields DEF TypeOK, Ended
<1> QED BY <1>1, <1>2 DEF Finish, TypeOK

\* A step that ends the turn moves it.
LEMMA FinishMoves ==
    ASSUME TypeOK, NEW r \in Run, NEW status \in Answered \cup {"ERROR"}, Finish(r, status),
           worker[r].pc # "NONE", UNCHANGED world,
           call' \in [Run -> [Purpose -> CallState]],
           \A q \in Run \ {r} : call'[q] = call[q],
           OpenCalls(r)' \subseteq Unclosed(status)
    PROVE  Moves(r)
<1>1. Respond(r, status)
  BY DEF Finish
<1>2. RowMoves(r)
  BY FinishEffect DEF RowMoves, Ended
<1>3. OpenCalls(r)' \subseteq CallsAt("REPLYING")
  BY DEF OpenCalls, CallsAt
<1> QED
  BY <1>1, <1>2, <1>3, FinishEffect, RespondEffect DEF Moves, world, TypeOK

\* A task goes on, perhaps with other calls, and leaves the rows alone.
LEMMA GotoMoves ==
    ASSUME TypeOK, NEW r \in Run, NEW pc \in Pc, Goto(r, pc),
           worker[r].pc # "NONE", UNCHANGED <<world, idle, run>>,
           call' \in [Run -> [Purpose -> CallState]],
           \A q \in Run \ {r} : call'[q] = call[q],
           Processing(r) \/ call' = call,
           OpenCalls(r)' \subseteq CallsAt(pc)
    PROVE  Moves(r)
<1>1. /\ worker' \in [Run -> Worker]
      /\ worker'[r].pc = pc /\ worker'[r].read = worker[r].read
      /\ \A q \in Run \ {r} : worker'[q] = worker[q]
  BY GotoEffect
<1>2. /\ UNCHANGED <<conv, told, old, crashes, run>>
      /\ idle' \subseteq Conv /\ reply' \in [Run -> Saying]
  BY DEF world, TypeOK
<1>3. run' \in [Run -> RunRow] /\ RowMoves(r)
  BY <1>2 DEF RowMoves, TypeOK
<1> QED
  BY <1>1, <1>2, <1>3 DEF Moves

\* Closing or starting a call, and what is open then.
LEMMA CallsChange ==
    ASSUME NEW calls \in [Purpose -> CallState], NEW p \in Purpose
    PROVE  /\ Start(calls, p) \in [Purpose -> CallState]
           /\ Closed(calls, p) \in [Purpose -> CallState]
           /\ Abandoned(calls) \in [Purpose -> CallState]
           /\ \A q \in Purpose : Start(calls, p)[q] = "PROCESSING" <=> q = p \/ calls[q] = "PROCESSING"
           /\ \A q \in Purpose : Closed(calls, p)[q] = "PROCESSING" <=> q # p /\ calls[q] = "PROCESSING"
           /\ \A q \in Purpose : Abandoned(calls)[q] # "PROCESSING"
BY DEF Start, Closed, Abandoned, CallState

\* The names that the steps below use are purposes and places of a task.
LEMMA Purposes ==
    /\ {"QUERY_REWRITE", "QUERY_EMBEDDING", "QUESTION_EMBEDDING",
        "QUESTION_CLASSIFICATION", "ANSWER_GENERATION"} \subseteq Purpose
    /\ "STARTED" \in Pc /\ "FAILING" \in Pc
BY DEF Purpose, Pc

\* With both embeddings closed a turn that had nothing else open has nothing open.
LEMMA EmbeddingsChange ==
    ASSUME NEW calls \in [Purpose -> CallState],
           \A p \in Purpose : calls[p] = "PROCESSING" => p \in {"QUERY_EMBEDDING", "QUESTION_EMBEDDING"}
    PROVE  /\ EmbeddingsClosed(calls) \in [Purpose -> CallState]
           /\ \A p \in Purpose : EmbeddingsClosed(calls)[p] # "PROCESSING"
<1> DEFINE first == Closed(calls, "QUERY_EMBEDDING")
<1>1. /\ first \in [Purpose -> CallState]
      /\ \A p \in Purpose : first[p] = "PROCESSING" => p = "QUESTION_EMBEDDING"
  BY Purposes, CallsChange
<1>2. EmbeddingsClosed(calls) = Closed(first, "QUESTION_EMBEDDING")
  BY DEF EmbeddingsClosed
<1> HIDE DEF first
<1>3. Closed(first, "QUESTION_EMBEDDING") \in [Purpose -> CallState]
  BY <1>1, Purposes, CallsChange
<1>4. \A q \in Purpose : Closed(first, "QUESTION_EMBEDDING")[q] = "PROCESSING"
         <=> q # "QUESTION_EMBEDDING" /\ first[q] = "PROCESSING"
  BY <1>1, Purposes, CallsChange
<1> QED BY <1>1, <1>2, <1>3, <1>4

\* The calls of one turn are replaced by others.
LEMMA CallsOfOne ==
    ASSUME TypeOK, NEW r \in Run, NEW calls \in [Purpose -> CallState],
           call' = [call EXCEPT ![r] = calls]
    PROVE  /\ call' \in [Run -> [Purpose -> CallState]]
           /\ call'[r] = calls
           /\ \A q \in Run \ {r} : call'[q] = call[q]
BY DEF TypeOK

\* A turn with its last call closed has none open.
LEMMA EndingMoves ==
    ASSUME TypeOK, NEW r \in Run, NEW status \in Answered \cup {"ERROR"}, Finish(r, status),
           worker[r].pc # "NONE", UNCHANGED world,
           NEW p \in Purpose, OpenCalls(r) \subseteq {p},
           call' = [call EXCEPT ![r] = Closed(@, p)]
    PROVE  Moves(r)
<1>1. call[r] \in [Purpose -> CallState]
  BY DEF TypeOK
<1>2. Closed(call[r], p) \in [Purpose -> CallState]
  BY <1>1, CallsChange
<1>3. /\ call' \in [Run -> [Purpose -> CallState]]
      /\ call'[r] = Closed(call[r], p)
      /\ \A q \in Run \ {r} : call'[q] = call[q]
  BY <1>2, CallsOfOne
<1>6. \A q \in Purpose : Closed(call[r], p)[q] = "PROCESSING" <=> q # p /\ call[r][q] = "PROCESSING"
  BY <1>1, CallsChange
<1>4. \A q \in Purpose : call'[r][q] = "PROCESSING" => q # p /\ call[r][q] = "PROCESSING"
  BY <1>3, <1>6
<1>5. OpenCalls(r)' = {}
  BY <1>4 DEF OpenCalls
<1> QED BY <1>3, <1>5, FinishMoves

\* A task of an open turn goes on with other calls.
LEMMA CallMoves ==
    ASSUME TypeOK, NEW r \in Run, NEW pc \in Pc, Goto(r, pc),
           worker[r].pc # "NONE", UNCHANGED <<world, idle, run>>, Processing(r),
           NEW calls \in [Purpose -> CallState], call' = [call EXCEPT ![r] = calls],
           \A p \in Purpose : calls[p] = "PROCESSING" => p \in CallsAt(pc)
    PROVE  Moves(r)
<1>1. /\ call' \in [Run -> [Purpose -> CallState]]
      /\ call'[r] = calls
      /\ \A q \in Run \ {r} : call'[q] = call[q]
  BY CallsOfOne
<1>2. OpenCalls(r)' \subseteq CallsAt(pc)
  BY <1>1 DEF OpenCalls
<1> QED BY <1>1, <1>2, GotoMoves

\* The same of a step that commits, whether the commit is reported or not.
LEMMA CommitMoves ==
    ASSUME TypeOK, NEW r \in Run, NEW pc \in Pc, NEW raised \in Pc, Commits(r, pc, raised),
           worker[r].pc # "NONE", UNCHANGED <<world, idle, run>>, Processing(r),
           NEW calls \in [Purpose -> CallState], call' = [call EXCEPT ![r] = calls],
           \A p \in Purpose : calls[p] = "PROCESSING" => p \in CallsAt(pc),
           Losses => \A p \in Purpose : calls[p] = "PROCESSING" => p \in CallsAt(raised)
    PROVE  Moves(r)
<1>1. Goto(r, pc) \/ (Losses /\ Goto(r, raised))
  BY DEF Commits, Reported
<1> QED BY <1>1, CallMoves

\* Whatever is open may be open where a failure is about to be recorded.
LEMMA CheckpointMoves ==
    ASSUME TypeOK, NEW r \in Run, NEW pc \in Pc, Commits(r, pc, "FAILING"),
           worker[r].pc # "NONE", UNCHANGED <<world, idle, run>>, Processing(r),
           NEW calls \in [Purpose -> CallState], call' = [call EXCEPT ![r] = calls],
           \A p \in Purpose : calls[p] = "PROCESSING" => p \in CallsAt(pc)
    PROVE  Moves(r)
<1>1. "FAILING" \in Pc /\ CallsAt("FAILING") = Purpose
  BY DEF Pc, CallsAt
<1> QED BY <1>1, CommitMoves

\* Every step of a task, and every way it ends, moves its turn.
LEMMA MovesOn ==
    ASSUME Typed, CallsFit, NEW r \in Run,
           WorkerStep(r) \/ FailUnrecorded(r) \/ Disconnect(r) \/ Lost(r)
    PROVE  Moves(r)
<1> USE DEF Typed, At
<1> DEFINE mine == call[r]
<1>a. mine \in [Purpose -> CallState] /\ r \in Run
  BY DEF TypeOK
<1>b. OpenCalls(r) \subseteq CallsAt(worker[r].pc)
  BY DEF CallsFit
<1>1. CASE ServeExact(r)
  <2>1. OpenCalls(r) = {}
    BY <1>1, <1>b DEF ServeExact, CallsAt
  <2>2. call' = call
    BY <1>1 DEF ServeExact
  <2>3. OpenCalls(r)' = {}
    BY <2>1, <2>2 DEF OpenCalls
  <2> QED BY <1>1, <2>2, <2>3, FinishMoves DEF ServeExact, TypeOK, Answered
<1>2. CASE StartRewrite(r)
  <2>0. PICK next \in {"REWRITING", "FAILING"} :
           worker' = [worker EXCEPT ![r] = TaskReads(worker[r], next, Candidates(r))]
    BY <1>2 DEF StartRewrite, Reported, TaskReads
  <2> DEFINE calls == Start(mine, "QUERY_REWRITE")
             task == TaskReads(worker[r], next, Candidates(r))
  <2>1. calls \in [Purpose -> CallState] /\ \A p \in Purpose : calls[p] = "PROCESSING" => p \in CallsAt(next)
    <3>1. CallsAt(worker[r].pc) = {}
      BY <1>2 DEF StartRewrite, CallsAt
    <3> QED BY <1>a, <1>b, <2>0, <3>1, Purposes, CallsChange DEF OpenCalls, CallsAt
  <2>2. /\ Processing(r) /\ worker[r].pc # "NONE"
        /\ call' = [call EXCEPT ![r] = calls] /\ UNCHANGED <<world, idle, run>>
    BY <1>2 DEF StartRewrite
  <2>3. worker' = [worker EXCEPT ![r] = task]
    BY <2>0
  <2>4. task \in Worker /\ task.pc = next /\ task.read = Candidates(r)
    <3>1. Candidates(r) \in SUBSET Run
      BY DEF Candidates, TurnsOf
    <3>2. worker[r] \in Worker /\ next \in Pc
      BY DEF TypeOK, Pc
    <3> QED BY <3>1, <3>2, TaskFields
  <2> HIDE DEF calls, task
  <2>5. /\ call' \in [Run -> [Purpose -> CallState]]
        /\ call'[r] = calls
        /\ \A q \in Run \ {r} : call'[q] = call[q]
    BY <2>1, <2>2, CallsOfOne
  <2>6. /\ worker' \in [Run -> Worker] /\ worker'[r].pc = next
        /\ worker'[r].read = Candidates(r)
        /\ \A q \in Run \ {r} : worker'[q] = worker[q]
    BY <2>3, <2>4 DEF TypeOK
  <2>7. OpenCalls(r)' \subseteq CallsAt(worker'[r].pc)
    BY <2>1, <2>5, <2>6 DEF OpenCalls
  <2> QED BY <2>2, <2>5, <2>6, <2>7 DEF Moves, RowMoves, world, TypeOK
<1>3. CASE RewriteAnswers(r)
  <2> DEFINE calls == Closed(mine, "QUERY_REWRITE")
  <2>1. calls \in [Purpose -> CallState] /\ \A p \in Purpose : calls[p] # "PROCESSING"
    <3>1. CallsAt(worker[r].pc) = {"QUERY_REWRITE"}
      BY <1>3 DEF RewriteAnswers, CallsAt
    <3> QED BY <1>a, <1>b, <3>1, Purposes, CallsChange DEF OpenCalls, CallsAt
  <2>2. /\ Processing(r) /\ worker[r].pc # "NONE"
        /\ call' = [call EXCEPT ![r] = calls] /\ UNCHANGED <<world, idle>>
    BY <1>3 DEF RewriteAnswers
  <2> HIDE DEF calls
  <2>3. CASE UNCHANGED run /\ Commits(r, "AMBIGUOUS", "FAILING")
    <3>1. UNCHANGED <<world, idle, run>>
      BY <2>2, <2>3
    <3> QED BY <2>1, <2>2, <2>3, <3>1, CheckpointMoves DEF Pc
  <2>4. ASSUME NEW x \in SUBSET worker[r].read, run' = [run EXCEPT ![r].context = x],
                      Commits(r, "RESOLVED", "FAILING")
        PROVE  Moves(r)
    <3> DEFINE row == WithContext(run[r], x)
    <3>1. run' = [run EXCEPT ![r] = row]
      BY <2>4 DEF WithContext
    <3>2. row \in RunRow
      <4>1. run[r] \in RunRow /\ x \in SUBSET Run
        BY DEF TypeOK, Worker
      <4> QED BY <4>1, RowFields
    <3> HIDE DEF row
    <3>3. run' \in [Run -> RunRow] /\ run'[r] = row /\ \A q \in Run \ {r} : run'[q] = run[q]
      BY <3>1, <3>2 DEF TypeOK
    <3>4. RowMoves(r)
      BY <2>2, <3>3 DEF RowMoves, row
    <3>5. /\ call' \in [Run -> [Purpose -> CallState]]
          /\ call'[r] = calls
          /\ \A q \in Run \ {r} : call'[q] = call[q]
      BY <2>1, <2>2, CallsOfOne
    <3>6. OpenCalls(r)' = {}
      BY <2>1, <3>5 DEF OpenCalls
    <3>7. /\ worker' \in [Run -> Worker] /\ worker'[r].read = worker[r].read
          /\ \A q \in Run \ {r} : worker'[q] = worker[q]
      <4>1. Goto(r, "RESOLVED") \/ Goto(r, "FAILING")
        BY <2>4 DEF Commits, Reported
      <4> QED BY <4>1, GotoEffect DEF Pc
    <3> QED BY <2>2, <3>3, <3>4, <3>5, <3>6, <3>7 DEF Moves, world, TypeOK
  <2> QED BY <1>3, <2>3, <2>4 DEF RewriteAnswers
<1>4. CASE RewriteFails(r) \/ SearchFails(r)
  <2>1. PICK p \in {"QUERY_REWRITE", "QUERY_EMBEDDING"} :
           CallsAt(worker[r].pc) \subseteq {p} /\ call' = [call EXCEPT ![r] = Closed(@, p)]
    BY <1>4 DEF RewriteFails, SearchFails, Searches, CallsAt
  <2>2. Finish(r, "ERROR") /\ worker[r].pc # "NONE" /\ UNCHANGED world
    BY <1>4 DEF RewriteFails, SearchFails, Searches
  <2> QED BY <1>b, <2>1, <2>2, Purposes, EndingMoves
<1>5. CASE WithholdAmbiguous(r)
  <2>1. OpenCalls(r) = {}
    BY <1>5, <1>b DEF WithholdAmbiguous, CallsAt
  <2>2. call' = call
    BY <1>5 DEF WithholdAmbiguous
  <2>3. OpenCalls(r)' = {}
    BY <2>1, <2>2 DEF OpenCalls
  <2> QED BY <1>5, <2>2, <2>3, FinishMoves DEF WithholdAmbiguous, TypeOK, Answered
<1>6. CASE StartEmbedding(r)
  <2> DEFINE calls == Start(mine, "QUERY_EMBEDDING")
  <2>1. calls \in [Purpose -> CallState] /\ \A p \in Purpose : calls[p] = "PROCESSING" => p \in CallsAt("EMBEDDING")
    <3>1. CallsAt(worker[r].pc) = {}
      BY <1>6 DEF StartEmbedding, Searches, CallsAt
    <3> QED BY <1>a, <1>b, <3>1, Purposes, CallsChange DEF OpenCalls, CallsAt
  <2>2. /\ Commits(r, "EMBEDDING", "FAILING") /\ Processing(r) /\ worker[r].pc # "NONE"
        /\ call' = [call EXCEPT ![r] = calls] /\ UNCHANGED <<world, idle, run>>
    BY <1>6 DEF StartEmbedding, Searches
  <2> HIDE DEF calls
  <2> QED BY <2>1, <2>2, CheckpointMoves DEF Pc
<1>7. CASE Retrieved(r)
  <2>1. Goto(r, "RETRIEVED") /\ worker[r].pc = "EMBEDDING" /\ UNCHANGED <<world, idle, run, call>>
    BY <1>7 DEF Retrieved
  <2>2. OpenCalls(r)' \subseteq CallsAt("RETRIEVED")
    BY <1>b, <2>1 DEF OpenCalls, CallsAt
  <2> QED BY <2>1, <2>2, GotoMoves DEF TypeOK, Pc
<1>8. CASE StartReembedding(r)
  <2> DEFINE calls == Start(mine, "QUESTION_EMBEDDING")
  <2>1. calls \in [Purpose -> CallState] /\ \A p \in Purpose : calls[p] = "PROCESSING" => p \in CallsAt("REEMBEDDING")
    <3>1. CallsAt(worker[r].pc) = {"QUERY_EMBEDDING"}
      BY <1>8 DEF StartReembedding, CallsAt
    <3> QED BY <1>a, <1>b, <3>1, Purposes, CallsChange DEF OpenCalls, CallsAt
  <2>2. /\ Commits(r, "REEMBEDDING", "FAILING") /\ Processing(r) /\ worker[r].pc # "NONE"
        /\ call' = [call EXCEPT ![r] = calls] /\ UNCHANGED <<world, idle, run>>
    BY <1>8 DEF StartReembedding
  <2> HIDE DEF calls
  <2> QED BY <2>1, <2>2, CheckpointMoves DEF Pc
<1>9. CASE PreparationFails(r)
  <2> DEFINE calls == EmbeddingsClosed(mine)
  <2>1. calls \in [Purpose -> CallState] /\ \A p \in Purpose : calls[p] = "PROCESSING" => p \in CallsAt("JUDGED")
    <3>1. CallsAt(worker[r].pc) \subseteq {"QUERY_EMBEDDING", "QUESTION_EMBEDDING"}
      BY <1>9 DEF PreparationFails, CallsAt
    <3> QED BY <1>a, <1>b, <3>1, EmbeddingsChange DEF OpenCalls
  <2>2. /\ Commits(r, "JUDGED", "FAILING") /\ Processing(r) /\ worker[r].pc # "NONE"
        /\ call' = [call EXCEPT ![r] = calls] /\ UNCHANGED <<world, idle, run>>
    BY <1>9 DEF PreparationFails
  <2> HIDE DEF calls
  <2> QED BY <2>1, <2>2, CheckpointMoves DEF Pc
<1>10. CASE StartJudgment(r)
  <2> DEFINE closed == EmbeddingsClosed(mine)
             calls == Start(closed, "QUESTION_CLASSIFICATION")
  <2>1. calls \in [Purpose -> CallState] /\ \A p \in Purpose : calls[p] = "PROCESSING" => p \in CallsAt("JUDGING")
    <3>1. CallsAt(worker[r].pc) \subseteq {"QUERY_EMBEDDING", "QUESTION_EMBEDDING"}
      BY <1>10 DEF StartJudgment, CallsAt
    <3>2. closed \in [Purpose -> CallState] /\ \A p \in Purpose : closed[p] # "PROCESSING"
      BY <1>a, <1>b, <3>1, EmbeddingsChange DEF OpenCalls
    <3> HIDE DEF closed
    <3> QED BY <3>2, Purposes, CallsChange DEF CallsAt
  <2>2. /\ Commits(r, "JUDGING", "FAILING") /\ Processing(r) /\ worker[r].pc # "NONE"
        /\ call' = [call EXCEPT ![r] = calls] /\ UNCHANGED <<world, idle, run>>
    BY <1>10 DEF StartJudgment
  <2> HIDE DEF calls
  <2> QED BY <2>1, <2>2, CheckpointMoves DEF Pc
<1>11. CASE ServeCanonical(r)
  <2>1. CallsAt(worker[r].pc) = {"QUESTION_CLASSIFICATION"}
    BY <1>11 DEF ServeCanonical, CallsAt
  <2> QED BY <1>11, <1>b, <2>1, Purposes, EndingMoves DEF ServeCanonical, Answered
<1>12. CASE DeclineCanonical(r)
  <2> DEFINE calls == Closed(mine, "QUESTION_CLASSIFICATION")
  <2>1. calls \in [Purpose -> CallState] /\ \A p \in Purpose : calls[p] = "PROCESSING" => p \in CallsAt("JUDGED")
    <3>1. CallsAt(worker[r].pc) = {"QUESTION_CLASSIFICATION"}
      BY <1>12 DEF DeclineCanonical, CallsAt
    <3> QED BY <1>a, <1>b, <3>1, Purposes, CallsChange DEF OpenCalls, CallsAt
  <2>2. /\ Commits(r, "JUDGED", "FAILING") /\ Processing(r) /\ worker[r].pc # "NONE"
        /\ call' = [call EXCEPT ![r] = calls] /\ UNCHANGED <<world, idle, run>>
    BY <1>12 DEF DeclineCanonical
  <2> HIDE DEF calls
  <2> QED BY <2>1, <2>2, CheckpointMoves DEF Pc
<1>13. CASE StartGeneration(r)
  <2> DEFINE closed == Closed(mine, "QUERY_EMBEDDING")
             calls == Start(closed, "ANSWER_GENERATION")
             raised == Raised[worker[r].pc]
  <2>0. worker[r].pc \in {"RETRIEVED", "JUDGED"} /\ raised \in {"RAISED", "RAISED_JUDGED"}
    BY <1>13 DEF StartGeneration, Raised
  <2>1. calls \in [Purpose -> CallState] /\ \A p \in Purpose : calls[p] = "PROCESSING" => p = "ANSWER_GENERATION"
    <3>1. CallsAt(worker[r].pc) \subseteq {"QUERY_EMBEDDING"}
      BY <2>0 DEF CallsAt
    <3>2. closed \in [Purpose -> CallState] /\ \A p \in Purpose : closed[p] # "PROCESSING"
      BY <1>a, <1>b, <3>1, Purposes, CallsChange DEF OpenCalls
    <3> HIDE DEF closed
    <3> QED BY <3>2, Purposes, CallsChange
  <2>2. /\ Commits(r, "GENERATING", raised) /\ Processing(r)
        /\ call' = [call EXCEPT ![r] = calls] /\ UNCHANGED <<world, idle, run>>
    BY <1>13 DEF StartGeneration
  <2> HIDE DEF calls, raised
  <2>3. "ANSWER_GENERATION" \in CallsAt("GENERATING") /\ (Losses => "ANSWER_GENERATION" \in CallsAt(raised))
    BY <2>0 DEF CallsAt, Unclosed
  <2>4. raised \in Pc /\ "GENERATING" \in Pc /\ worker[r].pc # "NONE"
    BY <2>0 DEF Pc
  <2> QED BY <2>1, <2>2, <2>3, <2>4, CommitMoves
<1>14. CASE RecordTurn(r)
  <2>1. CallsAt(worker[r].pc) = {"ANSWER_GENERATION"}
    BY <1>14 DEF RecordTurn, CallsAt
  <2> QED BY <1>14, <1>b, <2>1, Purposes, EndingMoves DEF RecordTurn
<1>15. CASE Fails(r)
  <2>1. Goto(r, "FAILING") /\ worker[r].pc # "NONE" /\ UNCHANGED <<world, idle, run, call>>
    BY <1>15 DEF Fails
  <2>2. OpenCalls(r)' \subseteq CallsAt("FAILING")
    BY DEF OpenCalls, CallsAt
  <2> QED BY <2>1, <2>2, GotoMoves DEF TypeOK, Pc
<1>16. CASE FailQuietly(r)
  <2>1. Abandoned(mine) \in [Purpose -> CallState]
    BY <1>a, Purposes, CallsChange
  <2>2. call' = [call EXCEPT ![r] = Abandoned(mine)]
    BY <1>16 DEF FailQuietly
  <2>3. /\ call' \in [Run -> [Purpose -> CallState]]
        /\ call'[r] = Abandoned(mine)
        /\ \A q \in Run \ {r} : call'[q] = call[q]
    BY <2>1, <2>2, CallsOfOne
  <2>4. OpenCalls(r)' = {}
    BY <1>a, <2>3, Purposes, CallsChange DEF OpenCalls
  <2> QED BY <1>16, <2>3, <2>4, FinishMoves DEF FailQuietly
<1>17. CASE Refused(r) \/ FailUnrecorded(r)
  <2>1. Respond(r, "ERROR") /\ worker[r].pc # "NONE" /\ UNCHANGED <<world, idle, run, call>>
    BY <1>17 DEF Refused, FailUnrecorded
  <2>2. OpenCalls(r)' \subseteq CallsAt("REPLYING")
    BY DEF OpenCalls, CallsAt
  <2> QED BY <2>1, <2>2, RespondEffect DEF Moves, RowMoves, world, TypeOK
<1>18. CASE Reply(r) \/ Lost(r)
  <2>1. /\ worker[r].pc # "NONE" /\ EndWorker(r)
        /\ UNCHANGED <<conv, idle, told, run, old, call, crashes>>
        /\ reply' \in [Run -> Saying]
    BY <1>18 DEF Reply, Lost, world, TypeOK, Worker
  <2>2. OpenCalls(r)' \subseteq CallsAt("NONE")
    BY DEF OpenCalls, CallsAt
  <2> QED BY <2>1, <2>2, NoTask DEF EndWorker, Moves, RowMoves, TypeOK
<1>19. CASE Disconnect(r)
  <2>1. worker[r].pc # "NONE" /\ EndWorker(r) /\ UNCHANGED <<world, idle>>
    BY <1>19 DEF Disconnect
  <2>2. /\ worker' \in [Run -> Worker] /\ worker'[r].pc = "NONE" /\ worker'[r].read = {}
        /\ \A q \in Run \ {r} : worker'[q] = worker[q]
    BY <2>1, NoTask DEF EndWorker, TypeOK
  <2>3. OpenCalls(r)' \subseteq CallsAt("NONE")
    BY DEF OpenCalls, CallsAt
  <2>4. CASE ~Processing(r)
    <3>1. UNCHANGED <<run, call>>
      BY <1>19, <2>4 DEF Disconnect
    <3> QED BY <2>1, <2>2, <2>3, <3>1 DEF Moves, RowMoves, world, TypeOK
  <2>5. CASE Processing(r)
    <3> DEFINE row == WithStatus(run[r], "CANCELLED")
    <3>1. run' = [run EXCEPT ![r] = row] /\ call' = [call EXCEPT ![r] = Abandoned(mine)]
      BY <1>19, <2>5 DEF Disconnect, WithStatus
    <3>2. row \in RunRow
      BY RowFields DEF TypeOK, Ended
    <3> HIDE DEF row
    <3>3. run' \in [Run -> RunRow] /\ run'[r] = row /\ \A q \in Run \ {r} : run'[q] = run[q]
      BY <3>1, <3>2 DEF TypeOK
    <3>4. Abandoned(mine) \in [Purpose -> CallState]
      BY <1>a, Purposes, CallsChange
    <3>5. /\ call' \in [Run -> [Purpose -> CallState]]
          /\ call'[r] = Abandoned(mine)
          /\ \A q \in Run \ {r} : call'[q] = call[q]
      BY <3>1, <3>4, CallsOfOne
    <3>6. OpenCalls(r)' = {}
      BY <1>a, <3>5, Purposes, CallsChange DEF OpenCalls
    <3>7. RowMoves(r)
      BY <2>5, <3>3, <3>6 DEF RowMoves, row, Ended
    <3> QED BY <2>1, <2>2, <2>3, <2>5, <3>3, <3>5, <3>7 DEF Moves, world, TypeOK
  <2> QED BY <2>4, <2>5
<1>20. CASE GenerationRaises(r)
  <2>1. /\ worker[r].pc \in {"RETRIEVED", "JUDGED"} /\ UNCHANGED <<world, idle, run, call>>
        /\ Goto(r, IF worker[r].pc = "JUDGED" THEN "RAISED_JUDGED" ELSE "RAISED")
    BY <1>20 DEF GenerationRaises, Raised
  <2>2. OpenCalls(r)' = OpenCalls(r)
    BY <2>1 DEF OpenCalls
  <2>3. CASE worker[r].pc = "JUDGED"
    <3>1. OpenCalls(r)' \subseteq CallsAt("RAISED_JUDGED")
      BY <1>b, <2>2, <2>3 DEF CallsAt
    <3> QED BY <2>1, <2>3, <3>1, GotoMoves DEF TypeOK, Pc
  <2>4. CASE worker[r].pc = "RETRIEVED"
    <3>1. OpenCalls(r)' \subseteq CallsAt("RAISED")
      BY <1>b, <2>2, <2>4 DEF CallsAt
    <3> QED BY <2>1, <2>4, <3>1, GotoMoves DEF TypeOK, Pc
  <2> QED BY <2>1, <2>3, <2>4
<1>21. CASE RecordRaised(r)
  <2> DEFINE calls == IF worker[r].pc = "RAISED" THEN Closed(mine, "QUERY_EMBEDDING") ELSE mine
  <2>1. /\ worker[r].pc \in {"RAISED", "RAISED_JUDGED"} /\ Finish(r, "ERROR") /\ UNCHANGED world
        /\ call' = [call EXCEPT ![r] = calls]
    BY <1>21 DEF RecordRaised
  <2>2. calls \in [Purpose -> CallState] /\ \A p \in Purpose : calls[p] = "PROCESSING" => p \in Unclosed("ERROR")
    BY <1>a, <1>b, <2>1, Purposes, CallsChange DEF OpenCalls, CallsAt
  <2> HIDE DEF calls
  <2>3. /\ call' \in [Run -> [Purpose -> CallState]]
        /\ call'[r] = calls
        /\ \A q \in Run \ {r} : call'[q] = call[q]
    BY <2>1, <2>2, CallsOfOne
  <2>4. OpenCalls(r)' \subseteq Unclosed("ERROR")
    BY <2>2, <2>3 DEF OpenCalls
  <2> QED BY <2>1, <2>3, <2>4, FinishMoves
<1> QED
  BY <1>1, <1>2, <1>3, <1>4, <1>5, <1>6, <1>7, <1>8, <1>9, <1>10, <1>11, <1>12, <1>13,
     <1>14, <1>15, <1>16, <1>17, <1>18, <1>19, <1>20, <1>21 DEF WorkerStep

-----------------------------------------------------------------------------
(* The invariant is kept by every kind of step *)

\* No turn changes and no task goes on; some tasks may be gone.
Rests ==
    /\ TypeOK'
    /\ UNCHANGED <<run, call>>
    /\ \A q \in Run : worker'[q] = worker[q] \/ worker'[q] = NoWorker

\* UniqueConstraint("conversation_id", "turn_no"): two turns of a conversation never share a number.
TurnNumbersDiffer ==
    \A r, q \in Run :
        (r # q /\ run[r].status # "NONE" /\ run[r].conv = run[q].conv) => run[r].no # run[q].no

\* The calls of ended turns, said of the set of open ones.
LEMMA StayingCalls ==
    /\ OnlyUnconfirmedCallsStay <=>
          \A r \in Run : run[r].status \in Ended => OpenCalls(r) \subseteq Unclosed(run[r].status)
    /\ OnlyUnconfirmedCallsStay' <=>
          \A r \in Run : run'[r].status \in Ended => OpenCalls(r)' \subseteq Unclosed(run'[r].status)
BY DEF OnlyUnconfirmedCallsStay, OpenCalls, Unclosed

\* The inductive invariant: the properties and what they need of each other
IInv ==
    /\ Typed
    /\ TurnNumbersDiffer
    /\ CallsFit
    /\ ReadsHold
    /\ OpenTurnIsLast
    /\ OnlyUnconfirmedCallsStay
    /\ ContextIsAnswered

\* Every step is of one of the kinds.
LEMMA StepKinds ==
    ASSUME Typed, CallsFit, [Next]_vars
    PROVE  \/ \E r \in Run : Moves(r)
           \/ \E c \in Conv, r \in Run : Ask(c, r)
           \/ Rests
<1>1. CASE UNCHANGED vars
  BY <1>1 DEF vars, Rests, Typed, TypeOK
<1>2. ASSUME NEW r \in Run, WorkerStep(r) \/ FailUnrecorded(r) \/ Disconnect(r) \/ Lost(r)
      PROVE  Moves(r)
  BY <1>2, MovesOn
<1>3. ASSUME NEW c \in Conv, AskIdle(c) \/ DayPasses(c)
      PROVE  Rests
  <2>1. OpenTurns(c) \subseteq Run
    BY DEF OpenTurns, TurnsOf
  <2> QED BY <1>3, <2>1 DEF AskIdle, DayPasses, Rests, Typed, TypeOK
<1>4. ASSUME NEW r \in Run, Age(r)
      PROVE  Rests
  BY <1>4 DEF Age, Rests, Typed, TypeOK
<1>5. CASE Crash
  <2>1. /\ UNCHANGED <<conv, idle, told, run, old, call, reply>>
        /\ crashes' \in Nat
        /\ worker' \in [Run -> Worker]
        /\ \A q \in Run : worker'[q] = worker[q] \/ worker'[q] = NoWorker
    BY <1>5, NoTask DEF Crash, Typed, TypeOK
  <2> QED BY <2>1 DEF Rests, Typed, TypeOK
<1> QED BY <1>1, <1>2, <1>3, <1>4, <1>5 DEF Next

\* A step that leaves turns, calls and tasks alone keeps the invariant.
LEMMA RestKeeps ==
    ASSUME IInv, Rests
    PROVE  IInv'
<1>1. \A q \in Run : /\ run'[q] = run[q] /\ call'[q] = call[q]
                     /\ OpenCalls(q)' = OpenCalls(q)
                     /\ worker'[q] = worker[q] \/ (worker'[q].pc = "NONE" /\ worker'[q].read = {})
  BY NoTask DEF Rests, OpenCalls
<1>2. Typed'
  BY <1>1 DEF IInv, Typed, KnownTurns, Rests
<1>3. CallsFit'
  <2>1. \A q \in Run : OpenCalls(q) \subseteq CallsAt("NONE")
    BY DEF OpenCalls, CallsAt
  <2> QED BY <1>1, <2>1 DEF IInv, CallsFit
<1>4. ReadsHold'
  BY <1>1 DEF IInv, ReadsHold, Precedes, Typed, TypeOK, Worker, Rests
<1>5. (TurnNumbersDiffer /\ OpenTurnIsLast /\ OnlyUnconfirmedCallsStay /\ ContextIsAnswered)'
  BY DEF IInv, Rests, TurnNumbersDiffer, OpenTurnIsLast, OnlyUnconfirmedCallsStay, ContextIsAnswered, Processing
<1> QED BY <1>2, <1>3, <1>4, <1>5 DEF IInv

\* What a moving turn leaves alone
LEMMA MovesEffect ==
    ASSUME Typed, NEW r \in Run, Moves(r)
    PROVE  /\ \A q \in Run : /\ run'[q].conv = run[q].conv
                             /\ run'[q].no = run[q].no
                             /\ Processing(q)' => Processing(q)
                             /\ run[q].status \in Ended => run'[q] = run[q] /\ call'[q] = call[q]
                             /\ run'[q].status = "NONE" <=> run[q].status = "NONE"
           /\ \A p, q \in Run : Precedes(q, p) => Precedes(q, p)'
<1>1. run[r] \in RunRow /\ run[r].status \in Ended \cup {"NONE", "PROCESSING"}
  BY DEF Typed, TypeOK, RunRow
<1>2. \A s \in Ended : /\ WithStatus(run[r], s).status = s
                       /\ WithStatus(run[r], s).conv = run[r].conv
                       /\ WithStatus(run[r], s).no = run[r].no
  BY <1>1, RowFields
<1>3. \A x \in SUBSET worker[r].read :
                       /\ WithContext(run[r], x).status = run[r].status
                       /\ WithContext(run[r], x).conv = run[r].conv
                       /\ WithContext(run[r], x).no = run[r].no
  BY <1>1, RowFields DEF Typed, TypeOK, Worker
<1>4. /\ run'[r].conv = run[r].conv
      /\ run'[r].no = run[r].no
      /\ Processing(r)' => Processing(r)
      /\ run[r].status \in Ended => run'[r] = run[r] /\ call'[r] = call[r]
      /\ run'[r].status = "NONE" <=> run[r].status = "NONE"
  BY <1>2, <1>3 DEF Moves, RowMoves, Processing, Ended, Answered
<1>5. \A q \in Run : /\ run'[q].conv = run[q].conv
                     /\ run'[q].no = run[q].no
                     /\ Processing(q)' => Processing(q)
                     /\ run[q].status \in Ended => run'[q] = run[q] /\ call'[q] = call[q]
                     /\ run'[q].status = "NONE" <=> run[q].status = "NONE"
  BY <1>4 DEF Moves, Processing
<1> QED BY <1>5 DEF Precedes, Ended

\* A step of one open turn keeps the invariant: the other turns are as they
\* were, and none of them is opened.
LEMMA MoveKeeps ==
    ASSUME IInv, NEW r \in Run, Moves(r)
    PROVE  IInv'
<1>1. Typed /\ Typed'
  <2>1. TypeOK'
    BY DEF Moves, IInv, Typed, TypeOK
  <2>2. \A q \in Run : run'[q].status = "NONE" <=> run'[q].conv = None
    BY MovesEffect DEF IInv, Typed, KnownTurns
  <2>3. \A q \in Run : run'[q].status = "NONE" => OpenCalls(q)' = {} /\ worker'[q].pc = "NONE"
    <3>1. run'[r].status # "NONE"
      BY MovesEffect DEF IInv, Typed, KnownTurns, Moves
    <3>2. \A q \in Run \ {r} : OpenCalls(q)' = OpenCalls(q) /\ worker'[q] = worker[q] /\ run'[q] = run[q]
      BY DEF Moves, OpenCalls
    <3> QED BY <3>1, <3>2 DEF IInv, Typed, KnownTurns
  <2>4. \E b \in Nat : \A q \in Run : run'[q].no <= b
    BY MovesEffect DEF IInv, Typed, KnownTurns
  <2> QED BY <2>1, <2>2, <2>3, <2>4 DEF IInv, Typed, KnownTurns
<1>2. CallsFit'
  <2>1. \A q \in Run \ {r} : OpenCalls(q)' = OpenCalls(q) /\ worker'[q] = worker[q]
    BY DEF Moves, OpenCalls
  <2> QED BY <2>1 DEF IInv, CallsFit, Moves
<1>3. ReadsHold'
  <2>1. \A q \in Candidates(r) : q \in Run /\ Precedes(q, r)
    BY DEF Candidates, TurnsOf, Precedes
  <2>2. \A q \in worker'[r].read : q \in Run /\ Precedes(q, r)
    BY <2>1 DEF Moves, IInv, ReadsHold, Typed, TypeOK, Worker
  <2>3. \A p \in Run : \A q \in worker'[p].read : q \in Run /\ Precedes(q, p)
    BY <2>2 DEF Moves, IInv, ReadsHold, Typed, TypeOK, Worker
  <2> QED BY <1>1, <2>3, MovesEffect DEF ReadsHold
<1>4. OpenTurnIsLast'
  <2> SUFFICES ASSUME NEW p \in Run, NEW q \in Run, Processing(p)', q # p,
                      run'[q].conv = run'[p].conv
               PROVE  run'[q].no < run'[p].no
    BY DEF OpenTurnIsLast
  <2>1. Processing(p) /\ run[q].conv = run[p].conv
    BY <1>1, MovesEffect
  <2> QED BY <1>1, <2>1, MovesEffect DEF IInv, OpenTurnIsLast
<1>5. OnlyUnconfirmedCallsStay'
  <2> SUFFICES ASSUME NEW q \in Run, run'[q].status \in Ended
               PROVE  OpenCalls(q)' \subseteq Unclosed(run'[q].status)
    BY StayingCalls
  <2>1. CASE run[q].status \in Ended
    BY <1>1, <2>1, MovesEffect, StayingCalls DEF IInv, OpenCalls
  <2>2. CASE run[q].status \notin Ended
    <3>1. q = r /\ run'[r] # run[r]
      BY <2>2 DEF Moves
    <3>2. ~\E x \in SUBSET worker[r].read : run'[r] = WithContext(run[r], x)
      <4>1. \A x \in SUBSET worker[r].read : WithContext(run[r], x).status = run[r].status
        BY RowFields DEF IInv, Typed, TypeOK, Worker
      <4> QED BY <2>2, <3>1, <4>1
    <3>3. PICK s \in Ended : run'[r] = WithStatus(run[r], s) /\ OpenCalls(r)' \subseteq Unclosed(s)
      BY <3>1, <3>2 DEF Moves, RowMoves
    <3>4. run'[r].status = s
      BY <3>3, RowFields DEF IInv, Typed, TypeOK
    <3> QED BY <3>1, <3>3, <3>4
  <2> QED BY <2>1, <2>2
<1>6. ContextIsAnswered'
  <2> SUFFICES ASSUME NEW p \in Run, NEW q \in run'[p].context
               PROVE  Precedes(q, p)'
    BY DEF ContextIsAnswered, Precedes
  <2>1. run[r] \in RunRow /\ worker[r].read \in SUBSET Run
    BY DEF IInv, Typed, TypeOK, Worker
  <2>2. \A s \in Ended : WithStatus(run[r], s).context = run[r].context
    BY <2>1, RowFields
  <2>3. \A x \in SUBSET worker[r].read : WithContext(run[r], x).context = x
    BY <2>1, RowFields
  <2>4. run'[p].context = run[p].context \/ run'[p].context \subseteq worker[p].read
    <3>1. CASE p # r
      BY <3>1 DEF Moves
    <3>2. CASE p = r /\ \E x \in SUBSET worker[r].read : run'[r] = WithContext(run[r], x)
      <4>1. PICK x \in SUBSET worker[r].read : run'[r] = WithContext(run[r], x)
        BY <3>2
      <4>2. run'[r].context = x
        BY <2>3, <4>1
      <4> QED BY <3>2, <4>2
    <3>3. CASE p = r /\ \E s \in Ended : run'[r] = WithStatus(run[r], s)
      BY <2>2, <3>3
    <3> QED BY <3>1, <3>2, <3>3 DEF Moves, RowMoves
  <2>5. run[p].context \subseteq Run /\ worker[p].read \subseteq Run
    BY DEF IInv, Typed, TypeOK, Worker, RunRow
  <2>6. q \in Run /\ Precedes(q, p)
    BY <2>4, <2>5 DEF IInv, ContextIsAnswered, ReadsHold, Precedes
  <2> QED BY <1>1, <2>6, MovesEffect
<1>7. TurnNumbersDiffer'
  BY <1>1, MovesEffect DEF IInv, TurnNumbersDiffer
<1> QED BY <1>1, <1>2, <1>3, <1>4, <1>5, <1>6, <1>7 DEF IInv


\* What a question does to the turns: r is open and has a number above those of
\* its conversation, whose open turns have ended without open calls.
LEMMA AskEffect ==
    ASSUME Typed, NEW c \in Conv, NEW r \in Run, Ask(c, r)
    PROVE  /\ run'[r] \in RunRow
           /\ run'[r].status = "PROCESSING" /\ run'[r].conv = c /\ run'[r].context = {}
           /\ \A q \in TurnsOf(c) : run[q].no < run'[r].no
           /\ \A q \in Run \ {r} :
                 IF q \in OpenTurns(c)
                   THEN /\ run'[q] = WithStatus(run[q], "ERROR")
                        /\ call'[q] = Abandoned(call[q])
                   ELSE run'[q] = run[q] /\ call'[q] = call[q]
           /\ run' \in [Run -> RunRow]
           /\ call' \in [Run -> [Purpose -> CallState]]
           /\ call'[r] = call[r]
           /\ worker' = [worker EXCEPT ![r] = TaskAt(worker[r], "STARTED")]
<1> DEFINE S == {run[x].no : x \in TurnsOf(c)} \cup {0}
           n == Max(S) + 1
<1>1. PICK b \in Nat : \A q \in Run : run[q].no <= b
  BY DEF Typed, KnownTurns
<1>2. /\ S \in SUBSET Nat /\ S # {}
      /\ \A x \in S : x <= b
  BY <1>1 DEF Typed, TypeOK, RunRow, TurnsOf
<1>3. Max(S) \in S /\ \A x \in S : x <= Max(S)
  BY <1>2, Maximum
<1>4. n \in Nat /\ \A q \in TurnsOf(c) : run[q].no < n
  <2> HIDE DEF n
  <2>1. \A q \in TurnsOf(c) : run[q].no \in S /\ run[q].no \in Nat
    BY DEF TurnsOf, Typed, TypeOK, RunRow
  <2>2. Max(S) \in Nat
    BY <1>2, <1>3
  <2> HIDE DEF S
  <2> QED BY <1>3, <2>1, <2>2 DEF n
<1>5. run' = [q \in Run |->
           IF q = r THEN [status |-> "PROCESSING", conv |-> c, context |-> {}, no |-> n]
           ELSE IF q \in OpenTurns(c) THEN WithStatus(run[q], "ERROR")
           ELSE run[q]]
  BY DEF Ask, Recovered, WithStatus
<1> HIDE DEF n, S
<1> DEFINE new == [status |-> "PROCESSING", conv |-> c, context |-> {}, no |-> n]
<1>6. new \in RunRow
  BY <1>4 DEF RunRow
<1>7. \A q \in Run : WithStatus(run[q], "ERROR") \in RunRow
  BY RowFields DEF Typed, TypeOK, Ended
<1>8. new.status = "PROCESSING" /\ new.conv = c /\ new.context = {} /\ new.no = n
  OBVIOUS
<1> HIDE DEF new
<1>9. /\ run'[r] = new
      /\ \A q \in Run \ {r} : run'[q] = IF q \in OpenTurns(c) THEN WithStatus(run[q], "ERROR") ELSE run[q]
  BY <1>5 DEF new
<1>10. run' \in [Run -> RunRow]
  <2>1. \A q \in Run : run'[q] \in RunRow
    BY <1>6, <1>7, <1>9 DEF Typed, TypeOK
  <2> QED BY <1>5, <2>1
<1>11. r \notin OpenTurns(c)
  BY DEF Ask, OpenTurns, Processing
<1>12. /\ call' \in [Run -> [Purpose -> CallState]]
       /\ call'[r] = call[r]
       /\ \A q \in Run \ {r} : call'[q] = IF q \in OpenTurns(c) THEN Abandoned(call[q]) ELSE call[q]
  <2>1. \A q \in Run : Abandoned(call[q]) \in [Purpose -> CallState]
    BY Purposes, CallsChange DEF Typed, TypeOK
  <2> QED BY <1>11, <2>1 DEF Ask, Typed, TypeOK
<1>13. worker' = [worker EXCEPT ![r] = TaskAt(worker[r], "STARTED")]
  BY DEF Ask, TaskAt
<1> QED BY <1>4, <1>6, <1>8, <1>9, <1>10, <1>12, <1>13

\* A question keeps the invariant: it closes what was open in its conversation
\* and takes the next number.
LEMMA AskKeeps ==
    ASSUME IInv, NEW c \in Conv, NEW r \in Run, Ask(c, r)
    PROVE  IInv'
<1>1. Typed
  BY DEF IInv
<1>2. run[r].status = "NONE" /\ run[r].conv = None /\ worker[r].pc = "NONE" /\ OpenCalls(r) = {}
  BY <1>1 DEF Ask, Typed, KnownTurns
<1>3. \A q \in Run : /\ WithStatus(run[q], "ERROR").status = "ERROR"
                     /\ WithStatus(run[q], "ERROR").conv = run[q].conv
                     /\ WithStatus(run[q], "ERROR").no = run[q].no
                     /\ WithStatus(run[q], "ERROR").context = run[q].context
  BY <1>1, RowFields DEF Typed, TypeOK, Ended
<1>4. \A q \in Run \ {r} : /\ run'[q].conv = run[q].conv
                           /\ run'[q].no = run[q].no
                           /\ run'[q].context = run[q].context
                           /\ IF q \in OpenTurns(c) THEN run'[q].status = "ERROR"
                                                   ELSE run'[q] = run[q]
  BY <1>1, <1>3, AskEffect
<1>5. \A q \in Run \ {r} : IF q \in OpenTurns(c) THEN OpenCalls(q)' = {}
                                                ELSE OpenCalls(q)' = OpenCalls(q)
  <2>1. \A q \in Run : \A p \in Purpose : Abandoned(call[q])[p] # "PROCESSING"
    BY <1>1, Purposes, CallsChange DEF Typed, TypeOK
  <2>2. \A q \in Run \ {r} : call'[q] = IF q \in OpenTurns(c) THEN Abandoned(call[q]) ELSE call[q]
    BY <1>1, AskEffect
  <2> QED BY <2>1, <2>2 DEF OpenCalls
<1>6. OpenCalls(r)' = {}
  BY <1>1, <1>2, AskEffect DEF OpenCalls
<1>7. /\ worker' \in [Run -> Worker]
      /\ worker'[r].pc = "STARTED" /\ worker'[r].read = worker[r].read
      /\ \A q \in Run \ {r} : worker'[q] = worker[q]
  <2>1. TaskAt(worker[r], "STARTED") \in Worker
        /\ TaskAt(worker[r], "STARTED").pc = "STARTED"
        /\ TaskAt(worker[r], "STARTED").read = worker[r].read
    BY <1>1, Purposes, TaskFields DEF Typed, TypeOK
  <2>2. worker' = [worker EXCEPT ![r] = TaskAt(worker[r], "STARTED")]
    BY <1>1, AskEffect
  <2> QED BY <1>1, <2>1, <2>2 DEF Typed, TypeOK
<1>8. \A q \in Run : Precedes(q, r) => FALSE
  BY <1>1, <1>2 DEF Precedes, Typed, KnownTurns, Answered
<1>9. \A p, q \in Run : Precedes(q, p) => Precedes(q, p)'
  <2> SUFFICES ASSUME NEW p \in Run, NEW q \in Run, Precedes(q, p)
               PROVE  Precedes(q, p)'
    OBVIOUS
  <2>1. p # r
    BY <1>8
  <2>2. q # r /\ q \notin OpenTurns(c)
    BY <1>2 DEF Precedes, Answered, OpenTurns, Processing
  <2> QED BY <1>4, <2>1, <2>2 DEF Precedes
<1>10. TypeOK'
  BY <1>1, <1>7, AskEffect DEF Ask, Typed, TypeOK
<1>11. KnownTurns'
  <2>1. \A q \in Run : run'[q].status = "NONE" <=> run'[q].conv = None
    <3>1. c # None
      BY ChatAssumption
    <3>2. \A q \in OpenTurns(c) : run[q].conv = c
      BY DEF OpenTurns, TurnsOf
    <3> QED BY <1>1, <1>4, <3>1, <3>2, AskEffect DEF Typed, KnownTurns
  <2>2. \A q \in Run : run'[q].status = "NONE" => OpenCalls(q)' = {} /\ worker'[q].pc = "NONE"
    BY <1>1, <1>4, <1>5, <1>7, AskEffect DEF Typed, KnownTurns
  <2>3. \E b \in Nat : \A q \in Run : run'[q].no <= b
    <3>1. PICK b \in Nat : \A q \in Run : run[q].no <= b
      BY <1>1 DEF Typed, KnownTurns
    <3>2. run'[r].no \in Nat /\ \A q \in Run : run[q].no \in Nat
      BY <1>1, AskEffect DEF RunRow, Typed, TypeOK
    <3>3. b + run'[r].no \in Nat /\ \A q \in Run : run'[q].no <= b + run'[r].no
      BY <1>4, <3>1, <3>2
    <3> QED BY <3>3
  <2> QED BY <2>1, <2>2, <2>3 DEF KnownTurns
<1>12. CallsFit'
  <2>1. \A q \in Run \ {r} : OpenCalls(q)' \subseteq CallsAt(worker'[q].pc)
    BY <1>5, <1>7 DEF IInv, CallsFit
  <2> QED BY <1>6, <2>1 DEF CallsFit
<1>13. ReadsHold'
  <2>1. \A p \in Run : worker'[p].read = worker[p].read /\ worker[p].read \subseteq Run
    BY <1>1, <1>7 DEF Typed, TypeOK, Worker
  <2> QED BY <1>9, <2>1 DEF IInv, ReadsHold
<1>14. OpenTurnIsLast'
  <2> SUFFICES ASSUME NEW p \in Run, NEW q \in Run, Processing(p)', q # p,
                      run'[q].conv = run'[p].conv
               PROVE  run'[q].no < run'[p].no
    BY DEF OpenTurnIsLast
  <2>1. CASE p = r
    <3>1. q \in TurnsOf(c)
      BY <1>1, <1>4, <2>1, AskEffect DEF TurnsOf
    <3> QED BY <1>1, <1>4, <2>1, <3>1, AskEffect
  <2>2. CASE p # r
    <3>1. p \notin OpenTurns(c) /\ Processing(p)
      BY <1>4, <2>2 DEF Processing
    <3>2. run[p].conv # c
      BY <3>1 DEF OpenTurns, TurnsOf
    <3>3. q # r
      BY <1>1, <1>4, <2>2, <3>2, AskEffect
    <3> QED BY <1>4, <2>2, <3>1, <3>3 DEF IInv, OpenTurnIsLast
  <2> QED BY <2>1, <2>2
<1>15. OnlyUnconfirmedCallsStay'
  <2> SUFFICES ASSUME NEW q \in Run, run'[q].status \in Ended
               PROVE  OpenCalls(q)' \subseteq Unclosed(run'[q].status)
    BY StayingCalls
  <2>1. OpenCalls(q) \subseteq Unclosed(run[q].status) \/ run[q].status \notin Ended
    BY StayingCalls DEF IInv
  <2> QED BY <1>4, <1>5, <1>6, <2>1
<1>16. ContextIsAnswered'
  <2> SUFFICES ASSUME NEW p \in Run, NEW q \in run'[p].context
               PROVE  Precedes(q, p)'
    BY DEF ContextIsAnswered, Precedes
  <2>1. p # r /\ q \in run[p].context
    BY <1>1, <1>4, AskEffect
  <2>2. q \in Run /\ Precedes(q, p)
    BY <1>1, <2>1 DEF IInv, ContextIsAnswered, Precedes, Typed, TypeOK, RunRow
  <2> QED BY <1>9, <2>2
<1>17. TurnNumbersDiffer'
  <2>1. \A q \in Run \ {r} : run'[q].conv = c => run'[q].no < run'[r].no
    BY <1>1, <1>4, AskEffect DEF TurnsOf
  <2>2. run'[r].conv = c /\ \A q \in Run : run'[q].no \in Nat
    BY <1>1, AskEffect DEF RunRow
  <2>3. \A q \in OpenTurns(c) : run[q].status # "NONE"
    BY DEF OpenTurns, Processing
  <2>4. \A q \in Run \ {r} : run'[q].status # "NONE" => run[q].status # "NONE"
    BY <1>4, <2>3
  <2>5. \A p, q \in Run \ {r} :
           (p # q /\ run'[p].status # "NONE" /\ run'[p].conv = run'[q].conv) => run'[p].no # run'[q].no
    BY <1>4, <2>4 DEF IInv, TurnNumbersDiffer
  <2> QED BY <2>1, <2>2, <2>5 DEF TurnNumbersDiffer
<1> QED BY <1>10, <1>11, <1>12, <1>13, <1>14, <1>15, <1>16, <1>17 DEF IInv, Typed


-----------------------------------------------------------------------------
(* Theorems *)

\* The invariant holds before the first question.
LEMMA InitIInv == Init => IInv
<1> SUFFICES ASSUME Init PROVE IInv
  OBVIOUS
<1>1. /\ NoRun \in RunRow /\ NoRun.status = "NONE" /\ NoRun.conv = None
      /\ NoRun.no = 0 /\ NoRun.context = {}
  BY DEF NoRun, RunRow
<1>2. NoCall \in [Purpose -> CallState] /\ \A p \in Purpose : NoCall[p] # "PROCESSING"
  BY DEF NoCall, CallState
<1>3. TypeOK
  BY <1>1, <1>2, NoTask DEF Init, TypeOK, Saying
<1>4. \A r \in Run : /\ run[r] = NoRun /\ OpenCalls(r) = {}
                     /\ worker[r].pc = "NONE" /\ worker[r].read = {}
  BY <1>2, NoTask DEF Init, OpenCalls
<1>5. KnownTurns
  <2>1. \A r \in Run : run[r].no <= 0
    BY <1>1, <1>4
  <2> QED BY <1>1, <1>4, <2>1 DEF KnownTurns
<1>6. CallsFit /\ ReadsHold
  BY <1>4 DEF CallsFit, ReadsHold
<1>7. TurnNumbersDiffer /\ OpenTurnIsLast /\ OnlyUnconfirmedCallsStay /\ ContextIsAnswered
  BY <1>1, <1>4 DEF TurnNumbersDiffer, OpenTurnIsLast, OnlyUnconfirmedCallsStay, ContextIsAnswered,
                    Processing, Ended, Answered
<1> QED BY <1>3, <1>5, <1>6, <1>7 DEF IInv, Typed

\* Every step keeps the invariant.
LEMMA NextIInv == IInv /\ [Next]_vars => IInv'
<1> SUFFICES ASSUME IInv, [Next]_vars PROVE IInv'
  OBVIOUS
<1>1. \/ \E r \in Run : Moves(r)
      \/ \E c \in Conv, r \in Run : Ask(c, r)
      \/ Rests
  BY StepKinds DEF IInv
<1> QED BY <1>1, MoveKeeps, AskKeeps, RestKeeps

\* The inductive invariant: it holds at first and every step keeps it.
THEOREM Invariance == Spec => []IInv
BY InitIInv, NextIInv, PTL DEF Spec

\* The variables of the model keep their types.
THEOREM TypeCorrect == Spec => []TypeOK
<1>1. IInv => TypeOK
  BY DEF IInv, Typed
<1> QED BY <1>1, Invariance, PTL

\* start_rag_run: the open turn of a conversation is its last one and the only
\* open one, whatever tasks of recovered turns are still running.
THEOREM OpenIsLast == Spec => []OpenTurnIsLast
<1>1. IInv => OpenTurnIsLast
  BY DEF IInv
<1> QED BY <1>1, Invariance, PTL

\* The number start_rag_run computes from the largest one is never taken: the
\* unique key on (conversation, turn_no) cannot reject a question.
THEOREM NumbersDiffer == Spec => []TurnNumbersDiffer
<1>1. IInv => TurnNumbersDiffer
  BY DEF IInv
<1> QED BY <1>1, Invariance, PTL

\* Whoever ends a turn ends its model calls in the same transaction: all of
\* them, where commits are reported as what they are. Otherwise the one of a
\* generation whose checkpoint was reported as failed may stay, in a turn that
\* ends with ERROR (_record_turn closes the calls it is told of).
THEOREM CallsEnd == Spec => [](OnlyUnconfirmedCallsStay /\ (~Losses => CallsEndWithTurn))
<1>1. IInv => OnlyUnconfirmedCallsStay /\ (~Losses => CallsEndWithTurn)
  BY DEF IInv, OnlyUnconfirmedCallsStay, CallsEndWithTurn
<1> QED BY <1>1, Invariance, PTL

\* A follow-up is resolved against answered earlier turns of its conversation,
\* although they were read before an external call and written after it.
THEOREM ContextHolds == Spec => []ContextIsAnswered
<1>1. IInv => ContextIsAnswered
  BY DEF IInv
<1> QED BY <1>1, Invariance, PTL

\* An ended turn keeps its row and its calls: no late task, cancellation or
\* recovery touches them.
LEMMA EndedIsFrozen ==
    IInv /\ [Next]_vars =>
        \A r \in Run : run[r].status \in Ended => run'[r] = run[r] /\ call'[r] = call[r]
<1> SUFFICES ASSUME IInv, [Next]_vars, NEW q \in Run, run[q].status \in Ended
             PROVE  run'[q] = run[q] /\ call'[q] = call[q]
  OBVIOUS
<1>1. Typed
  BY DEF IInv
<1>2. ASSUME NEW r \in Run, Moves(r)
      PROVE  run'[q] = run[q] /\ call'[q] = call[q]
  BY <1>1, <1>2, MovesEffect
<1>3. ASSUME NEW c \in Conv, NEW r \in Run, Ask(c, r)
      PROVE  run'[q] = run[q] /\ call'[q] = call[q]
  <2>1. q # r /\ q \notin OpenTurns(c)
    BY <1>3 DEF Ask, Ended, Answered, OpenTurns, Processing
  <2> QED BY <1>1, <1>3, <2>1, AskEffect
<1>4. CASE Rests
  BY <1>4 DEF Rests
<1> QED BY <1>1, <1>2, <1>3, <1>4, StepKinds DEF IInv

\* _get_processing_run: a late worker does not come back to life.
THEOREM OutcomesAreFinal == Spec => OutcomeIsFinal
<1>1. IInv /\ [Next]_vars =>
         [\A r \in Run : run[r].status \in Ended =>
             run'[r] = run[r] /\ call'[r] = call[r]]_vars
  BY EndedIsFrozen
<1> QED BY <1>1, Invariance, PTL DEF Spec, OutcomeIsFinal

-----------------------------------------------------------------------------
(* The turns of the composition *)

\* LaterQuestion is the one step of a turn that ChatTurn takes differently.
LEMMA LaterKeeps ==
    ASSUME IInv, NEW r \in Run, LaterQuestion(r)
    PROVE  IInv'
<1> DEFINE row == WithStatus(run[r], "ERROR")
<1>1. Typed /\ call[r] \in [Purpose -> CallState] /\ run[r] \in RunRow
  BY DEF IInv, Typed, TypeOK
<1>2. /\ Processing(r) /\ run' = [run EXCEPT ![r] = row]
      /\ call' = [call EXCEPT ![r] = Abandoned(call[r])]
      /\ UNCHANGED <<conv, idle, told, old, worker, reply, crashes>>
  BY DEF LaterQuestion, Recovered, WithStatus
<1>3. /\ row \in RunRow /\ row.status = "ERROR" /\ row.conv = run[r].conv
      /\ row.no = run[r].no /\ row.context = run[r].context
  BY <1>1, RowFields DEF Ended
<1> HIDE DEF row
<1>4. /\ run' \in [Run -> RunRow] /\ run'[r] = row
      /\ \A q \in Run \ {r} : run'[q] = run[q]
  BY <1>1, <1>2, <1>3 DEF Typed, TypeOK
<1>5. Abandoned(call[r]) \in [Purpose -> CallState]
      /\ \A p \in Purpose : Abandoned(call[r])[p] # "PROCESSING"
  BY <1>1, Purposes, CallsChange
<1>6. /\ call' \in [Run -> [Purpose -> CallState]]
      /\ call'[r] = Abandoned(call[r])
      /\ \A q \in Run \ {r} : call'[q] = call[q]
  BY <1>1, <1>2, <1>5, CallsOfOne DEF Typed
<1>7. OpenCalls(r)' = {} /\ \A q \in Run \ {r} : OpenCalls(q)' = OpenCalls(q)
  BY <1>5, <1>6 DEF OpenCalls
<1>8. \A q \in Run : /\ run'[q].conv = run[q].conv /\ run'[q].no = run[q].no
                     /\ run'[q].context = run[q].context
                     /\ Processing(q)' => Processing(q)
                     /\ run'[q].status = "NONE" <=> run[q].status = "NONE"
                     /\ run[q].status \in Answered => run'[q].status = run[q].status
  BY <1>2, <1>3, <1>4 DEF Processing, Answered
<1>9. Typed'
  <2>1. TypeOK'
    BY <1>1, <1>2, <1>4, <1>6 DEF Typed, TypeOK
  <2>2. KnownTurns'
    BY <1>1, <1>2, <1>7, <1>8 DEF Typed, KnownTurns
  <2> QED BY <2>1, <2>2 DEF Typed
<1>10. CallsFit'
  BY <1>2, <1>7 DEF IInv, CallsFit
<1>11. \A p, q \in Run : Precedes(q, p) => Precedes(q, p)'
  BY <1>8 DEF Precedes
<1>12. ReadsHold'
  BY <1>1, <1>2, <1>11 DEF IInv, ReadsHold, Typed, TypeOK, Worker
<1>13. OpenTurnIsLast' /\ TurnNumbersDiffer'
  BY <1>8 DEF IInv, OpenTurnIsLast, TurnNumbersDiffer
<1>14. OnlyUnconfirmedCallsStay'
  BY <1>4, <1>6, <1>5 DEF IInv, OnlyUnconfirmedCallsStay
<1>15. ContextIsAnswered'
  BY <1>1, <1>8 DEF IInv, ContextIsAnswered, Typed, TypeOK, RunRow
<1> QED BY <1>9, <1>10, <1>12, <1>13, <1>14, <1>15 DEF IInv

\* Every other step is one of ChatTurn, or leaves the turns alone.
LEMMA TurnsStep ==
    ASSUME [StreamNext]_allVars
    PROVE  [Next]_vars \/ \E r \in Run : LaterQuestion(r)
<1>1. CASE UNCHANGED allVars
  BY <1>1 DEF allVars
<1>2. ASSUME NEW c \in Conv, NEW r \in Run, StartTurn(c, r)
      PROVE  Next
  BY <1>2 DEF StartTurn, Next
<1>3. ASSUME NEW r \in Run, StartFails(r) \/ Validating(r) \/ Deliver(r) \/ HangUp(r)
      PROVE  UNCHANGED vars
  BY <1>3 DEF StartFails, Validating, Deliver, Open, Send, HangUp
<1>4. ASSUME NEW r \in Run, Produce(r) \/ Cancel(r) \/ EndUnrecorded(r) \/ GetOld(r)
      PROVE  Next
  <2>1. WorkerStep(r) \/ Disconnect(r) \/ Lost(r) \/ FailUnrecorded(r) \/ Age(r)
    BY <1>4 DEF Produce, Generating, Confirmed, Finishing, Silent, WorkerStep, Cancel, EndUnrecorded, GetOld
  <2> QED BY <2>1 DEF Next
<1>5. CASE Die
  BY <1>5 DEF Die, Next
<1>6. ASSUME NEW p \in Rater, NEW r \in Run, NEW wants \in Ratings \cup {"NONE"},
             FindRating(p, r, wants) \/ WriteRating(p) \/ RatingFails(p)
      PROVE  UNCHANGED vars
  BY <1>6 DEF FindRating, WriteRating, RatingFails
<1>7. ASSUME NEW p \in Rater, WriteRating(p) \/ RatingFails(p)
      PROVE  UNCHANGED vars
  BY <1>7 DEF WriteRating, RatingFails
<1> QED BY <1>1, <1>2, <1>3, <1>4, <1>5, <1>6, <1>7 DEF StreamNext

\* The turns of the composition keep the invariant of ChatTurn.
LEMMA TurnsKeep == IInv /\ [StreamNext]_allVars => IInv'
BY TurnsStep, NextIInv, LaterKeeps

\* The turn that was answered before is the only one there is.
LEMMA InitTurns == StreamInit => IInv
<1> SUFFICES ASSUME StreamInit PROVE IInv
  OBVIOUS
<1>1. PICK c \in Conv :
         /\ conv = [d \in Conv |-> IF d = c /\ Earlier # {} THEN "ACTIVE" ELSE "ABSENT"]
         /\ run = [r \in Run |-> IF r \in Earlier
                   THEN [status |-> "COMPLETED", conv |-> c, no |-> 1, context |-> {}]
                   ELSE NoRun]
  BY DEF StreamInit
<1> DEFINE row == [status |-> "COMPLETED", conv |-> c, no |-> 1, context |-> {}]
<1>2. /\ row \in RunRow /\ row.status = "COMPLETED" /\ row.conv = c
      /\ row.no = 1 /\ row.context = {}
  BY DEF RunRow, Ended, Answered
<1>3. /\ NoRun \in RunRow /\ NoRun.status = "NONE" /\ NoRun.conv = None
      /\ NoRun.no = 0 /\ NoRun.context = {}
  BY DEF NoRun, RunRow
<1>4. NoCall \in [Purpose -> CallState] /\ \A p \in Purpose : NoCall[p] = "NONE"
  BY DEF NoCall, CallState
<1>5. \A r \in Run : run[r] = IF r \in Earlier THEN row ELSE NoRun
  BY <1>1
<1> HIDE DEF row
<1>6. /\ idle = {} /\ told = {} /\ old = {} /\ crashes = 0
      /\ call = [r \in Run |-> NoCall] /\ worker = [r \in Run |-> NoWorker]
      /\ reply = [r \in Run |-> "NONE"]
  BY DEF StreamInit
<1>7. run \in [Run -> RunRow]
  <2>1. run = [r \in Run |-> run[r]]
    BY <1>1
  <2> QED BY <1>2, <1>3, <1>5, <2>1
<1>8. TypeOK
  <2>1. conv \in [Conv -> {"ABSENT", "ACTIVE", "EXPIRED"}]
    BY <1>1
  <2> QED BY <1>4, <1>6, <1>7, <2>1, NoTask DEF TypeOK, Saying
<1>9. \A r \in Run : /\ OpenCalls(r) = {} /\ worker[r].pc = "NONE" /\ worker[r].read = {}
  BY <1>4, <1>6, NoTask DEF OpenCalls
<1>10. KnownTurns
  <2>1. \A r \in Run : run[r].no <= 1
    BY <1>2, <1>3, <1>5
  <2> QED BY <1>2, <1>3, <1>5, <1>9, <2>1, ChatAssumption DEF KnownTurns
<1>11. \A r, q \in Earlier : r = q
  <2> SUFFICES ASSUME NEW r \in Earlier, NEW q \in Earlier, r # q PROVE FALSE
    OBVIOUS
  <2>1. IsFiniteSet(Earlier) /\ {r, q} \subseteq Earlier
    BY FS_Subset, ChatAssumption, StreamAssumption
  <2>2. Cardinality({r, q}) <= Cardinality(Earlier) /\ Cardinality({r, q}) = 2
    <3>1. IsFiniteSet({r, q})
      BY <2>1, FS_Subset
    <3>2. Cardinality({r, q}) <= Cardinality(Earlier)
      BY <2>1, FS_Subset
    <3>3. IsFiniteSet({q}) /\ Cardinality({q}) = 1
      BY FS_Singleton
    <3>4. {r, q} = {q} \cup {r} /\ r \notin {q}
      OBVIOUS
    <3>5. Cardinality({q} \cup {r}) = Cardinality({q}) + 1
      BY <3>3, <3>4, FS_AddElement
    <3> QED BY <3>2, <3>3, <3>4, <3>5
  <2>3. Cardinality(Earlier) \in Nat
    BY <2>1, FS_CardinalityType
  <2> QED BY <2>2, <2>3, StreamAssumption
<1>12. CallsFit /\ ReadsHold
  BY <1>9 DEF CallsFit, ReadsHold
<1>13. OpenTurnIsLast /\ TurnNumbersDiffer /\ OnlyUnconfirmedCallsStay /\ ContextIsAnswered
  <2>1. \A r \in Run : ~Processing(r) /\ run[r].context = {}
    BY <1>2, <1>3, <1>5 DEF Processing
  <2>2. TurnNumbersDiffer
    BY <1>2, <1>3, <1>5, <1>11, ChatAssumption DEF TurnNumbersDiffer
  <2> QED BY <1>4, <1>6, <2>1, <2>2 DEF OpenTurnIsLast, OnlyUnconfirmedCallsStay, ContextIsAnswered
<1> QED BY <1>8, <1>10, <1>12, <1>13 DEF IInv, Typed

-----------------------------------------------------------------------------
(* The invariant of the delivery *)

\* What the queue may hold
Event == {"RUN", "RETRIEVING", "GENERATING", "VALIDATING", "COMPLETED", "WITHHELD",
          "ERROR", "BROKEN", "START_FAILED", "SENTINEL"}

\* Position i of what was sent and what is still in the queue
Joined(sent, put, i) == IF i <= Len(sent) THEN sent[i] ELSE put[i - Len(sent)]
Total(sent, put) == Len(sent) + Len(put)

\* The line begins with the first n stages.
Stages(sent, put, n) ==
    n <= Total(sent, put) /\ \A i \in 1 .. n : Joined(sent, put, i) = Order[i]

\* The terminal event comes after them.
Ends(sent, put, n) == n < Total(sent, put) /\ Joined(sent, put, n + 1) \in Terminal

\* Where a task is once it has started generation or has failed before
Late == {"GENERATING", "FAILING", "REPLYING", "NONE"}

Gone(r) == worker[r].pc = "NONE"

\* A response with an answer in it is given only after the answer was written.
SaysTrue(r) == worker[r].pc = "REPLYING" =>
    /\ worker[r].says \in Answered \cup {"ERROR"}
    /\ worker[r].says \in Answered => run[r].status = worker[r].says

\* The stream of a turn that has been announced the first n stages: no terminal
\* event, or one with the sentinel behind it, which closes the stream. response
\* is where the response is, status, calls and pc are the turn's.
Line(response, sent, put, status, calls, pc, n) ==
    /\ n \in 2 .. 4
    /\ response \in {"WAITING", "OPEN", "GONE", "CLOSED"}
    /\ response = "WAITING" => sent = <<>>
    /\ response = "OPEN" => sent # <<>>
    /\ Stages(sent, put, n)
    /\ \/ Total(sent, put) = n /\ response # "CLOSED"
       \/ /\ Ends(sent, put, n) /\ pc = "NONE" /\ response # "CLOSED"
          /\ Total(sent, put) = n + 2 /\ Len(sent) <= n + 1
          /\ Joined(sent, put, n + 2) = "SENTINEL"
       \/ /\ Ends(sent, put, n) /\ pc = "NONE" /\ response = "CLOSED"
          /\ Total(sent, put) = n + 1 /\ Len(sent) = n + 1
    /\ Total(sent, put) = n \/ (Joined(sent, put, n + 1) \in Answered => status = Joined(sent, put, n + 1))
    /\ n >= 3 => calls["ANSWER_GENERATION"] # "NONE" /\ pc \in Late
    /\ pc = "GENERATING" => n >= 3

LineFits(r, n) ==
    Line(http[r], wire[r], queue[r], run[r].status, call[r], worker[r].pc, n)

\* A request that was refused: nothing is sent, and what it waits for is not RUN.
RefusalFits(r) ==
    /\ http[r] \in {"WAITING", "REFUSED", "GONE"}
    /\ wire[r] = <<>>
    /\ http[r] = "WAITING" => queue[r] # <<>> /\ queue[r][1] = "START_FAILED"

DeliveryFits(r) ==
    /\ SaysTrue(r)
    /\ http[r] \in {"NONE", "PLAIN"} => wire[r] = <<>> /\ queue[r] = <<>>
    /\ http[r] = "NONE" => Gone(r)
    /\ http[r] \notin {"NONE", "PLAIN"} =>
          IF run[r].status = "NONE" THEN RefusalFits(r) ELSE \E n \in 2 .. 4 : LineFits(r, n)

StreamTyped ==
    /\ http \in [Run -> {"NONE", "PLAIN", "WAITING", "OPEN", "GONE", "CLOSED", "REFUSED"}]
    /\ wire \in [Run -> Seq(Event)]
    /\ queue \in [Run -> Seq(Event)]

\* A feedback request between its read and its write
Asking == [pc: {"FOUND"}, run: Run, wants: Ratings \cup {"NONE"}, found: Ratings \cup {"NONE"}]

\* A rating that a request has found is held: no other request has it, and it
\* is still there when the request writes. Only answered turns are rated.
FeedbackFits ==
    /\ rating \in [Run -> [value: Ratings \cup {"NONE"}, updated: 0 .. 1]]
    /\ rater \in [Rater -> Asking \cup {Idle}]
    /\ \A r \in Run : rating[r].value # "NONE" => run[r].status \in Answered
    /\ \A p \in Rater : rater[p].pc = "FOUND" =>
          /\ run[rater[p].run].status \in Answered
          /\ rater[p].found # "NONE" => rating[rater[p].run].value = rater[p].found
    /\ \A p, q \in Rater :
          (/\ rater[p].pc = "FOUND" /\ rater[q].pc = "FOUND"
           /\ rater[p].run = rater[q].run
           /\ rater[p].found # "NONE" /\ rater[q].found # "NONE") => p = q

DInv == IInv /\ StreamTyped /\ (\A r \in Run : DeliveryFits(r)) /\ FeedbackFits

-----------------------------------------------------------------------------
(* The line of events *)

\* Putting events prolongs the line.
LEMMA PutJoins ==
    ASSUME NEW sent \in Seq(Event), NEW put \in Seq(Event), NEW more \in Seq(Event)
    PROVE  /\ Total(sent, put \o more) = Total(sent, put) + Len(more)
           /\ Total(sent, put) \in Nat
           /\ \A i \in 1 .. Total(sent, put) : Joined(sent, put \o more, i) = Joined(sent, put, i)
           /\ \A i \in 1 .. Len(more) : Joined(sent, put \o more, Total(sent, put) + i) = more[i]
<1>1. /\ put \o more \in Seq(Event) /\ Len(put \o more) = Len(put) + Len(more)
      /\ \A i \in 1 .. Len(put) : (put \o more)[i] = put[i]
      /\ \A i \in 1 .. Len(more) : (put \o more)[Len(put) + i] = more[i]
  BY ConcatProperties
<1>2. Len(sent) \in Nat /\ Len(put) \in Nat /\ Len(more) \in Nat
  OBVIOUS
<1>3. ASSUME NEW i \in 1 .. Total(sent, put)
      PROVE  Joined(sent, put \o more, i) = Joined(sent, put, i)
  <2>1. CASE i <= Len(sent)
    BY <2>1 DEF Joined
  <2>2. CASE i > Len(sent)
    <3>1. i - Len(sent) \in 1 .. Len(put)
      BY <1>2, <1>3, <2>2 DEF Total
    <3> QED BY <1>1, <2>2, <3>1 DEF Joined
  <2> QED BY <2>1, <2>2, <1>2
<1>4. ASSUME NEW i \in 1 .. Len(more)
      PROVE  Joined(sent, put \o more, Total(sent, put) + i) = more[i]
  <2> DEFINE k == Total(sent, put) + i
  <2>1. ~(k <= Len(sent)) /\ k - Len(sent) = Len(put) + i
    BY <1>2 DEF Total
  <2> HIDE DEF k
  <2>2. Joined(sent, put \o more, k) = (put \o more)[k - Len(sent)]
    BY ONLY <2>1 DEF Joined
  <2>3. Joined(sent, put \o more, k) = more[i]
    BY <1>1, <1>4, <2>1, <2>2
  <2> QED BY <2>3 DEF k
<1> QED BY <1>1, <1>2, <1>3, <1>4 DEF Total

\* Sending the next event leaves the line as it is.
LEMMA SendJoins ==
    ASSUME NEW sent \in Seq(Event), NEW put \in Seq(Event), put # <<>>
    PROVE  /\ Append(sent, Head(put)) \in Seq(Event) /\ Tail(put) \in Seq(Event)
           /\ Len(Append(sent, Head(put))) = Len(sent) + 1
           /\ Head(put) = Joined(sent, put, Len(sent) + 1)
           /\ Total(Append(sent, Head(put)), Tail(put)) = Total(sent, put)
           /\ Len(sent) < Total(sent, put)
           /\ Total(sent, Tail(put)) = Total(sent, put) - 1
           /\ \A i \in 1 .. Total(sent, put) :
                 Joined(Append(sent, Head(put)), Tail(put), i) = Joined(sent, put, i)
           /\ \A i \in 1 .. Len(sent) : Joined(sent, Tail(put), i) = Joined(sent, put, i)
<1>1. /\ Head(put) \in Event /\ Head(put) = put[1] /\ Tail(put) \in Seq(Event)
      /\ Len(Tail(put)) = Len(put) - 1
      /\ \A i \in 1 .. Len(Tail(put)) : Tail(put)[i] = put[i + 1]
  BY HeadTailProperties
<1>2. /\ Append(sent, Head(put)) \in Seq(Event)
      /\ Len(Append(sent, Head(put))) = Len(sent) + 1
      /\ \A i \in 1 .. Len(sent) : Append(sent, Head(put))[i] = sent[i]
      /\ Append(sent, Head(put))[Len(sent) + 1] = Head(put)
  BY <1>1, AppendProperties
<1>3. Len(sent) \in Nat /\ Len(put) \in Nat /\ Len(put) > 0
  BY EmptySeq
<1>4. ASSUME NEW i \in 1 .. Total(sent, put)
      PROVE  Joined(Append(sent, Head(put)), Tail(put), i) = Joined(sent, put, i)
  <2>1. CASE i <= Len(sent)
    BY <1>2, <1>3, <2>1 DEF Joined
  <2>2. CASE i = Len(sent) + 1
    BY <1>1, <1>2, <1>3, <2>2 DEF Joined
  <2>3. CASE i > Len(sent) + 1
    <3>1. /\ i - Len(sent) - 1 \in 1 .. Len(Tail(put))
          /\ i - (Len(sent) + 1) = i - Len(sent) - 1
          /\ (i - Len(sent) - 1) + 1 = i - Len(sent)
      BY <1>1, <1>3, <1>4, <2>3 DEF Total
    <3>2. Tail(put)[i - Len(sent) - 1] = put[i - Len(sent)]
      BY <1>1, <3>1
    <3> QED BY <1>2, <1>3, <2>3, <3>1, <3>2 DEF Joined
  <2> QED BY <1>3, <2>1, <2>2, <2>3 DEF Total
<1>5. Head(put) = Joined(sent, put, Len(sent) + 1)
  BY <1>1, <1>3 DEF Joined
<1>6. \A i \in 1 .. Len(sent) : Joined(sent, Tail(put), i) = Joined(sent, put, i)
  BY <1>3 DEF Joined
<1> QED BY <1>1, <1>2, <1>3, <1>4, <1>5, <1>6 DEF Total

\* The stages, one by one, and the events that end a stream.
LEMMA Events ==
    /\ Order[1] = "RUN" /\ Order[2] = "RETRIEVING" /\ Order[3] = "GENERATING"
    /\ Order[4] = "VALIDATING" /\ Len(Order) = 4
    /\ Terminal = {"COMPLETED", "WITHHELD", "ERROR", "BROKEN"}
    /\ "SENTINEL" \notin Terminal
    /\ Terminal \cup {"RUN", "RETRIEVING", "GENERATING", "VALIDATING", "START_FAILED", "SENTINEL"} = Event
    /\ \A i \in 1 .. 4 : Order[i] \notin Terminal \cup {"SENTINEL", "START_FAILED"}
BY DEF Order, Terminal, Answered, Event


-----------------------------------------------------------------------------
(* What a step of a task does *)

\* What no step takes back: an answer in the log, a generation that was started.
LogKept(q) ==
    /\ run[q].status \in Answered => run'[q].status = run[q].status
    /\ run'[q].status = "NONE" <=> run[q].status = "NONE"
    /\ call[q]["ANSWER_GENERATION"] # "NONE" => call'[q]["ANSWER_GENERATION"] # "NONE"

\* A task goes on without starting generation, or ends.
GoesOn(q) ==
    /\ worker'[q].pc = "GENERATING" => worker[q].pc = "GENERATING"
    /\ worker[q].pc \in Late => worker'[q].pc \in Late
    /\ worker[q].pc = "NONE" => worker'[q].pc = "NONE"

\* A call that was started is never unmade.
LEMMA CallsLast ==
    ASSUME NEW calls \in [Purpose -> CallState]
    PROVE  /\ \A p \in Purpose : Start(calls, p) \in [Purpose -> CallState]
                                 /\ Closed(calls, p) \in [Purpose -> CallState]
           /\ Abandoned(calls) \in [Purpose -> CallState]
           /\ EmbeddingsClosed(calls) \in [Purpose -> CallState]
           /\ \A q \in Purpose : calls[q] # "NONE" =>
                 /\ \A p \in Purpose : Start(calls, p)[q] # "NONE" /\ Closed(calls, p)[q] # "NONE"
                 /\ Abandoned(calls)[q] # "NONE"
                 /\ EmbeddingsClosed(calls)[q] # "NONE"
           /\ \A p \in Purpose : Start(calls, p)[p] # "NONE"
<1>1. ASSUME NEW some \in [Purpose -> CallState], NEW p \in Purpose
      PROVE  /\ Start(some, p) \in [Purpose -> CallState]
             /\ Closed(some, p) \in [Purpose -> CallState]
             /\ \A q \in Purpose : some[q] # "NONE" => Start(some, p)[q] # "NONE"
             /\ \A q \in Purpose : some[q] # "NONE" => Closed(some, p)[q] # "NONE"
             /\ Start(some, p)[p] # "NONE"
  <2>1. /\ Start(some, p) \in [Purpose -> CallState]
        /\ Closed(some, p) \in [Purpose -> CallState]
    BY CallsChange
  <2>2. \A q \in Purpose : Start(some, p)[q] = IF q = p THEN "PROCESSING" ELSE some[q]
    BY DEF Start
  <2>3. \A q \in Purpose : Closed(some, p)[q] =
           IF q = p THEN (IF some[p] = "PROCESSING" THEN "CLOSED" ELSE some[p]) ELSE some[q]
    BY DEF Closed
  <2> QED BY <2>1, <2>2, <2>3
<1>2. /\ Abandoned(calls) \in [Purpose -> CallState]
      /\ \A q \in Purpose : calls[q] # "NONE" => Abandoned(calls)[q] # "NONE"
  <2>1. \A q \in Purpose : Abandoned(calls)[q] = IF calls[q] = "PROCESSING" THEN "CLOSED" ELSE calls[q]
    BY DEF Abandoned
  <2> QED BY <2>1, CallsChange, Purposes
<1>3. /\ EmbeddingsClosed(calls) \in [Purpose -> CallState]
      /\ \A q \in Purpose : calls[q] # "NONE" => EmbeddingsClosed(calls)[q] # "NONE"
  <2> DEFINE first == Closed(calls, "QUERY_EMBEDDING")
             second == Closed(first, "QUESTION_EMBEDDING")
  <2>0. "QUERY_EMBEDDING" \in Purpose /\ "QUESTION_EMBEDDING" \in Purpose
    BY Purposes
  <2>1. first \in [Purpose -> CallState] /\ \A q \in Purpose : calls[q] # "NONE" => first[q] # "NONE"
    BY <1>1, <2>0
  <2>2. EmbeddingsClosed(calls) = second
    BY DEF EmbeddingsClosed
  <2> HIDE DEF first
  <2>3. second \in [Purpose -> CallState] /\ \A q \in Purpose : first[q] # "NONE" => second[q] # "NONE"
    BY <1>1, <2>0, <2>1
  <2> HIDE DEF second
  <2> QED BY <2>1, <2>2, <2>3
<1> QED BY <1>1, <1>2, <1>3

\* The calls of a turn that moves: as they were, or changed by one of these.
LEMMA CallsMove ==
    ASSUME TypeOK, NEW r \in Run,
           WorkerStep(r) \/ FailUnrecorded(r) \/ Disconnect(r) \/ Lost(r)
    PROVE  /\ call[r]["ANSWER_GENERATION"] # "NONE" => call'[r]["ANSWER_GENERATION"] # "NONE"
           /\ Confirmed(r) => call'[r]["ANSWER_GENERATION"] # "NONE"
<1> DEFINE mine == call[r]
           G == "ANSWER_GENERATION"
<1>1. mine \in [Purpose -> CallState] /\ G \in Purpose
  BY Purposes DEF TypeOK
<1>2. ASSUME NEW calls, call' = [call EXCEPT ![r] = calls]
      PROVE  call'[r] = calls
  BY <1>2 DEF TypeOK
<1>3. ASSUME NEW p \in Purpose, call' = [call EXCEPT ![r] = Start(mine, p)]
                             \/ call' = [call EXCEPT ![r] = Closed(mine, p)]
      PROVE  mine[G] # "NONE" => call'[r][G] # "NONE"
  <2>1. call'[r] = Start(mine, p) \/ call'[r] = Closed(mine, p)
    BY <1>2, <1>3
  <2>2. mine[G] # "NONE" => Start(mine, p)[G] # "NONE" /\ Closed(mine, p)[G] # "NONE"
    BY <1>1, CallsLast
  <2> QED BY <2>1, <2>2
<1>4. ASSUME \/ call' = [call EXCEPT ![r] = Abandoned(mine)]
             \/ call' = [call EXCEPT ![r] = EmbeddingsClosed(mine)]
      PROVE  mine[G] # "NONE" => call'[r][G] # "NONE"
  <2>1. call'[r] = Abandoned(mine) \/ call'[r] = EmbeddingsClosed(mine)
    BY <1>2, <1>4
  <2>2. mine[G] # "NONE" => Abandoned(mine)[G] # "NONE" /\ EmbeddingsClosed(mine)[G] # "NONE"
    BY <1>1, CallsLast
  <2> QED BY <2>1, <2>2
<1>5. ASSUME StartJudgment(r)
      PROVE  mine[G] # "NONE" => call'[r][G] # "NONE"
  <2> DEFINE closed == EmbeddingsClosed(mine)
             calls == Start(closed, "QUESTION_CLASSIFICATION")
  <2>1. closed \in [Purpose -> CallState] /\ (mine[G] # "NONE" => closed[G] # "NONE")
    BY <1>1, CallsLast
  <2>2. call' = [call EXCEPT ![r] = calls]
    BY <1>5 DEF StartJudgment
  <2> HIDE DEF closed
  <2>3. mine[G] # "NONE" => calls[G] # "NONE"
    <3>1. "QUESTION_CLASSIFICATION" \in Purpose
      BY Purposes
    <3> QED BY <1>1, <2>1, <3>1, CallsLast
  <2>4. call'[r] = calls
    BY <1>2, <2>2
  <2> QED BY <2>3, <2>4
<1>6. CASE StartGeneration(r)
  <2> DEFINE closed == Closed(mine, "QUERY_EMBEDDING")
             calls == Start(closed, G)
  <2>1. closed \in [Purpose -> CallState]
    BY <1>1, CallsLast, Purposes
  <2>2. call' = [call EXCEPT ![r] = calls]
    BY <1>6 DEF StartGeneration
  <2> HIDE DEF closed
  <2>3. calls[G] # "NONE"
    BY <1>1, <2>1, CallsLast
  <2>4. call'[r] = calls
    BY <1>2, <2>2
  <2> QED BY <2>3, <2>4
<1>7. mine[G] # "NONE" => call'[r][G] # "NONE"
  <2>1. CASE \/ ServeExact(r) \/ WithholdAmbiguous(r) \/ Retrieved(r) \/ GenerationRaises(r)
             \/ Fails(r) \/ Refused(r) \/ Reply(r) \/ FailUnrecorded(r) \/ Lost(r)
    BY <2>1 DEF ServeExact, WithholdAmbiguous, Retrieved, GenerationRaises, Fails, Refused,
                Reply, FailUnrecorded, Lost
  <2>2. CASE StartRewrite(r) \/ StartEmbedding(r) \/ StartReembedding(r)
    BY <1>3, <2>2, Purposes DEF StartRewrite, StartEmbedding, StartReembedding
  <2>3. CASE \/ RewriteAnswers(r) \/ RewriteFails(r) \/ SearchFails(r) \/ ServeCanonical(r)
             \/ DeclineCanonical(r) \/ RecordTurn(r)
    BY <1>3, <2>3, Purposes DEF RewriteAnswers, RewriteFails, SearchFails, ServeCanonical,
                            DeclineCanonical, RecordTurn
  <2>4. CASE PreparationFails(r) \/ FailQuietly(r)
    BY <1>4, <2>4 DEF PreparationFails, FailQuietly
  <2>5. CASE Disconnect(r)
    BY <1>4, <2>5 DEF Disconnect
  <2>6. CASE RecordRaised(r)
    <3>1. call' = [call EXCEPT ![r] = Closed(mine, "QUERY_EMBEDDING")] \/ call' = [call EXCEPT ![r] = mine]
      BY <2>6 DEF RecordRaised
    <3> QED BY <1>2, <1>3, <3>1, Purposes
  <2> QED BY <1>5, <1>6, <2>1, <2>2, <2>3, <2>4, <2>5, <2>6 DEF WorkerStep
<1> QED BY <1>6, <1>7 DEF Confirmed

\* A task that moves leaves the log of other turns, and an answer, alone.
LEMMA MoveKeepsLog ==
    ASSUME Typed, CallsFit, NEW r \in Run,
           WorkerStep(r) \/ FailUnrecorded(r) \/ Disconnect(r) \/ Lost(r)
    PROVE  /\ \A q \in Run : LogKept(q)
           /\ \A q \in Run \ {r} : worker'[q] = worker[q] /\ run'[q] = run[q]
           /\ worker[r].pc # "NONE" /\ run[r].status # "NONE"
<1>1. Moves(r)
  BY MovesOn
<1>2. \A q \in Run : /\ run[q].status \in Ended => run'[q] = run[q]
                     /\ run'[q].status = "NONE" <=> run[q].status = "NONE"
  BY <1>1, MovesEffect
<1>3. \A q \in Run \ {r} : run'[q] = run[q] /\ call'[q] = call[q] /\ worker'[q] = worker[q]
  BY <1>1 DEF Moves
<1>4. worker[r].pc # "NONE" /\ run[r].status # "NONE"
  BY <1>1 DEF Moves, Typed, KnownTurns
<1>5. call[r]["ANSWER_GENERATION"] # "NONE" => call'[r]["ANSWER_GENERATION"] # "NONE"
  BY CallsMove DEF Typed
<1> QED BY <1>2, <1>3, <1>4, <1>5 DEF LogKept, Ended

\* A response in hand says what was written, or that there is an error.
LEMMA RespondSays ==
    ASSUME TypeOK, NEW r \in Run, NEW says \in Answered \cup {"ERROR"}, Respond(r, says)
    PROVE  worker'[r].pc = "REPLYING" /\ worker'[r].says \in {says, "ERROR"}
<1>1. PICK s \in {says, "ERROR"} :
         worker' = [worker EXCEPT ![r] = [NoWorker EXCEPT !.pc = "REPLYING", !.says = s]]
  BY DEF Respond, Reported
<1> DEFINE task == [NoWorker EXCEPT !.pc = "REPLYING", !.says = s]
<1>2. task.pc = "REPLYING" /\ task.says = s
  BY DEF NoWorker
<1> HIDE DEF task
<1>3. worker'[r] = task
  BY <1>1 DEF TypeOK, task
<1> QED BY <1>2, <1>3

\* What a finished turn says is what was written.
LEMMA FinishSays ==
    ASSUME TypeOK, NEW r \in Run, NEW status \in Answered \cup {"ERROR"}, Finish(r, status)
    PROVE  worker'[r].pc = "REPLYING" /\ SaysTrue(r)'
<1>1. worker'[r].pc = "REPLYING" /\ worker'[r].says \in {status, "ERROR"}
  BY RespondSays DEF Finish
<1>2. run'[r].status = status
  <2>1. run[r] \in RunRow /\ status \in Ended \cup {"NONE", "PROCESSING"}
    BY DEF TypeOK, Ended
  <2>2. WithStatus(run[r], status).status = status /\ run'[r] = WithStatus(run[r], status)
    BY <2>1, RowFields, FinishEffect
  <2> QED BY <2>2
<1> QED BY <1>1, <1>2 DEF SaysTrue, Answered

\* Every other step of a task, and every way it ends, is one that goes on.
LEMMA TaskGoesOn ==
    ASSUME Typed, NEW r \in Run,
           \/ WorkerStep(r) /\ ~Confirmed(r)
           \/ FailUnrecorded(r) \/ Disconnect(r) \/ Lost(r)
    PROVE  /\ worker[r].pc = "NONE" \/ GoesOn(r)
           /\ SaysTrue(r)'
<1>0. TypeOK
  BY DEF Typed
<1>1. ASSUME NEW pc \in Pc \ {"GENERATING", "REPLYING"}, Goto(r, pc),
             worker[r].pc \in Late => pc \in Late
      PROVE  (worker[r].pc = "NONE" \/ GoesOn(r)) /\ SaysTrue(r)'
  <2>1. worker'[r].pc = pc
    BY <1>0, <1>1, GotoEffect
  <2> QED BY <1>1, <2>1 DEF GoesOn, SaysTrue
<1>a. ASSUME NEW pc \in Pc \ {"GENERATING", "REPLYING"}, Commits(r, pc, "FAILING"),
             worker[r].pc \notin Late
      PROVE  (worker[r].pc = "NONE" \/ GoesOn(r)) /\ SaysTrue(r)'
  <2>1. Goto(r, pc) \/ Goto(r, "FAILING")
    BY <1>a DEF Commits, Reported
  <2> QED BY <1>1, <1>a, <2>1 DEF Pc
<1>2. ASSUME NEW status \in Answered \cup {"ERROR"}, Finish(r, status)
      PROVE  (worker[r].pc = "NONE" \/ GoesOn(r)) /\ SaysTrue(r)'
  BY <1>0, <1>2, FinishSays DEF GoesOn, Late
<1>3. CASE EndWorker(r)
  <2>1. worker'[r].pc = "NONE"
    BY <1>0, <1>3, NoTask DEF EndWorker, TypeOK
  <2> QED BY <2>1 DEF GoesOn, SaysTrue, Late
<1>4. CASE Respond(r, "ERROR")
  <2>1. worker'[r].pc = "REPLYING" /\ worker'[r].says = "ERROR"
    BY <1>0, <1>4, RespondSays
  <2> QED BY <2>1 DEF GoesOn, SaysTrue, Late, Answered
<1>5. CASE ServeExact(r) \/ ServeCanonical(r)
  BY <1>2, <1>5 DEF ServeExact, ServeCanonical, Answered
<1>6. CASE WithholdAmbiguous(r)
  BY <1>2, <1>6 DEF WithholdAmbiguous, Answered
<1>7. CASE \/ RewriteFails(r) \/ SearchFails(r) \/ RecordRaised(r) \/ RecordTurn(r)
           \/ FailQuietly(r)
  BY <1>2, <1>7 DEF RewriteFails, SearchFails, RecordRaised, RecordTurn, FailQuietly
<1>8. CASE StartRewrite(r)
  <2>0. PICK next \in {"REWRITING", "FAILING"} :
           worker' = [worker EXCEPT ![r] = TaskReads(worker[r], next, Candidates(r))]
    BY <1>8 DEF StartRewrite, Reported, TaskReads
  <2> DEFINE task == TaskReads(worker[r], next, Candidates(r))
  <2>1. worker' = [worker EXCEPT ![r] = task]
    BY <2>0
  <2>2. Candidates(r) \in SUBSET Run /\ worker[r] \in Worker /\ next \in Pc
    BY <1>0, <2>0 DEF Candidates, TurnsOf, TypeOK, Pc
  <2>3. task.pc = next
    BY <2>2, TaskFields
  <2> HIDE DEF task
  <2>4. worker'[r].pc = next
    BY <1>0, <2>1, <2>3 DEF TypeOK
  <2> QED BY <1>8, <2>0, <2>4 DEF GoesOn, SaysTrue, StartRewrite, At, Late
<1>9. CASE RewriteAnswers(r)
  BY <1>a, <1>9 DEF RewriteAnswers, At, Pc, Late
<1>10. CASE StartEmbedding(r) \/ StartReembedding(r)
  BY <1>a, <1>10 DEF StartEmbedding, Searches, StartReembedding, At, Pc, Late
<1>11. CASE PreparationFails(r) \/ StartJudgment(r) \/ DeclineCanonical(r)
  BY <1>a, <1>11 DEF PreparationFails, StartJudgment, DeclineCanonical, At, Pc, Late
<1>12. CASE Fails(r)
  BY <1>1, <1>12 DEF Fails, Pc, Late
<1>13. CASE Refused(r) \/ FailUnrecorded(r)
  BY <1>4, <1>13 DEF Refused, FailUnrecorded
<1>14. CASE Reply(r) \/ Disconnect(r) \/ Lost(r)
  BY <1>3, <1>14 DEF Reply, Disconnect, Lost
<1>15. CASE Retrieved(r)
  BY <1>1, <1>15 DEF Retrieved, At, Pc, Late
<1>16. CASE GenerationRaises(r)
  BY <1>1, <1>16 DEF GenerationRaises, Raised, Pc, Late
<1>17. CASE StartGeneration(r) /\ ~Confirmed(r)
  <2>1. PICK pc \in {"GENERATING", "RAISED", "RAISED_JUDGED"} : Goto(r, pc)
    BY <1>17 DEF StartGeneration, Commits, Reported, Raised
  <2>2. worker'[r].pc = pc
    BY <1>0, <2>1, GotoEffect DEF Pc
  <2>3. pc # "GENERATING" /\ worker[r].pc \notin Late
    BY <1>17, <2>2 DEF Confirmed, StartGeneration, Raised, Late
  <2> QED BY <1>1, <2>1, <2>3 DEF Pc
<1> QED
  BY <1>5, <1>6, <1>7, <1>8, <1>9, <1>10, <1>11, <1>12, <1>13, <1>14, <1>15, <1>16,
     <1>17 DEF WorkerStep


-----------------------------------------------------------------------------
(* What happens to a line *)

\* One event, and two
LEMMA ShortSeqs ==
    ASSUME NEW S, NEW x \in S, NEW y \in S
    PROVE  /\ <<x>> \in Seq(S) /\ Len(<<x>>) = 1 /\ <<x>>[1] = x
           /\ <<x, y>> \in Seq(S) /\ Len(<<x, y>>) = 2
           /\ <<x, y>>[1] = x /\ <<x, y>>[2] = y
OBVIOUS

\* The line of a turn that is announced: its first two stages.
LEMMA LineBegins ==
    ASSUME NEW status, NEW calls
    PROVE  Line("WAITING", <<>>, <<"RUN", "RETRIEVING">>, status, calls, "STARTED", 2)
<1> DEFINE put == <<"RUN", "RETRIEVING">>
           none == <<>>
<1>1. /\ Len(none) = 0 /\ Len(put) = 2 /\ put[1] = "RUN" /\ put[2] = "RETRIEVING"
  OBVIOUS
<1> HIDE DEF put
<1>2. /\ Total(none, put) = 2 /\ Joined(none, put, 1) = "RUN"
      /\ Joined(none, put, 2) = "RETRIEVING"
  BY <1>1 DEF Total, Joined
<1>3. Stages(none, put, 2)
  BY <1>2, Events DEF Stages
<1>4. Line("WAITING", none, put, status, calls, "STARTED", 2)
  BY <1>2, <1>3 DEF Line
<1> QED BY <1>4 DEF put

\* A step that neither puts nor takes an event.
LEMMA LineStays ==
    ASSUME NEW h, NEW sent, NEW put, NEW status, NEW calls, NEW pc, NEW n,
           Line(h, sent, put, status, calls, pc, n),
           NEW h2, h2 = h \/ (h \in {"WAITING", "OPEN"} /\ h2 = "GONE"),
           NEW status2, status \in Answered => status2 = status,
           NEW calls2, calls["ANSWER_GENERATION"] # "NONE" => calls2["ANSWER_GENERATION"] # "NONE",
           NEW pc2, pc2 = "GENERATING" => pc = "GENERATING", pc \in Late => pc2 \in Late,
           pc = "NONE" => pc2 = "NONE"
    PROVE  Line(h2, sent, put, status2, calls2, pc2, n)
BY DEF Line

\* A turn that starts generation has been announced the first two stages.
LEMMA LineGenerates ==
    ASSUME NEW h, NEW sent \in Seq(Event), NEW put \in Seq(Event), NEW status, NEW calls,
           NEW pc \in {"RETRIEVED", "JUDGED"}, NEW n, Line(h, sent, put, status, calls, pc, n),
           NEW status2, NEW calls2, calls2["ANSWER_GENERATION"] # "NONE"
    PROVE  Line(h, sent, put \o <<"GENERATING">>, status2, calls2, "GENERATING", 3)
<1> DEFINE more == <<"GENERATING">>
<1>1. more \in Seq(Event) /\ Len(more) = 1 /\ more[1] = "GENERATING"
  BY Events, ShortSeqs
<1>2. n = 2 /\ Total(sent, put) = 2 /\ Stages(sent, put, 2) /\ h # "CLOSED"
  BY DEF Line, Late
<1> HIDE DEF more
<1>3. /\ Total(sent, put \o more) = 3
      /\ \A i \in 1 .. 2 : Joined(sent, put \o more, i) = Joined(sent, put, i)
      /\ Joined(sent, put \o more, 3) = "GENERATING"
  <2>1. /\ Total(sent, put \o more) = Total(sent, put) + Len(more)
        /\ Total(sent, put) \in Nat
        /\ \A i \in 1 .. Total(sent, put) : Joined(sent, put \o more, i) = Joined(sent, put, i)
        /\ \A i \in 1 .. Len(more) : Joined(sent, put \o more, Total(sent, put) + i) = more[i]
    BY <1>1, PutJoins
  <2> QED BY <1>1, <1>2, <2>1
<1>4. Stages(sent, put \o more, 3)
  BY <1>2, <1>3, Events DEF Stages
<1>5. Line(h, sent, put \o more, status2, calls2, "GENERATING", 3)
  BY <1>2, <1>3, <1>4 DEF Line, Late
<1> QED BY <1>5 DEF more

\* An answer is checked while it is generated, and announced once.
LEMMA LineValidates ==
    ASSUME NEW h, NEW sent \in Seq(Event), NEW put \in Seq(Event), NEW status, NEW calls,
           NEW n, Line(h, sent, put, status, calls, "GENERATING", n),
           ~Contains(sent \o put, "VALIDATING")
    PROVE  Line(h, sent, put \o <<"VALIDATING">>, status, calls, "GENERATING", 4)
<1> DEFINE more == <<"VALIDATING">>
<1>1. more \in Seq(Event) /\ Len(more) = 1 /\ more[1] = "VALIDATING"
  BY Events, ShortSeqs
<1>2. /\ n \in 3 .. 4 /\ Total(sent, put) = n /\ Stages(sent, put, n) /\ h # "CLOSED"
      /\ calls["ANSWER_GENERATION"] # "NONE"
  BY DEF Line, Late
<1>3. n = 3
  <2> SUFFICES ASSUME n = 4 PROVE FALSE
    BY <1>2
  <2>1. Joined(sent, put, 4) = "VALIDATING" /\ 4 = Len(sent) + Len(put)
    BY <1>2, Events DEF Stages, Total
  <2>2. Len(sent \o put) = 4 /\ (sent \o put)[4] = Joined(sent, put, 4)
    BY <2>1, ConcatProperties DEF Joined
  <2> QED BY <2>1, <2>2 DEF Contains
<1> HIDE DEF more
<1>4. /\ Total(sent, put \o more) = 4
      /\ \A i \in 1 .. 3 : Joined(sent, put \o more, i) = Joined(sent, put, i)
      /\ Joined(sent, put \o more, 4) = "VALIDATING"
  <2>1. /\ Total(sent, put \o more) = Total(sent, put) + Len(more)
        /\ Total(sent, put) \in Nat
        /\ \A i \in 1 .. Total(sent, put) : Joined(sent, put \o more, i) = Joined(sent, put, i)
        /\ \A i \in 1 .. Len(more) : Joined(sent, put \o more, Total(sent, put) + i) = more[i]
    BY <1>1, PutJoins
  <2> QED BY <1>1, <1>2, <1>3, <2>1
<1>5. Stages(sent, put \o more, 4)
  BY <1>2, <1>3, <1>4, Events DEF Stages
<1>6. Line(h, sent, put \o more, status, calls, "GENERATING", 4)
  BY <1>2, <1>4, <1>5 DEF Line, Late
<1> QED BY <1>6 DEF more

\* A task that replies puts the terminal event, which says what was written,
\* and the sentinel.
LEMMA LineEnds ==
    ASSUME NEW h, NEW sent \in Seq(Event), NEW put \in Seq(Event), NEW status, NEW calls,
           NEW n, Line(h, sent, put, status, calls, "REPLYING", n),
           NEW e \in Terminal, e \in Answered => status = e
    PROVE  Line(h, sent, put \o <<e, "SENTINEL">>, status, calls, "NONE", n)
<1> DEFINE more == <<e, "SENTINEL">>
<1>1. more \in Seq(Event) /\ Len(more) = 2 /\ more[1] = e /\ more[2] = "SENTINEL"
  <2>1. e \in Event /\ "SENTINEL" \in Event
    BY Events
  <2> QED BY <2>1, ShortSeqs
<1>2. /\ n \in 2 .. 4 /\ Total(sent, put) = n /\ Stages(sent, put, n) /\ h # "CLOSED"
      /\ n >= 3 => calls["ANSWER_GENERATION"] # "NONE"
      /\ h \in {"WAITING", "OPEN", "GONE", "CLOSED"}
      /\ h = "WAITING" => sent = <<>>
      /\ h = "OPEN" => sent # <<>>
  BY DEF Line
<1> HIDE DEF more
<1>3. /\ Total(sent, put \o more) = n + 2
      /\ \A i \in 1 .. n : Joined(sent, put \o more, i) = Joined(sent, put, i)
      /\ Joined(sent, put \o more, n + 1) = e
      /\ Joined(sent, put \o more, n + 2) = "SENTINEL"
  <2>1. /\ Total(sent, put \o more) = Total(sent, put) + Len(more)
        /\ Total(sent, put) \in Nat
        /\ \A i \in 1 .. Total(sent, put) : Joined(sent, put \o more, i) = Joined(sent, put, i)
        /\ \A i \in 1 .. Len(more) : Joined(sent, put \o more, Total(sent, put) + i) = more[i]
    BY <1>1, PutJoins
  <2> QED BY <1>1, <1>2, <2>1
<1>4. Stages(sent, put \o more, n) /\ Ends(sent, put \o more, n) /\ Len(sent) <= n + 1
  BY <1>2, <1>3 DEF Stages, Ends, Total
<1>5. Line(h, sent, put \o more, status, calls, "NONE", n)
  BY <1>2, <1>3, <1>4 DEF Line, Late
<1> QED BY <1>5 DEF more

\* The response takes the next event and sends it.
LEMMA LineSends ==
    ASSUME NEW h \in {"WAITING", "OPEN"}, NEW sent \in Seq(Event), NEW put \in Seq(Event),
           NEW status, NEW calls, NEW pc, NEW n, Line(h, sent, put, status, calls, pc, n),
           put # <<>>, Head(put) # "SENTINEL"
    PROVE  Line("OPEN", Append(sent, Head(put)), Tail(put), status, calls, pc, n)
<1> DEFINE more == Append(sent, Head(put))
           rest == Tail(put)
<1>1. /\ more \in Seq(Event) /\ rest \in Seq(Event) /\ Len(more) = Len(sent) + 1
      /\ Head(put) = Joined(sent, put, Len(sent) + 1)
      /\ Total(more, rest) = Total(sent, put) /\ Len(sent) < Total(sent, put)
      /\ \A i \in 1 .. Total(sent, put) : Joined(more, rest, i) = Joined(sent, put, i)
  BY SendJoins
<1>2. more # <<>> /\ Len(sent) \in Nat
  BY <1>1, EmptySeq
<1>3. /\ n \in 2 .. 4 /\ Stages(sent, put, n)
      /\ n >= 3 => calls["ANSWER_GENERATION"] # "NONE" /\ pc \in Late
      /\ pc = "GENERATING" => n >= 3
      /\ Total(sent, put) = n \/
            (Joined(sent, put, n + 1) \in Answered => status = Joined(sent, put, n + 1))
      /\ \/ Total(sent, put) = n
         \/ /\ Ends(sent, put, n) /\ pc = "NONE"
            /\ Total(sent, put) = n + 2 /\ Len(sent) <= n + 1
            /\ Joined(sent, put, n + 2) = "SENTINEL"
  BY DEF Line
<1> HIDE DEF more, rest
<1>4. Stages(more, rest, n)
  BY <1>1, <1>3 DEF Stages
<1>5. Ends(sent, put, n) => Ends(more, rest, n) /\ Joined(more, rest, n + 1) = Joined(sent, put, n + 1)
  BY <1>1, <1>3 DEF Ends
<1>6. Total(sent, put) = n + 2 => /\ Len(more) <= n + 1
                                  /\ Joined(more, rest, n + 2) = Joined(sent, put, n + 2)
  <2> SUFFICES ASSUME Total(sent, put) = n + 2
               PROVE  /\ Len(more) <= n + 1
                      /\ Joined(more, rest, n + 2) = Joined(sent, put, n + 2)
    OBVIOUS
  <2>1. Joined(sent, put, n + 2) = "SENTINEL" /\ Len(sent) <= n + 1
    BY <1>3
  <2>2. Len(sent) # n + 1
    BY <1>1, <1>3, <2>1
  <2> QED BY <1>1, <1>2, <1>3, <2>1, <2>2
<1>7. Line("OPEN", more, rest, status, calls, pc, n)
  BY <1>1, <1>2, <1>3, <1>4, <1>5, <1>6 DEF Line
<1> QED BY <1>7 DEF more, rest

\* The sentinel closes the stream.
LEMMA LineCloses ==
    ASSUME NEW sent \in Seq(Event), NEW put \in Seq(Event),
           NEW status, NEW calls, NEW pc, NEW n, Line("OPEN", sent, put, status, calls, pc, n),
           put # <<>>, Head(put) = "SENTINEL"
    PROVE  Line("CLOSED", sent, Tail(put), status, calls, pc, n)
<1> DEFINE rest == Tail(put)
<1>1. /\ rest \in Seq(Event)
      /\ Joined(sent, put, Len(sent) + 1) = "SENTINEL"
      /\ Len(sent) < Total(sent, put) /\ Total(sent, rest) = Total(sent, put) - 1
      /\ \A i \in 1 .. Len(sent) : Joined(sent, rest, i) = Joined(sent, put, i)
  BY SendJoins
<1>2. Len(sent) \in Nat /\ Total(sent, put) \in Nat
  BY DEF Total
<1>3. /\ n \in 2 .. 4 /\ Stages(sent, put, n)
      /\ n >= 3 => calls["ANSWER_GENERATION"] # "NONE" /\ pc \in Late
      /\ pc = "GENERATING" => n >= 3
      /\ Total(sent, put) = n \/
            (Joined(sent, put, n + 1) \in Answered => status = Joined(sent, put, n + 1))
      /\ \/ Total(sent, put) = n
         \/ /\ Ends(sent, put, n) /\ pc = "NONE"
            /\ Total(sent, put) = n + 2 /\ Len(sent) <= n + 1
            /\ Joined(sent, put, n + 2) = "SENTINEL"
  BY DEF Line
<1> HIDE DEF rest
<1>4. \A i \in 1 .. n : Joined(sent, put, i) # "SENTINEL"
  <2> SUFFICES ASSUME NEW i \in 1 .. n PROVE Joined(sent, put, i) # "SENTINEL"
    OBVIOUS
  <2>1. i \in 1 .. 4 /\ Joined(sent, put, i) = Order[i]
    BY <1>3 DEF Stages
  <2> QED BY <2>1, Events
<1>5. Total(sent, put) = n + 2 /\ Ends(sent, put, n) /\ pc = "NONE"
  BY <1>1, <1>2, <1>3, <1>4
<1>6. Len(sent) = n + 1
  <2>1. Joined(sent, put, n + 1) # "SENTINEL"
    BY <1>5, Events DEF Ends
  <2>2. Len(sent) + 1 # n + 1 /\ Len(sent) + 1 \notin 1 .. n
    BY <1>1, <1>4, <2>1
  <2> QED BY <1>2, <1>3, <1>5, <2>2
<1>7. /\ Total(sent, rest) = n + 1 /\ Stages(sent, rest, n)
      /\ Ends(sent, rest, n) /\ Joined(sent, rest, n + 1) = Joined(sent, put, n + 1)
  BY <1>1, <1>3, <1>5, <1>6 DEF Stages, Ends
<1>8. Line("CLOSED", sent, rest, status, calls, pc, n)
  BY <1>3, <1>5, <1>6, <1>7 DEF Line
<1> QED BY <1>8 DEF rest


-----------------------------------------------------------------------------
(* Every step keeps the delivery *)

\* A turn whose events stay where they are, though its client may leave.
Waits(q) ==
    /\ wire'[q] = wire[q] /\ queue'[q] = queue[q]
    /\ http'[q] = http[q] \/ (http[q] \in {"WAITING", "OPEN"} /\ http'[q] = "GONE")

\* It fits as before, however its task went on.
LEMMA RestFits ==
    ASSUME NEW q \in Run, DeliveryFits(q), Waits(q), LogKept(q), GoesOn(q), SaysTrue(q)'
    PROVE  DeliveryFits(q)'
<1>1. http'[q] \in {"NONE", "PLAIN"} <=> http[q] \in {"NONE", "PLAIN"}
  BY DEF Waits
<1>2. CASE http[q] \in {"NONE", "PLAIN"}
  BY <1>1, <1>2 DEF DeliveryFits, Waits, Gone, GoesOn
<1>3. CASE http[q] \notin {"NONE", "PLAIN"} /\ run[q].status = "NONE"
  BY <1>1, <1>3 DEF DeliveryFits, RefusalFits, Waits, LogKept
<1>4. CASE http[q] \notin {"NONE", "PLAIN"} /\ run[q].status # "NONE"
  <2>1. PICK n \in 2 .. 4 : LineFits(q, n)
    BY <1>4 DEF DeliveryFits
  <2>2. Line(http'[q], wire[q], queue[q], run'[q].status, call'[q], worker'[q].pc, n)
    BY <2>1, LineStays DEF LineFits, Waits, LogKept, GoesOn
  <2>3. LineFits(q, n)'
    BY <2>2 DEF LineFits, Waits
  <2> QED BY <1>1, <1>4, <2>3 DEF DeliveryFits, LogKept
<1> QED BY <1>2, <1>3, <1>4

\* The queue of one turn is prolonged.
LEMMA PutEffect ==
    ASSUME StreamTyped, NEW r \in Run, NEW events \in Seq(Event), Put(r, events)
    PROVE  /\ StreamTyped'
           /\ UNCHANGED <<http, wire>>
           /\ queue'[r] = IF Streaming(r) THEN queue[r] \o events ELSE queue[r]
           /\ \A q \in Run \ {r} : queue'[q] = queue[q]
<1>1. queue[r] \o events \in Seq(Event)
  BY ConcatProperties DEF StreamTyped
<1>2. queue' = [queue EXCEPT ![r] = IF Streaming(r) THEN queue[r] \o events ELSE queue[r]]
  BY DEF Put
<1> QED BY <1>1, <1>2 DEF StreamTyped, Put

\* A turn that nothing is announced of has no task without a response in hand.
LEMMA StreamOpen ==
    ASSUME Typed, NEW r \in Run, DeliveryFits(r), worker[r].pc # "NONE"
    PROVE  /\ run[r].status # "NONE" /\ http[r] # "NONE"
           /\ Streaming(r) => \E n \in 2 .. 4 : LineFits(r, n)
BY DEF DeliveryFits, Typed, KnownTurns, Gone, Streaming

\* A turn that an event was put of fits as soon as its line does.
LEMMA LineIsEnough ==
    ASSUME NEW r \in Run, http'[r] \notin {"NONE", "PLAIN"}, run'[r].status # "NONE",
           NEW n, LineFits(r, n)', SaysTrue(r)'
    PROVE  DeliveryFits(r)'
<1>1. n \in 2 .. 4
  BY DEF LineFits, Line
<1> QED BY <1>1 DEF DeliveryFits

\* checkpoint_generation
LEMMA GeneratingFits ==
    ASSUME DInv, NEW r \in Run, Generating(r)
    PROVE  StreamTyped' /\ \A q \in Run : DeliveryFits(q)'
<1>1. Typed /\ CallsFit /\ StreamTyped /\ \A q \in Run : DeliveryFits(q)
  BY DEF DInv, IInv
<1>2. TypeOK /\ WorkerStep(r) /\ Confirmed(r) /\ Put(r, <<"GENERATING">>)
  BY <1>1 DEF Generating, Confirmed, WorkerStep, Typed
<1>3. /\ \A q \in Run : LogKept(q)
      /\ \A q \in Run \ {r} : worker'[q] = worker[q] /\ run'[q] = run[q]
      /\ worker[r].pc # "NONE" /\ run[r].status # "NONE"
  BY <1>1, <1>2, MoveKeepsLog
<1>4. <<"GENERATING">> \in Seq(Event)
  BY Events, ShortSeqs
<1>5. /\ StreamTyped' /\ UNCHANGED <<http, wire>>
      /\ queue'[r] = IF Streaming(r) THEN queue[r] \o <<"GENERATING">> ELSE queue[r]
      /\ \A q \in Run \ {r} : queue'[q] = queue[q]
  BY <1>1, <1>2, <1>4, PutEffect
<1>6. worker'[r].pc = "GENERATING" /\ worker[r].pc \in {"RETRIEVED", "JUDGED"}
      /\ call'[r]["ANSWER_GENERATION"] # "NONE"
  BY <1>2, CallsMove DEF Confirmed, StartGeneration, Raised
<1>7. ASSUME NEW q \in Run \ {r}
      PROVE  DeliveryFits(q)'
  BY <1>1, <1>3, <1>5, RestFits DEF Waits, GoesOn, SaysTrue, DeliveryFits
<1>8. SaysTrue(r)'
  BY <1>6 DEF SaysTrue
<1>9. CASE Streaming(r)
  <2>1. PICK n \in 2 .. 4 : LineFits(r, n)
    BY <1>1, <1>3, <1>9, StreamOpen
  <2>2. Line(http[r], wire[r], queue[r] \o <<"GENERATING">>, run'[r].status, call'[r], "GENERATING", 3)
    BY <1>1, <1>6, <2>1, LineGenerates DEF LineFits, StreamTyped
  <2>3. LineFits(r, 3)'
    BY <1>5, <1>6, <1>9, <2>2 DEF LineFits
  <2> QED BY <1>3, <1>5, <1>7, <1>8, <1>9, <2>3, LineIsEnough DEF Streaming, LogKept
<1>10. CASE ~Streaming(r)
  <2>1. http[r] = "PLAIN"
    BY <1>1, <1>3, <1>10, StreamOpen DEF Streaming
  <2> QED BY <1>1, <1>5, <1>7, <1>8, <1>10, <2>1 DEF DeliveryFits
<1> QED BY <1>9, <1>10

\* The answer is checked.
LEMMA ValidatingFits ==
    ASSUME DInv, NEW r \in Run, Validating(r)
    PROVE  StreamTyped' /\ \A q \in Run : DeliveryFits(q)'
<1>1. Typed /\ StreamTyped /\ \A q \in Run : DeliveryFits(q)
  BY DEF DInv, IInv
<1>2. /\ worker[r].pc = "GENERATING" /\ Streaming(r) /\ Put(r, <<"VALIDATING">>)
      /\ ~Contains(wire[r] \o queue[r], "VALIDATING")
      /\ UNCHANGED <<run, call, worker>>
  BY DEF Validating, At, Everything, vars, world
<1>3. <<"VALIDATING">> \in Seq(Event)
  BY Events, ShortSeqs
<1>4. /\ StreamTyped' /\ UNCHANGED <<http, wire>>
      /\ queue'[r] = queue[r] \o <<"VALIDATING">>
      /\ \A q \in Run \ {r} : queue'[q] = queue[q]
  BY <1>1, <1>2, <1>3, PutEffect
<1>5. ASSUME NEW q \in Run \ {r}
      PROVE  DeliveryFits(q)'
  BY <1>1, <1>2, <1>4, RestFits DEF Waits, GoesOn, SaysTrue, DeliveryFits, LogKept
<1>6. SaysTrue(r)'
  BY <1>2 DEF SaysTrue
<1>7. PICK n \in 2 .. 4 : LineFits(r, n)
  BY <1>1, <1>2, StreamOpen
<1>8. Line(http[r], wire[r], queue[r] \o <<"VALIDATING">>, run[r].status, call[r], "GENERATING", 4)
  BY <1>1, <1>2, <1>7, LineValidates DEF LineFits, StreamTyped
<1>9. LineFits(r, 4)'
  BY <1>2, <1>4, <1>8 DEF LineFits
<1>10. run[r].status # "NONE"
  BY <1>1, <1>2, StreamOpen
<1> QED BY <1>2, <1>4, <1>5, <1>6, <1>9, <1>10, LineIsEnough DEF Streaming

\* answer_question has returned.
LEMMA FinishingFits ==
    ASSUME DInv, NEW r \in Run, Finishing(r)
    PROVE  StreamTyped' /\ \A q \in Run : DeliveryFits(q)'
<1>1. Typed /\ CallsFit /\ StreamTyped /\ \A q \in Run : DeliveryFits(q)
  BY DEF DInv, IInv
<1>2. TypeOK /\ WorkerStep(r) /\ Reply(r) /\ worker[r].pc = "REPLYING"
  BY <1>1 DEF Finishing, WorkerStep, Typed, Reply, At
<1>3. PICK events \in LastEvents(r) : Put(r, events)
  BY DEF Finishing
<1>4. PICK e \in {worker[r].says} \cup {"BROKEN"} : events = <<e, "SENTINEL">>
  BY <1>3 DEF LastEvents
<1>5. e \in Terminal /\ (e \in Answered => run[r].status = e)
  BY <1>1, <1>2, <1>4, Events DEF DeliveryFits, SaysTrue, Answered
<1>6. events \in Seq(Event)
  BY <1>4, <1>5, Events, ShortSeqs
<1>7. /\ \A q \in Run : LogKept(q)
      /\ \A q \in Run \ {r} : worker'[q] = worker[q] /\ run'[q] = run[q]
      /\ worker[r].pc # "NONE" /\ run[r].status # "NONE"
  BY <1>1, <1>2, MoveKeepsLog
<1>8. GoesOn(r) /\ SaysTrue(r)'
  <2>1. ~Confirmed(r)
    BY <1>2 DEF Confirmed, StartGeneration, Raised
  <2> QED BY <1>1, <1>2, <2>1, TaskGoesOn
<1>9. /\ StreamTyped' /\ UNCHANGED <<http, wire>>
      /\ queue'[r] = IF Streaming(r) THEN queue[r] \o events ELSE queue[r]
      /\ \A q \in Run \ {r} : queue'[q] = queue[q]
  BY <1>1, <1>3, <1>6, PutEffect
<1>10. ASSUME NEW q \in Run \ {r}
       PROVE  DeliveryFits(q)'
  BY <1>1, <1>7, <1>9, RestFits DEF Waits, GoesOn, SaysTrue, DeliveryFits
<1>11. run' = run /\ call' = call /\ worker'[r].pc = "NONE"
  BY <1>2, NoTask DEF Reply, EndWorker, TypeOK
<1>12. CASE Streaming(r)
  <2>1. PICK n \in 2 .. 4 : LineFits(r, n)
    BY <1>1, <1>7, <1>12, StreamOpen
  <2>2. Line(http[r], wire[r], queue[r] \o <<e, "SENTINEL">>, run[r].status, call[r], "NONE", n)
    BY <1>1, <1>2, <1>5, <2>1, LineEnds DEF LineFits, StreamTyped
  <2>3. LineFits(r, n)'
    BY <1>4, <1>9, <1>11, <1>12, <2>2 DEF LineFits
  <2> QED BY <1>7, <1>8, <1>9, <1>10, <1>11, <1>12, <2>3, LineIsEnough DEF Streaming
<1>13. CASE ~Streaming(r)
  <2>1. DeliveryFits(r)'
    BY <1>1, <1>7, <1>8, <1>9, <1>13, RestFits DEF Waits
  <2> QED BY <1>9, <1>10, <2>1
<1> QED BY <1>12, <1>13


\* Every step of a task that puts nothing, also one that ends it.
LEMMA SilentFits ==
    ASSUME DInv, NEW r \in Run, Silent(r) \/ Cancel(r) \/ EndUnrecorded(r)
    PROVE  StreamTyped' /\ \A q \in Run : DeliveryFits(q)'
<1>1. Typed /\ CallsFit /\ StreamTyped /\ \A q \in Run : DeliveryFits(q)
  BY DEF DInv, IInv
<1>2. /\ \/ WorkerStep(r) /\ ~Confirmed(r)
         \/ FailUnrecorded(r) \/ Disconnect(r) \/ Lost(r)
      /\ UNCHANGED <<http, queue, wire>>
  BY DEF Silent, Cancel, EndUnrecorded, delivery
<1>3. /\ \A q \in Run : LogKept(q)
      /\ \A q \in Run \ {r} : worker'[q] = worker[q] /\ run'[q] = run[q]
      /\ worker[r].pc # "NONE"
  BY <1>1, <1>2, MoveKeepsLog
<1>4. GoesOn(r) /\ SaysTrue(r)'
  BY <1>1, <1>2, <1>3, TaskGoesOn
<1>5. \A q \in Run \ {r} : GoesOn(q) /\ SaysTrue(q)'
  BY <1>1, <1>3 DEF GoesOn, SaysTrue, DeliveryFits
<1>6. \A q \in Run : Waits(q)
  BY <1>2 DEF Waits
<1>7. StreamTyped'
  BY <1>1, <1>2 DEF StreamTyped
<1> QED BY <1>1, <1>3, <1>4, <1>5, <1>6, <1>7, RestFits

\* Steps that leave tasks, calls and rows alone, or close turns that are open.
LEMMA ClosingFits ==
    ASSUME Typed, NEW q \in Run, DeliveryFits(q), worker'[q] = worker[q],
           \/ run'[q] = run[q] /\ call'[q] = call[q]
           \/ /\ Processing(q) /\ run'[q] = WithStatus(run[q], "ERROR")
              /\ call'[q] = Abandoned(call[q])
    PROVE  LogKept(q) /\ GoesOn(q) /\ SaysTrue(q)'
<1>1. GoesOn(q) /\ SaysTrue(q)
  BY DEF GoesOn, DeliveryFits
<1>2. CASE run'[q] = run[q] /\ call'[q] = call[q]
  BY <1>1, <1>2 DEF LogKept, SaysTrue
<1>3. CASE /\ Processing(q) /\ run'[q] = WithStatus(run[q], "ERROR")
           /\ call'[q] = Abandoned(call[q])
  <2>1. run'[q].status = "ERROR"
    BY <1>3, RowFields DEF Typed, TypeOK, Ended
  <2>2. call[q]["ANSWER_GENERATION"] # "NONE" => call'[q]["ANSWER_GENERATION"] # "NONE"
    BY <1>3, CallsLast, Purposes DEF Typed, TypeOK
  <2>3. LogKept(q)
    BY <1>3, <2>1, <2>2 DEF LogKept, Processing, Answered
  <2> QED BY <1>1, <1>3, <2>3 DEF SaysTrue, Processing, Answered
<1> QED BY <1>2, <1>3

\* A question starts its turn, and closes the ones that were left open.
LEMMA StartTurnFits ==
    ASSUME DInv, NEW c \in Conv, NEW r \in Run, StartTurn(c, r)
    PROVE  StreamTyped' /\ \A q \in Run : DeliveryFits(q)'
<1>1. Typed /\ TypeOK /\ StreamTyped /\ \A q \in Run : DeliveryFits(q)
  BY DEF DInv, IInv, Typed
<1>2. Ask(c, r) /\ http[r] = "NONE" /\ wire' = wire
  BY DEF StartTurn
<1>3. /\ run'[r].status = "PROCESSING"
      /\ \A q \in Run \ {r} : IF q \in OpenTurns(c)
            THEN run'[q] = WithStatus(run[q], "ERROR") /\ call'[q] = Abandoned(call[q])
            ELSE run'[q] = run[q] /\ call'[q] = call[q]
      /\ worker' = [worker EXCEPT ![r] = TaskAt(worker[r], "STARTED")]
  BY <1>1, <1>2, AskEffect
<1>4. worker'[r].pc = "STARTED" /\ \A q \in Run \ {r} : worker'[q] = worker[q]
  BY <1>1, <1>3, TaskFields, Purposes DEF TypeOK
<1>5. \A q \in Run \ {r} : http'[q] = http[q] /\ queue'[q] = queue[q]
  BY <1>1 DEF StartTurn, StreamTyped
<1>6. \A q \in Run \ {r} : DeliveryFits(q)'
  <2> SUFFICES ASSUME NEW q \in Run \ {r} PROVE DeliveryFits(q)'
    OBVIOUS
  <2>1. LogKept(q) /\ GoesOn(q) /\ SaysTrue(q)'
    BY <1>1, <1>3, <1>4, ClosingFits DEF OpenTurns
  <2> QED BY <1>1, <1>2, <1>5, <2>1, RestFits DEF Waits
<1>7. wire[r] = <<>> /\ queue[r] = <<>> /\ SaysTrue(r)'
  BY <1>1, <1>2, <1>4 DEF DeliveryFits, SaysTrue
<1>8. CASE http' = [http EXCEPT ![r] = "PLAIN"] /\ UNCHANGED queue
  <2>1. http'[r] = "PLAIN" /\ StreamTyped'
    BY <1>1, <1>2, <1>8 DEF StreamTyped
  <2>2. DeliveryFits(r)'
    BY <1>2, <1>7, <1>8, <2>1 DEF DeliveryFits
  <2> QED BY <1>6, <2>1, <2>2
<1>9. CASE /\ http' = [http EXCEPT ![r] = "WAITING"]
           /\ queue' = [queue EXCEPT ![r] = <<"RUN", "RETRIEVING">>]
  <2>1. <<"RUN", "RETRIEVING">> \in Seq(Event)
    BY Events, ShortSeqs
  <2>2. http'[r] = "WAITING" /\ queue'[r] = <<"RUN", "RETRIEVING">> /\ StreamTyped'
    BY <1>1, <1>2, <1>9, <2>1 DEF StreamTyped
  <2>3. Line("WAITING", <<>>, <<"RUN", "RETRIEVING">>, run'[r].status, call'[r], "STARTED", 2)
    BY LineBegins
  <2>4. LineFits(r, 2)'
    BY <1>2, <1>4, <1>7, <2>2, <2>3 DEF LineFits
  <2> QED BY <1>3, <1>6, <1>7, <2>2, <2>4, LineIsEnough
<1> QED BY <1>8, <1>9 DEF StartTurn

\* A later question closes the turn.
LEMMA LaterFits ==
    ASSUME DInv, NEW r \in Run, LaterQuestion(r)
    PROVE  StreamTyped' /\ \A q \in Run : DeliveryFits(q)'
<1>1. Typed /\ TypeOK /\ StreamTyped /\ \A q \in Run : DeliveryFits(q)
  BY DEF DInv, IInv, Typed
<1>2. /\ Processing(r) /\ run' = [run EXCEPT ![r] = WithStatus(run[r], "ERROR")]
      /\ call' = [call EXCEPT ![r] = Abandoned(call[r])]
      /\ UNCHANGED <<worker, http, queue, wire>>
  BY DEF LaterQuestion, Recovered, WithStatus, delivery
<1>3. /\ run'[r] = WithStatus(run[r], "ERROR") /\ call'[r] = Abandoned(call[r])
      /\ \A q \in Run \ {r} : run'[q] = run[q] /\ call'[q] = call[q]
  BY <1>1, <1>2 DEF TypeOK
<1>4. \A q \in Run : LogKept(q) /\ GoesOn(q) /\ SaysTrue(q)'
  <2> SUFFICES ASSUME NEW q \in Run PROVE LogKept(q) /\ GoesOn(q) /\ SaysTrue(q)'
    OBVIOUS
  <2>1. worker'[q] = worker[q]
    BY <1>2
  <2> QED BY <1>1, <1>2, <1>3, <2>1, ClosingFits
<1>5. StreamTyped' /\ \A q \in Run : Waits(q)
  BY <1>1, <1>2 DEF StreamTyped, Waits
<1> QED BY <1>1, <1>4, <1>5, RestFits

\* Nothing happens to any turn, though a client may leave.
LEMMA QuietFits ==
    ASSUME DInv, UNCHANGED <<run, call, worker>>, StreamTyped', \A q \in Run : Waits(q)
    PROVE  \A q \in Run : DeliveryFits(q)'
<1> SUFFICES ASSUME NEW q \in Run PROVE DeliveryFits(q)'
  OBVIOUS
<1>1. Typed /\ DeliveryFits(q)
  BY DEF DInv, IInv
<1>2. LogKept(q) /\ GoesOn(q) /\ SaysTrue(q)'
  BY <1>1, ClosingFits
<1> QED BY <1>1, <1>2, RestFits

\* A stream that waits for its first event, or sends the next one.
LEMMA DeliverFits ==
    ASSUME DInv, NEW r \in Run, Deliver(r)
    PROVE  StreamTyped' /\ \A q \in Run : DeliveryFits(q)'
<1>1. Typed /\ StreamTyped /\ \A q \in Run : DeliveryFits(q)
  BY DEF DInv, IInv
<1>2. /\ UNCHANGED <<run, call, worker>> /\ queue[r] # <<>>
      /\ queue' = [queue EXCEPT ![r] = Tail(queue[r])]
      /\ http[r] \in {"WAITING", "OPEN"}
  BY DEF Deliver, Open, Send, vars, world
<1>3. /\ Head(queue[r]) \in Event /\ Tail(queue[r]) \in Seq(Event)
      /\ Head(queue[r]) = queue[r][1]
      /\ wire[r] \in Seq(Event) /\ Append(wire[r], Head(queue[r])) \in Seq(Event)
  BY <1>1, <1>2, HeadTailProperties, SendJoins DEF StreamTyped
<1>4. queue'[r] = Tail(queue[r]) /\ \A q \in Run \ {r} : queue'[q] = queue[q]
  BY <1>1, <1>2 DEF StreamTyped
<1>5. ASSUME NEW h \in {"OPEN", "CLOSED", "REFUSED"}, NEW sent \in Seq(Event),
             http' = [http EXCEPT ![r] = h], wire' = [wire EXCEPT ![r] = sent]
      PROVE  /\ StreamTyped' /\ http'[r] = h /\ wire'[r] = sent
             /\ \A q \in Run \ {r} : DeliveryFits(q)'
             /\ SaysTrue(r)'
  <2>1. StreamTyped' /\ http'[r] = h /\ wire'[r] = sent
    BY <1>1, <1>2, <1>3, <1>5 DEF StreamTyped
  <2>2. \A q \in Run \ {r} : Waits(q)
    BY <1>1, <1>4, <1>5 DEF StreamTyped, Waits
  <2>3. \A q \in Run : LogKept(q) /\ GoesOn(q) /\ SaysTrue(q)'
    BY <1>1, <1>2, ClosingFits
  <2> QED BY <1>1, <2>1, <2>2, <2>3, RestFits
<1>6. wire = [wire EXCEPT ![r] = wire[r]] /\ http = [http EXCEPT ![r] = http[r]]
  BY <1>1 DEF StreamTyped
<1>7. CASE run[r].status = "NONE"
  <2>1. RefusalFits(r)
    BY <1>1, <1>2, <1>7 DEF DeliveryFits
  <2>2. http[r] = "WAITING" /\ Head(queue[r]) = "START_FAILED" /\ wire[r] = <<>>
    BY <1>2, <1>3, <2>1 DEF RefusalFits
  <2>3. http' = [http EXCEPT ![r] = "REFUSED"] /\ wire' = [wire EXCEPT ![r] = wire[r]]
    BY <1>6, <2>2 DEF Deliver, Open, Send
  <2>4. /\ StreamTyped' /\ http'[r] = "REFUSED" /\ wire'[r] = <<>>
        /\ \A q \in Run \ {r} : DeliveryFits(q)'
        /\ SaysTrue(r)'
    BY <1>3, <1>5, <2>2, <2>3
  <2>5. DeliveryFits(r)'
    BY <1>2, <1>7, <2>4 DEF DeliveryFits, RefusalFits
  <2> QED BY <2>4, <2>5
<1>8. CASE run[r].status # "NONE"
  <2>1. PICK n \in 2 .. 4 : LineFits(r, n)
    BY <1>1, <1>2, <1>8 DEF DeliveryFits
  <2> DEFINE first == Head(queue[r])
             more == Append(wire[r], first)
  <2>2. CASE first = "SENTINEL"
    <3>1. http[r] = "OPEN"
      <4> SUFFICES ASSUME http[r] = "WAITING" PROVE FALSE
        BY <1>2
      <4>1. Joined(wire[r], queue[r], 1) = Order[1] /\ wire[r] = <<>>
        BY <2>1 DEF LineFits, Line, Stages
      <4>2. Joined(wire[r], queue[r], Len(wire[r]) + 1) = first
        BY <1>1, <1>2, SendJoins DEF StreamTyped
      <4> QED BY <2>2, <4>1, <4>2, Events
    <3>2. http' = [http EXCEPT ![r] = "CLOSED"] /\ wire' = [wire EXCEPT ![r] = wire[r]]
      BY <1>6, <2>2, <3>1 DEF Deliver, Open, Send
    <3>3. /\ StreamTyped' /\ http'[r] = "CLOSED" /\ wire'[r] = wire[r]
          /\ \A q \in Run \ {r} : DeliveryFits(q)'
          /\ SaysTrue(r)'
      BY <1>3, <1>5, <3>2
    <3>4. Line("CLOSED", wire[r], Tail(queue[r]), run[r].status, call[r], worker[r].pc, n)
      BY <1>1, <1>2, <2>1, <2>2, <3>1, LineCloses DEF LineFits, StreamTyped
    <3>5. LineFits(r, n)'
      BY <1>2, <1>4, <3>3, <3>4 DEF LineFits
    <3> QED BY <1>2, <1>8, <3>3, <3>5, LineIsEnough
  <2>3. CASE first # "SENTINEL"
    <3>1. http' = [http EXCEPT ![r] = "OPEN"] /\ wire' = [wire EXCEPT ![r] = more]
      <4>1. CASE http[r] = "WAITING"
        <5>1. Joined(wire[r], queue[r], 1) = Order[1] /\ wire[r] = <<>>
          BY <2>1, <4>1 DEF LineFits, Line, Stages
        <5>2. Joined(wire[r], queue[r], Len(wire[r]) + 1) = first
          BY <1>1, <1>2, SendJoins DEF StreamTyped
        <5>3. first = "RUN" /\ more = <<"RUN">>
          BY <5>1, <5>2, Events
        <5> QED BY <4>1, <5>3 DEF Deliver, Open, Send
      <4>2. CASE http[r] = "OPEN"
        <5>1. UNCHANGED http /\ wire' = [wire EXCEPT ![r] = more]
          BY <2>3, <4>2 DEF Deliver, Open, Send
        <5> QED BY <1>6, <4>2, <5>1
      <4> QED BY <1>2, <4>1, <4>2
    <3>2. /\ StreamTyped' /\ http'[r] = "OPEN" /\ wire'[r] = more
          /\ \A q \in Run \ {r} : DeliveryFits(q)'
          /\ SaysTrue(r)'
      BY <1>3, <1>5, <3>1
    <3>3. Line("OPEN", more, Tail(queue[r]), run[r].status, call[r], worker[r].pc, n)
      BY <1>1, <1>2, <2>1, <2>3, LineSends DEF LineFits, StreamTyped
    <3>4. LineFits(r, n)'
      BY <1>2, <1>4, <3>2, <3>3 DEF LineFits
    <3> QED BY <1>2, <1>8, <3>2, <3>4, LineIsEnough
  <2> QED BY <2>2, <2>3
<1> QED BY <1>7, <1>8

\* There is no turn and no stream.
LEMMA StartFailsFits ==
    ASSUME DInv, NEW r \in Run, StartFails(r)
    PROVE  StreamTyped' /\ \A q \in Run : DeliveryFits(q)'
<1>1. Typed /\ StreamTyped /\ \A q \in Run : DeliveryFits(q)
  BY DEF DInv, IInv
<1>2. /\ http[r] = "NONE" /\ run[r].status = "NONE"
      /\ http' = [http EXCEPT ![r] = "WAITING"]
      /\ queue' = [queue EXCEPT ![r] = <<"START_FAILED", "SENTINEL">>]
      /\ UNCHANGED <<run, call, worker, wire>>
  BY DEF StartFails, vars, world
<1>3. /\ <<"START_FAILED", "SENTINEL">> \in Seq(Event) /\ <<"START_FAILED", "SENTINEL">> # <<>>
      /\ <<"START_FAILED", "SENTINEL">>[1] = "START_FAILED"
  BY Events, ShortSeqs
<1>4. /\ StreamTyped' /\ http'[r] = "WAITING" /\ queue'[r] = <<"START_FAILED", "SENTINEL">>
      /\ \A q \in Run \ {r} : http'[q] = http[q] /\ queue'[q] = queue[q]
  BY <1>1, <1>2, <1>3 DEF StreamTyped
<1>5. \A q \in Run : LogKept(q) /\ GoesOn(q) /\ SaysTrue(q)'
  BY <1>1, <1>2, ClosingFits
<1>6. \A q \in Run \ {r} : DeliveryFits(q)'
  BY <1>1, <1>2, <1>4, <1>5, RestFits DEF Waits
<1>7. DeliveryFits(r)'
  BY <1>1, <1>2, <1>3, <1>4, <1>5 DEF DeliveryFits, RefusalFits
<1> QED BY <1>4, <1>6, <1>7

\* A process dies with its tasks and their streams.
LEMMA DieFits ==
    ASSUME DInv, Die
    PROVE  StreamTyped' /\ \A q \in Run : DeliveryFits(q)'
<1>1. Typed /\ TypeOK /\ StreamTyped /\ \A q \in Run : DeliveryFits(q)
  BY DEF DInv, IInv, Typed
<1>2. PICK lost \in SUBSET {r \in Run : http[r] \in {"WAITING", "OPEN"}} :
         http' = [r \in Run |-> IF r \in lost THEN "GONE" ELSE http[r]]
  BY DEF Die
<1>3. PICK dead \in SUBSET {r \in Run : ~At(r, "NONE")} :
         worker' = [r \in Run |-> IF r \in dead THEN NoWorker ELSE worker[r]]
  BY DEF Die, Crash
<1>4. UNCHANGED <<run, call, wire, queue>>
  BY DEF Die, Crash
<1>5. StreamTyped' /\ \A q \in Run : Waits(q)
  BY <1>1, <1>2, <1>4 DEF StreamTyped, Waits
<1>6. \A q \in Run : LogKept(q) /\ GoesOn(q) /\ SaysTrue(q)'
  <2> SUFFICES ASSUME NEW q \in Run PROVE LogKept(q) /\ GoesOn(q) /\ SaysTrue(q)'
    OBVIOUS
  <2>1. CASE q \in dead
    <3>1. worker'[q].pc = "NONE"
      BY <1>3, <2>1, NoTask
    <3> QED BY <1>4, <3>1 DEF LogKept, GoesOn, SaysTrue, Late
  <2>2. CASE q \notin dead
    <3>1. worker'[q] = worker[q]
      BY <1>3, <2>2
    <3> QED BY <1>1, <1>4, <3>1, ClosingFits
  <2> QED BY <2>1, <2>2
<1> QED BY <1>1, <1>5, <1>6, RestFits

\* Every other step leaves rows, calls and tasks alone.
LEMMA OtherFits ==
    ASSUME DInv,
           \/ \E r \in Run : HangUp(r) \/ GetOld(r)
           \/ \E p \in Rater :
                 \/ \E r \in Run, wants \in Ratings \cup {"NONE"} : FindRating(p, r, wants)
                 \/ WriteRating(p) \/ RatingFails(p)
           \/ UNCHANGED allVars
    PROVE  StreamTyped' /\ \A q \in Run : DeliveryFits(q)'
<1>1. StreamTyped
  BY DEF DInv
<1>2. UNCHANGED <<run, call, worker>>
  BY DEF HangUp, GetOld, Age, FindRating, WriteRating, RatingFails, allVars, vars, world
<1>3. StreamTyped' /\ \A q \in Run : Waits(q)
  <2>1. CASE \E r \in Run : HangUp(r)
    BY <1>1, <2>1 DEF HangUp, StreamTyped, Waits
  <2>2. CASE UNCHANGED <<http, queue, wire>>
    BY <1>1, <2>2 DEF StreamTyped, Waits
  <2> QED BY <2>1, <2>2 DEF GetOld, FindRating, WriteRating, RatingFails, allVars, delivery
<1> QED BY <1>2, <1>3, QuietFits

\* The response of every request fits its turn after every step.
LEMMA DeliveryKeeps ==
    ASSUME DInv, [StreamNext]_allVars
    PROVE  StreamTyped' /\ \A q \in Run : DeliveryFits(q)'
BY StartTurnFits, StartFailsFits, GeneratingFits, ValidatingFits, FinishingFits, SilentFits,
   DeliverFits, DieFits, LaterFits, OtherFits DEF StreamNext, Produce


-----------------------------------------------------------------------------
(* Feedback *)

\* Requests and ratings one by one
LEMMA FeedbackTyped ==
    ASSUME FeedbackFits, NEW p \in Rater
    PROVE  /\ Idle.pc # "FOUND"
           /\ rater[p].pc = "FOUND" <=> rater[p] \in Asking
           /\ rater[p].pc # "FOUND" <=> rater[p] = Idle
           /\ rater[p].pc = "FOUND" =>
                 /\ rater[p].run \in Run /\ rater[p].wants \in Ratings \cup {"NONE"}
                 /\ rater[p].found \in Ratings \cup {"NONE"}
<1>1. Idle.pc # "FOUND"
  BY DEF Idle
<1>2. rater[p] \in Asking \cup {Idle}
  BY DEF FeedbackFits
<1>3. \A a \in Asking : a.pc = "FOUND" /\ a.run \in Run /\ a.wants \in Ratings \cup {"NONE"}
                        /\ a.found \in Ratings \cup {"NONE"}
  BY DEF Asking
<1> QED BY <1>1, <1>2, <1>3

\* Ratings and requests stay as they are, and so do answers.
LEMMA FeedbackRests ==
    ASSUME FeedbackFits, rating' = rating,
           rater' = rater \/ rater' = [p \in Rater |-> Idle],
           \A q \in Run : run[q].status \in Answered => run'[q].status = run[q].status
    PROVE  FeedbackFits'
<1>1. Idle.pc # "FOUND" /\ \A p \in Rater : rater'[p] = rater[p] \/ rater'[p] = Idle
  BY DEF Idle
<1>2. \A p \in Rater : rater'[p].pc = "FOUND" => rater'[p] = rater[p] /\ rater[p].run \in Run
  BY <1>1, FeedbackTyped
<1>3. rater' \in [Rater -> Asking \cup {Idle}] /\ rating' \in [Run -> [value: Ratings \cup {"NONE"}, updated: 0 .. 1]]
  BY DEF FeedbackFits
<1>4. \A r \in Run : rating'[r].value # "NONE" => run'[r].status \in Answered
  BY DEF FeedbackFits
<1>5. \A p \in Rater : rater'[p].pc = "FOUND" =>
          /\ run'[rater'[p].run].status \in Answered
          /\ rater'[p].found # "NONE" => rating'[rater'[p].run].value = rater'[p].found
  BY <1>2 DEF FeedbackFits
<1>6. \A p, q \in Rater :
          (/\ rater'[p].pc = "FOUND" /\ rater'[q].pc = "FOUND"
           /\ rater'[p].run = rater'[q].run
           /\ rater'[p].found # "NONE" /\ rater'[q].found # "NONE") => p = q
  BY <1>2 DEF FeedbackFits
<1> QED BY <1>3, <1>4, <1>5, <1>6 DEF FeedbackFits

\* One request reads.
LEMMA FindKeeps ==
    ASSUME FeedbackFits, NEW p \in Rater, NEW r \in Run, NEW wants \in Ratings \cup {"NONE"},
           FindRating(p, r, wants)
    PROVE  FeedbackFits'
<1> DEFINE asks == [pc |-> "FOUND", run |-> r, wants |-> wants, found |-> rating[r].value]
<1>1. rating[r].value \in Ratings \cup {"NONE"}
  BY DEF FeedbackFits
<1>2. /\ asks \in Asking /\ asks.pc = "FOUND" /\ asks.run = r /\ asks.found = rating[r].value
  BY <1>1 DEF Asking
<1>3. /\ rater' = [rater EXCEPT ![p] = asks] /\ run[r].status \in Answered /\ ~Held(r)
      /\ UNCHANGED <<run, rating>>
  BY DEF FindRating, vars, world
<1> HIDE DEF asks
<1>4. /\ rater' \in [Rater -> Asking \cup {Idle}] /\ rater'[p] = asks
      /\ \A q \in Rater \ {p} : rater'[q] = rater[q]
  BY <1>2, <1>3 DEF FeedbackFits
<1>5. \A q \in Rater : rater'[q].pc = "FOUND" =>
          /\ run[rater'[q].run].status \in Answered
          /\ rater'[q].found # "NONE" => rating[rater'[q].run].value = rater'[q].found
  BY <1>2, <1>3, <1>4 DEF FeedbackFits
<1>6. \A x, y \in Rater :
          (/\ rater'[x].pc = "FOUND" /\ rater'[y].pc = "FOUND"
           /\ rater'[x].run = rater'[y].run
           /\ rater'[x].found # "NONE" /\ rater'[y].found # "NONE") => x = y
  <2>1. \A q \in Rater : ~(rater[q].pc = "FOUND" /\ rater[q].run = r /\ rater[q].found # "NONE")
    BY <1>3 DEF Held
  <2> QED BY <1>2, <1>4, <2>1 DEF FeedbackFits
<1> QED BY <1>3, <1>4, <1>5, <1>6 DEF FeedbackFits

\* What the write leaves in the row
Written(row, wants, found) ==
    IF wants = "NONE" THEN IF found = "NONE" THEN row ELSE NoRating
    ELSE IF found = "NONE"
      THEN IF row.value = "NONE" THEN [value |-> wants, updated |-> 0] ELSE row
    ELSE IF found = wants THEN row
    ELSE [value |-> wants, updated |-> 1 - row.updated]

\* A rating that stays is the row that was there; one that was found is
\* turned over or taken back.
LEMMA WrittenFits ==
    ASSUME NEW row \in [value: Ratings \cup {"NONE"}, updated: 0 .. 1],
           NEW wants \in Ratings \cup {"NONE"}, NEW found \in Ratings \cup {"NONE"},
           found # "NONE" => row.value = found
    PROVE  /\ Written(row, wants, found) \in [value: Ratings \cup {"NONE"}, updated: 0 .. 1]
           /\ found = "NONE" /\ row.value # "NONE" => Written(row, wants, found) = row
           /\ (row.value # "NONE" /\ Written(row, wants, found).value # "NONE") =>
                 (Written(row, wants, found).value = row.value <=> Written(row, wants, found) = row)
<1>1. row.value \in Ratings \cup {"NONE"} /\ row.updated \in 0 .. 1 /\ "NONE" \notin Ratings
  BY DEF Ratings
<1>2. 1 - row.updated \in 0 .. 1 /\ 0 \in 0 .. 1
  BY <1>1
<1> DEFINE R == [value: Ratings \cup {"NONE"}, updated: 0 .. 1]
<1>3. /\ NoRating \in R /\ NoRating.value = "NONE"
      /\ \A u \in 0 .. 1 : [value |-> wants, updated |-> u] \in R /\ [value |-> wants, updated |-> u].value = wants
  BY DEF NoRating
<1>4. Written(row, wants, found) \in R
  BY <1>2, <1>3 DEF Written
<1>5. found = "NONE" /\ row.value # "NONE" => Written(row, wants, found) = row
  BY DEF Written
<1>6. found # "NONE" => \/ Written(row, wants, found) = row
                       \/ Written(row, wants, found).value # row.value
  BY <1>2, <1>3 DEF Written
<1> QED BY <1>4, <1>5, <1>6

\* One request writes, or gives up.
LEMMA WriteEffect ==
    ASSUME FeedbackFits, NEW p \in Rater, WriteRating(p)
    PROVE  LET r == rater[p].run IN
           /\ rater[p].pc = "FOUND" /\ r \in Run /\ rater[p].found \in Ratings \cup {"NONE"}
           /\ rating[r] \in [value: Ratings \cup {"NONE"}, updated: 0 .. 1]
           /\ rater[p].wants \in Ratings \cup {"NONE"}
           /\ rater[p].found # "NONE" => rating[r].value = rater[p].found
           /\ rating' = [rating EXCEPT ![r] = Written(rating[r], rater[p].wants, rater[p].found)]
           /\ rater' = [rater EXCEPT ![p] = Idle]
           /\ run' = run
<1>1. rater[p].pc = "FOUND" /\ rater[p].run \in Run /\ rater[p].found \in Ratings \cup {"NONE"}
      /\ rater[p].wants \in Ratings \cup {"NONE"}
  BY FeedbackTyped DEF WriteRating
<1>2. /\ rating[rater[p].run] \in [value: Ratings \cup {"NONE"}, updated: 0 .. 1]
      /\ rater[p].found # "NONE" => rating[rater[p].run].value = rater[p].found
  BY <1>1 DEF FeedbackFits
<1>3. rating' = [rating EXCEPT ![rater[p].run] =
                    Written(rating[rater[p].run], rater[p].wants, rater[p].found)]
  BY DEF WriteRating, Written
<1> QED BY <1>1, <1>2, <1>3 DEF WriteRating, vars

\* A write keeps the locks of others, and turns over what it changes.
LEMMA WriteKeeps ==
    ASSUME FeedbackFits, NEW p \in Rater, WriteRating(p)
    PROVE  /\ FeedbackFits'
           /\ \A r \in Run : (rating[r].value # "NONE" /\ rating'[r].value # "NONE") =>
                 (rating'[r].value = rating[r].value <=> rating'[r] = rating[r])
<1> DEFINE r == rater[p].run
           row == Written(rating[r], rater[p].wants, rater[p].found)
<1>1. /\ rater[p].pc = "FOUND" /\ r \in Run /\ rater[p].found \in Ratings \cup {"NONE"}
      /\ rating[r] \in [value: Ratings \cup {"NONE"}, updated: 0 .. 1]
      /\ rater[p].wants \in Ratings \cup {"NONE"}
      /\ rater[p].found # "NONE" => rating[r].value = rater[p].found
      /\ rating' = [rating EXCEPT ![r] = row]
      /\ rater' = [rater EXCEPT ![p] = Idle]
      /\ run' = run
  BY WriteEffect
<1>2. /\ row \in [value: Ratings \cup {"NONE"}, updated: 0 .. 1]
      /\ rater[p].found = "NONE" /\ rating[r].value # "NONE" => row = rating[r]
      /\ (rating[r].value # "NONE" /\ row.value # "NONE") => (row.value = rating[r].value <=> row = rating[r])
  BY <1>1, WrittenFits
<1> HIDE DEF row
<1>3. /\ rating' \in [Run -> [value: Ratings \cup {"NONE"}, updated: 0 .. 1]]
      /\ rating'[r] = row /\ \A q \in Run \ {r} : rating'[q] = rating[q]
  BY <1>1, <1>2 DEF FeedbackFits
<1>4. /\ rater' \in [Rater -> Asking \cup {Idle}] /\ rater'[p] = Idle
      /\ \A q \in Rater \ {p} : rater'[q] = rater[q]
  BY <1>1 DEF FeedbackFits
<1>5. Idle.pc # "FOUND"
  BY DEF Idle
<1>6. \A q \in Rater : rater'[q].pc = "FOUND" => q # p /\ rater'[q] = rater[q] /\ rater[q].run \in Run
  BY <1>4, <1>5, FeedbackTyped
<1>7. \A q \in Run : rating'[q].value # "NONE" => run'[q].status \in Answered
  <2>1. run[r].status \in Answered
    BY <1>1 DEF FeedbackFits
  <2> QED BY <1>1, <1>3, <2>1 DEF FeedbackFits
<1>8. \A q \in Rater : rater'[q].pc = "FOUND" =>
          /\ run'[rater'[q].run].status \in Answered
          /\ rater'[q].found # "NONE" => rating'[rater'[q].run].value = rater'[q].found
  <2> SUFFICES ASSUME NEW q \in Rater, rater'[q].pc = "FOUND"
               PROVE  /\ run'[rater'[q].run].status \in Answered
                      /\ rater'[q].found # "NONE" => rating'[rater'[q].run].value = rater'[q].found
    OBVIOUS
  <2>1. /\ q # p /\ rater'[q] = rater[q] /\ rater[q].run \in Run /\ rater[q].pc = "FOUND"
    BY <1>6
  <2>2. /\ run[rater[q].run].status \in Answered
        /\ rater[q].found # "NONE" => rating[rater[q].run].value = rater[q].found
    BY <2>1 DEF FeedbackFits
  <2>3. CASE rater[q].found # "NONE" /\ rater[q].run = r
    <3>1. rater[p].found = "NONE"
      BY <1>1, <2>1, <2>3 DEF FeedbackFits
    <3>2. rating[r].value # "NONE"
      BY <2>2, <2>3
    <3> QED BY <1>1, <1>2, <1>3, <2>1, <2>2, <2>3, <3>1, <3>2
  <2>4. CASE rater[q].found = "NONE" \/ rater[q].run # r
    BY <1>1, <1>3, <2>1, <2>2, <2>4
  <2> QED BY <2>3, <2>4
<1>9. \A x, y \in Rater :
          (/\ rater'[x].pc = "FOUND" /\ rater'[y].pc = "FOUND"
           /\ rater'[x].run = rater'[y].run
           /\ rater'[x].found # "NONE" /\ rater'[y].found # "NONE") => x = y
  BY <1>6 DEF FeedbackFits
<1>10. FeedbackFits'
  BY <1>3, <1>4, <1>7, <1>8, <1>9 DEF FeedbackFits
<1> QED BY <1>2, <1>3, <1>10

\* A request that fails lets go of what it held.
LEMMA FailKeeps ==
    ASSUME FeedbackFits, NEW p \in Rater, RatingFails(p)
    PROVE  FeedbackFits'
<1>1. rater' = [rater EXCEPT ![p] = Idle] /\ rating' = rating /\ run' = run
  BY DEF RatingFails, vars
<1>2. Idle.pc # "FOUND"
  BY DEF Idle
<1>3. /\ rater' \in [Rater -> Asking \cup {Idle}] /\ rater'[p] = Idle
      /\ \A q \in Rater \ {p} : rater'[q] = rater[q]
  BY <1>1 DEF FeedbackFits
<1>4. \A q \in Rater : rater'[q].pc = "FOUND" => rater'[q] = rater[q]
  BY <1>2, <1>3
<1> QED BY <1>1, <1>3, <1>4 DEF FeedbackFits

\* No step of a turn takes back an answer.
LEMMA AnswersStay ==
    ASSUME IInv, [StreamNext]_allVars
    PROVE  \A q \in Run : run[q].status \in Answered => run'[q].status = run[q].status
<1>1. CASE [Next]_vars
  BY <1>1, EndedIsFrozen DEF IInv, Ended
<1>2. ASSUME NEW r \in Run, LaterQuestion(r)
      PROVE  \A q \in Run : run[q].status \in Answered => run'[q].status = run[q].status
  BY <1>2 DEF LaterQuestion, Processing, Answered, IInv, Typed, TypeOK
<1> QED BY <1>1, <1>2, TurnsStep

\* Ratings change in a write only.
LEMMA FeedbackKeeps ==
    ASSUME DInv, [StreamNext]_allVars
    PROVE  /\ FeedbackFits'
           /\ \A r \in Run : (rating[r].value # "NONE" /\ rating'[r].value # "NONE") =>
                 (rating'[r].value = rating[r].value <=> rating'[r] = rating[r])
<1>1. FeedbackFits /\ IInv
  BY DEF DInv
<1>2. ASSUME NEW p \in Rater, WriteRating(p)
      PROVE  FeedbackFits' /\ \A r \in Run : (rating[r].value # "NONE" /\ rating'[r].value # "NONE") =>
                 (rating'[r].value = rating[r].value <=> rating'[r] = rating[r])
  BY <1>1, <1>2, WriteKeeps
<1>3. ASSUME NEW p \in Rater, RatingFails(p)
      PROVE  FeedbackFits' /\ rating' = rating
  BY <1>1, <1>3, FailKeeps DEF RatingFails
<1>4. ASSUME NEW p \in Rater, NEW r \in Run, NEW wants \in Ratings \cup {"NONE"}, FindRating(p, r, wants)
      PROVE  FeedbackFits' /\ rating' = rating
  BY <1>1, <1>4, FindKeeps DEF FindRating
<1>5. CASE UNCHANGED <<rating, rater>>
  BY <1>1, <1>5, AnswersStay, FeedbackRests
<1>6. CASE Die
  BY <1>1, <1>6, AnswersStay, FeedbackRests DEF Die
<1>7. \/ UNCHANGED <<rating, rater>> \/ Die
      \/ \E p \in Rater : \/ WriteRating(p) \/ RatingFails(p)
                          \/ \E r \in Run, wants \in Ratings \cup {"NONE"} : FindRating(p, r, wants)
  BY DEF StreamNext, StartTurn, StartFails, Produce, Deliver, Open, Send, HangUp, Cancel,
         EndUnrecorded, GetOld, LaterQuestion, feedback, allVars
<1> QED BY <1>2, <1>3, <1>4, <1>5, <1>6, <1>7

-----------------------------------------------------------------------------
(* Theorems *)

\* At first nothing was asked here and nothing rated.
LEMMA InitDInv == StreamInit => DInv
<1> SUFFICES ASSUME StreamInit PROVE DInv
  OBVIOUS
<1>1. IInv
  BY InitTurns
<1>2. /\ http = [r \in Run |-> "NONE"] /\ queue = [r \in Run |-> <<>>]
      /\ wire = [r \in Run |-> <<>>] /\ worker = [r \in Run |-> NoWorker]
      /\ rating = [r \in Run |-> NoRating] /\ rater = [p \in Rater |-> Idle]
  BY DEF StreamInit
<1>3. <<>> \in Seq(Event)
  BY EmptySeq
<1>4. StreamTyped
  BY <1>2, <1>3 DEF StreamTyped
<1>5. \A r \in Run : DeliveryFits(r)
  BY <1>2, NoTask DEF DeliveryFits, SaysTrue, Gone
<1>6. FeedbackFits
  <2>1. NoRating \in [value: Ratings \cup {"NONE"}, updated: 0 .. 1] /\ NoRating.value = "NONE"
    BY DEF NoRating
  <2>2. Idle.pc # "FOUND"
    BY DEF Idle
  <2> QED BY <1>2, <2>1, <2>2 DEF FeedbackFits
<1> QED BY <1>1, <1>4, <1>5, <1>6 DEF DInv

\* Every step keeps turns, delivery and feedback in order.
LEMMA NextDInv == DInv /\ [StreamNext]_allVars => DInv'
<1> SUFFICES ASSUME DInv, [StreamNext]_allVars PROVE DInv'
  OBVIOUS
<1>1. IInv'
  BY TurnsKeep DEF DInv
<1> QED BY <1>1, DeliveryKeeps, FeedbackKeeps DEF DInv

\* The inductive invariant of the composition.
THEOREM StreamInvariance == StreamSpec => []DInv
BY InitDInv, NextDInv, PTL DEF StreamSpec


\* What a client has of a stream: stages in their order, and after the last of
\* them the terminal event.
LEMMA SentEvents ==
    ASSUME DInv, NEW r \in Run, wire[r] # <<>>
    PROVE  \E n \in 2 .. 4 :
              /\ LineFits(r, n) /\ run[r].status # "NONE"
              /\ Len(wire[r]) \in 1 .. n + 1
              /\ \A i \in 1 .. Len(wire[r]) : i <= n => wire[r][i] = Order[i]
              /\ Len(wire[r]) = n + 1 =>
                    /\ wire[r][n + 1] \in Terminal
                    /\ wire[r][n + 1] \in Answered => run[r].status = wire[r][n + 1]
              /\ http[r] = "CLOSED" => Len(wire[r]) = n + 1
<1>1. DeliveryFits(r) /\ wire[r] \in Seq(Event) /\ queue[r] \in Seq(Event)
  BY DEF DInv, StreamTyped
<1>2. run[r].status # "NONE" /\ http[r] \notin {"NONE", "PLAIN"}
  BY <1>1 DEF DeliveryFits, RefusalFits
<1>3. PICK n \in 2 .. 4 : LineFits(r, n)
  BY <1>1, <1>2 DEF DeliveryFits
<1>4. Len(wire[r]) \in Nat /\ Len(wire[r]) >= 1 /\ Len(queue[r]) \in Nat
  BY <1>1, EmptySeq
<1>5. \A i \in 1 .. Len(wire[r]) : wire[r][i] = Joined(wire[r], queue[r], i)
  BY <1>4 DEF Joined
<1>6. /\ Stages(wire[r], queue[r], n)
      /\ \/ Total(wire[r], queue[r]) = n /\ http[r] # "CLOSED"
         \/ /\ Ends(wire[r], queue[r], n) /\ http[r] # "CLOSED"
            /\ Total(wire[r], queue[r]) = n + 2 /\ Len(wire[r]) <= n + 1
         \/ /\ Ends(wire[r], queue[r], n) /\ http[r] = "CLOSED"
            /\ Total(wire[r], queue[r]) = n + 1 /\ Len(wire[r]) = n + 1
      /\ Total(wire[r], queue[r]) = n \/ (Joined(wire[r], queue[r], n + 1) \in Answered =>
                                          run[r].status = Joined(wire[r], queue[r], n + 1))
  BY <1>3 DEF LineFits, Line
<1>7. Len(wire[r]) <= Total(wire[r], queue[r]) /\ Total(wire[r], queue[r]) \in Nat
  <2>1. Total(wire[r], queue[r]) = Len(wire[r]) + Len(queue[r])
    BY DEF Total
  <2>2. \A a, b \in Nat : a <= a + b /\ a + b \in Nat
    OBVIOUS
  <2> QED BY <1>4, <2>1, <2>2
<1>8. Len(wire[r]) \in 1 .. n + 1
  BY <1>4, <1>6, <1>7
<1>9. \A i \in 1 .. Len(wire[r]) : i <= n => wire[r][i] = Order[i]
  BY <1>5, <1>6 DEF Stages
<1>10. Len(wire[r]) = n + 1 => Total(wire[r], queue[r]) # n
  BY <1>7
<1>11. Len(wire[r]) = n + 1 => wire[r][n + 1] = Joined(wire[r], queue[r], n + 1)
  BY <1>5
<1>12. Len(wire[r]) = n + 1 =>
          /\ wire[r][n + 1] \in Terminal
          /\ wire[r][n + 1] \in Answered => run[r].status = wire[r][n + 1]
  BY <1>6, <1>10, <1>11 DEF Ends
<1> QED BY <1>2, <1>3, <1>6, <1>8, <1>9, <1>12

\* A stage has its place in the order, a terminal event the one after all.
LEMMA Ranks ==
    /\ \A i \in 1 .. 4 : Rank(Order[i]) = i
    /\ \A e \in Terminal : Rank(e) = 5
<1>1. DOMAIN Order = 1 .. 4 /\ \A i, j \in 1 .. 4 : Order[i] = Order[j] => i = j
  BY DEF Order
<1>2. ASSUME NEW i \in 1 .. 4
      PROVE  Rank(Order[i]) = i
  <2>1. Order[i] \notin Terminal
    BY Events
  <2>2. Rank(Order[i]) = CHOOSE j \in DOMAIN Order : Order[j] = Order[i]
    BY <2>1 DEF Rank
  <2>3. i \in DOMAIN Order /\ \A j \in DOMAIN Order : Order[j] = Order[i] => j = i
    BY <1>1
  <2> HIDE DEF Order
  <2> QED BY <2>2, <2>3
<1>3. \A e \in Terminal : Rank(e) = 5
  BY Events DEF Rank
<1> QED BY <1>2, <1>3

\* stream.py: "ordered / at-most-once / no replay". The run first, then stages
\* in the order of the pipeline, at most one terminal event behind them, and a
\* stream that was closed has it.
THEOREM StreamLaw == StreamSpec => []StreamIsLawful
<1>1. DInv => StreamIsLawful
  <2> SUFFICES ASSUME DInv, NEW r \in Run
               PROVE  /\ wire[r] # <<>> => wire[r][1] = "RUN" /\ run[r].status # "NONE"
                      /\ \A i, j \in DOMAIN wire[r] : i < j => Rank(wire[r][i]) < Rank(wire[r][j])
                      /\ http[r] = "CLOSED" => Last(wire[r]) \in Terminal
    BY DEF StreamIsLawful
  <2>0. wire[r] \in Seq(Event) /\ DOMAIN wire[r] = 1 .. Len(wire[r])
    BY DEF DInv, StreamTyped
  <2>1. CASE wire[r] = <<>>
    <3>1. DOMAIN wire[r] = {}
      BY <2>0, <2>1
    <3>2. http[r] # "CLOSED"
      <4> SUFFICES ASSUME http[r] = "CLOSED" PROVE FALSE
        OBVIOUS
      <4>1. PICK n \in 2 .. 4 : LineFits(r, n)
        BY DEF DInv, DeliveryFits, RefusalFits
      <4>2. Len(wire[r]) = n + 1
        BY <4>1 DEF LineFits, Line
      <4> QED BY <2>1, <4>2, EmptySeq
    <3> QED BY <2>1, <3>1, <3>2
  <2>2. CASE wire[r] # <<>>
    <3>1. PICK n \in 2 .. 4 :
             /\ run[r].status # "NONE" /\ Len(wire[r]) \in 1 .. n + 1
             /\ \A i \in 1 .. Len(wire[r]) : i <= n => wire[r][i] = Order[i]
             /\ Len(wire[r]) = n + 1 => wire[r][n + 1] \in Terminal
             /\ http[r] = "CLOSED" => Len(wire[r]) = n + 1
      BY <2>2, SentEvents
    <3>2. wire[r][1] = "RUN"
      BY <3>1, Events
    <3>3. \A i \in DOMAIN wire[r] : Rank(wire[r][i]) = IF i <= n THEN i ELSE 5
      <4> SUFFICES ASSUME NEW i \in 1 .. Len(wire[r])
                   PROVE  Rank(wire[r][i]) = IF i <= n THEN i ELSE 5
        BY <2>0
      <4>1. CASE i <= n
        BY <3>1, <4>1, Ranks
      <4>2. CASE i > n
        <5>1. i = n + 1 /\ Len(wire[r]) = n + 1
          BY <3>1, <4>2
        <5> QED BY <3>1, <4>2, <5>1, Ranks
      <4> QED BY <4>1, <4>2
    <3>4. \A i, j \in DOMAIN wire[r] : i < j => Rank(wire[r][i]) < Rank(wire[r][j])
      BY <2>0, <3>1, <3>3
    <3>5. http[r] = "CLOSED" => Last(wire[r]) \in Terminal
      BY <3>1 DEF Last
    <3> QED BY <3>1, <3>2, <3>4, <3>5
  <2> QED BY <2>1, <2>2
<1> QED BY <1>1, StreamInvariance, PTL

\* StageEvent, ResultEvent: a stage that was announced was entered, and an
\* answer that was sent is the one in the log, now and whenever it is polled.
THEOREM EventTruth == StreamSpec => []EventsAreTrue
<1>1. DInv => EventsAreTrue
  <2> SUFFICES ASSUME DInv, NEW r \in Run, NEW e \in ToSet(wire[r])
               PROVE  /\ e = "GENERATING" => call[r]["ANSWER_GENERATION"] # "NONE"
                      /\ e \in Answered => Polled(r) = e
    BY DEF EventsAreTrue
  <2>1. wire[r] \in Seq(Event) /\ DOMAIN wire[r] = 1 .. Len(wire[r])
    BY DEF DInv, StreamTyped
  <2>2. PICK i \in 1 .. Len(wire[r]) : e = wire[r][i]
    BY <2>1 DEF ToSet
  <2>3. wire[r] # <<>>
    BY <2>1, <2>2
  <2>4. PICK n \in 2 .. 4 :
           /\ LineFits(r, n) /\ Len(wire[r]) \in 1 .. n + 1
           /\ \A k \in 1 .. Len(wire[r]) : k <= n => wire[r][k] = Order[k]
           /\ Len(wire[r]) = n + 1 =>
                 /\ wire[r][n + 1] \in Terminal
                 /\ wire[r][n + 1] \in Answered => run[r].status = wire[r][n + 1]
    BY <2>3, SentEvents
  <2>5. CASE i <= n
    <3>1. e = Order[i] /\ i \in 1 .. 4
      BY <2>2, <2>4, <2>5
    <3>2. e \notin Answered
      BY <3>1, Events DEF Answered
    <3>3. e = "GENERATING" => i = 3
      <4>1. i = 1 \/ i = 2 \/ i = 3 \/ i = 4
        BY <3>1
      <4> QED BY <3>1, <4>1, Events
    <3>4. n >= 3 => call[r]["ANSWER_GENERATION"] # "NONE"
      BY <2>4 DEF LineFits, Line
    <3> QED BY <2>5, <3>2, <3>3, <3>4
  <2>6. CASE i > n
    <3>1. i = n + 1 /\ Len(wire[r]) = n + 1
      BY <2>2, <2>4, <2>6
    <3>2. e \in Terminal /\ (e \in Answered => run[r].status = e)
      BY <2>2, <2>4, <3>1
    <3> QED BY <3>2, Events DEF Polled
  <2> QED BY <2>2, <2>4, <2>5, <2>6
<1> QED BY <1>1, StreamInvariance, PTL

\* set_feedback: a rating that is still the same was not written, although two
\* requests may have read the row at the same time; only answered turns are rated.
THEOREM RatingsTurnOver == StreamSpec => FlipIsAFlip
<1>1. DInv /\ [StreamNext]_allVars =>
         [\A r \in Run :
            /\ rating'[r].value # "NONE" => run'[r].status \in Answered
            /\ (rating[r].value # "NONE" /\ rating'[r].value # "NONE") =>
                  (rating'[r].value = rating[r].value <=> rating'[r] = rating[r])]_allVars
  BY FeedbackKeeps DEF FeedbackFits
<1> QED BY <1>1, StreamInvariance, PTL DEF StreamSpec, FlipIsAFlip

\* What was proved of the turns alone holds with the delivery in front of them:
\* a turn of the composition is a turn.
THEOREM TurnsOfStreams ==
    StreamSpec =>
              [](TypeOK /\ OpenTurnIsLast /\ OnlyUnconfirmedCallsStay /\ ContextIsAnswered)
<1>1. DInv => TypeOK /\ OpenTurnIsLast /\ OnlyUnconfirmedCallsStay /\ ContextIsAnswered
  BY DEF DInv, IInv, Typed
<1> QED BY <1>1, StreamInvariance, PTL

=============================================================================
