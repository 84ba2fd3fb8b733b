----------------------------- MODULE TurnStream -----------------------------
(***************************************************************************)
(* How an answered turn reaches its client: ChatTurn composed with the     *)
(* delivery layer in front of it.                                          *)
(*                                                                         *)
(* On the SSE route the turn runs in a task of its own (produce_turn) that *)
(* puts events into an unbounded queue, and the response takes them out:   *)
(* the first event decides whether there is a stream at all. A client that *)
(* goes away stops the response, never the producer; what it missed it can *)
(* fetch from the log. On the plain route a disconnect cancels the turn.   *)
(* The client of an answered turn may rate it, twice at the same time.     *)
(***************************************************************************)
EXTENDS ChatTurn, Sequences, SequencesExt

CONSTANTS
    Earlier,    \* a turn of the conversation that was answered before, if any
    Rater       \* feedback requests

ASSUME StreamAssumption == Earlier \subseteq Run /\ Cardinality(Earlier) <= 1

VARIABLES
    http,       \* the response of a question's request
    queue,      \* events put by the producer and not taken out
    wire,       \* events sent to the client, oldest first
    unrecorded, \* turns whose task is gone and whose ending nobody wrote down
    rating,     \* feedbacks: at most one row per turn
    rater       \* a feedback request between its locking read and its write

delivery == <<http, queue, wire>>
feedback == <<rating, rater>>
allVars == <<vars, delivery, unrecorded, feedback>>

Ratings == {"LIKE", "DISLIKE"}
NoRating == [value |-> "NONE", updated |-> 0]     \* updated_at, modulo 2
Idle == [pc |-> "IDLE"]

\* In the queue only: START_FAILED is TurnStartFailed, SENTINEL closes it.
\* BROKEN is ErrorEvent, the other terminal events are ResultEvent.
Terminal == Answered \cup {"ERROR", "BROKEN"}
Order == <<"RUN", "RETRIEVING", "GENERATING", "VALIDATING">>
Rank(e) == IF e \in Terminal THEN Len(Order) + 1
           ELSE CHOOSE i \in DOMAIN Order : Order[i] = e

Streaming(r) == http[r] \notin {"NONE", "PLAIN"}
Everything(r) == wire[r] \o queue[r]

\* The turn in Earlier gives a follow-up something to refer to, the other ones
\* are requested here.
StreamInit ==
    /\ \E c \in Conv :
          /\ conv = [d \in Conv |-> IF d = c /\ Earlier # {} THEN "ACTIVE" ELSE "ABSENT"]
          /\ run = [r \in Run |-> IF r \in Earlier
                    THEN [status |-> "COMPLETED", conv |-> c, no |-> 1, context |-> {}]
                    ELSE NoRun]
    /\ idle = {}
    /\ told = {}
    /\ old = {}
    /\ call = [r \in Run |-> NoCall]
    /\ worker = [r \in Run |-> NoWorker]
    /\ reply = [r \in Run |-> "NONE"]
    /\ crashes = 0
    /\ http = [r \in Run |-> "NONE"]
    /\ queue = [r \in Run |-> <<>>]
    /\ wire = [r \in Run |-> <<>>]
    /\ unrecorded = {}
    /\ rating = [r \in Run |-> NoRating]
    /\ rater = [p \in Rater |-> Idle]

-----------------------------------------------------------------------------
(* The producer *)

\* queue.put never waits: an event is put in the step that announces it. A
\* plain request has no hooks.
Put(r, events) ==
    /\ queue' = [queue EXCEPT ![r] = IF Streaming(r) THEN @ \o events ELSE @]
    /\ UNCHANGED <<http, wire>>

\* Slips: a failed close of the session only ends the stream, or does not end it.
SilentEnd(r) ==
    {<<worker[r].says, "SENTINEL">>} \cup (IF Losses THEN {<<"SENTINEL">>} ELSE {})
OpenEnd(r) ==
    {<<worker[r].says, "SENTINEL">>} \cup (IF Losses THEN {<<"BROKEN">>} ELSE {})

\* What produce_turn puts when answer_question has returned: the result, or an
\* ErrorEvent when closing the session raises.
LastEvents(r) ==
    {<<e, "SENTINEL">> : e \in {worker[r].says} \cup (IF Losses THEN {"BROKEN"} ELSE {})}

\* The start transaction commits; on_turn_started and the stage that _run_turn
\* announces first come before anything that waits.
StartTurn(c, r) ==
    /\ http[r] = "NONE"
    /\ Ask(c, r)
    /\ \/ /\ http' = [http EXCEPT ![r] = "PLAIN"]
          /\ UNCHANGED queue
       \/ /\ http' = [http EXCEPT ![r] = "WAITING"]
          /\ queue' = [queue EXCEPT ![r] = <<"RUN", "RETRIEVING">>]
    /\ UNCHANGED <<wire, unrecorded, feedback>>

\* The conversation is busy, unknown or over, or the start transaction fails:
\* there is no turn and no stream. (A plain request has nothing to deliver.)
StartFails(r) ==
    /\ http[r] = "NONE"
    /\ run[r].status = "NONE"
    /\ http' = [http EXCEPT ![r] = "WAITING"]
    /\ queue' = [queue EXCEPT ![r] = <<"START_FAILED", "SENTINEL">>]
    /\ UNCHANGED <<vars, wire, unrecorded, feedback>>

\* A slip: the stage is announced before the commit that may refuse it.
AnnounceFirst(r) ==
    /\ worker[r].pc \in {"RETRIEVED", "JUDGED"}
    /\ ~Contains(Everything(r), "GENERATING")
    /\ Put(r, <<"GENERATING">>)
    /\ UNCHANGED vars

\* checkpoint_generation has returned: its commit is known to be applied.
Confirmed(r) == StartGeneration(r) /\ worker'[r].pc = "GENERATING"

\* The stage is announced after the commit.
Generating(r) ==
    /\ Confirmed(r)
    /\ Put(r, <<"GENERATING">>)

\* generate_answer has an answer to check; at most once per turn, also when the
\* answer is then written again.
Validating(r) ==
    /\ At(r, "GENERATING")
    /\ Streaming(r)
    /\ ~Contains(Everything(r), "VALIDATING")
    /\ Put(r, <<"VALIDATING">>)
    /\ UNCHANGED vars

Finishing(r) ==
    /\ Reply(r)
    /\ \E events \in LastEvents(r) : Put(r, events)

Silent(r) ==
    /\ WorkerStep(r)
    /\ ~(Confirmed(r) \/ Reply(r))
    /\ UNCHANGED delivery

Produce(r) ==
    /\ Generating(r) \/ Finishing(r) \/ Silent(r)
    /\ UNCHANGED <<unrecorded, feedback>>

-----------------------------------------------------------------------------
(* The response *)

\* start_chat_stream: a stream is opened only on a RunEvent, anything else is
\* an ordinary HTTP error.
Open(r) ==
    /\ http[r] = "WAITING"
    /\ queue[r] # <<>>
    /\ IF Head(queue[r]) = "RUN"
         THEN /\ http' = [http EXCEPT ![r] = "OPEN"]
              /\ wire' = [wire EXCEPT ![r] = <<"RUN">>]
         ELSE /\ http' = [http EXCEPT ![r] = "REFUSED"]
              /\ UNCHANGED wire
    /\ queue' = [queue EXCEPT ![r] = Tail(@)]
    /\ UNCHANGED <<vars, unrecorded, feedback>>

\* event_stream
Send(r) ==
    /\ http[r] = "OPEN"
    /\ queue[r] # <<>>
    /\ IF Head(queue[r]) = "SENTINEL"
         THEN /\ http' = [http EXCEPT ![r] = "CLOSED"]
              /\ UNCHANGED wire
         ELSE /\ wire' = [wire EXCEPT ![r] = Append(@, Head(queue[r]))]
              /\ UNCHANGED http
    /\ queue' = [queue EXCEPT ![r] = Tail(@)]
    /\ UNCHANGED <<vars, unrecorded, feedback>>

Deliver(r) == Open(r) \/ Send(r)

\* The client of a stream goes away. The producer goes on: nobody takes its
\* events.
HangUp(r) ==
    /\ http[r] \in {"WAITING", "OPEN"}
    /\ http' = [http EXCEPT ![r] = "GONE"]
    /\ UNCHANGED <<vars, queue, wire, unrecorded, feedback>>

\* _answer_until_disconnect: only a plain request cancels its turn.
Cancel(r) ==
    /\ http[r] = "PLAIN"
    /\ \/ Disconnect(r) /\ UNCHANGED unrecorded
       \/ Lost(r) /\ unrecorded' = unrecorded \cup {r}
    /\ UNCHANGED <<delivery, feedback>>

EndUnrecorded(r) ==
    /\ FailUnrecorded(r)
    /\ unrecorded' = unrecorded \cup {r}
    /\ UNCHANGED <<delivery, feedback>>

\* A process dies with its tasks, their streams, and the feedback requests.
Die ==
    /\ Crash
    /\ LET gone == {r \in Run : ~At(r, "NONE") /\ worker'[r].pc = "NONE"}
       IN /\ unrecorded' = unrecorded \cup gone
          /\ \E lost \in SUBSET {r \in Run : http[r] \in {"WAITING", "OPEN"}} :
                /\ {r \in gone : http[r] \in {"WAITING", "OPEN"}} \subseteq lost
                /\ \A r \in lost : At(r, "NONE") \/ r \in gone
                /\ http' = [r \in Run |-> IF r \in lost THEN "GONE" ELSE http[r]]
    /\ rater' = [p \in Rater |-> Idle]
    /\ UNCHANGED <<queue, wire, rating>>

\* get_rag_run_response: the result of a turn as the log has it. CANCELLED has
\* no representation of its own.
Polled(r) ==
    IF run[r].status \in Answered \cup {"PROCESSING"} THEN run[r].status ELSE "ERROR"

-----------------------------------------------------------------------------
(* Feedback *)

\* A slip: the row is read without a lock.
NotHeld(r) == FALSE

\* _get_feedback with lock: a row that exists is held until the write, one that
\* does not exist cannot be.
Held(r) == \E p \in Rater : rater[p].pc = "FOUND" /\ rater[p].run = r /\ rater[p].found # "NONE"

\* set_feedback, clear_feedback up to their read: only an answered turn. Here
\* the client has its answer before it rates it.
FindRating(p, r, wants) ==
    /\ rater[p].pc = "IDLE"
    /\ r \notin Earlier
    /\ http[r] = "CLOSED" \/ (http[r] = "PLAIN" /\ reply[r] \in Answered)
    /\ run[r].status \in Answered
    /\ ~Held(r)
    /\ rater' = [rater EXCEPT ![p] =
           [pc |-> "FOUND", run |-> r, wants |-> wants, found |-> rating[r].value]]
    /\ UNCHANGED <<vars, delivery, unrecorded, rating>>

\* The write and the commit. A second first rating is refused by the unique
\* key, the same rating again leaves the row alone.
WriteRating(p) ==
    /\ rater[p].pc = "FOUND"
    /\ LET r == rater[p].run
           wants == rater[p].wants
           found == rater[p].found
       IN rating' = [rating EXCEPT ![r] =
             IF wants = "NONE" THEN IF found = "NONE" THEN @ ELSE NoRating
             ELSE IF found = "NONE"
               THEN IF @.value = "NONE" THEN [value |-> wants, updated |-> 0] ELSE @
             ELSE IF found = wants THEN @
             ELSE [value |-> wants, updated |-> 1 - @.updated]]
    /\ rater' = [rater EXCEPT ![p] = Idle]
    /\ UNCHANGED <<vars, delivery, unrecorded>>

\* The request fails between the two.
RatingFails(p) ==
    /\ rater[p].pc = "FOUND"
    /\ rater' = [rater EXCEPT ![p] = Idle]
    /\ UNCHANGED <<vars, delivery, unrecorded, rating>>

-----------------------------------------------------------------------------

\* Ten minutes pass. A conversation that is over after a day only adds another
\* refusal, so DayPasses is left to ChatTurn.
GetOld(r) == Age(r) /\ UNCHANGED <<delivery, unrecorded, feedback>>

\* Ask, as the turn that it closes sees it: a later question recovers r. The
\* turn of that question is another one.
LaterQuestion(r) ==
    /\ Processing(r)
    /\ r \in old
    /\ run' = [run EXCEPT ![r] = Recovered(@)]
    /\ call' = [call EXCEPT ![r] = Abandoned(@)]
    /\ UNCHANGED <<conv, idle, told, old, worker, reply, crashes>>
    /\ UNCHANGED <<delivery, unrecorded, feedback>>

StreamNext ==
    \/ \E c \in Conv, r \in Run : StartTurn(c, r)
    \/ \E r \in Run :
          \/ StartFails(r)
          \/ Produce(r)
          \/ Validating(r) /\ UNCHANGED <<unrecorded, feedback>>
          \/ Deliver(r)
          \/ HangUp(r)
          \/ Cancel(r)
          \/ EndUnrecorded(r)
          \/ GetOld(r)
          \/ LaterQuestion(r)
    \/ Die
    \/ \E p \in Rater :
          \/ \E r \in Run, wants \in Ratings \cup {"NONE"} : FindRating(p, r, wants)
          \/ WriteRating(p)
          \/ RatingFails(p)

\* asyncio schedules the producer until it ends, and a server sends what its
\* response yields as long as the client is there.
StreamFairness ==
    \A r \in Run : WF_allVars(Produce(r)) /\ WF_allVars(Deliver(r))

StreamSpec == StreamInit /\ [][StreamNext]_allVars /\ StreamFairness

-----------------------------------------------------------------------------
(* Properties *)

\* The delivery contract ("ordered / at-most-once / no replay", stream.py): a
\* client sees the run first, then stages in the order of the pipeline, none
\* twice, and exactly one terminal event, which is the last; a stream that was
\* closed has it. Without a turn there is no stream.
StreamIsLawful ==
    \A r \in Run :
        /\ wire[r] # <<>> => wire[r][1] = "RUN" /\ run[r].status # "NONE"
        /\ \A i, j \in DOMAIN wire[r] : i < j => Rank(wire[r][i]) < Rank(wire[r][j])
        /\ http[r] = "CLOSED" => Last(wire[r]) \in Terminal

\* What a stream says is true: a stage is announced only once it was entered
\* ("only at the point where it runs", StageEvent), and an answer only if the
\* log has the same one, also for a client that polls long afterwards.
EventsAreTrue ==
    \A r \in Run : \A e \in ToSet(wire[r]) :
        /\ e = "GENERATING" => call[r]["ANSWER_GENERATION"] # "NONE"
        /\ e \in Answered => Polled(r) = e

\* "updated_at remains the time at which the rating was really turned over"
\* (set_feedback): a rating that stays has not been updated, whoever sends the
\* same one at the same time; and only answered turns are rated.
FlipIsAFlip ==
    [][\A r \in Run :
          /\ rating'[r].value # "NONE" => run'[r].status \in Answered
          /\ (rating[r].value # "NONE" /\ rating'[r].value # "NONE") =>
                (rating'[r].value = rating[r].value <=> rating'[r] = rating[r])]_allVars

\* Every stream ends: no request waits for an event that never comes, whatever
\* happened to the turn, also when its failure could not be written down.
StreamCloses ==
    \A r \in Run : http[r] \in {"WAITING", "OPEN"} ~> http[r] \notin {"WAITING", "OPEN"}

\* A turn whose task lives and whose ending can be written down ends, whether
\* anybody still listens to it or not.
EveryTurnEnds ==
    \A r \in Run : Processing(r) ~> (run[r].status \in Ended \/ r \in unrecorded)

=============================================================================
