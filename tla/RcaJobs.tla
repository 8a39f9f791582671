------------------------------- MODULE RcaJobs -------------------------------
(***************************************************************************)
(* The life of an RCA request: the API (web chat or Slack) stores a turn   *)
(* and its job, sends the job id to SQS, a worker claims the job, runs the *)
(* agent, stores the outcome and announces it; a web client follows the    *)
(* turn over SSE, and that endpoint also repairs turns whose job died.     *)
(*                                                                         *)
(* A turn and its job are created together, one to one, so both are        *)
(* indexed by the turn.  One action is one database transaction, one queue *)
(* call, or one published event; what a coroutine has read and not yet     *)
(* written is in its own program counter.                                  *)
(***************************************************************************)
EXTENDS Naturals

CONSTANTS
    Turns,        \* chat turns, each with its job
    Web,          \* the turns asked on the web; the others come from Slack
    Workers,      \* RCAOrchestratorWorker loops, one in every API process
    None,         \* what an idle worker holds
    PromptClaim   \* TRUE: SQS hides a message until its receiver has claimed
                  \* the job or is gone (300 s against a few milliseconds)

ASSUME WebAssumption == Web \subseteq Turns
ASSUME NoneAssumption == None \notin Turns
ASSUME PromptClaimAssumption == PromptClaim \in BOOLEAN

VARIABLES
    api,        \* how far the request that creates the turn has come
    turn,       \* ChatTurn.status
    response,   \* ChatTurn.final_response
    job,        \* Job.status
    overdue,    \* MAX_JOB_PROCESSING_MINUTES have passed since started_at,
                \* or since the turn was created if it has not started
    msg,        \* the SQS message that carries the job's id
    pc,         \* what a worker does next
    on,         \* the job a worker holds
    stream,     \* the web client's GET /turns/{id}/stream request
    told,       \* the last terminal event the web client received
    claims,     \* history: how often a worker set the job to RUNNING
    analysed    \* history: the jobs whose analysis succeeded

requestVars == <<turn, response, job, overdue>>
workerVars  == <<pc, on>>
clientVars  == <<stream, told>>
historyVars == <<claims, analysed>>
vars == <<api, turn, response, job, overdue, msg, pc, on, stream, told,
          claims, analysed>>

TurnStatus == {"absent", "PROCESSING", "COMPLETED", "FAILED", "deleted"}
JobStatus  == {"absent", "QUEUED", "RUNNING", "COMPLETED", "FAILED"}
Finished   == {"COMPLETED", "FAILED"}
WorkerStep == {"poll", "load", "claim", "analyse", "surface", "deliver",
               "announce", "tellFailure", "announceFailure", "ack"}
StreamStep == {"closed", "checkJob", "markStale", "markBothStale", "sync",
               "subscribe", "listening"}

TypeOK ==
    /\ api \in [Turns -> {"new", "committed", "unsent", "done", "dead"}]
    /\ turn \in [Turns -> TurnStatus]
    /\ response \in [Turns -> {"none", "answer", "error"}]
    /\ job \in [Turns -> JobStatus]
    /\ overdue \in [Turns -> BOOLEAN]
    /\ msg \in [Turns -> {"unsent", "visible", "hidden", "deleted"}]
    /\ pc \in [Workers -> WorkerStep]
    /\ on \in [Workers -> Turns \union {None}]
    /\ \A w \in Workers : pc[w] # "poll" => on[w] \in Turns
    /\ stream \in [Turns -> StreamStep]
    /\ told \in [Turns -> {"nothing", "complete", "error", "timeout"}]
    /\ claims \in [Turns -> Nat]
    /\ analysed \subseteq Turns

Init ==
    /\ api = [t \in Turns |-> "new"]
    /\ turn = [t \in Turns |-> "absent"]
    /\ response = [t \in Turns |-> "none"]
    /\ job = [t \in Turns |-> "absent"]
    /\ overdue = [t \in Turns |-> FALSE]
    /\ msg = [t \in Turns |-> "unsent"]
    /\ pc = [w \in Workers |-> "poll"]
    /\ on = [w \in Workers |-> None]
    /\ stream = [t \in Turns |-> "closed"]
    /\ told = [t \in Turns |-> "nothing"]
    /\ claims = [t \in Turns |-> 0]
    /\ analysed = {}

-----------------------------------------------------------------------------
(* The request that creates a turn. *)

\* send_message and process_user_message: the session, the turn and its
\* QUEUED job are written in one transaction, committed before the enqueue.
CreateTurn(t) ==
    /\ api[t] = "new"
    /\ api' = [api EXCEPT ![t] = "committed"]
    /\ turn' = [turn EXCEPT ![t] = "PROCESSING"]
    /\ job' = [job EXCEPT ![t] = "QUEUED"]
    /\ UNCHANGED <<response, overdue, msg, workerVars, clientVars, historyVars>>

\* Faulty variant: the message is sent before the commit.
EnqueueUncommitted(t) ==
    /\ api[t] \in {"new", "committed"}
    /\ msg' = [msg EXCEPT ![t] = "visible"]
    /\ UNCHANGED <<api, requestVars, workerVars, clientVars, historyVars>>

\* The message reaches SQS.
EnqueueJob(t) ==
    /\ api[t] = "committed"
    /\ msg' = [msg EXCEPT ![t] = "visible"]
    /\ api' = [api EXCEPT ![t] = "done"]
    /\ UNCHANGED <<requestVars, workerVars, clientVars, historyVars>>

\* SQSClient.send_message returned False; the message may have arrived even so.
\* enqueue_job ignores the result and the web request succeeds; the Slack
\* handler goes on to fail the job.
EnqueueFails(t) ==
    /\ api[t] = "committed"
    /\ msg' = [msg EXCEPT ![t] = "visible"] \/ UNCHANGED msg
    /\ api' = [api EXCEPT ![t] = IF t \in Web THEN "done" ELSE "unsent"]
    /\ UNCHANGED <<requestVars, workerVars, clientVars, historyVars>>

\* The Slack handler's second transaction: the job is FAILED, the turn keeps
\* its status.
FailUnsentJob(t) ==
    /\ api[t] = "unsent"
    /\ api' = [api EXCEPT ![t] = "done"]
    /\ job' = [job EXCEPT ![t] = "FAILED"]
    /\ UNCHANGED <<turn, response, overdue, msg, workerVars, clientVars,
                   historyVars>>

\* The API process dies between two steps of the request.
ApiCrash(t) ==
    /\ api[t] \in {"committed", "unsent"}
    /\ api' = [api EXCEPT ![t] = "dead"]
    /\ UNCHANGED <<requestVars, msg, workerVars, clientVars, historyVars>>

\* ChatService.delete_session: the user's turns go with the session, jobs stay.
DeleteSession(t) ==
    /\ t \in Web
    /\ turn[t] \in {"PROCESSING", "COMPLETED", "FAILED"}
    /\ turn' = [turn EXCEPT ![t] = "deleted"]
    /\ UNCHANGED <<api, response, job, overdue, msg, workerVars, clientVars,
                   historyVars>>

\* The staleness limit of an unfinished job runs out.
TimePasses(t) ==
    /\ job[t] \in {"QUEUED", "RUNNING"}
    /\ ~overdue[t]
    /\ overdue' = [overdue EXCEPT ![t] = TRUE]
    /\ UNCHANGED <<api, turn, response, job, msg, workerVars, clientVars,
                   historyVars>>

-----------------------------------------------------------------------------
(* SQS (external): at-least-once delivery with a visibility timeout. *)

\* A worker that has the message but has not yet written RUNNING.
PreClaim(w) == pc[w] \in {"load", "claim"}

VisibilityExpires(t) ==
    /\ msg[t] = "hidden"
    /\ PromptClaim => \A w \in Workers : PreClaim(w) => on[w] # t
    /\ msg' = [msg EXCEPT ![t] = "visible"]
    /\ UNCHANGED <<api, requestVars, workerVars, clientVars, historyVars>>

-----------------------------------------------------------------------------
(* The worker. *)

\* receive_messages with max_messages=1.
Receive(w) ==
    /\ pc[w] = "poll"
    /\ \E t \in Turns :
        /\ msg[t] = "visible"
        /\ msg' = [msg EXCEPT ![t] = "hidden"]
        /\ on' = [on EXCEPT ![w] = t]
    /\ pc' = [pc EXCEPT ![w] = "load"]
    /\ UNCHANGED <<api, requestVars, clientVars, historyVars>>

\* Faulty variant: every job that is not finished is taken.
LoadUnfinishedJob(w) ==
    /\ pc[w] = "load"
    /\ pc' = [pc EXCEPT ![w] = IF job[on[w]] \in Finished THEN "ack" ELSE "claim"]
    /\ UNCHANGED <<api, requestVars, msg, on, clientVars, historyVars>>

\* db.get(Job) and the status check: anything but QUEUED is skipped, and the
\* message is deleted.
LoadJob(w) ==
    /\ pc[w] = "load"
    /\ pc' = [pc EXCEPT ![w] = IF job[on[w]] = "QUEUED" THEN "claim" ELSE "ack"]
    /\ UNCHANGED <<api, requestVars, msg, on, clientVars, historyVars>>

\* status = RUNNING, started_at = now, commit.  The status read by LoadJob is
\* not read again.
Claim(w) ==
    /\ pc[w] = "claim"
    /\ job' = [job EXCEPT ![on[w]] = "RUNNING"]
    /\ overdue' = [overdue EXCEPT ![on[w]] = FALSE]
    /\ claims' = [claims EXCEPT ![on[w]] = @ + 1]
    /\ pc' = [pc EXCEPT ![w] = "analyse"]
    /\ UNCHANGED <<api, turn, response, msg, on, clientVars, analysed>>

\* Faulty variant: the row is written whether or not it still exists.
UpsertTurn(t, status, text) ==
    /\ turn' = [turn EXCEPT ![t] = status]
    /\ response' = [response EXCEPT ![t] = text]

\* update_turn_status: a turn that is gone is left alone.
SetTurn(t, status, text) ==
    IF turn[t] \in {"absent", "deleted"}
    THEN UNCHANGED <<turn, response>>
    ELSE /\ turn' = [turn EXCEPT ![t] = status]
         /\ response' = [response EXCEPT ![t] = text]

\* publish_event: whoever listens on the turn's channel gets the event and
\* ends its stream; nobody else ever will.
Publish(t, event) ==
    IF stream[t] = "listening"
    THEN /\ stream' = [stream EXCEPT ![t] = "closed"]
         /\ told' = [told EXCEPT ![t] = event]
    ELSE UNCHANGED clientVars

\* WebProgressCallback.on_chain_error while the agent still runs and may yet
\* retry and succeed: the turn is FAILED for now, and then says so.
ChainError(w) ==
    /\ pc[w] = "analyse"
    /\ on[w] \in Web
    /\ SetTurn(on[w], "FAILED", "error")
    /\ pc' = [pc EXCEPT ![w] = "surface"]
    /\ UNCHANGED <<api, job, overdue, msg, on, clientVars, historyVars>>

\* LangChain swallows what a callback raises, a failed publish included.
SurfaceError(w) ==
    /\ pc[w] = "surface"
    /\ Publish(on[w], "error") \/ UNCHANGED clientVars
    /\ pc' = [pc EXCEPT ![w] = "analyse"]
    /\ UNCHANGED <<api, requestVars, msg, on, historyVars>>

\* The agent reports success: the job is COMPLETED in a transaction of its own.
CompleteJob(w) ==
    /\ pc[w] = "analyse"
    /\ job' = [job EXCEPT ![on[w]] = "COMPLETED"]
    /\ analysed' = analysed \union {on[w]}
    /\ pc' = [pc EXCEPT ![w] = "deliver"]
    /\ UNCHANGED <<api, turn, response, overdue, msg, on, clientVars, claims>>

\* The steps whose exceptions process_message turns into a failed job.
Guarded == {"load", "claim", "analyse", "deliver", "announce", "tellFailure",
            "announceFailure"}

\* fail_and_notify_job, first transaction: no GitHub integration, service
\* discovery failed, the agent gave up, or any exception at all, whatever the
\* job's status; it may be entered again when notifying fails.
FailJob(w) ==
    /\ pc[w] \in Guarded
    /\ job' = [job EXCEPT ![on[w]] = "FAILED"]
    /\ pc' = [pc EXCEPT ![w] = "tellFailure"]
    /\ UNCHANGED <<api, turn, response, overdue, msg, on, clientVars,
                   historyVars>>

\* The recovery itself fails: process_message returns normally all the same.
RecoveryFails(w) ==
    /\ pc[w] \in Guarded
    /\ pc' = [pc EXCEPT ![w] = "ack"]
    /\ UNCHANGED <<api, requestVars, msg, on, clientVars, historyVars>>

\* on_complete (web) and the Slack branch: the turn gets the answer.
DeliverAnswer(w) ==
    /\ pc[w] = "deliver"
    /\ SetTurn(on[w], "COMPLETED", "answer")
    /\ pc' = [pc EXCEPT ![w] = "announce"]
    /\ UNCHANGED <<api, job, overdue, msg, on, clientVars, historyVars>>

AnnounceAnswer(w) ==
    /\ pc[w] = "announce"
    /\ Publish(on[w], "complete")
    /\ pc' = [pc EXCEPT ![w] = "ack"]
    /\ UNCHANGED <<api, requestVars, msg, on, historyVars>>

\* on_error for a web turn; a Slack user gets a message and the turn is left.
TellFailure(w) ==
    /\ pc[w] = "tellFailure"
    /\ IF on[w] \in Web
       THEN /\ SetTurn(on[w], "FAILED", "error")
            /\ pc' = [pc EXCEPT ![w] = "announceFailure"]
       ELSE /\ pc' = [pc EXCEPT ![w] = "ack"]
            /\ UNCHANGED <<turn, response>>
    /\ UNCHANGED <<api, job, overdue, msg, on, clientVars, historyVars>>

AnnounceFailure(w) ==
    /\ pc[w] = "announceFailure"
    /\ Publish(on[w], "error")
    /\ pc' = [pc EXCEPT ![w] = "ack"]
    /\ UNCHANGED <<api, requestVars, msg, on, historyVars>>

\* delete_message, whose failure is only logged.
Ack(w) ==
    /\ pc[w] = "ack"
    /\ \/ msg' = [msg EXCEPT ![on[w]] = "deleted"]
       \/ UNCHANGED msg
    /\ pc' = [pc EXCEPT ![w] = "poll"]
    /\ on' = [on EXCEPT ![w] = None]
    /\ UNCHANGED <<api, requestVars, clientVars, historyVars>>

\* The process dies, or stop() cancels the task: no exception handler of
\* process_message runs and the message is not deleted.
WorkerCrash(w) ==
    /\ pc[w] # "poll"
    /\ pc' = [pc EXCEPT ![w] = "poll"]
    /\ on' = [on EXCEPT ![w] = None]
    /\ UNCHANGED <<api, requestVars, msg, clientVars, historyVars>>

-----------------------------------------------------------------------------
(* The web client's stream request. *)

\* get_turn: a finished turn is answered at once.
OpenStream(t) ==
    /\ t \in Web
    /\ stream[t] = "closed"
    /\ \/ /\ turn[t] = "COMPLETED"
          /\ told' = [told EXCEPT ![t] = "complete"]
          /\ UNCHANGED stream
       \/ /\ turn[t] = "FAILED"
          /\ told' = [told EXCEPT ![t] = "error"]
          /\ UNCHANGED stream
       \/ /\ turn[t] = "PROCESSING"
          /\ stream' = [stream EXCEPT ![t] = "checkJob"]
          /\ UNCHANGED told
    /\ UNCHANGED <<api, requestVars, msg, workerVars, historyVars>>

\* Faulty variant: any finished job is synced.
SyncFinishedJob(t) ==
    /\ stream[t] = "checkJob"
    /\ stream' = [stream EXCEPT ![t] =
           CASE job[t] \in Finished -> "sync"
             [] job[t] = "absent"   -> "markStale"
             [] OTHER -> IF overdue[t] THEN "markBothStale" ELSE "subscribe"]
    /\ UNCHANGED <<api, requestVars, msg, workerVars, told, historyVars>>

\* Faulty variant: time does not make a turn stale.
NeverOverdue(t) ==
    /\ stream[t] = "checkJob"
    /\ stream' = [stream EXCEPT ![t] =
           CASE job[t] = "COMPLETED"           -> "sync"
             [] job[t] \in {"absent", "FAILED"} -> "markStale"
             [] OTHER -> "subscribe"]
    /\ UNCHANGED <<api, requestVars, msg, workerVars, told, historyVars>>

\* check_turn_staleness reads the job; markBothStale is a stale turn whose job
\* was still unfinished when read.
CheckJob(t) ==
    /\ stream[t] = "checkJob"
    /\ stream' = [stream EXCEPT ![t] =
           CASE job[t] = "COMPLETED"           -> "sync"
             [] job[t] \in {"absent", "FAILED"} -> "markStale"
             [] OTHER -> IF overdue[t] THEN "markBothStale" ELSE "subscribe"]
    /\ UNCHANGED <<api, requestVars, msg, workerVars, told, historyVars>>

\* mark_turn_failed_with_cleanup on what was read, then commit; the row of a
\* deleted turn is missed and the whole transaction is undone.
MarkStale(t) ==
    /\ stream[t] \in {"markStale", "markBothStale"}
    /\ stream' = [stream EXCEPT ![t] = "closed"]
    /\ IF turn[t] = "deleted"
       THEN UNCHANGED <<turn, job, told>>
       ELSE /\ turn' = [turn EXCEPT ![t] = "FAILED"]
            /\ job' = IF stream[t] = "markBothStale"
                      THEN [job EXCEPT ![t] = "FAILED"] ELSE job
            /\ told' = [told EXCEPT ![t] = "error"]
    /\ UNCHANGED <<api, response, overdue, msg, workerVars, historyVars>>

\* sync_turn_with_completed_job: the turn is COMPLETED, whatever its response.
SyncTurn(t) ==
    /\ stream[t] = "sync"
    /\ stream' = [stream EXCEPT ![t] = "closed"]
    /\ IF turn[t] = "deleted"
       THEN UNCHANGED <<turn, told>>
       ELSE /\ turn' = [turn EXCEPT ![t] = "COMPLETED"]
            /\ told' = [told EXCEPT ![t] = "complete"]
    /\ UNCHANGED <<api, response, job, overdue, msg, workerVars, historyVars>>

\* The generator subscribes to Redis only now: earlier events are lost to it.
Subscribe(t) ==
    /\ stream[t] = "subscribe"
    /\ stream' = [stream EXCEPT ![t] = "listening"]
    /\ UNCHANGED <<api, requestVars, msg, workerVars, told, historyVars>>

\* SSE_REDIS_TIMEOUT_SECONDS without a terminal event.
StreamTimeout(t) ==
    /\ stream[t] = "listening"
    /\ stream' = [stream EXCEPT ![t] = "closed"]
    /\ told' = [told EXCEPT ![t] = "timeout"]
    /\ UNCHANGED <<api, requestVars, msg, workerVars, historyVars>>

\* The client goes away, or the request dies of a database or Redis error.
StreamBreaks(t) ==
    /\ stream[t] # "closed"
    /\ stream' = [stream EXCEPT ![t] = "closed"]
    /\ UNCHANGED <<api, requestVars, msg, workerVars, told, historyVars>>

-----------------------------------------------------------------------------
RequestStep(t) ==
    \/ CreateTurn(t) \/ EnqueueJob(t) \/ EnqueueFails(t) \/ FailUnsentJob(t)
    \/ ApiCrash(t) \/ DeleteSession(t) \/ TimePasses(t) \/ VisibilityExpires(t)

StreamRequestStep(t) ==
    \/ OpenStream(t) \/ CheckJob(t) \/ MarkStale(t) \/ SyncTurn(t)
    \/ Subscribe(t) \/ StreamTimeout(t) \/ StreamBreaks(t)

WorkerLoopStep(w) ==
    \/ Receive(w) \/ LoadJob(w) \/ Claim(w) \/ ChainError(w) \/ SurfaceError(w)
    \/ CompleteJob(w) \/ FailJob(w) \/ RecoveryFails(w) \/ DeliverAnswer(w)
    \/ AnnounceAnswer(w) \/ TellFailure(w) \/ AnnounceFailure(w) \/ Ack(w)
    \/ WorkerCrash(w)

Next ==
    \/ \E t \in Turns : RequestStep(t) \/ StreamRequestStep(t)
    \/ \E w \in Workers : WorkerLoopStep(w)

Spec == Init /\ [][Next]_vars

\* The client of a web turn keeps asking, and a request that can be served
\* again and again is served once: the database is not down for ever.  Nothing
\* is assumed of the workers or of SQS.
ClientPersists(t) ==
    /\ WF_vars(OpenStream(t))
    /\ SF_vars(CheckJob(t)) /\ SF_vars(MarkStale(t)) /\ SF_vars(SyncTurn(t))
    /\ WF_vars(Subscribe(t)) /\ WF_vars(StreamTimeout(t))
    /\ WF_vars(TimePasses(t))

FairSpec == Spec /\ \A t \in Web : ClientPersists(t)

-----------------------------------------------------------------------------
(* What the system must keep. *)

\* An investigation is started at most once for a request, however often SQS
\* delivers its message and whoever crashes: process_message skips every job
\* that is not QUEUED.
AtMostOneAnalysis == \A t \in Turns : claims[t] <= 1

\* No turn is shown as COMPLETED, and no client is told "complete", unless the
\* agent did finish the analysis: the stream endpoint's repairs and the
\* failure paths never turn a dead job into an answer.
NoPhantomCompletion ==
    \A t \in Turns :
        turn[t] = "COMPLETED" \/ told[t] = "complete" => t \in analysed

\* The commit comes before the enqueue (chat/router.py): every job whose id
\* can reach a worker is in the database, so no message is dropped as "not
\* found" by a worker that was faster than the transaction.
MessageHasJob ==
    /\ \A t \in Turns : msg[t] # "unsent" => job[t] # "absent"
    /\ \A w \in Workers : on[w] # None => job[on[w]] # "absent"

\* A job that a worker is about to mark RUNNING is held by no other worker
\* that could do the same: what LoadJob read is still true when Claim writes,
\* save for a client or Slack handler that failed the job in between.
ClaimReadIsFresh ==
    \A w \in Workers : pc[w] = "claim" =>
        /\ job[on[w]] \in {"QUEUED", "FAILED"}
        /\ \A v \in Workers \ {w} : PreClaim(v) => on[v] # on[w]

\* As long as the client keeps asking, its turn leaves PROCESSING although
\* workers may crash, messages may be lost and events missed: the stream
\* endpoint fails a turn whose job died and syncs one whose event was lost.
WatchedTurnSettles ==
    \A t \in Web : turn[t] = "PROCESSING" ~> turn[t] # "PROCESSING"

\* What TurnPromise promises, read off this system.
Promise == INSTANCE TurnPromise WITH
    asked    <- {t \in Turns : turn[t] # "absent"},
    started  <- {t \in Turns : claims[t] > 0},
    finished <- analysed,
    shown    <- turn

\* The whole request path implements the promise made to the user.
KeepsPromise == Promise!Spec

-----------------------------------------------------------------------------
(* What the repository says of the code and the code does not do. *)

\* sync_turn_with_completed_job: "final_response should have been set by
\* worker" when the job is COMPLETED.
SyncedTurnHasResponse ==
    \A t \in Web : turn[t] = "COMPLETED" => response[t] # "none"

\* _run_worker "deletes the message after successful processing": a message is
\* gone only when its job got past QUEUED.
DeletedMessageWasProcessed ==
    \A t \in Turns : msg[t] = "deleted" => job[t] # "QUEUED"
==============================================================================
