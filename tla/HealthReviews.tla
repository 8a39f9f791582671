---------------------------- MODULE HealthReviews ----------------------------
(***************************************************************************)
(* Weekly health reviews.  A cron call runs the scheduler, which creates a *)
(* review for every service whose schedule is due, in one transaction, and *)
(* publishes its id before that transaction commits; users ask for reviews *)
(* over the API; workers take ids from SQS and generate the reviews.       *)
(*                                                                         *)
(* One workspace.  An action is one transaction, one queue call, or one    *)
(* service of a scheduler run.                                             *)
(***************************************************************************)
EXTENDS Naturals, FiniteSets

CONSTANTS
    Services,     \* the services of the workspace when the model starts
    Reviews,      \* the reviews that may ever be created (a bound)
    ApiReviews,   \* those that only a user's request may create
    Periods,      \* the review periods a request may name explicitly
    Now,          \* the period "the last 7 days", never the same twice
    Schedulers,   \* scheduler runs that may overlap
    Workers,      \* HealthReviewWorker loops
    None,
    PromptStart   \* TRUE: SQS hides a message until its receiver has written
                  \* GENERATING or is gone (600 s against a few milliseconds)

ASSUME ApiReviewsAssumption == ApiReviews \subseteq Reviews
ASSUME HealthNoneAssumption == None \notin Services \union Reviews
ASSUME NowAssumption == Now \notin Periods
ASSUME PromptStartAssumption == PromptStart \in BOOLEAN

VARIABLES
    services,     \* the services that still exist
    enabled,      \* ReviewSchedule.enabled
    due,          \* next_scheduled_at <= now
    lastReview,   \* ReviewSchedule.last_review_id
    lastStatus,   \* ReviewSchedule.last_review_status
    review,       \* ServiceReview.status
    svc,          \* ServiceReview.service_id
    period,       \* ServiceReview.review_week_start and _end
    request,      \* how far the request that creates a review has come
    msg,          \* the SQS message that carries a review's id
    run,          \* what a scheduler run does: "idle" or "running"
    todo,         \* the due services it has not looked at yet
    moved,        \* those whose schedule it has advanced, uncommitted
    made,         \* the review it has made for a service, uncommitted
    sent,         \* the services whose review it could publish
    loaded,       \* last_review_status as the run read it at its start
    pc,           \* what a worker does next
    on,           \* the review a worker holds
    generations   \* history: how often a review was set to GENERATING

scheduleVars == <<services, enabled, due, lastReview, lastStatus>>
reviewVars   == <<review, svc, period>>
runVars      == <<run, todo, moved, made, sent, loaded>>
workerVars   == <<pc, on>>
vars == <<services, enabled, due, lastReview, lastStatus, review, svc, period,
          request, msg, run, todo, moved, made, sent, loaded, pc, on,
          generations>>

\* "uncommitted": added by a scheduler run that has not committed;
\* "undone": rolled back with its run; "deleted": gone with its service.
ReviewStatus == {"absent", "uncommitted", "undone", "QUEUED", "GENERATING",
                 "COMPLETED", "FAILED", "deleted"}
Stored == {"QUEUED", "GENERATING", "COMPLETED", "FAILED"}
Active == {"QUEUED", "GENERATING"}

TypeOK ==
    /\ services \subseteq Services
    /\ enabled \in [Services -> BOOLEAN]
    /\ due \in [Services -> BOOLEAN]
    /\ lastReview \in [Services -> Reviews \union {None}]
    /\ lastStatus \in [Services -> {"none", "QUEUED", "COMPLETED"}]
    /\ review \in [Reviews -> ReviewStatus]
    /\ svc \in [Reviews -> Services \union {None}]
    /\ period \in [Reviews -> Periods \union {Now}]
    /\ request \in [Reviews -> {"idle", "checked", "stored", "done"}]
    /\ msg \in [Reviews -> {"unsent", "visible", "hidden", "deleted"}]
    /\ run \in [Schedulers -> {"idle", "running"}]
    /\ todo \in [Schedulers -> SUBSET Services]
    /\ moved \in [Schedulers -> SUBSET Services]
    /\ made \in [Schedulers -> [Services -> Reviews \union {None}]]
    /\ sent \in [Schedulers -> SUBSET Services]
    /\ loaded \in [Schedulers -> [Services -> {"none", "QUEUED", "COMPLETED"}]]
    /\ pc \in [Workers -> {"poll", "load", "start", "generate", "schedule", "ack"}]
    /\ on \in [Workers -> Reviews \union {None}]
    /\ \A w \in Workers : pc[w] # "poll" => on[w] \in Reviews
    /\ generations \in [Reviews -> Nat]

Init ==
    /\ services = Services
    /\ enabled = [s \in Services |-> TRUE]
    /\ due = [s \in Services |-> FALSE]
    /\ lastReview = [s \in Services |-> None]
    /\ lastStatus = [s \in Services |-> "none"]
    /\ review = [r \in Reviews |-> "absent"]
    /\ svc = [r \in Reviews |-> None]
    /\ period = [r \in Reviews |-> Now]
    /\ request = [r \in Reviews |-> "idle"]
    /\ msg = [r \in Reviews |-> "unsent"]
    /\ run = [k \in Schedulers |-> "idle"]
    /\ todo = [k \in Schedulers |-> {}]
    /\ moved = [k \in Schedulers |-> {}]
    /\ made = [k \in Schedulers |-> [s \in Services |-> None]]
    /\ sent = [k \in Schedulers |-> {}]
    /\ loaded = [k \in Schedulers |-> [s \in Services |-> "none"]]
    /\ pc = [w \in Workers |-> "poll"]
    /\ on = [w \in Workers |-> None]
    /\ generations = [r \in Reviews |-> 0]

-----------------------------------------------------------------------------
(* Time, users and their services. *)

\* Faulty: a review is in progress only while it is generated.
Generated(s) == {r \in Reviews : svc[r] = s /\ review[r] = "GENERATING"}

\* The reviews of s in progress that a transaction other than the one that
\* made them can see.
InProgress(s) == {r \in Reviews : svc[r] = s /\ review[r] \in Active}

\* A week goes by; not more often than there are reviews left to make.
WeekPasses(s) ==
    /\ s \in services
    /\ ~due[s]
    /\ \E r \in Reviews \ ApiReviews : review[r] = "absent"
    /\ due' = [due EXCEPT ![s] = TRUE]
    /\ UNCHANGED <<services, enabled, lastReview, lastStatus, reviewVars,
                   request, msg, runVars, workerVars, generations>>

\* A run that has flushed a schedule keeps its row locked until it commits.  (Of
\* two runs that want the same row, the one that commits first is the one that
\* got it first: what they write is the same.)
Unlocked(s) == \A k \in Schedulers : s \notin moved[k]

\* update_review_schedule: whatever changes, an enabled schedule gets a new
\* next_scheduled_at, always in the future.
UpdateReviewSchedule(s, on_off) ==
    /\ s \in services /\ Unlocked(s)
    /\ enabled' = [enabled EXCEPT ![s] = on_off]
    /\ due' = IF on_off THEN [due EXCEPT ![s] = FALSE] ELSE due
    /\ UNCHANGED <<services, lastReview, lastStatus, reviewVars, request, msg,
                   runVars, workerVars, generations>>

\* The service goes with its schedule and its reviews (ON DELETE CASCADE).  It
\* waits for runs that hold a lock on the schedule or refer to the service.
DeleteService(s) ==
    /\ s \in services /\ Unlocked(s)
    /\ services' = services \ {s}
    /\ review' = [r \in Reviews |->
           IF svc[r] = s /\ review[r] \in Stored THEN "deleted" ELSE review[r]]
    /\ UNCHANGED <<enabled, due, lastReview, lastStatus, svc, period, request,
                   msg, runVars, workerVars, generations>>

\* create_review and create_bulk_reviews look for a review of the same period;
\* the bulk request does not mind a COMPLETED one.
SamePeriod(s, p) ==
    {r \in Reviews : svc[r] = s /\ period[r] = p /\ p # Now}

CheckExisting(r, s, p) ==
    /\ r \in ApiReviews
    /\ request[r] = "idle"
    /\ s \in services
    /\ \A q \in SamePeriod(s, p) : review[q] \notin Active
    /\ request' = [request EXCEPT ![r] = "checked"]
    /\ svc' = [svc EXCEPT ![r] = s]
    /\ period' = [period EXCEPT ![r] = p]
    /\ UNCHANGED <<scheduleVars, review, msg, runVars, workerVars, generations>>

\* INSERT and commit, which fails on the foreign key of a service that is gone
\* and on the unique index over service and review_week_start, whatever the
\* status of the review that is already there.
CreateReview(r) ==
    /\ request[r] = "checked"
    /\ IF svc[r] \in services /\ \A q \in SamePeriod(svc[r], period[r]) : review[q] \notin Stored
       THEN /\ review' = [review EXCEPT ![r] = "QUEUED"]
            /\ request' = [request EXCEPT ![r] = "stored"]
       ELSE /\ request' = [request EXCEPT ![r] = "done"]
            /\ UNCHANGED review
    /\ UNCHANGED <<scheduleVars, svc, period, msg, runVars, workerVars,
                   generations>>

\* publish_health_review_job; a refusal is logged and the request succeeds, and
\* the process may die before it gets here.
PublishJob(r) ==
    /\ request[r] = "stored"
    /\ msg' = [msg EXCEPT ![r] = "visible"] \/ UNCHANGED msg
    /\ request' = [request EXCEPT ![r] = "done"]
    /\ UNCHANGED <<scheduleVars, reviewVars, runVars, workerVars, generations>>

-----------------------------------------------------------------------------
(* The scheduler. *)

\* Faulty: trusts last_review_status to say that a review is in progress.
StartRunByLastStatus(k) ==
    /\ run[k] = "idle"
    /\ \E s \in services : enabled[s] /\ due[s] /\ lastStatus[s] # "QUEUED"
    /\ run' = [run EXCEPT ![k] = "running"]
    /\ todo' = [todo EXCEPT ![k] =
           {s \in services : enabled[s] /\ due[s] /\ lastStatus[s] # "QUEUED"}]
    /\ loaded' = [loaded EXCEPT ![k] = lastStatus]
    /\ UNCHANGED <<scheduleVars, reviewVars, request, msg, moved, made, sent,
                   workerVars, generations>>

\* _get_due_schedules; last_review_status is not read again before the update.
StartRun(k) ==
    /\ run[k] = "idle"
    /\ \E s \in services : enabled[s] /\ due[s]
    /\ run' = [run EXCEPT ![k] = "running"]
    /\ todo' = [todo EXCEPT ![k] = {s \in services : enabled[s] /\ due[s]}]
    /\ loaded' = [loaded EXCEPT ![k] = lastStatus]
    /\ UNCHANGED <<scheduleVars, reviewVars, request, msg, moved, made, sent,
                   workerVars, generations>>

\* One review in progress: the schedule stays as it is.
SkipService(k, s) ==
    /\ run[k] = "running" /\ s \in todo[k] \intersect services
    /\ Cardinality(InProgress(s)) = 1
    /\ todo' = [todo EXCEPT ![k] = @ \ {s}]
    /\ UNCHANGED <<scheduleVars, reviewVars, request, msg, run, moved, made,
                   sent, loaded, workerVars, generations>>

\* None: the review is flushed and its id published at once.  SQS may report a
\* failure although it took the message.
TriggerReview(k, s, r) ==
    /\ run[k] = "running" /\ s \in todo[k] \intersect services
    /\ InProgress(s) = {}
    /\ r \notin ApiReviews /\ review[r] = "absent"
    /\ review' = [review EXCEPT ![r] = "uncommitted"]
    /\ svc' = [svc EXCEPT ![r] = s]
    /\ todo' = [todo EXCEPT ![k] = @ \ {s}]
    /\ moved' = [moved EXCEPT ![k] = @ \union {s}]
    /\ made' = [made EXCEPT ![k][s] = r]
    /\ \/ /\ msg' = [msg EXCEPT ![r] = "visible"]
          /\ sent' = [sent EXCEPT ![k] = @ \union {s}] \/ UNCHANGED sent
       \/ UNCHANGED <<msg, sent>>
    /\ UNCHANGED <<scheduleVars, period, request, run, loaded, workerVars,
                   generations>>

\* Two: scalar_one_or_none raises, which counts as a failure for this week.
AmbiguousService(k, s) ==
    /\ run[k] = "running" /\ s \in todo[k] \intersect services
    /\ Cardinality(InProgress(s)) > 1
    /\ todo' = [todo EXCEPT ![k] = @ \ {s}]
    /\ moved' = [moved EXCEPT ![k] = @ \union {s}]
    /\ UNCHANGED <<scheduleVars, reviewVars, request, msg, run, made, sent,
                   loaded, workerVars, generations>>

EndRun(k) ==
    /\ run' = [run EXCEPT ![k] = "idle"]
    /\ todo' = [todo EXCEPT ![k] = {}]
    /\ moved' = [moved EXCEPT ![k] = {}]
    /\ made' = [made EXCEPT ![k] = [s \in Services |-> None]]
    /\ sent' = [sent EXCEPT ![k] = {}]
    /\ loaded' = [loaded EXCEPT ![k] = [s \in Services |-> "none"]]

MadeBy(k) == {made[k][s] : s \in Services} \ {None}

\* The commit.  SQLAlchemy writes the attributes whose value differs from the
\* one it loaded: a status that was QUEUED then is not written again.
CommitRun(k) ==
    /\ run[k] = "running"
    /\ todo[k] = {}
    /\ review' = [r \in Reviews |-> IF r \in MadeBy(k) THEN "QUEUED" ELSE review[r]]
    /\ due' = [s \in Services |-> due[s] /\ s \notin moved[k]]
    /\ lastReview' = [s \in Services |->
           IF s \in sent[k] THEN made[k][s] ELSE lastReview[s]]
    /\ lastStatus' = [s \in Services |->
           IF s \in sent[k] /\ loaded[k][s] # "QUEUED" THEN "QUEUED"
           ELSE lastStatus[s]]
    /\ EndRun(k)
    /\ UNCHANGED <<services, enabled, svc, period, request, msg, workerVars,
                   generations>>

\* The run dies, or a flush fails and poisons its session (the schedule of a
\* deleted service is enough): all is rolled back but the messages.
AbortRun(k) ==
    /\ run[k] = "running"
    /\ review' = [r \in Reviews |-> IF r \in MadeBy(k) THEN "undone" ELSE review[r]]
    /\ EndRun(k)
    /\ UNCHANGED <<scheduleVars, svc, period, request, msg, workerVars,
                   generations>>

-----------------------------------------------------------------------------
(* SQS (external) and the worker. *)

PreStart(w) == pc[w] \in {"load", "start"}

VisibilityExpires(r) ==
    /\ msg[r] = "hidden"
    /\ PromptStart => \A w \in Workers : PreStart(w) => on[w] # r
    /\ msg' = [msg EXCEPT ![r] = "visible"]
    /\ UNCHANGED <<scheduleVars, reviewVars, request, runVars, workerVars,
                   generations>>

Receive(w) ==
    /\ pc[w] = "poll"
    /\ \E r \in Reviews :
        /\ msg[r] = "visible"
        /\ msg' = [msg EXCEPT ![r] = "hidden"]
        /\ on' = [on EXCEPT ![w] = r]
    /\ pc' = [pc EXCEPT ![w] = "load"]
    /\ UNCHANGED <<scheduleVars, reviewVars, request, runVars, generations>>

\* Faulty: takes up again a review that an earlier worker left half done.
LoadUnfinishedReview(w) ==
    /\ pc[w] = "load"
    /\ pc' = [pc EXCEPT ![w] = IF review[on[w]] \in Active THEN "start" ELSE "ack"]
    /\ UNCHANGED <<scheduleVars, reviewVars, request, msg, runVars, on,
                   generations>>

\* Faulty: also reports to the schedule a review that it skips.
LoadAnyReview(w) ==
    /\ pc[w] = "load"
    /\ pc' = [pc EXCEPT ![w] = IF review[on[w]] = "QUEUED" THEN "start" ELSE "schedule"]
    /\ UNCHANGED <<scheduleVars, reviewVars, request, msg, runVars, on,
                   generations>>

\* A review that is not found, or not QUEUED, is skipped; its message goes.
LoadReview(w) ==
    /\ pc[w] = "load"
    /\ pc' = [pc EXCEPT ![w] = IF review[on[w]] = "QUEUED" THEN "start" ELSE "ack"]
    /\ UNCHANGED <<scheduleVars, reviewVars, request, msg, runVars, on,
                   generations>>

\* ReviewOrchestrator.generate: status = GENERATING, commit.  The row of a
\* deleted service is missed, which leaves only the failure actions below.
StartGeneration(w) ==
    /\ pc[w] = "start"
    /\ review[on[w]] \in Stored
    /\ review' = [review EXCEPT ![on[w]] = "GENERATING"]
    /\ generations' = [generations EXCEPT ![on[w]] = @ + 1]
    /\ pc' = [pc EXCEPT ![w] = "generate"]
    /\ UNCHANGED <<scheduleVars, svc, period, request, msg, runVars, on>>

\* _save_real_results: the review and all it found, in one transaction.
SaveResults(w) ==
    /\ pc[w] = "generate"
    /\ review[on[w]] \in Stored
    /\ review' = [review EXCEPT ![on[w]] = "COMPLETED"]
    /\ pc' = [pc EXCEPT ![w] = "schedule"]
    /\ UNCHANGED <<scheduleVars, svc, period, request, msg, runVars, on,
                   generations>>

\* _update_schedule, in a transaction of its own.
UpdateSchedule(w) ==
    /\ pc[w] = "schedule"
    /\ IF svc[on[w]] \in services
       THEN /\ Unlocked(svc[on[w]])
            /\ lastReview' = [lastReview EXCEPT ![svc[on[w]]] = on[w]]
            /\ lastStatus' = [lastStatus EXCEPT ![svc[on[w]]] = "COMPLETED"]
       ELSE UNCHANGED <<lastReview, lastStatus>>
    /\ pc' = [pc EXCEPT ![w] = "ack"]
    /\ UNCHANGED <<services, enabled, due, reviewVars, request, msg, runVars,
                   on, generations>>

\* Faulty: a review that could not be generated waits for another worker.
RequeueReview(w) ==
    /\ pc[w] \in {"load", "start", "generate", "schedule"}
    /\ review[on[w]] \in Stored
    /\ review' = [review EXCEPT ![on[w]] = "QUEUED"]
    /\ pc' = [pc EXCEPT ![w] = "ack"]
    /\ UNCHANGED <<scheduleVars, svc, period, request, msg, runVars, on,
                   generations>>

\* The exception handlers of generate and process_message, whatever the status
\* of the review was.
FailReview(w) ==
    /\ pc[w] \in {"load", "start", "generate", "schedule"}
    /\ review[on[w]] \in Stored
    /\ review' = [review EXCEPT ![on[w]] = "FAILED"]
    /\ pc' = [pc EXCEPT ![w] = "ack"]
    /\ UNCHANGED <<scheduleVars, svc, period, request, msg, runVars, on,
                   generations>>

\* The handlers fail too, which is only logged.
RecoveryFails(w) ==
    /\ pc[w] \in {"load", "start", "generate", "schedule"}
    /\ pc' = [pc EXCEPT ![w] = "ack"]
    /\ UNCHANGED <<scheduleVars, reviewVars, request, msg, runVars, on,
                   generations>>

\* delete_message, whose failure is only logged.
Ack(w) ==
    /\ pc[w] = "ack"
    /\ msg' = [msg EXCEPT ![on[w]] = "deleted"] \/ UNCHANGED msg
    /\ pc' = [pc EXCEPT ![w] = "poll"]
    /\ on' = [on EXCEPT ![w] = None]
    /\ UNCHANGED <<scheduleVars, reviewVars, request, runVars, generations>>

\* Faulty: forgets to come back from its message.
WorkerKeepsReview(w) ==
    /\ pc[w] # "poll"
    /\ on' = [on EXCEPT ![w] = None]
    /\ UNCHANGED <<pc, scheduleVars, reviewVars, request, msg, runVars, generations>>

\* The process dies or stop() cancels the task: no handler runs.
WorkerCrash(w) ==
    /\ pc[w] # "poll"
    /\ pc' = [pc EXCEPT ![w] = "poll"]
    /\ on' = [on EXCEPT ![w] = None]
    /\ UNCHANGED <<scheduleVars, reviewVars, request, msg, runVars, generations>>

-----------------------------------------------------------------------------
UserStep ==
    \/ \E s \in Services :
        \/ WeekPasses(s) \/ DeleteService(s)
        \/ \E b \in BOOLEAN : UpdateReviewSchedule(s, b)
    \/ \E r \in Reviews :
        \/ \E s \in Services, p \in Periods \union {Now} : CheckExisting(r, s, p)
        \/ CreateReview(r) \/ PublishJob(r) \/ VisibilityExpires(r)

ExamineService(k, s) ==
    \/ SkipService(k, s) \/ AmbiguousService(k, s)
    \/ \E r \in Reviews : TriggerReview(k, s, r)

SchedulerStep(k) ==
    \/ StartRun(k) \/ CommitRun(k) \/ AbortRun(k)
    \/ \E s \in Services : ExamineService(k, s)

WorkerStep(w) ==
    \/ Receive(w) \/ LoadReview(w) \/ StartGeneration(w) \/ SaveResults(w)
    \/ UpdateSchedule(w) \/ FailReview(w) \/ RecoveryFails(w) \/ Ack(w)
    \/ WorkerCrash(w)

Next ==
    \/ UserStep
    \/ \E k \in Schedulers : SchedulerStep(k)
    \/ \E w \in Workers : WorkerStep(w)

Spec == Init /\ [][Next]_vars

\* Fairness.  The cron job calls the endpoint again and again and a run that may
\* go on often enough does; a worker goes on with what it has and SQS gives back
\* what nobody acknowledges; an error or a crash that may happen need not.
\* Nothing is said of users.
FairScheduler(k) ==
    /\ WF_vars(StartRun(k)) /\ SF_vars(CommitRun(k))
    /\ \A s \in Services : SF_vars(ExamineService(k, s))

FairWorker(w) ==
    /\ SF_vars(Receive(w)) /\ SF_vars(LoadReview(w)) /\ SF_vars(Ack(w))
    /\ SF_vars(StartGeneration(w)) /\ SF_vars(SaveResults(w))
    /\ SF_vars(UpdateSchedule(w))

\* What the liveness of the scheduler rests on: workers may all be dead.
FairCron == Spec /\ \A k \in Schedulers : FairScheduler(k)

FairSpec ==
    /\ FairCron
    /\ \A w \in Workers : FairWorker(w)
    /\ \A r \in Reviews : WF_vars(VisibilityExpires(r)) /\ WF_vars(PublishJob(r))

-----------------------------------------------------------------------------
(* Properties. *)

\* However often SQS delivers a review's id, the analysis behind it, which costs
\* minutes of model calls, is started once at most.  (PromptStart.)
AtMostOneGeneration == \A r \in Reviews : generations[r] <= 1

\* Without users and with one scheduler run at a time, no service has two
\* reviews in progress: the run checks before its transaction adds one, and its
\* workers never bring a finished review back.  (PromptStart.)
NoOverlap ==
    \A q, r \in Reviews :
        {review[q], review[r]} \subseteq Active /\ svc[q] = svc[r] => q = r

\* A schedule never refers to a review that was rolled back, or to the review
\* of another service: the foreign key holds although the id was published
\* before the transaction of the scheduler ended.
LastReviewIsReal ==
    \A s \in Services : lastReview[s] # None =>
        /\ svc[lastReview[s]] = s
        /\ review[lastReview[s]] \in Stored \union {"deleted"}

\* What ReviewPromise promises, read off this system: what is not committed is not
\* there, and what was rolled back never was.
Seen(r) == review[r] \in Stored \union {"deleted"}
Promise == INSTANCE ReviewPromise WITH
    known  <- services,
    status <- [r \in Reviews |-> IF Seen(r) THEN review[r] ELSE "absent"],
    of     <- [r \in Reviews |-> IF Seen(r) THEN svc[r] ELSE None],
    latest <- lastReview,
    starts <- generations

\* Scheduler, requests, queue and workers together implement the promise.
\* (PromptStart.)
KeepsReviewPromise == Promise!Spec

\* The scheduler misses no service: one that is due, enabled and has no review
\* in progress gets one, or its slot passes because a review of it could not be
\* published.  (Exhausted: the bound on reviews is reached.)
Exhausted == \A r \in Reviews \ ApiReviews : review[r] # "absent"
Free(s) == s \in services /\ enabled[s] /\ due[s] /\ InProgress(s) = {}
FreeServiceIsTriggered == \A s \in Services : Free(s) ~> (~Free(s) \/ Exhausted)

\* What HealthReviewScheduler says of itself: it "triggers weekly health reviews
\* for all services".  A service that stays enabled and is due is reviewed.
DueServiceIsReviewed ==
    \A s \in Services : Free(s) ~>
        \/ \E r \in Reviews : svc[r] = s /\ review[r] \in {"GENERATING", "COMPLETED", "FAILED"}
        \/ s \notin services \/ ~enabled[s] \/ Exhausted

\* What create_review says of its check: "Only allow new review if previous one
\* FAILED".  A request that finds nothing but FAILED reviews of its period, before
\* and at its INSERT, creates one.
RetryAfterFailure ==
    [][\A r \in ApiReviews :
        /\ request[r] = "checked" /\ request'[r] # "checked"
        /\ svc[r] \in services
        /\ \A q \in SamePeriod(svc[r], period[r]) : review[q] \in {"absent", "FAILED"}
        => review'[r] = "QUEUED"]_vars
=============================================================================
