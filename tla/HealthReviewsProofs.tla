------------------------- MODULE HealthReviewsProofs -------------------------
(***************************************************************************)
(* Proofs about HealthReviews, for any services, reviews, scheduler runs   *)
(* and workers.                                                            *)
(***************************************************************************)
EXTENDS HealthReviews, TLAPS

\* What is committed, what only a scheduler run sees, and what does not exist.
\* It holds whatever SQS does.
Committed ==
    /\ \A k \in Schedulers, s \in Services : made[k][s] # None =>
        /\ review[made[k][s]] = "uncommitted"
        /\ svc[made[k][s]] = s
        /\ made[k][s] \notin ApiReviews
    /\ \A k, l \in Schedulers, s, t \in Services :
        made[k][s] # None /\ made[k][s] = made[l][t] => k = l
    /\ \A k \in Schedulers : \A s \in sent[k] : made[k][s] # None
    /\ \A r \in Reviews : request[r] \in {"idle", "checked"} /\ r \in ApiReviews
        => review[r] = "absent"
    /\ \A r \in Reviews : request[r] # "idle" => r \in ApiReviews
    /\ \A r \in Reviews : request[r] = "stored" => review[r] # "absent"
    /\ \A r \in Reviews :
        review[r] # "absent" \/ request[r] = "checked" => svc[r] \in Services
    /\ \A w \in Workers : pc[w] \in {"start", "generate", "schedule"}
        => review[on[w]] \in Stored \union {"deleted"}

\* While a worker has not started its review nobody else is given the message.
Held ==
    /\ \A r \in Reviews : review[r] = "absent" \/ request[r] = "stored"
        => msg[r] = "unsent"
    /\ \A w \in Workers : pc[w] # "poll" => msg[on[w]] # "unsent"
    /\ \A w \in Workers : PreStart(w) => msg[on[w]] # "visible"
    /\ \A v, w \in Workers :
        PreStart(v) /\ PreStart(w) /\ v # w => on[v] # on[w]

\* A review that is still QUEUED was never started, and one that is about to be
\* started is still QUEUED.
Started ==
    /\ \A r \in Reviews :
        review[r] \in {"absent", "uncommitted", "undone", "QUEUED"}
            => generations[r] = 0
    /\ \A w \in Workers : pc[w] \in {"generate", "schedule"}
        => review[on[w]] \notin {"absent", "uncommitted", "undone", "QUEUED"}
    /\ \A w \in Workers : pc[w] = "start" => review[on[w]] \in {"QUEUED", "deleted"}
    /\ AtMostOneGeneration

\* The cron job alone, one run at a time.
CronOnly == ApiReviews = {} /\ \A k, l \in Schedulers : k = l

\* A run that has made a review for a service is alone with it.
Alone ==
    /\ NoOverlap
    /\ \A k \in Schedulers, r \in Reviews :
        review[r] \in Active => made[k][svc[r]] = None

\* The inductive invariant of PromptStart.
IInv == TypeOK /\ Committed /\ Held /\ Started

\* What a run has made is of a service that it keeps from being deleted, a deleted
\* review has lost its service, and what a worker reports has ended.
Kept ==
    /\ \A k \in Schedulers, s \in Services :
          made[k][s] # None => s \in services /\ s \in moved[k]
    /\ \A r \in Reviews : review[r] = "deleted" => svc[r] \notin services
    /\ \A w \in Workers : pc[w] \in {"generate", "schedule"} => generations[on[w]] = 1
    /\ \A w \in Workers :
          pc[w] = "schedule" => review[on[w]] \in {"COMPLETED", "FAILED", "deleted"}

-----------------------------------------------------------------------------
(* Steps. *)

\* What a run has made.
LEMMA MadeByMembers ==
    ASSUME NEW k \in Schedulers, NEW r
    PROVE  r \in MadeBy(k) <=> r # None /\ \E s \in Services : made[k][s] = r
BY DEF MadeBy

\* Every step keeps the types.
LEMMA TypeStep ==
    ASSUME TypeOK, [Next]_vars
    PROVE  TypeOK'
<1> USE DEF TypeOK, ReviewStatus, Stored, Active, vars, scheduleVars,
   reviewVars, runVars, workerVars
<1>1. ASSUME NEW s \in Services, WeekPasses(s) PROVE TypeOK'
  BY <1>1, HealthNoneAssumption, ApiReviewsAssumption DEF WeekPasses
<1>2. ASSUME NEW s \in Services, DeleteService(s) PROVE TypeOK'
  BY <1>2, HealthNoneAssumption, ApiReviewsAssumption DEF DeleteService
<1>3. ASSUME NEW s \in Services, NEW b \in BOOLEAN, UpdateReviewSchedule(s,
   b) PROVE TypeOK'
  BY <1>3, HealthNoneAssumption, ApiReviewsAssumption DEF
     UpdateReviewSchedule
<1>4. ASSUME NEW r \in Reviews, NEW s \in Services, NEW p \in Periods \union
   {Now}, CheckExisting(r, s, p) PROVE TypeOK'
  BY <1>4, HealthNoneAssumption, ApiReviewsAssumption DEF CheckExisting
<1>5. ASSUME NEW r \in Reviews, CreateReview(r) PROVE TypeOK'
  BY <1>5, HealthNoneAssumption, ApiReviewsAssumption DEF CreateReview
<1>6. ASSUME NEW r \in Reviews, PublishJob(r) PROVE TypeOK'
  BY <1>6, HealthNoneAssumption, ApiReviewsAssumption DEF PublishJob
<1>7. ASSUME NEW r \in Reviews, VisibilityExpires(r) PROVE TypeOK'
  BY <1>7, HealthNoneAssumption, ApiReviewsAssumption DEF VisibilityExpires,
     PreStart
<1>8. ASSUME NEW k \in Schedulers, StartRun(k) PROVE TypeOK'
  BY <1>8, HealthNoneAssumption, ApiReviewsAssumption DEF StartRun
<1>9. ASSUME NEW k \in Schedulers, CommitRun(k) PROVE TypeOK'
  <2>1. services' \subseteq Services /\ enabled' \in [Services -> BOOLEAN]
    BY <1>9, HealthNoneAssumption, ApiReviewsAssumption, MadeByMembers DEF
       CommitRun, EndRun
  <2>2. due' \in [Services -> BOOLEAN]
    BY <1>9, HealthNoneAssumption, ApiReviewsAssumption, MadeByMembers DEF
       CommitRun, EndRun
  <2>3. lastReview' \in [Services -> Reviews \union {None}]
    BY <1>9, HealthNoneAssumption, ApiReviewsAssumption, MadeByMembers DEF
       CommitRun, EndRun
  <2>4. lastStatus' \in [Services -> {"none", "QUEUED", "COMPLETED"}]
    BY <1>9, HealthNoneAssumption, ApiReviewsAssumption, MadeByMembers DEF
       CommitRun, EndRun
  <2>5. review' \in [Reviews -> ReviewStatus]
    BY <1>9, HealthNoneAssumption, ApiReviewsAssumption, MadeByMembers DEF
       CommitRun, EndRun
  <2>6. svc' \in [Reviews -> Services \union {None}]
    BY <1>9, HealthNoneAssumption, ApiReviewsAssumption, MadeByMembers DEF
       CommitRun, EndRun
  <2>7. made' \in [Schedulers -> [Services -> Reviews \union {None}]]
    BY <1>9, HealthNoneAssumption, ApiReviewsAssumption, MadeByMembers DEF
       CommitRun, EndRun
  <2>8. loaded' \in [Schedulers -> [Services -> {"none", "QUEUED",
     "COMPLETED"}]]
    BY <1>9, HealthNoneAssumption, ApiReviewsAssumption, MadeByMembers DEF
       CommitRun, EndRun
  <2>9. run' \in [Schedulers -> {"idle", "running"}] /\ todo' \in [Schedulers
     -> SUBSET Services]
    BY <1>9, HealthNoneAssumption, ApiReviewsAssumption, MadeByMembers DEF
       CommitRun, EndRun
  <2>10. moved' \in [Schedulers -> SUBSET Services]
    BY <1>9, HealthNoneAssumption, ApiReviewsAssumption, MadeByMembers DEF
       CommitRun, EndRun
  <2>11. sent' \in [Schedulers -> SUBSET Services]
    BY <1>9, HealthNoneAssumption, ApiReviewsAssumption, MadeByMembers DEF
       CommitRun, EndRun
  <2>12. msg' \in [Reviews -> {"unsent", "visible", "hidden", "deleted"}]
    BY <1>9, HealthNoneAssumption, ApiReviewsAssumption, MadeByMembers DEF
       CommitRun, EndRun
  <2>13. QED
    BY <1>9, <2>1, <2>2, <2>3, <2>4, <2>5, <2>6, <2>7, <2>8, <2>9, <2>10, <2>11,
       <2>12 DEF CommitRun
<1>10. ASSUME NEW k \in Schedulers, AbortRun(k) PROVE TypeOK'
  <2>1. services' \subseteq Services /\ enabled' \in [Services -> BOOLEAN]
    BY <1>10, HealthNoneAssumption, ApiReviewsAssumption, MadeByMembers DEF
       AbortRun, EndRun
  <2>2. due' \in [Services -> BOOLEAN]
    BY <1>10, HealthNoneAssumption, ApiReviewsAssumption, MadeByMembers DEF
       AbortRun, EndRun
  <2>3. lastReview' \in [Services -> Reviews \union {None}]
    BY <1>10, HealthNoneAssumption, ApiReviewsAssumption, MadeByMembers DEF
       AbortRun, EndRun
  <2>4. lastStatus' \in [Services -> {"none", "QUEUED", "COMPLETED"}]
    BY <1>10, HealthNoneAssumption, ApiReviewsAssumption, MadeByMembers DEF
       AbortRun, EndRun
  <2>5. review' \in [Reviews -> ReviewStatus]
    BY <1>10, HealthNoneAssumption, ApiReviewsAssumption, MadeByMembers DEF
       AbortRun, EndRun
  <2>6. svc' \in [Reviews -> Services \union {None}]
    BY <1>10, HealthNoneAssumption, ApiReviewsAssumption, MadeByMembers DEF
       AbortRun, EndRun
  <2>7. made' \in [Schedulers -> [Services -> Reviews \union {None}]]
    BY <1>10, HealthNoneAssumption, ApiReviewsAssumption, MadeByMembers DEF
       AbortRun, EndRun
  <2>8. loaded' \in [Schedulers -> [Services -> {"none", "QUEUED",
     "COMPLETED"}]]
    BY <1>10, HealthNoneAssumption, ApiReviewsAssumption, MadeByMembers DEF
       AbortRun, EndRun
  <2>9. run' \in [Schedulers -> {"idle", "running"}] /\ todo' \in [Schedulers
     -> SUBSET Services]
    BY <1>10, HealthNoneAssumption, ApiReviewsAssumption, MadeByMembers DEF
       AbortRun, EndRun
  <2>10. moved' \in [Schedulers -> SUBSET Services]
    BY <1>10, HealthNoneAssumption, ApiReviewsAssumption, MadeByMembers DEF
       AbortRun, EndRun
  <2>11. sent' \in [Schedulers -> SUBSET Services]
    BY <1>10, HealthNoneAssumption, ApiReviewsAssumption, MadeByMembers DEF
       AbortRun, EndRun
  <2>12. msg' \in [Reviews -> {"unsent", "visible", "hidden", "deleted"}]
    BY <1>10, HealthNoneAssumption, ApiReviewsAssumption, MadeByMembers DEF
       AbortRun, EndRun
  <2>13. QED
    BY <1>10, <2>1, <2>2, <2>3, <2>4, <2>5, <2>6, <2>7, <2>8, <2>9, <2>10, <2>11,
       <2>12 DEF AbortRun
<1>11. ASSUME NEW k \in Schedulers, NEW s \in Services, SkipService(k, s)
   PROVE TypeOK'
  BY <1>11, HealthNoneAssumption, ApiReviewsAssumption DEF SkipService
<1>12. ASSUME NEW k \in Schedulers, NEW s \in Services, AmbiguousService(k,
   s) PROVE TypeOK'
  BY <1>12, HealthNoneAssumption, ApiReviewsAssumption DEF AmbiguousService
<1>13. ASSUME NEW k \in Schedulers, NEW s \in Services, NEW r \in Reviews,
   TriggerReview(k, s, r) PROVE TypeOK'
  <2>1. services' \subseteq Services /\ enabled' \in [Services -> BOOLEAN]
    BY <1>13, HealthNoneAssumption, ApiReviewsAssumption, MadeByMembers DEF
       TriggerReview
  <2>2. due' \in [Services -> BOOLEAN]
    BY <1>13, HealthNoneAssumption, ApiReviewsAssumption, MadeByMembers DEF
       TriggerReview
  <2>3. lastReview' \in [Services -> Reviews \union {None}]
    BY <1>13, HealthNoneAssumption, ApiReviewsAssumption, MadeByMembers DEF
       TriggerReview
  <2>4. lastStatus' \in [Services -> {"none", "QUEUED", "COMPLETED"}]
    BY <1>13, HealthNoneAssumption, ApiReviewsAssumption, MadeByMembers DEF
       TriggerReview
  <2>5. review' \in [Reviews -> ReviewStatus]
    BY <1>13, HealthNoneAssumption, ApiReviewsAssumption, MadeByMembers DEF
       TriggerReview
  <2>6. svc' \in [Reviews -> Services \union {None}]
    BY <1>13, HealthNoneAssumption, ApiReviewsAssumption, MadeByMembers DEF
       TriggerReview
  <2>7. made' \in [Schedulers -> [Services -> Reviews \union {None}]]
    BY <1>13, HealthNoneAssumption, ApiReviewsAssumption, MadeByMembers DEF
       TriggerReview
  <2>8. loaded' \in [Schedulers -> [Services -> {"none", "QUEUED",
     "COMPLETED"}]]
    BY <1>13, HealthNoneAssumption, ApiReviewsAssumption, MadeByMembers DEF
       TriggerReview
  <2>9. run' \in [Schedulers -> {"idle", "running"}] /\ todo' \in [Schedulers
     -> SUBSET Services]
    BY <1>13, HealthNoneAssumption, ApiReviewsAssumption, MadeByMembers DEF
       TriggerReview
  <2>10. moved' \in [Schedulers -> SUBSET Services]
    BY <1>13, HealthNoneAssumption, ApiReviewsAssumption, MadeByMembers DEF
       TriggerReview
  <2>11. sent' \in [Schedulers -> SUBSET Services]
    BY <1>13, HealthNoneAssumption, ApiReviewsAssumption, MadeByMembers DEF
       TriggerReview
  <2>12. msg' \in [Reviews -> {"unsent", "visible", "hidden", "deleted"}]
    <3>1. msg' = msg \/ msg' = [msg EXCEPT ![r] = "visible"]
      BY <1>13 DEF TriggerReview
    <3>2. QED
      BY <3>1
  <2>13. QED
    BY <1>13, <2>1, <2>2, <2>3, <2>4, <2>5, <2>6, <2>7, <2>8, <2>9, <2>10, <2>11,
       <2>12 DEF TriggerReview
<1>14. ASSUME NEW w \in Workers, Receive(w) PROVE TypeOK'
  BY <1>14, HealthNoneAssumption, ApiReviewsAssumption DEF Receive
<1>15. ASSUME NEW w \in Workers, LoadReview(w) PROVE TypeOK'
  BY <1>15, HealthNoneAssumption, ApiReviewsAssumption DEF LoadReview
<1>16. ASSUME NEW w \in Workers, StartGeneration(w) PROVE TypeOK'
  BY <1>16, HealthNoneAssumption, ApiReviewsAssumption DEF StartGeneration
<1>17. ASSUME NEW w \in Workers, SaveResults(w) PROVE TypeOK'
  BY <1>17, HealthNoneAssumption, ApiReviewsAssumption DEF SaveResults
<1>18. ASSUME NEW w \in Workers, UpdateSchedule(w) PROVE TypeOK'
  BY <1>18, HealthNoneAssumption, ApiReviewsAssumption DEF UpdateSchedule
<1>19. ASSUME NEW w \in Workers, FailReview(w) PROVE TypeOK'
  BY <1>19, HealthNoneAssumption, ApiReviewsAssumption DEF FailReview
<1>20. ASSUME NEW w \in Workers, RecoveryFails(w) PROVE TypeOK'
  BY <1>20, HealthNoneAssumption, ApiReviewsAssumption DEF RecoveryFails
<1>21. ASSUME NEW w \in Workers, Ack(w) PROVE TypeOK'
  BY <1>21, HealthNoneAssumption, ApiReviewsAssumption DEF Ack
<1>22. ASSUME NEW w \in Workers, WorkerCrash(w) PROVE TypeOK'
  BY <1>22, HealthNoneAssumption, ApiReviewsAssumption DEF WorkerCrash
<1>23. CASE UNCHANGED vars
  BY <1>23
<1>24. QED
  BY <1>1, <1>2, <1>3, <1>4, <1>5, <1>6, <1>7, <1>8, <1>9, <1>10, <1>11,
     <1>12, <1>13, <1>14, <1>15, <1>16, <1>17, <1>18, <1>19, <1>20, <1>21,
     <1>22, <1>23 DEF Next, UserStep, SchedulerStep, ExamineService,
     WorkerStep

\* No step mixes up what is committed and what is not.
LEMMA CommittedStep ==
    ASSUME TypeOK, Committed, [Next]_vars
    PROVE  Committed'
<1> USE DEF TypeOK, ReviewStatus, Stored, Active, Committed, vars,
   scheduleVars, reviewVars, runVars, workerVars
<1>1. ASSUME NEW s \in Services, WeekPasses(s) PROVE Committed'
  BY <1>1, HealthNoneAssumption, ApiReviewsAssumption, MadeByMembers DEF
     WeekPasses
<1>2. ASSUME NEW s \in Services, DeleteService(s) PROVE Committed'
  BY <1>2, HealthNoneAssumption, ApiReviewsAssumption, MadeByMembers DEF
     DeleteService
<1>3. ASSUME NEW s \in Services, NEW b \in BOOLEAN, UpdateReviewSchedule(s,
   b) PROVE Committed'
  BY <1>3, HealthNoneAssumption, ApiReviewsAssumption, MadeByMembers DEF
     UpdateReviewSchedule
<1>4. ASSUME NEW r \in Reviews, NEW s \in Services, NEW p \in Periods \union
   {Now}, CheckExisting(r, s, p) PROVE Committed'
  BY <1>4, HealthNoneAssumption, ApiReviewsAssumption, MadeByMembers DEF
     CheckExisting
<1>5. ASSUME NEW r \in Reviews, CreateReview(r) PROVE Committed'
  <2>1. /\ request[r] = "checked"
        /\ \/ /\ svc[r] \in services
              /\ review' = [review EXCEPT ![r] = "QUEUED"]
              /\ request' = [request EXCEPT ![r] = "stored"]
           \/ /\ request' = [request EXCEPT ![r] = "done"]
              /\ review' = review
        /\ UNCHANGED <<scheduleVars, svc, msg, runVars, workerVars, generations>>
    BY <1>5 DEF CreateReview
  <2>2. CASE review' = [review EXCEPT ![r] = "QUEUED"] /\ svc[r] \in services
    BY <2>1, <2>2, HealthNoneAssumption
  <2>3. CASE review' = review
    BY <2>1, <2>3, HealthNoneAssumption
  <2>4. QED
    BY <2>1, <2>2, <2>3
<1>6. ASSUME NEW r \in Reviews, PublishJob(r) PROVE Committed'
  BY <1>6, HealthNoneAssumption, ApiReviewsAssumption, MadeByMembers DEF
     PublishJob
<1>7. ASSUME NEW r \in Reviews, VisibilityExpires(r) PROVE Committed'
  BY <1>7, HealthNoneAssumption, ApiReviewsAssumption, MadeByMembers DEF
     VisibilityExpires, PreStart
<1>8. ASSUME NEW k \in Schedulers, StartRun(k) PROVE Committed'
  BY <1>8, HealthNoneAssumption, ApiReviewsAssumption, MadeByMembers DEF
     StartRun
<1>9. ASSUME NEW k \in Schedulers, CommitRun(k) PROVE Committed'
  BY <1>9, HealthNoneAssumption, ApiReviewsAssumption, MadeByMembers DEF
     CommitRun, EndRun
<1>10. ASSUME NEW k \in Schedulers, AbortRun(k) PROVE Committed'
  BY <1>10, HealthNoneAssumption, ApiReviewsAssumption, MadeByMembers DEF
     AbortRun, EndRun
<1>11. ASSUME NEW k \in Schedulers, NEW s \in Services, SkipService(k, s)
   PROVE Committed'
  BY <1>11, HealthNoneAssumption, ApiReviewsAssumption, MadeByMembers DEF
     SkipService
<1>12. ASSUME NEW k \in Schedulers, NEW s \in Services, AmbiguousService(k,
   s) PROVE Committed'
  BY <1>12, HealthNoneAssumption, ApiReviewsAssumption, MadeByMembers DEF
     AmbiguousService
<1>13. ASSUME NEW k \in Schedulers, NEW s \in Services, NEW r \in Reviews,
   TriggerReview(k, s, r) PROVE Committed'
  BY <1>13, HealthNoneAssumption, ApiReviewsAssumption, MadeByMembers DEF
     TriggerReview
<1>14. ASSUME NEW w \in Workers, Receive(w) PROVE Committed'
  BY <1>14, HealthNoneAssumption, ApiReviewsAssumption, MadeByMembers DEF
     Receive
<1>15. ASSUME NEW w \in Workers, LoadReview(w) PROVE Committed'
  BY <1>15, HealthNoneAssumption, ApiReviewsAssumption, MadeByMembers DEF
     LoadReview
<1>16. ASSUME NEW w \in Workers, StartGeneration(w) PROVE Committed'
  BY <1>16, HealthNoneAssumption, ApiReviewsAssumption, MadeByMembers DEF
     StartGeneration
<1>17. ASSUME NEW w \in Workers, SaveResults(w) PROVE Committed'
  BY <1>17, HealthNoneAssumption, ApiReviewsAssumption, MadeByMembers DEF
     SaveResults
<1>18. ASSUME NEW w \in Workers, UpdateSchedule(w) PROVE Committed'
  BY <1>18, HealthNoneAssumption, ApiReviewsAssumption, MadeByMembers DEF
     UpdateSchedule
<1>19. ASSUME NEW w \in Workers, FailReview(w) PROVE Committed'
  BY <1>19, HealthNoneAssumption, ApiReviewsAssumption, MadeByMembers DEF
     FailReview
<1>20. ASSUME NEW w \in Workers, RecoveryFails(w) PROVE Committed'
  BY <1>20, HealthNoneAssumption, ApiReviewsAssumption, MadeByMembers DEF
     RecoveryFails
<1>21. ASSUME NEW w \in Workers, Ack(w) PROVE Committed'
  BY <1>21, HealthNoneAssumption, ApiReviewsAssumption, MadeByMembers DEF Ack
<1>22. ASSUME NEW w \in Workers, WorkerCrash(w) PROVE Committed'
  BY <1>22, HealthNoneAssumption, ApiReviewsAssumption, MadeByMembers DEF
     WorkerCrash
<1>23. CASE UNCHANGED vars
  BY <1>23
<1>24. QED
  BY <1>1, <1>2, <1>3, <1>4, <1>5, <1>6, <1>7, <1>8, <1>9, <1>10, <1>11,
     <1>12, <1>13, <1>14, <1>15, <1>16, <1>17, <1>18, <1>19, <1>20, <1>21,
     <1>22, <1>23 DEF Next, UserStep, SchedulerStep, ExamineService,
     WorkerStep

\* No step lets a schedule name a review that is not committed.
LEMMA LastReviewStep ==
    ASSUME TypeOK, Committed, LastReviewIsReal, [Next]_vars
    PROVE  LastReviewIsReal'
<1> USE DEF TypeOK, ReviewStatus, Stored, Active, Committed,
   LastReviewIsReal, vars, scheduleVars, reviewVars, runVars, workerVars
<1>1. ASSUME NEW s \in Services, WeekPasses(s) PROVE LastReviewIsReal'
  BY <1>1, HealthNoneAssumption, ApiReviewsAssumption, MadeByMembers DEF
     WeekPasses
<1>2. ASSUME NEW s \in Services, DeleteService(s) PROVE LastReviewIsReal'
  BY <1>2, HealthNoneAssumption, ApiReviewsAssumption, MadeByMembers DEF
     DeleteService
<1>3. ASSUME NEW s \in Services, NEW b \in BOOLEAN, UpdateReviewSchedule(s,
   b) PROVE LastReviewIsReal'
  BY <1>3, HealthNoneAssumption, ApiReviewsAssumption, MadeByMembers DEF
     UpdateReviewSchedule
<1>4. ASSUME NEW r \in Reviews, NEW s \in Services, NEW p \in Periods \union
   {Now}, CheckExisting(r, s, p) PROVE LastReviewIsReal'
  BY <1>4, HealthNoneAssumption, ApiReviewsAssumption, MadeByMembers DEF
     CheckExisting
<1>5. ASSUME NEW r \in Reviews, CreateReview(r) PROVE LastReviewIsReal'
  <2>1. /\ request[r] = "checked"
        /\ \/ /\ svc[r] \in services
              /\ review' = [review EXCEPT ![r] = "QUEUED"]
              /\ request' = [request EXCEPT ![r] = "stored"]
           \/ /\ request' = [request EXCEPT ![r] = "done"]
              /\ review' = review
        /\ UNCHANGED <<scheduleVars, svc, msg, runVars, workerVars, generations>>
    BY <1>5 DEF CreateReview
  <2>2. CASE review' = [review EXCEPT ![r] = "QUEUED"] /\ svc[r] \in services
    BY <2>1, <2>2, HealthNoneAssumption
  <2>3. CASE review' = review
    BY <2>1, <2>3, HealthNoneAssumption
  <2>4. QED
    BY <2>1, <2>2, <2>3
<1>6. ASSUME NEW r \in Reviews, PublishJob(r) PROVE LastReviewIsReal'
  BY <1>6, HealthNoneAssumption, ApiReviewsAssumption, MadeByMembers DEF
     PublishJob
<1>7. ASSUME NEW r \in Reviews, VisibilityExpires(r) PROVE LastReviewIsReal'
  BY <1>7, HealthNoneAssumption, ApiReviewsAssumption, MadeByMembers DEF
     VisibilityExpires, PreStart
<1>8. ASSUME NEW k \in Schedulers, StartRun(k) PROVE LastReviewIsReal'
  BY <1>8, HealthNoneAssumption, ApiReviewsAssumption, MadeByMembers DEF
     StartRun
<1>9. ASSUME NEW k \in Schedulers, CommitRun(k) PROVE LastReviewIsReal'
  BY <1>9, HealthNoneAssumption, ApiReviewsAssumption, MadeByMembers DEF
     CommitRun, EndRun
<1>10. ASSUME NEW k \in Schedulers, AbortRun(k) PROVE LastReviewIsReal'
  BY <1>10, HealthNoneAssumption, ApiReviewsAssumption, MadeByMembers DEF
     AbortRun, EndRun
<1>11. ASSUME NEW k \in Schedulers, NEW s \in Services, SkipService(k, s)
   PROVE LastReviewIsReal'
  BY <1>11, HealthNoneAssumption, ApiReviewsAssumption, MadeByMembers DEF
     SkipService
<1>12. ASSUME NEW k \in Schedulers, NEW s \in Services, AmbiguousService(k,
   s) PROVE LastReviewIsReal'
  BY <1>12, HealthNoneAssumption, ApiReviewsAssumption, MadeByMembers DEF
     AmbiguousService
<1>13. ASSUME NEW k \in Schedulers, NEW s \in Services, NEW r \in Reviews,
   TriggerReview(k, s, r) PROVE LastReviewIsReal'
  BY <1>13, HealthNoneAssumption, ApiReviewsAssumption, MadeByMembers DEF
     TriggerReview
<1>14. ASSUME NEW w \in Workers, Receive(w) PROVE LastReviewIsReal'
  BY <1>14, HealthNoneAssumption, ApiReviewsAssumption, MadeByMembers DEF
     Receive
<1>15. ASSUME NEW w \in Workers, LoadReview(w) PROVE LastReviewIsReal'
  BY <1>15, HealthNoneAssumption, ApiReviewsAssumption, MadeByMembers DEF
     LoadReview
<1>16. ASSUME NEW w \in Workers, StartGeneration(w) PROVE LastReviewIsReal'
  BY <1>16, HealthNoneAssumption, ApiReviewsAssumption, MadeByMembers DEF
     StartGeneration
<1>17. ASSUME NEW w \in Workers, SaveResults(w) PROVE LastReviewIsReal'
  BY <1>17, HealthNoneAssumption, ApiReviewsAssumption, MadeByMembers DEF
     SaveResults
<1>18. ASSUME NEW w \in Workers, UpdateSchedule(w) PROVE LastReviewIsReal'
  <2>1. /\ pc[w] = "schedule"
        /\ \/ /\ svc[on[w]] \in services
              /\ lastReview' = [lastReview EXCEPT ![svc[on[w]]] = on[w]]
           \/ lastReview' = lastReview
        /\ UNCHANGED <<services, reviewVars>>
    BY <1>18 DEF UpdateSchedule
  <2>2. CASE svc[on[w]] \in services
    BY <2>1, <2>2, HealthNoneAssumption
  <2>3. CASE lastReview' = lastReview
    BY <2>1, <2>3, HealthNoneAssumption
  <2>4. QED
    BY <2>1, <2>2, <2>3
<1>19. ASSUME NEW w \in Workers, FailReview(w) PROVE LastReviewIsReal'
  BY <1>19, HealthNoneAssumption, ApiReviewsAssumption, MadeByMembers DEF
     FailReview
<1>20. ASSUME NEW w \in Workers, RecoveryFails(w) PROVE LastReviewIsReal'
  BY <1>20, HealthNoneAssumption, ApiReviewsAssumption, MadeByMembers DEF
     RecoveryFails
<1>21. ASSUME NEW w \in Workers, Ack(w) PROVE LastReviewIsReal'
  BY <1>21, HealthNoneAssumption, ApiReviewsAssumption, MadeByMembers DEF Ack
<1>22. ASSUME NEW w \in Workers, WorkerCrash(w) PROVE LastReviewIsReal'
  BY <1>22, HealthNoneAssumption, ApiReviewsAssumption, MadeByMembers DEF
     WorkerCrash
<1>23. CASE UNCHANGED vars
  BY <1>23
<1>24. QED
  BY <1>1, <1>2, <1>3, <1>4, <1>5, <1>6, <1>7, <1>8, <1>9, <1>10, <1>11,
     <1>12, <1>13, <1>14, <1>15, <1>16, <1>17, <1>18, <1>19, <1>20, <1>21,
     <1>22, <1>23 DEF Next, UserStep, SchedulerStep, ExamineService,
     WorkerStep

\* No step gives a review to two workers that could start it.
LEMMA HeldStep ==
    ASSUME PromptStart, TypeOK, Committed, Held, [Next]_vars
    PROVE  Held'
<1> USE DEF TypeOK, ReviewStatus, Stored, Active, Committed, Held, PreStart,
   vars, scheduleVars, reviewVars, runVars, workerVars
<1>1. ASSUME NEW s \in Services, WeekPasses(s) PROVE Held'
  BY <1>1, HealthNoneAssumption, ApiReviewsAssumption, MadeByMembers DEF
     WeekPasses
<1>2. ASSUME NEW s \in Services, DeleteService(s) PROVE Held'
  BY <1>2, HealthNoneAssumption, ApiReviewsAssumption, MadeByMembers DEF
     DeleteService
<1>3. ASSUME NEW s \in Services, NEW b \in BOOLEAN, UpdateReviewSchedule(s,
   b) PROVE Held'
  BY <1>3, HealthNoneAssumption, ApiReviewsAssumption, MadeByMembers DEF
     UpdateReviewSchedule
<1>4. ASSUME NEW r \in Reviews, NEW s \in Services, NEW p \in Periods \union
   {Now}, CheckExisting(r, s, p) PROVE Held'
  BY <1>4, HealthNoneAssumption, ApiReviewsAssumption, MadeByMembers DEF
     CheckExisting
<1>5. ASSUME NEW r \in Reviews, CreateReview(r) PROVE Held'
  BY <1>5, HealthNoneAssumption, ApiReviewsAssumption, MadeByMembers DEF
     CreateReview
<1>6. ASSUME NEW r \in Reviews, PublishJob(r) PROVE Held'
  BY <1>6, HealthNoneAssumption, ApiReviewsAssumption, MadeByMembers DEF
     PublishJob
<1>7. ASSUME NEW r \in Reviews, VisibilityExpires(r) PROVE Held'
  BY <1>7, HealthNoneAssumption, ApiReviewsAssumption, MadeByMembers DEF
     VisibilityExpires, PreStart
<1>8. ASSUME NEW k \in Schedulers, StartRun(k) PROVE Held'
  BY <1>8, HealthNoneAssumption, ApiReviewsAssumption, MadeByMembers DEF
     StartRun
<1>9. ASSUME NEW k \in Schedulers, CommitRun(k) PROVE Held'
  BY <1>9, HealthNoneAssumption, ApiReviewsAssumption, MadeByMembers DEF
     CommitRun, EndRun
<1>10. ASSUME NEW k \in Schedulers, AbortRun(k) PROVE Held'
  BY <1>10, HealthNoneAssumption, ApiReviewsAssumption, MadeByMembers DEF
     AbortRun, EndRun
<1>11. ASSUME NEW k \in Schedulers, NEW s \in Services, SkipService(k, s)
   PROVE Held'
  BY <1>11, HealthNoneAssumption, ApiReviewsAssumption, MadeByMembers DEF
     SkipService
<1>12. ASSUME NEW k \in Schedulers, NEW s \in Services, AmbiguousService(k,
   s) PROVE Held'
  BY <1>12, HealthNoneAssumption, ApiReviewsAssumption, MadeByMembers DEF
     AmbiguousService
<1>13. ASSUME NEW k \in Schedulers, NEW s \in Services, NEW r \in Reviews,
   TriggerReview(k, s, r) PROVE Held'
  BY <1>13, HealthNoneAssumption, ApiReviewsAssumption, MadeByMembers DEF
     TriggerReview
<1>14. ASSUME NEW w \in Workers, Receive(w) PROVE Held'
  BY <1>14, HealthNoneAssumption, ApiReviewsAssumption, MadeByMembers DEF
     Receive
<1>15. ASSUME NEW w \in Workers, LoadReview(w) PROVE Held'
  BY <1>15, HealthNoneAssumption, ApiReviewsAssumption, MadeByMembers DEF
     LoadReview
<1>16. ASSUME NEW w \in Workers, StartGeneration(w) PROVE Held'
  BY <1>16, HealthNoneAssumption, ApiReviewsAssumption, MadeByMembers DEF
     StartGeneration
<1>17. ASSUME NEW w \in Workers, SaveResults(w) PROVE Held'
  BY <1>17, HealthNoneAssumption, ApiReviewsAssumption, MadeByMembers DEF
     SaveResults
<1>18. ASSUME NEW w \in Workers, UpdateSchedule(w) PROVE Held'
  BY <1>18, HealthNoneAssumption, ApiReviewsAssumption, MadeByMembers DEF
     UpdateSchedule
<1>19. ASSUME NEW w \in Workers, FailReview(w) PROVE Held'
  BY <1>19, HealthNoneAssumption, ApiReviewsAssumption, MadeByMembers DEF
     FailReview
<1>20. ASSUME NEW w \in Workers, RecoveryFails(w) PROVE Held'
  BY <1>20, HealthNoneAssumption, ApiReviewsAssumption, MadeByMembers DEF
     RecoveryFails
<1>21. ASSUME NEW w \in Workers, Ack(w) PROVE Held'
  BY <1>21, HealthNoneAssumption, ApiReviewsAssumption, MadeByMembers DEF Ack
<1>22. ASSUME NEW w \in Workers, WorkerCrash(w) PROVE Held'
  BY <1>22, HealthNoneAssumption, ApiReviewsAssumption, MadeByMembers DEF
     WorkerCrash
<1>23. CASE UNCHANGED vars
  BY <1>23
<1>24. QED
  BY <1>1, <1>2, <1>3, <1>4, <1>5, <1>6, <1>7, <1>8, <1>9, <1>10, <1>11,
     <1>12, <1>13, <1>14, <1>15, <1>16, <1>17, <1>18, <1>19, <1>20, <1>21,
     <1>22, <1>23 DEF Next, UserStep, SchedulerStep, ExamineService,
     WorkerStep

\* No step starts a review for the second time.
LEMMA StartedStep ==
    ASSUME TypeOK, Committed, Held, Started, [Next]_vars
    PROVE  Started'
<1> USE DEF TypeOK, ReviewStatus, Stored, Active, Committed, Held, Started,
   AtMostOneGeneration, PreStart, vars, scheduleVars, reviewVars, runVars,
   workerVars
<1>1. ASSUME NEW s \in Services, WeekPasses(s) PROVE Started'
  BY <1>1, HealthNoneAssumption, ApiReviewsAssumption, MadeByMembers DEF
     WeekPasses
<1>2. ASSUME NEW s \in Services, DeleteService(s) PROVE Started'
  BY <1>2, HealthNoneAssumption, ApiReviewsAssumption, MadeByMembers DEF
     DeleteService
<1>3. ASSUME NEW s \in Services, NEW b \in BOOLEAN, UpdateReviewSchedule(s,
   b) PROVE Started'
  BY <1>3, HealthNoneAssumption, ApiReviewsAssumption, MadeByMembers DEF
     UpdateReviewSchedule
<1>4. ASSUME NEW r \in Reviews, NEW s \in Services, NEW p \in Periods \union
   {Now}, CheckExisting(r, s, p) PROVE Started'
  BY <1>4, HealthNoneAssumption, ApiReviewsAssumption, MadeByMembers DEF
     CheckExisting
<1>5. ASSUME NEW r \in Reviews, CreateReview(r) PROVE Started'
  <2>1. /\ request[r] = "checked"
        /\ \/ /\ svc[r] \in services
              /\ review' = [review EXCEPT ![r] = "QUEUED"]
              /\ request' = [request EXCEPT ![r] = "stored"]
           \/ /\ request' = [request EXCEPT ![r] = "done"]
              /\ review' = review
        /\ UNCHANGED <<scheduleVars, svc, msg, runVars, workerVars, generations>>
    BY <1>5 DEF CreateReview
  <2>2. CASE review' = [review EXCEPT ![r] = "QUEUED"] /\ svc[r] \in services
    BY <2>1, <2>2, HealthNoneAssumption
  <2>3. CASE review' = review
    BY <2>1, <2>3, HealthNoneAssumption
  <2>4. QED
    BY <2>1, <2>2, <2>3
<1>6. ASSUME NEW r \in Reviews, PublishJob(r) PROVE Started'
  BY <1>6, HealthNoneAssumption, ApiReviewsAssumption, MadeByMembers DEF
     PublishJob
<1>7. ASSUME NEW r \in Reviews, VisibilityExpires(r) PROVE Started'
  BY <1>7, HealthNoneAssumption, ApiReviewsAssumption, MadeByMembers DEF
     VisibilityExpires, PreStart
<1>8. ASSUME NEW k \in Schedulers, StartRun(k) PROVE Started'
  BY <1>8, HealthNoneAssumption, ApiReviewsAssumption, MadeByMembers DEF
     StartRun
<1>9. ASSUME NEW k \in Schedulers, CommitRun(k) PROVE Started'
  BY <1>9, HealthNoneAssumption, ApiReviewsAssumption, MadeByMembers DEF
     CommitRun, EndRun
<1>10. ASSUME NEW k \in Schedulers, AbortRun(k) PROVE Started'
  BY <1>10, HealthNoneAssumption, ApiReviewsAssumption, MadeByMembers DEF
     AbortRun, EndRun
<1>11. ASSUME NEW k \in Schedulers, NEW s \in Services, SkipService(k, s)
   PROVE Started'
  BY <1>11, HealthNoneAssumption, ApiReviewsAssumption, MadeByMembers DEF
     SkipService
<1>12. ASSUME NEW k \in Schedulers, NEW s \in Services, AmbiguousService(k,
   s) PROVE Started'
  BY <1>12, HealthNoneAssumption, ApiReviewsAssumption, MadeByMembers DEF
     AmbiguousService
<1>13. ASSUME NEW k \in Schedulers, NEW s \in Services, NEW r \in Reviews,
   TriggerReview(k, s, r) PROVE Started'
  BY <1>13, HealthNoneAssumption, ApiReviewsAssumption, MadeByMembers DEF
     TriggerReview
<1>14. ASSUME NEW w \in Workers, Receive(w) PROVE Started'
  BY <1>14, HealthNoneAssumption, ApiReviewsAssumption, MadeByMembers DEF
     Receive
<1>15. ASSUME NEW w \in Workers, LoadReview(w) PROVE Started'
  BY <1>15, HealthNoneAssumption, ApiReviewsAssumption, MadeByMembers DEF
     LoadReview
<1>16. ASSUME NEW w \in Workers, StartGeneration(w) PROVE Started'
  BY <1>16, HealthNoneAssumption, ApiReviewsAssumption, MadeByMembers DEF
     StartGeneration
<1>17. ASSUME NEW w \in Workers, SaveResults(w) PROVE Started'
  BY <1>17, HealthNoneAssumption, ApiReviewsAssumption, MadeByMembers DEF
     SaveResults
<1>18. ASSUME NEW w \in Workers, UpdateSchedule(w) PROVE Started'
  BY <1>18, HealthNoneAssumption, ApiReviewsAssumption, MadeByMembers DEF
     UpdateSchedule
<1>19. ASSUME NEW w \in Workers, FailReview(w) PROVE Started'
  BY <1>19, HealthNoneAssumption, ApiReviewsAssumption, MadeByMembers DEF
     FailReview
<1>20. ASSUME NEW w \in Workers, RecoveryFails(w) PROVE Started'
  BY <1>20, HealthNoneAssumption, ApiReviewsAssumption, MadeByMembers DEF
     RecoveryFails
<1>21. ASSUME NEW w \in Workers, Ack(w) PROVE Started'
  BY <1>21, HealthNoneAssumption, ApiReviewsAssumption, MadeByMembers DEF Ack
<1>22. ASSUME NEW w \in Workers, WorkerCrash(w) PROVE Started'
  BY <1>22, HealthNoneAssumption, ApiReviewsAssumption, MadeByMembers DEF
     WorkerCrash
<1>23. CASE UNCHANGED vars
  BY <1>23
<1>24. QED
  BY <1>1, <1>2, <1>3, <1>4, <1>5, <1>6, <1>7, <1>8, <1>9, <1>10, <1>11,
     <1>12, <1>13, <1>14, <1>15, <1>16, <1>17, <1>18, <1>19, <1>20, <1>21,
     <1>22, <1>23 DEF Next, UserStep, SchedulerStep, ExamineService,
     WorkerStep

\* No step of the cron job adds a review beside one in progress.
LEMMA OverlapStep ==
    ASSUME CronOnly, TypeOK, Committed, Started, Alone, [Next]_vars
    PROVE  Alone'
<1> USE DEF TypeOK, ReviewStatus, Stored, Active, Committed, Started, Alone,
   NoOverlap, InProgress, CronOnly, vars, scheduleVars, reviewVars, runVars,
   workerVars
<1>1. ASSUME NEW s \in Services, WeekPasses(s) PROVE Alone'
  BY <1>1, HealthNoneAssumption, ApiReviewsAssumption, MadeByMembers DEF
     WeekPasses
<1>2. ASSUME NEW s \in Services, DeleteService(s) PROVE Alone'
  BY <1>2, HealthNoneAssumption, ApiReviewsAssumption, MadeByMembers DEF
     DeleteService
<1>3. ASSUME NEW s \in Services, NEW b \in BOOLEAN, UpdateReviewSchedule(s,
   b) PROVE Alone'
  BY <1>3, HealthNoneAssumption, ApiReviewsAssumption, MadeByMembers DEF
     UpdateReviewSchedule
<1>4. ASSUME NEW r \in Reviews, NEW s \in Services, NEW p \in Periods \union
   {Now}, CheckExisting(r, s, p) PROVE Alone'
  BY <1>4, HealthNoneAssumption, ApiReviewsAssumption, MadeByMembers DEF
     CheckExisting
<1>5. ASSUME NEW r \in Reviews, CreateReview(r) PROVE Alone'
  BY <1>5, HealthNoneAssumption, ApiReviewsAssumption, MadeByMembers DEF
     CreateReview
<1>6. ASSUME NEW r \in Reviews, PublishJob(r) PROVE Alone'
  BY <1>6, HealthNoneAssumption, ApiReviewsAssumption, MadeByMembers DEF
     PublishJob
<1>7. ASSUME NEW r \in Reviews, VisibilityExpires(r) PROVE Alone'
  BY <1>7, HealthNoneAssumption, ApiReviewsAssumption, MadeByMembers DEF
     VisibilityExpires, PreStart
<1>8. ASSUME NEW k \in Schedulers, StartRun(k) PROVE Alone'
  BY <1>8, HealthNoneAssumption, ApiReviewsAssumption, MadeByMembers DEF
     StartRun
<1>9. ASSUME NEW k \in Schedulers, CommitRun(k) PROVE Alone'
  BY <1>9, HealthNoneAssumption, ApiReviewsAssumption, MadeByMembers DEF
     CommitRun, EndRun
<1>10. ASSUME NEW k \in Schedulers, AbortRun(k) PROVE Alone'
  BY <1>10, HealthNoneAssumption, ApiReviewsAssumption, MadeByMembers DEF
     AbortRun, EndRun
<1>11. ASSUME NEW k \in Schedulers, NEW s \in Services, SkipService(k, s)
   PROVE Alone'
  BY <1>11, HealthNoneAssumption, ApiReviewsAssumption, MadeByMembers DEF
     SkipService
<1>12. ASSUME NEW k \in Schedulers, NEW s \in Services, AmbiguousService(k,
   s) PROVE Alone'
  BY <1>12, HealthNoneAssumption, ApiReviewsAssumption, MadeByMembers DEF
     AmbiguousService
<1>13. ASSUME NEW k \in Schedulers, NEW s \in Services, NEW r \in Reviews,
   TriggerReview(k, s, r) PROVE Alone'
  BY <1>13, HealthNoneAssumption, ApiReviewsAssumption, MadeByMembers DEF
     TriggerReview
<1>14. ASSUME NEW w \in Workers, Receive(w) PROVE Alone'
  BY <1>14, HealthNoneAssumption, ApiReviewsAssumption, MadeByMembers DEF
     Receive
<1>15. ASSUME NEW w \in Workers, LoadReview(w) PROVE Alone'
  BY <1>15, HealthNoneAssumption, ApiReviewsAssumption, MadeByMembers DEF
     LoadReview
<1>16. ASSUME NEW w \in Workers, StartGeneration(w) PROVE Alone'
  BY <1>16, HealthNoneAssumption, ApiReviewsAssumption, MadeByMembers DEF
     StartGeneration
<1>17. ASSUME NEW w \in Workers, SaveResults(w) PROVE Alone'
  BY <1>17, HealthNoneAssumption, ApiReviewsAssumption, MadeByMembers DEF
     SaveResults
<1>18. ASSUME NEW w \in Workers, UpdateSchedule(w) PROVE Alone'
  BY <1>18, HealthNoneAssumption, ApiReviewsAssumption, MadeByMembers DEF
     UpdateSchedule
<1>19. ASSUME NEW w \in Workers, FailReview(w) PROVE Alone'
  BY <1>19, HealthNoneAssumption, ApiReviewsAssumption, MadeByMembers DEF
     FailReview
<1>20. ASSUME NEW w \in Workers, RecoveryFails(w) PROVE Alone'
  BY <1>20, HealthNoneAssumption, ApiReviewsAssumption, MadeByMembers DEF
     RecoveryFails
<1>21. ASSUME NEW w \in Workers, Ack(w) PROVE Alone'
  BY <1>21, HealthNoneAssumption, ApiReviewsAssumption, MadeByMembers DEF Ack
<1>22. ASSUME NEW w \in Workers, WorkerCrash(w) PROVE Alone'
  BY <1>22, HealthNoneAssumption, ApiReviewsAssumption, MadeByMembers DEF
     WorkerCrash
<1>23. CASE UNCHANGED vars
  BY <1>23
<1>24. QED
  BY <1>1, <1>2, <1>3, <1>4, <1>5, <1>6, <1>7, <1>8, <1>9, <1>10, <1>11,
     <1>12, <1>13, <1>14, <1>15, <1>16, <1>17, <1>18, <1>19, <1>20, <1>21,
     <1>22, <1>23 DEF Next, UserStep, SchedulerStep, ExamineService,
     WorkerStep

\* Every step keeps them.
LEMMA KeptStep ==
    ASSUME TypeOK, Committed, Started, Kept, [Next]_vars
    PROVE  Kept'
<1> USE DEF TypeOK, ReviewStatus, Stored, Active, Committed, Started, Kept, vars, scheduleVars,
   reviewVars, runVars, workerVars
<1>1. ASSUME NEW s \in Services, WeekPasses(s) PROVE Kept'
  BY <1>1, HealthNoneAssumption DEF WeekPasses
<1>2. ASSUME NEW s \in Services, DeleteService(s) PROVE Kept'
  BY <1>2, HealthNoneAssumption DEF DeleteService, Unlocked
<1>3. ASSUME NEW s \in Services, NEW b \in BOOLEAN, UpdateReviewSchedule(s, b) PROVE Kept'
  BY <1>3, HealthNoneAssumption DEF UpdateReviewSchedule
<1>4. ASSUME NEW r \in Reviews, NEW s \in Services, NEW p \in Periods \union {Now}, CheckExisting(r, s, p) PROVE Kept'
  BY <1>4, HealthNoneAssumption DEF CheckExisting
<1>5. ASSUME NEW r \in Reviews, CreateReview(r) PROVE Kept'
  <2>1. review[r] = "absent"
    BY <1>5 DEF CreateReview
  <2>2. \A q \in Reviews : review'[q] # review[q] => q = r /\ review'[q] = "QUEUED"
    <3>1. review' = [review EXCEPT ![r] = "QUEUED"] \/ review' = review
      BY <1>5 DEF CreateReview
    <3>2. CASE review' = [review EXCEPT ![r] = "QUEUED"]
      BY <3>2
    <3>3. CASE review' = review
      BY <3>3
    <3> QED
      BY <3>1, <3>2, <3>3
  <2>3. UNCHANGED <<services, made, moved, svc, pc, on, generations>>
    BY <1>5 DEF CreateReview
  <2>4. \A q \in Reviews : review'[q] = "deleted" => review[q] = "deleted"
    BY <2>2
  <2>5. ASSUME NEW w \in Workers, pc[w] = "schedule"
        PROVE  review'[on[w]] \in {"COMPLETED", "FAILED", "deleted"}
    <3>1. on[w] \in Reviews /\ review[on[w]] \in {"COMPLETED", "FAILED", "deleted"}
      BY <2>5
    <3> QED
      BY <2>1, <2>2, <3>1
  <2>6. \A k \in Schedulers, s \in Services :
           made'[k][s] # None => s \in services' /\ s \in moved'[k]
    BY <2>3
  <2> QED
    BY <2>3, <2>4, <2>5, <2>6
<1>6. ASSUME NEW r \in Reviews, PublishJob(r) PROVE Kept'
  BY <1>6, HealthNoneAssumption DEF PublishJob
<1>7. ASSUME NEW r \in Reviews, VisibilityExpires(r) PROVE Kept'
  BY <1>7, HealthNoneAssumption DEF VisibilityExpires
<1>8. ASSUME NEW k \in Schedulers, StartRun(k) PROVE Kept'
  BY <1>8, HealthNoneAssumption DEF StartRun
<1>9. ASSUME NEW k \in Schedulers, CommitRun(k) PROVE Kept'
  BY <1>9, HealthNoneAssumption DEF CommitRun, EndRun, MadeBy
<1>10. ASSUME NEW k \in Schedulers, AbortRun(k) PROVE Kept'
  BY <1>10, HealthNoneAssumption DEF AbortRun, EndRun, MadeBy
<1>11. ASSUME NEW k \in Schedulers, NEW s \in Services, SkipService(k, s) PROVE Kept'
  BY <1>11, HealthNoneAssumption DEF SkipService
<1>12. ASSUME NEW k \in Schedulers, NEW s \in Services, NEW r \in Reviews, TriggerReview(k, s, r) PROVE Kept'
  BY <1>12, HealthNoneAssumption DEF TriggerReview
<1>13. ASSUME NEW k \in Schedulers, NEW s \in Services, AmbiguousService(k, s) PROVE Kept'
  BY <1>13, HealthNoneAssumption DEF AmbiguousService
<1>14. ASSUME NEW w \in Workers, Receive(w) PROVE Kept'
  BY <1>14, HealthNoneAssumption DEF Receive
<1>15. ASSUME NEW w \in Workers, LoadReview(w) PROVE Kept'
  BY <1>15, HealthNoneAssumption DEF LoadReview
<1>16. ASSUME NEW w \in Workers, StartGeneration(w) PROVE Kept'
  BY <1>16, HealthNoneAssumption DEF StartGeneration
<1>17. ASSUME NEW w \in Workers, SaveResults(w) PROVE Kept'
  BY <1>17, HealthNoneAssumption DEF SaveResults
<1>18. ASSUME NEW w \in Workers, UpdateSchedule(w) PROVE Kept'
  BY <1>18, HealthNoneAssumption DEF UpdateSchedule, Unlocked
<1>19. ASSUME NEW w \in Workers, FailReview(w) PROVE Kept'
  BY <1>19, HealthNoneAssumption DEF FailReview
<1>20. ASSUME NEW w \in Workers, RecoveryFails(w) PROVE Kept'
  BY <1>20, HealthNoneAssumption DEF RecoveryFails
<1>21. ASSUME NEW w \in Workers, Ack(w) PROVE Kept'
  BY <1>21, HealthNoneAssumption DEF Ack
<1>22. ASSUME NEW w \in Workers, WorkerCrash(w) PROVE Kept'
  BY <1>22, HealthNoneAssumption DEF WorkerCrash
<1>23. CASE UNCHANGED vars
  BY <1>23
<1> QED
  BY <1>1, <1>2, <1>3, <1>4, <1>5, <1>6, <1>7, <1>8, <1>9, <1>10, <1>11, <1>12, <1>13,
     <1>14, <1>15, <1>16, <1>17, <1>18, <1>19, <1>20, <1>21, <1>22, <1>23 DEF Next,
     UserStep, SchedulerStep, ExamineService, WorkerStep

-----------------------------------------------------------------------------
(* What is promised. *)

\* A step that changes nothing of what is promised.
LEMMA Unnoticed ==
    ASSUME UNCHANGED <<services, review, svc, lastReview, generations>>
    PROVE  UNCHANGED Promise!vars
BY DEF Promise!vars, Seen

\* Nor do the services of reviews that nobody can see.
LEMMA NotSeenYet ==
    ASSUME UNCHANGED <<services, lastReview, generations>>,
           \A r \in Reviews : Seen(r)' <=> Seen(r),
           \A r \in Reviews : Seen(r) => review'[r] = review[r] /\ svc'[r] = svc[r]
    PROVE  UNCHANGED Promise!vars
<1>1. \A r \in Reviews : (IF Seen(r) THEN review[r] ELSE "absent")'
                           = IF Seen(r) THEN review[r] ELSE "absent"
  OBVIOUS
<1>2. \A r \in Reviews : (IF Seen(r) THEN svc[r] ELSE None)' = IF Seen(r) THEN svc[r] ELSE None
  OBVIOUS
<1> QED
  BY <1>1, <1>2 DEF Promise!vars

\* A worker that sets a review it can see.
LEMMA SeenStays ==
    ASSUME TypeOK, NEW w \in Workers, on[w] \in Reviews, NEW to \in Stored,
           review[on[w]] \in Stored, review' = [review EXCEPT ![on[w]] = to], UNCHANGED svc
    PROVE  /\ [r \in Reviews |-> IF Seen(r) THEN review[r] ELSE "absent"]'
                = [[r \in Reviews |-> IF Seen(r) THEN review[r] ELSE "absent"]
                     EXCEPT ![on[w]] = to]
           /\ [r \in Reviews |-> IF Seen(r) THEN svc[r] ELSE None]'
                = [r \in Reviews |-> IF Seen(r) THEN svc[r] ELSE None]
<1>1. \A r \in Reviews : Seen(r)' <=> Seen(r)
  BY DEF Seen, TypeOK
<1>2. \A r \in Reviews : review'[r] = IF r = on[w] THEN to ELSE review[r]
  BY DEF TypeOK
<1>3. Seen(on[w])
  BY DEF Seen
<1> QED
  BY <1>1, <1>2, <1>3

\* Reviews that are stored together, of services that are there.
LEMMA StoredTogether ==
    ASSUME NEW new \in SUBSET Reviews, NEW where \in [new -> Services],
           NEW named \in [Services -> new \union {None}],
           \A r \in new : ~Seen(r) /\ svc[r] \in services /\ where[r] = svc[r],
           \A s \in Services : named[s] # None => where[named[s]] = s,
           \A r \in Reviews : review'[r] = IF r \in new THEN "QUEUED" ELSE review[r],
           lastReview' = [s \in Services |-> IF named[s] = None THEN lastReview[s] ELSE named[s]],
           UNCHANGED <<services, svc, generations>>
    PROVE  Promise!Next
<1>1. \A r \in Reviews : Seen(r)' <=> r \in new \/ Seen(r)
  BY DEF Seen, Stored
<1>2. \A r \in Reviews : (IF Seen(r) THEN review[r] ELSE "absent")'
                           = IF r \in new THEN "QUEUED" ELSE IF Seen(r) THEN review[r] ELSE "absent"
  BY <1>1
<1>3. \A r \in Reviews : (IF Seen(r) THEN svc[r] ELSE None)'
                           = IF r \in new THEN where[r] ELSE IF Seen(r) THEN svc[r] ELSE None
  BY <1>1
<1>4. Promise!Store(new, where, named)
  BY <1>2, <1>3 DEF Promise!Store
<1> QED
  BY <1>4 DEF Promise!Next

\* Every step is one that is promised, or none.
LEMMA PromiseStep ==
    ASSUME IInv, Kept, [Next]_vars
    PROVE  [Promise!Next]_(Promise!vars)
<1> DEFINE Promised == [Promise!Next]_(Promise!vars)
<1>1. ASSUME NEW s \in Services, WeekPasses(s) PROVE Promised
  BY <1>1, Unnoticed DEF WeekPasses, scheduleVars, reviewVars
<1>2. ASSUME NEW s \in Services, DeleteService(s) PROVE Promised
  <2>1. \A r \in Reviews : (IF Seen(r) THEN review[r] ELSE "absent")'
                             = IF (IF Seen(r) THEN svc[r] ELSE None) = s THEN "deleted"
                               ELSE IF Seen(r) THEN review[r] ELSE "absent"
    BY <1>2, HealthNoneAssumption DEF DeleteService, Seen, Stored, IInv, TypeOK, Kept
  <2>2. \A r \in Reviews : Seen(r)' <=> Seen(r)
    BY <1>2 DEF DeleteService, Seen, Stored, IInv, TypeOK
  <2>3. UNCHANGED <<svc, lastReview, generations>> /\ s \in services /\ services' = services \ {s}
    BY <1>2 DEF DeleteService
  <2>4. Promise!Forget(s)
    BY <2>1, <2>2, <2>3 DEF Promise!Forget
  <2> QED
    BY <2>4 DEF Promise!Next
<1>3. ASSUME NEW s \in Services, NEW b \in BOOLEAN, UpdateReviewSchedule(s, b) PROVE Promised
  BY <1>3, Unnoticed DEF UpdateReviewSchedule, scheduleVars, reviewVars
<1>4. ASSUME NEW r \in Reviews, NEW s \in Services,
             NEW p \in Periods \union {Now}, CheckExisting(r, s, p) PROVE Promised
  <2>1. review[r] = "absent" /\ ~Seen(r)
    BY <1>4 DEF CheckExisting, IInv, Committed, Seen, Stored
  <2>2. UNCHANGED <<services, review, lastReview, generations>>
    BY <1>4 DEF CheckExisting, scheduleVars
  <2>3. \A q \in Reviews : q # r => svc'[q] = svc[q]
    BY <1>4 DEF CheckExisting, IInv, TypeOK
  <2> QED
    BY <2>1, <2>2, <2>3, NotSeenYet DEF Seen
<1>5. ASSUME NEW r \in Reviews, CreateReview(r) PROVE Promised
  <2>1. CASE svc[r] \in services
              /\ \A q \in SamePeriod(svc[r], period[r]) : review[q] \notin Stored
    <3>1. /\ review' = [review EXCEPT ![r] = "QUEUED"]
          /\ UNCHANGED <<services, svc, lastReview, generations>>
      BY <1>5, <2>1 DEF CreateReview, scheduleVars
    <3>2. ~Seen(r)
      BY <1>5 DEF CreateReview, IInv, Committed, Seen, Stored
    <3>3. PICK where \in [{r} -> Services] : where[r] = svc[r]
      <4>1. svc[r] \in Services
        BY <2>1 DEF IInv, TypeOK
      <4>2. [q \in {r} |-> svc[r]] \in [{r} -> Services]
        BY <4>1
      <4> QED
        BY <4>2
    <3>4. PICK named \in [Services -> {r} \union {None}] : \A s \in Services : named[s] = None
      <4>1. [s \in Services |-> None] \in [Services -> {r} \union {None}]
        OBVIOUS
      <4> QED
        BY <4>1
    <3>5. lastReview' = [s \in Services |-> IF named[s] = None THEN lastReview[s] ELSE named[s]]
      BY <3>1, <3>4 DEF IInv, TypeOK
    <3>6. \A q \in Reviews : review'[q] = IF q \in {r} THEN "QUEUED" ELSE review[q]
      BY <3>1 DEF IInv, TypeOK
    <3> QED
      BY <2>1, <3>1, <3>2, <3>3, <3>4, <3>5, <3>6, StoredTogether
  <2>2. CASE ~(svc[r] \in services
               /\ \A q \in SamePeriod(svc[r], period[r]) : review[q] \notin Stored)
    BY <1>5, <2>2, Unnoticed DEF CreateReview, scheduleVars
  <2> QED
    BY <2>1, <2>2
<1>6. ASSUME NEW r \in Reviews, PublishJob(r) PROVE Promised
  BY <1>6, Unnoticed DEF PublishJob, scheduleVars, reviewVars
<1>7. ASSUME NEW r \in Reviews, VisibilityExpires(r) PROVE Promised
  BY <1>7, Unnoticed DEF VisibilityExpires, scheduleVars, reviewVars
<1>8. ASSUME NEW k \in Schedulers, StartRun(k) PROVE Promised
  BY <1>8, Unnoticed DEF StartRun, scheduleVars, reviewVars
<1>9. ASSUME NEW k \in Schedulers, CommitRun(k) PROVE Promised
  <2>1. PICK new : new = MadeBy(k)
    OBVIOUS
  <2>2. ASSUME NEW r \in new
        PROVE  r \in Reviews /\ ~Seen(r) /\ svc[r] \in services
    <3>1. PICK s \in Services : made[k][s] = r /\ r # None
      BY <2>1, MadeByMembers
    <3>2. r \in Reviews
      BY <3>1 DEF IInv, TypeOK
    <3> QED
      BY <3>1, <3>2 DEF IInv, Committed, Kept, Seen, Stored
  <2>3. /\ review' = [r \in Reviews |-> IF r \in new THEN "QUEUED" ELSE review[r]]
        /\ lastReview' = [s \in Services |-> IF s \in sent[k] THEN made[k][s] ELSE lastReview[s]]
        /\ UNCHANGED <<services, svc, generations>>
    BY <1>9, <2>1 DEF CommitRun
  <2>4. \A s \in Services : s \in sent[k]
           => made[k][s] # None /\ made[k][s] \in new /\ svc[made[k][s]] = s
    BY <2>1, MadeByMembers DEF IInv, Committed
  <2>5. PICK where : where = [r \in new |-> svc[r]]
    OBVIOUS
  <2>6. PICK named : named = [s \in Services |-> IF s \in sent[k] THEN made[k][s] ELSE None]
    OBVIOUS
  <2>7. where \in [new -> Services]
    <3>1. services \subseteq Services
      BY DEF IInv, TypeOK
    <3> QED
      BY <2>2, <2>5, <3>1
  <2>8. /\ named \in [Services -> new \union {None}]
        /\ \A s \in Services : named[s] # None => where[named[s]] = s
    BY <2>4, <2>5, <2>6
  <2>9. lastReview' = [s \in Services |-> IF named[s] = None THEN lastReview[s] ELSE named[s]]
    BY <2>3, <2>4, <2>6
  <2>10. \A r \in new : ~Seen(r) /\ svc[r] \in services /\ where[r] = svc[r]
    BY <2>2, <2>5
  <2>11. new \in SUBSET Reviews /\ \A r \in Reviews : review'[r] = IF r \in new THEN "QUEUED" ELSE review[r]
    BY <2>2, <2>3
  <2> QED
    BY <2>3, <2>7, <2>8, <2>9, <2>10, <2>11, StoredTogether
<1>10. ASSUME NEW k \in Schedulers, AbortRun(k) PROVE Promised
  <2>1. \A r \in MadeBy(k) : review[r] = "uncommitted"
    BY <1>10, MadeByMembers DEF IInv, Committed
  <2>2. \A r \in Reviews : review'[r] = IF r \in MadeBy(k) THEN "undone" ELSE review[r]
    BY <1>10 DEF AbortRun
  <2>3. \A r \in Reviews : (Seen(r)' <=> Seen(r)) /\ (Seen(r) => review'[r] = review[r])
    BY <2>1, <2>2 DEF Seen, Stored
  <2> QED
    BY <1>10, <2>3, NotSeenYet DEF AbortRun, scheduleVars
<1>11. ASSUME NEW k \in Schedulers, NEW s \in Services, SkipService(k, s) PROVE Promised
  BY <1>11, Unnoticed DEF SkipService, scheduleVars, reviewVars
<1>12. ASSUME NEW k \in Schedulers, NEW s \in Services, NEW r \in Reviews, TriggerReview(k, s, r) PROVE Promised
  <2>1. review[r] = "absent" /\ ~Seen(r) /\ r \in Reviews
    BY <1>12 DEF TriggerReview, Seen, Stored
  <2>2. UNCHANGED <<services, lastReview, generations>>
    BY <1>12 DEF TriggerReview, scheduleVars
  <2>3. \A q \in Reviews : /\ q # r => svc'[q] = svc[q] /\ review'[q] = review[q]
                           /\ review'[r] = "uncommitted"
    BY <1>12 DEF TriggerReview, IInv, TypeOK
  <2>4. \A q \in Reviews : Seen(q)' <=> Seen(q)
    BY <2>1, <2>3 DEF Seen, Stored
  <2> QED
    BY <2>1, <2>2, <2>3, <2>4, NotSeenYet
<1>13. ASSUME NEW k \in Schedulers, NEW s \in Services, AmbiguousService(k, s) PROVE Promised
  BY <1>13, Unnoticed DEF AmbiguousService, scheduleVars, reviewVars
<1>14. ASSUME NEW w \in Workers, Receive(w) PROVE Promised
  BY <1>14, Unnoticed DEF Receive, scheduleVars, reviewVars
<1>15. ASSUME NEW w \in Workers, LoadReview(w) PROVE Promised
  BY <1>15, Unnoticed DEF LoadReview, scheduleVars, reviewVars
<1>16. ASSUME NEW w \in Workers, StartGeneration(w) PROVE Promised
  <2>1. on[w] \in Reviews /\ review[on[w]] = "QUEUED" /\ generations[on[w]] = 0
    BY <1>16 DEF StartGeneration, IInv, TypeOK, Started, Stored
  <2>2. /\ review' = [review EXCEPT ![on[w]] = "GENERATING"]
        /\ generations' = [generations EXCEPT ![on[w]] = 1]
        /\ UNCHANGED <<services, svc, lastReview>>
    BY <1>16, <2>1 DEF StartGeneration, scheduleVars, IInv, TypeOK
  <2>3. Promise!Start(on[w])
    BY <2>1, <2>2, SeenStays DEF IInv, Promise!Start, Stored, Seen
  <2> QED
    BY <2>1, <2>3 DEF Promise!Next, Promise!Start
<1>17. ASSUME NEW w \in Workers, SaveResults(w) PROVE Promised
  <2>1. on[w] \in Reviews /\ review[on[w]] \in Stored \ {"QUEUED"} /\ generations[on[w]] = 1
    BY <1>17 DEF SaveResults, IInv, TypeOK, Started, Kept, Stored
  <2>2. /\ review' = [review EXCEPT ![on[w]] = "COMPLETED"]
        /\ UNCHANGED <<services, svc, lastReview, generations>>
    BY <1>17 DEF SaveResults, scheduleVars
  <2>3. CASE review[on[w]] = "COMPLETED"
    <3>1. review' = review
      BY <2>1, <2>2, <2>3 DEF IInv, TypeOK
    <3> QED
      BY <2>2, <3>1, Unnoticed
  <2>4. CASE review[on[w]] \in {"GENERATING", "FAILED"}
    <3>1. Promise!Finish(on[w])
      BY <2>1, <2>2, <2>4, SeenStays DEF IInv, Promise!Finish, Stored, Seen
    <3> QED
      BY <2>1, <3>1 DEF Promise!Next, Promise!Finish
  <2> QED
    BY <2>1, <2>3, <2>4 DEF Stored
<1>18. ASSUME NEW w \in Workers, UpdateSchedule(w) PROVE Promised
  <2>1. /\ on[w] \in Reviews /\ review[on[w]] \in {"COMPLETED", "FAILED", "deleted"}
        /\ generations[on[w]] = 1
    BY <1>18 DEF UpdateSchedule, IInv, TypeOK, Kept
  <2>2. UNCHANGED <<services, review, svc, generations>>
    BY <1>18 DEF UpdateSchedule, reviewVars
  <2>3. CASE svc[on[w]] \in services
    <3>1. review[on[w]] \in {"COMPLETED", "FAILED"} /\ svc[on[w]] \in Services /\ Seen(on[w])
      BY <2>1, <2>3 DEF Kept, Seen, Stored, IInv, TypeOK
    <3>2. lastReview' = [lastReview EXCEPT ![svc[on[w]]] = on[w]]
      BY <1>18, <2>3 DEF UpdateSchedule
    <3>3. Promise!Report(svc[on[w]], on[w])
      BY <2>1, <2>2, <2>3, <3>1, <3>2 DEF Promise!Report, Seen
    <3> QED
      BY <2>1, <3>1, <3>3 DEF Promise!Next
  <2>4. CASE svc[on[w]] \notin services
    BY <1>18, <2>2, <2>4, Unnoticed DEF UpdateSchedule
  <2> QED
    BY <2>3, <2>4
<1>19. ASSUME NEW w \in Workers, FailReview(w) PROVE Promised
  <2>1. on[w] \in Reviews /\ review[on[w]] \in Stored
    BY <1>19 DEF FailReview, IInv, TypeOK
  <2>2. /\ review' = [review EXCEPT ![on[w]] = "FAILED"]
        /\ UNCHANGED <<services, svc, lastReview, generations>>
    BY <1>19 DEF FailReview, scheduleVars
  <2>3. CASE review[on[w]] = "FAILED"
    <3>1. review' = review
      BY <2>1, <2>2, <2>3 DEF IInv, TypeOK
    <3> QED
      BY <2>2, <3>1, Unnoticed
  <2>4. CASE review[on[w]] \in {"QUEUED", "GENERATING", "COMPLETED"}
    <3>1. Promise!Fail(on[w])
      BY <2>1, <2>2, <2>4, SeenStays DEF IInv, Promise!Fail, Stored, Seen
    <3> QED
      BY <2>1, <3>1 DEF Promise!Next, Promise!Fail
  <2> QED
    BY <2>1, <2>3, <2>4 DEF Stored
<1>20. ASSUME NEW w \in Workers, RecoveryFails(w) PROVE Promised
  BY <1>20, Unnoticed DEF RecoveryFails, scheduleVars, reviewVars
<1>21. ASSUME NEW w \in Workers, Ack(w) PROVE Promised
  BY <1>21, Unnoticed DEF Ack, scheduleVars, reviewVars
<1>22. ASSUME NEW w \in Workers, WorkerCrash(w) PROVE Promised
  BY <1>22, Unnoticed DEF WorkerCrash, scheduleVars, reviewVars
<1>23. CASE UNCHANGED vars
  BY <1>23, Unnoticed DEF vars
<1> QED
  BY <1>1, <1>2, <1>3, <1>4, <1>5, <1>6, <1>7, <1>8, <1>9, <1>10, <1>11, <1>12, <1>13,
     <1>14, <1>15, <1>16, <1>17, <1>18, <1>19, <1>20, <1>21, <1>22, <1>23 DEF Next,
     UserStep, SchedulerStep, ExamineService, WorkerStep

-----------------------------------------------------------------------------
(* Theorems. *)

\* The invariants hold at the start.
LEMMA InitInv == Init => IInv /\ LastReviewIsReal /\ Alone /\ Kept
BY HealthNoneAssumption, ApiReviewsAssumption
DEF Init, IInv, TypeOK, ReviewStatus, Committed, Held, PreStart, Started, Kept,
    AtMostOneGeneration, LastReviewIsReal, Alone, NoOverlap, InProgress, Active

\* The variables hold what the tables, the queue and the tasks can hold, however
\* services disappear and transactions roll back under the workers.
THEOREM TypeCorrect == Spec => []TypeOK
<1>1. Init => TypeOK
  BY InitInv DEF IInv
<1>2. TypeOK /\ [Next]_vars => TypeOK'
  BY TypeStep
<1>3. QED
  BY <1>1, <1>2, PTL DEF Spec

\* A schedule only ever names a committed review of its own service, with any
\* number of overlapping cron calls, user requests and workers, and even if SQS
\* gives a message to several workers at once.
THEOREM LastReviewTheorem == Spec => []LastReviewIsReal
<1> DEFINE LInv == TypeOK /\ Committed /\ LastReviewIsReal
<1>1. Init => LInv
  BY InitInv DEF IInv
<1>2. LInv /\ [Next]_vars => LInv'
  BY TypeStep, CommittedStep, LastReviewStep
<1>3. QED
  BY <1>1, <1>2, PTL DEF Spec

\* If a message stays hidden until its receiver has written GENERATING, every
\* review is generated once at most.
THEOREM AtMostOneGenerationTheorem ==
    ASSUME PromptStart PROVE Spec => []AtMostOneGeneration
<1>1. Init => IInv
  BY InitInv
<1>2. IInv /\ [Next]_vars => IInv'
  BY TypeStep, CommittedStep, HeldStep, StartedStep, PromptStart DEF IInv
<1>3. IInv => AtMostOneGeneration
  BY DEF IInv, Started
<1>4. QED
  BY <1>1, <1>2, <1>3, PTL DEF Spec

\* Under the same assumption, and without user requests and overlapping cron
\* calls, no service ever has two reviews in progress.
THEOREM NoOverlapTheorem ==
    ASSUME PromptStart, CronOnly PROVE Spec => []NoOverlap
<1>1. Init => IInv /\ Alone
  BY InitInv
<1>2. IInv /\ Alone /\ [Next]_vars => (IInv /\ Alone)'
  BY TypeStep, CommittedStep, HeldStep, StartedStep, OverlapStep, PromptStart,
     CronOnly DEF IInv
<1>3. Alone => NoOverlap
  BY DEF Alone
<1>4. QED
  BY <1>1, <1>2, <1>3, PTL DEF Spec

\* Under the same assumption the scheduler, the requests, the queue and the workers
\* together keep what is promised of a review: what is published too early is of no
\* use to anybody, a rolled back review was never there, a generation starts once, and
\* a schedule names what was stored with it or what has ended.
THEOREM KeepsReviewPromiseTheorem ==
    ASSUME PromptStart PROVE Spec => KeepsReviewPromise
<1>1. Init => IInv /\ Kept
  BY InitInv
<1>2. IInv /\ Kept /\ [Next]_vars => (IInv /\ Kept)'
  BY TypeStep, CommittedStep, HeldStep, StartedStep, KeptStep, PromptStart DEF IInv
<1>3. Init => Promise!Init
  BY DEF Init, Promise!Init, Seen, Stored
<1>4. IInv /\ Kept /\ [Next]_vars => [Promise!Next]_(Promise!vars)
  BY PromiseStep
<1>5. QED
  BY <1>1, <1>2, <1>3, <1>4, PTL DEF Spec, KeepsReviewPromise, Promise!Spec
==============================================================================
