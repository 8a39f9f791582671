---------------------------- MODULE RcaJobsProofs ----------------------------
(***************************************************************************)
(* Proofs about RcaJobs, for any number of turns and workers.              *)
(***************************************************************************)
EXTENDS RcaJobs, TLAPS

\* A job exists exactly when its turn was created, is not sent earlier, and is
\* held only once it was sent.
Created ==
    /\ \A t \in Turns :
        /\ api[t] = "new" <=> job[t] = "absent"
        /\ api[t] = "new" <=> turn[t] = "absent"
        /\ api[t] \in {"new", "committed"} => msg[t] = "unsent"
        /\ stream[t] # "closed" => api[t] # "new"
    /\ \A w \in Workers : on[w] # None => msg[on[w]] # "unsent"

\* While a worker has not claimed its job nobody else is given the message.
Held ==
    /\ \A w \in Workers : PreClaim(w) => msg[on[w]] \in {"hidden", "deleted"}
    /\ \A v, w \in Workers :
           PreClaim(v) /\ PreClaim(w) /\ v # w => on[v] # on[w]

\* A job that is still QUEUED, or is about to be claimed, was never claimed.
Claimed ==
    /\ \A w \in Workers : pc[w] = "claim" => claims[on[w]] = 0
    /\ \A w \in Workers : pc[w] \in {"analyse", "surface"} => claims[on[w]] > 0
    /\ \A t \in Turns : job[t] \in {"absent", "QUEUED"} => claims[t] = 0
    /\ \A t \in Turns : job[t] \in {"RUNNING", "COMPLETED"} => claims[t] > 0
    /\ \A t \in Turns : claims[t] <= 1

\* Whoever is about to complete a turn has seen its analysis succeed.
Answered ==
    /\ \A w \in Workers :
           pc[w] \in {"deliver", "announce"} => on[w] \in analysed
    /\ \A t \in Turns :
           job[t] = "COMPLETED" \/ stream[t] = "sync" => t \in analysed

\* What can be said of answers whatever SQS does.
AnswerInv == Created /\ Answered /\ NoPhantomCompletion

\* The inductive invariant: neither TypeOK nor any property is inductive alone.
IInv == TypeOK /\ AnswerInv /\ Held /\ Claimed

-----------------------------------------------------------------------------
(* Steps. *)

\* Every step keeps the types.
LEMMA TypeStep ==
    ASSUME TypeOK, [Next]_vars
    PROVE  TypeOK'
<1> USE DEF TypeOK, TurnStatus, JobStatus, WorkerStep, StreamStep, vars,
   requestVars, workerVars, clientVars, historyVars
<1>1. ASSUME NEW t \in Turns, CreateTurn(t) PROVE TypeOK'
  BY <1>1, NoneAssumption, WebAssumption DEF CreateTurn
<1>2. ASSUME NEW t \in Turns, EnqueueJob(t) PROVE TypeOK'
  BY <1>2, NoneAssumption, WebAssumption DEF EnqueueJob
<1>3. ASSUME NEW t \in Turns, EnqueueFails(t) PROVE TypeOK'
  BY <1>3, NoneAssumption, WebAssumption DEF EnqueueFails
<1>4. ASSUME NEW t \in Turns, FailUnsentJob(t) PROVE TypeOK'
  BY <1>4, NoneAssumption, WebAssumption DEF FailUnsentJob
<1>5. ASSUME NEW t \in Turns, ApiCrash(t) PROVE TypeOK'
  BY <1>5, NoneAssumption, WebAssumption DEF ApiCrash
<1>6. ASSUME NEW t \in Turns, DeleteSession(t) PROVE TypeOK'
  BY <1>6, NoneAssumption, WebAssumption DEF DeleteSession
<1>7. ASSUME NEW t \in Turns, TimePasses(t) PROVE TypeOK'
  BY <1>7, NoneAssumption, WebAssumption DEF TimePasses
<1>8. ASSUME NEW t \in Turns, VisibilityExpires(t) PROVE TypeOK'
  BY <1>8, NoneAssumption, WebAssumption DEF VisibilityExpires
<1>9. ASSUME NEW t \in Turns, OpenStream(t) PROVE TypeOK'
  BY <1>9, NoneAssumption, WebAssumption DEF OpenStream
<1>10. ASSUME NEW t \in Turns, CheckJob(t) PROVE TypeOK'
  BY <1>10, NoneAssumption, WebAssumption DEF CheckJob
<1>11. ASSUME NEW t \in Turns, MarkStale(t) PROVE TypeOK'
  BY <1>11, NoneAssumption, WebAssumption DEF MarkStale
<1>12. ASSUME NEW t \in Turns, SyncTurn(t) PROVE TypeOK'
  BY <1>12, NoneAssumption, WebAssumption DEF SyncTurn
<1>13. ASSUME NEW t \in Turns, Subscribe(t) PROVE TypeOK'
  BY <1>13, NoneAssumption, WebAssumption DEF Subscribe
<1>14. ASSUME NEW t \in Turns, StreamTimeout(t) PROVE TypeOK'
  BY <1>14, NoneAssumption, WebAssumption DEF StreamTimeout
<1>15. ASSUME NEW t \in Turns, StreamBreaks(t) PROVE TypeOK'
  BY <1>15, NoneAssumption, WebAssumption DEF StreamBreaks
<1>16. ASSUME NEW w \in Workers, Receive(w) PROVE TypeOK'
  BY <1>16, NoneAssumption, WebAssumption DEF Receive
<1>17. ASSUME NEW w \in Workers, LoadJob(w) PROVE TypeOK'
  BY <1>17, NoneAssumption, WebAssumption DEF LoadJob
<1>18. ASSUME NEW w \in Workers, Claim(w) PROVE TypeOK'
  BY <1>18, NoneAssumption, WebAssumption DEF Claim
<1>19. ASSUME NEW w \in Workers, ChainError(w) PROVE TypeOK'
  BY <1>19, NoneAssumption, WebAssumption DEF ChainError, SetTurn
<1>20. ASSUME NEW w \in Workers, SurfaceError(w) PROVE TypeOK'
  BY <1>20, NoneAssumption, WebAssumption DEF SurfaceError, Publish
<1>21. ASSUME NEW w \in Workers, CompleteJob(w) PROVE TypeOK'
  BY <1>21, NoneAssumption, WebAssumption DEF CompleteJob
<1>22. ASSUME NEW w \in Workers, FailJob(w) PROVE TypeOK'
  BY <1>22, NoneAssumption, WebAssumption DEF FailJob, Guarded
<1>23. ASSUME NEW w \in Workers, RecoveryFails(w) PROVE TypeOK'
  BY <1>23, NoneAssumption, WebAssumption DEF RecoveryFails, Guarded
<1>24. ASSUME NEW w \in Workers, DeliverAnswer(w) PROVE TypeOK'
  BY <1>24, NoneAssumption, WebAssumption DEF DeliverAnswer, SetTurn
<1>25. ASSUME NEW w \in Workers, AnnounceAnswer(w) PROVE TypeOK'
  BY <1>25, NoneAssumption, WebAssumption DEF AnnounceAnswer, Publish
<1>26. ASSUME NEW w \in Workers, TellFailure(w) PROVE TypeOK'
  BY <1>26, NoneAssumption, WebAssumption DEF TellFailure, SetTurn
<1>27. ASSUME NEW w \in Workers, AnnounceFailure(w) PROVE TypeOK'
  BY <1>27, NoneAssumption, WebAssumption DEF AnnounceFailure, Publish
<1>28. ASSUME NEW w \in Workers, Ack(w) PROVE TypeOK'
  BY <1>28, NoneAssumption, WebAssumption DEF Ack
<1>29. ASSUME NEW w \in Workers, WorkerCrash(w) PROVE TypeOK'
  BY <1>29, NoneAssumption, WebAssumption DEF WorkerCrash
<1>30. CASE UNCHANGED vars
  BY <1>30
<1>31. QED
  BY <1>1, <1>2, <1>3, <1>4, <1>5, <1>6, <1>7, <1>8, <1>9, <1>10, <1>11,
     <1>12, <1>13, <1>14, <1>15, <1>16, <1>17, <1>18, <1>19, <1>20, <1>21,
     <1>22, <1>23, <1>24, <1>25, <1>26, <1>27, <1>28, <1>29, <1>30 DEF Next,
     RequestStep, StreamRequestStep, WorkerLoopStep

\* Every step keeps the order of creation.
LEMMA CreatedStep ==
    ASSUME TypeOK, Created, [Next]_vars
    PROVE  Created'
<1> USE DEF TypeOK, TurnStatus, JobStatus, WorkerStep, StreamStep, Created,
   vars, requestVars, workerVars, clientVars, historyVars
<1>1. ASSUME NEW t \in Turns, CreateTurn(t) PROVE Created'
  BY <1>1, NoneAssumption DEF CreateTurn
<1>2. ASSUME NEW t \in Turns, EnqueueJob(t) PROVE Created'
  BY <1>2, NoneAssumption DEF EnqueueJob
<1>3. ASSUME NEW t \in Turns, EnqueueFails(t) PROVE Created'
  BY <1>3, NoneAssumption DEF EnqueueFails
<1>4. ASSUME NEW t \in Turns, FailUnsentJob(t) PROVE Created'
  BY <1>4, NoneAssumption DEF FailUnsentJob
<1>5. ASSUME NEW t \in Turns, ApiCrash(t) PROVE Created'
  BY <1>5, NoneAssumption DEF ApiCrash
<1>6. ASSUME NEW t \in Turns, DeleteSession(t) PROVE Created'
  BY <1>6, NoneAssumption DEF DeleteSession
<1>7. ASSUME NEW t \in Turns, TimePasses(t) PROVE Created'
  BY <1>7, NoneAssumption DEF TimePasses
<1>8. ASSUME NEW t \in Turns, VisibilityExpires(t) PROVE Created'
  BY <1>8, NoneAssumption DEF VisibilityExpires
<1>9. ASSUME NEW t \in Turns, OpenStream(t) PROVE Created'
  BY <1>9, NoneAssumption DEF OpenStream
<1>10. ASSUME NEW t \in Turns, CheckJob(t) PROVE Created'
  BY <1>10, NoneAssumption DEF CheckJob
<1>11. ASSUME NEW t \in Turns, MarkStale(t) PROVE Created'
  BY <1>11, NoneAssumption DEF MarkStale
<1>12. ASSUME NEW t \in Turns, SyncTurn(t) PROVE Created'
  BY <1>12, NoneAssumption DEF SyncTurn
<1>13. ASSUME NEW t \in Turns, Subscribe(t) PROVE Created'
  BY <1>13, NoneAssumption DEF Subscribe
<1>14. ASSUME NEW t \in Turns, StreamTimeout(t) PROVE Created'
  BY <1>14, NoneAssumption DEF StreamTimeout
<1>15. ASSUME NEW t \in Turns, StreamBreaks(t) PROVE Created'
  BY <1>15, NoneAssumption DEF StreamBreaks
<1>16. ASSUME NEW w \in Workers, Receive(w) PROVE Created'
  BY <1>16, NoneAssumption DEF Receive
<1>17. ASSUME NEW w \in Workers, LoadJob(w) PROVE Created'
  BY <1>17, NoneAssumption DEF LoadJob
<1>18. ASSUME NEW w \in Workers, Claim(w) PROVE Created'
  BY <1>18, NoneAssumption DEF Claim
<1>19. ASSUME NEW w \in Workers, ChainError(w) PROVE Created'
  BY <1>19, NoneAssumption DEF ChainError, SetTurn
<1>20. ASSUME NEW w \in Workers, SurfaceError(w) PROVE Created'
  BY <1>20, NoneAssumption DEF SurfaceError, Publish
<1>21. ASSUME NEW w \in Workers, CompleteJob(w) PROVE Created'
  BY <1>21, NoneAssumption DEF CompleteJob
<1>22. ASSUME NEW w \in Workers, FailJob(w) PROVE Created'
  BY <1>22, NoneAssumption DEF FailJob, Guarded
<1>23. ASSUME NEW w \in Workers, RecoveryFails(w) PROVE Created'
  BY <1>23, NoneAssumption DEF RecoveryFails, Guarded
<1>24. ASSUME NEW w \in Workers, DeliverAnswer(w) PROVE Created'
  BY <1>24, NoneAssumption DEF DeliverAnswer, SetTurn
<1>25. ASSUME NEW w \in Workers, AnnounceAnswer(w) PROVE Created'
  BY <1>25, NoneAssumption DEF AnnounceAnswer, Publish
<1>26. ASSUME NEW w \in Workers, TellFailure(w) PROVE Created'
  BY <1>26, NoneAssumption DEF TellFailure, SetTurn
<1>27. ASSUME NEW w \in Workers, AnnounceFailure(w) PROVE Created'
  BY <1>27, NoneAssumption DEF AnnounceFailure, Publish
<1>28. ASSUME NEW w \in Workers, Ack(w) PROVE Created'
  BY <1>28, NoneAssumption DEF Ack
<1>29. ASSUME NEW w \in Workers, WorkerCrash(w) PROVE Created'
  BY <1>29, NoneAssumption DEF WorkerCrash
<1>30. CASE UNCHANGED vars
  BY <1>30
<1>31. QED
  BY <1>1, <1>2, <1>3, <1>4, <1>5, <1>6, <1>7, <1>8, <1>9, <1>10, <1>11,
     <1>12, <1>13, <1>14, <1>15, <1>16, <1>17, <1>18, <1>19, <1>20, <1>21,
     <1>22, <1>23, <1>24, <1>25, <1>26, <1>27, <1>28, <1>29, <1>30 DEF Next,
     RequestStep, StreamRequestStep, WorkerLoopStep

\* No step gives a message to two workers that could claim its job.
LEMMA HeldStep ==
    ASSUME PromptClaim, TypeOK, Created, Held, [Next]_vars
    PROVE  Held'
<1> USE DEF TypeOK, TurnStatus, JobStatus, WorkerStep, StreamStep, Created,
   Held, PreClaim, vars, requestVars, workerVars, clientVars, historyVars
<1>1. ASSUME NEW t \in Turns, CreateTurn(t) PROVE Held'
  BY <1>1, NoneAssumption DEF CreateTurn
<1>2. ASSUME NEW t \in Turns, EnqueueJob(t) PROVE Held'
  BY <1>2, NoneAssumption DEF EnqueueJob
<1>3. ASSUME NEW t \in Turns, EnqueueFails(t) PROVE Held'
  BY <1>3, NoneAssumption DEF EnqueueFails
<1>4. ASSUME NEW t \in Turns, FailUnsentJob(t) PROVE Held'
  BY <1>4, NoneAssumption DEF FailUnsentJob
<1>5. ASSUME NEW t \in Turns, ApiCrash(t) PROVE Held'
  BY <1>5, NoneAssumption DEF ApiCrash
<1>6. ASSUME NEW t \in Turns, DeleteSession(t) PROVE Held'
  BY <1>6, NoneAssumption DEF DeleteSession
<1>7. ASSUME NEW t \in Turns, TimePasses(t) PROVE Held'
  BY <1>7, NoneAssumption DEF TimePasses
<1>8. ASSUME NEW t \in Turns, VisibilityExpires(t) PROVE Held'
  BY <1>8, NoneAssumption DEF VisibilityExpires
<1>9. ASSUME NEW t \in Turns, OpenStream(t) PROVE Held'
  BY <1>9, NoneAssumption DEF OpenStream
<1>10. ASSUME NEW t \in Turns, CheckJob(t) PROVE Held'
  BY <1>10, NoneAssumption DEF CheckJob
<1>11. ASSUME NEW t \in Turns, MarkStale(t) PROVE Held'
  BY <1>11, NoneAssumption DEF MarkStale
<1>12. ASSUME NEW t \in Turns, SyncTurn(t) PROVE Held'
  BY <1>12, NoneAssumption DEF SyncTurn
<1>13. ASSUME NEW t \in Turns, Subscribe(t) PROVE Held'
  BY <1>13, NoneAssumption DEF Subscribe
<1>14. ASSUME NEW t \in Turns, StreamTimeout(t) PROVE Held'
  BY <1>14, NoneAssumption DEF StreamTimeout
<1>15. ASSUME NEW t \in Turns, StreamBreaks(t) PROVE Held'
  BY <1>15, NoneAssumption DEF StreamBreaks
<1>16. ASSUME NEW w \in Workers, Receive(w) PROVE Held'
  BY <1>16, NoneAssumption DEF Receive
<1>17. ASSUME NEW w \in Workers, LoadJob(w) PROVE Held'
  BY <1>17, NoneAssumption DEF LoadJob
<1>18. ASSUME NEW w \in Workers, Claim(w) PROVE Held'
  BY <1>18, NoneAssumption DEF Claim
<1>19. ASSUME NEW w \in Workers, ChainError(w) PROVE Held'
  BY <1>19, NoneAssumption DEF ChainError, SetTurn
<1>20. ASSUME NEW w \in Workers, SurfaceError(w) PROVE Held'
  BY <1>20, NoneAssumption DEF SurfaceError, Publish
<1>21. ASSUME NEW w \in Workers, CompleteJob(w) PROVE Held'
  BY <1>21, NoneAssumption DEF CompleteJob
<1>22. ASSUME NEW w \in Workers, FailJob(w) PROVE Held'
  BY <1>22, NoneAssumption DEF FailJob, Guarded
<1>23. ASSUME NEW w \in Workers, RecoveryFails(w) PROVE Held'
  BY <1>23, NoneAssumption DEF RecoveryFails, Guarded
<1>24. ASSUME NEW w \in Workers, DeliverAnswer(w) PROVE Held'
  BY <1>24, NoneAssumption DEF DeliverAnswer, SetTurn
<1>25. ASSUME NEW w \in Workers, AnnounceAnswer(w) PROVE Held'
  BY <1>25, NoneAssumption DEF AnnounceAnswer, Publish
<1>26. ASSUME NEW w \in Workers, TellFailure(w) PROVE Held'
  BY <1>26, NoneAssumption DEF TellFailure, SetTurn
<1>27. ASSUME NEW w \in Workers, AnnounceFailure(w) PROVE Held'
  BY <1>27, NoneAssumption DEF AnnounceFailure, Publish
<1>28. ASSUME NEW w \in Workers, Ack(w) PROVE Held'
  BY <1>28, NoneAssumption DEF Ack
<1>29. ASSUME NEW w \in Workers, WorkerCrash(w) PROVE Held'
  BY <1>29, NoneAssumption DEF WorkerCrash
<1>30. CASE UNCHANGED vars
  BY <1>30
<1>31. QED
  BY <1>1, <1>2, <1>3, <1>4, <1>5, <1>6, <1>7, <1>8, <1>9, <1>10, <1>11,
     <1>12, <1>13, <1>14, <1>15, <1>16, <1>17, <1>18, <1>19, <1>20, <1>21,
     <1>22, <1>23, <1>24, <1>25, <1>26, <1>27, <1>28, <1>29, <1>30 DEF Next,
     RequestStep, StreamRequestStep, WorkerLoopStep

\* No step claims a job for the second time.
LEMMA ClaimedStep ==
    ASSUME TypeOK, Created, Held, Claimed, [Next]_vars
    PROVE  Claimed'
<1> USE DEF TypeOK, TurnStatus, JobStatus, WorkerStep, StreamStep, Created,
   Held, Claimed, PreClaim, vars, requestVars, workerVars, clientVars,
   historyVars
<1>1. ASSUME NEW t \in Turns, CreateTurn(t) PROVE Claimed'
  BY <1>1, NoneAssumption DEF CreateTurn
<1>2. ASSUME NEW t \in Turns, EnqueueJob(t) PROVE Claimed'
  BY <1>2, NoneAssumption DEF EnqueueJob
<1>3. ASSUME NEW t \in Turns, EnqueueFails(t) PROVE Claimed'
  BY <1>3, NoneAssumption DEF EnqueueFails
<1>4. ASSUME NEW t \in Turns, FailUnsentJob(t) PROVE Claimed'
  BY <1>4, NoneAssumption DEF FailUnsentJob
<1>5. ASSUME NEW t \in Turns, ApiCrash(t) PROVE Claimed'
  BY <1>5, NoneAssumption DEF ApiCrash
<1>6. ASSUME NEW t \in Turns, DeleteSession(t) PROVE Claimed'
  BY <1>6, NoneAssumption DEF DeleteSession
<1>7. ASSUME NEW t \in Turns, TimePasses(t) PROVE Claimed'
  BY <1>7, NoneAssumption DEF TimePasses
<1>8. ASSUME NEW t \in Turns, VisibilityExpires(t) PROVE Claimed'
  BY <1>8, NoneAssumption DEF VisibilityExpires
<1>9. ASSUME NEW t \in Turns, OpenStream(t) PROVE Claimed'
  BY <1>9, NoneAssumption DEF OpenStream
<1>10. ASSUME NEW t \in Turns, CheckJob(t) PROVE Claimed'
  BY <1>10, NoneAssumption DEF CheckJob
<1>11. ASSUME NEW t \in Turns, MarkStale(t) PROVE Claimed'
  BY <1>11, NoneAssumption DEF MarkStale
<1>12. ASSUME NEW t \in Turns, SyncTurn(t) PROVE Claimed'
  BY <1>12, NoneAssumption DEF SyncTurn
<1>13. ASSUME NEW t \in Turns, Subscribe(t) PROVE Claimed'
  BY <1>13, NoneAssumption DEF Subscribe
<1>14. ASSUME NEW t \in Turns, StreamTimeout(t) PROVE Claimed'
  BY <1>14, NoneAssumption DEF StreamTimeout
<1>15. ASSUME NEW t \in Turns, StreamBreaks(t) PROVE Claimed'
  BY <1>15, NoneAssumption DEF StreamBreaks
<1>16. ASSUME NEW w \in Workers, Receive(w) PROVE Claimed'
  BY <1>16, NoneAssumption DEF Receive
<1>17. ASSUME NEW w \in Workers, LoadJob(w) PROVE Claimed'
  BY <1>17, NoneAssumption DEF LoadJob
<1>18. ASSUME NEW w \in Workers, Claim(w) PROVE Claimed'
  BY <1>18, NoneAssumption DEF Claim
<1>19. ASSUME NEW w \in Workers, ChainError(w) PROVE Claimed'
  BY <1>19, NoneAssumption DEF ChainError, SetTurn
<1>20. ASSUME NEW w \in Workers, SurfaceError(w) PROVE Claimed'
  BY <1>20, NoneAssumption DEF SurfaceError, Publish
<1>21. ASSUME NEW w \in Workers, CompleteJob(w) PROVE Claimed'
  BY <1>21, NoneAssumption DEF CompleteJob
<1>22. ASSUME NEW w \in Workers, FailJob(w) PROVE Claimed'
  BY <1>22, NoneAssumption DEF FailJob, Guarded
<1>23. ASSUME NEW w \in Workers, RecoveryFails(w) PROVE Claimed'
  BY <1>23, NoneAssumption DEF RecoveryFails, Guarded
<1>24. ASSUME NEW w \in Workers, DeliverAnswer(w) PROVE Claimed'
  BY <1>24, NoneAssumption DEF DeliverAnswer, SetTurn
<1>25. ASSUME NEW w \in Workers, AnnounceAnswer(w) PROVE Claimed'
  BY <1>25, NoneAssumption DEF AnnounceAnswer, Publish
<1>26. ASSUME NEW w \in Workers, TellFailure(w) PROVE Claimed'
  BY <1>26, NoneAssumption DEF TellFailure, SetTurn
<1>27. ASSUME NEW w \in Workers, AnnounceFailure(w) PROVE Claimed'
  BY <1>27, NoneAssumption DEF AnnounceFailure, Publish
<1>28. ASSUME NEW w \in Workers, Ack(w) PROVE Claimed'
  BY <1>28, NoneAssumption DEF Ack
<1>29. ASSUME NEW w \in Workers, WorkerCrash(w) PROVE Claimed'
  BY <1>29, NoneAssumption DEF WorkerCrash
<1>30. CASE UNCHANGED vars
  BY <1>30
<1>31. QED
  BY <1>1, <1>2, <1>3, <1>4, <1>5, <1>6, <1>7, <1>8, <1>9, <1>10, <1>11,
     <1>12, <1>13, <1>14, <1>15, <1>16, <1>17, <1>18, <1>19, <1>20, <1>21,
     <1>22, <1>23, <1>24, <1>25, <1>26, <1>27, <1>28, <1>29, <1>30 DEF Next,
     RequestStep, StreamRequestStep, WorkerLoopStep

\* No step forgets where an answer came from.
LEMMA AnsweredStep ==
    ASSUME TypeOK, Created, Answered, [Next]_vars
    PROVE  Answered'
<1> USE DEF TypeOK, TurnStatus, JobStatus, WorkerStep, StreamStep, Created,
   Answered, vars, requestVars, workerVars, clientVars, historyVars
<1>1. ASSUME NEW t \in Turns, CreateTurn(t) PROVE Answered'
  BY <1>1, NoneAssumption DEF CreateTurn
<1>2. ASSUME NEW t \in Turns, EnqueueJob(t) PROVE Answered'
  BY <1>2, NoneAssumption DEF EnqueueJob
<1>3. ASSUME NEW t \in Turns, EnqueueFails(t) PROVE Answered'
  BY <1>3, NoneAssumption DEF EnqueueFails
<1>4. ASSUME NEW t \in Turns, FailUnsentJob(t) PROVE Answered'
  BY <1>4, NoneAssumption DEF FailUnsentJob
<1>5. ASSUME NEW t \in Turns, ApiCrash(t) PROVE Answered'
  BY <1>5, NoneAssumption DEF ApiCrash
<1>6. ASSUME NEW t \in Turns, DeleteSession(t) PROVE Answered'
  BY <1>6, NoneAssumption DEF DeleteSession
<1>7. ASSUME NEW t \in Turns, TimePasses(t) PROVE Answered'
  BY <1>7, NoneAssumption DEF TimePasses
<1>8. ASSUME NEW t \in Turns, VisibilityExpires(t) PROVE Answered'
  BY <1>8, NoneAssumption DEF VisibilityExpires
<1>9. ASSUME NEW t \in Turns, OpenStream(t) PROVE Answered'
  BY <1>9, NoneAssumption DEF OpenStream
<1>10. ASSUME NEW t \in Turns, CheckJob(t) PROVE Answered'
  BY <1>10, NoneAssumption DEF CheckJob
<1>11. ASSUME NEW t \in Turns, MarkStale(t) PROVE Answered'
  BY <1>11, NoneAssumption DEF MarkStale
<1>12. ASSUME NEW t \in Turns, SyncTurn(t) PROVE Answered'
  BY <1>12, NoneAssumption DEF SyncTurn
<1>13. ASSUME NEW t \in Turns, Subscribe(t) PROVE Answered'
  BY <1>13, NoneAssumption DEF Subscribe
<1>14. ASSUME NEW t \in Turns, StreamTimeout(t) PROVE Answered'
  BY <1>14, NoneAssumption DEF StreamTimeout
<1>15. ASSUME NEW t \in Turns, StreamBreaks(t) PROVE Answered'
  BY <1>15, NoneAssumption DEF StreamBreaks
<1>16. ASSUME NEW w \in Workers, Receive(w) PROVE Answered'
  BY <1>16, NoneAssumption DEF Receive
<1>17. ASSUME NEW w \in Workers, LoadJob(w) PROVE Answered'
  BY <1>17, NoneAssumption DEF LoadJob
<1>18. ASSUME NEW w \in Workers, Claim(w) PROVE Answered'
  BY <1>18, NoneAssumption DEF Claim
<1>19. ASSUME NEW w \in Workers, ChainError(w) PROVE Answered'
  BY <1>19, NoneAssumption DEF ChainError, SetTurn
<1>20. ASSUME NEW w \in Workers, SurfaceError(w) PROVE Answered'
  BY <1>20, NoneAssumption DEF SurfaceError, Publish
<1>21. ASSUME NEW w \in Workers, CompleteJob(w) PROVE Answered'
  BY <1>21, NoneAssumption DEF CompleteJob
<1>22. ASSUME NEW w \in Workers, FailJob(w) PROVE Answered'
  BY <1>22, NoneAssumption DEF FailJob, Guarded
<1>23. ASSUME NEW w \in Workers, RecoveryFails(w) PROVE Answered'
  BY <1>23, NoneAssumption DEF RecoveryFails, Guarded
<1>24. ASSUME NEW w \in Workers, DeliverAnswer(w) PROVE Answered'
  BY <1>24, NoneAssumption DEF DeliverAnswer, SetTurn
<1>25. ASSUME NEW w \in Workers, AnnounceAnswer(w) PROVE Answered'
  BY <1>25, NoneAssumption DEF AnnounceAnswer, Publish
<1>26. ASSUME NEW w \in Workers, TellFailure(w) PROVE Answered'
  BY <1>26, NoneAssumption DEF TellFailure, SetTurn
<1>27. ASSUME NEW w \in Workers, AnnounceFailure(w) PROVE Answered'
  BY <1>27, NoneAssumption DEF AnnounceFailure, Publish
<1>28. ASSUME NEW w \in Workers, Ack(w) PROVE Answered'
  BY <1>28, NoneAssumption DEF Ack
<1>29. ASSUME NEW w \in Workers, WorkerCrash(w) PROVE Answered'
  BY <1>29, NoneAssumption DEF WorkerCrash
<1>30. CASE UNCHANGED vars
  BY <1>30
<1>31. QED
  BY <1>1, <1>2, <1>3, <1>4, <1>5, <1>6, <1>7, <1>8, <1>9, <1>10, <1>11,
     <1>12, <1>13, <1>14, <1>15, <1>16, <1>17, <1>18, <1>19, <1>20, <1>21,
     <1>22, <1>23, <1>24, <1>25, <1>26, <1>27, <1>28, <1>29, <1>30 DEF Next,
     RequestStep, StreamRequestStep, WorkerLoopStep

\* No step completes a turn that was not analysed.
LEMMA PhantomStep ==
    ASSUME TypeOK, Answered, NoPhantomCompletion, [Next]_vars
    PROVE  NoPhantomCompletion'
<1> USE DEF TypeOK, TurnStatus, JobStatus, WorkerStep, StreamStep, Answered,
   NoPhantomCompletion, vars, requestVars, workerVars, clientVars, historyVars
<1>1. ASSUME NEW t \in Turns, CreateTurn(t) PROVE NoPhantomCompletion'
  BY <1>1, NoneAssumption DEF CreateTurn
<1>2. ASSUME NEW t \in Turns, EnqueueJob(t) PROVE NoPhantomCompletion'
  BY <1>2, NoneAssumption DEF EnqueueJob
<1>3. ASSUME NEW t \in Turns, EnqueueFails(t) PROVE NoPhantomCompletion'
  BY <1>3, NoneAssumption DEF EnqueueFails
<1>4. ASSUME NEW t \in Turns, FailUnsentJob(t) PROVE NoPhantomCompletion'
  BY <1>4, NoneAssumption DEF FailUnsentJob
<1>5. ASSUME NEW t \in Turns, ApiCrash(t) PROVE NoPhantomCompletion'
  BY <1>5, NoneAssumption DEF ApiCrash
<1>6. ASSUME NEW t \in Turns, DeleteSession(t) PROVE NoPhantomCompletion'
  BY <1>6, NoneAssumption DEF DeleteSession
<1>7. ASSUME NEW t \in Turns, TimePasses(t) PROVE NoPhantomCompletion'
  BY <1>7, NoneAssumption DEF TimePasses
<1>8. ASSUME NEW t \in Turns, VisibilityExpires(t) PROVE NoPhantomCompletion'
  BY <1>8, NoneAssumption DEF VisibilityExpires
<1>9. ASSUME NEW t \in Turns, OpenStream(t) PROVE NoPhantomCompletion'
  BY <1>9, NoneAssumption DEF OpenStream
<1>10. ASSUME NEW t \in Turns, CheckJob(t) PROVE NoPhantomCompletion'
  BY <1>10, NoneAssumption DEF CheckJob
<1>11. ASSUME NEW t \in Turns, MarkStale(t) PROVE NoPhantomCompletion'
  BY <1>11, NoneAssumption DEF MarkStale
<1>12. ASSUME NEW t \in Turns, SyncTurn(t) PROVE NoPhantomCompletion'
  BY <1>12, NoneAssumption DEF SyncTurn
<1>13. ASSUME NEW t \in Turns, Subscribe(t) PROVE NoPhantomCompletion'
  BY <1>13, NoneAssumption DEF Subscribe
<1>14. ASSUME NEW t \in Turns, StreamTimeout(t) PROVE NoPhantomCompletion'
  BY <1>14, NoneAssumption DEF StreamTimeout
<1>15. ASSUME NEW t \in Turns, StreamBreaks(t) PROVE NoPhantomCompletion'
  BY <1>15, NoneAssumption DEF StreamBreaks
<1>16. ASSUME NEW w \in Workers, Receive(w) PROVE NoPhantomCompletion'
  BY <1>16, NoneAssumption DEF Receive
<1>17. ASSUME NEW w \in Workers, LoadJob(w) PROVE NoPhantomCompletion'
  BY <1>17, NoneAssumption DEF LoadJob
<1>18. ASSUME NEW w \in Workers, Claim(w) PROVE NoPhantomCompletion'
  BY <1>18, NoneAssumption DEF Claim
<1>19. ASSUME NEW w \in Workers, ChainError(w) PROVE NoPhantomCompletion'
  BY <1>19, NoneAssumption DEF ChainError, SetTurn
<1>20. ASSUME NEW w \in Workers, SurfaceError(w) PROVE NoPhantomCompletion'
  BY <1>20, NoneAssumption DEF SurfaceError, Publish
<1>21. ASSUME NEW w \in Workers, CompleteJob(w) PROVE NoPhantomCompletion'
  BY <1>21, NoneAssumption DEF CompleteJob
<1>22. ASSUME NEW w \in Workers, FailJob(w) PROVE NoPhantomCompletion'
  BY <1>22, NoneAssumption DEF FailJob, Guarded
<1>23. ASSUME NEW w \in Workers, RecoveryFails(w) PROVE NoPhantomCompletion'
  BY <1>23, NoneAssumption DEF RecoveryFails, Guarded
<1>24. ASSUME NEW w \in Workers, DeliverAnswer(w) PROVE NoPhantomCompletion'
  BY <1>24, NoneAssumption DEF DeliverAnswer, SetTurn
<1>25. ASSUME NEW w \in Workers, AnnounceAnswer(w) PROVE NoPhantomCompletion'
  BY <1>25, NoneAssumption DEF AnnounceAnswer, Publish
<1>26. ASSUME NEW w \in Workers, TellFailure(w) PROVE NoPhantomCompletion'
  BY <1>26, NoneAssumption DEF TellFailure, SetTurn
<1>27. ASSUME NEW w \in Workers, AnnounceFailure(w) PROVE NoPhantomCompletion'
  BY <1>27, NoneAssumption DEF AnnounceFailure, Publish
<1>28. ASSUME NEW w \in Workers, Ack(w) PROVE NoPhantomCompletion'
  BY <1>28, NoneAssumption DEF Ack
<1>29. ASSUME NEW w \in Workers, WorkerCrash(w) PROVE NoPhantomCompletion'
  BY <1>29, NoneAssumption DEF WorkerCrash
<1>30. CASE UNCHANGED vars
  BY <1>30
<1>31. QED
  BY <1>1, <1>2, <1>3, <1>4, <1>5, <1>6, <1>7, <1>8, <1>9, <1>10, <1>11,
     <1>12, <1>13, <1>14, <1>15, <1>16, <1>17, <1>18, <1>19, <1>20, <1>21,
     <1>22, <1>23, <1>24, <1>25, <1>26, <1>27, <1>28, <1>29, <1>30 DEF Next,
     RequestStep, StreamRequestStep, WorkerLoopStep

-----------------------------------------------------------------------------
(* Theorems. *)

\* The variables always hold what the database columns, the queue and the
\* coroutines can hold.
THEOREM TypeCorrect == Spec => []TypeOK
<1>1. Init => TypeOK
  BY NoneAssumption, WebAssumption
  DEF Init, TypeOK, TurnStatus, JobStatus, WorkerStep, StreamStep
<1>2. TypeOK /\ [Next]_vars => TypeOK'
  BY TypeStep
<1>3. QED
  BY <1>1, <1>2, PTL DEF Spec

\* The part of the invariant that does not depend on the visibility timeout.
LEMMA AnswerInvariant == Spec => [](TypeOK /\ AnswerInv)
<1>1. Init => TypeOK /\ AnswerInv
  BY NoneAssumption, WebAssumption
  DEF Init, TypeOK, TurnStatus, JobStatus, WorkerStep, StreamStep, AnswerInv,
      Created, Answered, NoPhantomCompletion
<1>2. TypeOK /\ AnswerInv /\ [Next]_vars => (TypeOK /\ AnswerInv)'
  BY TypeStep, CreatedStep, AnsweredStep, PhantomStep DEF AnswerInv
<1>3. QED
  BY <1>1, <1>2, PTL DEF Spec

\* No turn is COMPLETED and no client is told so before the analysis of its
\* job succeeded, even if SQS hands one message to several workers.
THEOREM NoPhantomCompletionTheorem == Spec => []NoPhantomCompletion
BY AnswerInvariant, PTL DEF AnswerInv

\* Every job id that reached SQS or a worker is the id of a stored job.
THEOREM MessageHasJobTheorem == Spec => []MessageHasJob
<1>1. TypeOK /\ AnswerInv => MessageHasJob
  BY DEF TypeOK, AnswerInv, Created, MessageHasJob
<1>2. QED
  BY <1>1, AnswerInvariant, PTL

\* The whole invariant, under the assumption that a message stays hidden from
\* the others until its receiver has written RUNNING.
LEMMA InductiveInvariant ==
    ASSUME PromptClaim
    PROVE  Spec => []IInv
<1>1. Init => IInv
  BY NoneAssumption, WebAssumption
  DEF Init, IInv, TypeOK, TurnStatus, JobStatus, WorkerStep, StreamStep,
      AnswerInv, Created, Answered, NoPhantomCompletion, Held, Claimed, PreClaim
<1>2. IInv /\ [Next]_vars => IInv'
  BY TypeStep, CreatedStep, HeldStep, ClaimedStep, AnsweredStep, PhantomStep
  DEF IInv, AnswerInv
<1>3. QED
  BY <1>1, <1>2, PTL DEF Spec

\* A job is set to RUNNING at most once, however many workers there are and
\* however often its message is delivered.
THEOREM AtMostOneAnalysisTheorem ==
    ASSUME PromptClaim
    PROVE  Spec => []AtMostOneAnalysis
<1>1. IInv => AtMostOneAnalysis
  BY DEF IInv, Claimed, AtMostOneAnalysis
<1>2. QED
  BY <1>1, InductiveInvariant, PTL

\* What LoadJob read still holds when Claim writes, up to a job failed by its
\* client in between.
THEOREM ClaimReadIsFreshTheorem ==
    ASSUME PromptClaim
    PROVE  Spec => []ClaimReadIsFresh
<1>1. IInv => ClaimReadIsFresh
  BY NoneAssumption DEF IInv, TypeOK, JobStatus, AnswerInv, Created, Held,
     Claimed, PreClaim, ClaimReadIsFresh
<1>2. QED
  BY <1>1, InductiveInvariant, PTL

-----------------------------------------------------------------------------
(* RcaJobs implements TurnPromise. *)

\* A step that touches neither turns nor histories is invisible to the user.
LEMMA Invisible ==
    ASSUME UNCHANGED <<turn, claims, analysed>>
    PROVE  UNCHANGED Promise!vars
BY DEF Promise!vars

\* Every step does what the promise allows, or nothing the user can see.
LEMMA PromiseStep ==
    ASSUME IInv, [Next]_vars
    PROVE  [Promise!Next]_(Promise!vars)
<1> DEFINE Kept == [Promise!Next]_(Promise!vars)
<1> USE DEF requestVars, workerVars, clientVars, historyVars
<1>1. ASSUME NEW t \in Turns, CreateTurn(t) PROVE Kept
  <2>1. Promise!Ask(t)
    BY <1>1, NoneAssumption DEF CreateTurn, Promise!Ask, IInv, TypeOK,
       AnswerInv, Created, Claimed, Answered
  <2>2. QED
    BY <1>1, <2>1, NoneAssumption DEF CreateTurn, Promise!Next, IInv, TypeOK,
       AnswerInv, Created, Claimed, Answered
<1>2. ASSUME NEW t \in Turns, EnqueueJob(t) PROVE Kept
  BY <1>2, Invisible DEF EnqueueJob
<1>3. ASSUME NEW t \in Turns, EnqueueFails(t) PROVE Kept
  BY <1>3, Invisible DEF EnqueueFails
<1>4. ASSUME NEW t \in Turns, FailUnsentJob(t) PROVE Kept
  BY <1>4, Invisible DEF FailUnsentJob
<1>5. ASSUME NEW t \in Turns, ApiCrash(t) PROVE Kept
  BY <1>5, Invisible DEF ApiCrash
<1>6. ASSUME NEW t \in Turns, DeleteSession(t) PROVE Kept
  <2>1. Promise!Forget(t)
    BY <1>6, NoneAssumption DEF DeleteSession, Promise!Forget, Promise!Show,
       IInv, TypeOK, AnswerInv, Created, Claimed, Answered
  <2>2. QED
    BY <1>6, <2>1, NoneAssumption DEF DeleteSession, Promise!Next, IInv,
       TypeOK, AnswerInv, Created, Claimed, Answered
<1>7. ASSUME NEW t \in Turns, TimePasses(t) PROVE Kept
  BY <1>7, Invisible DEF TimePasses
<1>8. ASSUME NEW t \in Turns, VisibilityExpires(t) PROVE Kept
  BY <1>8, Invisible DEF VisibilityExpires
<1>9. ASSUME NEW t \in Turns, OpenStream(t) PROVE Kept
  BY <1>9, Invisible DEF OpenStream
<1>10. ASSUME NEW t \in Turns, CheckJob(t) PROVE Kept
  BY <1>10, Invisible DEF CheckJob
<1>11. ASSUME NEW t \in Turns, MarkStale(t) PROVE Kept
  <2>1. Promise!ShowFailure(t) \/ UNCHANGED <<turn, claims, analysed>>
    BY <1>11, NoneAssumption DEF MarkStale, Promise!ShowFailure, Promise!Show,
       IInv, TypeOK, AnswerInv, Created, Claimed, Answered
  <2>2. QED
    BY <1>11, <2>1, NoneAssumption, Invisible DEF MarkStale, Promise!Next,
       IInv, TypeOK, AnswerInv, Created, Claimed, Answered
<1>12. ASSUME NEW t \in Turns, SyncTurn(t) PROVE Kept
  <2>1. Promise!ShowAnswer(t) \/ UNCHANGED <<turn, claims, analysed>>
    BY <1>12, NoneAssumption DEF SyncTurn, Promise!ShowAnswer, Promise!Show,
       IInv, TypeOK, AnswerInv, Created, Claimed, Answered
  <2>2. QED
    BY <1>12, <2>1, NoneAssumption, Invisible DEF SyncTurn, Promise!Next, IInv,
       TypeOK, AnswerInv, Created, Claimed, Answered
<1>13. ASSUME NEW t \in Turns, Subscribe(t) PROVE Kept
  BY <1>13, Invisible DEF Subscribe
<1>14. ASSUME NEW t \in Turns, StreamTimeout(t) PROVE Kept
  BY <1>14, Invisible DEF StreamTimeout
<1>15. ASSUME NEW t \in Turns, StreamBreaks(t) PROVE Kept
  BY <1>15, Invisible DEF StreamBreaks
<1>16. ASSUME NEW w \in Workers, Receive(w) PROVE Kept
  BY <1>16, Invisible DEF Receive
<1>17. ASSUME NEW w \in Workers, LoadJob(w) PROVE Kept
  BY <1>17, Invisible DEF LoadJob
<1>18. ASSUME NEW w \in Workers, Claim(w) PROVE Kept
  <2>1. on[w] \in Turns /\ claims[on[w]] = 0 /\ turn[on[w]] # "absent"
    BY <1>18, NoneAssumption
    DEF Claim, IInv, TypeOK, AnswerInv, Created, Claimed
  <2>2. \A t \in Turns : claims'[t] > 0 <=> claims[t] > 0 \/ t = on[w]
    BY <1>18, <2>1 DEF Claim, IInv, TypeOK
  <2>3. {t \in Turns : claims'[t] > 0}
            = {t \in Turns : claims[t] > 0} \union {on[w]}
    BY <2>1, <2>2
  <2>4. on[w] \in {t \in Turns : turn[t] # "absent"}
                    \ {t \in Turns : claims[t] > 0}
    BY <2>1
  <2>5. turn' = turn /\ analysed' = analysed
    BY <1>18 DEF Claim
  <2>6. Promise!Start(on[w])
    BY <2>3, <2>4, <2>5 DEF Promise!Start
  <2>7. on[w] \in Turns
    BY <2>1
  <2>8. QED
    BY <2>6, <2>7 DEF Promise!Next, Promise!Start
<1>19. ASSUME NEW w \in Workers, ChainError(w) PROVE Kept
  <2>1. Promise!ShowFailure(on[w]) \/ UNCHANGED <<turn, claims, analysed>>
    BY <1>19, NoneAssumption DEF ChainError, SetTurn, Promise!ShowFailure,
       Promise!Show, IInv, TypeOK, AnswerInv, Created, Claimed, Answered
  <2>2. QED
    BY <1>19, <2>1, NoneAssumption, Invisible DEF ChainError, Promise!Next,
       IInv, TypeOK, AnswerInv, Created, Claimed, Answered
<1>20. ASSUME NEW w \in Workers, SurfaceError(w) PROVE Kept
  BY <1>20, Invisible DEF SurfaceError, Publish
<1>21. ASSUME NEW w \in Workers, CompleteJob(w) PROVE Kept
  <2>1. Promise!Finish(on[w])
    BY <1>21, NoneAssumption DEF CompleteJob, Promise!Finish, IInv, TypeOK,
       AnswerInv, Created, Claimed, Answered
  <2>2. QED
    BY <1>21, <2>1, NoneAssumption DEF CompleteJob, Promise!Next, IInv, TypeOK,
       AnswerInv, Created, Claimed, Answered
<1>22. ASSUME NEW w \in Workers, FailJob(w) PROVE Kept
  BY <1>22, Invisible DEF FailJob
<1>23. ASSUME NEW w \in Workers, RecoveryFails(w) PROVE Kept
  BY <1>23, Invisible DEF RecoveryFails
<1>24. ASSUME NEW w \in Workers, DeliverAnswer(w) PROVE Kept
  <2>1. Promise!ShowAnswer(on[w]) \/ UNCHANGED <<turn, claims, analysed>>
    BY <1>24, NoneAssumption DEF DeliverAnswer, SetTurn, Promise!ShowAnswer,
       Promise!Show, IInv, TypeOK, AnswerInv, Created, Claimed, Answered
  <2>2. QED
    BY <1>24, <2>1, NoneAssumption, Invisible DEF DeliverAnswer, Promise!Next,
       IInv, TypeOK, AnswerInv, Created, Claimed, Answered
<1>25. ASSUME NEW w \in Workers, AnnounceAnswer(w) PROVE Kept
  BY <1>25, Invisible DEF AnnounceAnswer, Publish
<1>26. ASSUME NEW w \in Workers, TellFailure(w) PROVE Kept
  <2>1. Promise!ShowFailure(on[w]) \/ UNCHANGED <<turn, claims, analysed>>
    BY <1>26, NoneAssumption DEF TellFailure, SetTurn, Promise!ShowFailure,
       Promise!Show, IInv, TypeOK, AnswerInv, Created, Claimed, Answered
  <2>2. QED
    BY <1>26, <2>1, NoneAssumption, Invisible DEF TellFailure, Promise!Next,
       IInv, TypeOK, AnswerInv, Created, Claimed, Answered
<1>27. ASSUME NEW w \in Workers, AnnounceFailure(w) PROVE Kept
  BY <1>27, Invisible DEF AnnounceFailure, Publish
<1>28. ASSUME NEW w \in Workers, Ack(w) PROVE Kept
  BY <1>28, Invisible DEF Ack
<1>29. ASSUME NEW w \in Workers, WorkerCrash(w) PROVE Kept
  BY <1>29, Invisible DEF WorkerCrash
<1>30. CASE UNCHANGED vars
  BY <1>30, Invisible DEF vars
<1>31. QED
  BY <1>1, <1>2, <1>3, <1>4, <1>5, <1>6, <1>7, <1>8, <1>9, <1>10, <1>11,
     <1>12, <1>13, <1>14, <1>15, <1>16, <1>17, <1>18, <1>19, <1>20, <1>21,
     <1>22, <1>23, <1>24, <1>25, <1>26, <1>27, <1>28, <1>29, <1>30 DEF Next,
     RequestStep, StreamRequestStep, WorkerLoopStep

\* The request path keeps the promise made to the user: one investigation per
\* question, and an answer only from an investigation that succeeded.
THEOREM KeepsPromiseTheorem ==
    ASSUME PromptClaim
    PROVE  Spec => KeepsPromise
<1>1. Init => Promise!Init
  BY DEF Init, Promise!Init
<1>2. QED
  BY <1>1, InductiveInvariant, PromiseStep, PTL
  DEF Spec, KeepsPromise, Promise!Spec
=============================================================================
