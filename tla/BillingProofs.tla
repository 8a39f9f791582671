---------------------------- MODULE BillingProofs ----------------------------
(***************************************************************************)
(* Proofs about Billing, for any number of subscriptions, services, tasks  *)
(* and webhooks.  The types and PlanFollowsSubscription hold whether or    *)
(* not webhooks come in order; what becomes of a subscription that has     *)
(* ended or was replaced needs the order, and says so.                     *)
(***************************************************************************)
EXTENDS Billing, SequenceTheorems, TLAPS

\* While no two tasks overlap, the one that is at work has loaded the row as it
\* is, and a recount has the subscription it loaded or one that replaces it.
PlanInv ==
    ~overlap =>
        /\ row.plan = "PRO" <=> row.sub # None
        /\ \A t, u \in Tasks : Busy(t) /\ Busy(u) => t = u
        /\ \A t \in Tasks : pc[t] \in {"loaded", "called"} => seen[t] = row
        /\ \A t \in Tasks : At(t, "loaded", "recount") => task[t].sub = row.sub
        /\ \A t \in Tasks : At(t, "called", "recount")
            => task[t].sub # None /\ row.sub # None

IInv == TypeOK /\ PlanInv

-----------------------------------------------------------------------------
(* What the helpers do to the events and to the row. *)

\* The members of the small sets.
LEMMA Members ==
    /\ 0 \in Counts
    /\ \A x \in {"ACTIVE", "PAST_DUE", "CANCELED", "INCOMPLETE"} : x \in SubscriptionStatus
    /\ {"created", "updated", "deleted", "failed", "paid", "checkout"} = Webhooks
    /\ {"cancelNow", "cancelLater", "recount", "downgrade", "keep", "sync"} = Requests
    /\ None \notin Subs /\ None \notin Counts
BY ExtraAssumption, BillingNoneAssumption
DEF Counts, SubscriptionStatus, Webhooks, Requests

\* A report is an event.
LEMMA ReportType ==
    ASSUME NEW kind \in Webhooks, NEW s \in Subs, NEW status \in SubscriptionStatus,
           NEW n \in Counts
    PROVE  Report(kind, s, status, n) \in Event
BY DEF Report, Event

LEMMA EventSeqs ==
    /\ \A e \in Event : <<e>> \in Seq(Event)
    /\ \A d, e \in Event : <<d, e>> \in Seq(Event)
OBVIOUS

\* An event is a task that names a subscription.
LEMMA EventTask ==
    ASSUME NEW e \in Event
    PROVE  e \in Task /\ e.sub \in Subs
BY DEF Event, Task

\* A request is a task.
LEMMA AskTask ==
    ASSUME row \in Subscription, NEW kind \in Requests,
           NEW status \in SubscriptionStatus, NEW n \in Counts
    PROVE  LET what == [kind |-> kind, sub |-> row.sub, status |-> status, count |-> n]
           IN  what \in Task /\ what.kind \notin Webhooks
BY DEF Subscription, Task, Requests, Webhooks

\* What a task holds.
LEMMA TaskType ==
    ASSUME TypeOK, NEW t \in Tasks
    PROVE  /\ seen[t] \in Subscription
           /\ task[t].count \in Counts
           /\ task[t].status \in SubscriptionStatus
           /\ task[t].sub \in Subs \union {None}
           /\ task[t].kind \in Webhooks => task[t].sub \in Subs
BY DEF TypeOK, TasksOK, Task

\* Starting, finishing and going on keep the tasks' types.
LEMMA LoadType ==
    ASSUME row \in Subscription, TasksOK, NEW t \in Tasks, NEW what \in Task,
           what.kind \in Webhooks => what.sub \in Subs, Load(t, what)
    PROVE  TasksOK'
BY DEF TasksOK, Load

LEMMA FinishType ==
    ASSUME TasksOK, NEW t \in Tasks, Finish(t), UNCHANGED overlap
    PROVE  TasksOK'
<1>1. Idle \in Task /\ FreeRow \in Subscription /\ Idle.kind \notin Webhooks
  BY Members DEF Idle, Task, FreeRow, Subscription, Requests, Webhooks
<1>2. QED
  BY <1>1 DEF TasksOK, Finish

LEMMA CalledType ==
    ASSUME TasksOK, NEW t \in Tasks, Called(t), UNCHANGED overlap
    PROVE  TasksOK'
BY DEF TasksOK, Called

\* Sending adds events.
LEMMA SendType ==
    ASSUME events \in Seq(Event), NEW new \in Seq(Event), Send(new)
    PROVE  events' \in Seq(Event)
BY ConcatProperties DEF Send

\* Handling an event takes it out.
LEMMA RemoveType ==
    ASSUME events \in Seq(Event), NEW i \in 1..Len(events)
    PROVE  RemoveAt(events, i) \in Seq(Event)
<1>1. SubSeq(events, 1, i - 1) \in Seq(Event)
  BY SubSeqProperties
<1>2. SubSeq(events, i + 1, Len(events)) \in Seq(Event)
  BY SubSeqProperties
<1>3. QED
  BY <1>1, <1>2, ConcatProperties DEF RemoveAt

\* A commit keeps the row a row, and if nobody else has committed since the row
\* was loaded it writes exactly what the task made of it.
LEMMA CommitType ==
    ASSUME row \in Subscription, NEW t, NEW new \in Subscription,
           seen[t] \in Subscription, Commit(t, new)
    PROVE  /\ row' \in Subscription
           /\ seen[t] = row => row' = new
BY DEF Commit, Subscription

\* A task that starts, finishes or goes on keeps the invariant.
LEMMA LoadPlan ==
    ASSUME TypeOK, PlanInv, NEW t \in Tasks, NEW what \in Task, Load(t, what),
           UNCHANGED row, what.kind = "recount" => what.sub = row.sub
    PROVE  PlanInv'
<1>1. \A u \in Tasks : u # t =>
          pc'[u] = pc[u] /\ task'[u] = task[u] /\ seen'[u] = seen[u]
  BY DEF Load, TypeOK, TasksOK
<1>2. pc'[t] = "loaded" /\ task'[t] = what /\ seen'[t] = row
  BY DEF Load, TypeOK, TasksOK
<1>3. ~overlap' => ~overlap /\ \A u \in Tasks : u # t => pc[u] = "idle"
  BY DEF Load, TypeOK, TasksOK, Busy
<1>4. QED
  BY <1>1, <1>2, <1>3 DEF PlanInv, Busy, At

LEMMA FinishPlan ==
    ASSUME TypeOK, PlanInv, NEW t \in Tasks, Finish(t), Busy(t), UNCHANGED overlap,
           ~overlap => (row'.plan = "PRO" <=> row'.sub # None)
    PROVE  PlanInv'
<1>1. \A u \in Tasks : u # t =>
          pc'[u] = pc[u] /\ task'[u] = task[u] /\ seen'[u] = seen[u]
  BY DEF Finish, TypeOK, TasksOK
<1>2. pc'[t] = "idle"
  BY DEF Finish, TypeOK, TasksOK
<1>3. ~overlap => \A u \in Tasks : u # t => pc[u] = "idle"
  BY DEF PlanInv, Busy
<1>4. QED
  BY <1>1, <1>2, <1>3 DEF PlanInv, Busy, At

LEMMA CalledPlan ==
    ASSUME TypeOK, PlanInv, NEW t \in Tasks, Called(t), UNCHANGED <<row, overlap>>,
           pc[t] = "loaded", task[t].kind # "recount"
    PROVE  PlanInv'
<1>1. \A u \in Tasks : u # t => pc'[u] = pc[u]
  BY DEF Called, TypeOK, TasksOK
<1>2. pc'[t] = "called" /\ UNCHANGED <<task, seen>>
  BY DEF Called, TypeOK, TasksOK
<1>3. QED
  BY <1>1, <1>2 DEF PlanInv, Busy, At

-----------------------------------------------------------------------------
(* Steps. *)

\* Every step keeps the types.
LEMMA TypeStep ==
    ASSUME TypeOK, [Next]_vars
    PROVE  TypeOK'
<1> USE DEF vars, stripeVars, sessionVars, taskVars, historyVars
<1>1. ASSUME NEW s \in Subs, PayCheckout(s) PROVE TypeOK'
  <2>1. events' \in Seq(Event)
    BY <1>1, SendType, ReportType, EventSeqs, Members DEF PayCheckout,
       TypeOK, StripeOK
  <2>2. StripeOK'
    BY <1>1, Members DEF PayCheckout, TypeOK, StripeOK
  <2>3. QED
    BY <1>1, <2>1, <2>2 DEF PayCheckout, TypeOK, TasksOK
<1>2. ASSUME NEW s \in Subs, InvoiceFails(s) PROVE TypeOK'
  <2>1. events' \in Seq(Event)
    BY <1>2, SendType, ReportType, EventSeqs, Members DEF InvoiceFails,
       TypeOK, StripeOK
  <2>2. StripeOK'
    BY <1>2, Members DEF InvoiceFails, TypeOK, StripeOK
  <2>3. QED
    BY <1>2, <2>1, <2>2 DEF InvoiceFails, TypeOK, TasksOK
<1>3. ASSUME NEW s \in Subs, InvoicePaid(s) PROVE TypeOK'
  <2>1. events' \in Seq(Event)
    BY <1>3, SendType, ReportType, EventSeqs, Members DEF InvoicePaid,
       TypeOK, StripeOK
  <2>2. StripeOK'
    BY <1>3, Members DEF InvoicePaid, TypeOK, StripeOK
  <2>3. QED
    BY <1>3, <2>1, <2>2 DEF InvoicePaid, TypeOK, TasksOK
<1>4. ASSUME NEW s \in Subs, SubscriptionEnds(s) PROVE TypeOK'
  <2>1. events' \in Seq(Event)
    BY <1>4, SendType, ReportType, EventSeqs, Members DEF SubscriptionEnds,
       TypeOK, StripeOK, Live
  <2>2. StripeOK'
    BY <1>4, Members DEF SubscriptionEnds, TypeOK, StripeOK, End
  <2>3. QED
    BY <1>4, <2>1, <2>2 DEF SubscriptionEnds, TypeOK, TasksOK
<1>5. ASSUME NEW s \in Subs, ScheduleApplies(s) PROVE TypeOK'
  <2>1. events' \in Seq(Event)
    BY <1>5, SendType, ReportType, EventSeqs, Members DEF ScheduleApplies,
       TypeOK, StripeOK, Live
  <2>2. StripeOK'
    BY <1>5, Members DEF ScheduleApplies, TypeOK, StripeOK
  <2>3. QED
    BY <1>5, <2>1, <2>2 DEF ScheduleApplies, TypeOK, TasksOK
<1>6. ASSUME NEW s \in Subs, SubscribeToPro(s) PROVE TypeOK'
  <2>1. StripeOK'
    BY <1>6, Members DEF SubscribeToPro, TypeOK, StripeOK
  <2>2. QED
    BY <1>6, <2>1 DEF SubscribeToPro, TypeOK, TasksOK
<1>7. ASSUME NEW s \in Subs, NEW n \in Counts, ServiceUpdateCheckout(s, n)
   PROVE TypeOK'
  <2>1. StripeOK'
    BY <1>7, Members DEF ServiceUpdateCheckout, TypeOK, StripeOK,
       Subscription
  <2>2. QED
    BY <1>7, <2>1 DEF ServiceUpdateCheckout, TypeOK, TasksOK
<1>8. ASSUME NEW t \in Tasks, HandleWebhook(t) PROVE TypeOK'
  <2>1. PICK i \in 1..Len(events) : HandleWebhook(t)!(i)
    BY <1>8 DEF HandleWebhook
  <2>2. events' \in Seq(Event) /\ events[i] \in Event
    BY <2>1, RemoveType DEF TypeOK
  <2>3. TasksOK'
    BY <2>1, <2>2, LoadType, EventTask DEF TypeOK, TasksOK
  <2>4. QED
    BY <2>1, <2>2, <2>3 DEF TypeOK, StripeOK
<1>9. ASSUME NEW t \in Tasks, SubscriptionCreated(t) PROVE TypeOK'
  <2>1. row' \in Subscription
    <3>1. [seen[t] EXCEPT !.sub = task[t].sub, !.plan = "PRO", !.status =
       KeepActive(t)] \in Subscription
      BY <1>9, TaskType, Members DEF SubscriptionCreated, At, KeepActive,
         Webhooks, Subscription
    <3>2. QED
      BY <1>9, <3>1, TaskType, CommitType DEF SubscriptionCreated, TypeOK
  <2>2. TasksOK'
    BY <1>9, FinishType DEF SubscriptionCreated, TypeOK
  <2>3. QED
    BY <1>9, <2>1, <2>2 DEF SubscriptionCreated, TypeOK, StripeOK
<1>10. ASSUME NEW t \in Tasks, SubscriptionUpdated(t) PROVE TypeOK'
  <2>1. row' \in Subscription
    <3>1. [seen[t] EXCEPT !.status = KeepActive(t), !.billable =
       task[t].count, !.pending = IF @ = task[t].count /\ seen[t].billable #
       task[t].count THEN None ELSE @] \in Subscription
      BY <1>10, TaskType, Members DEF SubscriptionUpdated, At, KeepActive,
         Subscription
    <3>2. QED
      BY <1>10, <3>1, TaskType, CommitType DEF SubscriptionUpdated, TypeOK
  <2>2. TasksOK'
    BY <1>10, FinishType DEF SubscriptionUpdated, TypeOK
  <2>3. QED
    BY <1>10, <2>1, <2>2 DEF SubscriptionUpdated, TypeOK, StripeOK
<1>11. ASSUME NEW t \in Tasks, SubscriptionDeleted(t) PROVE TypeOK'
  <2>1. row' \in Subscription
    <3>1. [seen[t] EXCEPT !.plan = "FREE", !.sub = None, !.status = "ACTIVE",
       !.billable = 0] \in Subscription
      BY <1>11, TaskType, Members DEF SubscriptionDeleted, At, Subscription
    <3>2. QED
      BY <1>11, <3>1, TaskType, CommitType DEF SubscriptionDeleted, TypeOK
  <2>2. TasksOK'
    BY <1>11, FinishType DEF SubscriptionDeleted, TypeOK
  <2>3. QED
    BY <1>11, <2>1, <2>2 DEF SubscriptionDeleted, TypeOK, StripeOK
<1>12. ASSUME NEW t \in Tasks, PaymentFailed(t) PROVE TypeOK'
  <2>1. row' \in Subscription
    <3>1. [seen[t] EXCEPT !.status = "PAST_DUE"] \in Subscription
      BY <1>12, TaskType, Members DEF PaymentFailed, At, Subscription
    <3>2. QED
      BY <1>12, <3>1, TaskType, CommitType DEF PaymentFailed, TypeOK
  <2>2. TasksOK'
    BY <1>12, FinishType DEF PaymentFailed, TypeOK
  <2>3. QED
    BY <1>12, <2>1, <2>2 DEF PaymentFailed, TypeOK, StripeOK
<1>13. ASSUME NEW t \in Tasks, PaymentSucceeded(t) PROVE TypeOK'
  <2>1. row' \in Subscription
    <3>1. [seen[t] EXCEPT !.status = IF @ = "PAST_DUE" THEN "ACTIVE" ELSE @]
       \in Subscription
      BY <1>13, TaskType, Members DEF PaymentSucceeded, At, Subscription
    <3>2. QED
      BY <1>13, <3>1, TaskType, CommitType DEF PaymentSucceeded, TypeOK
  <2>2. TasksOK'
    BY <1>13, FinishType DEF PaymentSucceeded, TypeOK
  <2>3. QED
    BY <1>13, <2>1, <2>2 DEF PaymentSucceeded, TypeOK, StripeOK
<1>14. ASSUME NEW t \in Tasks, CheckoutCompleted(t) PROVE TypeOK'
  <2>1. row' \in Subscription
    <3>1. CheckoutRow(t) \in Subscription
      BY <1>14, TaskType, Members DEF CheckoutCompleted, At, CheckoutRow,
         Webhooks, StripeOK, TypeOK, TasksOK, Subscription
    <3>2. QED
      BY <1>14, <3>1, TaskType, CommitType DEF CheckoutCompleted, TypeOK
  <2>2. TasksOK'
    BY <1>14, FinishType, TaskType, Members DEF CheckoutCompleted, TypeOK,
       TasksOK, At, Task
  <2>3. QED
    BY <1>14, <2>1, <2>2 DEF CheckoutCompleted, TypeOK, StripeOK
<1>15. ASSUME NEW t \in Tasks, CheckoutNotFetched(t) PROVE TypeOK'
  <2>1. TasksOK'
    BY <1>15, FinishType DEF CheckoutNotFetched, TypeOK
  <2>2. QED
    BY <1>15, <2>1 DEF CheckoutNotFetched, TypeOK, StripeOK
<1>16. ASSUME NEW t \in Tasks, DeleteOld(t) PROVE TypeOK'
  <2>1. events' \in Seq(Event)
    BY <1>16, SendType, ReportType, EventSeqs, TaskType, Members DEF
       DeleteOld, TypeOK, StripeOK, TasksOK, Live
  <2>2. StripeOK'
    <3>1. task[t].sub \in Subs /\ old[task[t].sub] \in Subs \union {None}
      BY <1>16 DEF DeleteOld, TypeOK, StripeOK, TasksOK
    <3>2. CASE UNCHANGED <<stripeVars, events, historyVars>>
      BY <1>16, <3>2 DEF DeleteOld, TypeOK, StripeOK
    <3>3. CASE \E s \in Subs : End(s) /\ replaced' = replaced \union {s}
                              /\ disputed' = disputed
      BY <1>16, <3>3, Members DEF DeleteOld, TypeOK, StripeOK, End
    <3>4. QED
      BY <1>16, <3>1, <3>2, <3>3 DEF DeleteOld
  <2>3. TasksOK'
    BY <1>16, FinishType DEF DeleteOld, TypeOK
  <2>4. QED
    BY <1>16, <2>1, <2>2, <2>3 DEF DeleteOld, TypeOK
<1>17. ASSUME NEW t \in Tasks, CancelSubscription(t) PROVE TypeOK'
  <2>1. TasksOK'
    BY <1>17, LoadType, AskTask, Members DEF CancelSubscription, Ask, TypeOK,
       StripeOK
  <2>2. QED
    BY <1>17, <2>1 DEF CancelSubscription, TypeOK, StripeOK, Ask
<1>18. ASSUME NEW t \in Tasks, CancelPendingDowngrade(t) PROVE TypeOK'
  <2>1. TasksOK'
    BY <1>18, LoadType, AskTask, Members DEF CancelPendingDowngrade, Ask,
       TypeOK, StripeOK
  <2>2. QED
    BY <1>18, <2>1 DEF CancelPendingDowngrade, TypeOK, StripeOK, Ask
<1>19. ASSUME NEW t \in Tasks, RequestFails(t) PROVE TypeOK'
  <2>1. TasksOK'
    BY <1>19, FinishType DEF RequestFails, TypeOK
  <2>2. QED
    BY <1>19, <2>1 DEF RequestFails, TypeOK, StripeOK
<1>20. ASSUME NEW t \in Tasks, NEW n \in Counts, UpdateServiceCount(t, n)
   PROVE TypeOK'
  <2>1. TasksOK'
    BY <1>20, LoadType, AskTask, Members DEF UpdateServiceCount, Ask, TypeOK,
       StripeOK
  <2>2. QED
    BY <1>20, <2>1 DEF UpdateServiceCount, TypeOK, StripeOK, Ask
<1>21. ASSUME NEW t \in Tasks, NEW n \in Counts, DowngradeServices(t, n)
   PROVE TypeOK'
  <2>1. TasksOK'
    BY <1>21, LoadType, AskTask, Members DEF DowngradeServices, Ask, TypeOK,
       StripeOK
  <2>2. QED
    BY <1>21, <2>1 DEF DowngradeServices, TypeOK, StripeOK, Ask
<1>22. ASSUME NEW t \in Tasks, ReleaseFirst(t) PROVE TypeOK'
  <2>1. StripeOK'
    BY <1>22, TaskType, Members DEF ReleaseFirst, TypeOK, StripeOK
  <2>2. QED
    BY <1>22, <2>1 DEF ReleaseFirst, TypeOK, TasksOK
<1>23. ASSUME NEW t \in Tasks, StripeCancels(t) PROVE TypeOK'
  <2>1. events' \in Seq(Event)
    BY <1>23, SendType, ReportType, EventSeqs, TaskType, Members DEF
       StripeCancels, TypeOK, StripeOK, Live
  <2>2. StripeOK'
    BY <1>23, TaskType, Members DEF StripeCancels, TypeOK, StripeOK, End
  <2>3. TasksOK'
    BY <1>23, CalledType DEF StripeCancels, TypeOK
  <2>4. QED
    BY <1>23, <2>1, <2>2, <2>3 DEF StripeCancels, TypeOK
<1>24. ASSUME NEW t \in Tasks, CancelNow(t) PROVE TypeOK'
  <2>1. row' \in Subscription
    <3>1. [seen[t] EXCEPT !.plan = "FREE", !.sub = None, !.status = "ACTIVE",
       !.pending = IF seen[t].sub = None THEN @ ELSE None] \in Subscription
      BY <1>24, TaskType, Members DEF CancelNow, At, Subscription
    <3>2. QED
      BY <1>24, <3>1, TaskType, CommitType DEF CancelNow, TypeOK
  <2>2. TasksOK'
    BY <1>24, FinishType DEF CancelNow, TypeOK
  <2>3. QED
    BY <1>24, <2>1, <2>2 DEF CancelNow, TypeOK, StripeOK
<1>25. ASSUME NEW t \in Tasks, StripeCancelsLater(t) PROVE TypeOK'
  <2>1. events' \in Seq(Event)
    BY <1>25, SendType, ReportType, EventSeqs, TaskType, Members DEF
       StripeCancelsLater, TypeOK, StripeOK, Live
  <2>2. StripeOK'
    BY <1>25, TaskType, Members DEF StripeCancelsLater, TypeOK, StripeOK
  <2>3. TasksOK'
    BY <1>25, CalledType DEF StripeCancelsLater, TypeOK
  <2>4. QED
    BY <1>25, <2>1, <2>2, <2>3 DEF StripeCancelsLater, TypeOK
<1>26. ASSUME NEW t \in Tasks, CancelLater(t) PROVE TypeOK'
  <2>1. row' \in Subscription
    <3>1. [seen[t] EXCEPT !.pending = IF seen[t].sub = None THEN @ ELSE None]
       \in Subscription
      BY <1>26, TaskType, Members DEF CancelLater, At, Subscription
    <3>2. QED
      BY <1>26, <3>1, TaskType, CommitType DEF CancelLater, TypeOK
  <2>2. TasksOK'
    BY <1>26, FinishType DEF CancelLater, TypeOK
  <2>3. QED
    BY <1>26, <2>1, <2>2 DEF CancelLater, TypeOK, StripeOK
<1>27. ASSUME NEW t \in Tasks, StripeResets(t) PROVE TypeOK'
  <2>1. events' \in Seq(Event)
    BY <1>27, SendType, ReportType, EventSeqs, TaskType, Members
    DEF StripeResets, TypeOK, StripeOK, Live
  <2>2. task[t].sub \in Subs /\ task[t].count \in Counts
    BY <1>27, TaskType DEF StripeResets
  <2>3. stripe' \in [Subs -> SubscriptionStatus \union {"none"}]
    BY <1>27, Members DEF StripeResets, TypeOK, StripeOK
  <2>4. quantity' \in [Subs -> Counts]
    BY <1>27, <2>2 DEF StripeResets, TypeOK, StripeOK
  <2>5. schedule' \in [Subs -> Counts \union {None}]
    BY <1>27 DEF StripeResets, TypeOK, StripeOK
  <2>6. StripeOK'
    BY <1>27, <2>3, <2>4, <2>5 DEF StripeResets, TypeOK, StripeOK
  <2>7. TasksOK'
    <3>1. CASE Finish(t)
      BY <1>27, <3>1, FinishType DEF StripeResets, TypeOK
    <3>2. ASSUME NEW new \in Subs, task' = [task EXCEPT ![t].sub = new],
                 pc' = [pc EXCEPT ![t] = "called"], UNCHANGED seen
          PROVE  TasksOK'
      <4>1. task' \in [Tasks -> Task]
        BY <3>2 DEF TypeOK, TasksOK, Task
      <4>2. \A u \in Tasks : pc'[u] = "cleanup" \/ task'[u].kind \in Webhooks
                => task'[u].sub \in Subs
        BY <3>2 DEF TypeOK, TasksOK, Task
      <4>3. QED
        BY <1>27, <3>2, <4>1, <4>2 DEF StripeResets, TypeOK, TasksOK
    <3>3. QED
      BY <1>27, <3>1, <3>2 DEF StripeResets
  <2>8. QED
    BY <1>27, <2>1, <2>6, <2>7 DEF StripeResets, TypeOK
<1>28. ASSUME NEW t \in Tasks, Recount(t) PROVE TypeOK'
  <2>1. row' \in Subscription
    <3>1. [seen[t] EXCEPT !.sub = task[t].sub, !.billable = task[t].count,
       !.pending = None] \in Subscription
      BY <1>28, TaskType, Members DEF Recount, At, Subscription
    <3>2. QED
      BY <1>28, <3>1, TaskType, CommitType DEF Recount, TypeOK
  <2>2. TasksOK'
    BY <1>28, FinishType DEF Recount, TypeOK
  <2>3. QED
    BY <1>28, <2>1, <2>2 DEF Recount, TypeOK, StripeOK
<1>29. ASSUME NEW t \in Tasks, StripeSchedules(t) PROVE TypeOK'
  <2>1. StripeOK'
    BY <1>29, TaskType, Members DEF StripeSchedules, TypeOK, StripeOK
  <2>2. TasksOK'
    BY <1>29, CalledType DEF StripeSchedules, TypeOK
  <2>3. QED
    BY <1>29, <2>1, <2>2 DEF StripeSchedules, TypeOK
<1>30. ASSUME NEW t \in Tasks, Downgrade(t) PROVE TypeOK'
  <2>1. row' \in Subscription
    <3>1. [seen[t] EXCEPT !.pending = task[t].count] \in Subscription
      BY <1>30, TaskType, Members DEF Downgrade, At, Subscription
    <3>2. QED
      BY <1>30, <3>1, TaskType, CommitType DEF Downgrade, TypeOK
  <2>2. TasksOK'
    BY <1>30, FinishType DEF Downgrade, TypeOK
  <2>3. QED
    BY <1>30, <2>1, <2>2 DEF Downgrade, TypeOK, StripeOK
<1>31. ASSUME NEW t \in Tasks, StripeReleases(t) PROVE TypeOK'
  <2>1. StripeOK'
    BY <1>31, TaskType, Members DEF StripeReleases, TypeOK, StripeOK
  <2>2. TasksOK'
    BY <1>31, CalledType DEF StripeReleases, TypeOK
  <2>3. QED
    BY <1>31, <2>1, <2>2 DEF StripeReleases, TypeOK
<1>32. ASSUME NEW t \in Tasks, KeepServices(t) PROVE TypeOK'
  <2>1. row' \in Subscription
    <3>1. [seen[t] EXCEPT !.pending = None] \in Subscription
      BY <1>32, TaskType, Members DEF KeepServices, At, Subscription
    <3>2. QED
      BY <1>32, <3>1, TaskType, CommitType DEF KeepServices, TypeOK
  <2>2. TasksOK'
    BY <1>32, FinishType DEF KeepServices, TypeOK
  <2>3. QED
    BY <1>32, <2>1, <2>2 DEF KeepServices, TypeOK, StripeOK
<1>33. ASSUME NEW t \in Tasks, FetchSubscription(t) PROVE TypeOK'
  <2>1. TasksOK'
    BY <1>33, LoadType, AskTask, Members DEF FetchSubscription, TypeOK,
       StripeOK, Subscription
  <2>2. QED
    BY <1>33, <2>1 DEF FetchSubscription, TypeOK, StripeOK
<1>34. ASSUME NEW t \in Tasks, SyncSubscription(t) PROVE TypeOK'
  <2>1. row' \in Subscription
    <3>1. [seen[t] EXCEPT !.status = task[t].status, !.billable =
       task[t].count] \in Subscription
      BY <1>34, TaskType, Members DEF SyncSubscription, At, Subscription
    <3>2. QED
      BY <1>34, <3>1, TaskType, CommitType DEF SyncSubscription, TypeOK
  <2>2. TasksOK'
    BY <1>34, FinishType DEF SyncSubscription, TypeOK
  <2>3. QED
    BY <1>34, <2>1, <2>2 DEF SyncSubscription, TypeOK, StripeOK
<1>35. CASE UNCHANGED vars
  BY <1>35 DEF TypeOK, StripeOK, TasksOK
<1>36. QED
  BY <1>1, <1>2, <1>3, <1>4, <1>5, <1>6, <1>7, <1>8, <1>9, <1>10, <1>11,
     <1>12, <1>13, <1>14, <1>15, <1>16, <1>17, <1>18, <1>19, <1>20, <1>21,
     <1>22, <1>23, <1>24, <1>25, <1>26, <1>27, <1>28, <1>29, <1>30, <1>31,
     <1>32, <1>33, <1>34, <1>35 DEF Next, StripeStep, CheckoutStep,
     WebhookStep, RequestStep

\* No step takes plan and subscription apart.
LEMMA PlanStep ==
    ASSUME TypeOK, PlanInv, [Next]_vars
    PROVE  PlanInv'
<1> USE DEF vars, stripeVars, sessionVars, taskVars, historyVars
<1>1. ASSUME NEW s \in Subs, PayCheckout(s) PROVE PlanInv'
  BY <1>1 DEF PayCheckout, PlanInv, At, Busy
<1>2. ASSUME NEW s \in Subs, InvoiceFails(s) PROVE PlanInv'
  BY <1>2 DEF InvoiceFails, PlanInv, At, Busy
<1>3. ASSUME NEW s \in Subs, InvoicePaid(s) PROVE PlanInv'
  BY <1>3 DEF InvoicePaid, PlanInv, At, Busy
<1>4. ASSUME NEW s \in Subs, SubscriptionEnds(s) PROVE PlanInv'
  BY <1>4 DEF SubscriptionEnds, PlanInv, At, Busy
<1>5. ASSUME NEW s \in Subs, ScheduleApplies(s) PROVE PlanInv'
  BY <1>5 DEF ScheduleApplies, PlanInv, At, Busy
<1>6. ASSUME NEW s \in Subs, SubscribeToPro(s) PROVE PlanInv'
  BY <1>6 DEF SubscribeToPro, PlanInv, At, Busy
<1>7. ASSUME NEW s \in Subs, NEW n \in Counts, ServiceUpdateCheckout(s, n)
   PROVE PlanInv'
  BY <1>7 DEF ServiceUpdateCheckout, PlanInv, At, Busy
<1>8. ASSUME NEW t \in Tasks, HandleWebhook(t) PROVE PlanInv'
  <2>1. PICK i \in 1..Len(events) : HandleWebhook(t)!(i)
    BY <1>8 DEF HandleWebhook
  <2>2. events[i] \in Event
    BY <2>1 DEF TypeOK
  <2>3. events[i].kind # "recount"
    BY <2>2 DEF Event, Webhooks
  <2>4. QED
    BY <2>1, <2>2, <2>3, LoadPlan, EventTask DEF PlanInv, Busy, At
<1>9. ASSUME NEW t \in Tasks, SubscriptionCreated(t) PROVE PlanInv'
  <2>1. [seen[t] EXCEPT !.sub = task[t].sub, !.plan = "PRO", !.status =
     KeepActive(t)] \in Subscription
    BY <1>9, TaskType, Members DEF SubscriptionCreated, At, KeepActive,
       Webhooks, Subscription
  <2>2. ~overlap => seen[t] = row /\ row' = [seen[t] EXCEPT !.sub =
     task[t].sub, !.plan = "PRO", !.status = KeepActive(t)]
    BY <1>9, <2>1, TaskType, CommitType DEF SubscriptionCreated, PlanInv, At,
       TypeOK
  <2>3. ~overlap => (row'.plan = "PRO" <=> row'.sub # None)
    <3>1. task[t].sub \in Subs
      BY <1>9, TaskType DEF SubscriptionCreated, At, Webhooks
    <3>2. QED
      BY <1>9, <2>2, <3>1, TaskType, Members DEF Subscription
  <2>4. QED
    BY <1>9, <2>3, FinishPlan DEF SubscriptionCreated, At, Busy
<1>10. ASSUME NEW t \in Tasks, SubscriptionUpdated(t) PROVE PlanInv'
  <2>1. [seen[t] EXCEPT !.status = KeepActive(t), !.billable = task[t].count,
     !.pending = IF @ = task[t].count /\ seen[t].billable # task[t].count
     THEN None ELSE @] \in Subscription
    BY <1>10, TaskType, Members DEF SubscriptionUpdated, At, KeepActive,
       Subscription
  <2>2. ~overlap => seen[t] = row /\ row' = [seen[t] EXCEPT !.status =
     KeepActive(t), !.billable = task[t].count, !.pending = IF @ =
     task[t].count /\ seen[t].billable # task[t].count THEN None ELSE @]
    BY <1>10, <2>1, TaskType, CommitType DEF SubscriptionUpdated, PlanInv,
       At, TypeOK
  <2>3. ~overlap => (row'.plan = "PRO" <=> row'.sub # None)
    <3>1. ~overlap => row'.plan = row.plan /\ row'.sub = row.sub
      BY <1>10, <2>2, TaskType DEF Subscription
    <3>2. QED
      BY <3>1 DEF PlanInv
  <2>4. QED
    BY <1>10, <2>3, FinishPlan DEF SubscriptionUpdated, At, Busy
<1>11. ASSUME NEW t \in Tasks, SubscriptionDeleted(t) PROVE PlanInv'
  <2>1. [seen[t] EXCEPT !.plan = "FREE", !.sub = None, !.status = "ACTIVE",
     !.billable = 0] \in Subscription
    BY <1>11, TaskType, Members DEF SubscriptionDeleted, At, Subscription
  <2>2. ~overlap => seen[t] = row /\ row' = [seen[t] EXCEPT !.plan = "FREE",
     !.sub = None, !.status = "ACTIVE", !.billable = 0]
    BY <1>11, <2>1, TaskType, CommitType DEF SubscriptionDeleted, PlanInv,
       At, TypeOK
  <2>3. ~overlap => (row'.plan = "PRO" <=> row'.sub # None)
    BY <1>11, <2>2, TaskType, Members DEF SubscriptionDeleted, PlanInv, At,
       Subscription
  <2>4. QED
    BY <1>11, <2>3, FinishPlan DEF SubscriptionDeleted, At, Busy
<1>12. ASSUME NEW t \in Tasks, PaymentFailed(t) PROVE PlanInv'
  <2>1. [seen[t] EXCEPT !.status = "PAST_DUE"] \in Subscription
    BY <1>12, TaskType, Members DEF PaymentFailed, At, Subscription
  <2>2. ~overlap => (row'.plan = "PRO" <=> row'.sub # None)
    BY <1>12, <2>1, TaskType, CommitType, Members DEF PaymentFailed, PlanInv,
       At, TypeOK, Subscription
  <2>3. QED
    BY <1>12, <2>2, FinishPlan DEF PaymentFailed, At, Busy
<1>13. ASSUME NEW t \in Tasks, PaymentSucceeded(t) PROVE PlanInv'
  <2>1. [seen[t] EXCEPT !.status = IF @ = "PAST_DUE" THEN "ACTIVE" ELSE @]
     \in Subscription
    BY <1>13, TaskType, Members DEF PaymentSucceeded, At, Subscription
  <2>2. ~overlap => (row'.plan = "PRO" <=> row'.sub # None)
    BY <1>13, <2>1, TaskType, CommitType, Members DEF PaymentSucceeded,
       PlanInv, At, TypeOK, Subscription
  <2>3. QED
    BY <1>13, <2>2, FinishPlan DEF PaymentSucceeded, At, Busy
<1>14. ASSUME NEW t \in Tasks, CheckoutCompleted(t) PROVE PlanInv'
  <2>1. CheckoutRow(t) \in Subscription
    BY <1>14, TaskType, Members DEF CheckoutCompleted, At, CheckoutRow, StripeOK,
       TypeOK, TasksOK, Subscription
  <2>2. CheckoutRow(t).plan = "PRO" /\ CheckoutRow(t).sub # None
    BY <1>14, TaskType, Members DEF CheckoutCompleted, At, CheckoutRow, Subscription
  <2>3. ~overlap => (row'.plan = "PRO" <=> row'.sub # None)
    BY <1>14, <2>1, <2>2, TaskType, CommitType
    DEF CheckoutCompleted, PlanInv, At, TypeOK
  <2>4. CASE Finish(t)
    BY <1>14, <2>3, <2>4, FinishPlan DEF CheckoutCompleted, At, Busy
  <2>5. CASE pc' = [pc EXCEPT ![t] = "cleanup"] /\ UNCHANGED <<task, seen>>
    BY <1>14, <2>3, <2>5 DEF CheckoutCompleted, PlanInv, Busy, At, TypeOK, TasksOK
  <2>6. QED
    BY <1>14, <2>4, <2>5 DEF CheckoutCompleted
<1>15. ASSUME NEW t \in Tasks, CheckoutNotFetched(t) PROVE PlanInv'
  BY <1>15, FinishPlan DEF CheckoutNotFetched, PlanInv, At, Busy
<1>16. ASSUME NEW t \in Tasks, DeleteOld(t) PROVE PlanInv'
  BY <1>16, FinishPlan DEF DeleteOld, PlanInv, At, Busy
<1>17. ASSUME NEW t \in Tasks, CancelSubscription(t) PROVE PlanInv'
  BY <1>17, LoadPlan, AskTask, Members DEF CancelSubscription, Ask, TypeOK
<1>18. ASSUME NEW t \in Tasks, CancelPendingDowngrade(t) PROVE PlanInv'
  BY <1>18, LoadPlan, AskTask, Members DEF CancelPendingDowngrade, Ask,
     TypeOK
<1>19. ASSUME NEW t \in Tasks, RequestFails(t) PROVE PlanInv'
  BY <1>19, FinishPlan DEF RequestFails, PlanInv, At, Busy
<1>20. ASSUME NEW t \in Tasks, NEW n \in Counts, UpdateServiceCount(t, n)
   PROVE PlanInv'
  BY <1>20, LoadPlan, AskTask, Members DEF UpdateServiceCount, Ask, TypeOK
<1>21. ASSUME NEW t \in Tasks, NEW n \in Counts, DowngradeServices(t, n)
   PROVE PlanInv'
  BY <1>21, LoadPlan, AskTask, Members DEF DowngradeServices, Ask, TypeOK
<1>22. ASSUME NEW t \in Tasks, ReleaseFirst(t) PROVE PlanInv'
  BY <1>22 DEF ReleaseFirst, PlanInv, At, Busy
<1>23. ASSUME NEW t \in Tasks, StripeCancels(t) PROVE PlanInv'
  BY <1>23, CalledPlan DEF StripeCancels, At
<1>24. ASSUME NEW t \in Tasks, CancelNow(t) PROVE PlanInv'
  <2>1. [seen[t] EXCEPT !.plan = "FREE", !.sub = None, !.status = "ACTIVE",
     !.pending = IF seen[t].sub = None THEN @ ELSE None] \in Subscription
    BY <1>24, TaskType, Members DEF CancelNow, At, Subscription
  <2>2. ~overlap => seen[t] = row /\ row' = [seen[t] EXCEPT !.plan = "FREE",
     !.sub = None, !.status = "ACTIVE", !.pending = IF seen[t].sub = None
     THEN @ ELSE None]
    BY <1>24, <2>1, TaskType, CommitType DEF CancelNow, PlanInv, At, TypeOK
  <2>3. ~overlap => (row'.plan = "PRO" <=> row'.sub # None)
    BY <1>24, <2>2, TaskType, Members DEF CancelNow, PlanInv, At,
       Subscription
  <2>4. QED
    BY <1>24, <2>3, FinishPlan DEF CancelNow, At, Busy
<1>25. ASSUME NEW t \in Tasks, StripeCancelsLater(t) PROVE PlanInv'
  BY <1>25, CalledPlan DEF StripeCancelsLater, At
<1>26. ASSUME NEW t \in Tasks, CancelLater(t) PROVE PlanInv'
  <2>1. [seen[t] EXCEPT !.pending = IF seen[t].sub = None THEN @ ELSE None]
     \in Subscription
    BY <1>26, TaskType, Members DEF CancelLater, At, Subscription
  <2>2. ~overlap => (row'.plan = "PRO" <=> row'.sub # None)
    BY <1>26, <2>1, TaskType, CommitType, Members DEF CancelLater, PlanInv,
       At, TypeOK, Subscription
  <2>3. QED
    BY <1>26, <2>2, FinishPlan DEF CancelLater, At, Busy
<1>27. ASSUME NEW t \in Tasks, StripeResets(t) PROVE PlanInv'
  <2>1. CASE Finish(t)
    BY <1>27, <2>1, FinishPlan DEF StripeResets, PlanInv, At, Busy
  <2>2. ASSUME NEW new \in Subs, task' = [task EXCEPT ![t].sub = new],
               pc' = [pc EXCEPT ![t] = "called"], UNCHANGED seen
        PROVE  PlanInv'
    <3>1. /\ UNCHANGED <<row, overlap>>
          /\ At(t, "loaded", "recount") /\ task[t].sub # None
      BY <1>27 DEF StripeResets
    <3>2. \A u \in Tasks : u # t => pc'[u] = pc[u] /\ task'[u] = task[u]
      BY <2>2 DEF TypeOK, TasksOK
    <3>3. pc'[t] = "called" /\ task'[t].sub = new /\ new # None
      BY <2>2, Members DEF TypeOK, TasksOK, Task
    <3>4. QED
      BY <2>2, <3>1, <3>2, <3>3 DEF PlanInv, Busy, At
  <2>3. QED
    BY <1>27, <2>1, <2>2 DEF StripeResets
<1>28. ASSUME NEW t \in Tasks, Recount(t) PROVE PlanInv'
  <2>1. [seen[t] EXCEPT !.sub = task[t].sub, !.billable = task[t].count,
     !.pending = None] \in Subscription
    BY <1>28, TaskType, Members DEF Recount, At, Subscription
  <2>2. ~overlap => seen[t] = row /\ row' = [seen[t] EXCEPT !.sub =
     task[t].sub, !.billable = task[t].count, !.pending = None]
    BY <1>28, <2>1, TaskType, CommitType DEF Recount, PlanInv, At, TypeOK
  <2>3. ~overlap => (row'.plan = "PRO" <=> row'.sub # None)
    BY <1>28, <2>2, TaskType, Members DEF Recount, PlanInv, At, Subscription
  <2>4. QED
    BY <1>28, <2>3, FinishPlan DEF Recount, At, Busy
<1>29. ASSUME NEW t \in Tasks, StripeSchedules(t) PROVE PlanInv'
  BY <1>29, CalledPlan DEF StripeSchedules, At
<1>30. ASSUME NEW t \in Tasks, Downgrade(t) PROVE PlanInv'
  <2>1. [seen[t] EXCEPT !.pending = task[t].count] \in Subscription
    BY <1>30, TaskType, Members DEF Downgrade, At, Subscription
  <2>2. ~overlap => (row'.plan = "PRO" <=> row'.sub # None)
    BY <1>30, <2>1, TaskType, CommitType, Members DEF Downgrade, PlanInv, At,
       TypeOK, Subscription
  <2>3. QED
    BY <1>30, <2>2, FinishPlan DEF Downgrade, At, Busy
<1>31. ASSUME NEW t \in Tasks, StripeReleases(t) PROVE PlanInv'
  BY <1>31, CalledPlan DEF StripeReleases, At
<1>32. ASSUME NEW t \in Tasks, KeepServices(t) PROVE PlanInv'
  <2>1. [seen[t] EXCEPT !.pending = None] \in Subscription
    BY <1>32, TaskType, Members DEF KeepServices, At, Subscription
  <2>2. ~overlap => (row'.plan = "PRO" <=> row'.sub # None)
    BY <1>32, <2>1, TaskType, CommitType, Members DEF KeepServices, PlanInv,
       At, TypeOK, Subscription
  <2>3. QED
    BY <1>32, <2>2, FinishPlan DEF KeepServices, At, Busy
<1>33. ASSUME NEW t \in Tasks, FetchSubscription(t) PROVE PlanInv'
  BY <1>33, LoadPlan, AskTask, Members DEF FetchSubscription, TypeOK,
     StripeOK, Subscription
<1>34. ASSUME NEW t \in Tasks, SyncSubscription(t) PROVE PlanInv'
  <2>1. [seen[t] EXCEPT !.status = task[t].status, !.billable =
     task[t].count] \in Subscription
    BY <1>34, TaskType, Members DEF SyncSubscription, At, Subscription
  <2>2. ~overlap => seen[t] = row /\ row' = [seen[t] EXCEPT !.status =
     task[t].status, !.billable = task[t].count]
    BY <1>34, <2>1, TaskType, CommitType DEF SyncSubscription, PlanInv, At,
       TypeOK
  <2>3. ~overlap => (row'.plan = "PRO" <=> row'.sub # None)
    <3>1. ~overlap => row'.plan = row.plan /\ row'.sub = row.sub
      BY <1>34, <2>2, TaskType DEF Subscription
    <3>2. QED
      BY <3>1 DEF PlanInv
  <2>4. QED
    BY <1>34, <2>3, FinishPlan DEF SyncSubscription, At, Busy
<1>35. CASE UNCHANGED vars
  BY <1>35 DEF PlanInv, At, Busy
<1>36. QED
  BY <1>1, <1>2, <1>3, <1>4, <1>5, <1>6, <1>7, <1>8, <1>9, <1>10, <1>11,
     <1>12, <1>13, <1>14, <1>15, <1>16, <1>17, <1>18, <1>19, <1>20, <1>21,
     <1>22, <1>23, <1>24, <1>25, <1>26, <1>27, <1>28, <1>29, <1>30, <1>31,
     <1>32, <1>33, <1>34, <1>35 DEF Next, StripeStep, CheckoutStep,
     WebhookStep, RequestStep

-----------------------------------------------------------------------------
(* Theorems. *)

\* The first state has the right types.
LEMMA InitType == Init => TypeOK
<1>1. FreeRow \in Subscription /\ Idle \in Task /\ Idle.kind \notin Webhooks
  BY Members DEF FreeRow, Subscription, Idle, Task
<1>2. Init => StripeOK
  BY Members DEF Init, StripeOK
<1>3. Init => TasksOK
  BY <1>1, Members DEF Init, TasksOK
<1>4. Init => events \in Seq(Event)
  BY DEF Init
<1>5. QED
  BY <1>1, <1>2, <1>3, <1>4 DEF Init, TypeOK

\* The row, the webhooks and the tasks always hold what the tables and Stripe's
\* events can hold, whatever webhooks are lost, late or handled at once.
THEOREM TypeCorrect == Spec => []TypeOK
<1>1. Init => TypeOK
  BY InitType
<1>2. TypeOK /\ [Next]_vars => TypeOK'
  BY TypeStep
<1>3. QED
  BY <1>1, <1>2, PTL DEF Spec

\* Plan and subscription only come apart when two tasks overlap: in whatever order
\* webhooks come, whichever are lost, and wherever a call to Stripe fails.
THEOREM PlanTheorem == Spec => []PlanFollowsSubscription
<1>1. Init => IInv
  BY InitType DEF Init, IInv, PlanInv, Busy, At, FreeRow
<1>2. IInv /\ [Next]_vars => IInv'
  BY TypeStep, PlanStep DEF IInv
<1>3. IInv => PlanFollowsSubscription
  BY DEF IInv, PlanInv, PlanFollowsSubscription
<1>4. QED
  BY <1>1, <1>2, <1>3, PTL DEF Spec
-----------------------------------------------------------------------------
(* Stripe, its events and the row, when webhooks come in order. *)

\* An event after which the row tracks s, and a task that will make it do so.
Opens(e, s) == e.kind \in {"created", "checkout"} /\ e.sub = s
Writes(t, s) ==
    /\ task[t].sub = s
    /\ \/ pc[t] = "loaded" /\ task[t].kind \in {"created", "checkout"}
       \/ At(t, "called", "recount")
Announced(s) == \E i \in 1..Len(events) : Opens(events[i], s)
Gone(s) == ~Announced(s) /\ \A t \in Tasks : ~Writes(t, s)
Deleting(t, s) == At(t, "loaded", "deleted") /\ task[t].sub = s

\* The end of s is reported after everything that tracks it.
EndReported(s) ==
    \E i \in 1..Len(events) :
        /\ events[i].kind = "deleted" /\ events[i].sub = s
        /\ \A j \in 1..Len(events) : Opens(events[j], s) => j < i

\* Nothing is known of a subscription that does not exist yet; one whose end was
\* reported has ended; and a subscription is announced before the payment of the one that
\* replaces it.
StripeInv ==
    /\ \A s \in Subs : session[s] = "open" => stripe[s] = "none"
    /\ \A s \in Subs : stripe[s] = "none" =>
          /\ row.sub # s
          /\ \A t \in Tasks : task[t].sub # s
          /\ \A i \in 1..Len(events) : events[i].sub # s
          /\ \A r \in Subs : old[r] # s
    /\ \A i \in 1..Len(events) : events[i].kind = "deleted" => stripe[events[i].sub] = "CANCELED"
    /\ \A t \in Tasks : At(t, "loaded", "deleted") => stripe[task[t].sub] = "CANCELED"
    /\ \A i, j \in 1..Len(events) :
          events[i].kind = "checkout" /\ Opens(events[j], old[events[i].sub]) => j < i
    /\ \A t \in Tasks : At(t, "loaded", "recount") => task[t].sub = seen[t].sub

\* While no two tasks overlap, a subscription that has ended is not tracked any
\* more, or will be taken away.
EndInv ==
    ~overlap =>
        /\ \A t \in Tasks : At(t, "called", "recount") => Announced(task[t].sub)
        /\ \A s \in Subs : stripe[s] = "CANCELED" =>
              \/ EndReported(s)
              \/ Gone(s) /\ (row.sub = s => \E t \in Tasks : Deleting(t, s))

\* A subscription that a Checkout replaces without dispute is tracked no more once
\* that is committed.
Replacing(t, s) ==
    /\ At(t, "loaded", "checkout") \/ pc[t] = "cleanup"
    /\ old[task[t].sub] = s
ReplaceInv ==
    /\ \A s \in Subs \ disputed : \A t \in Tasks : Replacing(t, s) =>
          /\ Gone(s)
          /\ pc[t] = "cleanup" => row.sub # s
          /\ pc[t] = "loaded" /\ row.sub = s => seen[t].sub # task[t].sub
    /\ \A s \in replaced \ disputed :
          /\ Gone(s) /\ row.sub # s /\ stripe[s] = "CANCELED"
          /\ \A t \in Tasks : ~Deleting(t, s)

\* What a step that tracks nothing new does: some tasks end or have called Stripe, the
\* row stays, is emptied or tracks what a task was to make it track, and Stripe may
\* report something, the end of a subscription if it ends one.
TasksGoOn ==
    \A u \in Tasks :
        \/ pc'[u] = pc[u] /\ task'[u] = task[u] /\ seen'[u] = seen[u]
        \/ pc'[u] = "idle" /\ task'[u].sub = None
        \/ /\ pc'[u] = "called" /\ task'[u] = task[u] /\ seen'[u] = seen[u]
           /\ task[u].kind \in Requests \ {"recount"}
RowGoesOn ==
    /\ row'.sub \in {row.sub, None} \/ \E u \in Tasks : Writes(u, row'.sub)
    /\ \A u \in Tasks :
          At(u, "loaded", "deleted") /\ pc'[u] = "idle" /\ ~overlap => row'.sub = None
Longer(news) ==
    /\ Len(news) \in Nat
    /\ Len(events') = Len(events) + Len(news)
    /\ \A i \in 1..Len(events') :
          events'[i] = IF i <= Len(events) THEN events[i] ELSE news[i - Len(events)]
Reports(news) ==
    /\ Longer(news)
    /\ \A k \in 1..Len(news) :
          /\ news[k].kind \notin {"created", "checkout"}
          /\ news[k].sub \in Subs /\ stripe[news[k].sub] # "none"
          /\ news[k].kind = "deleted" => stripe'[news[k].sub] = "CANCELED"
    /\ \A s \in Subs :
          \/ stripe'[s] = stripe[s]
          \/ /\ stripe[s] \notin {"none", "CANCELED"} /\ stripe'[s] # "none"
             /\ stripe'[s] = "CANCELED" =>
                   \E k \in 1..Len(news) : news[k].kind = "deleted" /\ news[k].sub = s
GoesOn(news) ==
    TasksGoOn /\ RowGoesOn /\ Reports(news) /\ UNCHANGED <<session, old, disputed, overlap>>

\* Every event names a subscription.
LEMMA EventsAre ==
    ASSUME TypeOK
    PROVE  \A i \in 1..Len(events) : events[i] \in Event /\ events[i].sub \in Subs
<1> SUFFICES ASSUME NEW i \in 1..Len(events)
             PROVE  events[i] \in Event /\ events[i].sub \in Subs
  OBVIOUS
<1>1. events[i] \in Event
  BY DEF TypeOK
<1> QED
  BY <1>1 DEF Event

\* Such a step keeps what is known of Stripe, ...
LEMMA OnStripe ==
    ASSUME TypeOK, StripeInv, NEW news, GoesOn(news)
    PROVE  StripeInv'
<1> DEFINE n == Len(events)
<1>1. n \in Nat /\ Len(news) \in Nat /\ Len(events') = n + Len(news)
  BY DEF TypeOK, GoesOn, Reports, Longer
<1>2. \A i \in 1..Len(events') :
         \/ i \in 1..n /\ events'[i] = events[i]
         \/ i > n /\ \E k \in 1..Len(news) : events'[i] = news[k]
  BY <1>1 DEF GoesOn, Reports, Longer
<1>3. \A s \in Subs : stripe'[s] = "none" <=> stripe[s] = "none"
  BY DEF GoesOn, Reports
<1>4. \A s \in Subs : stripe[s] = "CANCELED" => stripe'[s] = "CANCELED"
  BY DEF GoesOn, Reports
<1>5. \A k \in 1..Len(news) :
          /\ news[k].kind \notin {"created", "checkout"}
          /\ news[k].sub \in Subs /\ stripe[news[k].sub] # "none"
          /\ news[k].kind = "deleted" => stripe'[news[k].sub] = "CANCELED"
  BY DEF GoesOn, Reports
<1>6. \A i \in 1..n : events[i] \in Event
  BY DEF TypeOK
<1>7. (\A s \in Subs : session[s] = "open" => stripe[s] = "none")'
  BY <1>3 DEF StripeInv, GoesOn
<1>8. ASSUME NEW s \in Subs, stripe'[s] = "none"
      PROVE  /\ row'.sub # s
             /\ \A t \in Tasks : task'[t].sub # s
             /\ \A i \in 1..Len(events') : events'[i].sub # s
             /\ \A r \in Subs : old'[r] # s
  <2>1. stripe[s] = "none"
    BY <1>3, <1>8
  <2>2. row.sub # s /\ (\A t \in Tasks : task[t].sub # s) /\ (\A r \in Subs : old[r] # s)
        /\ \A i \in 1..n : events[i].sub # s
    BY <2>1 DEF StripeInv
  <2>3. row'.sub # s
    BY <2>2, BillingNoneAssumption DEF GoesOn, RowGoesOn, Writes
  <2>4. \A t \in Tasks : task'[t].sub # s
    BY <2>2, BillingNoneAssumption DEF GoesOn, TasksGoOn
  <2>5. \A i \in 1..Len(events') : events'[i].sub # s
    BY <1>2, <1>5, <2>1, <2>2
  <2> QED
    BY <2>2, <2>3, <2>4, <2>5 DEF GoesOn
<1>9. \A i \in 1..Len(events') :
         events'[i].kind = "deleted" => stripe'[events'[i].sub] = "CANCELED"
  <2> SUFFICES ASSUME NEW i \in 1..Len(events'), events'[i].kind = "deleted"
               PROVE  stripe'[events'[i].sub] = "CANCELED"
    OBVIOUS
  <2>1. CASE i \in 1..n /\ events'[i] = events[i]
    BY <2>1, <1>4, <1>6 DEF StripeInv, Event
  <2>2. CASE \E k \in 1..Len(news) : events'[i] = news[k]
    BY <2>2, <1>5
  <2> QED
    BY <2>1, <2>2, <1>2
<1>10. \A t \in Tasks : pc'[t] = "loaded" /\ task'[t].kind = "deleted"
                        => stripe'[task'[t].sub] = "CANCELED"
  <2> SUFFICES ASSUME NEW t \in Tasks, pc'[t] = "loaded", task'[t].kind = "deleted"
               PROVE  stripe'[task'[t].sub] = "CANCELED"
    OBVIOUS
  <2>1. pc[t] = "loaded" /\ task'[t] = task[t]
    BY DEF GoesOn, TasksGoOn
  <2>2. stripe[task[t].sub] = "CANCELED" /\ task[t].sub \in Subs
    BY <2>1, Members DEF StripeInv, At, TypeOK, TasksOK
  <2> QED
    BY <2>1, <2>2, <1>4
<1>11. \A i, j \in 1..Len(events') :
          events'[i].kind = "checkout" /\ Opens(events'[j], old'[events'[i].sub]) => j < i
  <2> SUFFICES ASSUME NEW i \in 1..Len(events'), NEW j \in 1..Len(events'),
                      events'[i].kind = "checkout", Opens(events'[j], old'[events'[i].sub])
               PROVE  j < i
    OBVIOUS
  <2>1. i \in 1..n /\ events'[i] = events[i]
    BY <1>2, <1>5
  <2>2. j \in 1..n /\ events'[j] = events[j]
    BY <1>2, <1>5 DEF Opens
  <2>3. old' = old
    BY DEF GoesOn
  <2>4. Opens(events[j], old[events[i].sub])
    BY <2>1, <2>2, <2>3 DEF Opens
  <2> QED
    BY <2>1, <2>2, <2>4 DEF StripeInv
<1>12. \A t \in Tasks : pc'[t] = "loaded" /\ task'[t].kind = "recount"
                        => task'[t].sub = seen'[t].sub
  <2> SUFFICES ASSUME NEW t \in Tasks, pc'[t] = "loaded", task'[t].kind = "recount"
               PROVE  task'[t].sub = seen'[t].sub
    OBVIOUS
  <2>1. pc'[t] = pc[t] /\ task'[t] = task[t] /\ seen'[t] = seen[t]
    BY DEF GoesOn, TasksGoOn
  <2> QED
    BY <2>1 DEF StripeInv, At
<1> QED
  BY <1>7, <1>8, <1>9, <1>10, <1>11, <1>12 DEF StripeInv, At, Opens

\* A task that will make the row track s was to do so before.
LEMMA OnWrites ==
    ASSUME NEW news, GoesOn(news), NEW t \in Tasks, NEW s \in Subs
    PROVE  /\ Writes(t, s)' => Writes(t, s)
           /\ Deleting(t, s)' => Deleting(t, s)
           /\ Replacing(t, s)' => Replacing(t, s) /\ pc'[t] = pc[t] /\ task'[t] = task[t]
                                  /\ seen'[t] = seen[t]
<1>1. TasksGoOn /\ old' = old
  BY DEF GoesOn
<1>2. \/ pc'[t] = pc[t] /\ task'[t] = task[t] /\ seen'[t] = seen[t]
      \/ pc'[t] = "idle"
      \/ pc'[t] = "called" /\ task'[t] = task[t] /\ task[t].kind # "recount"
  BY <1>1 DEF TasksGoOn
<1> QED
  BY <1>1, <1>2 DEF Writes, Deleting, Replacing, At

\* What was reported stays so, and nothing is announced.
LEMMA OnEvents ==
    ASSUME events \in Seq(Event), NEW news, Reports(news), NEW s \in Subs
    PROVE  /\ Announced(s)' <=> Announced(s)
           /\ EndReported(s) => EndReported(s)'
           /\ stripe[s] # "CANCELED" /\ stripe'[s] = "CANCELED" => EndReported(s)'
<1> DEFINE n == Len(events)
<1>1. n \in Nat /\ Len(news) \in Nat /\ Len(events') = n + Len(news)
  BY DEF Reports, Longer
<1>2. \A i \in 1..n : i \in 1..Len(events') /\ events'[i] = events[i]
  BY <1>1 DEF Reports, Longer
<1>3. \A k \in 1..Len(news) : n + k \in 1..Len(events') /\ events'[n + k] = news[k]
  BY <1>1 DEF Reports, Longer
<1>4. \A j \in 1..Len(events') : Opens(events'[j], s) => j \in 1..n /\ Opens(events[j], s)
  <2> SUFFICES ASSUME NEW j \in 1..Len(events'), Opens(events'[j], s)
               PROVE  j \in 1..n /\ Opens(events[j], s)
    OBVIOUS
  <2>1. j > n => j - n \in 1..Len(news) /\ events'[j] = news[j - n]
    BY <1>1 DEF Reports, Longer
  <2>2. j <= n
    BY <2>1, <1>1 DEF Reports, Opens
  <2> QED
    BY <2>2, <1>1, <1>2
<1>5. Announced(s)' <=> Announced(s)
  BY <1>2, <1>4 DEF Announced, Opens
<1>6. ASSUME EndReported(s) PROVE EndReported(s)'
  <2>1. PICK i \in 1..n : /\ events[i].kind = "deleted" /\ events[i].sub = s
                          /\ \A j \in 1..n : Opens(events[j], s) => j < i
    BY <1>6 DEF EndReported
  <2>2. i \in 1..Len(events') /\ events'[i] = events[i]
    BY <1>2
  <2>3. \A j \in 1..Len(events') : Opens(events'[j], s) => j < i
    BY <1>4, <2>1
  <2> QED
    BY <2>1, <2>2, <2>3 DEF EndReported, Opens
<1>7. ASSUME stripe[s] # "CANCELED", stripe'[s] = "CANCELED" PROVE EndReported(s)'
  <2>1. PICK k \in 1..Len(news) : news[k].kind = "deleted" /\ news[k].sub = s
    BY <1>7 DEF Reports
  <2>2. n + k \in 1..Len(events') /\ events'[n + k] = news[k]
    BY <1>3
  <2>3. \A j \in 1..Len(events') : Opens(events'[j], s) => j < n + k
    BY <1>4, <1>1
  <2> QED
    BY <2>1, <2>2, <2>3 DEF EndReported, Opens
<1> QED
  BY <1>5, <1>6, <1>7

\* ... leaves no ended subscription tracked ...
LEMMA OnEnd ==
    ASSUME TypeOK, EndInv, NEW news, GoesOn(news)
    PROVE  EndInv'
<1> SUFFICES ASSUME ~overlap'
             PROVE  /\ \A t \in Tasks : At(t, "called", "recount")' => Announced(task[t].sub)'
                    /\ \A s \in Subs : stripe'[s] = "CANCELED" =>
                          \/ EndReported(s)'
                          \/ Gone(s)' /\ (row'.sub = s => \E t \in Tasks : Deleting(t, s)')
  BY DEF EndInv
<1>1. ~overlap
  BY DEF GoesOn
<1>2. Reports(news) /\ TasksGoOn /\ RowGoesOn /\ events \in Seq(Event)
  BY DEF GoesOn, TypeOK
<1>3. ASSUME NEW t \in Tasks, At(t, "called", "recount")'
      PROVE  Announced(task[t].sub)'
  <2>1. task'[t] = task[t] /\ pc'[t] = pc[t]
    BY <1>2, <1>3 DEF TasksGoOn, At
  <2>2. At(t, "called", "recount") /\ Announced(task[t].sub)
    BY <1>1, <1>3, <2>1 DEF EndInv, At
  <2>3. task[t].sub \in Subs
    <3>1. PICK i \in 1..Len(events) : events[i].sub = task[t].sub
      BY <2>2 DEF Announced, Opens
    <3>2. events[i] \in Event
      BY <1>2
    <3> QED
      BY <3>1, <3>2 DEF Event
  <2>4. Announced(task[t].sub) => \E i \in 1..Len(events') : Opens(events'[i], task[t].sub)
    BY <1>2, <2>3, OnEvents DEF Announced, Opens
  <2> QED
    BY <2>1, <2>2, <2>4 DEF Announced, Opens
<1>4. ASSUME NEW s \in Subs, stripe'[s] = "CANCELED"
      PROVE  \/ EndReported(s)'
             \/ Gone(s)' /\ (row'.sub = s => \E t \in Tasks : Deleting(t, s)')
  <2>1. CASE stripe[s] # "CANCELED"
    BY <2>1, <1>2, <1>4, OnEvents
  <2>2. CASE EndReported(s)
    BY <2>2, <1>2, OnEvents
  <2>3. CASE stripe[s] = "CANCELED" /\ ~EndReported(s)
    <3>1. Gone(s) /\ (row.sub = s => \E t \in Tasks : Deleting(t, s))
      BY <1>1, <2>3 DEF EndInv
    <3>2. Gone(s)'
      BY <3>1, <1>2, OnEvents, OnWrites DEF Gone
    <3>3. ASSUME row'.sub = s PROVE \E t \in Tasks : Deleting(t, s)'
      <4>1. row.sub = s
        BY <3>1, <3>3, <1>2, BillingNoneAssumption DEF RowGoesOn, Gone
      <4>2. PICK t \in Tasks : Deleting(t, s)
        BY <3>1, <4>1
      <4>3. pc'[t] # "idle"
        BY <4>2, <3>3, <1>1, <1>2, BillingNoneAssumption DEF RowGoesOn, Deleting
      <4>4. task[t].kind \notin Requests
        BY <4>2 DEF Deleting, At, Requests
      <4>5. pc'[t] = pc[t] /\ task'[t] = task[t]
        BY <4>3, <4>4, <1>2 DEF TasksGoOn
      <4> QED
        BY <4>2, <4>5 DEF Deleting, At
    <3> QED
      BY <3>2, <3>3
  <2> QED
    BY <2>1, <2>2, <2>3
<1> QED
  BY <1>3, <1>4

\* ... and none that was replaced.
LEMMA OnReplace ==
    ASSUME TypeOK, ReplaceInv, NEW news, GoesOn(news),
           \A s \in replaced' \ (replaced \union disputed) :
               /\ Gone(s) /\ row'.sub # s /\ stripe'[s] = "CANCELED" /\ s \in Subs
               /\ \A t \in Tasks : ~Deleting(t, s)
    PROVE  ReplaceInv'
<1>1. Reports(news) /\ RowGoesOn /\ events \in Seq(Event) /\ disputed' = disputed
      /\ replaced \subseteq Subs /\ old' = old
  BY DEF GoesOn, TypeOK, StripeOK
<1>2. \A s \in Subs : Gone(s) => Gone(s)' /\ (row'.sub = s => row.sub = s)
  BY <1>1, OnEvents, OnWrites, BillingNoneAssumption DEF Gone, RowGoesOn
<1>3. ASSUME NEW s \in Subs \ disputed', NEW t \in Tasks, Replacing(t, s)'
      PROVE  /\ Gone(s)'
             /\ pc'[t] = "cleanup" => row'.sub # s
             /\ pc'[t] = "loaded" /\ row'.sub = s => seen'[t].sub # task'[t].sub
  <2>1. /\ Replacing(t, s) /\ pc'[t] = pc[t] /\ task'[t] = task[t] /\ seen'[t] = seen[t]
    BY <1>3, OnWrites
  <2>2. /\ Gone(s)
        /\ pc[t] = "cleanup" => row.sub # s
        /\ pc[t] = "loaded" /\ row.sub = s => seen[t].sub # task[t].sub
    BY <2>1, <1>1 DEF ReplaceInv
  <2> QED
    BY <2>1, <2>2, <1>2
<1>4. ASSUME NEW s \in replaced' \ disputed'
      PROVE  /\ Gone(s)' /\ row'.sub # s /\ stripe'[s] = "CANCELED"
             /\ \A t \in Tasks : ~Deleting(t, s)'
  <2>1. CASE s \in replaced
    <3>1. /\ Gone(s) /\ row.sub # s /\ stripe[s] = "CANCELED" /\ s \in Subs
          /\ \A t \in Tasks : ~Deleting(t, s)
      BY <2>1, <1>1, <1>4 DEF ReplaceInv
    <3>2. stripe'[s] = "CANCELED"
      BY <3>1, <1>1 DEF Reports
    <3> QED
      BY <3>1, <3>2, <1>2, OnWrites
  <2>2. CASE s \notin replaced
    <3>1. /\ Gone(s) /\ row'.sub # s /\ stripe'[s] = "CANCELED" /\ s \in Subs
          /\ \A t \in Tasks : ~Deleting(t, s)
      BY <2>2, <1>1, <1>4
    <3> QED
      BY <3>1, <1>2, OnWrites
  <2> QED
    BY <2>1, <2>2
<1> QED
  BY <1>3, <1>4 DEF ReplaceInv

StripeSound == StripeInv /\ EndInv /\ ReplaceInv

\* Together, for the steps that replace nothing.
LEMMA OnSound ==
    ASSUME TypeOK, StripeSound, NEW news, GoesOn(news), replaced' = replaced
    PROVE  StripeSound'
BY OnStripe, OnEnd, OnReplace DEF StripeSound

\* A request that loads the row names the subscription that it tracks.
LEMMA LoadSound ==
    ASSUME TypeOK, StripeSound, NEW t \in Tasks, NEW what, Load(t, what),
           what.kind \in Requests, what.sub = row.sub,
           UNCHANGED <<row, stripe, session, old, events, replaced, disputed>>
    PROVE  StripeSound'
<1>1. /\ \A u \in Tasks : u # t =>
            pc'[u] = pc[u] /\ task'[u] = task[u] /\ seen'[u] = seen[u]
      /\ pc'[t] = "loaded" /\ task'[t] = what /\ seen'[t] = row /\ pc[t] = "idle"
      /\ overlap' = (overlap \/ \E u \in Tasks \ {t} : Busy(u))
  BY DEF Load, TypeOK, TasksOK
<1>2. what.kind \notin {"created", "checkout", "deleted"}
  BY DEF Requests
<1>3. \A u \in Tasks : \A s \in Subs :
          /\ Writes(u, s)' <=> Writes(u, s)
          /\ Deleting(u, s)' <=> Deleting(u, s)
          /\ Replacing(u, s)' => u # t /\ Replacing(u, s)
  BY <1>1, <1>2 DEF Writes, Deleting, Replacing, At
<1>4. \A s \in Subs : /\ Announced(s)' <=> Announced(s)
                      /\ EndReported(s)' <=> EndReported(s)
                      /\ Gone(s)' <=> Gone(s)
  BY <1>3 DEF Announced, EndReported, Gone, Opens
<1>5. StripeInv'
  <2>1. \A s \in Subs : stripe[s] = "none" => row.sub # s /\ \A u \in Tasks : task'[u].sub # s
    BY <1>1 DEF StripeSound, StripeInv
  <2>2. \A u \in Tasks : pc'[u] = "loaded" /\ task'[u].kind = "recount"
                         => task'[u].sub = seen'[u].sub
    BY <1>1 DEF StripeSound, StripeInv, At
  <2>3. \A u \in Tasks : pc'[u] = "loaded" /\ task'[u].kind = "deleted"
                         => stripe[task'[u].sub] = "CANCELED"
    BY <1>1, <1>2 DEF StripeSound, StripeInv, At
  <2> QED
    BY <2>1, <2>2, <2>3 DEF StripeSound, StripeInv, At, Opens
<1>6. EndInv'
  <2> SUFFICES ASSUME ~overlap' PROVE EndInv'
    BY DEF EndInv
  <2>1. ~overlap
    BY <1>1
  <2>2. \A u \in Tasks : At(u, "called", "recount")' => At(u, "called", "recount") /\ u # t
    BY <1>1 DEF At
  <2>3. \A u \in Tasks : At(u, "called", "recount")' => Announced(task[u].sub)'
    BY <1>1, <2>1, <2>2 DEF StripeSound, EndInv, Announced, Opens
  <2>4. \A s \in Subs : stripe[s] = "CANCELED" =>
            \/ EndReported(s)
            \/ Gone(s) /\ (row.sub = s => \E u \in Tasks : Deleting(u, s))
    BY <2>1 DEF StripeSound, EndInv
  <2>5. \A s \in Subs : stripe'[s] = "CANCELED" =>
            \/ EndReported(s)'
            \/ Gone(s)' /\ (row'.sub = s => \E u \in Tasks : Deleting(u, s)')
    BY <2>4, <1>3, <1>4
  <2> QED
    BY <2>3, <2>5 DEF EndInv
<1>7. ReplaceInv'
  <2>1. ReplaceInv /\ replaced \subseteq Subs
    BY DEF StripeSound, TypeOK, StripeOK
  <2>2. \A s \in Subs \ disputed' : \A u \in Tasks : Replacing(u, s)' =>
          /\ Gone(s)'
          /\ pc'[u] = "cleanup" => row'.sub # s
          /\ pc'[u] = "loaded" /\ row'.sub = s => seen'[u].sub # task'[u].sub
    BY <2>1, <1>1, <1>3, <1>4 DEF ReplaceInv
  <2>3. \A s \in replaced' \ disputed' :
          /\ Gone(s)' /\ row'.sub # s /\ stripe'[s] = "CANCELED"
          /\ \A u \in Tasks : ~Deleting(u, s)'
    BY <2>1, <1>3, <1>4 DEF ReplaceInv
  <2> QED
    BY <2>2, <2>3 DEF ReplaceInv
<1> QED
  BY <1>5, <1>6, <1>7 DEF StripeSound

NoNews == << >>

\* No event is sent.
LEMMA UnchangedLonger ==
    ASSUME TypeOK, UNCHANGED events
    PROVE  Longer(NoNews)
BY DEF Longer, TypeOK, NoNews

\* Events are sent.
LEMMA SendLonger ==
    ASSUME TypeOK, NEW news \in Seq(Event), Send(news)
    PROVE  Longer(news)
<1>1. events \in Seq(Event) /\ Len(news) \in Nat
  BY DEF TypeOK
<1>2. events' = events \o news
  BY DEF Send
<1> QED
  BY <1>1, <1>2, ConcatProperties DEF Longer

\* A task ends: it leaves the row, empties it or opens what it was to open.
LEMMA FinishSound ==
    ASSUME TypeOK, StripeSound, NEW t \in Tasks, Finish(t),
           UNCHANGED <<stripe, session, old, events, replaced, disputed, overlap>>,
           row'.sub \in {row.sub, None} \/ Writes(t, row'.sub),
           At(t, "loaded", "deleted") /\ ~overlap => row'.sub = None
    PROVE  StripeSound'
<1>1. /\ \A u \in Tasks : u # t =>
            pc'[u] = pc[u] /\ task'[u] = task[u] /\ seen'[u] = seen[u]
      /\ pc'[t] = "idle" /\ task'[t].sub = None
  BY DEF Finish, TypeOK, TasksOK, Idle
<1>2. TasksGoOn
  BY <1>1 DEF TasksGoOn
<1>3. RowGoesOn
  <2>1. row'.sub \in {row.sub, None} \/ \E u \in Tasks : Writes(u, row'.sub)
    OBVIOUS
  <2>2. \A u \in Tasks : At(u, "loaded", "deleted") /\ pc'[u] = "idle" /\ ~overlap
                         => row'.sub = None
    BY <1>1 DEF At
  <2> QED
    BY <2>1, <2>2 DEF RowGoesOn
<1>4. Reports(NoNews)
  BY UnchangedLonger DEF Reports, NoNews
<1> QED
  BY <1>2, <1>3, <1>4, OnSound DEF GoesOn

\* What a commit makes of the column with the subscription.
LEMMA CommitSub ==
    ASSUME TypeOK, NEW t \in Tasks, NEW new, Commit(t, new)
    PROVE  row'.sub = IF new.sub = seen[t].sub THEN row.sub ELSE new.sub
BY DEF Commit, Subscription, TypeOK

\* One event is sent that announces nothing.
LEMMA ReportsOne ==
    ASSUME TypeOK, NEW e \in Event, Send(<<e>>), e.kind \notin {"created", "checkout"},
           stripe[e.sub] # "none", e.kind = "deleted" => stripe'[e.sub] = "CANCELED",
           \A s \in Subs :
              \/ stripe'[s] = stripe[s]
              \/ /\ s = e.sub /\ stripe[s] \notin {"none", "CANCELED"} /\ stripe'[s] # "none"
                 /\ stripe'[s] = "CANCELED" => e.kind = "deleted"
    PROVE  Reports(<<e>>)
<1>1. <<e>> \in Seq(Event) /\ Len(<<e>>) = 1 /\ <<e>>[1] = e /\ e.sub \in Subs
  BY DEF Event
<1>2. Longer(<<e>>)
  BY <1>1, SendLonger
<1> DEFINE news == <<e>>
<1>3. Len(news) = 1 /\ news[1] = e /\ Longer(news)
  BY <1>1, <1>2
<1> HIDE DEF news
<1>4. \A k \in 1..Len(news) : news[k] = e
  BY <1>3
<1>5. Reports(news)
  BY <1>1, <1>3, <1>4 DEF Reports
<1> QED
  BY <1>5 DEF news

\* Stripe changes a subscription, asked by a task that waits for its answer or by nobody.
LEMMA StripeAlone ==
    ASSUME TypeOK, StripeSound, NEW news, Reports(news),
           UNCHANGED <<row, session, old, pc, task, seen, replaced, disputed, overlap>>
    PROVE  StripeSound'
<1>1. TasksGoOn /\ RowGoesOn
  BY DEF TasksGoOn, RowGoesOn, At
<1> QED
  BY <1>1, OnSound DEF GoesOn

\* A request has its answer from Stripe.
LEMMA CalledSound ==
    ASSUME TypeOK, StripeSound, NEW news, Reports(news), NEW t \in Tasks, Called(t),
           pc[t] = "loaded", task[t].kind \in Requests \ {"recount"},
           UNCHANGED <<row, session, old, replaced, disputed, overlap>>
    PROVE  StripeSound'
<1>1. \A u \in Tasks : u # t => pc'[u] = pc[u]
  BY DEF Called, TypeOK, TasksOK
<1>2. pc'[t] = "called" /\ UNCHANGED <<task, seen>>
  BY DEF Called, TypeOK, TasksOK
<1>3. TasksGoOn
  BY <1>1, <1>2 DEF TasksGoOn
<1>4. RowGoesOn
  BY <1>1, <1>2 DEF RowGoesOn, At
<1> QED
  BY <1>3, <1>4, OnSound DEF GoesOn

\* The owner opens a Checkout.
LEMMA CheckoutOpens ==
    ASSUME TypeOK, StripeSound, NEW s \in Subs, CheckoutStep(s)
    PROVE  StripeSound'
<1> USE DEF stripeVars, sessionVars, taskVars, historyVars
<1>1. /\ Unused(s) /\ session' = [session EXCEPT ![s] = "open"]
      /\ \/ old' = old
         \/ row.sub # None /\ old' = [old EXCEPT ![s] = row.sub]
      /\ UNCHANGED <<row, stripe, events, pc, task, seen, replaced, disputed, overlap>>
  BY DEF CheckoutStep, SubscribeToPro, ServiceUpdateCheckout
<1>2. stripe[s] = "none"
  BY <1>1 DEF Unused
<1>3. \A r \in Subs : r # s => old'[r] = old[r]
  BY <1>1 DEF TypeOK, StripeOK
<1>4. old'[s] = old[s] \/ old'[s] = row.sub
  BY <1>1 DEF TypeOK, StripeOK
<1>5. /\ \A r \in Subs : r = s \/ session'[r] = session[r]
  BY <1>1 DEF TypeOK, StripeOK
<1>6. /\ \A t \in Tasks : task[t].sub # s
      /\ \A i \in 1..Len(events) : events[i].sub # s
  BY <1>2 DEF StripeSound, StripeInv
<1>7. \A i \in 1..Len(events) : events[i].sub \in Subs /\ old'[events[i].sub] = old[events[i].sub]
  <2> SUFFICES ASSUME NEW i \in 1..Len(events)
               PROVE  events[i].sub \in Subs /\ old'[events[i].sub] = old[events[i].sub]
    OBVIOUS
  <2>1. events[i] \in Event
    BY DEF TypeOK
  <2> QED
    BY <2>1, <1>3, <1>6 DEF Event
<1>8. StripeInv'
  <2>1. (\A r \in Subs : session[r] = "open" => stripe[r] = "none")'
    BY <1>1, <1>2, <1>5 DEF StripeSound, StripeInv
  <2>2. \A q \in Subs : stripe[q] = "none" => \A r \in Subs : old'[r] # q
    BY <1>3, <1>4 DEF StripeSound, StripeInv
  <2>3. \A i, j \in 1..Len(events) :
            events[i].kind = "checkout" /\ Opens(events[j], old'[events[i].sub]) => j < i
    BY <1>7 DEF StripeSound, StripeInv
  <2> QED
    BY <1>1, <2>1, <2>2, <2>3 DEF StripeSound, StripeInv, At, Opens
<1>9. EndInv'
  BY <1>1 DEF StripeSound, EndInv, EndReported, Gone, Announced, Writes, Deleting, At, Opens
<1>10. ReplaceInv'
  <2>1. \A t \in Tasks : \A q \in Subs : Replacing(t, q)' => Replacing(t, q)
    <3> SUFFICES ASSUME NEW t \in Tasks, NEW q \in Subs, Replacing(t, q)'
                 PROVE  Replacing(t, q)
      OBVIOUS
    <3>1. task[t].sub \in Subs
      BY <1>1, Members DEF Replacing, At, TypeOK, TasksOK
    <3> QED
      BY <3>1, <1>1, <1>3, <1>6 DEF Replacing, At
  <2>2. \A q \in Subs : /\ Gone(q)' <=> Gone(q)
                        /\ \A t \in Tasks : Deleting(t, q)' <=> Deleting(t, q)
    BY <1>1 DEF Gone, Announced, Writes, Deleting, At, Opens
  <2>3. replaced \subseteq Subs
    BY DEF TypeOK, StripeOK
  <2> SUFFICES ASSUME ReplaceInv PROVE ReplaceInv'
    BY DEF StripeSound
  <2> QED
    BY <1>1, <2>1, <2>2, <2>3 DEF ReplaceInv
<1> QED
  BY <1>8, <1>9, <1>10 DEF StripeSound

\* Stripe has a new subscription and announces it; a reset ends another one first.
Announces(new, news) ==
    /\ new \in Subs /\ stripe[new] = "none" /\ stripe'[new] = "ACTIVE"
    /\ Longer(news)
    /\ \E k \in 1..Len(news) : Opens(news[k], new)
    /\ \A k \in 1..Len(news) :
          /\ news[k].kind \in {"created", "checkout"} => news[k].sub = new
          /\ news[k].sub = new => news[k].kind \in {"created", "checkout"}
          /\ news[k].sub \in Subs /\ stripe'[news[k].sub] # "none"
          /\ news[k].kind = "deleted" => stripe'[news[k].sub] = "CANCELED"
    /\ \A s \in Subs \ {new} :
          \/ stripe'[s] = stripe[s]
          \/ /\ stripe[s] # "none" /\ stripe'[s] = "CANCELED"
             /\ \E k \in 1..Len(news) : news[k].kind = "deleted" /\ news[k].sub = s
    /\ \A u \in Tasks :
          \/ pc'[u] = pc[u] /\ task'[u] = task[u] /\ seen'[u] = seen[u]
          \/ /\ At(u, "loaded", "recount") /\ pc'[u] = "called"
             /\ task'[u].kind = "recount" /\ task'[u].sub = new
    /\ \A s \in Subs : session'[s] = "open" => session[s] = "open" /\ s # new
    /\ UNCHANGED <<row, old, replaced, disputed, overlap>>

\* Such an announcement keeps the invariants.
LEMMA AnnouncedSound ==
    ASSUME TypeOK, StripeSound, NEW new, NEW news, Announces(new, news)
    PROVE  StripeSound'
<1> DEFINE n == Len(events)
<1>1. n \in Nat /\ Len(news) \in Nat /\ Len(events') = n + Len(news) /\ new \in Subs
  BY DEF TypeOK, Announces, Longer
<1>2. \A i \in 1..Len(events') :
         \/ i \in 1..n /\ events'[i] = events[i]
         \/ i > n /\ \E k \in 1..Len(news) : events'[i] = news[k]
  BY <1>1 DEF Announces, Longer
<1>3. \A i \in 1..n : i \in 1..Len(events') /\ events'[i] = events[i]
  BY <1>1 DEF Announces, Longer
<1>4. \A k \in 1..Len(news) : n + k \in 1..Len(events') /\ events'[n + k] = news[k]
  BY <1>1 DEF Announces, Longer
<1>5. \A i \in 1..n : events[i] \in Event /\ events[i].sub \in Subs
  BY EventsAre
<1>6. /\ stripe[new] = "none" /\ row.sub # new /\ \A r \in Subs : old[r] # new
      /\ \A t \in Tasks : task[t].sub # new
  BY DEF Announces, StripeSound, StripeInv
<1>7. \A s \in Subs : /\ stripe'[s] = "none" => stripe[s] = "none" /\ s # new
                      /\ stripe[s] = "none" => stripe'[s] = "none" \/ s = new
                      /\ stripe[s] = "CANCELED" => stripe'[s] = "CANCELED"
  BY <1>6 DEF Announces
<1>8. \A k \in 1..Len(news) :
          /\ news[k].kind \in {"created", "checkout"} => news[k].sub = new
          /\ news[k].sub = new => news[k].kind \in {"created", "checkout"}
          /\ news[k].sub \in Subs /\ stripe'[news[k].sub] # "none"
          /\ news[k].kind = "deleted" => stripe'[news[k].sub] = "CANCELED"
  BY DEF Announces
<1>9. \A s \in Subs \ {new} : \A j \in 1..Len(events') :
          Opens(events'[j], s) => j \in 1..n /\ Opens(events[j], s)
  BY <1>2, <1>8 DEF Opens
<1>10. \A u \in Tasks : \A s \in Subs \ {new} :
          /\ Writes(u, s)' => Writes(u, s)
          /\ Deleting(u, s)' <=> Deleting(u, s)
          /\ Replacing(u, s)' => /\ Replacing(u, s) /\ pc'[u] = pc[u] /\ task'[u] = task[u]
                                 /\ seen'[u] = seen[u]
  <2> SUFFICES ASSUME NEW u \in Tasks, NEW s \in Subs \ {new}
               PROVE  /\ Writes(u, s)' => Writes(u, s)
                      /\ Deleting(u, s)' <=> Deleting(u, s)
                      /\ Replacing(u, s)' => /\ Replacing(u, s) /\ pc'[u] = pc[u]
                                             /\ task'[u] = task[u] /\ seen'[u] = seen[u]
    OBVIOUS
  <2>1. CASE pc'[u] = pc[u] /\ task'[u] = task[u] /\ seen'[u] = seen[u]
    BY <2>1 DEF Announces, Writes, Deleting, Replacing, At
  <2>2. CASE At(u, "loaded", "recount") /\ pc'[u] = "called" /\ task'[u].sub = new
    BY <2>2 DEF Writes, Deleting, Replacing, At
  <2> QED
    BY <2>1, <2>2 DEF Announces
<1>11. \A s \in Subs \ {new} : Announced(s)' => Announced(s)
  BY <1>9 DEF Announced, Opens
<1>12. \A s \in Subs \ {new} : Gone(s) => Gone(s)'
  BY <1>10, <1>11 DEF Gone
<1>13. ASSUME NEW s \in Subs \ {new}, EndReported(s) PROVE EndReported(s)'
  <2>1. PICK i \in 1..n : /\ events[i].kind = "deleted" /\ events[i].sub = s
                          /\ \A j \in 1..n : Opens(events[j], s) => j < i
    BY <1>13 DEF EndReported
  <2>2. i \in 1..Len(events') /\ events'[i] = events[i]
    BY <1>3
  <2>3. \A j \in 1..Len(events') : Opens(events'[j], s) => j < i
    BY <1>9, <2>1
  <2> QED
    BY <2>1, <2>2, <2>3 DEF EndReported, Opens
<1>14. StripeInv'
  <2>1. (\A s \in Subs : session[s] = "open" => stripe[s] = "none")'
    BY <1>7 DEF StripeSound, StripeInv, Announces
  <2>2. ASSUME NEW s \in Subs, stripe'[s] = "none"
        PROVE  /\ row'.sub # s
               /\ \A t \in Tasks : task'[t].sub # s
               /\ \A i \in 1..Len(events') : events'[i].sub # s
               /\ \A r \in Subs : old'[r] # s
    <3>1. stripe[s] = "none" /\ s # new
      BY <2>2, <1>7
    <3>2. /\ row.sub # s /\ (\A t \in Tasks : task[t].sub # s) /\ (\A r \in Subs : old[r] # s)
          /\ \A i \in 1..n : events[i].sub # s
      BY <3>1 DEF StripeSound, StripeInv
    <3>3. \A t \in Tasks : task'[t].sub # s
      BY <3>1, <3>2 DEF Announces
    <3>4. \A i \in 1..Len(events') : events'[i].sub # s
      BY <1>2, <1>8, <3>2, <2>2
    <3> QED
      BY <3>2, <3>3, <3>4 DEF Announces
  <2>3. \A i \in 1..Len(events') :
           events'[i].kind = "deleted" => stripe'[events'[i].sub] = "CANCELED"
    <3> SUFFICES ASSUME NEW i \in 1..Len(events'), events'[i].kind = "deleted"
                 PROVE  stripe'[events'[i].sub] = "CANCELED"
      OBVIOUS
    <3>1. CASE i \in 1..n /\ events'[i] = events[i]
      BY <3>1, <1>5, <1>7 DEF StripeSound, StripeInv
    <3>2. CASE \E k \in 1..Len(news) : events'[i] = news[k]
      BY <3>2, <1>8
    <3> QED
      BY <3>1, <3>2, <1>2
  <2>4. \A t \in Tasks : pc'[t] = "loaded" /\ task'[t].kind = "deleted"
                         => stripe'[task'[t].sub] = "CANCELED"
    <3> SUFFICES ASSUME NEW t \in Tasks, pc'[t] = "loaded", task'[t].kind = "deleted"
                 PROVE  stripe'[task'[t].sub] = "CANCELED"
      OBVIOUS
    <3>1. pc[t] = "loaded" /\ task'[t] = task[t]
      BY DEF Announces
    <3>2. stripe[task[t].sub] = "CANCELED" /\ task[t].sub \in Subs
      BY <3>1, Members DEF StripeSound, StripeInv, At, TypeOK, TasksOK
    <3> QED
      BY <3>1, <3>2, <1>7
  <2>5. \A i, j \in 1..Len(events') :
            events'[i].kind = "checkout" /\ Opens(events'[j], old'[events'[i].sub]) => j < i
    <3> SUFFICES ASSUME NEW i \in 1..Len(events'), NEW j \in 1..Len(events'),
                        events'[i].kind = "checkout", Opens(events'[j], old'[events'[i].sub])
                 PROVE  j < i
      OBVIOUS
    <3>1. old' = old
      BY DEF Announces
    <3>2. events'[i].sub \in Subs
      BY <1>2, <1>5, <1>8
    <3>3. old[events'[i].sub] # new /\ events'[j].sub # new
      BY <3>1, <3>2, <1>6 DEF Opens
    <3>4. j \in 1..n /\ events'[j] = events[j]
      BY <3>3, <1>2, <1>8 DEF Opens
    <3>5. CASE i \in 1..n /\ events'[i] = events[i]
      BY <3>1, <3>4, <3>5 DEF StripeSound, StripeInv, Opens
    <3>6. CASE i > n
      BY <3>4, <3>6, <1>1
    <3> QED
      BY <3>5, <3>6, <1>2
  <2>6. \A t \in Tasks : pc'[t] = "loaded" /\ task'[t].kind = "recount"
                         => task'[t].sub = seen'[t].sub
    <3> SUFFICES ASSUME NEW t \in Tasks, pc'[t] = "loaded", task'[t].kind = "recount"
                 PROVE  task'[t].sub = seen'[t].sub
      OBVIOUS
    <3>1. pc'[t] = pc[t] /\ task'[t] = task[t] /\ seen'[t] = seen[t]
      BY DEF Announces
    <3> QED
      BY <3>1 DEF StripeSound, StripeInv, At
  <2> QED
    BY <2>1, <2>2, <2>3, <2>4, <2>5, <2>6 DEF StripeInv, At, Opens
<1>15. EndInv'
  <2> SUFFICES ASSUME ~overlap'
               PROVE  /\ \A t \in Tasks : At(t, "called", "recount")' => Announced(task[t].sub)'
                      /\ \A s \in Subs : stripe'[s] = "CANCELED" =>
                            \/ EndReported(s)'
                            \/ Gone(s)' /\ (row'.sub = s => \E t \in Tasks : Deleting(t, s)')
    BY DEF EndInv
  <2>1. ~overlap
    BY DEF Announces
  <2>2. ASSUME NEW t \in Tasks, At(t, "called", "recount")'
        PROVE  Announced(task[t].sub)'
    <3>1. CASE pc'[t] = pc[t] /\ task'[t] = task[t]
      <4>1. Announced(task[t].sub)
        BY <2>1, <2>2, <3>1 DEF StripeSound, EndInv, At
      <4>2. PICK i \in 1..n : Opens(events[i], task[t].sub)
        BY <4>1 DEF Announced
      <4>3. i \in 1..Len(events') /\ events'[i] = events[i]
        BY <1>3
      <4> QED
        BY <3>1, <4>2, <4>3 DEF Announced, Opens
    <3>2. CASE task'[t].sub = new
      <4>1. PICK k \in 1..Len(news) : Opens(news[k], new)
        BY DEF Announces
      <4>2. n + k \in 1..Len(events') /\ events'[n + k] = news[k]
        BY <1>4
      <4> QED
        BY <3>2, <4>1, <4>2 DEF Announced, Opens
    <3> QED
      BY <3>1, <3>2 DEF Announces
  <2>3. ASSUME NEW s \in Subs, stripe'[s] = "CANCELED"
        PROVE  \/ EndReported(s)'
               \/ Gone(s)' /\ (row'.sub = s => \E t \in Tasks : Deleting(t, s)')
    <3>1. s # new
      BY <2>3 DEF Announces
    <3>2. CASE stripe[s] # "CANCELED"
      <4>1. PICK k \in 1..Len(news) : news[k].kind = "deleted" /\ news[k].sub = s
        BY <2>3, <3>1, <3>2 DEF Announces
      <4>2. n + k \in 1..Len(events') /\ events'[n + k] = news[k]
        BY <1>4
      <4>3. \A j \in 1..Len(events') : Opens(events'[j], s) => j < n + k
        BY <1>9, <1>1, <3>1
      <4> QED
        BY <4>1, <4>2, <4>3 DEF EndReported, Opens
    <3>3. CASE EndReported(s)
      BY <3>1, <3>3, <1>13
    <3>4. CASE stripe[s] = "CANCELED" /\ ~EndReported(s)
      <4>1. Gone(s) /\ (row.sub = s => \E t \in Tasks : Deleting(t, s))
        BY <2>1, <3>4 DEF StripeSound, EndInv
      <4>2. Gone(s)' /\ row' = row
        BY <4>1, <3>1, <1>12 DEF Announces
      <4> QED
        BY <4>1, <4>2, <3>1, <1>10
    <3> QED
      BY <3>2, <3>3, <3>4
  <2> QED
    BY <2>2, <2>3
<1>16. ReplaceInv'
  <2> SUFFICES ASSUME ReplaceInv PROVE ReplaceInv'
    BY DEF StripeSound
  <2>1. row' = row /\ disputed' = disputed /\ replaced' = replaced /\ replaced \subseteq Subs
    BY DEF Announces, TypeOK, StripeOK
  <2>2. ASSUME NEW s \in Subs \ disputed', NEW t \in Tasks, Replacing(t, s)'
        PROVE  /\ Gone(s)'
               /\ pc'[t] = "cleanup" => row'.sub # s
               /\ pc'[t] = "loaded" /\ row'.sub = s => seen'[t].sub # task'[t].sub
    <3>1. s # new
      <4>1. pc'[t] = pc[t] /\ task'[t] = task[t]
        BY <2>2 DEF Announces, Replacing, At
      <4>2. task[t].sub \in Subs
        BY <2>2, <4>1, Members DEF Replacing, At, TypeOK, TasksOK
      <4> QED
        BY <4>1, <4>2, <2>2, <1>6 DEF Announces, Replacing
    <3> QED
      BY <2>1, <2>2, <3>1, <1>10, <1>12 DEF ReplaceInv
  <2>3. ASSUME NEW s \in replaced' \ disputed'
        PROVE  /\ Gone(s)' /\ row'.sub # s /\ stripe'[s] = "CANCELED"
               /\ \A t \in Tasks : ~Deleting(t, s)'
    <3>1. /\ Gone(s) /\ row.sub # s /\ stripe[s] = "CANCELED" /\ s \in Subs /\ s # new
          /\ \A t \in Tasks : ~Deleting(t, s)
      BY <2>1, <2>3, <1>6 DEF ReplaceInv
    <3> QED
      BY <2>1, <3>1, <1>7, <1>10, <1>12
  <2> QED
    BY <2>2, <2>3 DEF ReplaceInv
<1> QED
  BY <1>14, <1>15, <1>16 DEF StripeSound

\* An event is taken out.
LEMMA Taken ==
    ASSUME NEW s \in Seq(Event), NEW k \in 1..Len(s)
    PROVE  /\ Len(RemoveAt(s, k)) = Len(s) - 1
           /\ \A n \in 1..(Len(s) - 1) :
                 RemoveAt(s, k)[n] = IF n < k THEN s[n] ELSE s[n + 1]
<1>1. k \in 1..Len(s) /\ Len(s) \in Nat
  OBVIOUS
<1> DEFINE a == SubSeq(s, 1, k - 1)
           b == SubSeq(s, k + 1, Len(s))
<1>2. a \in Seq(Event) /\ Len(a) = k - 1 /\ \A n \in 1..(k - 1) : a[n] = s[n]
  BY <1>1
<1>3. b \in Seq(Event) /\ Len(b) = Len(s) - k /\ \A n \in 1..(Len(s) - k) : b[n] = s[n + k]
  BY <1>1
<1> HIDE DEF a, b
<1>4. RemoveAt(s, k) = a \o b
  BY DEF RemoveAt, a, b
<1>5. Len(a \o b) = Len(a) + Len(b)
  BY <1>2, <1>3, ConcatProperties
<1>6. \A n \in 1..(Len(a) + Len(b)) :
          (a \o b)[n] = IF n <= Len(a) THEN a[n] ELSE b[n - Len(a)]
  BY <1>2, <1>3, ConcatProperties
<1>7. Len(a) + Len(b) = Len(s) - 1
  BY <1>1, <1>2, <1>3
<1>8. ASSUME NEW n \in 1..(Len(s) - 1)
      PROVE  (a \o b)[n] = IF n < k THEN s[n] ELSE s[n + 1]
  <2>1. (a \o b)[n] = IF n <= Len(a) THEN a[n] ELSE b[n - Len(a)]
    BY <1>6, <1>7
  <2>2. n < k => n \in 1..(k - 1)
    BY <1>1
  <2>3. CASE n < k
    BY <1>1, <1>2, <2>1, <2>2, <2>3
  <2>4. CASE ~(n < k)
    <3>1. n - (k - 1) \in 1..(Len(s) - k) /\ (n - (k - 1)) + k = n + 1
      BY <1>1, <2>4
    <3>2. b[n - (k - 1)] = s[n + 1]
      BY <1>3, <3>1
    <3> QED
      BY <1>1, <1>2, <2>1, <2>4, <3>2
  <2> QED
    BY <2>3, <2>4
<1> QED
  BY <1>4, <1>5, <1>7, <1>8

\* What remains in the queue, and where it was.
LEMMA Remain ==
    ASSUME TypeOK, NEW i \in 1..Len(events), events' = RemoveAt(events, i)
    PROVE  /\ \A k \in 1..Len(events') : \E m \in 1..Len(events) :
                 m # i /\ events'[k] = events[m] /\ m = IF k < i THEN k ELSE k + 1
           /\ \A m \in 1..Len(events) : m # i => \E k \in 1..Len(events') :
                 events'[k] = events[m] /\ m = IF k < i THEN k ELSE k + 1
<1> DEFINE n == Len(events)
<1>1. n \in Nat /\ i \in 1..n /\ Len(events') = n - 1
  BY Taken DEF TypeOK
<1>2. \A k \in 1..(n - 1) : events'[k] = IF k < i THEN events[k] ELSE events[k + 1]
  BY Taken DEF TypeOK
<1> HIDE DEF n
<1>3. ASSUME NEW k \in 1..(n - 1)
      PROVE  \E m \in 1..n : m # i /\ events'[k] = events[m] /\ m = IF k < i THEN k ELSE k + 1
  <2>1. CASE k < i
    <3>1. k \in 1..n /\ k # i /\ events'[k] = events[k]
      BY <1>1, <1>2, <2>1
    <3> QED
      BY <2>1, <3>1
  <2>2. CASE ~(k < i)
    <3>1. k + 1 \in 1..n /\ k + 1 # i /\ events'[k] = events[k + 1]
      BY <1>1, <1>2, <2>2
    <3> QED
      BY <2>2, <3>1
  <2> QED
    BY <2>1, <2>2
<1>4. ASSUME NEW m \in 1..n, m # i
      PROVE  \E k \in 1..(n - 1) : events'[k] = events[m] /\ m = IF k < i THEN k ELSE k + 1
  <2>1. CASE m < i
    <3>1. m \in 1..(n - 1) /\ events'[m] = events[m]
      BY <1>1, <1>2, <2>1
    <3> QED
      BY <2>1, <3>1
  <2>2. CASE ~(m < i)
    <3>1. m - 1 \in 1..(n - 1) /\ ~(m - 1 < i) /\ (m - 1) + 1 = m
      BY <1>1, <1>4, <2>2
    <3>2. events'[m - 1] = events[m]
      BY <1>2, <3>1
    <3> QED
      BY <3>1, <3>2
  <2> QED
    BY <2>1, <2>2
<1> QED
  BY <1>1, <1>3, <1>4 DEF n

\* Without an event that is handled the others say what they said.
LEMMA RemainEvents ==
    ASSUME TypeOK, NEW i \in 1..Len(events), events' = RemoveAt(events, i), NEW s \in Subs
    PROVE  /\ Announced(s)' => Announced(s)
           /\ Announced(s) => Announced(s)' \/ Opens(events[i], s)
           /\ EndReported(s) => \/ EndReported(s)'
                                \/ /\ events[i].kind = "deleted" /\ events[i].sub = s
                                   /\ \A j \in 1..Len(events) : Opens(events[j], s) => j < i
<1>0. Len(events) \in Nat /\ Len(events') \in Nat
  BY Taken DEF TypeOK
<1>1. Announced(s)' => Announced(s)
  BY Remain DEF Announced, Opens
<1>2. ASSUME Announced(s) PROVE Announced(s)' \/ Opens(events[i], s)
  <2>1. PICK m \in 1..Len(events) : Opens(events[m], s)
    BY <1>2 DEF Announced
  <2>2. CASE m = i
    BY <2>1, <2>2
  <2>3. CASE m # i
    <3>1. PICK k \in 1..Len(events') : events'[k] = events[m]
      BY <2>3, Remain
    <3> QED
      BY <2>1, <3>1 DEF Announced, Opens
  <2> QED
    BY <2>2, <2>3
<1>3. ASSUME EndReported(s),
             ~(/\ events[i].kind = "deleted" /\ events[i].sub = s
               /\ \A j \in 1..Len(events) : Opens(events[j], s) => j < i)
      PROVE  EndReported(s)'
  <2>1. PICK m \in 1..Len(events) :
            /\ events[m].kind = "deleted" /\ events[m].sub = s
            /\ \A j \in 1..Len(events) : Opens(events[j], s) => j < m
    BY <1>3 DEF EndReported
  <2>2. m # i
    BY <1>3, <2>1
  <2>3. PICK k \in 1..Len(events') : events'[k] = events[m] /\ m = IF k < i THEN k ELSE k + 1
    BY <2>2, Remain
  <2>4. ASSUME NEW j \in 1..Len(events'), Opens(events'[j], s) PROVE j < k
    <3>1. PICK l \in 1..Len(events) :
              events'[j] = events[l] /\ l = IF j < i THEN j ELSE j + 1
      BY Remain
    <3>2. l < m
      BY <2>1, <2>4, <3>1
    <3> QED
      BY <1>0, <2>3, <3>1, <3>2
  <2> QED
    BY <2>1, <2>3, <2>4 DEF EndReported, Opens
<1> QED
  BY <1>1, <1>2, <1>3

\* A webhook is handed to a task, or ignored.
LEMMA HandleSound ==
    ASSUME TypeOK, StripeSound, Ordered, NEW t \in Tasks, HandleWebhook(t)
    PROVE  StripeSound'
<1> USE DEF stripeVars, sessionVars, taskVars
<1>1. PICK i \in 1..Len(events) :
          /\ Deliverable(i)
          /\ events' = RemoveAt(events, i)
          /\ IF FindsRow(events[i]) THEN Load(t, events[i])
             ELSE UNCHANGED <<pc, task, seen, overlap>>
          /\ disputed' = disputed \union {s \in Subs : Disputed(events[i], s)}
          /\ UNCHANGED <<row, stripe, session, old, replaced>>
  BY DEF HandleWebhook
<1>2. events[i] \in Event /\ events[i].sub \in Subs /\ i \in Nat
  BY EventsAre
<1>3. PICK e : e = events[i]
  OBVIOUS
<1>4. e \in Event /\ e.sub \in Subs /\ e.kind \in Webhooks
  BY <1>2, <1>3 DEF Event
<1>5. /\ ~InHand(e.sub)
      /\ \A j \in 1..(i - 1) : InHand(events[j].sub)
  BY <1>1, <1>3 DEF Deliverable
<1>6. \A u \in Tasks : \/ pc'[u] = pc[u] /\ task'[u] = task[u] /\ seen'[u] = seen[u]
                       \/ /\ u = t /\ FindsRow(e) /\ pc[u] = "idle" /\ pc'[u] = "loaded"
                          /\ task'[u] = e /\ seen'[u] = row
  BY <1>1, <1>3 DEF Load, TypeOK, TasksOK
<1>7. \A q \in Subs : \A j \in 1..Len(events) : Opens(events[j], q) => Announced(q)
  BY DEF Announced
<1>8. \A q \in Subs : Opens(e, q) => Announced(q)
  BY <1>3, <1>7
<1>9. \A q \in Subs : /\ Announced(q)' => Announced(q)
                      /\ Announced(q) => Announced(q)' \/ Opens(e, q)
                      /\ EndReported(q) => \/ EndReported(q)'
                                           \/ /\ e.kind = "deleted" /\ e.sub = q
                                              /\ \A j \in 1..Len(events) :
                                                    Opens(events[j], q) => j < i
  BY <1>1, <1>3, RemainEvents
<1>10. \A q \in Subs : \A u \in Tasks : Writes(u, q)' => Writes(u, q) \/ Opens(e, q)
  BY <1>6 DEF Writes, At, Opens
<1>11. \A q \in Subs : Gone(q) => Gone(q)'
  BY <1>8, <1>9, <1>10 DEF Gone
<1>12. StripeInv'
  <2>1. stripe[e.sub] # "none"
    BY <1>3, <1>4 DEF StripeSound, StripeInv
  <2>2. \A k \in 1..Len(events') : \E m \in 1..Len(events) :
            m # i /\ events'[k] = events[m] /\ m = IF k < i THEN k ELSE k + 1
    BY <1>1, Remain
  <2>3. \A s \in Subs : stripe[s] = "none" =>
            /\ row.sub # s
            /\ \A u \in Tasks : task'[u].sub # s
            /\ \A k \in 1..Len(events') : events'[k].sub # s
            /\ \A r \in Subs : old[r] # s
    BY <1>6, <2>1, <2>2 DEF StripeSound, StripeInv
  <2>4. \A k \in 1..Len(events') :
            events'[k].kind = "deleted" => stripe[events'[k].sub] = "CANCELED"
    BY <2>2 DEF StripeSound, StripeInv
  <2>5. \A u \in Tasks : pc'[u] = "loaded" /\ task'[u].kind = "deleted"
                         => stripe[task'[u].sub] = "CANCELED"
    BY <1>3, <1>6 DEF StripeSound, StripeInv, At
  <2>6. ASSUME NEW k \in 1..Len(events'), NEW j \in 1..Len(events'),
               events'[k].kind = "checkout", Opens(events'[j], old[events'[k].sub])
        PROVE  j < k
    <3>1. PICK m \in 1..Len(events) : events'[k] = events[m] /\ m = IF k < i THEN k ELSE k + 1
      BY <2>2
    <3>2. PICK l \in 1..Len(events) : events'[j] = events[l] /\ l = IF j < i THEN j ELSE j + 1
      BY <2>2
    <3>3. l < m
      BY <2>6, <3>1, <3>2 DEF StripeSound, StripeInv
    <3> QED
      BY <1>2, <3>1, <3>2, <3>3
  <2>7. \A u \in Tasks : pc'[u] = "loaded" /\ task'[u].kind = "recount"
                         => task'[u].sub = seen'[u].sub
    BY <1>4, <1>6 DEF StripeSound, StripeInv, At, Webhooks
  <2>8. session' = session /\ stripe' = stripe /\ row' = row /\ old' = old
    BY <1>1
  <2> QED
    BY <2>3, <2>4, <2>5, <2>6, <2>7, <2>8 DEF StripeSound, StripeInv, At, Opens
<1>13. EndInv'
  <2> SUFFICES ASSUME ~overlap'
               PROVE  /\ \A u \in Tasks : At(u, "called", "recount")' => Announced(task[u].sub)'
                      /\ \A s \in Subs : stripe'[s] = "CANCELED" =>
                            \/ EndReported(s)'
                            \/ Gone(s)' /\ (row'.sub = s => \E u \in Tasks : Deleting(u, s)')
    BY DEF EndInv
  <2>1. CASE FindsRow(e)
    <3>1. Load(t, e)
      BY <1>1, <1>3, <2>1
    <3>2. ~overlap /\ (\A u \in Tasks : ~Busy(u)) /\ pc'[t] = "loaded" /\ task'[t] = e
      BY <3>1 DEF Load, TypeOK, TasksOK, Busy
    <3>3. \A s : ~InHand(s)
      BY <3>2 DEF InHand
    <3>4. ~(1 \in 1..(i - 1))
      BY <1>5, <3>3
    <3>5. i = 1
      BY <1>2, <3>4
    <3>6. \A u \in Tasks : u # t => pc'[u] = "idle"
      BY <1>6, <3>2 DEF Busy
    <3>7. ASSUME NEW s \in Subs, stripe'[s] = "CANCELED"
          PROVE  \/ EndReported(s)'
                 \/ Gone(s)' /\ (row'.sub = s => \E u \in Tasks : Deleting(u, s)')
      <4>1. \/ EndReported(s)
            \/ Gone(s) /\ (row.sub = s => \E u \in Tasks : Deleting(u, s))
        BY <1>1, <3>2, <3>7 DEF StripeSound, EndInv
      <4>2. CASE Gone(s) /\ (row.sub = s => \E u \in Tasks : Deleting(u, s))
        BY <1>1, <1>11, <3>2, <4>2 DEF Deleting, At, Busy
      <4>3. CASE /\ e.kind = "deleted" /\ e.sub = s
                 /\ \A j \in 1..Len(events) : Opens(events[j], s) => j < i
        <5>1. ~Announced(s)
          BY <3>5, <4>3 DEF Announced
        <5>2. \A u \in Tasks : ~Writes(u, s)'
          BY <3>2, <3>6, <4>3 DEF Writes, At
        <5>3. Deleting(t, s)'
          BY <3>2, <4>3 DEF Deleting, At
        <5> QED
          BY <1>9, <5>1, <5>2, <5>3 DEF Gone
      <4> QED
        BY <1>9, <4>1, <4>2, <4>3
    <3> QED
      BY <3>2, <3>6, <3>7 DEF At
  <2>2. CASE ~FindsRow(e)
    <3>1. UNCHANGED <<pc, task, seen, overlap>> /\ row' = row /\ stripe' = stripe
      BY <1>1, <1>3, <2>2
    <3>2. e.kind \notin {"created", "checkout"} /\ row.sub # e.sub
      BY <2>2 DEF FindsRow
    <3>3. ASSUME NEW u \in Tasks, At(u, "called", "recount")'
          PROVE  Announced(task[u].sub)'
      <4>1. Announced(task[u].sub)
        BY <3>1, <3>3 DEF StripeSound, EndInv, At
      <4>2. task[u].sub \in Subs
        BY <4>1, EventsAre DEF Announced, Opens
      <4>3. PICK s \in Subs : s = task[u].sub
        BY <4>2
      <4>4. Announced(s)'
        BY <4>1, <4>3, <1>9, <3>2 DEF Opens
      <4> QED
        BY <3>1, <4>3, <4>4 DEF Announced, Opens
    <3>4. ASSUME NEW s \in Subs, stripe'[s] = "CANCELED"
          PROVE  \/ EndReported(s)'
                 \/ Gone(s)' /\ (row'.sub = s => \E u \in Tasks : Deleting(u, s)')
      <4>1. \/ EndReported(s)
            \/ Gone(s) /\ (row.sub = s => \E u \in Tasks : Deleting(u, s))
        BY <3>1, <3>4 DEF StripeSound, EndInv
      <4>2. CASE Gone(s) /\ (row.sub = s => \E u \in Tasks : Deleting(u, s))
        BY <3>1, <1>11, <4>2 DEF Deleting, At
      <4>3. CASE /\ e.kind = "deleted" /\ e.sub = s
                 /\ \A j \in 1..Len(events) : Opens(events[j], s) => j < i
        <5>1. ASSUME NEW j \in 1..Len(events), Opens(events[j], s) PROVE FALSE
          <6>1. j \in 1..(i - 1)
            BY <1>2, <4>3, <5>1
          <6> QED
            BY <6>1, <1>5, <4>3, <5>1 DEF Opens
        <5>2. ~Announced(s)
          BY <5>1 DEF Announced
        <5>3. ASSUME NEW u \in Tasks, Writes(u, s) PROVE FALSE
          <6>1. CASE At(u, "called", "recount")
            BY <6>1, <5>2, <5>3, <3>1 DEF StripeSound, EndInv, Writes
          <6>2. CASE pc[u] = "loaded" /\ task[u].kind \in {"created", "checkout"}
            BY <6>2, <5>3, <1>5, <4>3, Members DEF Writes, InHand, Busy
          <6> QED
            BY <5>3, <6>1, <6>2 DEF Writes
        <5>4. Gone(s)
          BY <5>2, <5>3 DEF Gone
        <5> QED
          BY <1>11, <3>1, <3>2, <4>3, <5>4
      <4> QED
        BY <1>9, <4>1, <4>2, <4>3
    <3> QED
      BY <3>3, <3>4
  <2> QED
    BY <2>1, <2>2
<1>14. ReplaceInv'
  <2>1. ReplaceInv /\ replaced \subseteq Subs
    BY DEF StripeSound, TypeOK, StripeOK
  <2>2. row' = row /\ stripe' = stripe /\ old' = old /\ replaced' = replaced
        /\ disputed \subseteq disputed'
    BY <1>1
  <2>3. ASSUME NEW s \in Subs \ disputed', NEW u \in Tasks, Replacing(u, s)'
        PROVE  /\ Gone(s)'
               /\ pc'[u] = "cleanup" => row'.sub # s
               /\ pc'[u] = "loaded" /\ row'.sub = s => seen'[u].sub # task'[u].sub
    <3>1. CASE pc'[u] = pc[u] /\ task'[u] = task[u] /\ seen'[u] = seen[u]
      BY <2>1, <2>2, <2>3, <3>1, <1>11 DEF ReplaceInv, Replacing, At
    <3>2. CASE u = t /\ pc'[u] = "loaded" /\ task'[u] = e /\ seen'[u] = row
      <4>1. e.kind = "checkout" /\ old[e.sub] = s
        BY <2>2, <2>3, <3>2 DEF Replacing, At
      <4>2. ~Disputed(e, s)
        BY <1>1, <1>3, <2>3
      <4>3. \A v \in Tasks : task[v].sub # s
        BY <4>1, <4>2 DEF Disputed
      <4>4. ASSUME NEW j \in 1..Len(events), Opens(events[j], s) PROVE FALSE
        <5>1. j < i
          BY <1>3, <4>1, <4>4 DEF StripeSound, StripeInv
        <5>2. j \in 1..(i - 1)
          BY <1>2, <5>1
        <5> QED
          BY <1>5, <4>3, <4>4, <5>2 DEF Opens, InHand
      <4>5. Gone(s)
        BY <4>3, <4>4 DEF Gone, Announced, Writes
      <4>6. e.sub # s
        BY <1>3, <4>1, <4>4 DEF Opens
      <4> QED
        BY <1>11, <2>2, <3>2, <4>5, <4>6
    <3> QED
      BY <1>6, <3>1, <3>2
  <2>4. ASSUME NEW s \in replaced' \ disputed'
        PROVE  /\ Gone(s)' /\ row'.sub # s /\ stripe'[s] = "CANCELED"
               /\ \A u \in Tasks : ~Deleting(u, s)'
    <3>1. /\ Gone(s) /\ row.sub # s /\ stripe[s] = "CANCELED" /\ s \in Subs
          /\ \A u \in Tasks : ~Deleting(u, s)
      BY <2>1, <2>2, <2>4 DEF ReplaceInv
    <3>2. \A u \in Tasks : ~Deleting(u, s)'
      BY <1>6, <3>1 DEF Deleting, At, FindsRow
    <3> QED
      BY <1>11, <2>2, <3>1, <3>2
  <2> QED
    BY <2>3, <2>4 DEF ReplaceInv
<1> QED
  BY <1>12, <1>13, <1>14 DEF StripeSound

\* The payment is committed; what it replaces is tracked no more.
LEMMA CheckoutSound ==
    ASSUME TypeOK, StripeSound, NEW t \in Tasks, CheckoutCompleted(t)
    PROVE  StripeSound'
<1> USE DEF stripeVars, sessionVars, historyVars
<1>1. /\ At(t, "loaded", "checkout") /\ Commit(t, CheckoutRow(t))
      /\ UNCHANGED <<stripe, session, old, events, replaced, disputed, overlap>>
  BY DEF CheckoutCompleted
<1>2. seen[t] \in Subscription /\ task[t].sub \in Subs /\ task[t].count \in Counts
  BY <1>1, TaskType, Members DEF At
<1>3. CheckoutRow(t) \in Subscription /\ CheckoutRow(t).sub = task[t].sub
  BY <1>2, Members DEF CheckoutRow, Subscription
<1>4. row'.sub = IF task[t].sub = seen[t].sub THEN row.sub ELSE task[t].sub
  BY <1>1, <1>3, CommitSub
<1>5. Writes(t, task[t].sub)
  BY <1>1 DEF Writes, At
<1>6. CASE old[task[t].sub] = None
  <2>1. Finish(t)
    BY <1>6 DEF CheckoutCompleted
  <2> QED
    BY <1>1, <1>4, <1>5, <2>1, FinishSound DEF At
<1>7. CASE old[task[t].sub] # None
  <2>1. pc' = [pc EXCEPT ![t] = "cleanup"] /\ UNCHANGED <<task, seen>>
    BY <1>7 DEF CheckoutCompleted
  <2>2. pc'[t] = "cleanup" /\ \A u \in Tasks : u # t => pc'[u] = pc[u]
    BY <2>1 DEF TypeOK, TasksOK
  <2>3. \A u \in Tasks : \A s \in Subs :
            /\ Writes(u, s)' => Writes(u, s)
            /\ Deleting(u, s)' <=> Deleting(u, s)
            /\ Replacing(u, s)' => Replacing(u, s)
    BY <1>1, <2>1, <2>2 DEF Writes, Deleting, Replacing, At
  <2>4. \A s \in Subs : Gone(s) => Gone(s)'
    BY <1>1, <2>3 DEF Gone, Announced, Opens
  <2>5. \A s \in Subs : Gone(s) /\ row'.sub = s => row.sub = s
    BY <1>4, <1>5 DEF Gone
  <2>6. StripeInv'
    <3>1. \A s \in Subs : stripe[s] = "none" => row'.sub # s
      BY <1>4 DEF StripeSound, StripeInv
    <3>2. \A u \in Tasks : pc'[u] = "loaded" => pc[u] = "loaded"
      BY <2>2
    <3> QED
      BY <1>1, <2>1, <3>1, <3>2 DEF StripeSound, StripeInv, At, Opens
  <2>7. EndInv'
    <3>1. \A u \in Tasks : At(u, "called", "recount")' => At(u, "called", "recount")
      BY <2>1, <2>2 DEF At
    <3> QED
      BY <1>1, <2>1, <2>3, <2>4, <2>5, <3>1
      DEF StripeSound, EndInv, EndReported, Announced, Opens
  <2>8. ReplaceInv'
    <3>1. ReplaceInv /\ replaced \subseteq Subs
      BY DEF StripeSound, TypeOK, StripeOK
    <3>2. ASSUME NEW s \in Subs \ disputed', NEW u \in Tasks, Replacing(u, s)'
          PROVE  /\ Gone(s)'
                 /\ pc'[u] = "cleanup" => row'.sub # s
                 /\ pc'[u] = "loaded" /\ row'.sub = s => seen'[u].sub # task'[u].sub
      <4>1. /\ Gone(s)
            /\ pc[u] = "cleanup" => row.sub # s
            /\ pc[u] = "loaded" /\ row.sub = s => seen[u].sub # task[u].sub
        BY <1>1, <2>3, <3>1, <3>2 DEF ReplaceInv
      <4>2. CASE u = t
        <5>1. row'.sub # s
          BY <1>1, <1>4, <1>5, <4>1, <4>2 DEF At, Gone
        <5> QED
          BY <2>2, <2>4, <4>1, <4>2, <5>1
      <4>3. CASE u # t
        BY <2>1, <2>2, <2>4, <2>5, <4>1, <4>3
      <4> QED
        BY <4>2, <4>3
    <3>3. ASSUME NEW s \in replaced' \ disputed'
          PROVE  /\ Gone(s)' /\ row'.sub # s /\ stripe'[s] = "CANCELED"
                 /\ \A u \in Tasks : ~Deleting(u, s)'
      BY <1>1, <2>3, <2>4, <2>5, <3>1, <3>3 DEF ReplaceInv
    <3> QED
      BY <3>2, <3>3 DEF ReplaceInv
  <2> QED
    BY <2>6, <2>7, <2>8 DEF StripeSound
<1> QED
  BY <1>6, <1>7

\* Stripe ends the replaced subscription, or refuses.
LEMMA CleanupSound ==
    ASSUME TypeOK, StripeSound, NEW t \in Tasks, DeleteOld(t)
    PROVE  StripeSound'
<1> USE DEF stripeVars, sessionVars, historyVars
<1> DEFINE s == old[task[t].sub]
           e == Report("deleted", s, "CANCELED", quantity[s])
<1>1. /\ pc[t] = "cleanup" /\ Finish(t)
      /\ UNCHANGED <<row, session, old, overlap>>
  BY DEF DeleteOld
<1>2. CASE UNCHANGED <<stripe, events, replaced, disputed>>
  BY <1>1, <1>2, FinishSound DEF At
<1>3. CASE /\ s # None /\ Live(s) /\ End(s) /\ Send(<<e>>)
           /\ replaced' = replaced \union {s} /\ disputed' = disputed
  <2>1. task[t].sub \in Subs /\ s \in Subs
    BY <1>1, <1>3 DEF TypeOK, TasksOK, StripeOK
  <2>2. e \in Event /\ e.kind = "deleted" /\ e.sub = s
    BY <2>1, Members, ReportType DEF Report, TypeOK, StripeOK, SubscriptionStatus, Webhooks
  <2>3. stripe'[s] = "CANCELED" /\ stripe[s] \notin {"none", "CANCELED"}
        /\ \A q \in Subs : q # s => stripe'[q] = stripe[q]
    BY <1>3, <2>1 DEF End, Live, TypeOK, StripeOK
  <2> HIDE DEF e
  <2>4. Reports(<<e>>)
    BY <1>3, <2>2, <2>3, ReportsOne
  <2>5. /\ \A u \in Tasks : u # t =>
              pc'[u] = pc[u] /\ task'[u] = task[u] /\ seen'[u] = seen[u]
        /\ pc'[t] = "idle" /\ task'[t].sub = None
    BY <1>1 DEF Finish, TypeOK, TasksOK, Idle
  <2>6. TasksGoOn /\ RowGoesOn
    BY <1>1, <2>5 DEF TasksGoOn, RowGoesOn, At
  <2>7. GoesOn(<<e>>)
    BY <1>1, <1>3, <2>4, <2>6 DEF GoesOn
  <2>8. ASSUME s \notin disputed
        PROVE  /\ Gone(s) /\ row.sub # s
               /\ \A u \in Tasks : ~Deleting(u, s)
    <3>1. Replacing(t, s)
      BY <1>1 DEF Replacing
    <3> QED
      BY <1>1, <2>1, <2>3, <2>8, <3>1 DEF StripeSound, ReplaceInv, StripeInv, Deleting
  <2>9. \A q \in replaced' \ (replaced \union disputed) :
            /\ Gone(q) /\ row'.sub # q /\ stripe'[q] = "CANCELED" /\ q \in Subs
            /\ \A u \in Tasks : ~Deleting(u, q)
    BY <1>1, <1>3, <2>1, <2>3, <2>8
  <2> HIDE DEF s
  <2> QED
    BY <2>7, <2>9, OnStripe, OnEnd, OnReplace DEF StripeSound
<1> QED
  BY <1>2, <1>3 DEF DeleteOld

\* What Stripe does on its own.
LEMMA StripeStepSound ==
    ASSUME TypeOK, StripeSound, NEW s \in Subs, StripeStep(s)
    PROVE  StripeSound'
<1> USE DEF stripeVars, sessionVars, taskVars, historyVars
<1>1. CASE PayCheckout(s)
  <2> DEFINE created == Report("created", s, "INCOMPLETE", quantity[s])
             checkout == Report("checkout", s, "ACTIVE", quantity[s])
  <2>1. /\ created \in Event /\ Opens(created, s) /\ created.sub = s
        /\ created.kind = "created"
        /\ checkout \in Event /\ Opens(checkout, s) /\ checkout.sub = s
        /\ checkout.kind = "checkout"
    BY Members, ReportType
    DEF Report, Opens, TypeOK, StripeOK, SubscriptionStatus, Webhooks
  <2>2. Send(<<created, checkout>>) \/ Send(<<checkout, created>>)
    BY <1>1 DEF PayCheckout
  <2> HIDE DEF created, checkout
  <2>3. PICK a, b \in {created, checkout} : Send(<<a, b>>)
    BY <2>2
  <2>4. PICK news : news = <<a, b>>
    OBVIOUS
  <2>5. /\ Len(news) = 2 /\ news[1] = a /\ news[2] = b /\ news \in Seq(Event)
        /\ \A k \in 1..Len(news) : news[k].sub = s /\ news[k].kind \in {"created", "checkout"}
        /\ Opens(news[1], s)
    BY <2>1, <2>3, <2>4
  <2>6. Longer(news)
    BY <2>3, <2>4, <2>5, SendLonger
  <2>7. /\ stripe[s] = "none" /\ stripe'[s] = "ACTIVE"
        /\ \A q \in Subs \ {s} : stripe'[q] = stripe[q]
        /\ \A q \in Subs : session'[q] = "open" => session[q] = "open" /\ q # s
        /\ UNCHANGED <<row, old, pc, task, seen, replaced, disputed, overlap>>
    BY <1>1 DEF PayCheckout, StripeSound, StripeInv, TypeOK, StripeOK
  <2>8. Announces(s, news)
    BY <2>5, <2>6, <2>7 DEF Announces
  <2> QED
    BY <2>8, AnnouncedSound
<1>2. CASE InvoiceFails(s)
  <2> DEFINE e == Report("failed", s, "PAST_DUE", quantity[s])
  <2>1. e \in Event /\ e.kind = "failed" /\ e.sub = s
    BY <1>2, Members, ReportType
    DEF InvoiceFails, Report, TypeOK, StripeOK, SubscriptionStatus, Webhooks
  <2>2. Send(<<e>>)
    BY <1>2 DEF InvoiceFails
  <2> HIDE DEF e
  <2>3. /\ stripe[s] \notin {"none", "CANCELED"}
        /\ stripe'[s] \notin {"none", "CANCELED"}
        /\ \A q \in Subs : q # s => stripe'[q] = stripe[q]
    BY <1>2 DEF InvoiceFails, TypeOK, StripeOK
  <2>4. Reports(<<e>>)
    BY <2>1, <2>2, <2>3, ReportsOne
  <2> QED
    BY <1>2, <2>4, StripeAlone DEF InvoiceFails
<1>3. CASE InvoicePaid(s)
  <2> DEFINE e == Report("paid", s, "ACTIVE", quantity[s])
  <2>1. e \in Event /\ e.kind = "paid" /\ e.sub = s
    BY <1>3, Members, ReportType
    DEF InvoicePaid, Report, TypeOK, StripeOK, SubscriptionStatus, Webhooks
  <2>2. Send(<<e>>)
    BY <1>3 DEF InvoicePaid
  <2> HIDE DEF e
  <2>3. /\ stripe[s] \notin {"none", "CANCELED"}
        /\ stripe'[s] \notin {"none", "CANCELED"}
        /\ \A q \in Subs : q # s => stripe'[q] = stripe[q]
    BY <1>3 DEF InvoicePaid, TypeOK, StripeOK
  <2>4. Reports(<<e>>)
    BY <2>1, <2>2, <2>3, ReportsOne
  <2> QED
    BY <1>3, <2>4, StripeAlone DEF InvoicePaid
<1>4. CASE SubscriptionEnds(s)
  <2> DEFINE e == Report("deleted", s, "CANCELED", quantity[s])
  <2>1. e \in Event /\ e.kind = "deleted" /\ e.sub = s
    BY <1>4, Members, ReportType
    DEF SubscriptionEnds, Report, TypeOK, StripeOK, SubscriptionStatus, Webhooks, Live
  <2>2. Send(<<e>>)
    BY <1>4 DEF SubscriptionEnds
  <2> HIDE DEF e
  <2>3. /\ stripe[s] \notin {"none", "CANCELED"}
        /\ stripe'[s] = "CANCELED"
        /\ \A q \in Subs : q # s => stripe'[q] = stripe[q]
    BY <1>4 DEF SubscriptionEnds, TypeOK, StripeOK, Live, End
  <2>4. Reports(<<e>>)
    BY <2>1, <2>2, <2>3, ReportsOne
  <2> QED
    BY <1>4, <2>4, StripeAlone DEF SubscriptionEnds
<1>5. CASE ScheduleApplies(s)
  <2> DEFINE e == Report("updated", s, stripe[s], schedule[s])
  <2>1. e \in Event /\ e.kind = "updated" /\ e.sub = s
    BY <1>5, Members, ReportType
    DEF ScheduleApplies, Report, TypeOK, StripeOK, SubscriptionStatus, Webhooks, Live
  <2>2. Send(<<e>>)
    BY <1>5 DEF ScheduleApplies
  <2> HIDE DEF e
  <2>3. /\ stripe[s] \notin {"none", "CANCELED"}
        /\ stripe'[s] \notin {"none", "CANCELED"}
        /\ \A q \in Subs : q # s => stripe'[q] = stripe[q]
    BY <1>5 DEF ScheduleApplies, TypeOK, StripeOK, Live
  <2>4. Reports(<<e>>)
    BY <2>1, <2>2, <2>3, ReportsOne
  <2> QED
    BY <1>5, <2>4, StripeAlone DEF ScheduleApplies
<1> QED
  BY <1>1, <1>2, <1>3, <1>4, <1>5 DEF StripeStep

\* Webhooks.
LEMMA WebhookStepSound ==
    ASSUME TypeOK, PlanInv, StripeSound, Ordered, NEW t \in Tasks, WebhookStep(t)
    PROVE  StripeSound'
<1> USE DEF stripeVars, sessionVars, historyVars
<1>1. seen[t] \in Subscription /\ row \in Subscription
  BY TaskType DEF TypeOK
<1>2. CASE HandleWebhook(t)
  BY <1>2, HandleSound
<1>3. CASE SubscriptionCreated(t)
  <2>1. row'.sub = row.sub \/ row'.sub = task[t].sub
    BY <1>1, <1>3 DEF SubscriptionCreated, Commit, Subscription
  <2>2. Writes(t, task[t].sub)
    BY <1>3 DEF SubscriptionCreated, Writes, At
  <2> QED
    BY <1>3, <2>1, <2>2, FinishSound DEF SubscriptionCreated, At
<1>4. CASE SubscriptionUpdated(t)
  <2>1. row'.sub = row.sub
    BY <1>1, <1>4 DEF SubscriptionUpdated, Commit, Subscription
  <2> QED
    BY <1>4, <2>1, FinishSound DEF SubscriptionUpdated, At
<1>5. CASE PaymentFailed(t)
  <2>1. row'.sub = row.sub
    BY <1>1, <1>5 DEF PaymentFailed, Commit, Subscription
  <2> QED
    BY <1>5, <2>1, FinishSound DEF PaymentFailed, At
<1>6. CASE PaymentSucceeded(t)
  <2>1. row'.sub = row.sub
    BY <1>1, <1>6 DEF PaymentSucceeded, Commit, Subscription
  <2> QED
    BY <1>6, <2>1, FinishSound DEF PaymentSucceeded, At
<1>7. CASE SubscriptionDeleted(t)
  <2>1. row'.sub = IF seen[t].sub = None THEN row.sub ELSE None
    BY <1>1, <1>7 DEF SubscriptionDeleted, Commit, Subscription
  <2>2. ~overlap => seen[t] = row
    BY <1>7 DEF SubscriptionDeleted, At, PlanInv
  <2> QED
    BY <1>7, <2>1, <2>2, FinishSound DEF SubscriptionDeleted
<1>8. CASE CheckoutCompleted(t)
  BY <1>8, CheckoutSound
<1>9. CASE CheckoutNotFetched(t)
  BY <1>9, FinishSound DEF CheckoutNotFetched, At
<1>10. CASE DeleteOld(t)
  BY <1>10, CleanupSound
<1> QED
  BY <1>2, <1>3, <1>4, <1>5, <1>6, <1>7, <1>8, <1>9, <1>10 DEF WebhookStep

\* A recount makes Stripe replace the subscription, or only end it.
LEMMA ResetSound ==
    ASSUME TypeOK, StripeSound, NEW t \in Tasks, StripeResets(t)
    PROVE  StripeSound'
<1> USE DEF stripeVars, sessionVars, historyVars
<1> DEFINE s == task[t].sub
           e == Report("deleted", s, "CANCELED", quantity[s])
<1>1. /\ At(t, "loaded", "recount") /\ s # None /\ Live(s)
      /\ UNCHANGED <<row, session, old, replaced, disputed, overlap>>
  BY DEF StripeResets
<1>2. /\ s \in Subs /\ task[t].count \in Counts
      /\ stripe[s] \notin {"none", "CANCELED"}
  BY <1>1, TaskType DEF Live
<1>3. e \in Event /\ e.kind = "deleted" /\ e.sub = s
  BY <1>2, Members, ReportType
  DEF Report, TypeOK, StripeOK, SubscriptionStatus, Webhooks
<1>4. ASSUME NEW new \in Subs, Unused(new),
             stripe' = [stripe EXCEPT ![s] = "CANCELED", ![new] = "ACTIVE"],
             Send(<<e, Report("created", new, "ACTIVE", task[t].count)>>),
             task' = [task EXCEPT ![t].sub = new],
             pc' = [pc EXCEPT ![t] = "called"],
             UNCHANGED seen
      PROVE  StripeSound'
  <2> DEFINE c == Report("created", new, "ACTIVE", task[t].count)
  <2>1. c \in Event /\ c.kind = "created" /\ c.sub = new
    BY <1>2, Members, ReportType DEF Report, SubscriptionStatus, Webhooks
  <2>2. PICK news : news = <<e, c>>
    OBVIOUS
  <2>a. Send(news)
    BY <1>4, <2>2
  <2> HIDE DEF c, e
  <2>3. /\ Len(news) = 2 /\ news[1] = e /\ news[2] = c /\ news \in Seq(Event)
        /\ \A k \in 1..Len(news) : news[k] = e \/ news[k] = c
    BY <1>3, <2>1, <2>2
  <2>4. Longer(news)
    BY <2>a, <2>3, SendLonger
  <2>5. stripe[new] = "none" /\ new # s
    BY <1>2, <1>4 DEF Unused
  <2>6. /\ stripe'[new] = "ACTIVE" /\ stripe'[s] = "CANCELED"
        /\ \A q \in Subs : q \notin {s, new} => stripe'[q] = stripe[q]
    BY <1>2, <1>4, <2>5 DEF TypeOK, StripeOK
  <2>7. /\ \A u \in Tasks : u # t => pc'[u] = pc[u] /\ task'[u] = task[u]
        /\ pc'[t] = "called" /\ task'[t].kind = "recount" /\ task'[t].sub = new
    BY <1>1, <1>4 DEF TypeOK, TasksOK, Task, At
  <2>8. \A q \in Subs : session'[q] = "open" => session[q] = "open" /\ q # new
    BY <1>1, <1>4 DEF Unused
  <2>9. Announces(new, news)
    <3>1. Opens(news[2], new) /\ 2 \in 1..Len(news)
      BY <2>1, <2>3 DEF Opens
    <3>2. \A k \in 1..Len(news) :
              /\ news[k].kind \in {"created", "checkout"} => news[k].sub = new
              /\ news[k].sub = new => news[k].kind \in {"created", "checkout"}
              /\ news[k].sub \in Subs /\ stripe'[news[k].sub] # "none"
              /\ news[k].kind = "deleted" => stripe'[news[k].sub] = "CANCELED"
      BY <1>2, <1>3, <2>1, <2>3, <2>5, <2>6
    <3>3. 1 \in 1..Len(news) /\ news[1].kind = "deleted" /\ news[1].sub = s
      BY <1>3, <2>3
    <3>4. \A q \in Subs \ {new} :
              \/ stripe'[q] = stripe[q]
              \/ /\ stripe[q] # "none" /\ stripe'[q] = "CANCELED"
                 /\ \E k \in 1..Len(news) : news[k].kind = "deleted" /\ news[k].sub = q
      BY <1>2, <2>6, <3>3
    <3> QED
      BY <1>1, <1>4, <2>4, <2>5, <2>6, <2>7, <2>8, <3>1, <3>2, <3>4 DEF Announces
  <2> QED
    BY <2>9, AnnouncedSound
<1>5. ASSUME stripe' = [stripe EXCEPT ![s] = "CANCELED"], Send(<<e>>), Finish(t)
      PROVE  StripeSound'
  <2>1. stripe'[s] = "CANCELED" /\ \A q \in Subs : q # s => stripe'[q] = stripe[q]
    BY <1>2, <1>5 DEF TypeOK, StripeOK
  <2> HIDE DEF e
  <2>2. Reports(<<e>>)
    BY <1>2, <1>3, <1>5, <2>1, ReportsOne
  <2>3. /\ \A u \in Tasks : u # t =>
              pc'[u] = pc[u] /\ task'[u] = task[u] /\ seen'[u] = seen[u]
        /\ pc'[t] = "idle" /\ task'[t].sub = None
    BY <1>5 DEF Finish, TypeOK, TasksOK, Idle
  <2>4. TasksGoOn /\ RowGoesOn
    BY <1>1, <2>3 DEF TasksGoOn, RowGoesOn, At
  <2> QED
    BY <1>1, <2>2, <2>4, OnSound DEF GoesOn
<1> QED
  BY <1>4, <1>5 DEF StripeResets

\* Requests of the owner.
LEMMA RequestStepSound ==
    ASSUME TypeOK, StripeSound, NEW t \in Tasks, RequestStep(t)
    PROVE  StripeSound'
<1> USE DEF stripeVars, sessionVars, taskVars, historyVars
<1>1. /\ seen[t] \in Subscription /\ row \in Subscription
      /\ task[t].sub \in Subs \union {None} /\ task[t].count \in Counts
  BY TaskType DEF TypeOK
<1>2. stripe' = stripe /\ events' = events => Reports(NoNews)
  BY UnchangedLonger DEF Reports, NoNews
<1>3. CASE \E kind \in Requests : \E n \in Counts : Ask(t, kind, n)
  BY <1>3, LoadSound DEF Ask
<1>4. CASE CancelSubscription(t) \/ CancelPendingDowngrade(t)
  BY <1>3, <1>4, Members DEF CancelSubscription, CancelPendingDowngrade, Requests
<1>5. CASE \E n \in Counts : UpdateServiceCount(t, n) \/ DowngradeServices(t, n)
  BY <1>3, <1>5 DEF UpdateServiceCount, DowngradeServices, Requests
<1>6. CASE RequestFails(t)
  <2>1. ~At(t, "loaded", "deleted")
    BY <1>6 DEF RequestFails, At, Requests
  <2> QED
    BY <1>6, <2>1, FinishSound DEF RequestFails
<1>7. CASE ReleaseFirst(t)
  BY <1>2, <1>7, StripeAlone DEF ReleaseFirst
<1>8. CASE StripeCancels(t)
  <2> DEFINE s == task[t].sub
             e == Report("deleted", s, "CANCELED", quantity[s])
  <2>1. Called(t) /\ pc[t] = "loaded" /\ task[t].kind \in Requests \ {"recount"}
    BY <1>8 DEF StripeCancels, At, Requests
  <2>2. CASE s = None /\ UNCHANGED <<stripe, events>>
    BY <1>2, <1>8, <2>1, <2>2, CalledSound DEF StripeCancels
  <2>3. CASE s # None /\ Live(s) /\ End(s) /\ Send(<<e>>)
    <3>1. e \in Event /\ e.kind = "deleted" /\ e.sub = s /\ s \in Subs
      BY <1>1, <2>3, Members, ReportType
      DEF Live, Report, TypeOK, StripeOK, SubscriptionStatus, Webhooks
    <3>2. /\ stripe[s] \notin {"none", "CANCELED"}
          /\ stripe'[s] = "CANCELED"
          /\ \A q \in Subs : q # s => stripe'[q] = stripe[q]
      BY <2>3, <3>1 DEF Live, End, TypeOK, StripeOK
    <3> HIDE DEF e
    <3>3. Reports(<<e>>)
      BY <2>3, <3>1, <3>2, ReportsOne
    <3> QED
      BY <1>8, <2>1, <3>3, CalledSound DEF StripeCancels
  <2> QED
    BY <1>8, <2>2, <2>3 DEF StripeCancels
<1>9. CASE StripeCancelsLater(t)
  <2> DEFINE s == task[t].sub
             e == Report("updated", s, stripe[s], quantity[s])
  <2>1. Called(t) /\ pc[t] = "loaded" /\ task[t].kind \in Requests \ {"recount"}
    BY <1>9 DEF StripeCancelsLater, At, Requests
  <2>2. CASE s = None /\ UNCHANGED <<stripe, events>>
    BY <1>2, <1>9, <2>1, <2>2, CalledSound DEF StripeCancelsLater
  <2>3. CASE s # None /\ Live(s) /\ stripe' = stripe /\ Send(<<e>>)
    <3>1. e \in Event /\ e.kind = "updated" /\ e.sub = s /\ s \in Subs
      BY <1>1, <2>3, Members, ReportType
      DEF Live, Report, TypeOK, StripeOK, SubscriptionStatus, Webhooks
    <3>2. /\ stripe[s] \notin {"none", "CANCELED"}
          /\ stripe'[s] = stripe[s]
          /\ \A q \in Subs : q # s => stripe'[q] = stripe[q]
      BY <2>3, <3>1 DEF Live, End, TypeOK, StripeOK
    <3> HIDE DEF e
    <3>3. Reports(<<e>>)
      BY <2>3, <3>1, <3>2, ReportsOne
    <3> QED
      BY <1>9, <2>1, <3>3, CalledSound DEF StripeCancelsLater
  <2> QED
    BY <1>9, <2>2, <2>3 DEF StripeCancelsLater
<1>10. CASE StripeSchedules(t)
  <2>1. pc[t] = "loaded" /\ task[t].kind \in Requests \ {"recount"}
    BY <1>10 DEF StripeSchedules, At, Requests
  <2> QED
    BY <1>2, <1>10, <2>1, CalledSound DEF StripeSchedules
<1>11. CASE StripeReleases(t)
  <2>1. pc[t] = "loaded" /\ task[t].kind \in Requests \ {"recount"}
    BY <1>11 DEF StripeReleases, At, Requests
  <2> QED
    BY <1>2, <1>11, <2>1, CalledSound DEF StripeReleases
<1>12. CASE StripeResets(t)
  BY <1>12, ResetSound
<1>13. CASE CancelNow(t)
  <2>1. row'.sub \in {row.sub, None}
    BY <1>1, <1>13 DEF CancelNow, Commit, Subscription
  <2> QED
    BY <1>13, <2>1, FinishSound DEF CancelNow, At
<1>14. CASE Recount(t)
  <2>1. row'.sub = IF task[t].sub = seen[t].sub THEN row.sub ELSE task[t].sub
    BY <1>1, <1>14 DEF Recount, Commit, Subscription
  <2>2. task[t].sub = seen[t].sub \/ Writes(t, task[t].sub)
    BY <1>14 DEF Recount, Writes, StripeSound, StripeInv
  <2> QED
    BY <1>14, <2>1, <2>2, FinishSound DEF Recount, At
<1>15. CASE CancelLater(t)
  <2>1. row'.sub = row.sub
    BY <1>1, <1>15 DEF CancelLater, Commit, Subscription
  <2> QED
    BY <1>15, <2>1, FinishSound DEF CancelLater, At
<1>16. CASE Downgrade(t)
  <2>1. row'.sub = row.sub
    BY <1>1, <1>16 DEF Downgrade, Commit, Subscription
  <2> QED
    BY <1>16, <2>1, FinishSound DEF Downgrade, At
<1>17. CASE KeepServices(t)
  <2>1. row'.sub = row.sub
    BY <1>1, <1>17 DEF KeepServices, Commit, Subscription
  <2> QED
    BY <1>17, <2>1, FinishSound DEF KeepServices, At
<1>18. CASE FetchSubscription(t)
  BY <1>18, LoadSound DEF FetchSubscription, Requests
<1>19. CASE SyncSubscription(t)
  <2>1. row'.sub = row.sub
    BY <1>1, <1>19 DEF SyncSubscription, Commit, Subscription
  <2> QED
    BY <1>19, <2>1, FinishSound DEF SyncSubscription, At
<1> QED
  BY <1>4, <1>5, <1>6, <1>7, <1>8, <1>9, <1>10, <1>11, <1>12, <1>13, <1>14, <1>15, <1>16,
     <1>17, <1>18, <1>19 DEF RequestStep

\* Every step keeps all of it, if webhooks come in order.
LEMMA SoundStep ==
    ASSUME TypeOK, PlanInv, StripeSound, Ordered, [Next]_vars
    PROVE  StripeSound'
<1>1. CASE \E s \in Subs : StripeStep(s) \/ CheckoutStep(s)
  BY <1>1, StripeStepSound, CheckoutOpens
<1>2. CASE \E t \in Tasks : WebhookStep(t) \/ RequestStep(t)
  BY <1>2, WebhookStepSound, RequestStepSound
<1>3. CASE UNCHANGED vars
  <2>1. Reports(NoNews)
    BY <1>3, UnchangedLonger DEF Reports, NoNews, vars
  <2> QED
    BY <1>3, <2>1, StripeAlone DEF vars
<1> QED
  BY <1>1, <1>2, <1>3 DEF Next

\* Before anything is paid there is nothing to end or to replace.
LEMMA InitSound == Init => StripeSound
<1> SUFFICES ASSUME Init PROVE StripeSound
  OBVIOUS
<1>1. /\ Len(events) = 0
      /\ \A t \in Tasks : pc[t] = "idle" /\ task[t].sub = None
      /\ \A s \in Subs : stripe[s] = "none" /\ session[s] = "none" /\ old[s] = None
      /\ row.sub = None /\ replaced = {}
  BY DEF Init, Idle, FreeRow
<1>2. StripeInv
  BY <1>1, BillingNoneAssumption DEF StripeInv, At
<1>3. EndInv
  BY <1>1 DEF EndInv, At
<1>4. ReplaceInv
  BY <1>1 DEF ReplaceInv, Replacing, At
<1> QED
  BY <1>2, <1>3, <1>4 DEF StripeSound

\* In every state of a behaviour.
LEMMA SoundInvariant ==
    ASSUME Ordered
    PROVE  Spec => [](IInv /\ StripeSound)
<1>1. Init => IInv /\ StripeSound
  BY InitType, InitSound DEF Init, IInv, PlanInv, Busy, At, FreeRow
<1>2. IInv /\ StripeSound /\ [Next]_vars => (IInv /\ StripeSound)'
  BY TypeStep, PlanStep, SoundStep DEF IInv
<1>3. QED
  BY <1>1, <1>2, PTL DEF Spec

\* If webhooks come in order and no two tasks overlap, nobody keeps the Pro plan on
\* a subscription that has ended: what is tracked when all was handled lives.
THEOREM SettledTheorem ==
    ASSUME Ordered
    PROVE  Spec => []SettledSubscriptionLives
<1>1. IInv /\ StripeSound => SettledSubscriptionLives
  <2> SUFFICES ASSUME TypeOK, StripeInv, EndInv, Settled, ~overlap, row.sub # None
               PROVE  Live(row.sub)
    BY DEF IInv, StripeSound, SettledSubscriptionLives
  <2>1. row.sub \in Subs /\ stripe[row.sub] \in SubscriptionStatus \union {"none"}
    BY DEF TypeOK, StripeOK, Subscription
  <2>2. stripe[row.sub] # "none"
    BY <2>1 DEF StripeInv
  <2>3. ~EndReported(row.sub) /\ \A t \in Tasks : ~Deleting(t, row.sub)
    BY DEF Settled, EndReported, Deleting, At
  <2>4. stripe[row.sub] # "CANCELED"
    BY <2>1, <2>3 DEF EndInv
  <2> QED
    BY <2>1, <2>2, <2>4 DEF Live, SubscriptionStatus
<1>2. QED
  BY <1>1, SoundInvariant, PTL

\* If webhooks come in order, the end of a replaced subscription never takes the
\* plan from the one that was paid, however many tasks are at work, as long as none was at
\* work on the old one when that payment was handled.
THEOREM ReplacementTheorem ==
    ASSUME Ordered
    PROVE  Spec => ReplacementKeepsPlan
<1>1. IInv /\ StripeSound => \A t \in Tasks :
          ~(At(t, "loaded", "deleted") /\ task[t].sub \in replaced \ disputed)
  BY DEF StripeSound, ReplaceInv, Deleting
<1>2. IInv /\ StripeSound => [\A t \in Tasks :
          /\ At(t, "loaded", "deleted") /\ pc'[t] = "idle"
          /\ task[t].sub \in replaced \ disputed
          => row'.plan = row.plan]_vars
  BY <1>1
<1>3. QED
  BY <1>2, SoundInvariant, PTL DEF Spec, ReplacementKeepsPlan
=============================================================================
