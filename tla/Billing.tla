------------------------------- MODULE Billing -------------------------------
(***************************************************************************)
(* The subscription row of a workspace and the subscriptions Stripe keeps  *)
(* for it.  Requests of the owner and Stripe's webhooks each load the row,  *)
(* may call Stripe, and commit what they changed; nothing locks the row.   *)
(*                                                                         *)
(* Service counts are counted above the plan's base; "pending" stands for  *)
(* the three columns of a pending change.  Stripe is modelled from the     *)
(* calls the code makes and the events it handles.                         *)
(***************************************************************************)
EXTENDS Naturals, SequencesExt

CONSTANTS
    Subs,        \* the Stripe subscriptions that may come to exist (a bound)
    Extra,       \* the most services above the base (a bound)
    MaxEvents,   \* the most webhooks in flight (a bound)
    Tasks,       \* requests and webhooks handled at the same time
    Asked,       \* what the owner asks for (a bound)
    None,
    Ordered      \* TRUE: webhooks arrive in the order of what they report, those
                 \* about one subscription one after the other

ASSUME ExtraAssumption == Extra \in Nat
ASSUME BillingNoneAssumption == None \notin Subs \union Nat
ASSUME OrderedAssumption == Ordered \in BOOLEAN

VARIABLES
    row,        \* the Subscription row
    stripe,     \* the status of a Stripe subscription
    quantity,   \* its quantity of additional services
    schedule,   \* the quantity its schedule has for the next period
    ending,     \* cancel_at_period_end
    session,    \* the Checkout session that pays for a subscription
    old,        \* metadata: the subscription it is to replace
    events,     \* webhooks in flight
    pc,         \* how far a task is: "idle", "loaded", "called" or "cleanup"
    task,       \* what it does, for which subscription and quantity
    seen,       \* the row as it loaded it
    replaced,   \* history: the subscriptions a Checkout replaced
    disputed,   \* history: those another task was at work on when that was handled
    overlap     \* history: two tasks ran at the same time

stripeVars == <<stripe, quantity, schedule, ending>>
sessionVars == <<session, old>>
taskVars == <<pc, task, seen>>
historyVars == <<replaced, disputed>>
vars == <<row, stripe, quantity, schedule, ending, session, old, events, pc,
          task, seen, replaced, disputed, overlap>>

Counts == 0..Extra
SubscriptionStatus == {"ACTIVE", "PAST_DUE", "CANCELED", "INCOMPLETE"}
Subscription == [plan: {"FREE", "PRO"}, sub: Subs \union {None},
                 status: SubscriptionStatus, billable: Counts,
                 pending: Counts \union {None}]
Webhooks == {"created", "updated", "deleted", "failed", "paid", "checkout"}
Requests == {"cancelNow", "cancelLater", "recount", "downgrade", "keep", "sync"}
Event == [kind: Webhooks, sub: Subs, status: SubscriptionStatus, count: Counts]
Task == [kind: Webhooks \union Requests, sub: Subs \union {None},
         status: SubscriptionStatus, count: Counts]
Idle == [kind |-> "sync", sub |-> None, status |-> "ACTIVE", count |-> 0]

StripeOK ==
    /\ stripe \in [Subs -> SubscriptionStatus \union {"none"}]
    /\ quantity \in [Subs -> Counts]
    /\ schedule \in [Subs -> Counts \union {None}]
    /\ ending \in [Subs -> BOOLEAN]
    /\ session \in [Subs -> {"none", "open", "done"}]
    /\ old \in [Subs -> Subs \union {None}]
    /\ replaced \subseteq Subs
    /\ disputed \subseteq Subs

TasksOK ==
    /\ pc \in [Tasks -> {"idle", "loaded", "called", "cleanup"}]
    /\ task \in [Tasks -> Task]
    /\ seen \in [Tasks -> Subscription]
    /\ \A t \in Tasks : pc[t] = "cleanup" \/ task[t].kind \in Webhooks
           => task[t].sub \in Subs
    /\ overlap \in BOOLEAN

TypeOK == row \in Subscription /\ events \in Seq(Event) /\ StripeOK /\ TasksOK

\* create_subscription, when the workspace is created.
FreeRow == [plan |-> "FREE", sub |-> None, status |-> "ACTIVE", billable |-> 0,
            pending |-> None]

Init ==
    /\ row = FreeRow
    /\ stripe = [s \in Subs |-> "none"]
    /\ quantity = [s \in Subs |-> 0]
    /\ schedule = [s \in Subs |-> None]
    /\ ending = [s \in Subs |-> FALSE]
    /\ session = [s \in Subs |-> "none"]
    /\ old = [s \in Subs |-> None]
    /\ events = << >>
    /\ pc = [t \in Tasks |-> "idle"]
    /\ task = [t \in Tasks |-> Idle]
    /\ seen = [t \in Tasks |-> FreeRow]
    /\ replaced = {}
    /\ disputed = {}
    /\ overlap = FALSE

-----------------------------------------------------------------------------
(* Stripe (external). *)

Live(s) == stripe[s] \in {"ACTIVE", "PAST_DUE", "INCOMPLETE"}
Unused(s) == stripe[s] = "none" /\ session[s] = "none"

Report(kind, s, status, n) ==
    [kind |-> kind, sub |-> s, status |-> status, count |-> n]

Send(new) ==
    /\ Len(events) + Len(new) <= MaxEvents
    /\ events' = events \o new

\* What the end of a subscription does to it, whoever asked for it.
End(s) ==
    /\ stripe' = [stripe EXCEPT ![s] = "CANCELED"]
    /\ schedule' = [schedule EXCEPT ![s] = None]
    /\ UNCHANGED <<quantity, ending>>

\* The customer pays in Checkout; which of its two webhooks comes first is open.
PayCheckout(s) ==
    /\ session[s] = "open"
    /\ session' = [session EXCEPT ![s] = "done"]
    /\ stripe' = [stripe EXCEPT ![s] = "ACTIVE"]
    /\ LET created == Report("created", s, "INCOMPLETE", quantity[s])
           checkout == Report("checkout", s, "ACTIVE", quantity[s])
       IN  Send(<<created, checkout>>) \/ Send(<<checkout, created>>)
    /\ UNCHANGED <<row, quantity, schedule, ending, old, taskVars, historyVars,
                   overlap>>

InvoiceFails(s) ==
    /\ stripe[s] = "ACTIVE"
    /\ stripe' = [stripe EXCEPT ![s] = "PAST_DUE"]
    /\ Send(<<Report("failed", s, "PAST_DUE", quantity[s])>>)
    /\ UNCHANGED <<row, quantity, schedule, ending, sessionVars, taskVars,
                   historyVars, overlap>>

InvoicePaid(s) ==
    /\ stripe[s] = "PAST_DUE"
    /\ stripe' = [stripe EXCEPT ![s] = "ACTIVE"]
    /\ Send(<<Report("paid", s, "ACTIVE", quantity[s])>>)
    /\ UNCHANGED <<row, quantity, schedule, ending, sessionVars, taskVars,
                   historyVars, overlap>>

\* Cancelled at the end of its period, or because nobody pays.
SubscriptionEnds(s) ==
    /\ Live(s)
    /\ ending[s] \/ stripe[s] = "PAST_DUE"
    /\ End(s)
    /\ Send(<<Report("deleted", s, "CANCELED", quantity[s])>>)
    /\ UNCHANGED <<row, sessionVars, taskVars, historyVars, overlap>>

\* A new period starts with what the schedule says.
ScheduleApplies(s) ==
    /\ Live(s) /\ schedule[s] # None
    /\ quantity' = [quantity EXCEPT ![s] = schedule[s]]
    /\ schedule' = [schedule EXCEPT ![s] = None]
    /\ Send(<<Report("updated", s, stripe[s], schedule[s])>>)
    /\ UNCHANGED <<row, stripe, ending, sessionVars, taskVars, historyVars, overlap>>

-----------------------------------------------------------------------------
(* Checkout sessions. *)

\* subscribe_to_pro: refused only to a workspace that is on the Pro plan now.
SubscribeToPro(s) ==
    /\ row.plan # "PRO"
    /\ Unused(s)
    /\ session' = [session EXCEPT ![s] = "open"]
    /\ UNCHANGED <<row, stripeVars, old, events, taskVars, historyVars, overlap>>

\* create_service_update_checkout.
ServiceUpdateCheckout(s, n) ==
    /\ row.sub # None
    /\ Unused(s)
    /\ session' = [session EXCEPT ![s] = "open"]
    /\ quantity' = [quantity EXCEPT ![s] = n]
    /\ old' = [old EXCEPT ![s] = row.sub]
    /\ UNCHANGED <<row, stripe, schedule, ending, events, taskVars, historyVars,
                   overlap>>

-----------------------------------------------------------------------------
(* Tasks. *)

Busy(t) == pc[t] # "idle"

\* The row is loaded; whatever follows works on this copy.
Load(t, what) ==
    /\ pc[t] = "idle"
    /\ pc' = [pc EXCEPT ![t] = "loaded"]
    /\ task' = [task EXCEPT ![t] = what]
    /\ seen' = [seen EXCEPT ![t] = row]
    /\ overlap' = (overlap \/ \E u \in Tasks \ {t} : Busy(u))

At(t, step, kind) == pc[t] = step /\ task[t].kind = kind

\* SQLAlchemy writes the columns whose value differs from the one it loaded.
Commit(t, new) ==
    row' = [f \in DOMAIN row |-> IF new[f] = seen[t][f] THEN row[f] ELSE new[f]]

\* Its locals are gone.
Finish(t) ==
    /\ pc' = [pc EXCEPT ![t] = "idle"]
    /\ task' = [task EXCEPT ![t] = Idle]
    /\ seen' = [seen EXCEPT ![t] = FreeRow]

FindsRow(e) == e.kind \in {"created", "checkout"} \/ row.sub = e.sub

InHand(s) ==
    \E t \in Tasks : Busy(t) /\ task[t].kind \in Webhooks /\ task[t].sub = s

Deliverable(i) ==
    Ordered =>
        /\ ~InHand(events[i].sub)
        /\ \A j \in 1..(i - 1) : InHand(events[j].sub)

\* A Checkout replaces s while another task is at work on s.
Disputed(e, s) ==
    e.kind = "checkout" /\ old[e.sub] = s /\ \E t \in Tasks : task[t].sub = s

\* handle_stripe_webhook: all answers are 200, so an event comes once.  One that
\* names a subscription that the row does not track is ignored.
HandleWebhook(t) ==
    \E i \in 1..Len(events) :
        /\ Deliverable(i)
        /\ events' = RemoveAt(events, i)
        /\ IF FindsRow(events[i])
           THEN Load(t, events[i])
           ELSE UNCHANGED <<taskVars, overlap>>
        /\ disputed' = disputed \union {s \in Subs : Disputed(events[i], s)}
        /\ UNCHANGED <<row, stripeVars, sessionVars, replaced>>

KeepActive(t) ==
    IF seen[t].status = "ACTIVE" /\ task[t].status = "INCOMPLETE"
    THEN "ACTIVE" ELSE task[t].status

SubscriptionCreated(t) ==
    /\ At(t, "loaded", "created")
    /\ Commit(t, [seen[t] EXCEPT !.sub = task[t].sub, !.plan = "PRO",
                                 !.status = KeepActive(t)])
    /\ Finish(t)
    /\ UNCHANGED <<stripeVars, sessionVars, events, historyVars, overlap>>

\* A downgrade is no longer pending once the count has become what it asked for.
SubscriptionUpdated(t) ==
    /\ At(t, "loaded", "updated")
    /\ LET n == task[t].count IN
       Commit(t, [seen[t] EXCEPT
           !.status = KeepActive(t),
           !.billable = n,
           !.pending = IF @ = n /\ seen[t].billable # n THEN None ELSE @])
    /\ Finish(t)
    /\ UNCHANGED <<stripeVars, sessionVars, events, historyVars, overlap>>

\* Faulty: takes the plan away but still tracks the subscription.
SubscriptionDeletedKept(t) ==
    /\ At(t, "loaded", "deleted")
    /\ Commit(t, [seen[t] EXCEPT !.plan = "FREE", !.status = "ACTIVE",
                                 !.billable = 0])
    /\ Finish(t)
    /\ UNCHANGED <<stripeVars, sessionVars, events, historyVars, overlap>>

\* Faulty: trusts the row instead of the event.
SubscriptionDeletedIgnored(t) ==
    /\ At(t, "loaded", "deleted")
    /\ IF seen[t].status = "ACTIVE"
       THEN UNCHANGED row
       ELSE Commit(t, [seen[t] EXCEPT !.plan = "FREE", !.sub = None,
                                      !.status = "ACTIVE", !.billable = 0])
    /\ Finish(t)
    /\ UNCHANGED <<stripeVars, sessionVars, events, historyVars, overlap>>

\* Stripe is asked whether the subscription is canceled, which it always is.
SubscriptionDeleted(t) ==
    /\ At(t, "loaded", "deleted")
    /\ Commit(t, [seen[t] EXCEPT !.plan = "FREE", !.sub = None,
                                 !.status = "ACTIVE", !.billable = 0])
    /\ Finish(t)
    /\ UNCHANGED <<stripeVars, sessionVars, events, historyVars, overlap>>

PaymentFailed(t) ==
    /\ At(t, "loaded", "failed")
    /\ Commit(t, [seen[t] EXCEPT !.status = "PAST_DUE"])
    /\ Finish(t)
    /\ UNCHANGED <<stripeVars, sessionVars, events, historyVars, overlap>>

PaymentSucceeded(t) ==
    /\ At(t, "loaded", "paid")
    /\ Commit(t, [seen[t] EXCEPT
           !.status = IF @ = "PAST_DUE" THEN "ACTIVE" ELSE @])
    /\ Finish(t)
    /\ UNCHANGED <<stripeVars, sessionVars, events, historyVars, overlap>>

CheckoutRow(t) ==
    LET paid == [seen[t] EXCEPT !.sub = task[t].sub, !.plan = "PRO", !.status = "ACTIVE"]
    IN  IF old[task[t].sub] = None THEN paid
        ELSE [paid EXCEPT !.billable = task[t].count, !.pending = None]

\* Faulty: cancels the old subscription before it commits the new one.
CheckoutDeletesFirst(t) ==
    /\ At(t, "loaded", "checkout")
    /\ LET s == old[task[t].sub] IN
       IF s # None /\ Live(s)
       THEN /\ End(s)
            /\ Send(<<Report("deleted", s, "CANCELED", quantity[s])>>)
            /\ replaced' = replaced \union {s}
            /\ UNCHANGED disputed
            /\ UNCHANGED <<row, taskVars>>
       ELSE /\ Commit(t, CheckoutRow(t))
            /\ Finish(t)
            /\ UNCHANGED <<stripeVars, events, historyVars>>
    /\ UNCHANGED <<sessionVars, overlap>>

\* A session that replaces a subscription commits before it cancels the old one.
CheckoutCompleted(t) ==
    /\ At(t, "loaded", "checkout")
    /\ Commit(t, CheckoutRow(t))
    /\ IF old[task[t].sub] = None
       THEN Finish(t)
       ELSE pc' = [pc EXCEPT ![t] = "cleanup"] /\ UNCHANGED <<task, seen>>
    /\ UNCHANGED <<stripeVars, sessionVars, events, historyVars, overlap>>

\* Stripe does not give the new subscription: the event is answered and lost.
CheckoutNotFetched(t) ==
    /\ At(t, "loaded", "checkout")
    /\ Finish(t)
    /\ UNCHANGED <<row, stripeVars, sessionVars, events, historyVars, overlap>>

\* Stripe may refuse, which is logged.
DeleteOld(t) ==
    /\ pc[t] = "cleanup"
    /\ LET s == old[task[t].sub] IN
       \/ /\ s # None /\ Live(s)
          /\ End(s)
          /\ Send(<<Report("deleted", s, "CANCELED", quantity[s])>>)
          /\ replaced' = replaced \union {s}
          /\ UNCHANGED disputed
       \/ UNCHANGED <<stripeVars, events, historyVars>>
    /\ Finish(t)
    /\ UNCHANGED <<row, sessionVars, overlap>>

-----------------------------------------------------------------------------
(* Requests of the owner. *)

Ask(t, kind, n) ==
    /\ kind \in Asked
    /\ Load(t, [kind |-> kind, sub |-> row.sub, status |-> "ACTIVE", count |-> n])
    /\ UNCHANGED <<row, stripeVars, sessionVars, events, historyVars>>

CancelSubscription(t) == Ask(t, "cancelNow", 0) \/ Ask(t, "cancelLater", 0)

\* delete_service counts the services that are left.
UpdateServiceCount(t, n) == Ask(t, "recount", n)

\* A total below the plan's base counts as the base.
DowngradeServices(t, n) ==
    row.sub # None /\ (n < row.billable \/ n = 0) /\ Ask(t, "downgrade", n)

CancelPendingDowngrade(t) == row.pending # None /\ Ask(t, "keep", 0)

\* Stripe may refuse a call, the commit may fail and the process may end: what
\* Stripe did before is not undone and the row is not written.
RequestFails(t) ==
    /\ pc[t] \in {"loaded", "called"} /\ task[t].kind \in Requests
    /\ Finish(t)
    /\ UNCHANGED <<row, stripeVars, sessionVars, events, historyVars, overlap>>

Called(t) == pc' = [pc EXCEPT ![t] = "called"] /\ UNCHANGED <<task, seen>>

\* A schedule that the row knows of is released first; a refusal is logged.
ReleaseFirst(t) ==
    /\ At(t, "loaded", "cancelNow") \/ At(t, "loaded", "cancelLater")
    /\ seen[t].pending # None /\ task[t].sub # None
    /\ schedule[task[t].sub] # None
    /\ schedule' = [schedule EXCEPT ![task[t].sub] = None]
    /\ UNCHANGED <<row, stripe, quantity, ending, sessionVars, events, taskVars,
                   historyVars, overlap>>

StripeCancels(t) ==
    /\ At(t, "loaded", "cancelNow")
    /\ LET s == task[t].sub IN
       \/ /\ s # None /\ Live(s)
          /\ End(s)
          /\ Send(<<Report("deleted", s, "CANCELED", quantity[s])>>)
       \/ s = None /\ UNCHANGED <<stripeVars, events>>
    /\ Called(t)
    /\ UNCHANGED <<row, sessionVars, historyVars, overlap>>

CancelNow(t) ==
    /\ At(t, "called", "cancelNow")
    /\ Commit(t, [seen[t] EXCEPT !.plan = "FREE", !.sub = None, !.status = "ACTIVE",
                                 !.pending = IF seen[t].sub = None THEN @ ELSE None])
    /\ Finish(t)
    /\ UNCHANGED <<stripeVars, sessionVars, events, historyVars, overlap>>

\* It ends with its period, unless a schedule still manages it.
StripeCancelsLater(t) ==
    /\ At(t, "loaded", "cancelLater")
    /\ LET s == task[t].sub IN
       \/ /\ s # None /\ Live(s) /\ schedule[s] = None
          /\ ending' = [ending EXCEPT ![s] = TRUE]
          /\ Send(<<Report("updated", s, stripe[s], quantity[s])>>)
       \/ s = None /\ UNCHANGED <<ending, events>>
    /\ Called(t)
    /\ UNCHANGED <<row, stripe, quantity, schedule, sessionVars, historyVars, overlap>>

CancelLater(t) ==
    /\ At(t, "called", "cancelLater")
    /\ Commit(t, [seen[t] EXCEPT !.pending = IF seen[t].sub = None THEN @ ELSE None])
    /\ Finish(t)
    /\ UNCHANGED <<stripeVars, sessionVars, events, historyVars, overlap>>

\* reset_subscription_with_new_billing_cycle deletes the old subscription and
\* creates another one; without the second call the request fails.
StripeResets(t) ==
    /\ At(t, "loaded", "recount")
    /\ LET s == task[t].sub IN
       /\ s # None /\ seen[t].status = "ACTIVE" /\ Live(s)
       /\ schedule' = [schedule EXCEPT ![s] = None]
       /\ \/ \E new \in Subs :
              /\ Unused(new)
              /\ stripe' = [stripe EXCEPT ![s] = "CANCELED", ![new] = "ACTIVE"]
              /\ quantity' = [quantity EXCEPT ![new] = task[t].count]
              /\ Send(<<Report("deleted", s, "CANCELED", quantity[s]),
                        Report("created", new, "ACTIVE", task[t].count)>>)
              /\ task' = [task EXCEPT ![t].sub = new]
              /\ pc' = [pc EXCEPT ![t] = "called"]
              /\ UNCHANGED seen
          \/ /\ stripe' = [stripe EXCEPT ![s] = "CANCELED"]
             /\ Send(<<Report("deleted", s, "CANCELED", quantity[s])>>)
             /\ Finish(t)
             /\ UNCHANGED quantity
    /\ UNCHANGED <<row, ending, sessionVars, historyVars, overlap>>

\* Faulty: bills a service of the base, too.
RecountWithBase(t) ==
    /\ \/ At(t, "called", "recount")
       \/ /\ At(t, "loaded", "recount")
          /\ task[t].sub = None \/ seen[t].status # "ACTIVE"
    /\ Commit(t, [seen[t] EXCEPT !.sub = task[t].sub, !.billable = task[t].count + 1,
                                 !.pending = None])
    /\ Finish(t)
    /\ UNCHANGED <<stripeVars, sessionVars, events, historyVars, overlap>>

\* Without an active subscription only the row is changed.
Recount(t) ==
    /\ \/ At(t, "called", "recount")
       \/ /\ At(t, "loaded", "recount")
          /\ task[t].sub = None \/ seen[t].status # "ACTIVE"
    /\ Commit(t, [seen[t] EXCEPT !.sub = task[t].sub, !.billable = task[t].count,
                                 !.pending = None])
    /\ Finish(t)
    /\ UNCHANGED <<stripeVars, sessionVars, events, historyVars, overlap>>

StripeSchedules(t) ==
    /\ At(t, "loaded", "downgrade")
    /\ Live(task[t].sub)
    /\ schedule' = [schedule EXCEPT ![task[t].sub] = task[t].count]
    /\ Called(t)
    /\ UNCHANGED <<row, stripe, quantity, ending, sessionVars, events, historyVars,
                   overlap>>

Downgrade(t) ==
    /\ At(t, "called", "downgrade")
    /\ Commit(t, [seen[t] EXCEPT !.pending = task[t].count])
    /\ Finish(t)
    /\ UNCHANGED <<stripeVars, sessionVars, events, historyVars, overlap>>

StripeReleases(t) ==
    /\ At(t, "loaded", "keep")
    /\ task[t].sub # None
    /\ schedule[task[t].sub] # None
    /\ schedule' = [schedule EXCEPT ![task[t].sub] = None]
    /\ Called(t)
    /\ UNCHANGED <<row, stripe, quantity, ending, sessionVars, events, historyVars,
                   overlap>>

KeepServices(t) ==
    /\ At(t, "called", "keep")
    /\ Commit(t, [seen[t] EXCEPT !.pending = None])
    /\ Finish(t)
    /\ UNCHANGED <<stripeVars, sessionVars, events, historyVars, overlap>>

\* The row is looked up again after Stripe has answered, but the session still
\* holds what the first look loaded.
FetchSubscription(t) ==
    /\ "sync" \in Asked
    /\ row.sub # None
    /\ stripe[row.sub] # "none"
    /\ Load(t, [kind |-> "sync", sub |-> row.sub, status |-> stripe[row.sub],
                count |-> quantity[row.sub]])
    /\ UNCHANGED <<row, stripeVars, sessionVars, events, historyVars>>

SyncSubscription(t) ==
    /\ At(t, "loaded", "sync")
    /\ row.sub = task[t].sub
    /\ Commit(t, [seen[t] EXCEPT !.status = task[t].status,
                                 !.billable = task[t].count])
    /\ Finish(t)
    /\ UNCHANGED <<stripeVars, sessionVars, events, historyVars, overlap>>

-----------------------------------------------------------------------------
StripeStep(s) ==
    \/ PayCheckout(s) \/ InvoiceFails(s) \/ InvoicePaid(s) \/ SubscriptionEnds(s)
    \/ ScheduleApplies(s)

CheckoutStep(s) ==
    SubscribeToPro(s) \/ \E n \in Counts : ServiceUpdateCheckout(s, n)

WebhookStep(t) ==
    \/ HandleWebhook(t) \/ SubscriptionCreated(t) \/ SubscriptionUpdated(t)
    \/ SubscriptionDeleted(t) \/ PaymentFailed(t) \/ PaymentSucceeded(t)
    \/ CheckoutCompleted(t) \/ CheckoutNotFetched(t) \/ DeleteOld(t)

RequestStep(t) ==
    \/ CancelSubscription(t) \/ CancelPendingDowngrade(t) \/ RequestFails(t)
    \/ \E n \in Counts : UpdateServiceCount(t, n) \/ DowngradeServices(t, n)
    \/ ReleaseFirst(t) \/ StripeCancels(t) \/ CancelNow(t) \/ StripeCancelsLater(t) \/ CancelLater(t)
    \/ StripeResets(t) \/ Recount(t) \/ StripeSchedules(t) \/ Downgrade(t)
    \/ StripeReleases(t) \/ KeepServices(t)
    \/ FetchSubscription(t) \/ SyncSubscription(t)

Next ==
    \/ \E s \in Subs : StripeStep(s) \/ CheckoutStep(s)
    \/ \E t \in Tasks : WebhookStep(t) \/ RequestStep(t)

Spec == Init /\ [][Next]_vars

-----------------------------------------------------------------------------
(* Properties. *)

\* As long as no two tasks overlap the plan follows the subscription: the
\* workspace is on the Pro plan exactly when it tracks a Stripe subscription,
\* in whatever order webhooks arrive and whichever calls to Stripe fail.
PlanFollowsSubscription ==
    ~overlap => (row.plan = "PRO" <=> row.sub # None)

Settled == events = << >> /\ \A t \in Tasks : pc[t] = "idle"

\* Nobody keeps the Pro plan on a subscription that has ended: if webhooks come
\* in order and no two tasks overlap, then, once all was handled, the tracked
\* subscription lives.
SettledSubscriptionLives ==
    Settled /\ ~overlap /\ row.sub # None => Live(row.sub)

\* The order that handle_checkout_completed insists on: because it commits the
\* new subscription before it cancels the old one, the webhook that reports the
\* end of the old one never takes the Pro plan away, whatever else goes on, if
\* webhooks come in order and nothing else was at work on the old subscription
\* when the payment for the new one was handled.
ReplacementKeepsPlan ==
    [][\A t \in Tasks :
        /\ At(t, "loaded", "deleted") /\ pc'[t] = "idle"
        /\ task[t].sub \in replaced \ disputed
        => row'.plan = row.plan]_vars

\* The safety check of handle_subscription_deleted "prevents race conditions
\* where a new subscription was created but the DB hasn't been updated yet":
\* once all was handled, a workspace that tracks a subscription has its plan.
SettledPlanIsPaidPlan ==
    Settled => (row.plan = "PRO" <=> row.sub # None)
=============================================================================
