------------------------------ MODULE MCBilling ------------------------------
(***************************************************************************)
(* Billing for TLC.                                                        *)
(***************************************************************************)
EXTENDS Billing, TLC

\* Tasks are interchangeable, and so are subscriptions.
BillingSymmetry == Permutations(Tasks) \union Permutations(Subs)

\* Additional services, and the requests about them, only as long as one task
\* has run at a time.
FewExtras == overlap =>
    /\ \A s \in Subs : quantity[s] = 0 /\ schedule[s] = None /\ ~ending[s]
    /\ row.billable = 0 /\ row.pending = None
    /\ \A i \in 1..Len(events) : events[i].count = 0
    /\ \A t \in Tasks : Busy(t) =>
           \/ task[t].kind \in Webhooks \union {"recount", "cancelNow"}
           \/ task[t].kind = "sync" /\ Len(events) <= 1
=============================================================================
