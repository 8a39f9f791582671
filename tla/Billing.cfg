\* Everything the owner can ask for, two tasks at a time, webhooks in order.
SPECIFICATION Spec
CONSTANTS
    Subs = {s1, s2}
    Extra = 1
    MaxEvents = 3
    Tasks = {t1, t2}
    Asked = {"cancelNow", "cancelLater", "recount", "downgrade", "keep", "sync"}
    None = none
    Ordered = TRUE
SYMMETRY BillingSymmetry
CONSTRAINT FewExtras
INVARIANTS
    TypeOK
    PlanFollowsSubscription
    
PROPERTY ReplacementKeepsPlan
CHECK_DEADLOCK FALSE
