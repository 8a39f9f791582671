\* A reset of the subscription and its two webhooks.
SPECIFICATION Spec
CONSTANTS
    Subs = {s1, s2}
    Extra = 0
    MaxEvents = 3
    Tasks = {t1, t2}
    Asked = {"recount"}
    None = none
    Ordered = TRUE
INVARIANTS
    SettledPlanIsPaidPlan
CHECK_DEADLOCK FALSE
