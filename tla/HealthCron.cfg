\* The cron job alone: one scheduler run at a time, two workers.
SPECIFICATION Spec
CONSTANTS
    Services = {s1}
    Reviews = {r1, r2, r3}
    ApiReviews = {}
    Periods = {}
    Now = now
    Schedulers = {k1}
    Workers = {w1, w2}
    None = none
    PromptStart = TRUE
SYMMETRY ReviewSymmetry
INVARIANTS
    TypeOK
    AtMostOneGeneration
    NoOverlap
CHECK_DEADLOCK FALSE
