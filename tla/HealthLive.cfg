\* Cron runs one after the other, and a user who asks for a review.
SPECIFICATION FairCron
CONSTANTS
    Services = {s1}
    Reviews = {r1, r2, a1}
    ApiReviews = {a1}
    Periods = {}
    Now = now
    Schedulers = {k1}
    Workers = {w1}
    None = none
    PromptStart = TRUE
INVARIANTS LastReviewIsReal
PROPERTIES
    KeepsReviewPromise
    FreeServiceIsTriggered
CHECK_DEADLOCK FALSE
