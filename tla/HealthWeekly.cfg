\* The cron job publishes an id before it commits the review.
SPECIFICATION FairSpec
CONSTANTS
    Services = {s1}
    Reviews = {r1, r2}
    ApiReviews = {}
    Periods = {}
    Now = now
    Schedulers = {k1}
    Workers = {w1}
    None = none
    PromptStart = TRUE
PROPERTY DueServiceIsReviewed
CHECK_DEADLOCK FALSE
