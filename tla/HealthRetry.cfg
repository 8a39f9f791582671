\* A second request for a period whose review has failed.
SPECIFICATION Spec
CONSTANTS
    Services = {s1}
    Reviews = {a1, a2}
    ApiReviews = {a1, a2}
    Periods = {p1}
    Now = now
    Schedulers = {k1}
    Workers = {w1}
    None = none
    PromptStart = TRUE
PROPERTY RetryAfterFailure
CHECK_DEADLOCK FALSE
