\* One question, from the web or from Slack, two workers that may stop for ever,
\* and a client that keeps asking.
SPECIFICATION FairSpec
CONSTANTS
    Turns = {web, slack}
    Web = {web}
    Workers = {w1, w2}
    None = none
    PromptClaim = TRUE
INVARIANTS
    AtMostOneAnalysis
    NoPhantomCompletion
    ClaimReadIsFresh
CONSTRAINT OneQuestion
PROPERTIES
    KeepsPromise
    WatchedTurnSettles
CHECK_DEADLOCK FALSE
