SPECIFICATION Spec
CONSTANTS
    Turns = {web}
    Web = {web}
    Workers = {w1}
    None = none
    PromptClaim = TRUE
INVARIANT DeletedMessageWasProcessed
CHECK_DEADLOCK FALSE
