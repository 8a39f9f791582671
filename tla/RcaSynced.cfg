SPECIFICATION Spec
CONSTANTS
    Turns = {web}
    Web = {web}
    Workers = {w1}
    None = none
    PromptClaim = TRUE
INVARIANT SyncedTurnHasResponse
CHECK_DEADLOCK FALSE
