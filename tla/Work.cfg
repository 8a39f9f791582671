\* A web question and a Slack question that share one worker; the parts of a
\* review.  Values that parts share mean nothing.
SPECIFICATION WorkSpec
CONSTANTS
    Parts = {"questions", "agent", "progress", "requests", "analysis", "verdicts", "scores",
             "rules", "red"}
    Turns = {web, slack}
    Web = {web}
    Workers = {w1}
    None = none
    PromptClaim = TRUE
    Subjects = {d1, d2}
    Starts = {k1}
    Ends = {k1, k2}
    Rolling = rolling
    Clerks = {c1, c2}
    MostReviews = 3
    NoPeriod = none
    Reviewed = {d1, d2}
    Runners = {c1, c2}
    MostCommits = 3
    KeepCount = 1
    MostCalls = 2
    MostFiles = 1
    Pipelines = {"graph", "plain", "mock"}
    Nobody = none
    Rules = {x1, x2}
    GlobalRules = {x1}
    MostGaps = 3
    SampleSize = 2
    Confidence = 75
    MostAnswers = 3
    Providers <- AskedProviders
    MaxLogs = 1
    Latencies = {90, 450}
    ErrorRates = {0, 5000}
    Availabilities = {0, 995000}
    Throughputs = {0, 60}
    GapCounts = {0, 3}
    NoValue = none
    NaN = NaN
    Hypotheses = {h1, h2, g1}
    Generic = g1
    Confidences = {0, 90}
    MaxLoops = 2
    MostAttempts = 2
    MostTries = 2
    Connectable = {"github", "datadog"}
    Steps = {d1, d2}
    Notices = {x1}
    Callers = {c1, c2}
    MaxFailures = 2
    MostSends = 2
    Candidates <- SomeFacts
    MinLines = 3
    MostFacts = 4
    SourceFiles <- SomeSources
    MostSources = 3
SYMMETRY PartsSymmetry
CONSTRAINT Few
INVARIANTS
    WorkTypeOK
    MessageHasJob
    
    
    
    
    
    
CHECK_DEADLOCK FALSE
