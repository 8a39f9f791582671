\* Two requests at a time in each part; values that parts share mean nothing.
SPECIFICATION PeopleSpec
CONSTANTS
    Parts = {"tenancy", "quotas", "services", "environments", "credentials", "llm",
             "uploads", "feed", "mail"}
    None = None
    Calls = {c1, c2}
    Users = {a1, a2}
    Workspaces = {w1}
    Invitations = {d1, d2}
    Days = {y1}
    Weeks = {k1}
    Limit = 3
    Sizes = {1, 2, 4}
    MostCounted = 6
    ServiceIds = {e1, e2, e3}
    Teams = {d1, d2}
    FreeLimit = 1
    Envs = {e1, e2, e3}
    Repos = {r1}
    Keys = {y1}
    Accounts = {w1}
    Links = {d1, d2}
    Sessions = {a1, a2}
    MostResets = 2
    LlmOwners = {c1, c2}
    ApiKeys = {y1}
    LlmProviders = {"openai", "azure_openai"}
    MostRows = 2
    NoRow = NoRow
    Questions = {w1}
    FileNames = {c1, c2}
    Bodies = {a1, a2}
    MostFilesSent = 2
    Tools = {c1, c2}
    Voters = {w1}
    Ballots = {a1, a2}
    Recipients = {w1}
    Sweeps = {c1, c2}
    Campaigns = {"reminder", "help", "feedback"}
    HelpWithin = 1
    FeedbackAfter = 2
    Interval = 1
    MaxReminders = 2
    PostAttempts = 2
    LastDay = 6
SYMMETRY PeopleSymmetry
CONSTRAINT Bounded
INVARIANTS
    PeopleTypeOK
    MembershipIsSound
    CountersAreSound
    ServicesAreSound
    EnvironmentsAreSound
    SessionsAreSound
    
    
    
PROPERTIES
    PeopleStepsAreSound
CHECK_DEADLOCK FALSE
