\* Two requests at a time in each part; values that parts share mean nothing.
SPECIFICATION ConnectionsSpec
CONSTANTS
    Parts = {"github", "integrations", "aws", "slack", "teams", "masking"}
    None = None
    Users = {u1}
    Workspaces = {w1}
    Calls = {c1, c2}
    Installations = {p1, p2}
    Planes = {p1, p2}
    MostGrants = 1
    MostHooks = 2
    Providers = {"datadog", "grafana", "aws"}
    Rows = {r1, r2, r3}
    ApiKeys = {k1}
    Processes = {p1, p2}
    MostCreds = 4
    MostRoles = 2
    Posts = {p1, p2}
    Apis = {p1, p2}
    MostDeliveries = 3
    SlackWorkspaces = {w1, w2}
    SlackTeamIds = {w1, w2}
    SlackPlanes = {p1, p2}
    PersonalValues <- SomePersonal
    MostWords = 2
    MostMessages = 1
SYMMETRY ConnectionsSymmetry
CONSTRAINT Few
INVARIANTS
    ConnectionsTypeOK
    InstallationsAreSound
    ConnectionsAreSound
    RolesAreSound
    
    
PROPERTIES
    ConnectionStepsAreSound
CHECK_DEADLOCK FALSE
