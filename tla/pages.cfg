\* Two users, documents, cases and contents of a case; two accounts in two tabs; one client with two links.
SPECIFICATION MCSpec
CONSTANTS
    a1 = a1
    a2 = a2
    b1 = b1
    b2 = b2
    None = None
    Gone = Gone
    Failed = Failed
    Refused = Refused
    Ids = {a1, a2}
    Roles = {"lawyer", "paralegal"}
    Docs = {b1, b2}
    Cases = {a1, a2}
    CaseOf <- Belonging
    Stages = {0, 1, 2}
    MaxPolls = 2
    MaxChoices = 2
    Contents = {a1, a2}
    People = {b1, b2}
    Viewer = b1
    Manager = FALSE
    MaxLoads = 2
    MaxCalls = 2
    Files = {b1}
    Me = a1
    Other = a2
    Original = b2
    MaxVersions = 2
    MaxAsked = 2
    MaxMeta = 1
    Tabs = {a1, a2}
    Accounts = {b1, b2}
    RoleOf <- TwoRoles
    PageRoles <- TwoGuards
    MaxRefresh = 2
    MaxActs = 2
    Understood = TRUE
    MaxLinks = 2
    MaxPortalCalls = 2
INVARIANTS
    SettledPagesAreCurrent
    ShownToItsUser
    OneSessionPerLink
PROPERTY
    ChecksInShownFile
CHECK_DEADLOCK FALSE
