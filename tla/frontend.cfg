\* Two values, rows, subjects and people of each page.
SPECIFICATION FrontendSpec
CONSTANTS
    p1 = p1
    p2 = p2
    q1 = q1
    q2 = q2
    a1 = a1
    a2 = a2
    b1 = b1
    b2 = b2
    d1 = d1
    None = None
    Gone = Gone
    Failed = Failed
    Refused = Refused
    Values = {p1, p2}
    Empty = Empty
    Nothing = Nothing
    MaxSends = 2
    Secrets = {a1}
    NewKeys = {p1, p2}
    Blank = Blank
    Placeholder = Placeholder
    MaxSaves = 3
    Cases = {a1, a2}
    Rows = {d1}
    People = {b1, b2}
    Team <- Belonging
    Me = b1
    Entitled = TRUE
    Tasks = FALSE
    MaxLoads = 2
    MaxChanges = 1
    Subjects = {a1, a2}
    Inputs = {b1, b2}
    InputsOf <- Belonging
    MaxLists = 2
    MaxTalk = 2
    Keys = {p1, p2}
    ListRows = {q1, q2}
    MaxVersion = 1
    MaxAsked = 2
    MaxChanging = 2
INVARIANTS
    QuietPageIsCurrent
    SettledPageIsChosenCase
    ResponsibleOnTeam
    ShowsWhatWasAsked
    CreatedOnce
    UntouchedSecretsStay
PROPERTIES
    SendsOwnContent
    ReviewsOwnCase
CHECK_DEADLOCK FALSE
