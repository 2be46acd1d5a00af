\* The field of the login page is not among those the server reads.
SPECIFICATION PortalSpec
CONSTANTS
    None = None
    Gone = Gone
    Failed = Failed
    Refused = Refused
    Understood = FALSE
    MaxLinks = 2
    MaxPortalCalls = 2
PROPERTY
    LinkIsSent
CHECK_DEADLOCK FALSE
