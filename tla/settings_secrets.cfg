\* One secret; a load that may fail.
SPECIFICATION SettingsSpec
CONSTANTS
    None = None
    Gone = Gone
    Failed = Failed
    Refused = Refused
    Secrets = {waha_key}
    NewKeys = {k1}
    Blank = Blank
    Placeholder = Placeholder
    MaxSaves = 2
INVARIANT
    SecretsChangeOnlyWhenTyped
CHECK_DEADLOCK FALSE
