\* One browser, three requests at a time, three tokens, two changes, one fault.
SPECIFICATION Spec
CONSTANTS
    Calls = {p, q, r}
    Clients = {browser}
    Tokens = {j1, j2, j3}
    MaxChanges = 2
    MaxFaults = 1
    None = None
SYMMETRY Symmetry
INVARIANTS
    ExchangedOnce
    OneLivePerFamily
    IndexComplete
PROPERTIES
    RevokedBeforeSaved
    LogoutHasReason
CHECK_DEADLOCK FALSE
