\* One password change, with a login or a rotation running beside it.
SPECIFICATION AgedSpec
CONSTANTS
    Calls = {p, q}
    Clients = {browser}
    Tokens = {j1, j2}
    MaxChanges = 1
    MaxFaults = 0
    None = None
SYMMETRY Symmetry
INVARIANT
    OldTokensRevoked
CHECK_DEADLOCK FALSE
