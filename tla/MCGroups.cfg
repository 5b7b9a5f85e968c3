\* Three users, one group with room for two or for all; users 1 and 2 quarrel.
SPECIFICATION Spec
CONSTANTS
    Users = {1, 2, 3}
    GroupIds = {10}
    Calls = {p, q}
    Limits = {2, 3}
    ChangingPairs <- OnePair
SYMMETRY Symmetry
INVARIANTS
    RowsAgree
    OneUsableOwner
    WithinCapacity
PROPERTIES
    RemovalAuthorised
    InvitedByFriend
    ChangesEnqueued
