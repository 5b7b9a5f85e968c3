\* Two users, two concurrent calls, three applications between them.
SPECIFICATION Spec
CONSTANTS
    Users = {1, 2}
    Calls = {p, q}
    MaxRequests = 3
INVARIANTS
    TablesAgree
    PendingExclusive
    NoDeadlockedSet
PROPERTIES
    ConsentedFriendship
    ChangesEnqueued
