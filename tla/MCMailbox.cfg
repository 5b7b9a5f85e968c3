\* Two messages, three milliseconds, pages of one, boxes trimmed to one message.
SPECIFICATION Spec
CONSTANTS
    Users = {1, 2}
    Outbox = 0
    Readers <- Recipient
    Routes <- FromOne
    Ids = {11, 12}
    Wide = {12}
    Times = {1, 2, 3}
    Window = 1
    PageSize = 1
    MaxCount = 1
    ClientIds = {c, d}
    MaxFaults = 1
    None = None
INVARIANTS
    BoxesAgree
    NoRepeat
    NoOmission
PROPERTIES
    CatchesUp
CHECK_DEADLOCK FALSE
