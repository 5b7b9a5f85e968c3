\* One group, one request goroutine, two workers that may claim both events.
SPECIFICATION Spec
CONSTANTS
    Users = {}
    Groups = {g}
    Requests = {p}
    Workers = {w1, w2}
    BatchSize = 2
    MaxVersion = 2
    MaxBulk = 1
    MaxFaults = 1
    None = None
INVARIANTS
    KeysAgree
    DoneEventsApplied
PROPERTY AbstractSpec
CHECK_DEADLOCK FALSE
