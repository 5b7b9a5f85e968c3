\* Two users whose friendship changes together, one worker, one fault.
SPECIFICATION FairSpec
CONSTANTS
    Users = {u, v}
    Groups = {}
    Requests = {p}
    Workers = {w}
    BatchSize = 2
    MaxVersion = 1
    MaxBulk = 1
    MaxFaults = 1
    None = None
PROPERTIES
    EveryEventDone
    CallsReturn
CHECK_DEADLOCK FALSE
