SPECIFICATION Spec
CONSTANTS
    Instances <- MCInstances
    Callers <- MCCallers
    InstanceOf <- MCInstanceOf
    SegmentSize <- MCSegmentSize
    FirstID = 2
    MaxID = 7
    None = None
INVARIANTS
    NoDuplicateIds
    SegmentsAccepted
PROPERTIES
    AbstractSpec
    MutexReleased
CHECK_DEADLOCK FALSE
