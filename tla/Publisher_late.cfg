SPECIFICATION Spec
CONSTANTS
    Messages = {m1, m2, m3}
    Unroutable = {m3}
    RetryCount = 3
    MaxLosses = 2
    None = None
INVARIANT AckMeansStored
CHECK_DEADLOCK FALSE
