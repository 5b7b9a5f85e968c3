\* Three messages, one of them unroutable; the channel is lost twice.
SPECIFICATION Spec
CONSTANTS
    Messages = {m1, m2, m3}
    Unroutable = {m3}
    RetryCount = 3
    MaxLosses = 2
    None = None
PROPERTIES
    AnsweredMeansStored
    PublishReturns
CHECK_DEADLOCK FALSE
