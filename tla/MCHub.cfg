\* Two logins on one hub, one kicking the other, while it shuts down and while the
\* user logs in on other servers; one fault.
SPECIFICATION Spec
CONSTANTS
    hub1 = hub1
    login1 = login1
    login2 = login2
    Hubs = {hub1}
    Conns = {login1, login2}
    HubOf <- OneHub
    QueueCap = 1
    MaxFaults = 1
    None = None
INVARIANTS
    MapAgrees
    LatestOnline
    ClosedEmpty
PROPERTIES
    CloseReturns
    ReplacedEnds
CHECK_DEADLOCK FALSE
