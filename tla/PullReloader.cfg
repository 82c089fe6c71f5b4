CONSTANTS
    r1 = r1
    r2 = r2
    r3 = r3
    Requests = {r1, r2, r3}
    NoRequest = NoRequest
    Prio <- MCPrio
    Time <- MCTime
    Dated = {r2, r3}
    Pullers = {processor, reloaded}
    MaxPulls = 2
    MaxLocks = 1
    MaxCrashes = 1
SPECIFICATION FairSpec
INVARIANTS TypeOK NoneForgotten
PROPERTIES AllPulledUnlessBlocked
CHECK_DEADLOCK FALSE
