SPECIFICATION PipelineSpec
CONSTANTS
    r1 = r1
    r2 = r2
    r3 = r3
    Requests = {r1, r2, r3}
    NoRequest = NoRequest
    Prio <- MCPrio
    Allowed = {r1, r2, r3}
    Sendable = {r1, r2, r3}
    Described = {r1, r2, r3}
    Impact <- MCImpact
    RuleSets <- MCRuleSets
    MqMax = 2
    MaxStops = 0
    Time <- MCTime
    Dated = {r1, r2, r3}
    Pullers = {processor, reloaded}
    MaxPulls = 1
    MaxLocks = 0
    MaxCrashes = 0
PROPERTY HighestFirst
CHECK_DEADLOCK FALSE
