SPECIFICATION PipelineFairSpec
CONSTANTS
    r1 = r1
    r2 = r2
    r3 = r3
    Requests = {r1, r2, r3}
    NoRequest = NoRequest
    Prio <- MCPrio
    Allowed = {r1, r2, r3}
    Sendable = {r1, r2, r3}
    Described = {r1, r2, r3}
    Impact <- MCImpact
    RuleSets <- MCRuleSets
    MqMax = 2
    MaxStops = 1
    Time <- MCTime
    Dated = {r2, r3}
    Pullers = {processor, reloaded}
    MaxPulls = 1
    MaxLocks = 1
    MaxCrashes = 1
INVARIANTS EndToEnd AgainOnlyByRejection
PROPERTIES LifecycleSpec DecidedUnlessStuck
CHECK_DEADLOCK FALSE
