CONSTANTS
    r1 = r1
    r2 = r2
    r3 = r3
    r4 = r4
    r5 = r5
    r6 = r6
    Requests = {r1, r2, r3, r4, r5, r6}
    NoRequest = NoRequest
    Prio <- MCPrio
    Impact <- MCImpact
    RuleSets <- MCRuleSets
    Allowed = {r1, r2, r3, r4, r5}
    Sendable = {r1, r2, r3, r4, r6}
    Described = {r1, r2, r3, r4, r5, r6}
    MqMax = 2
    MaxStops = 1
SPECIFICATION FairSpec
INVARIANTS TypeOK Registered Accounted VerifiedOnly
PROPERTIES AnsweredUnlessUnnoticed
CHECK_DEADLOCK FALSE
