CONSTANTS
    connA = connA
    temp = temp
    flow = flow
    connB = connB
    level = level
    unreadable = unreadable
    Names = {connA, temp, flow, connB, level, unreadable}
    Grouped = {connA, temp, flow, connB, level}
    Types = {"Boolean", "Float", "String", "Double"}
    Convertible = {"Boolean", "Float", "String"}
    Samples <- MCSamples
    Unbound = Unbound
    NoNode = NoNode
    MaxSample = 3
SPECIFICATION FairSpec
INVARIANTS TypeOK Applied
PROPERTIES NeverBackwards Converges
