SPECIFICATION FairSpec
CONSTANTS
    N = 2
    Kind <- GatewayKinds
    QueueSize = 1
    Oversize <- LastOversize
    Blank <- SecondBlank
    MaxCycles = 3
    MaxRestarts = 1
INVARIANTS TypeOK PermitAccounting InterfaceKeepsPermits SinglePermitClean
PROPERTIES DeliversOnce ChannelSpec PsmoViewed ServedUnlessLeaked
CHECK_DEADLOCK FALSE
