CONSTANTS
    Sources = {"opcua", "modbus"}
    Blanks = {"opcua"}
    MaxPermits = 2
    Order <- MCOrder
    NoTask = NoTask
SPECIFICATION FairSpec
INVARIANTS TypeOK BlocksOnlyInFirstCycle
PROPERTIES LoopTurns BothServed
CHECK_DEADLOCK FALSE
