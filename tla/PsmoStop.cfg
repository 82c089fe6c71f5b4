CONSTANTS
    Sources = {"opcua", "modbus"}
    Blanks = {"opcua"}
    MaxPermits = 2
    QueueSize = 1
SPECIFICATION FairSpec
INVARIANTS TypeOK StopsSoon
PROPERTY EndsUnlessStuck
CHECK_DEADLOCK FALSE
