CONSTANTS
    brownfield = brownfield
    ecotec = ecotec
    node1 = node1
    node2 = node2
    coil = coil
    register = register
    Threads = {"opcua", "modbus"}
    List <- MCList
    Endpoints <- MCEndpoints
    Registers = {register}
    Nameless = Nameless
    RetryInterval = 2
SPECIFICATION FairSpec
INVARIANTS TypeOK OutageShows
PROPERTIES RecoversUnlessStale
