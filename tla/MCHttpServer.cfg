SPECIFICATION ServerSpec
CONSTANTS
    StaticFiles = {"/index"}
    RequestMap <- MCRequestMap
    Upgraders <- MCUpgraders
    FieldMax = 3
    ReadLimit = 2
    Connections = {c1, c2}
    Fds = {3, 4}
    Requests <- MCRequests
    TlsEnabled = FALSE
INVARIANTS
    PeersUndisturbed AnsweredOnce DescriptorsAccounted
PROPERTIES
    ConnectionsEnd
CHECK_DEADLOCK FALSE
