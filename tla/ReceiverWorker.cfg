CONSTANTS
    p1 = p1
    p2 = p2
    Peers <- MCPeers1
    MinSize <- MCMinSize
    MaxSize <- MCMaxSize
    Scripts <- OnePeerScripts
    MaxChunk = 4
    MaxConnects = 2
    EventCap = 2
    TxCap = 1
    RespCap = 1
SPECIFICATION Spec
INVARIANT TypeOK
INVARIANT ReassemblyCorrect
INVARIANT LoopDrains
INVARIANT RouteFaithful
PROPERTY RemovedStops
CHECK_DEADLOCK FALSE
