CONSTANTS
    p1 = p1
    p2 = p2
    Peers <- MCPeers1
    MinSize <- MCMinSize
    MaxSize <- MCMaxSize
    Scripts <- StallScripts
    MaxChunk = 7
    MaxConnects = 1
    EventCap = 2
    TxCap = 1
    RespCap = 1
SPECIFICATION SpecStalledConsumers
PROPERTY RemovedStops
CHECK_DEADLOCK FALSE
