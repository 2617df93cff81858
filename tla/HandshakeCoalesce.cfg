CONSTANTS
    p1 = p1
    p2 = p2
    Peers <- MCPeers1
    MinSize <- MCMinSize
    MaxSize <- MCMaxSize
    Scripts <- OnePeerScripts
    MaxChunk = 7
    MaxConnects = 1
    EventCap = 2
    TxCap = 1
    RespCap = 1
SPECIFICATION Spec
INVARIANT PostHandshakeOrder
CHECK_DEADLOCK FALSE
