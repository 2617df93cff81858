CONSTANTS
    p1 = p1
    p2 = p2
    Peers <- MCPeers1
    MinSize <- MCMinSize
    MaxSize <- MCMaxSize
    Scripts <- SessionScripts
    MaxChunk = 4
    MaxConnects = 2
    EventCap = 1
    TxCap = 1
    RespCap = 1
SPECIFICATION Spec
PROPERTY SessionSpec
CHECK_DEADLOCK FALSE
