CONSTANTS
    p1 = p1
    p2 = p2
    Peers <- MCPeers2
    MinSize <- MCMinSize
    MaxSize <- MCMaxSize
    Scripts <- TwoPeerScripts
    MaxChunk = 3
    MaxConnects = 1
    EventCap = 1
    TxCap = 1
    RespCap = 1
SPECIFICATION Spec
SYMMETRY PeerSymmetry
INVARIANT RouteFaithful
CHECK_DEADLOCK FALSE
