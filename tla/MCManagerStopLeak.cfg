\* One Start and one Stop, no listeners: a peer indexed during Stop's range
\* outlives Stop.
CONSTANTS
    p1 = p1  p2 = p2  p3 = p3  a1 = a1  a2 = a2  ip1 = ip1
    NoPeer = NoPeer
    Peer <- MCPeer
    Addr <- MCAddr
    LocalIP <- MCNoLocalIP
    PeerLimit = 1
    BufNew = 1
    BufDone = 1
    MaxStarts = 1
SPECIFICATION Spec
INVARIANT StopStopsPeers
CHECK_DEADLOCK FALSE
