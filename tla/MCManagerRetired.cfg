\* handlePeers' select takes a peer's done signal before its new signal.
CONSTANTS
    p1 = p1  p2 = p2  p3 = p3  a1 = a1  a2 = a2  ip1 = ip1
    NoPeer = NoPeer
    Peer <- MCPeer
    Addr <- MCAddr
    LocalIP <- MCNoLocalIP
    PeerLimit = 1
    BufNew = 1
    BufDone = 1
    MaxStarts = 1
SPECIFICATION Spec
INVARIANT NoIndexedRetiredPeer
CHECK_DEADLOCK FALSE
