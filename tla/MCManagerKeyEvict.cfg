\* A dropped duplicate peer's done signal evicts the live peer under its key.
CONSTANTS
    p1 = p1  p2 = p2  p3 = p3  a1 = a1  a2 = a2  ip1 = ip1
    NoPeer = NoPeer
    Peer <- MCPeer
    Addr <- MCAddr
    LocalIP <- MCNoLocalIP
    PeerLimit = 1
    BufNew = 1
    BufDone = 1
    MaxStarts = 1
SPECIFICATION Spec
INVARIANT LivePeersBounded
CHECK_DEADLOCK FALSE
