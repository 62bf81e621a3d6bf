\* One Start and one Stop, as pbtc.go's main does; three peer objects,
\* two addresses, limit one, channel capacities one.
CONSTANTS
    p1 = p1  p2 = p2  p3 = p3  a1 = a1  a2 = a2  ip1 = ip1
    NoPeer = NoPeer
    Peer <- MCPeer
    Addr <- MCAddr
    LocalIP <- MCLocalIP
    PeerLimit = 1
    BufNew = 1
    BufDone = 1
    MaxStarts = 1
SPECIFICATION Spec
INVARIANT TypeOK IndexBounded
PROPERTY StopCompletes ImplementsPeerIndex
CHECK_DEADLOCK FALSE
