------------------------------ MODULE Manager ------------------------------
(***************************************************************************)
(* The connection manager of PBTC (src/unnamed/part_000, type Manager) and *)
(* the lifecycle of the peers it owns.                                     *)
(*                                                                         *)
(* Goroutines modelled: the client calling Start/Stop, handleConnections   *)
(* (dial loop), handlePeers (peerNew/peerDone multiplexer), one            *)
(* handleListener per local IP, and one goroutine set per peer.  The peer  *)
(* implementation is not part of src/ (only its adaptor interface is); its *)
(* behaviour is taken from the spec: it connects, sends itself on peerNew, *)
(* may fail at any time, and on termination sends itself once on peerDone. *)
(* The repository is abstracted to the set Addr its Get may return.        *)
(***************************************************************************)
EXTENDS Naturals, Sequences, FiniteSets

CONSTANTS
    Peer,       \* peer objects newOutgoingPeer can create (model values)
    NoPeer,     \* the absent entry of peerIndex
    Addr,       \* canonical "host:port" keys the repository hands out
    LocalIP,    \* the local IPv4 addresses FindLocalIPs returns
    PeerLimit,  \* maxPeerCount
    BufNew,     \* capacity of peerNew  (bufferManagerNew)
    BufDone,    \* capacity of peerDone (bufferManagerDone)
    MaxStarts   \* how many times the client may call Start successfully

ASSUME ManagerAssumption ==
    /\ IsFiniteSet(Addr) /\ Addr # {}
    /\ NoPeer \notin Peer
    /\ PeerLimit \in Nat \ {0}
    /\ BufNew \in Nat \ {0}
    /\ BufDone \in Nat \ {0}
    /\ MaxStarts \in Nat

VARIABLES
    state,          \* mgr.state: "idle", "busy" or "running"
    starts,         \* successful Start calls so far (bounded by MaxStarts)
    peerIndex,      \* mgr.peerIndex: Addr -> Peer, NoPeer where absent
    peerNew,        \* mgr.peerNew channel contents
    peerDone,       \* mgr.peerDone channel contents
    sigConnClosed,  \* close(mgr.sigConn) has happened
    sigPeerClosed,  \* close(mgr.sigPeer) has happened
    connAlive,      \* handleConnections goroutine running
    peerAlive,      \* handlePeers goroutine running
    lstate,         \* listener per local IP: "none" (not in listenIndex), "open", "closed"
    lalive,         \* handleListener goroutine per local IP running
    stopPc,         \* where the Stop call is: "none", "peers", "wait"
    toStop,         \* keys the range over peerIndex in Stop has still to visit
    stopWait,       \* the peer whose blocking Stop() the manager's Stop waits on
    pc,             \* per peer: "free", "connecting", "live", "terminating", "finished"
    paddr,          \* per peer: its remote address key (peer.String())
    started,        \* per peer: peer.Start() has been called
    panicked        \* "none", or the runtime panic that ended the process

vars == <<state, starts, peerIndex, peerNew, peerDone, sigConnClosed,
          sigPeerClosed, connAlive, peerAlive, lstate, lalive, stopPc, toStop,
          stopWait, pc, paddr, started, panicked>>

-----------------------------------------------------------------------------
Indexed == {a \in Addr : peerIndex[a] # NoPeer}

InChan(p, ch) == \E i \in 1..Len(ch) : ch[i] = p

\* the peer's atomic done flag is set (peer.Stop has run or it failed)
DoneFlag(p) == pc[p] \in {"terminating", "finished"}

NoHandlers == ~connAlive /\ ~peerAlive /\ \A ip \in LocalIP : ~lalive[ip]

Running == panicked = "none"

TypeOK ==
    /\ state \in {"idle", "busy", "running"}
    /\ starts \in 0..MaxStarts
    /\ peerIndex \in [Addr -> Peer \cup {NoPeer}]
    /\ peerNew \in Seq(Peer) /\ Len(peerNew) <= BufNew
    /\ peerDone \in Seq(Peer) /\ Len(peerDone) <= BufDone
    /\ sigConnClosed \in BOOLEAN /\ sigPeerClosed \in BOOLEAN
    /\ connAlive \in BOOLEAN /\ peerAlive \in BOOLEAN
    /\ lstate \in [LocalIP -> {"none", "open", "closed"}]
    /\ lalive \in [LocalIP -> BOOLEAN]
    /\ stopPc \in {"none", "peers", "wait"}
    /\ toStop \in SUBSET Addr
    /\ stopWait \in Peer \cup {NoPeer}
    /\ pc \in [Peer -> {"free", "connecting", "live", "terminating", "finished"}]
    /\ paddr \in [Peer -> Addr]
    /\ started \in [Peer -> BOOLEAN]
    /\ panicked \in {"none", "nil_error", "close_of_closed_channel"}

\* NewManager: empty index and channels, state idle, nothing launched.
Init ==
    /\ state = "idle" /\ starts = 0
    /\ peerIndex = [a \in Addr |-> NoPeer]
    /\ peerNew = <<>> /\ peerDone = <<>>
    /\ sigConnClosed = FALSE /\ sigPeerClosed = FALSE
    /\ connAlive = FALSE /\ peerAlive = FALSE
    /\ lstate = [ip \in LocalIP |-> "none"]
    /\ lalive = [ip \in LocalIP |-> FALSE]
    /\ stopPc = "none" /\ toStop = {} /\ stopWait = NoPeer
    /\ pc = [p \in Peer |-> "free"]
    /\ paddr = [p \in Peer |-> CHOOSE a \in Addr : TRUE]
    /\ started = [p \in Peer |-> FALSE]
    /\ panicked = "none"

-----------------------------------------------------------------------------
(* Client calls *)

\* createListeners: for each local IP not yet in listenIndex whose ListenTCP
\* succeeds (the set ok), index the listener and launch handleListener.
CreateListeners(ok) ==
    /\ lstate' = [ip \in LocalIP |-> IF ip \in ok THEN "open" ELSE lstate[ip]]
    /\ lalive' = [ip \in LocalIP |-> lalive[ip] \/ ip \in ok]

\* Start: CAS idle->busy, createListeners, launch the two handlers, store
\* running.  The signal channels are not recreated.
Start ==
    /\ Running /\ state = "idle" /\ starts < MaxStarts
    /\ \E ok \in SUBSET {ip \in LocalIP : lstate[ip] = "none"} : CreateListeners(ok)
    /\ connAlive' = TRUE /\ peerAlive' = TRUE
    /\ state' = "running" /\ starts' = starts + 1
    /\ UNCHANGED <<peerIndex, peerNew, peerDone, sigConnClosed, sigPeerClosed,
                   stopPc, toStop, stopWait, pc, paddr, started, panicked>>

\* Mutant: close(sigPeer) moved before the range over peerIndex.
StopBeginClosingSigPeer ==
    /\ Running /\ state = "running"
    /\ state' = "busy" /\ stopPc' = "peers" /\ toStop' = Indexed
    /\ sigPeerClosed' = TRUE
    /\ UNCHANGED <<starts, peerIndex, peerNew, peerDone, sigConnClosed,
                   connAlive, peerAlive, lstate, lalive,
                   stopWait, pc, paddr, started, panicked>>

\* Stop: CAS running->busy, then range over peerIndex.
StopBegin ==
    /\ Running /\ state = "running"
    /\ state' = "busy" /\ stopPc' = "peers" /\ toStop' = Indexed
    /\ UNCHANGED <<starts, peerIndex, peerNew, peerDone, sigConnClosed,
                   sigPeerClosed, connAlive, peerAlive, lstate, lalive,
                   stopWait, pc, paddr, started, panicked>>

\* One iteration of the range: peer.Stop() sets the done flag and blocks
\* until the peer has sent itself on peerDone; a second Stop returns at once.
StopPeer(a) ==
    /\ Running /\ stopPc = "peers" /\ stopWait = NoPeer /\ a \in toStop
    /\ toStop' = toStop \ {a}
    /\ LET p == peerIndex[a] IN
         IF p # NoPeer /\ ~DoneFlag(p)
         THEN /\ pc' = [pc EXCEPT ![p] = "terminating"]
              /\ stopWait' = p
         ELSE UNCHANGED <<pc, stopWait>>
    /\ UNCHANGED <<state, starts, peerIndex, peerNew, peerDone, sigConnClosed,
                   sigPeerClosed, connAlive, peerAlive, lstate, lalive, stopPc,
                   paddr, started, panicked>>

StopPeerReturn ==
    /\ Running /\ stopWait # NoPeer /\ pc[stopWait] = "finished"
    /\ stopWait' = NoPeer
    /\ UNCHANGED <<state, starts, peerIndex, peerNew, peerDone, sigConnClosed,
                   sigPeerClosed, connAlive, peerAlive, lstate, lalive, stopPc,
                   toStop, pc, paddr, started, panicked>>

\* close(sigConn); close every listener in listenIndex; close(sigPeer).
\* Closing an already closed channel panics.
StopSignal ==
    /\ Running /\ stopPc = "peers" /\ toStop = {} /\ stopWait = NoPeer
    /\ IF sigConnClosed
       THEN /\ panicked' = "close_of_closed_channel"
            /\ UNCHANGED <<sigConnClosed, sigPeerClosed, lstate, stopPc>>
       ELSE /\ sigConnClosed' = TRUE /\ sigPeerClosed' = TRUE
            /\ lstate' = [ip \in LocalIP |->
                            IF lstate[ip] = "open" THEN "closed" ELSE lstate[ip]]
            /\ stopPc' = "wait"
            /\ UNCHANGED panicked
    /\ UNCHANGED <<state, starts, peerIndex, peerNew, peerDone, connAlive,
                   peerAlive, lalive, toStop, stopWait, pc, paddr, started>>

\* wg.Wait() returns once every handler has exited; store idle.
StopEnd ==
    /\ Running /\ stopPc = "wait" /\ NoHandlers
    /\ state' = "idle" /\ stopPc' = "none"
    /\ UNCHANGED <<starts, peerIndex, peerNew, peerDone, sigConnClosed,
                   sigPeerClosed, connAlive, peerAlive, lstate, lalive, toStop,
                   stopWait, pc, paddr, started, panicked>>

-----------------------------------------------------------------------------
(* handleConnections *)

\* the select receives from the closed sigConn
ConnExit ==
    /\ Running /\ connAlive /\ sigConnClosed
    /\ connAlive' = FALSE
    /\ UNCHANGED <<state, starts, peerIndex, peerNew, peerDone, sigConnClosed,
                   sigPeerClosed, peerAlive, lstate, lalive, stopPc, toStop,
                   stopWait, pc, paddr, started, panicked>>

\* the tick's test in handleConnections
BelowPeerLimit == Cardinality(Indexed) < PeerLimit

\* A tick with fewer than maxPeerCount peers indexed runs addPeer: Get
\* returns address a (retrying while it is indexed) and newOutgoingPeer
\* starts an asynchronous connect with a fresh peer object p.
AddPeer(a, p) ==
    /\ Running /\ connAlive
    /\ BelowPeerLimit
    /\ peerIndex[a] = NoPeer
    /\ pc[p] = "free"
    /\ pc' = [pc EXCEPT ![p] = "connecting"]
    /\ paddr' = [paddr EXCEPT ![p] = a]
    /\ UNCHANGED <<state, starts, peerIndex, peerNew, peerDone, sigConnClosed,
                   sigPeerClosed, connAlive, peerAlive, lstate, lalive, stopPc,
                   toStop, stopWait, started, panicked>>

-----------------------------------------------------------------------------
(* handlePeers *)

PeersExit ==
    /\ Running /\ peerAlive /\ sigPeerClosed
    /\ peerAlive' = FALSE
    /\ UNCHANGED <<state, starts, peerIndex, peerNew, peerDone, sigConnClosed,
                   sigPeerClosed, connAlive, lstate, lalive, stopPc, toStop,
                   stopWait, pc, paddr, started, panicked>>

\* Mutant: the limit test written with > instead of >=.
ProcessNewPeerOffByOne ==
    /\ Running /\ peerAlive /\ peerNew # <<>>
    /\ LET p == Head(peerNew) IN
         IF peerIndex[paddr[p]] # NoPeer \/ Cardinality(Indexed) > PeerLimit
         THEN UNCHANGED <<peerIndex, started>>
         ELSE /\ started' = [started EXCEPT ![p] = TRUE]
              /\ peerIndex' = [peerIndex EXCEPT ![paddr[p]] = p]
    /\ peerNew' = Tail(peerNew)
    /\ UNCHANGED <<state, starts, peerDone, sigConnClosed, sigPeerClosed,
                   connAlive, peerAlive, lstate, lalive, stopPc, toStop,
                   stopWait, pc, paddr, panicked>>

\* Mutant: peer.Start() called before the tests, so a dropped duplicate is
\* started too.
ProcessNewPeerStartFirst ==
    /\ Running /\ peerAlive /\ peerNew # <<>>
    /\ LET p == Head(peerNew) IN
         /\ started' = [started EXCEPT ![p] = TRUE]
         /\ IF peerIndex[paddr[p]] # NoPeer \/ Cardinality(Indexed) >= PeerLimit
            THEN UNCHANGED peerIndex
            ELSE peerIndex' = [peerIndex EXCEPT ![paddr[p]] = p]
    /\ peerNew' = Tail(peerNew)
    /\ UNCHANGED <<state, starts, peerDone, sigConnClosed, sigPeerClosed,
                   connAlive, peerAlive, lstate, lalive, stopPc, toStop,
                   stopWait, pc, paddr, panicked>>

\* processNewPeer: a peer whose key is indexed, or arriving at the limit,
\* is dropped (neither started nor stopped); otherwise Start and index it.
ProcessNewPeer ==
    /\ Running /\ peerAlive /\ peerNew # <<>>
    /\ LET p == Head(peerNew) IN
         IF peerIndex[paddr[p]] # NoPeer \/ Cardinality(Indexed) >= PeerLimit
         THEN UNCHANGED <<peerIndex, started>>
         ELSE /\ started' = [started EXCEPT ![p] = TRUE]
              /\ peerIndex' = [peerIndex EXCEPT ![paddr[p]] = p]
    /\ peerNew' = Tail(peerNew)
    /\ UNCHANGED <<state, starts, peerDone, sigConnClosed, sigPeerClosed,
                   connAlive, peerAlive, lstate, lalive, stopPc, toStop,
                   stopWait, pc, paddr, panicked>>

\* processDonePeer: delete the entry under the done peer's key.
ProcessDonePeer ==
    /\ Running /\ peerAlive /\ peerDone # <<>>
    /\ peerIndex' = [peerIndex EXCEPT ![paddr[Head(peerDone)]] = NoPeer]
    /\ peerDone' = Tail(peerDone)
    /\ UNCHANGED <<state, starts, peerNew, sigConnClosed, sigPeerClosed,
                   connAlive, peerAlive, lstate, lalive, stopPc, toStop,
                   stopWait, pc, paddr, started, panicked>>

-----------------------------------------------------------------------------
(* handleListener *)

\* AcceptTCP succeeds: err is nil and err.Error() dereferences it.
Accept(ip) ==
    /\ Running /\ lalive[ip] /\ lstate[ip] = "open"
    /\ panicked' = "nil_error"
    /\ UNCHANGED <<state, starts, peerIndex, peerNew, peerDone, sigConnClosed,
                   sigPeerClosed, connAlive, peerAlive, lstate, lalive, stopPc,
                   toStop, stopWait, pc, paddr, started>>

\* AcceptTCP on a closed listener ("use of closed network connection"),
\* or any other accept error: the loop breaks.
ListenerExit(ip) ==
    /\ Running /\ lalive[ip] /\ lstate[ip] # "none"
    /\ lalive' = [lalive EXCEPT ![ip] = FALSE]
    /\ UNCHANGED <<state, starts, peerIndex, peerNew, peerDone, sigConnClosed,
                   sigPeerClosed, connAlive, peerAlive, lstate, stopPc, toStop,
                   stopWait, pc, paddr, started, panicked>>

-----------------------------------------------------------------------------
(* Peers (behaviour from the spec, section 4.3) *)

\* Mutant: the send on peerNew not blocking at the channel's capacity.
PeerConnectedUnbounded(p) ==
    /\ Running /\ pc[p] = "connecting"
    /\ peerNew' = Append(peerNew, p)
    /\ pc' = [pc EXCEPT ![p] = "live"]
    /\ UNCHANGED <<state, starts, peerIndex, peerDone, sigConnClosed,
                   sigPeerClosed, connAlive, peerAlive, lstate, lalive, stopPc,
                   toStop, stopWait, paddr, started, panicked>>

\* connect and handshake start succeed: the peer sends itself on peerNew
PeerConnected(p) ==
    /\ Running /\ pc[p] = "connecting" /\ Len(peerNew) < BufNew
    /\ peerNew' = Append(peerNew, p)
    /\ pc' = [pc EXCEPT ![p] = "live"]
    /\ UNCHANGED <<state, starts, peerIndex, peerDone, sigConnClosed,
                   sigPeerClosed, connAlive, peerAlive, lstate, lalive, stopPc,
                   toStop, stopWait, paddr, started, panicked>>

\* a fatal condition (I/O error, remote close, self-connect) sets the done flag
PeerFail(p) ==
    /\ Running /\ pc[p] \in {"connecting", "live"}
    /\ pc' = [pc EXCEPT ![p] = "terminating"]
    /\ UNCHANGED <<state, starts, peerIndex, peerNew, peerDone, sigConnClosed,
                   sigPeerClosed, connAlive, peerAlive, lstate, lalive, stopPc,
                   toStop, stopWait, paddr, started, panicked>>

\* the terminated peer sends itself once on peerDone
PeerSendDone(p) ==
    /\ Running /\ pc[p] = "terminating" /\ Len(peerDone) < BufDone
    /\ peerDone' = Append(peerDone, p)
    /\ pc' = [pc EXCEPT ![p] = "finished"]
    /\ UNCHANGED <<state, starts, peerIndex, peerNew, sigConnClosed,
                   sigPeerClosed, connAlive, peerAlive, lstate, lalive, stopPc,
                   toStop, stopWait, paddr, started, panicked>>

-----------------------------------------------------------------------------
Client == Start \/ StopBegin

StopSteps == (\E a \in Addr : StopPeer(a)) \/ StopPeerReturn \/ StopSignal \/ StopEnd

Handlers ==
    \/ ConnExit \/ \E a \in Addr, p \in Peer : AddPeer(a, p)
    \/ PeersExit \/ ProcessNewPeer \/ ProcessDonePeer
    \/ \E ip \in LocalIP : Accept(ip) \/ ListenerExit(ip)

Peers == \E p \in Peer : PeerConnected(p) \/ PeerFail(p) \/ PeerSendDone(p)

Next == Client \/ StopSteps \/ Handlers \/ Peers

\* Every goroutine of the manager, and a terminated peer's send, keeps being
\* scheduled; the client, the network (connect, failure) and the ticker are
\* not assumed to act.
Fairness ==
    /\ WF_vars(StopSteps)
    /\ WF_vars(ConnExit) /\ WF_vars(PeersExit)
    /\ WF_vars(ProcessNewPeer) /\ WF_vars(ProcessDonePeer)
    /\ \A ip \in LocalIP : WF_vars(lstate[ip] = "closed" /\ ListenerExit(ip))
    /\ \A p \in Peer : WF_vars(PeerSendDone(p))

Spec == Init /\ [][Next]_vars /\ Fairness

-----------------------------------------------------------------------------
(* Properties *)

\* Spec 8.5: processNewPeer never lets the peer index grow past maxPeerCount.
IndexBounded == Cardinality(Indexed) <= PeerLimit

\* Spec 4.2 "no deadlock on Stop": once Stop has passed its CAS it returns
\* to idle (unless the process has panicked), although peer.Stop() blocks on
\* the bounded peerDone channel that only handlePeers drains.
StopCompletes == (stopPc # "none") ~> (state = "idle" \/ panicked # "none")

\* Spec 8.6: the number of started, still-connected peers never exceeds
\* maxPeerCount (processDonePeer deletes by key, so the done signal of a
\* dropped duplicate peer can evict the live peer indexed under that key).
LivePeersBounded ==
    Cardinality({p \in Peer : started[p] /\ pc[p] = "live"}) <= PeerLimit

\* Spec 4.2 peerDone "remove from index": no index entry belongs to a peer
\* whose done signal handlePeers has already consumed (the select may take
\* a peer's done before its new).
NoIndexedRetiredPeer ==
    \A a \in Indexed : LET p == peerIndex[a] IN
        ~(pc[p] = "finished" /\ ~InChan(p, peerDone))

\* Stop's "for _, peer := range mgr.peerIndex" is still iterating: a key is
\* left to visit, or the body is blocked in peer.Stop().
StopRanging == stopPc = "peers" /\ (toStop # {} \/ stopWait # NoPeer)

\* Spec 5: peerIndex is mutated only by handlePeers and never concurrently
\* with another goroutine iterating it.  Here no step of handlePeers inserts
\* (processNewPeer) or deletes (processDonePeer) an entry while Stop's range
\* over the map is still iterating.
NoIndexWriteDuringStopRange == [][StopRanging => peerIndex' = peerIndex]_vars

\* Spec 4.2 "stop all indexed peers": once Stop has returned, every peer
\* that processNewPeer started has been told to stop (its done flag is set);
\* Stop's range over peerIndex misses a peer handlePeers indexes after the
\* range has begun.
StopStopsPeers ==
    (state = "idle" /\ starts > 0) => \A p \in Peer : started[p] => DoneFlag(p)

-----------------------------------------------------------------------------
(* Refinement *)

\* The peer index and the set of started peers, seen as the abstract table
\* of module PeerIndex.
AbsIndex == INSTANCE PeerIndex
    WITH Key <- Addr, Obj <- Peer, None <- NoPeer, Limit <- PeerLimit,
         Size <- Cardinality,
         index <- peerIndex, admitted <- {p \in Peer : started[p]}

\* Spec 4.2: handlePeers and Stop implement the bounded peer table: every
\* change of peerIndex or of the started peers is one admission (a peer
\* never started before, under a free key, below maxPeerCount, started and
\* indexed together) or the release of one key.
ImplementsPeerIndex == AbsIndex!Spec

=============================================================================
