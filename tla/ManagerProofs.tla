---------------------------- MODULE ManagerProofs ----------------------------
(***************************************************************************)
(* Proofs about the connection manager, for every value of the constants   *)
(* that satisfies ManagerAssumption.                                       *)
(***************************************************************************)
EXTENDS Manager, ChannelLemmas, FiniteSetTheorems, TLAPS

\* Indexed is a finite set of addresses.
LEMMA IndexedFinite ==
    IsFiniteSet(Indexed) /\ Cardinality(Indexed) \in Nat
<1>1. IsFiniteSet(Indexed)
  BY ManagerAssumption, FS_Subset DEF Indexed
<1>. QED
  BY <1>1, FS_CardinalityType

-----------------------------------------------------------------------------
(* Type correctness: every step of every goroutine keeps each variable in  *)
(* its type; in particular the channels never hold more than their         *)
(* capacity, because a send is enabled only below it.                      *)

THEOREM TypeCorrect == Spec => []TypeOK
<1>1. Init => TypeOK
  <2> SUFFICES ASSUME Init PROVE TypeOK
    OBVIOUS
  <2>1. paddr \in [Peer -> Addr]
    BY ManagerAssumption DEF Init
  <2>2. peerNew \in Seq(Peer) /\ Len(peerNew) <= BufNew
        /\ peerDone \in Seq(Peer) /\ Len(peerDone) <= BufDone
    BY ManagerAssumption, EmptySeq DEF Init
  <2>3. starts \in 0..MaxStarts /\ peerIndex \in [Addr -> Peer \cup {NoPeer}]
    BY ManagerAssumption DEF Init
  <2>. QED
    BY <2>1, <2>2, <2>3 DEF Init, TypeOK
<1>2. TypeOK /\ [Next]_vars => TypeOK'
  <2> SUFFICES ASSUME TypeOK, [Next]_vars PROVE TypeOK'
    OBVIOUS
  <2>. USE DEF TypeOK
  <2>1. CASE Start
    <3>1. PICK ok \in SUBSET {ip \in LocalIP : lstate[ip] = "none"} :
            /\ lstate' = [ip \in LocalIP |-> IF ip \in ok THEN "open" ELSE lstate[ip]]
            /\ lalive' = [ip \in LocalIP |-> lalive[ip] \/ ip \in ok]
      BY <2>1 DEF Start, CreateListeners
    <3>2. lstate' \in [LocalIP -> {"none", "open", "closed"}]
          /\ lalive' \in [LocalIP -> BOOLEAN]
      BY <3>1
    <3>3. starts' \in 0..MaxStarts
      <4>1. starts \in 0..MaxStarts /\ starts < MaxStarts /\ starts' = starts + 1
        BY <2>1 DEF Start
      <4>. QED
        BY <4>1, ManagerAssumption
    <3>. QED
      BY <2>1, <3>2, <3>3 DEF Start
  <2>2. CASE StopBegin
    BY <2>2 DEF StopBegin, Indexed
  <2>3. ASSUME NEW a \in Addr, StopPeer(a) PROVE TypeOK'
    BY <2>3 DEF StopPeer, DoneFlag
  <2>4. CASE StopPeerReturn
    BY <2>4 DEF StopPeerReturn
  <2>5. CASE StopSignal
    BY <2>5 DEF StopSignal
  <2>6. CASE StopEnd
    BY <2>6 DEF StopEnd
  <2>7. CASE ConnExit
    BY <2>7 DEF ConnExit
  <2>8. ASSUME NEW a \in Addr, NEW p \in Peer, AddPeer(a, p) PROVE TypeOK'
    BY <2>8 DEF AddPeer
  <2>9. CASE PeersExit
    BY <2>9 DEF PeersExit
  <2>10. CASE ProcessNewPeer
    <3>1. Head(peerNew) \in Peer /\ Tail(peerNew) \in Seq(Peer)
          /\ Len(Tail(peerNew)) <= BufNew
      BY <2>10, RecvType, ManagerAssumption DEF ProcessNewPeer
    <3>2. paddr[Head(peerNew)] \in Addr
      BY <3>1
    <3>. QED
      BY <2>10, <3>1, <3>2 DEF ProcessNewPeer
  <2>11. CASE ProcessDonePeer
    <3>1. Head(peerDone) \in Peer /\ Tail(peerDone) \in Seq(Peer)
          /\ Len(Tail(peerDone)) <= BufDone
      BY <2>11, RecvType, ManagerAssumption DEF ProcessDonePeer
    <3>2. paddr[Head(peerDone)] \in Addr
      BY <3>1
    <3>. QED
      BY <2>11, <3>1, <3>2 DEF ProcessDonePeer
  <2>12. ASSUME NEW ip \in LocalIP, Accept(ip) PROVE TypeOK'
    BY <2>12 DEF Accept
  <2>13. ASSUME NEW ip \in LocalIP, ListenerExit(ip) PROVE TypeOK'
    BY <2>13 DEF ListenerExit
  <2>14. ASSUME NEW p \in Peer, PeerConnected(p) PROVE TypeOK'
    <3>1. Append(peerNew, p) \in Seq(Peer) /\ Len(Append(peerNew, p)) <= BufNew
      BY <2>14, SendType, ManagerAssumption DEF PeerConnected
    <3>. QED
      BY <2>14, <3>1 DEF PeerConnected
  <2>15. ASSUME NEW p \in Peer, PeerFail(p) PROVE TypeOK'
    BY <2>15 DEF PeerFail
  <2>16. ASSUME NEW p \in Peer, PeerSendDone(p) PROVE TypeOK'
    <3>1. Append(peerDone, p) \in Seq(Peer) /\ Len(Append(peerDone, p)) <= BufDone
      BY <2>16, SendType, ManagerAssumption DEF PeerSendDone
    <3>. QED
      BY <2>16, <3>1 DEF PeerSendDone
  <2>17. CASE UNCHANGED vars
    BY <2>17 DEF vars
  <2>. QED
    BY <2>1, <2>2, <2>3, <2>4, <2>5, <2>6, <2>7, <2>8, <2>9, <2>10, <2>11,
       <2>12, <2>13, <2>14, <2>15, <2>16, <2>17
    DEF Next, Client, StopSteps, Handlers, Peers
<1>. QED
  BY <1>1, <1>2, PTL DEF Spec

-----------------------------------------------------------------------------
(* The peer index never exceeds maxPeerCount.  Only processNewPeer adds an *)
(* entry, and it does so only under an absent key while fewer than         *)
(* PeerLimit keys are indexed; processDonePeer only removes one.  The      *)
(* invariant is inductive relative to TypeOK.                              *)

THEOREM IndexBoundedInv == Spec => []IndexBounded
<1>1. Init => IndexBounded
  <2> SUFFICES ASSUME Init PROVE IndexBounded
    OBVIOUS
  <2>1. Indexed = {}
    BY DEF Init, Indexed
  <2>. QED
    BY <2>1, FS_EmptySet, ManagerAssumption DEF IndexBounded
<1>2. TypeOK /\ IndexBounded /\ [Next]_vars => IndexBounded'
  <2> SUFFICES ASSUME TypeOK, IndexBounded, [Next]_vars PROVE IndexBounded'
    OBVIOUS
  <2>. USE IndexedFinite
  \* the only step that adds a key
  <2>1. CASE ProcessNewPeer
    <3> DEFINE p == Head(peerNew)
    <3>1. p \in Peer /\ paddr[p] \in Addr
      BY <2>1 DEF ProcessNewPeer, TypeOK
    <3>2. CASE peerIndex[paddr[p]] # NoPeer \/ Cardinality(Indexed) >= PeerLimit
      <4>1. peerIndex' = peerIndex
        BY <2>1, <3>2 DEF ProcessNewPeer
      <4>. QED
        BY <4>1 DEF IndexBounded, Indexed
    <3>3. CASE ~(peerIndex[paddr[p]] # NoPeer \/ Cardinality(Indexed) >= PeerLimit)
      <4>1. peerIndex' = [peerIndex EXCEPT ![paddr[p]] = p]
        BY <2>1, <3>3 DEF ProcessNewPeer
      <4>2. Indexed' = Indexed \cup {paddr[p]}
        BY <4>1, <3>1, ManagerAssumption DEF Indexed, TypeOK
      <4>3. IsFiniteSet(Indexed')
            /\ Cardinality(Indexed') <= Cardinality(Indexed) + 1
        BY <4>2, FS_AddElement
      <4>4. Cardinality(Indexed') \in Nat
        BY <4>3, FS_CardinalityType
      <4>. QED
        BY <3>3, <4>3, <4>4, ManagerAssumption DEF IndexBounded
    <3>. QED
      BY <3>2, <3>3
  \* the only step that removes a key
  <2>2. CASE ProcessDonePeer
    <3>1. Indexed' \subseteq Indexed
      BY <2>2 DEF ProcessDonePeer, Indexed, TypeOK
    <3>2. IsFiniteSet(Indexed') /\ Cardinality(Indexed') <= Cardinality(Indexed)
      BY <3>1, FS_Subset
    <3>3. Cardinality(Indexed') \in Nat
      BY <3>2, FS_CardinalityType
    <3>. QED
      BY <3>2, <3>3, ManagerAssumption DEF IndexBounded
  <2>3. CASE ~ProcessNewPeer /\ ~ProcessDonePeer
    <3>1. peerIndex' = peerIndex
      BY <2>3 DEF Next, vars, Client, StopSteps, Handlers, Peers, Start,
               StopBegin, StopPeer, StopPeerReturn, StopSignal, StopEnd,
               ConnExit, AddPeer, PeersExit, Accept, ListenerExit,
               PeerConnected, PeerFail, PeerSendDone
    <3>. QED
      BY <3>1 DEF IndexBounded, Indexed
  <2>. QED
    BY <2>1, <2>2, <2>3
<1>. QED
  BY <1>1, <1>2, TypeCorrect, PTL DEF Spec

-----------------------------------------------------------------------------
(* Refinement of the abstract peer table.  A peer on peerNew has connected *)
(* and was never started, and appears there once; a started peer is past   *)
(* connecting.  So the head of peerNew is a fresh object when              *)
(* processNewPeer admits it.                                               *)

NewInv ==
    /\ \A i \in 1..Len(peerNew) :
          pc[peerNew[i]] \notin {"free", "connecting"} /\ ~started[peerNew[i]]
    /\ \A i, j \in 1..Len(peerNew) : peerNew[i] = peerNew[j] => i = j
    /\ \A p \in Peer : started[p] => pc[p] \notin {"free", "connecting"}

Started == {p \in Peer : started[p]}

LEMMA NewInvInit == Init => NewInv
BY EmptySeq DEF Init, NewInv

\* The actions that leave peerNew, pc and started alone keep NewInv.
LEMMA NewInvFrame ==
    ASSUME NewInv, peerNew' = peerNew, pc' = pc, started' = started
    PROVE  NewInv'
BY DEF NewInv

LEMMA NewInvStep == TypeOK /\ NewInv /\ [Next]_vars => NewInv'
<1> SUFFICES ASSUME TypeOK, NewInv, [Next]_vars PROVE NewInv'
  OBVIOUS
<1>1. ASSUME NEW a \in Addr, NEW p \in Peer, AddPeer(a, p) PROVE NewInv'
  <2>1. \A i \in 1..Len(peerNew) : peerNew[i] # p
    BY <1>1 DEF AddPeer, NewInv
  <2>2. ~started[p]
    BY <1>1 DEF AddPeer, NewInv
  <2>. QED
    BY <1>1, <2>1, <2>2 DEF AddPeer, NewInv, TypeOK
<1>2. ASSUME NEW p \in Peer, PeerConnected(p) PROVE NewInv'
  <2>1. \A i \in 1..Len(peerNew) : peerNew[i] # p
    BY <1>2 DEF PeerConnected, NewInv
  <2>2. ~started[p]
    BY <1>2 DEF PeerConnected, NewInv
  <2>3. Len(peerNew') = Len(peerNew) + 1 /\ peerNew'[Len(peerNew) + 1] = p
        /\ \A i \in 1..Len(peerNew) : peerNew'[i] = peerNew[i]
    BY <1>2, AppendProperties DEF PeerConnected, TypeOK
  <2>. QED
    BY <1>2, <2>1, <2>2, <2>3 DEF PeerConnected, NewInv, TypeOK
<1>3. ASSUME NEW p \in Peer, PeerFail(p) PROVE NewInv'
  BY <1>3 DEF PeerFail, NewInv, TypeOK
<1>4. ASSUME NEW p \in Peer, PeerSendDone(p) PROVE NewInv'
  <2>1. Len(peerNew') = Len(peerNew) /\ peerNew' = peerNew
    BY <1>4 DEF PeerSendDone
  <2>. QED
    BY <1>4, <2>1 DEF PeerSendDone, NewInv, TypeOK
<1>5. ASSUME NEW a \in Addr, StopPeer(a) PROVE NewInv'
  BY <1>5 DEF StopPeer, NewInv, TypeOK
<1>6. CASE ProcessNewPeer
  <2> DEFINE h == Head(peerNew)
  <2>1. Len(peerNew) > 0 /\ h = peerNew[1]
    BY <1>6, LenProperties DEF ProcessNewPeer, TypeOK
  <2>2. Len(peerNew') = Len(peerNew) - 1
        /\ \A i \in 1..Len(peerNew') : peerNew'[i] = peerNew[i + 1]
    BY <1>6, <2>1, HeadTailProperties DEF ProcessNewPeer, TypeOK
  <2>3. \A i \in 1..Len(peerNew') : peerNew'[i] # h
    BY <2>1, <2>2 DEF NewInv
  <2>4. started' = started \/ started' = [started EXCEPT ![h] = TRUE]
    BY <1>6 DEF ProcessNewPeer
  <2>5. pc' = pc
    BY <1>6 DEF ProcessNewPeer
  <2>6. h \in Peer /\ pc[h] \notin {"free", "connecting"}
    BY <2>1 DEF NewInv, TypeOK
  <2>7. \A i \in 1..Len(peerNew') : ~started'[peerNew'[i]]
    BY <2>2, <2>3, <2>4, <2>6 DEF NewInv, TypeOK
  <2>8. \A i \in 1..Len(peerNew') : pc'[peerNew'[i]] \notin {"free", "connecting"}
    BY <2>2, <2>5 DEF NewInv
  <2>9. \A i, j \in 1..Len(peerNew') : peerNew'[i] = peerNew'[j] => i = j
    BY <2>2 DEF NewInv
  <2>10. \A q \in Peer : started'[q] => pc'[q] \notin {"free", "connecting"}
    BY <2>4, <2>5, <2>6 DEF NewInv, TypeOK
  <2>. QED
    BY <2>7, <2>8, <2>9, <2>10 DEF NewInv
<1>7. CASE UNCHANGED vars
  BY <1>7, NewInvFrame DEF vars
<1>8. CASE Start \/ StopBegin \/ StopPeerReturn \/ StopSignal \/ StopEnd
           \/ ConnExit \/ PeersExit \/ ProcessDonePeer
  BY <1>8, NewInvFrame DEF Start, StopBegin, StopPeerReturn, StopSignal,
     StopEnd, ConnExit, PeersExit, ProcessDonePeer
<1>9. ASSUME NEW ip \in LocalIP, Accept(ip) \/ ListenerExit(ip) PROVE NewInv'
  BY <1>9, NewInvFrame DEF Accept, ListenerExit
<1>. QED
  BY <1>1, <1>2, <1>3, <1>4, <1>5, <1>6, <1>7, <1>8, <1>9
  DEF Next, Client, StopSteps, Handlers, Peers

\* Every step of the manager is a step of the abstract table or leaves the
\* index and the started peers unchanged.
LEMMA RefinementStep ==
    TypeOK /\ NewInv /\ [Next]_vars => [AbsIndex!Next]_AbsIndex!vars
<1> SUFFICES ASSUME TypeOK, NewInv, [Next]_vars
             PROVE  [AbsIndex!Next]_AbsIndex!vars
  OBVIOUS
<1>1. CASE ProcessNewPeer
  <2> DEFINE h == Head(peerNew)  k == paddr[h]
  <2>1. Len(peerNew) > 0 /\ h = peerNew[1] /\ h \in Peer /\ k \in Addr
    BY <1>1, LenProperties DEF ProcessNewPeer, TypeOK
  <2>2. CASE peerIndex[k] # NoPeer \/ Cardinality(Indexed) >= PeerLimit
    <3>1. peerIndex' = peerIndex /\ started' = started
      BY <1>1, <2>2 DEF ProcessNewPeer
    <3>. QED
      BY <3>1 DEF AbsIndex!vars
  <2>3. CASE ~(peerIndex[k] # NoPeer \/ Cardinality(Indexed) >= PeerLimit)
    <3>1. peerIndex' = [peerIndex EXCEPT ![k] = h]
          /\ started' = [started EXCEPT ![h] = TRUE]
      BY <1>1, <2>3 DEF ProcessNewPeer
    <3>2. ~started[h]
      BY <2>1 DEF NewInv
    <3>3. Started' = Started \cup {h}
      BY <2>1, <3>1 DEF Started, TypeOK
    <3>4. Cardinality(Indexed) < PeerLimit
      BY <2>3, IndexedFinite, ManagerAssumption
    <3>5. peerIndex[k] = NoPeer
      BY <2>3
    <3>6. Cardinality(AbsIndex!Filled) < PeerLimit
      BY <3>4 DEF AbsIndex!Filled, Indexed
    <3>7. \E o \in Peer : AbsIndex!Admit(k, o)
      BY <2>1, <3>1, <3>2, <3>3, <3>5, <3>6 DEF AbsIndex!Admit, Started
    <3>. QED
      BY <2>1, <3>7 DEF AbsIndex!Next
  <2>. QED
    BY <2>2, <2>3
<1>2. CASE ProcessDonePeer
  <2>1. paddr[Head(peerDone)] \in Addr
    <3>1. Len(peerDone) > 0
      BY <1>2, LenProperties DEF ProcessDonePeer, TypeOK
    <3>. QED
      BY <3>1, HeadTailProperties DEF TypeOK
  <2>2. AbsIndex!Release(paddr[Head(peerDone)])
    BY <1>2 DEF ProcessDonePeer, AbsIndex!Release
  <2>. QED
    BY <2>1, <2>2 DEF AbsIndex!Next
<1>3. CASE ~ProcessNewPeer /\ ~ProcessDonePeer
  <2>1. peerIndex' = peerIndex /\ started' = started
    BY <1>3 DEF Next, vars, Client, StopSteps, Handlers, Peers, Start,
             StopBegin, StopPeer, StopPeerReturn, StopSignal, StopEnd,
             ConnExit, AddPeer, PeersExit, Accept, ListenerExit,
             PeerConnected, PeerFail, PeerSendDone
  <2>. QED
    BY <2>1 DEF AbsIndex!vars
<1>. QED
  BY <1>1, <1>2, <1>3

\* The manager implements the abstract peer table of module PeerIndex
\* (property ImplementsPeerIndex, checked by TLC on run manager_safety).
THEOREM Refinement == Spec => ImplementsPeerIndex
<1>1. Init => AbsIndex!Init
  BY DEF Init, AbsIndex!Init
<1>2. Spec => []NewInv
  BY NewInvInit, NewInvStep, TypeCorrect, PTL DEF Spec
<1>. QED
  BY <1>1, <1>2, RefinementStep, TypeCorrect, PTL
  DEF Spec, ImplementsPeerIndex, AbsIndex!Spec

=============================================================================
