-------------------------- MODULE RepositoryProofs --------------------------
(***************************************************************************)
(* Proofs about the node repository, for every value of the constants     *)
(* that satisfies RepositoryAssumption.                                    *)
(***************************************************************************)
EXTENDS Repository, ChannelLemmas, FiniteSetTheorems, TLAPS

-----------------------------------------------------------------------------
(* Type correctness: every step keeps each variable in its type; nodeQ     *)
(* never holds more than bufferRepoNode nodes because both of its senders  *)
(* (bootstrap's and the gossip caller's Update) block at the capacity.     *)

(* TypeOK is not inductive by itself: the dial loop's store writes back   *)
(* the loaded count plus one, which stays in range only because the load   *)
(* was guarded by attempts[a] < MaxAttempts.                               *)
LoadedBelowMax == aload # NoAddr => aval < MaxAttempts

TypeInv == TypeOK /\ LoadedBelowMax

LEMMA TypeInvInductive == TypeInv /\ [Next]_vars => TypeInv'
<1>1. TypeOK /\ LoadedBelowMax /\ [Next]_vars => LoadedBelowMax'
  <2> SUFFICES ASSUME TypeOK, LoadedBelowMax, [Next]_vars PROVE LoadedBelowMax'
    OBVIOUS
  <2>1. CASE \E a \in Addr : AttemptLoad(a)
    BY <2>1, RepositoryAssumption DEF AttemptLoad, LoadedBelowMax, TypeOK
  <2>2. CASE AttemptStore
    BY <2>2, RepositoryAssumption DEF AttemptStore, LoadedBelowMax
  <2>3. CASE Crash
    BY <2>3, RepositoryAssumption DEF Crash, LoadedBelowMax
  <2>4. CASE ~(\E a \in Addr : AttemptLoad(a)) /\ ~AttemptStore /\ ~Crash
    <3>1. aload' = aload /\ aval' = aval
      BY <2>4 DEF Next, vars, Start, BootStep, StartEnd, StopBegin, SaveCreate,
               SaveEncode, SaveExit, NodesExit, NodesRecv, UpdateCall, Good,
               UpdateSend
    <3>. QED
      BY <3>1 DEF LoadedBelowMax
  <2>. QED
    BY <2>1, <2>2, <2>3, <2>4
<1>2. TypeOK /\ LoadedBelowMax /\ [Next]_vars => TypeOK'
  <2> SUFFICES ASSUME TypeOK, LoadedBelowMax, [Next]_vars PROVE TypeOK'
    OBVIOUS
  <2>. USE DEF TypeOK
  <2>1. CASE Start
    <3>1. starts' \in 0..MaxStarts
      <4>1. starts \in 0..MaxStarts /\ starts < MaxStarts /\ starts' = starts + 1
        BY <2>1 DEF Start
      <4>. QED
        BY <4>1, RepositoryAssumption
    <3>. QED
      BY <2>1, <3>1, RepositoryAssumption DEF Start, Restored
  <2>2. CASE BootStep
    <3>1. Head(bootLeft) \in Addr /\ Tail(bootLeft) \in Seq(Addr)
      BY <2>2, HeadTailProperties DEF BootStep
    <3>2. CASE Head(bootLeft) \in index
      BY <2>2, <3>1, <3>2 DEF BootStep
    <3>3. CASE Head(bootLeft) \notin index
      <4>1. /\ Len(nodeQ) < BufNode
            /\ nodeQ' = Append(nodeQ, Head(bootLeft))
        BY <2>2, <3>3 DEF BootStep
      <4>2. nodeQ' \in Seq(Addr) /\ Len(nodeQ') <= BufNode
        BY <3>1, <4>1, SendType, RepositoryAssumption
      <4>. QED
        BY <2>2, <3>1, <4>2 DEF BootStep
    <3>. QED
      BY <3>2, <3>3
  <2>3. CASE StartEnd
    BY <2>3 DEF StartEnd
  <2>4. CASE StopBegin
    BY <2>4 DEF StopBegin
  <2>5. ASSUME NEW w \in Saver, SaveCreate(w) PROVE TypeOK'
    BY <2>5 DEF SaveCreate, Saver
  <2>6. ASSUME NEW w \in Saver, SaveEncode(w) PROVE TypeOK'
    BY <2>6 DEF SaveEncode, Saver
  <2>7. CASE SaveExit
    BY <2>7 DEF SaveExit
  <2>8. CASE NodesExit
    BY <2>8 DEF NodesExit
  <2>9. CASE NodesRecv
    <3>1. Head(nodeQ) \in Addr /\ Tail(nodeQ) \in Seq(Addr)
          /\ Len(Tail(nodeQ)) <= BufNode
      BY <2>9, RecvType, RepositoryAssumption DEF NodesRecv
    <3>. QED
      BY <2>9, <3>1 DEF NodesRecv
  <2>10. ASSUME NEW a \in Addr, UpdateCall(a) PROVE TypeOK'
    BY <2>10 DEF UpdateCall
  <2>11. ASSUME NEW a \in Addr, AttemptLoad(a) PROVE TypeOK'
    BY <2>11, RepositoryAssumption DEF AttemptLoad
  <2>12. ASSUME NEW a \in Addr, Good(a) PROVE TypeOK'
    BY <2>12, RepositoryAssumption DEF Good
  <2>13. CASE UpdateSend
    <3>1. nodeQ' \in Seq(Addr) /\ Len(nodeQ') <= BufNode
      BY <2>13, SendType, RepositoryAssumption DEF UpdateSend
    <3>. QED
      BY <2>13, <3>1 DEF UpdateSend
  <2>14. CASE AttemptStore
    <3>1. aval + 1 \in 0..MaxAttempts
      BY <2>14, RepositoryAssumption DEF AttemptStore, LoadedBelowMax
    <3>. QED
      BY <2>14, <3>1 DEF AttemptStore
  <2>15. CASE Crash
    <3>1. attempts' \in [Addr -> 0..MaxAttempts]
      BY <2>15, RepositoryAssumption DEF Crash
    <3>2. spc' \in [Saver -> {"none", "created"}]
      BY <2>15 DEF Crash
    <3>3. nodeQ' \in Seq(Addr) /\ Len(nodeQ') <= BufNode
      BY <2>15, RepositoryAssumption, EmptySeq DEF Crash
    <3>4. crashes' \in 0..MaxCrashes
      BY <2>15, RepositoryAssumption DEF Crash
    <3>5. aval' \in 0..MaxAttempts /\ bootLeft' \in Seq(Addr)
      BY <2>15, RepositoryAssumption, EmptySeq DEF Crash
    <3>. QED
      BY <2>15, <3>1, <3>2, <3>3, <3>4, <3>5 DEF Crash
  <2>16. CASE UNCHANGED vars
    BY <2>16 DEF vars
  <2>. QED
    BY <2>1, <2>2, <2>3, <2>4, <2>5, <2>6, <2>7, <2>8, <2>9, <2>10, <2>11,
       <2>12, <2>13, <2>14, <2>15, <2>16 DEF Next
<1>. QED
  BY <1>1, <1>2 DEF TypeInv

LEMMA TypeInit == Init => TypeInv
<1> SUFFICES ASSUME Init PROVE TypeInv
  OBVIOUS
<1>1. attempts \in [Addr -> 0..MaxAttempts] /\ aval \in 0..MaxAttempts
  BY RepositoryAssumption DEF Init
<1>2. spc \in [Saver -> {"none", "created"}]
  BY DEF Init
<1>3. nodeQ \in Seq(Addr) /\ Len(nodeQ) <= BufNode /\ bootLeft \in Seq(Addr)
  BY RepositoryAssumption, EmptySeq DEF Init
<1>4. starts \in 0..MaxStarts /\ crashes \in 0..MaxCrashes
  BY RepositoryAssumption DEF Init
<1>. QED
  BY <1>1, <1>2, <1>3, <1>4 DEF Init, TypeInv, TypeOK, LoadedBelowMax

\* Every reachable state satisfies the inductive type invariant.
LEMMA TypeInvAlways == Spec => []TypeInv
BY TypeInit, TypeInvInductive, PTL DEF Spec

\* Every variable of the repository stays in its type in every reachable
\* state; in particular nodeQ never exceeds bufferRepoNode.
THEOREM TypeCorrect == Spec => []TypeOK
BY TypeInvAlways, PTL DEF TypeInv

-----------------------------------------------------------------------------
(* The node index never exceeds maxNodeCount.  handleNodes only inserts    *)
(* below the limit, but Start merges nodes.dat into the live map, so the   *)
(* bound needs two facts about the file: it holds at most maxNodeCount     *)
(* nodes (every save encodes the bounded index), and its nodes are already *)
(* in the index, except after a crash, when the index is empty and nothing *)
(* runs until the next Start restores the file.                            *)

DiskBounded == Cardinality(disk) <= NodeLimit

\* the state of a process that has crashed and not been started again
Fresh ==
    /\ index = {} /\ state = "idle" /\ nodesN = 0 /\ saveN = 0
    /\ stopPc = "none" /\ \A w \in Saver : spc[w] = "none"

DiskCovered == disk \subseteq index \/ Fresh

BoundInv == NodeBounded /\ DiskBounded /\ DiskCovered

\* A subset of the finite set of addresses has a cardinality in Nat.
LEMMA AddrSubsetCard ==
    ASSUME NEW S \in SUBSET Addr
    PROVE  IsFiniteSet(S) /\ Cardinality(S) \in Nat
<1>1. IsFiniteSet(S)
  BY RepositoryAssumption, FS_Subset
<1>. QED
  BY <1>1, FS_CardinalityType

LEMMA BoundInit == Init => BoundInv
<1> SUFFICES ASSUME Init PROVE BoundInv
  OBVIOUS
<1>1. index = {} /\ disk = {}
  BY DEF Init
<1>. QED
  BY <1>1, FS_EmptySet, RepositoryAssumption DEF BoundInv, NodeBounded, DiskBounded, DiskCovered

\* Steps that change neither the index nor the file nor the state that
\* Fresh reads keep the invariant.
LEMMA BoundFrame ==
    ASSUME BoundInv,
           index' = index, disk' = disk,
           <<state, nodesN, saveN, stopPc, spc>>' = <<state, nodesN, saveN, stopPc, spc>>
    PROVE  BoundInv'
BY DEF BoundInv, NodeBounded, DiskBounded, DiskCovered, Fresh

LEMMA BoundInductive == TypeInv /\ BoundInv /\ [Next]_vars => BoundInv'
<1> SUFFICES ASSUME TypeInv, BoundInv, [Next]_vars PROVE BoundInv'
  OBVIOUS
<1>. USE DEF TypeInv, TypeOK
<1>a. Cardinality(index) \in Nat /\ Cardinality(disk) \in Nat
  BY AddrSubsetCard
<1>1. CASE Start
  <2>1. index' = index \cup disk /\ disk' = disk
    BY <1>1 DEF Start, Restored
  <2>2. CASE disk \subseteq index
    <3>1. index' = index
      BY <2>1, <2>2
    <3>. QED
      BY <2>1, <2>2, <3>1 DEF BoundInv, NodeBounded, DiskBounded, DiskCovered
  <2>3. CASE ~(disk \subseteq index)
    <3>1. index = {}
      BY <2>3 DEF BoundInv, DiskCovered, Fresh
    <3>2. index' = disk
      BY <2>1, <3>1
    <3>. QED
      BY <2>1, <3>2 DEF BoundInv, NodeBounded, DiskBounded, DiskCovered
  <2>. QED
    BY <2>2, <2>3
<1>2. CASE NodesRecv
  <2>1. disk \subseteq index
    BY <1>2 DEF NodesRecv, BoundInv, DiskCovered, Fresh
  <2>2. disk' = disk
    BY <1>2 DEF NodesRecv
  <2>3. CASE Head(nodeQ) \in index \/ Cardinality(index) >= NodeLimit
    <3>1. index' = index
      BY <1>2, <2>3 DEF NodesRecv
    <3>. QED
      BY <2>1, <2>2, <3>1 DEF BoundInv, NodeBounded, DiskBounded, DiskCovered
  <2>4. CASE ~(Head(nodeQ) \in index \/ Cardinality(index) >= NodeLimit)
    <3>1. index' = index \cup {Head(nodeQ)}
      BY <1>2, <2>4 DEF NodesRecv
    <3>2. IsFiniteSet(index)
      BY AddrSubsetCard
    <3>3. Cardinality(index') = Cardinality(index) + 1
      BY <2>4, <3>1, <3>2, FS_AddElement
    <3>4. Cardinality(index') <= NodeLimit
      BY <2>4, <3>3, <1>a, RepositoryAssumption
    <3>. QED
      BY <2>1, <2>2, <3>1, <3>4 DEF BoundInv, NodeBounded, DiskBounded, DiskCovered
  <2>. QED
    BY <2>3, <2>4
<1>3. ASSUME NEW w \in Saver, SaveCreate(w) PROVE BoundInv'
  <2>1. index' = index /\ disk' \in {disk, {}}
    BY <1>3 DEF SaveCreate
  <2>2. disk \subseteq index
    BY <1>3 DEF SaveCreate, BoundInv, DiskCovered, Fresh
  <2>3. Cardinality(disk') <= NodeLimit
    <3>1. CASE disk' = disk
      BY <3>1 DEF BoundInv, DiskBounded
    <3>2. CASE disk' = {}
      BY <3>2, FS_EmptySet, RepositoryAssumption
    <3>. QED
      BY <2>1, <3>1, <3>2
  <2>. QED
    BY <2>1, <2>2, <2>3 DEF BoundInv, NodeBounded, DiskBounded, DiskCovered
<1>4. ASSUME NEW w \in Saver, SaveEncode(w) PROVE BoundInv'
  <2>1. index' = index /\ disk' \in {disk, index}
    BY <1>4 DEF SaveEncode
  <2>2. disk \subseteq index
    BY <1>4 DEF SaveEncode, BoundInv, DiskCovered, Fresh
  <2>. QED
    BY <2>1, <2>2 DEF BoundInv, NodeBounded, DiskBounded, DiskCovered
<1>5. CASE Crash
  <2>1. index' = {} /\ disk' = disk
    BY <1>5 DEF Crash
  <2>2. Fresh'
    BY <1>5 DEF Crash, Fresh
  <2>. QED
    BY <2>1, <2>2, FS_EmptySet, RepositoryAssumption
    DEF BoundInv, NodeBounded, DiskBounded, DiskCovered
\* steps that leave index and file alone but leave Fresh: they are not
\* enabled in a Fresh state
<1>6. CASE StartEnd \/ StopBegin \/ SaveExit \/ NodesExit
  <2>1. index' = index /\ disk' = disk
    BY <1>6 DEF StartEnd, StopBegin, SaveExit, NodesExit
  <2>2. ~Fresh
    BY <1>6 DEF StartEnd, StopBegin, SaveExit, NodesExit, Fresh
  <2>. QED
    BY <2>1, <2>2 DEF BoundInv, NodeBounded, DiskBounded, DiskCovered
<1>7. CASE BootStep \/ UpdateSend \/ AttemptStore \/ UNCHANGED vars
  BY <1>7, BoundFrame DEF BootStep, UpdateSend, AttemptStore, vars
<1>8. ASSUME NEW a \in Addr, UpdateCall(a) \/ AttemptLoad(a) \/ Good(a)
      PROVE BoundInv'
  BY <1>8, BoundFrame DEF UpdateCall, AttemptLoad, Good
<1>. QED
  BY <1>1, <1>2, <1>3, <1>4, <1>5, <1>6, <1>7, <1>8 DEF Next

\* Spec 8.4: however Start, restore, bootstrap, gossip, saves and crashes
\* interleave, the repository never holds more than maxNodeCount nodes.
THEOREM NodeBoundedInv == Spec => []NodeBounded
<1>1. Spec => []BoundInv
  BY BoundInit, BoundInductive, TypeInvAlways, PTL DEF Spec
<1>. QED
  BY <1>1, PTL DEF BoundInv

(* Refinement of the abstract node table.  Every step is a step of         *)
(* NodeTable or leaves the index and nodes.dat alone.  The one step that   *)
(* needs more than the code's own guard is restore: the merged map is      *)
(* within the limit because BoundInv holds after the step.                 *)

\* Under TypeInv and BoundInv every step maps to a NodeTable step or a stutter.
LEMMA TableStep ==
    TypeInv /\ BoundInv /\ [Next]_vars => [AbsTable!Next]_AbsTable!vars
<1> SUFFICES ASSUME TypeInv, BoundInv, [Next]_vars
             PROVE  [AbsTable!Next]_AbsTable!vars
  OBVIOUS
<1>1. CASE Start
  <2>1. index' = index \cup disk /\ disk' = disk
    BY <1>1 DEF Start, Restored
  <2>2. Cardinality(index \cup disk) <= NodeLimit
    BY <2>1, BoundInductive DEF BoundInv, NodeBounded
  <2>. QED
    BY <2>1, <2>2 DEF AbsTable!Next, AbsTable!Restore
<1>2. CASE NodesRecv
  <2>1. CASE Head(nodeQ) \in index \/ Cardinality(index) >= NodeLimit
    BY <1>2, <2>1 DEF NodesRecv, AbsTable!vars
  <2>2. CASE ~(Head(nodeQ) \in index \/ Cardinality(index) >= NodeLimit)
    <3>1. Head(nodeQ) \in Addr
      BY <1>2, RecvType DEF NodesRecv, TypeInv, TypeOK
    <3>2. Cardinality(index) \in Nat /\ NodeLimit \in Nat
      BY AddrSubsetCard, RepositoryAssumption DEF TypeInv, TypeOK
    <3>3. AbsTable!Learn(Head(nodeQ))
      BY <1>2, <2>2, <3>2 DEF NodesRecv, AbsTable!Learn
    <3>. QED
      BY <3>1, <3>3 DEF AbsTable!Next
  <2>. QED
    BY <2>1, <2>2
<1>3. ASSUME NEW w \in Saver, SaveCreate(w) PROVE [AbsTable!Next]_AbsTable!vars
  BY <1>3 DEF SaveCreate, AbsTable!Next, AbsTable!Truncate, AbsTable!vars
<1>4. ASSUME NEW w \in Saver, SaveEncode(w) PROVE [AbsTable!Next]_AbsTable!vars
  BY <1>4 DEF SaveEncode, AbsTable!Next, AbsTable!Save, AbsTable!vars
<1>5. CASE Crash
  BY <1>5 DEF Crash, AbsTable!Next, AbsTable!Forget
<1>6. CASE StartEnd \/ StopBegin \/ SaveExit \/ NodesExit \/ BootStep
           \/ UpdateSend \/ AttemptStore \/ UNCHANGED vars
  BY <1>6 DEF StartEnd, StopBegin, SaveExit, NodesExit, BootStep, UpdateSend,
              AttemptStore, vars, AbsTable!vars
<1>7. ASSUME NEW a \in Addr, UpdateCall(a) \/ AttemptLoad(a) \/ Good(a)
      PROVE  [AbsTable!Next]_AbsTable!vars
  BY <1>7 DEF UpdateCall, AttemptLoad, Good, AbsTable!vars
<1>. QED
  BY <1>1, <1>2, <1>3, <1>4, <1>5, <1>6, <1>7 DEF Next

\* The repository implements the abstract node table of module NodeTable
\* (property ImplementsNodeTable, checked by TLC on run repo_safety): the
\* index grows only by handleNodes' bounded insert and by a restore that
\* stays within maxNodeCount, is lost only in a crash, and nodes.dat is
\* only ever emptied by os.Create or overwritten with the whole index.
THEOREM TableRefinement == Spec => ImplementsNodeTable
<1>1. Init => AbsTable!Init
  BY DEF Init, AbsTable!Init
<1>2. Spec => []BoundInv
  BY BoundInit, BoundInductive, TypeInvAlways, PTL DEF Spec
<1>. QED
  BY <1>1, <1>2, TableStep, TypeInvAlways, PTL
  DEF Spec, ImplementsNodeTable, AbsTable!Spec

=============================================================================
