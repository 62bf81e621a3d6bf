----------------------------- MODULE Repository -----------------------------
(***************************************************************************)
(* The node repository of PBTC (src/all/util.go, type repository).         *)
(*                                                                         *)
(* Actors: the client calling Start/Stop (Start runs restore, launches     *)
(* handleNodes and handleSave and then bootstraps from the DNS seeds by    *)
(* calling Update), handleNodes, handleSave, one gossip caller of Update,  *)
(* the manager's dial loop calling Attempt, a peer calling Good, and the   *)
(* environment, which may crash and restart the process.  A node is        *)
(* abstracted to its key; of its fields only the attempt counter is kept.  *)
(* The file nodes.dat survives a crash; everything else is lost.           *)
(***************************************************************************)
EXTENDS Naturals, Sequences, FiniteSets

CONSTANTS
    Addr,         \* canonical "host:port" keys
    NoAddr,       \* no address (an idle caller)
    NodeLimit,    \* maxNodeCount
    BufNode,      \* capacity of nodeQ (bufferRepoNode)
    SeedAddrs,    \* the addresses the DNS seeds resolve to, in bootstrap order
    MaxStarts,    \* bound on successful Start calls
    MaxCrashes,   \* bound on process crashes
    MaxAttempts   \* bound on a node's attempt counter

Saver == {"handler", "stop"}   \* handleSave's save and Stop's save

ASSUME RepositoryAssumption ==
    /\ IsFiniteSet(Addr) /\ NoAddr \notin Addr
    /\ NodeLimit \in Nat
    /\ BufNode \in Nat \ {0}
    /\ SeedAddrs \in Seq(Addr)
    /\ MaxStarts \in Nat /\ MaxCrashes \in Nat /\ MaxAttempts \in Nat

VARIABLES
    state,      \* repo.state: "idle", "busy", "running"
    starts,     \* successful Start calls so far
    crashes,    \* crashes so far
    index,      \* keys of repo.nodeIndex
    attempts,   \* node.attempts per key
    nodeQ,      \* repo.nodeQ contents
    sigClosed,  \* sigSave and sigNode have been closed
    nodesN,     \* running handleNodes goroutines
    saveN,      \* running handleSave goroutines
    bootLeft,   \* addresses bootstrap has still to visit; Start is in bootstrap while non-empty
    stopPc,     \* "none", or "save" while Stop runs its save
    spc,        \* per saver: "none", or "created" between os.Create and Encode
    disk,       \* the node set decodable from nodes.dat
    durable,    \* the node set written by the last save that completed
    upd,        \* the address the gossip caller's Update is blocked sending, or NoAddr
    aload,      \* the address whose attempts the dial loop has loaded, or NoAddr
    aval,       \* the value it loaded
    panicked    \* the process died on close of a closed channel

vars == <<state, starts, crashes, index, attempts, nodeQ, sigClosed, nodesN,
          saveN, bootLeft, stopPc, spc, disk, durable, upd, aload, aval, panicked>>

-----------------------------------------------------------------------------
Running == ~panicked

TypeOK ==
    /\ state \in {"idle", "busy", "running"}
    /\ starts \in 0..MaxStarts /\ crashes \in 0..MaxCrashes
    /\ index \in SUBSET Addr
    /\ attempts \in [Addr -> 0..MaxAttempts]
    /\ nodeQ \in Seq(Addr) /\ Len(nodeQ) <= BufNode
    /\ sigClosed \in BOOLEAN
    /\ nodesN \in Nat /\ saveN \in Nat
    /\ bootLeft \in Seq(Addr)
    /\ stopPc \in {"none", "save"}
    /\ spc \in [Saver -> {"none", "created"}]
    /\ disk \in SUBSET Addr /\ durable \in SUBSET Addr
    /\ upd \in Addr \cup {NoAddr}
    /\ aload \in Addr \cup {NoAddr} /\ aval \in 0..MaxAttempts
    /\ panicked \in BOOLEAN

\* NewRepository, with no nodes.dat on disk.
Init ==
    /\ state = "idle" /\ starts = 0 /\ crashes = 0
    /\ index = {} /\ attempts = [a \in Addr |-> 0]
    /\ nodeQ = <<>> /\ sigClosed = FALSE /\ nodesN = 0 /\ saveN = 0
    /\ bootLeft = <<>> /\ stopPc = "none" /\ spc = [w \in Saver |-> "none"]
    /\ disk = {} /\ durable = {}
    /\ upd = NoAddr /\ aload = NoAddr /\ aval = 0
    /\ panicked = FALSE

-----------------------------------------------------------------------------
(* Client: Start and Stop *)

\* Mutant: restore decoding into a fresh map, which replaces the index.
RestoredReplacing == disk

\* restore: gob decodes nodes.dat into the existing map (a missing or empty
\* file is an error that is logged and leaves the map as it is).
Restored == index \cup disk

\* Start: CAS idle->busy, restore, wg.Add(2) and launch both handlers, then
\* bootstrap.  The signal channels are not recreated.
Start ==
    /\ Running /\ state = "idle" /\ starts < MaxStarts
    /\ state' = "busy" /\ starts' = starts + 1
    /\ index' = Restored
    /\ nodesN' = nodesN + 1 /\ saveN' = saveN + 1
    /\ bootLeft' = SeedAddrs
    /\ UNCHANGED <<crashes, attempts, nodeQ, sigClosed, stopPc, spc, disk,
                   durable, upd, aload, aval, panicked>>

\* One address of bootstrap: skip it if indexed, else Update it, which
\* looks it up again and then blocks on the send to nodeQ.
BootStep ==
    /\ Running /\ bootLeft # <<>>
    /\ LET a == Head(bootLeft) IN
         IF a \in index THEN UNCHANGED nodeQ
         ELSE /\ Len(nodeQ) < BufNode
              /\ nodeQ' = Append(nodeQ, a)
    /\ bootLeft' = Tail(bootLeft)
    /\ UNCHANGED <<state, starts, crashes, index, attempts, sigClosed, nodesN,
                   saveN, stopPc, spc, disk, durable, upd, aload, aval, panicked>>

\* bootstrap has returned: store running.
StartEnd ==
    /\ Running /\ state = "busy" /\ stopPc = "none" /\ bootLeft = <<>>
    /\ state' = "running"
    /\ UNCHANGED <<starts, crashes, index, attempts, nodeQ, sigClosed, nodesN,
                   saveN, bootLeft, stopPc, spc, disk, durable, upd, aload,
                   aval, panicked>>

\* Stop: CAS running->busy, close(sigSave), close(sigNode), then save.
\* Closing the already closed channels of an earlier run panics.  Stop
\* never waits for the handlers.
StopBegin ==
    /\ Running /\ state = "running"
    /\ state' = "busy"
    /\ IF sigClosed
       THEN panicked' = TRUE /\ UNCHANGED <<sigClosed, stopPc>>
       ELSE sigClosed' = TRUE /\ stopPc' = "save" /\ UNCHANGED panicked
    /\ UNCHANGED <<starts, crashes, index, attempts, nodeQ, nodesN, saveN,
                   bootLeft, spc, disk, durable, upd, aload, aval>>

-----------------------------------------------------------------------------
(* save, run by handleSave on a tick and by Stop *)

\* os.Create("nodes.dat") truncates the file; if it fails, save returns
\* (and Stop goes on to store idle).
SaveCreate(w) ==
    /\ Running /\ spc[w] = "none"
    /\ IF w = "handler" THEN saveN > 0 ELSE stopPc = "save"
    /\ \/ /\ disk' = {} /\ spc' = [spc EXCEPT ![w] = "created"]
          /\ UNCHANGED <<state, stopPc>>
       \/ /\ UNCHANGED <<disk, spc>>
          /\ IF w = "stop" THEN state' = "idle" /\ stopPc' = "none"
                           ELSE UNCHANGED <<state, stopPc>>
    /\ UNCHANGED <<starts, crashes, index, attempts, nodeQ, sigClosed, nodesN,
                   saveN, bootLeft, durable, upd, aload, aval, panicked>>

\* gob encodes the whole map into the file; a write error leaves it empty.
SaveEncode(w) ==
    /\ Running /\ spc[w] = "created"
    /\ spc' = [spc EXCEPT ![w] = "none"]
    /\ \/ disk' = index /\ durable' = index
       \/ UNCHANGED <<disk, durable>>
    /\ IF w = "stop" THEN state' = "idle" /\ stopPc' = "none"
                     ELSE UNCHANGED <<state, stopPc>>
    /\ UNCHANGED <<starts, crashes, index, attempts, nodeQ, sigClosed, nodesN,
                   saveN, bootLeft, upd, aload, aval, panicked>>

\* handleSave's select takes the closed sigSave.
SaveExit ==
    /\ Running /\ saveN > 0 /\ spc["handler"] = "none" /\ sigClosed
    /\ saveN' = saveN - 1
    /\ UNCHANGED <<state, starts, crashes, index, attempts, nodeQ, sigClosed,
                   nodesN, bootLeft, stopPc, spc, disk, durable, upd, aload,
                   aval, panicked>>

-----------------------------------------------------------------------------
(* handleNodes *)

NodesExit ==
    /\ Running /\ nodesN > 0 /\ sigClosed
    /\ nodesN' = nodesN - 1
    /\ UNCHANGED <<state, starts, crashes, index, attempts, nodeQ, sigClosed,
                   saveN, bootLeft, stopPc, spc, disk, durable, upd, aload,
                   aval, panicked>>

\* Mutant: the limit test written with > instead of >=.
NodesRecvOffByOne ==
    /\ Running /\ nodesN > 0 /\ nodeQ # <<>>
    /\ nodeQ' = Tail(nodeQ)
    /\ IF Head(nodeQ) \in index \/ Cardinality(index) > NodeLimit
       THEN nodesN' = nodesN - 1 /\ UNCHANGED index
       ELSE index' = index \cup {Head(nodeQ)} /\ UNCHANGED nodesN
    /\ UNCHANGED <<state, starts, crashes, attempts, sigClosed, saveN, bootLeft,
                   stopPc, spc, disk, durable, upd, aload, aval, panicked>>

\* A node from nodeQ: a known key, or the index at maxNodeCount, makes the
\* handler return (not continue); otherwise the node is indexed.
NodesRecv ==
    /\ Running /\ nodesN > 0 /\ nodeQ # <<>>
    /\ nodeQ' = Tail(nodeQ)
    /\ IF Head(nodeQ) \in index \/ Cardinality(index) >= NodeLimit
       THEN nodesN' = nodesN - 1 /\ UNCHANGED index
       ELSE index' = index \cup {Head(nodeQ)} /\ UNCHANGED nodesN
    /\ UNCHANGED <<state, starts, crashes, attempts, sigClosed, saveN, bootLeft,
                   stopPc, spc, disk, durable, upd, aload, aval, panicked>>

-----------------------------------------------------------------------------
(* Update, Attempt and Good, called from other goroutines *)

\* Update of an unknown address builds a node and blocks sending it on
\* nodeQ (an address already indexed only has its src refreshed).
UpdateCall(a) ==
    /\ Running /\ upd = NoAddr /\ a \notin index
    /\ upd' = a
    /\ UNCHANGED <<state, starts, crashes, index, attempts, nodeQ, sigClosed,
                   nodesN, saveN, bootLeft, stopPc, spc, disk, durable, aload,
                   aval, panicked>>

\* Mutant: the send on nodeQ not blocking at the channel's capacity.
UpdateSendUnbounded ==
    /\ Running /\ upd # NoAddr
    /\ nodeQ' = Append(nodeQ, upd) /\ upd' = NoAddr
    /\ UNCHANGED <<state, starts, crashes, index, attempts, sigClosed, nodesN,
                   saveN, bootLeft, stopPc, spc, disk, durable, aload, aval,
                   panicked>>

UpdateSend ==
    /\ Running /\ upd # NoAddr /\ Len(nodeQ) < BufNode
    /\ nodeQ' = Append(nodeQ, upd) /\ upd' = NoAddr
    /\ UNCHANGED <<state, starts, crashes, index, attempts, sigClosed, nodesN,
                   saveN, bootLeft, stopPc, spc, disk, durable, aload, aval,
                   panicked>>

\* n.attempts++ on a known node: a load ...
AttemptLoad(a) ==
    /\ Running /\ aload = NoAddr /\ a \in index /\ attempts[a] < MaxAttempts
    /\ aload' = a /\ aval' = attempts[a]
    /\ UNCHANGED <<state, starts, crashes, index, attempts, nodeQ, sigClosed,
                   nodesN, saveN, bootLeft, stopPc, spc, disk, durable, upd,
                   panicked>>

\* ... and a store, not synchronised with Good.
AttemptStore ==
    /\ Running /\ aload # NoAddr
    /\ attempts' = [attempts EXCEPT ![aload] = aval + 1]
    /\ aload' = NoAddr
    /\ UNCHANGED <<state, starts, crashes, index, nodeQ, sigClosed, nodesN,
                   saveN, bootLeft, stopPc, spc, disk, durable, upd, aval,
                   panicked>>

\* Good resets the counter of a known node.
Good(a) ==
    /\ Running /\ a \in index
    /\ attempts' = [attempts EXCEPT ![a] = 0]
    /\ UNCHANGED <<state, starts, crashes, index, nodeQ, sigClosed, nodesN,
                   saveN, bootLeft, stopPc, spc, disk, durable, upd, aload,
                   aval, panicked>>

-----------------------------------------------------------------------------
(* The process dies (crash, kill, or after a panic) and is started again:  *)
(* only nodes.dat survives.                                                *)
Crash ==
    /\ crashes < MaxCrashes
    /\ crashes' = crashes + 1
    /\ state' = "idle" /\ index' = {} /\ attempts' = [a \in Addr |-> 0]
    /\ nodeQ' = <<>> /\ sigClosed' = FALSE /\ nodesN' = 0 /\ saveN' = 0
    /\ bootLeft' = <<>> /\ stopPc' = "none" /\ spc' = [w \in Saver |-> "none"]
    /\ upd' = NoAddr /\ aload' = NoAddr /\ aval' = 0 /\ panicked' = FALSE
    /\ UNCHANGED <<starts, disk, durable>>

Next ==
    \/ Start \/ BootStep \/ StartEnd \/ StopBegin
    \/ \E w \in Saver : SaveCreate(w) \/ SaveEncode(w)
    \/ SaveExit \/ NodesExit \/ NodesRecv
    \/ \E a \in Addr : UpdateCall(a) \/ AttemptLoad(a) \/ Good(a)
    \/ UpdateSend \/ AttemptStore
    \/ Crash

\* The repository's goroutines and the callers blocked inside it keep being
\* scheduled; the client, the gossip, the ticker and crashes are not fair.
Fairness ==
    /\ WF_vars(BootStep) /\ WF_vars(StartEnd)
    /\ WF_vars(SaveCreate("stop")) /\ \A w \in Saver : WF_vars(SaveEncode(w))
    /\ WF_vars(SaveExit) /\ WF_vars(NodesExit) /\ WF_vars(NodesRecv)
    /\ WF_vars(UpdateSend) /\ WF_vars(AttemptStore)

Spec == Init /\ [][Next]_vars /\ Fairness

-----------------------------------------------------------------------------
(* Properties *)

\* Spec 8.4: handleNodes never lets the node index grow past maxNodeCount,
\* although restore merges nodes.dat into the live map on every Start.
NodeBounded == Cardinality(index) <= NodeLimit

\* Spec 7 (nodeQ is the drop-on-full intake): an Update of a new address
\* returns; the code blocks on the send to nodeQ, whose only reader,
\* handleNodes, returns on a duplicate and exits on Stop.
UpdateReturns == (upd # NoAddr) ~> (upd = NoAddr)

\* Spec 6(ii), write-temp-then-rename: restore on Start recovers every node
\* of the last save that completed; save truncates nodes.dat in place.
RestoreRecoversLastSave == [][Start => durable \subseteq index']_vars

\* Spec 8.2/8.3: a step either leaves a node's attempts alone, adds one
\* (Attempt) or resets it (Good); the unsynchronised n.attempts++ of the
\* dial loop can write back a count loaded before a Good.
AttemptsCount ==
    [][\A a \in Addr : attempts'[a] \in {attempts[a], attempts[a] + 1, 0}]_vars


-----------------------------------------------------------------------------
(* Refinement *)

\* The repository implements the abstract node table NodeTable: the keys of
\* nodeIndex are the table and the nodes nodes.dat decodes to are the file.
\* handleNodes' insert is a Learn, restore in Start a Restore, os.Create in
\* save a Truncate, the encode a Save and a crash a Forget; every other step
\* leaves both alone.  Restore's bound is what the merge of nodes.dat into
\* the live map must respect.
AbsTable == INSTANCE NodeTable
    WITH Key <- Addr, Limit <- NodeLimit, Size <- Cardinality,
         known <- index, file <- disk

ImplementsNodeTable == AbsTable!Spec

=============================================================================
