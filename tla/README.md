# TLA+ models of PBTC's peer population subsystem

This directory holds TLA+ models of the concurrent core of PBTC, a passive Bitcoin monitor, in `src/`. It has three parts:

- TLC runs that check the models on small instances;
- TLAPS proofs of the main invariants for all values of the constants;
- this description.

The models are written from the Go source. Only the behaviour of a peer is taken from `spec.md`, because the peer implementation is not under `src/`.

## 1. The system

| Part | Source | Role |
|---|---|---|
| Manager | `src/unnamed/part_000` | Dials peers at a fixed rate while fewer than `maxPeerCount` are indexed. Accepts inbound connections on every local IP. Indexes new peers and removes done ones. Start/Stop. |
| Peer | not in `src/` (interface `src/unnamed/part_002`) | Connects asynchronously, sends itself on the manager's `peerNew`, may fail at any time, and sends itself once on `peerDone` when it has terminated. `Stop` sets the done flag and blocks until the peer has sent on `peerDone`. |
| Repository | `src/all/util.go` (type `repository`) | The known node addresses. `Update` enqueues new addresses on `nodeQ` for the `handleNodes` goroutine. `Attempt`/`Good` count dial attempts. `Get` hands out an address. `handleSave` saves the index to `nodes.dat` on a ticker, and `Start` restores it and bootstraps from DNS seeds. |
| FileWriter | `src/writer/writer_file.go` | Receives record lines on `txtQ` (capacity 1; `Line` blocks when it is full) and writes them in one goroutine. It rotates the file when it reaches `fileSize` and when the age timer fires. A rotation creates `<RFC3339 second>.txt`, writes the version header, copies the old file to `<old>.out` through the compressor, and swaps the handle. |
| main | `src/pbtc.go` (second `main`, lines 129-306) | Builds the logger, repository, writers, recorders and manager, exiting 1-4 on the first failing constructor. Loops over the signal channel `sigc` (capacity 1): SIGHUP continues, SIGINT breaks. A shutdown goroutine stops the manager, repository, file writer and logger and sends on `c`, while `main` selects over `sigc` (panic) and `c` (exit 0). |
| Records, supervisor | `src/recorder`, `src/unnamed/part_001` | Formatting and configuration (not modelled, see section 7). |

How they interact:

- The manager's dial loop calls `repo.Get` and `repo.Attempt`.
- Peers call `repo.Update` (address gossip) and `repo.Good`.
- Peers talk to the manager only through the two bounded channels `peerNew` and `peerDone`.
- `main` builds the repository, the writers and then the manager. Its shutdown goroutine stops them in the order manager, repository, file writer, logger.
- Recorders call the writer's `Line`. `main` stops the file writer after the manager. A peer the manager failed to stop (`StopStopsPeers`) may still be recording then.

## 2. Modules

| Module | Contents |
|---|---|
| `Manager.tla` | Manager and peers, one action per goroutine step, and the refinement mapping to `PeerIndex`. |
| `PeerIndex.tla` | The abstract peer table the manager promises (spec 4.2): admit a never-admitted peer under a free key below the limit, or release a key. |
| `MCManager.tla` + `MCManager*.cfg` | Model values: three peers, two keys, one or no local IP. |
| `ManagerProofs.tla` | TLAPS proofs for the manager. |
| `Repository.tla` | Repository, its callers and process crashes, and the refinement mapping to `NodeTable`. |
| `NodeTable.tla` | The abstract node table the repository promises (spec 6 and 8.4): learn a new key while there is room, restore the file into the table within the limit, truncate or overwrite the file with the table, forget the table in a crash. |
| `MCRepository.tla` + `MCRepository*.cfg` | Two or three addresses, seed lists `<<a1, a1, a2>>` or `<<a1>>`. |
| `RepositoryProofs.tla` | TLAPS proofs for the repository. |
| `FileWriterProofs.tla` | TLAPS proof of the file writer's type invariant. |
| `FileWriter.tla` | The file writer: constructor, `Line`, `Stop`, and the three cases of the writer goroutine. |
| `Main.tla` + `MCMain.tla` + `MCMain.cfg` | `main` of `pbtc.go` composed with the file writer (module `FileWriter` extended). |
| `Lifecycle.tla` | The abstract lifecycle `main` promises: build (or exit non-zero), run, on SIGINT stop mgr, repo, wfile (after the writer flushed) and logr in order, exit 0 after all four; a panic only once running. |
| `MainProofs.tla` | TLAPS proofs for `main` with the writer: the clean exit, types, files only grow, no line dropped, and the refinement to `Lifecycle`. |
| `MCFileWriter.tla` + `MCFileWriter*.cfg` | Two lines, seconds 0 and 1. |
| `ChannelLemmas.tla` | Lemmas on sending to and receiving from a bounded channel (a sequence). |

### Manager.tla

**State.** Goroutines are flags:

- `connAlive` is handleConnections, and `peerAlive` is handlePeers;
- `lalive[ip]` is handleListener for each IP;
- `pc[p]` is a peer's phase: free, connecting, live, terminating (done flag set) or finished (done signal sent).

Other variables:

- A buffered channel is a sequence whose length is bounded by its capacity.
- A closed signal channel is a boolean.
- `peerIndex` maps a key to a peer or `NoPeer`.
- `stopPc`/`toStop`/`stopWait` are the position of a running `Stop`, the keys its range has still to visit, and the peer whose blocking `Stop()` it waits on.
- `panicked` records a runtime panic, which ends every goroutine.

**Actions.**

- `Start`: CAS, `createListeners` (as `CreateListeners(ok)`, where `ok` is the set of IPs whose `ListenTCP` succeeds), and launching the handlers.
- `Stop` is split where the code blocks or where another goroutine can step in:
  - `StopBegin` is the CAS and the start of the range over the map;
  - `StopPeer(a)` is one `peer.Stop()`;
  - `StopPeerReturn` is when the blocking `Stop()` returns;
  - `StopSignal` covers `close(sigConn)`, the listener closes and `close(sigPeer)`, and panics when the channels are already closed;
  - `StopEnd` is `wg.Wait` and storing idle.
- handleConnections has two actions:
  - `ConnExit`;
  - `AddPeer(a, p)`, a tick with `BelowPeerLimit` that runs `addPeer`. `Get` returns the key `a`, retrying while it is indexed, and a fresh peer object `p` starts connecting.
- handlePeers has three actions: `PeersExit`, `ProcessNewPeer` and `ProcessDonePeer`.
- handleListener has two actions:
  - `Accept(ip)`, which is the nil-error panic of line 251;
  - `ListenerExit(ip)`.
- Peers have three actions: `PeerConnected`, `PeerFail` and `PeerSendDone`.

Go's `select` over several ready channels is modelled by the corresponding actions being enabled together.

**Refinement.** `AbsIndex == INSTANCE PeerIndex WITH index <- peerIndex, admitted <- {p \in Peer : started[p]}` (keys, peers, `NoPeer`, the limit and `Cardinality` for the abstract `Size`) maps the manager onto the abstract table. `ImplementsPeerIndex == AbsIndex!Spec` says that every change of the index or of the started peers is one admission or one release. `ProcessNewPeer` is an admission when it indexes a peer. `ProcessDonePeer` is a release. Every other step leaves both alone.

### Repository.tla

**State.** A node is reduced to its key and its `attempts` counter.

- The handlers are counters, because `Stop` never waits for them and a restart launches new ones beside the old.
- `spc[w]` records, for each of the two callers of `save` (`handleSave` and `Stop`), whether the file has been truncated (`os.Create`) but not yet written.
- `disk` is the set of nodes `restore` would decode from `nodes.dat`.
- `durable` is a history variable: the set written by the last save that completed. `RestoreRecoversLastSave` needs it.
- `upd` is the address a gossip caller's `Update` is blocked sending.
- `aload`/`aval` is the load half of the dial loop's `n.attempts++`.

**Actions.**

- `Start` with `Restored` (restore merges the file into the live map).
- `BootStep` is one address of `bootstrap`, including the nested `Update`, which blocks on a full `nodeQ`.
- `StartEnd` and `StopBegin`.
- `save` is split into `SaveCreate(w)` (truncate, or a failed create) and `SaveEncode(w)` (write the snapshot, or a failed write that leaves the file empty).
- `SaveExit`, `NodesExit` and `NodesRecv`. `NodesRecv` *returns* from handleNodes on a known key or at the limit, as the code does.
- `UpdateCall`/`UpdateSend`, `AttemptLoad`/`AttemptStore` and `Good`.
- `Crash`: the process dies and restarts. Everything except `nodes.dat` is reset to the state `NewRepository` creates.

**Refinement.** `AbsTable == INSTANCE NodeTable WITH known <- index, file <- disk` maps the repository onto the abstract node table. `ImplementsNodeTable == AbsTable!Spec` says that the index changes only by one bounded insert, by a restore that stays within `maxNodeCount`, or by a crash, and that `nodes.dat` is only truncated or overwritten with the whole index.

### Main.tla

`Main` extends `FileWriter`, so the writer's state and actions are part of the process.

State:

- `mpc` is where `main` is: a constructor stage, `loop`, `select`, `exited` or `panicked`;
- `code` is the code passed to `os.Exit`;
- `sigc` is the signal channel, a sequence of capacity 1;
- `sent` counts the signals the operating system has delivered (at most `MaxSignals`);
- `spc` is the shutdown goroutine's position.

Actions:

- `Construct(s)` is one constructor other than the file writer's: it succeeds, or (with `InitFail`) `main` exits with the stage's code.
- `CreateWriter` is `NewFileWriter` of module `FileWriter`, exiting with 3 on its error.
- `SigRecv` is one iteration of `SigLoop`. A SIGINT also makes `c`, launches the shutdown goroutine and enters the select.
- `SelectSignal` is the panic on a signal during shutdown. `SelectDone` is the rendezvous on `c` and `os.Exit(0)`.
- `ShutdownMgr`, `ShutdownRepo`, `ShutdownWriter`, `ShutdownLogr` and `ShutdownSend` are the goroutine's five statements. `ShutdownWriter` is the writer's `StopCall`, and its `wg.Wait` is the writer's `StopReturn`.
- The environment has `Deliver(s)`, where `signal.Notify` drops a signal if `sigc` is full, and `RecordLine(l)`, a recorder's `Line` once the manager exists.
- The writer goroutine's own steps are unchanged.

The manager's and the repository's `Stop` are single steps that return. The manager's `Stop` returns by `StopCompletes`. The repository's `Stop` waits for nothing.

**Refinement.** `Life == INSTANCE Lifecycle` maps the process onto its abstract lifecycle. `Phase` is read off `mpc`, and a writer panic ends the process as well. The number of stopped components is read off `spc` (`Stopped`). The flush is `wpc = "exited"`, and the status is `code`. `ImplementsLifecycle == Life!Spec`.

### FileWriter.tla

State:

- `wpc` is the constructor and goroutine state (`unbuilt`, `failed`, `loop`, `exited`, `panicked`).
- `clock` is the second that `time.Now()` returns.
- `file` and `off` are `w.file` and its descriptor's offset.
- `txt[t]` and `out[t]` are the contents of `<t>.txt` and `<t>.txt.out`.
- `timer` is the state of `fileTimer`.
- `txtQ` is the line channel.
- `done`, `sigClosed` and `stopPc` are Stop's flag, the closed signal, and Stop's caller.
- The ghosts are `accepted` (lines enqueued by `Line`, in order), `logged` (lines lost to a logged write error) and `reused` (a rotation re-created the open file's name).

A file is a sequence of items. An item is the header, a line, or a zero byte. A zero byte fills the gap left by a write at an offset past the end of a truncated file (`WriteAt`). Actions:

- `NewFileWriter`: `MkdirAll` may fail; otherwise the first `RotateLog`, and the timer is armed.
- `WriterLine`: one `txtQ` case of the select, made up of `WriteString` at the offset (or a logged error, always on a nil file) followed by `CheckSize`. `CheckSize` returns at `fileSize` 0 or below the limit, panics on the `Stat` of a nil file, and otherwise calls `RotateLog`.
- `WriterTimer`: `checkTime`. It rotates and re-arms, or with `fileAge` 0 leaves the timer stopped for good.
- `WriterSig`: the closed signal breaks the loop.
- `RotateLog`: `os.Create` of `<clock>.txt` (which truncates it, even when it is the open file), then the header write, then `compressLog` (`CompressOutcomes`: a full copy, or nothing, an empty file or a prefix when Seek, Create, GetWriter or io.Copy fails), then the swap. A failed create or header write returns early and keeps the old handle at its old offset.
- `LineCall`/`LineSend`: a blocked `Line` call and its send.
- `StopCall`/`StopReturn`: the swap of `done` with the close, then `wg.Wait`.
- `Tick` and `TimerFire`: the environment.

The group of actions in one select case is one TLA+ step. This is sound because only the writer goroutine touches the file, and the clock is read once.

## 3. Runs

| Run | Result | What it shows |
|---|---|---|
| `MCManager.cfg` | pass (about 390k states) | `TypeOK`, `IndexBounded` (spec 8.5), `StopCompletes`: Stop always returns although `peer.Stop` blocks on `peerDone`. `ImplementsPeerIndex`: the manager refines the abstract peer table. |
| `MCManagerKeyEvict.cfg` | violation of `LivePeersBounded` | A dropped duplicate's done signal evicts the live peer of its key. More than `maxPeerCount` peers stay connected (spec 8.6). |
| `MCManagerRetired.cfg` | violation of `NoIndexedRetiredPeer` | The select takes done before new, and a finished peer is indexed forever. |
| `MCManagerStopRace.cfg` | violation of `NoIndexWriteDuringStopRange` | While Stop's range over `peerIndex` is still iterating (`StopRanging`: a key left to visit, or the body blocked in `peer.Stop()`), handlePeers takes the stopped peer's done and `processDonePeer` deletes its key (line 345). This breaks spec 5 and is a Go runtime fatal. |
| `MCManagerStopLeak.cfg` | violation of `StopStopsPeers` | Stop returns to idle with a started peer it never stopped. The dial loop takes one more tick after `sigConn` is closed, and handlePeers starts the new peer before its select takes the closed `sigPeer` (spec 4.2). |
| `MCRepository.cfg` | pass (about 1.19M states) | `TypeOK` and `NodeBounded` (spec 8.4), through restarts, a crash, duplicate seeds, gossip and saves. `ImplementsNodeTable`: the repository refines the abstract node table. |
| `MCRepositoryIntake.cfg` | violation of `UpdateReturns` | `Update` blocks forever once handleNodes has gone. Spec 7 makes `nodeQ` drop-on-full. |
| `MCRepositoryPersist.cfg` | violation of `RestoreRecoversLastSave` | A crash between truncate and write loses the saved nodes (spec 6(ii)). |
| `MCRepositoryAttempts.cfg` | violation of `AttemptsCount` | An increment racing `Good` undoes the reset (spec 8.2). |
| `MCMain.cfg` | pass (about 205k states) | `main` with the file writer. `TypeOK` and `MainTypeOK`. `NoSilentLoss`: unless a rotation re-created the open file, every accepted line whose write raised no logged error is in a `.txt` file or still queued, in acceptance order, through every failure of create, header, seek, copy and write. `InterruptExits`: a SIGINT that reaches the signal loop ends the process, through the writer's Stop (its select must take the closed signal while lines keep arriving) and the rendezvous on `c`. `CleanExitAfterWriter`: `os.Exit(0)` happens only after goWriter has exited, so the last file is complete. `LinesStable` (action property): a `.txt` file only grows, so no write, header, truncation or copy overwrites or removes an item already written. The only exception is the step whose rotation re-creates the open file's own name within its second (`Recreated(t)`: that file is left empty or holding only the header). The exemption is per step, so every later step is checked again. `NoLineDropped`: the unordered half of `NoSilentLoss`. Every accepted line is in a `.txt` file, still queued, or logged as lost. `ImplementsLifecycle`: `main` refines the abstract lifecycle. |
| `MCFileWriterSameSecond.cfg` | violation of `NoLineLost` | Two size rotations in one second truncate the open file, and its lines are lost (spec S5). |
| `MCFileWriterStopDrop.cfg` | violation of `StopFlushes` | The select takes the closed signal while a line is queued, so Stop drops an accepted line. |

Every property of a passing run has a mutant in `PROJECT.json`: an operator next to the action that makes the mistake a programmer could make (`>` for `>=`, a send that ignores the capacity, `sigPeer` closed before the range, a peer started before the duplicate test, the writer's loop that ignores a closed signal, a Stop that returns without `wg.Wait`, a signal delivery that ignores the capacity of `sigc`, a rotation that leaves the new descriptor at offset 0, a restore that decodes into a fresh map and so replaces the index, a failed write whose error is not logged, a shutdown that leaves out `repo.Stop()`). The property fails when the mutant replaces the action.

**Bounds.**

- Manager:
  - three peer objects and two keys, so that two peers of one key (the eviction and duplicate cases) and a peer of another key both occur;
  - `maxPeerCount = 1`, so that the limit is reached;
  - channel capacities 1, so that a full channel blocks;
  - one local IP where accepting matters, and none elsewhere, to keep the state space small;
  - `MaxStarts` 1, as `main` starts the manager once.
- Repository:
  - two addresses with `maxNodeCount = 1` in the violation runs; three addresses with `maxNodeCount = 2` in the passing run, so that a restore merges a file into a non-empty index that is not full (a restore that replaced the index would lose a node there);
  - seeds that repeat an address;
  - `nodeQ` capacity 1;
  - two starts, one crash, and an attempt bound of 2. The lost reset needs a count of 1 loaded before `Good`. With two starts the second Stop's double close is reached.
- FileWriter:
  - two lines, so that one can be queued while the other is being written;
  - seconds 0 and 1, so that rotations both share a second and move to a new one;
  - a size limit of 2 items (the header and one line), so that every line triggers a rotation;
  - age rotation on, with the timer free to fire at any time;
  - every I/O failure allowed in the passing run. The violation runs turn off the failures they do not need, so that each trace shows one cause.
- main: every constructor may fail, and the operating system delivers two signals. Two signals are enough for a SIGHUP before the SIGINT, a signal during shutdown, and a signal dropped on a full `sigc`.

**Fairness.** Weak fairness is assumed for:

- every step of the manager's own goroutines (Stop's steps, the handler exits, `ProcessNewPeer`/`ProcessDonePeer`, a listener on a closed socket);
- a terminated peer's send on `peerDone`;
- in the repository, bootstrap, Stop's save, the handlers and the blocked senders;
- in the file writer, each select case of the writer goroutine (Go chooses uniformly among the ready cases) and the return of `wg.Wait`. Blocked `Line` senders get strong fairness, because a Go channel serves its blocked senders in FIFO order.
- in `main`, each constructor, the signal loop, the final select and the shutdown goroutine, and the writer's steps as above. Every fairness condition of `MainSpec` is conjoined with `~Halted`: after `os.Exit` or a panic nothing runs.

These are goroutines that the Go scheduler keeps running. No fairness is assumed for the client, the network (connect, fail, accept), the tickers, the recorders, the operating system's signals or crashes: none of them is obliged to act. Deadlock checking is off: after a panic the process has stopped, and after Stop the program exits. Neither is an error of the model.

## 4. What is proved (TLAPS)

| Module | Theorem | Statement |
|---|---|---|
| `ManagerProofs` | `TypeCorrect` | `Spec => []TypeOK` |
| `ManagerProofs` | `IndexBoundedInv` | `Spec => []IndexBounded` |
| `RepositoryProofs` | `TypeCorrect` | `Spec => []TypeOK` |
| `RepositoryProofs` | `NodeBoundedInv` | `Spec => []NodeBounded` |
| `FileWriterProofs` | `TypeCorrect` | `Spec => []TypeOK` |
| `ManagerProofs` | `Refinement` | `Spec => ImplementsPeerIndex`, i.e. `Spec => AbsIndex!Spec` |
| `MainProofs` | `CleanExit` | `MainSpec => []CleanExitAfterWriter` |
| `MainProofs` | `MainTypeCorrect` | `MainSpec => [](TypeOK /\ MainTypeOK)` |
| `FileWriterProofs` | `FilesOnlyGrow` | `Spec => LinesStable` |
| `MainProofs` | `MainFilesOnlyGrow` | `MainSpec => LinesStable` |
| `FileWriterProofs` | `NoLineDroppedInv` | `Spec => []NoLineDropped` |
| `MainProofs` | `MainNoLineDropped` | `MainSpec => []NoLineDropped` |
| `MainProofs` | `LifecycleRefinement` | `MainSpec => ImplementsLifecycle`, i.e. `MainSpec => Life!Spec` |
| `RepositoryProofs` | `TableRefinement` | `Spec => ImplementsNodeTable`, i.e. `Spec => AbsTable!Spec` |

The proofs assume `ManagerAssumption` or `RepositoryAssumption`: finite address sets, natural bounds, and non-zero channel capacities. They hold for every number of peers, keys and capacities.

- **Manager.** `IndexBounded` is inductive relative to `TypeOK`:
  - only `ProcessNewPeer` adds a key, and it does so below the limit (`FS_AddElement`);
  - `ProcessDonePeer` only removes one (`FS_Subset`).
- **Manager refinement.** The step lemma `RefinementStep` shows that, under `TypeOK` and `NewInv`, every step of `Next` is an `AbsIndex!Next` step or leaves `peerIndex` and the started peers unchanged. The initial states map to `AbsIndex!Init`. The hard case is `ProcessNewPeer`: the abstract `Admit` needs the peer at the head of `peerNew` never to have been started. `NewInv` gives this. Every peer in `peerNew` is past connecting and not started, it appears there once, and a started peer is past connecting. A peer therefore enters `peerNew` once (`PeerConnected` from connecting) and leaves it at its only admission. `NewInvInit` and `NewInvStep` prove `NewInv` inductive relative to `TypeOK`. `NewInv` was checked with TLC (with `BufNew = 2`, so that the uniqueness conjunct matters) before it was proved. The abstract module takes `Size` as a parameter instantiated with `Cardinality`, so that the prover sees the same operator on both sides.
- **Repository TypeOK.** `TypeOK` alone is not inductive: `AttemptStore` writes back the loaded count plus one. The inductive invariant `TypeInv` adds `LoadedBelowMax`.
- **Repository NodeBounded.** `NodeBounded` alone is not inductive, because `Start` merges the file into the index. The invariant `BoundInv` adds:
  - `DiskBounded`: every save encodes the bounded index;
  - `DiskCovered`: the file's nodes are in the index, unless the process has just crashed (`Fresh`: empty index, nothing running). In that case the next `Start` makes the index equal to the file.

  `BoundInv` was checked with TLC as an invariant before it was proved.
- **Repository refinement.** `AbsTable == INSTANCE NodeTable WITH known <- index, file <- disk` (addresses, `maxNodeCount`, `Cardinality` for `Size`). The step lemma `TableStep` shows that, under `TypeInv` and `BoundInv`, `Start` is a `Restore`, an inserting `NodesRecv` is a `Learn`, `SaveCreate` and `SaveEncode` are `Truncate` and `Save` (or stutters when they fail), `Crash` is `Forget`, and every other step leaves `index` and `disk` alone. The one step that needs an invariant is `Start`: the code merges without a check, and the abstract `Restore` requires the merge to stay within the limit. That follows from `BoundInv` after the step (`BoundInductive`), i.e. from `DiskCovered` and `DiskBounded` before it.
- **FileWriter TypeOK** is inductive as it stands. The proof has one step per action, and these lemmas:
  - `WriteAtType`: a write at any offset, even past the end of a truncated file, leaves a sequence of items;
  - `CompressType`: every outcome of `compressLog`, including a partial copy, is a sequence of items;
  - `RotateLogType`: one case for each early return of `rotateLog`.

  `NoSilentLoss` is checked by TLC only. It is stated with `FlattenSeq` and `SelectSeq`, which are recursive over the data, so it is beyond the prover (see below).
- **Clean exit of main.** `CleanExitAfterWriter` is not inductive: `SelectDone` sets the code to 0 without looking at the writer. The invariant `ExitInv` chains three facts:
  - once the writer's Stop has returned, goWriter has exited (`StopReturn` is guarded by the wait group);
  - once the shutdown goroutine is past `wfile.Stop`, that Stop has returned;
  - a code of 0 means the goroutine has sent on `c` and main has exited.

  `ExitInvInit` and `ExitInvStep` (one case per action of `MainNext`, the writer's steps split by action) prove it inductive; it was checked with TLC first. The proof holds for every line set, size limit, clock bound and number of signals allowed by `FileWriterAssumption` and `MainAssumption`.
- **Files only grow (`LinesStable`).** The action property needs no assumption on `reused`. It follows from two inductive invariants, both checked with TLC on `MCMain.cfg` before they were proved. The first is `OffInv`: the descriptor's offset is never before the end of the open file. The second is the part of `WriteInv` that does not mention `reused`. `WriteInv` states:
  - before the constructor runs there is no open file;
  - the open file is named after a second no later than the clock;
  - every file named after a later second is still empty;
  - unless a rotation re-created the open file's name (`reused`), the descriptor's offset is the open file's length.

  With them, a write through the descriptor only extends the open file (`WriteAtGrows`: `WriteAt` at or past the end keeps the file as a prefix). `os.Create` truncates either an empty file or, within its own second, the open one, and that step is the `Recreated` exemption. `OffInv` is needed because a failed header write after such a truncation keeps the old offset past the new end. `RotateLogStable` covers the three outcomes of `rotateLog`, `CheckSizeStable` the three of `checkSize`, and `StableStep` every action. A write followed by a rotation is chained with `PrefixTrans`. The prefix lemmas (`PrefixPointwise`, `PrefixRefl`, `PrefixAppend`, `PrefixTrans`) are proved from `SubSeq` and `Append` facts of `SequenceTheorems`. `MainFilesOnlyGrow` transfers the result to the composed process through `WriterView`.
- **Main's types.** `WriterView` shows that every step of `MainNext` is a step or a stutter of the writer's `Next` (main's own steps leave the writer alone, and `~Halted` gives the writer's `Running` guard). The writer's `TypeStep` lemma then carries `TypeOK` over. `MainTypeStep` covers main's own variables; its one real case is `Deliver`, which keeps `sigc` within its capacity of one.
- **No line dropped (`NoLineDropped`).** The invariant is inductive relative to `TypeOK` and `WriteInv`, and `DroppedStep` proves the step. `LineSend` adds its line to `accepted` and to `txtQ` together (`RangeAppend`). `WriterLine` takes the head of `txtQ` (`RangeTail`). Either the line is logged, or `WrittenLineOnDisk` shows it is in the open file after the step. With `WriteInv` the write appends, and `checkSize`'s rotation keeps that file a prefix of what it becomes (`CheckSizeGrows`, `RangePrefix`). Every other line on disk stays there, because the step only extends the files (`WriteStep`, `OnDiskGrows`). `ReusedStays` shows that no step clears `reused`. `MainNoLineDropped` carries the result over to the composed process through `WriterView`.
- **Lifecycle refinement.** `LifeStep` maps every step of `MainNext` to a `Lifecycle` step or a stutter:
  - a constructor is `Fail` or, for the manager, `Ready`;
  - a SIGINT in the loop is `Interrupt`;
  - each of the shutdown goroutine's Stop calls is `StopNext`;
  - goWriter's exit on the closed `sigWriter` is `Flush`;
  - the rendezvous on `c` is `Finish`;
  - the select's signal and a writer panic are `Panic`.

  It rests on the invariant `LifeInv`, which was checked with TLC on `MCMain.cfg` (205k states) before it was proved:
  - the shutdown goroutine exists only after the loop;
  - `sigWriter` is closed only by the shutdown's `wfile.Stop`, so goWriter exits while exactly two components have stopped;
  - `wfile.Stop` returns only after goWriter exited;
  - lines reach the writer only after every constructor has succeeded, so a writer panic falls in a running process.

  `LifeInvStep` proves it inductive. `Phase` is an IF chain in priority order, and `PhaseLive` reads it off `mpc` in a live process.
- **Channels.** `ChannelLemmas` proves that a send below the capacity and a receive from a non-empty channel keep a channel a bounded sequence.

The following are checked by TLC only:

- Liveness (`StopCompletes`, `UpdateReturns`, `InterruptExits`), because the prover does not handle ENABLED and fairness.
- The action properties of the violation runs. `NoIndexWriteDuringStopRange`, `RestoreRecoversLastSave` and `AttemptsCount` are all violated by the code, so there is nothing to prove. The action properties of the passing runs, `LinesStable` and the refinements `ImplementsPeerIndex`, `ImplementsNodeTable` and `ImplementsLifecycle`, are proved.
- `NoSilentLoss`. What a recursive definition computes (the flattened file contents) needs induction over the data, and the provers cannot instantiate the library's induction theorems. Its per-file half is proved as `LinesStable`: no written item is ever overwritten or truncated away. Its unordered half is proved as `NoLineDropped`: no accepted line leaves the files and the queue unless it was logged. What remains unproved is the order and the multiplicity of the lines, because they are stated with the flattened files.

## 5. Findings

Each violation run above is a disagreement between the code and the spec or the code's own comments. Details are in `PROJECT.json` under "findings". The outright bugs with a run are the peers that outlive Stop (`manager_stop_leak`) and the loss of lines when two rotations share a second (`writer_same_second`).

The following defects were found while modelling but are not given a run of their own. They are listed as hazards.

- **Nil-error panic.** `handleListener` (`src/unnamed/part_000:251`) calls `err.Error()` before testing `err`, so the first successful accept panics. The model keeps this panic: `Accept` ends the process with `panicked = "nil_error"`.
- **Double close on restart.** A restarted manager's Stop closes `sigConn` a second time (`part_000:105`). A restarted repository's Stop closes `sigSave` a second time (`util.go:279`); the run `repo_safety` reaches that panic. Both are latent, because `main` builds and stops each component once.
- **MinUint32** (`src/all/util.go:78`) is documented to return the smaller argument and returns the larger. Its comment says it negotiates the protocol version with new peers, whose code is not under `src/`.
- **Signals during shutdown.** Any signal during shutdown, a SIGHUP included, makes `main` panic (`pbtc.go:296`). A SIGINT delivered while a SIGHUP is still in `sigc` is dropped (`pbtc.go:131`). The model has both; no property tells them from a correct shutdown.
- **FileWriter panic on a nil file.** `NewFileWriter` ignores a failed first `os.Create` and returns no error. The first line then panics in `checkSize` on the `Stat` of the nil file (`writer_file.go:172`, against spec 6).

## 6. Hazards

`PROJECT.json` "hazards" lists the hazards of this code that tests hardly reach:

- orderings of the handlePeers select;
- Stop racing the handlers;
- the blocking `peer.Stop`;
- truncate-then-write persistence;
- the unsynchronised counter and map accesses;
- the handler that returns instead of continuing;
- in the file writer: same-second rotation, the stop/queue race in the select, and partial failures inside rotation and compression.

Two of them, Go map data races on single reads, are not represented: every map access is atomic in the model.

## 7. Not modelled yet, and plan

- **FileWriter**: the `.out` writer and file are never closed. With a buffering compressor (LZ4), the tail of each compressed file is therefore never flushed. The compressor is modelled as a copy, so this is not represented. Also, `filePath` is concatenated without a separator.
- **Address record** (`src/recorder/record_address.go`): `Bytes()` is a sequential encoding whose length spec 8.9 fixes at `47 + 30*N`. The 30-byte entry encoder and `ParseCommand` are not under `src/`.
- **The first `main`** of `pbtc.go` (lines 20-107), an older version of the same program, is not modelled.
- **Composition**: Manager and Repository together through `Get`/`Attempt`, so that the manager's dial keys come from the repository's index. `Get` and `Connected` of the repository (`util.go:325-375`) are not modelled, because the manager model abstracts `Get` to any key.
- **Out of scope**:
  - the supervisor and configuration (sequential set-up);
  - `FindLocalIPs` (interface enumeration, a constant `LocalIP` here);
  - `GetDefaultPort` (a constant table);
  - logging;
  - the wire codec, which lives outside `src/`.
