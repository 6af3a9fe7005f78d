# TrainPool: a TLA+ development

TrainPool pools the RAM of the machines of a LAN so that a PyTorch job can keep
tensors that do not fit its GPU in the memory of other nodes. Every machine runs
a Rust daemon; a Python SDK in the training process moves tensors between GPU
and the pool. This directory models what happens to a block of RAM between its
allocation and its release, what RAM a daemon admits, how a chunk crosses the
network over UDP and over TCP, who leads and what becomes of a job when that
changes, and how the SDK keeps its tensors. `PROJECT.json` maps every definition
to the lines it stands for.

## 1. The system

| Component | State | Operations | Talks to |
|---|---|---|---|
| RAM blocks (`memory/local_ram.rs`, `block.rs`) | per node: map id -> `Arc<Mutex<RamBlock>>` (handle, bytes, hash, written, published, reservation) | allocate, get, free, inventory, expire | accounting; every handler |
| Residency table (`memory/residency.rs`) | leader: id -> newest handle; an entry with expiry 0 is a tombstone | register, lose_node | control handlers, membership exchange |
| Control handlers (`runtime/control.rs`) | none of their own | Allocate, AllocateLocal, Resolve, Register, Publish, Commit, Renew, Free, Migrate, ReserveStaging, ... | leader and owner daemons over TCP |
| Migration (`memory/migration.rs`) | the source block's lock, held over the whole copy | copy, commit, compare-and-set at the leader, publish, release the source; discard on failure | source, destination, leader |
| RAM accounting (`memory/allocator.rs`, `node/memory.rs`) | atomics: owned, budget, per-job owned | reserve, reserve_payload, drop, refresh of the budget | every buffer |
| Membership (`cluster/*`, `runtime/monitor.rs`) | peers with incarnation and capabilities, leader and epoch | accept_peer, expire, elect, exchange of inventories, relieve_pressure | all daemons, every 2 s |
| UDP data plane (`transport/udp.rs`, `runtime/udp.rs`) | sender: window, acknowledged packets, retries; receiver: incoming, finishing, completed | START, DATA, FIN, ABORT, ReadRequest | two daemons |
| TCP data plane (`runtime/data.rs`) | connection pool | WriteChunk, ReadChunk, relays | two daemons |
| Scheduler (`scheduler/*`), jobs (`jobs/mod.rs`) | job plan and failure | rank, plan, fail, lose_compute | leader |
| SDK (`python/trainpool_torch`) | tensors resident on the GPU or backed by blocks | offload, restore, free, prefetch, optimizer step | local daemon |

What is hard here. Handlers are tokio tasks on several threads: they hold locks
one at a time and act on values read before an await (`Free` on the owner it
resolved, `AllocateLocal` on the headroom it saw). A request has a deadline
after which its handler is dropped at whatever await it stands, while requests
it has sent still execute. A daemon may restart between any two steps. Datagrams
are lost, repeated and reordered. The properties aim at these: see `hazards`
in `PROJECT.json`, each at the line where it bites.

What makes each component correct: a block's Ready entry is backed by a copy and
never by two (residency, migration); a freed block stays freed; memory in use is
accounted for and admission respects the budget (accounting); a transfer that
reports success has stored its chunk exactly once, and every transfer ends (UDP);
chunk operations that share connections keep their answers apart (TCP); views
of the leader agree again after an outage, and neither a job nor a block suffers
a change of leader unnoticed (leadership); no failure loses a weight, and what
is resident is counted exactly (SDK).

## 2. Modules

```
ChunkTransfer                     what the data plane promises for one chunk
   ^ implemented by
   +-- UdpWrite   (with UdpSender)        UdpWriteProofs, MCUdpWrite
   +-- UdpRead    (with UdpSender)        UdpReadProofs, MCUdpRead
   +-- TcpChunk                           TcpChunkProofs, MCTcpChunk
BlockResidency                            BlockResidencyProofs, MCBlockResidency
   +-- Failover   (a change of leader)    FailoverProofs, MCFailover
Leadership                                LeadershipProofs, MCLeadership
RamAccounting                             RamAccountingProofs, MCRamAccounting
TensorStore                               TensorStoreProofs, MCTensorStore
```

### BlockResidency

One block, the daemons that may hold it, the leader's entry for it and the
membership exchange. Blocks meet only in the accounting, so one is enough.
`obj` holds the `RamBlock` objects, named after the call that made them: the
name is the identity of the `Arc`, which is what a handler that waits for a lock
holds on to while the map moves on. `call` holds the requests: in flight, then
pinned to an `Arc` (`Arrive`, `LocalRam.get`), then executed under the block's
lock (`WriteChunks`, `Commit`, `Renew`, `Publish`, `FreeCheck`). Where the code
takes the map's lock a second time (`LocalRam.free`) there is a second step
(`Unmap`). A caller that gives up sets `live = FALSE` and leaves its request
behind, which may execute late (`Abandon`, `DropStray`); `RpcError` is a request
that fails or is lost. `Restart` clears a node's objects and the handlers it ran.
`Exchange`, `AcceptPeer`, `ExpirePeer` and `RefreshCapabilities` are the
membership's effects on the table; inventories travel in `gossip` and may be
stale on arrival, and so may the answer that Allocate stores
(`RefreshCapabilities`). Leases are the ticks they still have to run; `Tick` ages all.
A migration is one call that walks through `LockSource`, `AllocateLocal`,
`WriteChunks`, `Commit`, `CompareAndSet`, `Publish`, `DropSource`.

`lapsed` and `crossed` are history variables. `crossed` records that a request
found by id alone has met another copy than the one it was issued for, which
the code permits (findings below); the properties that then fail are stated for
the behaviours where it has not happened.

### RamAccounting

The counters of one daemon, one step per atomic access: a reservation loads
`owned`, loads `budget`, and compares-and-exchanges; a payload then charges its
job; `Drop` credits the job and then the node. `RefreshRead`/`RefreshStore` are
`refresh_memory`, which reads the owned bytes before it samples the system. The
tasks are payload blocks with the handlers that pin them, staging buffers of the
SDK and relay buffers: the buffers the code reserves. The copy of a chunk that a
UDP read sends from (`runtime/udp.rs:374`) has no reservation, only a read slot,
and is not among them. Peaks only feed metrics and are left out.

### ChunkTransfer, UdpSender, UdpWrite, UdpRead

`UdpSender` has no state of its own: its operators give the sender record that follows a
datagram or a timeout, and what is then on the wire (`send_payload_inner`).
`UdpWrite` puts it against the receiving daemon. The network is two growing sets,
so a datagram arrives at any time, any number of times or never. The receiver
runs a task per datagram or batch; `incoming`, `finishing` and `completed`
are three mutexes, so a task is one step per lock, and tasks interleave.
Encoding, authentication and checksums are data: a datagram is its kind, its
sequence number and its bitmap. Pacing and the round-trip estimate only decide
when a timeout comes, which is open.

`UdpRead` puts the same sender on the owner's side: `ReadRequest` takes one of
`udp_max_sessions` slots and starts a sender on a socket of its own, the reader
follows the first START that reaches it (`FollowStart`) and from then on hears
only that socket. A request is repeated until a START comes, so several
senders of one read run at the same time (`Socket`); each gives its slot back
when it ends (`EndRead`, and `EndOther` for reads of other peers).

`ChunkTransfer` is the abstract specification: a chunk is delivered at most once,
success is reported only after that, and something is always reported. Delivery
is the copy into the block for a write, the reader's last packet for a read.

### TcpChunk

Chunks of one block over the pool of TCP connections. A connection is two queues
of frames, one handler at the owner and at most one operation at the relaying
daemon; the frames carry the task that caused them, which the code's do not: it
is what `OwnAnswers` compares. `Cancel` is everything that drops an operation's
future (its client, its deadline, an error), `ServerDeadline` the owner's 120
seconds, which cover a connection however busy it is, `Vanish` a machine that
stops without closing anything. `TakePayload` writes into the block under its
lock; a payload that breaks off ruins the chunk's bytes and is not counted.

### Leadership

Every daemon's view of the membership, the election it holds on it, exchanges
(request, answer, acceptance, each of them lost or late), expiry, restarts, links
that fail, and one job with its requests. A node is its rank in the order of
election; a generation is the node and a count, where the code draws a Uuid.
`AcceptPeer` and `Expire` hold the membership lock from the election before to
the rotation after (`Rotated`), so they are single steps. A request is one step
between two awaits: `Plan` reads the view and releases it, `EnterJob` puts the job
into the table; Allocate looks the job up (`CheckJob`), asks the compute node for
its capabilities (`AskCompute`), stores the answer, which may be old by then and
without that rotation (`StoreCapabilities`), ranks the members (`RankMembers`) and
reads its leadership again (`ReadLeadership`). `job.missed` is history: the
leader has taken another process of the compute node into its view at a moment
when `lose_compute` could not reach the job.

### Failover

`BlockResidency` with one change of leader. The heir's table is filled by the
inventories of its own exchanges (`HeirHears`); at `TakeOver` it becomes the
leader's. Every request carries the term it was issued under (`Issued`), and
whoever is to execute it compares that with its own on arrival (`Admit`,
`Valid`), which each owner learns on its own (`Learn`). `Heir` may be one of the
owners. `accept_peer` refuses a daemon's own id (`monitor.rs:49`): the heir hears
the inventories of the others only, before it leads and after
(`LeaderIsHeir`).

### TensorStore

The SDK's table of tensors: for each handle whether its value is in VRAM, whether it
is dirty, and the list of its blocks, each with the part of the value it holds,
whether the renewal has replaced its dict, and (history) whether the undo of its own
write left it on the list because of that (`stray`). The threads are the training
thread, the renewal and the prefetch worker. An operation is a few steps: room, the
eviction of victims, each block written, the undo of a failed write, the read, the
promotion. `StartStep` to `StepRelease` are the optimizer's transaction on one
weight. What the policy prefers and whether CUDA has room is open, and every call to
the pool may fail. A job starts with its weights offloaded, so the pool is assumed
to have had room for them (`ConstantsAssumption`).

## 3. Runs

Bounds, each named in the module: `MaxInc` (incarnations), `MaxGossip` and
`MaxExchanges` (exchanges in flight), `MaxCuts` (failures of a link), `MaxPins`
(handlers holding one block), `Conn` (connections ever opened), `Tensor`
and `Id` (handles and blocks at a time); everything else is finite by the
constants. Symmetry is used for safety only.

| Run | Checks | Instance |
|---|---|---|
| ResidencyRivals | TypeOK, TableBacked, PublishedUnique, DiscardsOwnCopy | 3 nodes, two migrations of one block; three nodes so that two rivals can have two destinations |
| ResidencyRestart | TableBacked, OnlyCasPublishes, TableForward | 2 nodes, 2 incarnations, one exchange in flight, one migration |
| ResidencyFree | FreeReleases | 1 node, a renewal and a free, a restart, a stale inventory; no migration |
| ResidencyReclaim | TableBacked, Reclaimed | 2 nodes, one migration, a renewal, a lease no longer than the deadline so that it runs out under the migration; fair |
| Failover | CopySurvives | 2 owners, one of them the heir, one migration, one exchange in flight, a change of leader at any step |
| LeaderViews | TypeOK, ActiveJobContinuous, Converges, ComputeLossNoticed | 2 daemons with 2 incarnations each, a link that fails once, one exchange in flight; fair. Two daemons are enough for two leaders; a third adds only intermediaries, which the exchange does not have |
| RamAdmission | TypeOK, Covered, UnderSample, JobWithinNode, Drained | a block, a staging and a relay buffer of which no two fit together, a budget that changes; fair. More tasks are covered by the theorems |
| UdpRepeat | TypeOK, AcksTruthful, WrittenOnce, DoneIsStored, IsTransfer, FinishingEnds | 1 packet, 2 concurrent tasks, 2 retries, expiry and eviction; fair. The races are about the transfer's entries, for which one packet is enough; several windows are in UdpReads and in the theorems |
| UdpReads | TypeOK, AckedIsHeld, DoneIsRead, SlotsReturn, IsTransfer | 3 packets in two windows and two bitmaps, 2 senders of one read, 2 slots; fair |
| TcpPool | TypeOK, OwnAnswers, CountedIntact, LockReturns, IsTransfer | 2 writers of 2 chunks with 2 transfer ids, a reader, 2 connections of which the pool keeps 1; fair |
| StoreFaults | TypeOK, WeightDurable, ExactOwnership, ListedLive | 3 handles of 2 blocks each, one weight, room for one resident, 4 blocks in the pool so that it also runs out; no prefetch |
| StoreEviction | ExactOwnership, expected to fail | the same with the prefetch worker, two weights and one block per tensor |

What they show: whatever is lost, late or repeated, a migration gives up its
source only after the table has moved on, at most one copy of a generation is
published, the table never goes back, leftovers are reclaimed, and a block
survives the death of the leader in the middle of a migration, to be found again
unless the heir holds it itself; concurrent admissions stay under a sampled
budget, and blocks and relays are charged as long as they are used;
a chunk whose transfer reports success was delivered exactly once, over UDP in
either direction and over TCP; shared connections never mix answers up; after
an outage all daemons agree on the leader again, and a job that is still active
has had one leader; no failure in the SDK loses a weight, and no block that the
SDK released stays on a list but those of a failed write, before its undo or
because the undo did not recognise them.

TcpPool and StoreFaults switch the deadlock check off, since a daemon's machine
may vanish and a training job may fail for good.

`CopyFound` and `CopySurvives` are stated for blocks whose lease has not run out:
after a change of leader the table may for a while name a copy that is gone
(`TableBacked` is not claimed), until inventories correct it, and two copies of one
generation may exist when the dead leader's compare-and-set was not known to the
heir; both hold the same bytes. They are also statements about blocks that no
request of another copy has touched (`~crossed`). With two migrations and a renewal
in the configuration both fail, with or without a change of leader: a renewal that
resolved the source arrives at a node where the second migration is building its
destination, renews and registers that generation (the case of `OnlyCasPublishes`
below), the migration then fails and discards its copy, and the table turns the
source's older generation down.

`CopyFound` needs an heir that does not own the copy. A daemon that takes over has
none of its own blocks in its table and refuses its own inventory
(`monitor.rs:49-52`), so its copy is intact, would not be turned down and is never
listed: `Resolve` answers `TRAINPOOL_DATA_LOST` for a block whose bytes are there,
until its lease runs out. In a cluster of two daemons the heir is the only surviving
owner. The run checks `CopySurvives`, which exempts the heir's own copy, in that
cluster; Failover with `CopyFound` in its place shows the failure, and with `Heir =
h` (and `SYMMETRY Symmetric`) `CopyFound` passes.

`ComputeLossNoticed` says that the job of a restarted compute node does not stay
active, except where the restart escapes `lose_compute`. It does escape, in two
ways. `Plan` chooses the compute node under the membership lock, releases it and
waits for the jobs' lock (`control.rs:161-162`): a new incarnation that is accepted
in between finds no job to fail, and the job is entered with no error. And Allocate
stores the capabilities of a restarted compute node without comparing incarnations
(`control.rs:235`), after which the next exchange sees no change. Either way the job
stays active with a compute node that no longer knows of it: `ComputeLossFails` in
the table below.

**StoreEviction**: `ensure_cuda_capacity` chooses and spills its victims without
the table lock (`store.py:325`). The prefetch worker does this while the
training thread frees a saved input of the stage it has finished: both subtract
its size, and `_resident_bytes` is then less than what is resident, where
`docs/research-notes.md:68` calls the number exact. Two threads that evict the
same victim end the same way.

Further statements of the documents that the code does not meet are kept in the
modules under "Not met by the code". Each fails when it is listed in place of
the properties of a configuration with the changes given here (two-line edits of
a `.cfg`):

| Statement | Where | What happens |
|---|---|---|
| FreedUnresolvable | ResidencyFree with two nodes, `Compute` the same, `Release = {free1}`, `Migration = {mig1}`, no renewal, `MaxInc = 1`, `MaxGossip = 0` | a free that resolved before a migration's compare-and-set registers a tombstone of the old generation, which `ResidencyTable::register` drops; the block still resolves (`control.rs:467`; `docs/protocol.md:91`: "release a block") |
| OnlyCasPublishes | ResidencyReclaim with `Spec`, `Compute = {n1, n2}` and two migrations | a renewal meets a destination under construction and registers it (`control.rs:443`); the comment at `control.rs:411` says "A migrated destination is published only by the source's CAS." |
| RestartInvalidates | ResidencyFree with `FairSpec`, no renewal and no free | the leader learns a new incarnation in Allocate and never declares the old one's block lost (`control.rs:235`); `docs/memory-model.md:125`: "Disappearing/restarted owners invalidate single-copy blocks." |
| HeadroomLeft | RamAdmission with two payloads only, `Ceiling = 6`, `Total = 10`, `Reserve = 2`, `ChunkBytes = 1`, `AppLevels = {0}`, `MaxPins = 0` | two allocations pass the headroom check before either reserves (`control.rs:309`); `docs/memory-model.md:44`: "New payload allocations leave at least 256 KiB free for relays." |
| LateDataAcked | UdpRepeat with `Packets = 2` and `Sweeps = FALSE` | a late packet reads the three maps while FIN moves the transfer through them, finds it nowhere and is answered with an error (`runtime/udp.rs:553`), against the comment at `runtime/udp.rs:525-528` |
| GrantedUnderPlan | LeaderViews with `Spec`, `MaxInc = 1`, `MaxCuts = 0` | Allocate compares the job's epoch, awaits the compute node's capabilities and reads the leadership again: a leader that changed meanwhile is sent to the owners, which agree with it, and the block is granted under another generation than the plan's; `docs/architecture.md:59-60`: "Active jobs are invalidated by a leader-generation change" |
| ComputeLossFails | LeaderViews with `MaxCuts = 0` | the compute node's new incarnation is accepted while `Plan` waits for the jobs' lock (`control.rs:162`), or stored by Allocate (`control.rs:235`), and the job stays active; `README.md:346-347`: "Node loss can lose data and fails affected jobs" |
| WeightReadable | StoreFaults | a spill of several blocks fails after the renewal has replaced the dicts of those already written; `block not in new_blocks` (`store.py:469`) does not recognise them, the freed blocks stay listed in front of what the next spill appends, and `restore` fails. A forward that fails does not end the job, so that it can get there; the next renewal gives up (`_lease_error`). These are the blocks that `ListedLive` exempts |

More places where the code differs from its documents, or surprises:

* A migration's discard is a direct `Free` that carries only id and token
  (`memory/migration.rs:100`). A late one can remove the destination that another
  migration has built on that node, where `docs/protocol.md:155` calls the discard
  safe. `DiscardsOwnCopy` is proved for migrations that end before the lease of
  their destination does (`DiscardsOwn`, which says while what else): by default a
  lease lasts 300 seconds and a request 120, but `config/mod.rs:126` allows leases
  from 10 seconds on. When the destination has expired meanwhile and renewals keep
  the block alive for a second migration to the same node, it fails.
* `ResidencyTable::register` ignores a registration that meets a tombstone without
  telling its caller (`memory/residency.rs:12`): two migrations of one generation
  that reach the table after a `Free` are both answered as if their
  compare-and-set had won, and both publish. `PublishedUnique` is therefore
  proved for blocks that have not been freed (`OneCopyPublished`); a freed block's
  second copy does not resolve and goes with its lease.
* `refresh_memory` reads the owned bytes before it samples the system
  (`runtime/monitor.rs:37`): an allocation in between shrinks the budget until the
  next sample, where `docs/memory-model.md:23-24` says it does not.
* The round that completes a window counts against the retries
  (`transport/udp.rs:592`): a transfer whose last allowed retransmission is fully
  acknowledged still gives up; START and FIN succeed with that attempt.
* A read sends its StartAck and its COMPLETE once (`transport/udp.rs:661`, `:736`).
  When COMPLETE is lost the owner's sender counts a failed transfer although the
  reader has its bytes; when StartAck is lost the read fails though START is
  repeated. For COMPLETE, `docs/protocol.md:46-47` promises that "a retransmitted
  FIN after a dropped final ACK is idempotent", which is true of writes only.
* A read's own repeated requests take further slots (`runtime/udp.rs:364`) and can
  refuse other reads until their senders time out.
* The path on which the relaying daemon owns the block itself
  (`runtime/data.rs:129-144`) does not compare the transfer id, the direct path
  does.
* `serve` awaits the UDP permits inside its select loop (`runtime/mod.rs:200`):
  while 256 datagrams are being handled, no TCP connection is accepted.
* `active_transfer_sessions` is raised after the task that lowers it was
  spawned (`runtime/udp.rs:409`, `:418`); a task that ends first leaves it one too high.
* A prefetch of a handle that the training thread is spilling fails with "Tensor
  upload is not complete" instead of waiting.

**Fairness.** Liveness runs assume only what the runtime provides: tokio
schedules its tasks, timers and connection deadlines fire, the monitor sweeps
and exchanges every two seconds, clocks advance. tokio's mutexes are first come,
first served, which is the strong fairness of the lock steps in
`RamAccounting`. Nothing is assumed of clients, of the network, or of the leader
starting a migration. The liveness of UDP transfers uses the sides' own timers
only, not that anything arrives. `Converges` is conditional on the links
staying up; exchanges may still fail one by one, but not for ever.

## 4. Proofs

Proved with TLAPS for every value of the constants that the modules' `ASSUME`s
allow.

* `BlockResidencyProofs`: `TypeCorrect` (`Spec => []TypeOK`) and `NeverBack`
  (`Spec => TableForward`), `OneCopyPublished`, `CasAlonePublishes`, `FreedGone`,
  `TableTrue` and `DiscardsOwn`.
  `TypeOK` is not inductive: a handle is read from the
  object a call has pinned, so the object must still exist after a restart.
  The strengthening `Refs` says that mapped and pinned objects and migration
  sources exist, that a live migration past its start has a source, that a call
  only takes the steps of its kind, that calls and inventories under way name an
  owner, and that an allocation carries no tombstone. There is one lemma
  per action. `NeverBack` follows from `Refs` and `RegisteredForward`, the fact
  about `ResidencyTable::register` alone.
  `OneCopyPublished` (`~Tombstoned => PublishedUnique`) rests on `Lineage`: only
  the original has generation 0 and a migration allocates a later one
  (`Generations`); unless the block is freed, no published copy is newer than the
  table, and a migration past its compare-and-set is alone in its generation
  with neither a rival at that point nor a published copy (`CasUnique`).
  `CasAlonePublishes` (`RenewalsIdle => OnlyCasPublishes`) follows the inventories
  and requests that could carry an unpublished handle to the table, of which
  there are none until a renewal meets a destination (`HandlesCalm`).
  `FreedGone` (`FreeReleases`) is for blocks that do not migrate, as in the run:
  `Alone` says that there is one copy at most (`OneCopy`), that every handle
  in a request, an inventory or the table names its node (`HandlesHome`), that
  nothing knows the block before it is allocated (`Unborn`), and that a free
  reaches the table only after the copy has left the map (`Freeing`).
  `TableTrue` (`TableBacked`) needs to know of every copy of the table's generation
  who may still take it away. Its invariant `Kept(n, i)` says that some
  incarnation `i` of a node `n` is the only one that any handle or published
  copy of the table's generation names (`Agrees`), that each such handle, in
  the table, in an inventory or in a request, is backed by a copy in that node's
  map and promises no more than that copy keeps (`Backed`), that the table does not
  name a destination that may still be discarded (`Private`), that a migration
  gives up only a source the table has left behind (`Left`), and that a destination
  newer than the table is still in its map when its compare-and-set arrives (`Held`).
  A compare-and-set that succeeds is the one step that changes `n` and `i`.
  The invariant is kept only while no request has acted on another's copy, no
  entry was seen expired and no Free was sent (`Undisturbed`), which are
  the conditions of `TableBacked` itself; none of them comes back once it is lost,
  so the induction may assume them before each step.
  `DiscardsOwn` adds `Own`: a migration's age and the lease of its destination add
  up to a whole lease (`Fresh`), so that with `Deadline < Lease` the destination cannot
  expire, and stays in its map, as long as the migration may discard it; a
  source that is still the table's copy is in its map (`Reads`); the migration holds its
  source's lock until it frees it (`Holds`) and nobody else frees that source
  (`Parted`).
* `FailoverProofs`: `BlockSurvives` (`~crossed => CopySurvives`), for any heir, and
  `BlockFound` (`~crossed => CopyFound`), for an heir that is no owner (`Heir \notin
  Node`), where the two properties coincide. They are about two tables that were
  filled from different inventories, so `Kept` does not help. Its invariant `Right`
  asks less of a table: what the leader's, the heir's or an inventory names is
  `Known`, that is, of generation 0, or no newer than a committed copy that its
  owner publishes (`Carried`), or the very copy that a migration has committed and
  will not discard any more (`Sound`). Such a copy leaves its map only when a
  published successor stays in one (`SourceSpent`). For that, a migration that gives
  up its source has published its destination (`Built`), which is one generation
  after the source; the migration that made the source was not issued under a later
  term (`Sourced`); and a compare-and-set that the leader of its term would let
  succeed still finds its copy in the map, while one that has succeeded has left the
  source behind in the table of its own term (`Answered`). What the dead leader let
  succeed says nothing of the heir's table and is not asked to: `Answered` speaks of
  the current term only, and the term in each request (`validate_leadership`) keeps
  the two apart, also for an AllocateLocal that an owner validated before it learned
  of the change (`AdmittedOK`). `Right` holds while no lease has run out, no node
  has restarted, no Free was sent and no request has acted on another's copy
  (`Unbroken`); none of these is mended once it is broken, so that each step may
  assume them.
* `RamAccountingProofs`: `TypeCorrect`, `WithinSample`, `JobBelowNode`,
  `UseAccounted`. The inductive invariant `Inv` equates the counters with the
  tasks: `owned` is exactly the bytes of the tasks between their exchange and
  their release, `jobOwned` those of the payloads between `JobAdd` and `DropJob`
  (`Charges`); a value that is about to be exchanged was checked against a budget
  that was sampled. Sums are products of cardinalities, so the argument
  needs no induction over data.
* `UdpWriteProofs`: `TypeCorrect`, `CopiedOnce`, `SuccessStored`, `AcksHonest`
  and the refinement `WriteTransfers` (`Spec => Transfer!Spec`), for any chunk,
  windows, bitmap size and retry bound and any number of tasks.
  None of the properties is inductive. `Inv` follows the COMPLETE backwards:
  it is sent only from the completed entry or a task past its copy, both of which
  imply that the one copy took the whole chunk, and a block still open has taken
  none. For the acknowledgements it also speaks of the datagrams under way: the
  bits of every Ack are held in the session, by a finishing task or in the block
  (`Held`), the finishing mark means that all of them are, and nothing leaves
  `Held` while the sender is sending, because FIN and ABORT only come from a
  sender that has its data behind it (`RequestFine`). A Nack can no
  longer be mistaken by the sender for that same reason (`ReplyFine`).
  `WriteTransfers` maps the phase of the sender to the outcome and the number of
  copies to the deliveries; a copy is the only step that is a `Deliver`, and the
  sender's last step is a `Succeed` because of `SuccessStored`'s invariant.
  Both directions need the same facts about the operators of `UdpSender`, which open
  `UdpWriteProofs` and `UdpReadProofs`, each over its own specification: they keep the
  sender's type, the sender never returns from FIN to its data, sends FIN in that
  phase and ABORT after the end only, succeeds on nothing but a COMPLETE, and
  counts as acknowledged only what an Ack or a Nack says. `Least` obtains the
  smallest missing packet from the well-foundedness of `<`.
* `UdpReadProofs`: `TypeCorrect`, `AcksHonest` (`AckedIsHeld`), `SuccessRead`
  (`DoneIsRead`), `SlotsCounted` and the refinement `ReadTransfers`, for any number
  of senders of one read. The reader follows one of them, and `RepliesFine`
  says of every datagram ever sent to a sender that it went to that one and
  is still true: an Ack's bits are held, a COMPLETE means that all are. `ReaderFine`
  ties what the reader holds to its progress. `SlotsCounted` shows that
  the slots in use are exactly the senders and the other reads under way
  (`SlotsExact`), so no repeated request and no early end takes or gives back one twice.
* `TcpChunkProofs`: `TypeCorrect`, `AnswersAreOwn` (`OwnAnswers`),
  `CountedBytesIntact` (`CountedIntact`) and the refinement `ImplementsTransfer`,
  for any number of operations, connections and chunks. The heart is
  `Conversations`: the frames on a connection are a function of where its one
  operation and its one handler stand, so a connection that goes back to the pool
  is empty in both directions. `Holding` says that an operation has its
  connection to itself and that the block's lock has one holder, `AskedOnce` that a
  request is pending on one connection at most and is executed at most once.
* `LeadershipProofs`: `TypeCorrect` and `ActiveJobOneLeader`
  (`ActiveJobContinuous`), for any number of daemons, outages and restarts. The
  invariant is about generations: no daemon has a later one than it has drawn, and a
  leader that was deposed after it planned the job and leads again has drawn a
  later one than the job's (`JobDated`), so the comparison in the job's requests
  cannot mistake the one for the other. `Shapes`, `ViewsReal` and `ReqPlaced` supply
  the types of the job and of its request, and that an exchange carries a real
  incarnation.
* `TensorStoreProofs`: `TypeCorrect`, `CounterExact` (`ExactOwnership`),
  `WeightsSurvive` (`WeightDurable`) and `RenewalFindsBlocks` (`ListedLive`),
  for any number of tensors, parts and blocks, under `Spec`, in which the prefetch
  worker does not run (with it `ExactOwnership` fails, see StoreEviction).
  The argument has two layers. `Ctl` is about threads and counters: which thread
  is where (`Workers`, `Control`), which tensors it may act on (`Own`), that victims are
  enough for the room they are to make (`Room`), that the counter is the number of
  resident tensors at every step (`Counting`), and the optimizer's transaction
  (`Transaction`). `Blk` is about the lists of blocks: two tensors share none
  (`Apart`), those a write has appended are the last of the list and the undo will
  recognise them unless they were renewed (`Writing`, `Recognised`), so that a
  listed block is live, about to be taken off, or left there by an undo that did
  not recognise it (`ListedLive`);
  on top of that the values: unless a renewal has failed, a weight is in VRAM or
  all of its parts are in live blocks (`WeightDurable`), and so is the new
  value that the optimizer is about to swap in (`Published`). The undo of a failed
  spill filters a list by a set (`Without`); what remains is proved without induction
  over data, from a smallest counterexample among the finite subsets of the indices.

Nothing is assumed of the constants beyond what the modules' `ASSUME`s say, and TLC
evaluates those in every run.

Only model-checked:

* All liveness: `Reclaimed`, `Drained`, `FinishingEnds`, `SlotsReturn`,
  `LockReturns`, `Converges`, `ComputeLossNoticed` and the fairness part of
  `IsTransfer`. Liveness under fairness and `ENABLED` are beyond this version of the
  prover. The three refinement theorems are about the safety of `ChunkTransfer`.

Induction over data is beyond it too, so modules with theorems contain no
recursive operator; where a least or greatest element is enough, it is taken from
the library's well-foundedness of `<` and of strict inclusion of finite sets.

## 5. Not modelled

* Discovery of addresses: any two daemons with a working link may exchange.
* The order of preference among owners and GPUs and the link estimates: any
  admissible choice is explored, so no property depends on them.
* Pressure relief over several blocks: one block is picked or not.
* Reservations of several UDP sessions at once, and their interplay with the
  budget; one transfer is followed.
* The SDK's eviction policy, activations and graph execution; close.
* Encodings, digests of the authentication, metrics, benchmarks, configuration,
  command line, launcher, socket batching, hardware detection: data or I/O
  without state that the properties tell apart.

## 6. Plan

1. Done: all the modules of section 2 with their runs; theorems for the safety
   properties of `RamAccounting`, `UdpWrite`, `UdpRead`, `TcpChunk`,
   `Leadership`, `TensorStore`, `BlockResidency` and `Failover`; three refinements.
2. Left to model: pressure relief over several blocks and `rank_ram` as an operator
   against a reference definition.
