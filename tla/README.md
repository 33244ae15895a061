# A TLA+ verification of file-server

The repository holds two generations of a file server: a C++ one (console client,
gateway, RPC services, MySQL pool, thread pool, binary protocol, shared storage
directory) and a distributed mode in Python (`distributed/`: metadata service, storage
nodes, gateway, background workers over MySQL). This directory models them in TLA+,
model-checks the models with TLC on small instances and proves the central invariants
with TLAPS for every value of the constants.

## The system: inventory

### Distributed mode (`src/distributed/`)

| Part | State | Operations |
|---|---|---|
| `metadata.py` (FileService) | the `ds_*` tables | `init`, `prepare`, `confirm`, `complete`, `cancel`, `delete`, `bad_replica`, `heartbeat`; `maintain`, `reconcile`; `claim`, `delete_task`, `repair_task` |
| `worker.py` | one maintenance thread, `repair_workers` task threads | run `maintain` every 2 s, `run_once` every 0.2 s |
| `storage.py` | chunk files of one volume, identity, flock | `put` (needs a ticket), `get`, `stat`, `remove`, `inventory` |
| `gateway.py` | none | upload = prepare, put to every position, confirm; download = locations, get, manifest; `bad_replica` on failure |
| `client.py` | the local file, its checkpoint, the target of a download | `upload` and resume (status, the missing pieces page by page on several threads, complete), `download` (temporary file, fsync, replace, directory sync); three attempts per request |
| `wire.py`, `db.py`, `run.py`, `config.py` | none | one request per connection, 10 s RPC timeout; transactions; heartbeat loop |

Every mutating metadata transaction first locks the single row of `ds_allocator`, so
transactions are serial. RPCs to the nodes run outside the transactions; confirm, delete
and repair each have two transactions with RPCs in between, and the second one must notice
whatever happened meanwhile. Task ownership is a lease with a random token (`fence`).

Hard behaviours: two confirms of one chunk; cancel, delete or expiry between the two
transactions of a confirm or a repair; a worker that outlives its lease or dies; a node
that restarts on the same or on a replacement volume; late heartbeats of a replaced
process; nodes that are almost full; an RPC whose answer is lost but whose effect
happens, or happens later; a node that is killed or loses power between two system calls
of a put; a client that is killed and resumes while the gateway still works on its last
requests.

What makes it correct: the capacity counters equal the charges of the rows; no node is
over-committed; a deleted object never gets a live replica again; a published chunk
never has two repair reservations; valid rows are on the node's current volume and their
files are there; files of deleted objects disappear; lost replicas are repaired; what a
storage node has answered survives a power failure; an object is what the client sent,
and the target of a download is never half a file.

### C++ modes

| Part | State | Operations |
|---|---|---|
| `services/file_service.cc`, `file_service_server.cc`, `storage_service_server.cc` | table `file_info` | `UploadStart`, `UploadData` / `ConfirmUploadChunk`, `UploadFinalize`, `Delete`, `DownloadChunk` |
| `storage/storage_manager.cc` | files under the storage root, no locks | `WriteChunk`, `ReadChunk`, `DeleteFile`, `GetFileSize` |
| `services/user_service.cc`, `database/user_dao.cc` | table `user`, a static random generator | `Register`, `Login`, `VerifyToken` |
| `database/mysql_pool.cc` | idle connections, `total_created_` | `GetConnection`, `ReturnConnection` |
| `threadpool/` | task queue, workers, `running_` | `Submit`, `WorkerLoop`, destructor |
| `gateway/network/`, `gateway/handler/` | sessions; a decoder per address of a connection | accept, disconnect, `OnMessage`, `ProcessTask` |
| `gateway/bin/` | none | handlers of `gateway_main.cc` (microservices) and `server_main.cc` (one process); `CallRpc` with service discovery |
| `client/file_client.cc` | connection, decoder, pending requests | `Connect`, `SendRequest`, `OnMessage`; upload and download loops |
| `protocol/` | buffer of a decoder | `Encode`, `Feed` |
| `rpc/` | pending promises; a decoder per connection; ZooKeeper session | `Call`, `OnMessage`, destructor; `Register`, `Discover` |
| `common/logger.cc`, `client/console_ui.cc` | none | output, menus |

Workers of one process share the tables, the files and the pools. A client has one request
at a time, but gives up after a timeout while its handler goes on, so handlers of the same
client overlap too. Nothing locks a file or a row from one statement to the next.

Hard behaviours: a late handler against the retry of its client; a step that fails after
the chunk was written and before the progress was, and statements whose failure nobody looks
at; deletion in the middle of an upload; a pool whose database goes away, and whose users ask
for a second connection while they hold the first; a destructor racing with submissions; messages that
arrive in pieces, answers that come after the timeout or on another connection, services
that crash while they are registered.

What makes it correct: what `upload_size` says is in the file; a completed file is the
announced one; files are not mixed; accounts and tokens belong to their users; pools
neither lose wakeups nor exceed their size, and every accepted task ends; an answer
reaches the call that asked for it and no other; nothing is executed twice.

## Modules

| Module | Models |
|---|---|
| `Metadata` | `distributed/metadata.py`: tables, handler threads, workers, maintenance |
| `ObjectStore` | abstract: what the distributed mode promises the owner of an object; `Metadata` implements it, `DistributedClient` is built on it |
| `Cluster` | extends `Metadata` by storage nodes, gateway writes, tickets, one step per RPC |
| `MCMetadata`, `MCCluster`, `MCBackground` | instances for TLC: initial states and the parts of Next a run needs; `MCBackground` has the liveness |
| `StorageNode` | `distributed/storage.py` at the level of system calls, with kills and power failures |
| `ChunkStore` | abstract: what a storage node promises; `StorageNode` implements it |
| `DistributedClient` | `distributed/client.py` and the gateway's part of a request |
| `FileStore` | table `file_info`, files, client loops: what both C++ modes share |
| `UploadService`, `UploadServer` | the two modes, both extending `FileStore` |
| `MCUpload` | instantiates both modes over the same variables |
| `UserAuth` | accounts and tokens |
| `Decoder` | `protocol/`: encoding, and the streaming decoder |
| `Requests` | connections, pending requests, worker jobs: what both network paths share |
| `GatewayRequests` | console client and gateway: reconnects, sessions, decoders by address |
| `RpcRequests` | gateway and services: `CallRpc`, `RpcClient`, `RpcServer`, ZooKeeper |
| `MCRequests` | both paths for TLC |
| `MCStores` | `UserAuth`, `StorageNode` and `DistributedClient` for TLC |
| `MysqlPool` | the connection pool |
| `ThreadPool` | the worker pool |
| `ServerProcess`, `MCServerProcess` | both pools composed: tasks that need connections |
| `Metadata_proofs` | types of `Metadata`, its implementation of `ObjectStore`, the accounting, the space of init and repair, and the reservation a repair works on, proved |
| `Cluster_proofs` | `Cluster` implements `Metadata`; files have rows, valid replicas are stored, proved |
| `StorageNode_proofs` | the node's invariants and the implementation of `ChunkStore`, proved |
| `DistributedClient_proofs` | what the command line client tells, sends and leaves on the disk, proved |
| `Upload_proofs` | the uploads of both C++ modes, proved |
| `ServerProcess_proofs` | both pools and the process that is made of them, proved |
| `UserAuth_proofs` | accounts and owners of tokens, proved |
| `Requests_proofs` | the decoder, and both network paths, proved |

### Metadata

One variable per table (`object`, `upload`, `lapsed`, `chunk`, `replica`, `node` with
`reserved` and `used`, `retired` for `ds_instances`, `task`) and one per kind of thread
(`confirm`, `worker`, `maint`: program counter and locals). A transaction is one action,
because of the allocator lock; a request that only reads, or that fails a `require` and
is rolled back, is no step. Each RPC between transactions is an action too:
`ConfirmStat`, `DeleteRemoved`, `RepairFetch`/`Put`/`Stat`, `ReconcileStat`,
`ReconcileInventory`; its result is left open, and failure is `ConfirmAbort`,
`WorkerFail` (the `except` of `run_once`), `WorkerCrash` (the process dies; the claim is
left to its lease) or `ReconcileEnd`.

Time is abstracted to the comparisons the code makes. A heartbeat is fresh, suspect or
dead (`Age`); `expires` has passed (`Lapse`); a lease has passed (`TaskDue`). Each may come
true at any moment, so the model allows every timing, also a lease that ends while its
worker is still working. `ds_nodes.state` is not a variable: a heartbeat sets it together
with the time, `maintain` recomputes it from that time, and every query that reads it also
asks for a fresh heartbeat. A chunk is named by its object and `seq`, a task by its kind,
chunk and node (its unique key), and a claim's random token by its thread, which
forgets it when it claims again. `reserve` is modelled with its arithmetic: `HasRoom` is
the `min(capacity - used - reserved, free - reserved) >= length` of the code and
`Before` its `ORDER BY`; in `init` a chunk's placement sees what earlier chunks of the
same transaction have reserved (`IsPlacement`).

### Cluster

`disk[<<n, v>>]` is the set of chunks on a volume, `serving` the process behind a node's
address, `ticket` the write authorizations in existence (`old` once a removal of the same
file is queued), `late` the removes whose caller has given up, `faults` a count of things
that went wrong. The actions of `Metadata` that stand for RPCs get their result from the
node: `Accepts`/`Written` for put, `Holds` for stat and get, `Erased` for remove. A put is
one step, because the link at its end makes the file visible at once. An RPC may also fail,
lose its answer after taking effect (`AnswerLost`), or take effect later (`RemoveDelayed`,
`LateRemove`).

### StorageNode and ChunkStore

`Cluster` takes a put for one step. `StorageNode` is the justification: every system call
of the start, of `put` and of `remove` is an action (`Put` opens the temporary file,
`Write`, `Fsync`, `Link`, `UnlinkTmp`, `SyncDir`; `Remove`, `Unlink`, `SyncDir`; `Start`,
`Clean`, `SyncDir`; `FirstStart` and the calls that write the identity). The file system is
external: `dir` is the directory as processes see it, `onDisk[n]` the set of entries that a
power failure may leave under the name `n` (all values since the last sync of the
directory), `synced` the files whose data is on the disk; others may come back `Partial`.
`Fails` is a system call with an error, with the clean-up of the code. All requests run
under `capacity_lock` and a second process is kept away by `flock`, hence one operation at a
time.

`ChunkStore` says what callers may rely on. Its `store` is the content behind the chunk
names, its `promise` what was answered last: `put` and `remove` begin by withdrawing the
promise and end by renewing it, and in between, through kills and power failures, only
chunks without a promise may change, and only to another whole content or to nothing.
`KeepsPromises` is the refinement.

### ObjectStore and DistributedClient

`ObjectStore` is the table of states in `docs/distributed.md` made precise: contents of
pieces are decided once, confirmed pieces stay, an object is published when all its pieces
are confirmed, only an unfinished one expires. `KeepsObjects` says that `Metadata`
implements it: `object` and `upload` together give the state, `chunk[c].sha` the content
and `chunk[c].state` the stored pieces.

`DistributedClient` is the command line client over that store. `run` is its process
(`init`, `checkpoint`, `status`, `page`, `send`, `complete`; `download`, `replace`, `sync`),
`part` what its threads are sending. `Client.request` tries three times (`Attempts` in the
runs is 2): `PartLost`, `InitLost` and `CompleteLost` are attempts without an answer, after
which the gateway may still carry the request out, at any time (`AstrayPiece`,
`AstrayComplete`; `astray` keeps only those that may still change something). The process
may end anywhere (`CommandEnds`: an error or a kill), another one resumes with the
checkpoint, and the owner may edit the file meanwhile. A power failure loses the checkpoint
or not (it is not synchronised), and leaves under the name of the target one of the values
it had since the last sync of its directory.

### FileStore, UploadService, UploadServer

A thread is a client together with the handler of its request; `Timeout` moves the
handler to a `Slot`, where it goes on without a client. `call[t].pc` names the next
statement: every SQL statement, file operation and RPC is a step, and `Fail` may end the
request between any two: a process ends, or a step fails whose result is checked. Where the code
ignores a result, the failure is an outcome of the action itself and the handler goes on:
`UploadDataDone`, `FinalizeComplete` and `FinalizeProgress` of the single process (`Unchecked`),
`SoftDelete`, after which the file is removed all the same, and in `WriteChunk` the first open,
which takes an existing file that it cannot open for a missing one, and the second one.
`spoiled` remembers the rows whose file was removed or may be truncated after such a failure; no
step reads it. `WriteChunk` is four steps: the open that finds or does not find the file
(`WriteOpen`), the open that creates or truncates it (`WriteCreate`), the open for writing
(`WriteReopen`), the write. `ConfirmUploadChunk` is the conditional UPDATE and, when it changed
nothing, the query that follows it (`ConfirmReread`). An unlinked file that is still open is kept
apart (`linked`). Sizes count blocks of `kChunkSize`; the content of an
upload is named by its key (name, size, md5), so that `data` shows whose block is where.
The two services are assumed to share `FS_STORAGE_ROOT`, as `Delete` in FileService
removes files that StorageService wrote.

### UserAuth

`DrawBegin` and `DrawEnd` are the read and the write of the unlocked generator's state,
whose numbers are named by the states it goes through; `raced` remembers that two workers
used it at the same time. A lookup that fails looks like an unknown name.

### Decoder, Requests, GatewayRequests, RpcRequests

In `Decoder` a message is three bytes: the magic number, the rest of the header, body and
data. So a piece of the stream may end inside the header, between header and body, or
anywhere; `MagicBody` are kinds of messages whose body looks like a header. `Feed` is the
function of the code: it returns every complete message, and after a bad header or checksum
it drops one byte and waits for the next piece. Its `while` loop is the recursive function `Loop`
of the bytes consumed, one `Round` of which is a call of `TryParseMessage`.

`Requests` has the connections (`link`, each end with its own view), the bytes on their way
in each direction, the client objects with their pending requests, decoder and caller
thread, and the server with its decoders and jobs. Callbacks of an event loop and steps of
the caller thread interleave freely; what the code does under `pending_mutex_` is one step.
`Expire` is the timeout of `future.wait_for`, `Withdraw` the erase that follows it under the
lock: an answer may come in between. `GatewayRequests` adds `FileClient::Connect`, sessions
and the decoders of `BusinessProcessor`, which are found by the address of a connection and
never removed (`stale` remembers connections that got one that was used before).
`RpcRequests` adds `RpcServer` (`RpcAccept`, `RpcDisconnected`, `RpcOnMessage`), instances that start, crash and register, ZooKeeper sessions of both
sides, and the life of an `RpcClient` from `CallRpc` to its destructor. A connection
delivers in order until it breaks; muduo, TCP and ZooKeeper are external.

### MysqlPool, ThreadPool, ServerProcess

`waiting` and `woken` (in ThreadPool `asleep` and `roused`, when composed) are the threads
in a condition variable before and after their notification; a notified thread competes
for the mutex with everybody else and repeats its test. `GetConnection` holds its mutex
during `mysql_ping` and `mysql_real_connect`, so it is one step. `holding` numbers
the connections of a thread, of which it may have up to `Nested`. In `ServerProcess` a worker's
task is a handler, a sequence of methods of the DAOs (`Handlers`, `rest`). A method takes a connection
(`Ask`), waits for it if there is none (`Continue`) and drops it (`Return`); one that gets none is
over, and the handler goes on or answers. `ConfirmUploadChunk` asks for a second connection while it
keeps its own (`Reread`), because it calls `FindById` when its UPDATE has changed nothing.

## Runs

| Run | Instance | Shows |
|---|---|---|
| `metadata_upload` | two uploads of 3 and 1 bytes, chunk size 2, three nodes of capacity 3, expiry, a node that may go silent | `Accounting`, `NoOvercommit`, `ReservationsWait`, `UploadDecidesObject`, `KeepsObjects` (refinement) |
| `metadata_takeover` | a published chunk, four nodes, two workers, bad replicas, deletion | `OneRepairTarget`, `RepairHoldsReservation`, `DeletedRowsStayDown` |
| `cluster_upload` | an upload through the gateway from the start of two nodes, restart on a new volume, late removes | `ValidIsStored`, `FilesHaveRows` |
| `cluster_recovery` | published data, a node that restarts twice, the second time on a new volume; worker and reconcile | `OnCurrentVolume`, `ValidIsStored`, `SpaceInv` (with `TypeOK`) |
| `cluster_background` | a repair under way; its object is deleted, or it meets a crash, a lost answer, an ended lease, a silent target | `CleanedUp`, `Repaired` (liveness) |
| `cluster_lateremove` | as the repairs, with removes that take effect late | violated: `ValidIsStored` |
| `upload_modes` | two keys of two blocks and one block with the same name, one client, one slot for a late handler, two rows, both modes, with and without requests that overlap, deletions, ignored failures | `CompletedWasConfirmed`, `NotMixed`, `PatientIsStored`, `PatientIsWhole`, `ConfirmOnlyAdvances`, `DownloadEnds` |
| `upload_truncate` | uploads of two blocks, without deletions | violated: `SettledIsWhole` |
| `process_tasks` | three workers, two connections, three tasks that confirm a chunk and may take a second connection meanwhile, one outage, destructor | `AtMostSize`, `NoLostWakeup`, `NoTaskAsleep`, `DrainedAtEnd`, `Executed` |
| `process_outage` | two workers, one connection, tasks with one statement, one outage | violated: `DestructorEnds` |
| `requests_paths` | two clients with two and one requests, two connections, two addresses, one fault; the console's path, or that of one handler thread and two instances | `AnswersOwnCall`, `PromisesAlive`, `AtMostOnce`, `Reassembled`, `SessionPerConnection`, `Served` (liveness) |
| `stores_answered` | the table `user` with two clients, names and passwords and three draws; or a storage node with two chunks, contents and volumes and three files; or a client with a file of three pieces, two per page, two threads, two attempts | `TokenOfOwner`, `AccountKept`; `KeepsPromises` (refinement), `StatIsDurable`, `VolumeKept`; `UploadKeepsFile`, `CompleteFindsAll`, `TargetIsWhole` |

Bounds. `Object`, `Node`, `Processes`, `Worker`, `Confirmer`, `Maintainer` are the sets
above; `Ageing` limits which nodes may be late; `ExpireLimit` and `CheckLimit` stand for
the LIMITs 32 and 128 and are 1, so that both the cut-off and the full set occur;
`FaultLimit` bounds how often something goes wrong in Cluster. Two workers are enough for
a stale claim racing a current one; three nodes are the least with two replicas and a
spare, four leave a choice of targets. In the C++ modules `MaxFiles`, `LastSecond`,
`Slot`, `MaxDraws`, `MaxTasks` and `Outages` are bounds: two rows of the same
name are the least that can be mixed, one late handler the least that can race with a
retry, and three threads on two connections the least in which a thread waits while
another overtakes the notified one. They are also the least in which two threads with one
connection each wait for a second one while another thread is there. `Nested` is 2, as in the code.
`Handlers` in `process_tasks` is the handler of `ConfirmUploadChunk` without the query of
`validate_chunk` before it (which is a method with one connection, as the query after it is).
`FewSpoiled` bounds `upload_modes` to one spoiled file, and to none in the mode where requests
overlap, for the size of its state space; the safety properties are proved without that bound.
In `requests_paths`, `Links`, `MaxCalls` and `FaultLimit` are
bounds: two connections of two clients, or an old and a new one of the same, and two
addresses of which one is used again, are the least in which an answer can reach somebody
else. In `stores_answered` three inodes are a chunk's old file, its new one and the identity;
three pieces on pages of two give two pages, and two versions of the file the least that
can be mixed. Two uploads of the same name start in different
seconds (`OwnPaths`, see Known deviations). The C++ runs do not check deadlock where
the bounds stop the system (`process_*`, `requests_paths`, `stores_answered`).

Fairness. `ThreadsFair`: leases and tickets expire, a busy task thread and the maintenance
thread go on (`worker.py` loops for ever), and a task that stays due is claimed in the end
(strong fairness, because `claim` takes the task with the oldest lease first).
`HeartbeatsFair`: the heartbeats of a node that was late get through in the end. `ModeFair`: the
download loop of a client is not interrupted for ever. `ProcessFairness`: a thread that may run
runs, a statement ends, and the database is started again. `requests_paths`: an I/O thread reads
what has arrived (`Reads`) and the worker pool runs jobs (`Works`): `process_tasks` shows that it does unless its
workers wait for connections for ever, which happens after an outage that costs all connections
(`process_outage`) or when all of them are held by handlers that wait for a second one. `Served`
is claimed for a pool to which neither happens.
No property relies on a failing RPC succeeding in the end other than through `FaultLimit`.

`Executed` is claimed while some connection is `Usable`: idle, not opened yet, or held by a thread
that does not itself wait for another one. `process_outage` shows what happens when all
connections are lost; for the case that all are held by waiting threads see Known deviations. `Served` and `Reassembled` are claimed for connections whose decoder was not used
before. `UploadKeepsFile` is claimed while the file is not edited, `StatIsDurable` for chunks
whose directory sync has not failed (see Known deviations). `PatientIsStored` and `PatientIsWhole` are claimed while requests do not
overlap (a handler that outlives its client's patience may go on as long as the client waits for it),
and not for `spoiled` files: those whose row `Delete` could not update before it removed the file, and
those that `WriteChunk` took for missing because it could not open them. The failures that
`UploadData` and `UploadFinalize` ignore are not excepted. `upload_truncate` shows that
requests which overlap may lose a block for good: `SettledIsWhole` looks at the completed files when
no request is in progress.

## Proofs

`Metadata_proofs!TypeCorrect` proves `Spec => []TypeOK` for all constants that satisfy the
assumptions of `Metadata`. `Metadata_proofs!SpaceIsInvariant` proves `[]SpaceInv`. The
invariant is needed because `Accounting` alone is not inductive: a confirm converts
only rows that are charged `reserved`, which is `ReservationsWait`; that must survive
`retire`, which needs that the rows of an absent object are absent (`RowsAndNodes`); a
repair may only overwrite a row that is not charged, so rows that are `gone` must be
uncharged, and a delete task that uncharges a row must still find it `deleting`, which is
the fence (`RemovalIsFenced`, `RemovalsHaveRows`). `Bytes` is defined by a cardinality, so
that its lemmas (adding, removing, splitting a set of chunks) follow from the library's
cardinality theorems without recursion. The proof has one lemma per action.
`AccountingHolds`, `ReservationsHold`, `DeletedStaysDown`, `CurrentVolumeHolds` and
`RemovalsAreFenced` are its corollaries.

`Metadata_proofs` also proves `ObjectsKept`, that every behaviour of `Metadata` is one of
`ObjectStore`: each request maps to the operation of the same meaning, the expiry of `maintain` to
`Expire`, everything else (workers, heartbeats, reconcile, failing RPCs) to a stutter. It
needs `ObjectsInv`: the rows of object and upload agree (`UploadDecidesObject`, theorem
`UploadsDecide`) and begin together, or `Complete`, which looks at the upload, could publish an
object that is gone; and a confirm works on a chunk whose content is decided, which holds across
its two transactions because no path clears a digest.

`NeverOvercommitted` is also proved there: `reserve` is the only place that takes space,
and only `init` and a beginning repair call it. In `init` the placement of a chunk sees what
the chunks before it took, so the last chunk of a node's share bounds the whole share
(`LastChunk`, `PlacementFits`). It also proves `OneTarget` and `RepairsHoldReservations`. Until an
object is published its chunks have at most `Replicas` rows (`StagingRows`), so that
`complete`, which counts `Replicas` valid ones, leaves none reserved; from then on only a
repair makes a reservation, and only if there is none. A reservation of published data is given up
only together with the claim of the repair task (`HeldRows`), and a claim that still passes
the fence is the one the repair began under (`FenceHeld`): hence `RepairIsFenced`.

`Cluster_proofs` proves `ClusterIsMetadata`: every behaviour of `Cluster`, nodes and tickets left
out, is one of `Metadata`, so that all theorems above hold of the composed system. What a node
answers is an answer `Metadata` leaves open; that an inventory names only files with rows is
`NoUnknownFiles`, from `FilesInv`: tickets are made for rows, repair targets have rows, and rows
are never dropped. `ValidStaysStored` is durability: if no remove executes after its caller's lease
(`~ LateCalls`), `ValidIsStored` holds for any number of nodes, threads, restarts, stalls
and lost answers. A row is decided valid by a confirm, a repair or a reconcile, each some time after
it asked the node. What bridges that time is `Kept(c, n, i)`: if process `i` of node `n` still runs, it has the
file. A process that is replaced is never registered again, so `Kept` can only end by a
removal; a removal runs under a claim whose row is `deleting` (`RemovalsClaimed`,
`RemovalIsFenced`), and a row becomes `deleting` only when its object is no longer staging
(`DeletingEnded`), which a confirm checks, while a repair's row is reserved by
`RepairIsFenced` and a reconcile's is still `unverified`. A reconcile that asked a process which was
replaced meanwhile does not count, as what it has read is retired for good (`SnapshotsKnown`).
With `LateCalls` the theorem is false; `cluster_lateremove` shows how.

`StorageNode_proofs` proves `NodeInvariant`, and from it `ConfirmedIsDurable`, `NodeKeepsVolume`
and the refinement `NodeKeepsPromises`. The invariant speaks of every entry that a power failure
may leave, not only of the directory as it is: each leads to a whole, synchronised file
(`WholeChunks`) with the promised content (`Promised`). That is kept because the file of a running
put belongs to no name until it is linked and is synchronised by then (`PutOK`), and because
between two requests entry and disk agree (`Durable`), which the directory sync at a start
restores after a kill.

`DistributedClient_proofs` proves `UploadsKeepFiles`, `CompletesFindAll` and `TargetsAreWhole` from
`ClientInv`. As long as the file is as it was at `init`, everything under way to the object, in the
threads of this process or astray from an earlier one, carries the contents of that file. While a page is
worked on, every piece below it that is not stored belongs to a thread; `status` returns the first
missing pieces and the one after the last of them, so that the next page begins where this one
ends for any number of pieces and any page size (`FirstIsPrefix`, from cardinalities); when a thread
fails, the process ends and nothing is completed. The temporary file holds what was fetched of an object
whose content is decided, and it is synchronised before it gets the name.

`Upload_proofs` treats both C++ modes at once, as `MCUpload` runs them. `ModesInv` says which row, file
and path belong to which upload, what every handler has already checked at the statement it stands at
(`JobFits`), and, while requests do not overlap, that the only handler there is stands between the write
of a block and its row. `CompletedFilesWereConfirmed` and `FilesAreNotMixed` hold whatever overlaps:
the conditional UPDATE lets one confirm per block through, and a path is written by handlers of one
upload only (`OwnPaths`). `ConfirmedBlocksAreStored` and `CompletedFilesAreWhole` need that requests do not overlap,
and hold although handlers fail, time out and go on later, and although the single process goes on
after failed statements: a row may then be completed with an old `upload_size`, or uploading with
the full one, and both must still agree with the file (`FileOK`, and `StepOK` for a handler, which relies on the file alone). The exceptions are the `spoiled`
files. `ConfirmsOnlyAdvance` is an action property.

`ServerProcess_proofs` proves `PoolTypes`, `NeverTooMany` and `WakeupsSuffice` of the connection pool
from `PoolInv`: besides the two properties, a thread does not both sleep and wake, and one that waits holds
less than `Nested` connections (`Apart`: otherwise a woken thread that sleeps again would be counted
twice, or would get one connection too many), and `total_created` bounds the connections
that exist from above (`Counted`; not equal, since a failed reconnection is not deducted).
`ProcessUsesPools` shows that a process, whose handlers may ask for a second connection while they hold
one, is a behaviour of both pools, so that what is proved of each holds of the composition (`ProcessKeepsPool`). `TasksInv` is the invariant of the thread pool: the queue
holds the last tasks in order (`InOrder`), each of the others has one worker or was executed once
(`OneWorker`, `Counts`), and workers leave only when the destructor has begun and the queue is
empty, which it then stays (`Leaving`). `NoTaskForgotten` and `DestructorDrains` follow.

`UserAuth_proofs` proves `AccountsKept` and `TokensOfOwners` from `AuthInv`. A login is let in by
the password of the row and no statement changes a password (`LoginsKnown`). A token belongs to
one user because its number is new: while nobody has raced, one worker is in the generator at a
time, its number is the generator's state and all numbers drawn before are smaller (`Drawn`), so
that a token not stored yet is in no row and no session (`Fresh`). Without the hypothesis `~ raced`
the second property is false.

`Requests_proofs` begins with the decoder. `FeedSound` holds of any bytes: what `Feed` returns are whole
messages of the stream, each once and in order, and what it keeps comes after them, also when a
connection inherited the bytes of another. `FeedWhole` says that of a stream that begins with a message
it returns every whole one, wherever the pieces end. As `Loop` is a function over a finite set of
positions, both follow by induction from the end of the buffer, which the library's well-founded sets
give without an operator as parameter.

Both network paths are then treated at once: every step of either is shown to be one of a few effects
on connections, clients and server (`Effect`), and `Common` is kept by each. It says which connection
belongs to whom and in what state a connection may be seen from its two ends (`Structure`); that a
promise in `pending_` has a caller who waits (`Promises`); that what a connection has received and what
is on its way are whole messages, and the server's decoder holds the unfinished one (`Streams`); and
that every request is in one place: posted, on the wire, in a decoder, a job, or executed (`Once`),
which gives `RequestsRunAtMostOnce`. `AnswersReachTheirCall` needs `Fits`: for whatever belongs to a
live connection (bytes, jobs, answers, decoders) the number of the call and the request id differ by the
same amount as the client's own counters do. That is the only reason why an id names one call, as
`next_request_id_` starts again with every client object; it is false once a connection has inherited a decoder,
and so the property has the condition `stale = {}`. `Sessions` adds the gateway's sessions, and `Quiet`
that an `RpcClient` leaves nothing to the next one. `GatewayRequestsCorrect` and
`RpcRequestsCorrect` state the results of each path by itself, where any number of threads send requests (the
run has one handler thread); for the second one `stale = {}` is proved, so that its answers are always
right. `RequestsInvariant` is the same for the specification that TLC checks.

The assumptions are those stated in the modules: `Metadata`'s on its constants (finite
sets, positive sizes and limits), `ReportsAssumption` (a heartbeat may report any free
space from nothing to the capacity), `PoolAssumption` and `TasksAssumption` (finitely many threads, at least one
worker, a positive pool size), `ClientAssumption` (an object has finitely many pieces, numbered from
0), `StorageAssumption` (names, contents and markers are different things),
`AuthAssumption` (`None` is no name, password or token), `DecoderAssumption` (a stray header announces
some number of bytes) and `RequestsAssumption` (the bounds are numbers; `None` is no client, address,
connection, message or buffer).

Only model-checked: all liveness (`CleanedUp`, `Repaired`, `Served`, `Executed`, `DownloadEnds`), which the prover does not
handle under fairness.

## Findings

* `cluster_lateremove`: a remove carries the node's process and volume, not the claim it
  was sent under. If it executes after its caller gave up, and a repair has meanwhile put
  the chunk there again, it removes a valid replica.
* `upload_truncate`: `WriteChunk` creates a missing file with a truncating open. A late
  handler that found no file truncates what the retry of its client has written, and then fails. The
  retry goes on, the next block makes the file as long as it should be, and it is completed with a
  hole in place of its first block.
* `process_outage`: a connection that cannot be reconnected is closed without being
  deducted from `total_created_`. After `pool_size` such failures every caller waits for ever.

### Known deviations

Observed while modelling; no run of this project reports them as violations.

* A repair that turns out to be superfluous leaves its copy `bad` and uncharged. If the
  node restarts before the delete task runs, `reconcile` makes the row `valid` without
  charging it (`metadata.py:405-408`, `243`, `284`).
* `repair_task` makes its ticket after the fetch and the bandwidth sleep, outside any
  transaction, so a write may be authorized while the clean-up of the deleted object runs
  (`metadata.py:394-395`; `docs/distributed.md:78`).
* Two downloads that fail for a passing reason mark both replicas of a chunk `bad`, and no
  path verifies a `bad` row again while its node keeps its process (`gateway.py:46`).
* `UploadFinalize` of FileService checks, then sets the status unconditionally: a deletion
  in between is undone, and a completed row has no file (`file_service_server.cc:93-104`). The model
  has this behaviour; `upload_truncate` leaves deletions out so as to show the truncation alone. A
  late truncation may also come after the file was completed.
* `Delete` ignores what `SoftDelete` returns and removes the file, and answers success: when the
  UPDATE fails, an uploading or completed row is left without its file (`file_service.cc:242-243`).
  `UploadData` and `UploadFinalize` ignore failed statements too and answer success
  (`file_service.cc:184`, `204-205`): the client goes on with a progress that was not stored, or
  takes a file for completed whose row is still uploading. The next upload of the same file makes up for that.
* `WriteChunk` takes any failure of its first open for a missing file. When the file exists and the
  open failed for a passing reason (no more descriptors, say), the next one truncates it
  (`storage_manager.cc:54-61`); blocks that were confirmed are lost, without any overlap.
* `FileDAO::ConfirmUploadChunk` keeps its connection while it calls `FindById`, which takes another
  one (`file_dao.cc:201`, `220`). FileService has four workers on four connections
  (`file_service_server.cc:37`, `46`): when all of them lose their conditional UPDATE at the same
  time they wait for each other for ever, and every later request waits behind them. After an outage
  that left one connection, one such worker is enough. The model has this behaviour, which is why
  `Executed` asks for a `Usable` connection.
* A put whose directory sync fails after the link answers an error, and the chunk stays: `stat`
  confirms it from then on, and a power failure may still lose it (`storage.py:110-119`). A
  remove has the same gap in the other direction.
* A kill between the creation of `.identity` and its fsync, followed by a power failure, leaves
  an identity that no start accepts (`storage.py:45-53`); an operator has to remove it.
* A resume compares the size of the local file only. If it was edited since, the object mixes two
  versions; every piece is checked on its own (`client.py:34`). An upload whose `init` was
  answered late stays, unknown to its client, until it expires; the checkpoint is written without
  fsync (`client.py:29-32`).
* The three attempts of a request follow an `OSError` only: an answer that is cut short (`Error`
  from `wire.py`) ends the command at once (`client.py:17-24`).
* A new connection whose `TcpConnection` gets the address of an earlier one continues its decoder
  (`business_processor.cc:33-47`; `RemoveDecoder` has no caller): bytes left by the old connection
  are put before its first message, and the console's first request may be lost.
  `FileClient` keeps its own decoder over a reconnect in the same way (`file_client.cc:46-66`).
* The destructors of `RpcClient` and `FileClient` destroy the pending requests and the decoder
  before the event loop has stopped (`rpc_client.cc:14`, order of the members in `rpc_client.h`);
  `connection_` is written by the loop and read by the caller without a lock
  (`rpc_client.cc:35-44`, `file_client.cc:67-83`). The model takes the destruction for one step.
* `ZkClient` forgets `connected_` when its session expires and makes no new one: a service stays
  unregistered and a gateway uses the default address from then on (`zk_client.cc:28-31`).
* A download through the microservice gateway does not advance: the request carries no
  path, StorageService reads nothing and the answer has code 0 (`gateway_main.cc:205-213`).
* Two uploads of the same name by one user in the same second share a path, overwrite each
  other and are both completed (`file_service.cc:70-92`, `196`).
* Two workers that use the token generator at the same time may give the same token to two
  users (`user_service.cc:26-28`).

## Plan

Done: Metadata, its accounting, its reservations and its implementation of ObjectStore; Cluster, its
implementation of Metadata, its durability and its background liveness; the storage node and its
implementation of ChunkStore; the distributed client; both C++ upload modes; accounts; protocol and both
network paths; the two pools and the process made of them. Every safety property that a
passing run checks is also proved. Left: the destructors of servers and clients one member at a time, which would
turn two of the known deviations into runs; a reading of request handlers for the microservice
download, which does not advance; and liveness, should a prover for it become available.

## Not modelled

The framing of `wire.py` (one request per connection, so there is nothing to reassemble across
requests), the SQL access of `db.py` through ctypes and the MySQL C API; configuration and
process start-up (`config.py`, `run.py`, `migrate.py`, the parsing of arguments in the `main`
functions); `common/logger.cc`; the menus of `console_ui.cc`, which call `FileClient` one after the
other; the list queries of the DAOs, which only read. These are I/O without state of their own.
Real time, bandwidth limits and the contents of error messages are abstracted everywhere.
