------------------------------ MODULE Metadata ------------------------------
(***************************************************************************)
(* FileService of the distributed mode: distributed/metadata.py over its   *)
(* MySQL tables, with the threads that share them (request handlers,       *)
(* `run_once` workers and the maintenance loop of distributed/worker.py).  *)
(*                                                                         *)
(* Every mutating transaction of the code first locks the one row of       *)
(* ds_allocator, so a transaction is one atomic step here.  What happens   *)
(* between two transactions of the same thread (the RPCs to the nodes) is  *)
(* a step of its own whose outcome this module leaves open; the module     *)
(* Cluster ties it to the files the nodes really hold.                     *)
(*                                                                         *)
(* Clock readings are abstracted to the comparisons the code makes: the    *)
(* age of a heartbeat against `suspect` and `dead`, whether an upload's    *)
(* `expires` has passed, and whether a task's `lease` has passed.  Any of  *)
(* these may come true at any time.                                        *)
(***************************************************************************)
EXTENDS Integers, FiniteSets

CONSTANTS
  Object,       \* the objects that are ever created, one upload each
  Size,         \* [Object -> Nat]: ds_objects.size
  ChunkSize,    \* DS_CHUNK_SIZE
  Replicas,     \* DS_REPLICAS
  Sha,          \* the checksums a client may send for a chunk
  Node,         \* configured node ids; a set of numbers, ordered as node_id is
  Capacity,     \* DS_CAPACITY
  FreeReports,  \* the free_bytes a heartbeat may carry
  Instance,     \* instance ids (one per start of a node process)
  Processes,    \* [Node -> SUBSET Instance]: the processes started for a node
  VolumeOf,     \* [Instance -> volume]: the volume a process opened
  Ageing,       \* bound: the nodes whose heartbeats may be late
  ExpireLimit,  \* LIMIT of the expiry query of maintain (32)
  CheckLimit,   \* LIMIT of the stat query of reconcile (128)
  Confirmer,    \* handler threads that may be inside confirm
  Worker,       \* run_once threads
  Maintainer,   \* maintenance threads
  None          \* NULL / '' / nothing

(***************************************************************************)
(* Chunks.  A chunk is identified by its object (= its upload) and seq.    *)
(***************************************************************************)
Count(o) == (Size[o] + ChunkSize - 1) \div ChunkSize

Chunks(o) == {o} \X (0 .. Count(o) - 1)

Chunk == UNION {Chunks(o) : o \in Object}

Length(c) ==
  LET rest == Size[c[1]] - c[2] * ChunkSize
  IN  IF rest < ChunkSize THEN rest ELSE ChunkSize

\* The summed length of a set of chunks, as the number of their bytes.
Bytes(S) == Cardinality({p \in S \X (1 .. ChunkSize) : p[2] <= Length(p[1])})

Volume == {VolumeOf[i] : i \in Instance}

\* Tasks are unique per kind, chunk and node.
RepairOf(c) == <<"repair", c, None>>
DeleteOf(c, n) == <<"delete", c, n>>
Task == ({"repair"} \X Chunk \X {None}) \cup ({"delete"} \X Chunk \X Node)

ASSUME ChunksAssumption ==
  /\ IsFiniteSet(Object)
  /\ ChunkSize \in Nat \ {0}
  /\ Size \in [Object -> Nat]

ASSUME NodesAssumption ==
  /\ IsFiniteSet(Node)
  /\ Node \subseteq Nat
  /\ Replicas \in Nat \ {0}
  /\ Capacity \in Nat
  /\ FreeReports \subseteq 0 .. Capacity
  /\ Processes \in [Node -> SUBSET Instance]
  /\ DOMAIN VolumeOf = Instance

ASSUME NoneAssumption ==
  /\ None \notin Instance /\ None \notin Volume
  /\ None \notin Sha /\ None \notin Worker
  /\ None \notin Node /\ None \notin Chunk /\ None \notin Task

ASSUME LimitsAssumption == ExpireLimit \in Nat \ {0} /\ CheckLimit \in Nat \ {0}

-----------------------------------------------------------------------------
VARIABLES
  object,    \* ds_objects.state
  upload,    \* ds_uploads.state
  lapsed,    \* ds_uploads.expires has passed
  chunk,     \* ds_chunks: state and sha256
  replica,   \* ds_replicas: state, charged, volume
  node,      \* ds_nodes: instance, volume, age of the heartbeat, free_bytes
  reserved,  \* ds_nodes.reserved
  used,      \* ds_nodes.used_bytes
  retired,   \* ds_instances
  task,      \* ds_tasks: state, due (its lease has passed), token
  confirm,   \* the locals of confirm in each handler thread
  worker,    \* the locals of run_once in each worker thread
  maint      \* the locals of maintain and reconcile in each maintenance thread

catalog == <<object, upload, lapsed, chunk>>
space == <<replica, reserved, used>>
tables == <<catalog, space, node, retired, task>>
threads == <<confirm, worker, maint>>
vars == <<tables, threads>>

\* Rows and locals, by their fields.
Rep(c, n) == replica[<<c, n>>]
RepRow(state, charged, volume) == [state |-> state, charged |-> charged, volume |-> volume]
QueueRow(state, due, token) == [state |-> state, due |-> due, token |-> token]
Job(pc, t, sources, target, instance) ==
  [pc |-> pc, task |-> t, sources |-> sources, target |-> target, instance |-> instance]
Pass(pc, nodes, n, todo, c, ok) ==
  [pc |-> pc, nodes |-> nodes, node |-> n, todo |-> todo, chunk |-> c, ok |-> ok]

NoRow == RepRow("absent", "none", None)
NoNodes == [n \in Node |-> None]
IdleConfirm == [chunk |-> None, at |-> NoNodes, todo |-> {}]
IdleWorker == Job("idle", None, {}, None, None)
IdleMaint == Pass("idle", NoNodes, None, {}, None, FALSE)

\* A task row that was never inserted behaves as a "done" one: enqueue makes
\* both "pending" with the new lease.
Init ==
  /\ object = [o \in Object |-> "absent"]
  /\ upload = [o \in Object |-> "absent"]
  /\ lapsed = [o \in Object |-> FALSE]
  /\ chunk = [c \in Chunk |-> [state |-> "pending", sha |-> None]]
  /\ replica = [r \in Chunk \X Node |-> NoRow]
  /\ node = [n \in Node |-> [instance |-> None, volume |-> None, age |-> "dead", free |-> 0]]
  /\ reserved = [n \in Node |-> 0]
  /\ used = [n \in Node |-> 0]
  /\ retired = [n \in Node |-> {}]
  /\ task = [t \in Task |-> QueueRow("done", FALSE, None)]
  /\ confirm = [h \in Confirmer |-> IdleConfirm]
  /\ worker = [w \in Worker |-> IdleWorker]
  /\ maint = [m \in Maintainer |-> IdleMaint]

-----------------------------------------------------------------------------
(***************************************************************************)
(* Queries shared by the transactions.  The column ds_nodes.state is left  *)
(* out: a heartbeat sets it to healthy together with the time, maintain    *)
(* recomputes it from that time, and every query that reads it also        *)
(* demands a heartbeat younger than `suspect`, which implies healthy.      *)
(***************************************************************************)
Fresh(n) == node[n].age = "fresh"

Rows(c) == {n \in Node : Rep(c, n).state # "absent"}

Healthy(c) == {n \in Node : /\ Rep(c, n).state = "valid"
                            /\ Rep(c, n).volume = node[n].volume
                            /\ Fresh(n)}

Positions(c) == {n \in Node : /\ Rep(c, n).state \in {"reserved", "valid"}
                              /\ Rep(c, n).volume = node[n].volume}

\* The instances of the chunk's locations, as positions() returns them.
Located(c) == [n \in Node |-> IF n \in Positions(c) THEN node[n].instance ELSE None]

\* positions(): every assigned node must be available, and all must be there.
PositionsReady(c) ==
  /\ \A n \in Positions(c) : Fresh(n)
  /\ Cardinality(Positions(c)) = Replicas

Active(o) == object[o] # "deleted" /\ upload[o] = "uploading" /\ ~lapsed[o]

\* The sets a query over S with LIMIT k may return.
Limited(S, k) == {T \in SUBSET S : \/ T = S /\ Cardinality(S) <= k
                                   \/ Cardinality(T) = k}

(***************************************************************************)
(* reserve: walk the nodes in the order of (reserved + used_bytes,         *)
(* node_id) and take the first `count` that are alive, not excluded and    *)
(* have room.  `held` is what this transaction has already added to        *)
(* `reserved`.                                                             *)
(***************************************************************************)
Load(n, held) == reserved[n] + held[n] + used[n]

\* Mutant: a node's earlier reservations are not counted.
HasRoomUnreserved(n, held, length) ==
  Capacity - used[n] >= length /\ node[n].free >= length

HasRoom(n, held, length) ==
  /\ Capacity - Load(n, held) >= length
  /\ node[n].free - (reserved[n] + held[n]) >= length

Before(m, n, held) == \/ Load(m, held) < Load(n, held)
                      \/ Load(m, held) = Load(n, held) /\ m < n

Reserve(length, count, excluded, held) ==
  LET fit == {n \in Node \ excluded : Fresh(n) /\ HasRoom(n, held, length)}
  IN  {n \in fit : Cardinality({m \in fit : Before(m, n, held)}) < count}

NewRow(n) == RepRow("reserved", "reserved", node[n].volume)

\* enqueue: only a task that is done (or absent) is made pending again; a
\* delayed one becomes due later.
Enqueue(tasks, T, delayed) ==
  [t \in Task |-> IF t \in T /\ tasks[t].state = "done"
                  THEN QueueRow("pending", ~delayed, tasks[t].token)
                  ELSE tasks[t]]

\* Mutant: everything is given back to used_bytes.
UnchargeUsed(c, n) ==
  /\ used' = IF Rep(c, n).charged # "none" THEN [used EXCEPT ![n] = @ - Length(c)] ELSE used
  /\ UNCHANGED reserved

\* uncharge, for the row of chunk c on node n: give back what it is charged.
Uncharge(c, n) ==
  /\ reserved' = IF Rep(c, n).charged = "reserved"
                 THEN [reserved EXCEPT ![n] = @ - Length(c)] ELSE reserved
  /\ used' = IF Rep(c, n).charged = "used"
             THEN [used EXCEPT ![n] = @ - Length(c)] ELSE used

(***************************************************************************)
(* retire, for a set S of uploads: release what is only reserved, mark the *)
(* rows deleting, queue their delayed removal, end the repair tasks.       *)
(***************************************************************************)
\* Mutant: the reservation is not released.
RetiredRowCharged(row) ==
  RepRow(IF row.state \in {"gone", "absent"} THEN row.state ELSE "deleting", row.charged, row.volume)

\* Mutant: a row that still waits for its data is dropped.
RetiredRowDropped(row) ==
  IF row.charged = "reserved" THEN NoRow
  ELSE RepRow(IF row.state \in {"gone", "absent"} THEN row.state ELSE "deleting", row.charged, row.volume)

\* Mutant: only reservations are retired, copies with data are not.
RetiredRowReserved(row) ==
  IF row.charged = "reserved" THEN RepRow("deleting", "none", row.volume) ELSE row

RetiredRow(row) ==
  RepRow(IF row.state \in {"gone", "absent"} THEN row.state ELSE "deleting",
         IF row.charged = "reserved" THEN "none" ELSE row.charged,
         row.volume)

\* Mutant: running repairs are not fenced.
RetiredTasksUnfenced(S) ==
  Enqueue(task, {t \in Task : t[1] = "delete" /\ t[2][1] \in S /\ t[3] \in Rows(t[2])}, TRUE)

RetiredTasks(S) ==
  LET fenced == [t \in Task |-> IF t[1] = "repair" /\ t[2][1] \in S
                                THEN QueueRow("done", FALSE, None) ELSE task[t]]
  IN  Enqueue(fenced, {t \in Task : /\ t[1] = "delete" /\ t[2][1] \in S
                                    /\ t[3] \in Rows(t[2])}, TRUE)

Retire(S, end) ==
  /\ upload' = [o \in Object |-> IF o \in S THEN end ELSE upload[o]]
  /\ object' = [o \in Object |-> IF o \in S THEN "deleted" ELSE object[o]]
  /\ replica' = [r \in Chunk \X Node |->
                   IF r[1][1] \in S THEN RetiredRow(replica[r]) ELSE replica[r]]
  /\ reserved' = [n \in Node |-> reserved[n] -
                    Bytes({c \in Chunk : c[1] \in S /\ Rep(c, n).charged = "reserved"})]
  /\ UNCHANGED <<lapsed, chunk, used>>

-----------------------------------------------------------------------------
(***************************************************************************)
(* User requests.                                                          *)
(***************************************************************************)

\* What the chunks of o before c already reserved on n, given a placement.
Earlier(o, c, n, place) == Bytes({d \in Chunks(o) : d[2] < c[2] /\ n \in place[d]})

\* The placement the loop over reserve computes, chunk after chunk.
IsPlacement(o, place) ==
  \A c \in Chunks(o) :
    place[c] = Reserve(Length(c), Replicas, {}, [n \in Node |-> Earlier(o, c, n, place)])

\* init: every chunk gets its replicas reserved, or the transaction fails.
InitUpload(o) ==
  /\ object[o] = "absent"
  /\ \E place \in [Chunks(o) -> {S \in SUBSET Node : Cardinality(S) = Replicas}] :
       /\ IsPlacement(o, place)
       /\ replica' = [r \in Chunk \X Node |->
                        IF r[1][1] = o /\ r[2] \in place[r[1]] THEN NewRow(r[2]) ELSE replica[r]]
       /\ reserved' = [n \in Node |-> reserved[n] + Bytes({c \in Chunks(o) : n \in place[c]})]
  /\ object' = [object EXCEPT ![o] = "staging"]
  /\ upload' = [upload EXCEPT ![o] = "uploading"]
  /\ UNCHANGED <<lapsed, chunk, node, used, retired, task, threads>>

\* prepare: the checksum of a chunk is fixed by the first caller, and the
\* chunk's locations are handed out with write tickets.
Prepare(c, s) ==
  /\ upload[c[1]] = "uploading" /\ ~lapsed[c[1]]
  /\ chunk[c].sha \in {None, s}
  /\ PositionsReady(c)
  /\ chunk' = [chunk EXCEPT ![c].sha = s]
  /\ UNCHANGED <<object, upload, lapsed, space, node, retired, task, threads>>

\* Mutant: the upload is left open.
CompleteOpen(o) ==
  /\ upload[o] = "uploading" /\ ~lapsed[o]
  /\ \A c \in Chunks(o) : chunk[c].state = "confirmed"
  /\ object' = [object EXCEPT ![o] = "published"]
  /\ UNCHANGED <<upload, lapsed, chunk, space, node, retired, task, threads>>

\* complete: publish once every chunk is confirmed on enough nodes.
Complete(o) ==
  /\ upload[o] = "uploading" /\ ~lapsed[o]
  /\ \A c \in Chunks(o) :
       /\ chunk[c].state = "confirmed"
       /\ Cardinality({n \in Node : Rep(c, n).state = "valid"}) >= Replicas
  /\ object' = [object EXCEPT ![o] = IF @ = "staging" THEN "published" ELSE @]
  /\ upload' = [upload EXCEPT ![o] = "completed"]
  /\ UNCHANGED <<lapsed, chunk, space, node, retired, task, threads>>

Cancel(o) ==
  /\ upload[o] = "uploading" /\ ~lapsed[o]
  /\ Retire({o}, "cancelled")
  /\ task' = RetiredTasks({o})
  /\ UNCHANGED <<node, retired, threads>>

\* Mutant: the object is marked, its upload is not retired.
DeleteUnretired(o) ==
  /\ object[o] \notin {"absent", "deleted"}
  /\ object' = [object EXCEPT ![o] = "deleted"]
  /\ UNCHANGED <<upload, lapsed, chunk, space, node, retired, task, threads>>

Delete(o) ==
  /\ object[o] \notin {"absent", "deleted"}
  /\ Retire({o}, "cancelled")
  /\ task' = RetiredTasks({o})
  /\ UNCHANGED <<node, retired, threads>>

\* bad_replica: a download failed on node n.
BadReplica(c, n) ==
  /\ object[c[1]] = "published"
  /\ replica' = IF Rep(c, n).state = "valid"
                THEN [replica EXCEPT ![<<c, n>>] = RepRow("bad", @.charged, @.volume)]
                ELSE replica
  /\ task' = Enqueue(task, {RepairOf(c)}, FALSE)
  /\ UNCHANGED <<catalog, node, reserved, used, retired, threads>>

(***************************************************************************)
(* confirm: snapshot the locations, stat every node outside the database,  *)
(* re-check and convert the reservations.                                  *)
(***************************************************************************)
ConfirmBegin(h, c) ==
  /\ confirm[h].chunk = None
  /\ Active(c[1])
  /\ chunk[c].sha # None
  /\ PositionsReady(c)
  /\ confirm' = [confirm EXCEPT ![h] = [chunk |-> c, at |-> Located(c), todo |-> Positions(c)]]
  /\ UNCHANGED <<tables, worker, maint>>

\* One stat answered OK; the nodes are asked in the order of node_id.
ConfirmStat(h, n) ==
  /\ n \in confirm[h].todo
  /\ \A m \in confirm[h].todo : n <= m
  /\ confirm' = [confirm EXCEPT ![h].todo = @ \ {n}]
  /\ UNCHANGED <<tables, worker, maint>>

\* Mutant: a replica that another handler has confirmed is converted again.
CountedTwice(h) == {n \in Node : confirm[h].at[n] # None}

\* The rows a confirm converts: those that are still reserved.
Counted(h) == {n \in Node : confirm[h].at[n] # None /\ Rep(confirm[h].chunk, n).state = "reserved"}

ConfirmCommit(h) ==
  LET c == confirm[h].chunk
  IN  /\ c # None /\ confirm[h].todo = {}
      /\ Active(c[1])
      /\ \A n \in Positions(c) : Fresh(n)
      /\ confirm[h].at = Located(c)
      /\ replica' = [r \in Chunk \X Node |->
                       IF r[1] = c /\ r[2] \in Counted(h) THEN RepRow("valid", "used", replica[r].volume)
                                                         ELSE replica[r]]
      /\ reserved' = [n \in Node |-> IF n \in Counted(h) THEN reserved[n] - Length(c) ELSE reserved[n]]
      /\ used' = [n \in Node |-> IF n \in Counted(h) THEN used[n] + Length(c) ELSE used[n]]
      /\ chunk' = [chunk EXCEPT ![c].state = "confirmed"]
      /\ confirm' = [confirm EXCEPT ![h] = IdleConfirm]
      /\ UNCHANGED <<object, upload, lapsed, node, retired, task, worker, maint>>

\* A stat fails, the second transaction refuses, or the handler dies.
ConfirmAbort(h) ==
  /\ confirm[h].chunk # None
  /\ confirm' = [confirm EXCEPT ![h] = IdleConfirm]
  /\ UNCHANGED <<tables, worker, maint>>

-----------------------------------------------------------------------------
(***************************************************************************)
(* heartbeat of process i for node n.                                      *)
(***************************************************************************)
\* Mutant: no row is put in doubt.
RowAfterChangeKept(row, v) ==
  IF row.state \in {"valid", "reserved"} THEN RepRow(row.state, row.charged, v) ELSE row

RowAfterChange(row, v) ==
  CASE row.state \in {"valid", "bad"} -> RepRow("unverified", row.charged, row.volume)
    [] row.state = "reserved"         -> RepRow("reserved", row.charged, v)
    [] OTHER                          -> row

\* A new process may only replace a dead one, and never be a retired one.
MayTakeOver(n, i) == i \notin retired[n] /\ node[n].age = "dead"

Heartbeat(n, i, free) ==
  LET old == node[n]
      takeover == old.instance \notin {None, i}
  IN  /\ takeover => MayTakeOver(n, i)
      /\ retired' = IF takeover THEN [retired EXCEPT ![n] = @ \cup {old.instance}] ELSE retired
      /\ node' = [node EXCEPT ![n] = [instance |-> i, volume |-> VolumeOf[i],
                                      age |-> "fresh", free |-> free]]
      /\ replica' = [r \in Chunk \X Node |->
                       IF takeover /\ r[2] = n THEN RowAfterChange(replica[r], VolumeOf[i])
                                               ELSE replica[r]]
      /\ UNCHANGED <<catalog, reserved, used, task, threads>>

\* The passing of time.
Age(n) ==
  /\ n \in Ageing /\ node[n].age # "dead"
  /\ node' = [node EXCEPT ![n].age = IF @ = "fresh" THEN "suspect" ELSE "dead"]
  /\ UNCHANGED <<catalog, space, retired, task, threads>>

Lapse(o) ==
  /\ upload[o] \in {"uploading", "completed"} /\ ~lapsed[o]
  /\ lapsed' = [lapsed EXCEPT ![o] = TRUE]
  /\ UNCHANGED <<object, upload, chunk, space, node, retired, task, threads>>

TaskDue(t) ==
  /\ task[t].state # "done" /\ ~task[t].due
  /\ task' = [task EXCEPT ![t].due = TRUE]
  /\ UNCHANGED <<catalog, space, node, retired, threads>>

-----------------------------------------------------------------------------
(***************************************************************************)
(* run_once: claim a task, then delete_task or repair_task.  The token of  *)
(* a claim is fresh; since a thread holds one claim at a time and forgets  *)
(* it when it claims again, the thread's name stands for it.               *)
(***************************************************************************)
Claim(w, t) ==
  /\ worker[w].pc = "idle"
  /\ task[t].state # "done" /\ task[t].due
  /\ task' = [task EXCEPT ![t] = QueueRow("running", FALSE, w)]
  /\ worker' = [worker EXCEPT ![w] = Job("claimed", t, {}, None, None)]
  /\ UNCHANGED <<catalog, space, node, retired, confirm, maint>>

\* fence: the claim of w is still the current one.
Fenced(w) == LET t == task[worker[w].task]
             IN  t.token = w /\ t.state = "running" /\ ~t.due

\* The worker w is at label pc of a task of this kind.
At(w, kind, pc) == worker[w].pc = pc /\ worker[w].task[1] = kind

TaskDone(w) == [task EXCEPT ![worker[w].task] = QueueRow("done", FALSE, w)]

\* A require fails, an RPC or the database raises: back off if still the owner.
WorkerFail(w) ==
  LET t == worker[w].task
  IN  /\ worker[w].pc # "idle"
      /\ task' = IF task[t].token = w /\ task[t].state = "running"
                 THEN [task EXCEPT ![t] = QueueRow("pending", FALSE, w)] ELSE task
      /\ worker' = [worker EXCEPT ![w] = IdleWorker]
      /\ UNCHANGED <<catalog, space, node, retired, confirm, maint>>

\* The process dies: the claim is left to its lease.
WorkerCrash(w) ==
  /\ worker[w].pc # "idle"
  /\ worker' = [worker EXCEPT ![w] = IdleWorker]
  /\ UNCHANGED <<tables, confirm, maint>>

\* "Never delete active upload data, a valid replica, or a repair reservation."
Removable(c, n) ==
  \/ object[c[1]] = "deleted"
  \/ /\ object[c[1]] = "published"
     /\ Rep(c, n).state \notin {"valid", "reserved", "unverified"}
     /\ Cardinality(Healthy(c)) >= Replicas

\* delete_task, first transaction.
DeleteBegin(w) ==
  LET c == worker[w].task[2]
      n == worker[w].task[3]
  IN  /\ At(w, "delete", "claimed")
      /\ Fenced(w)
      /\ node[n].instance # None
      /\ Removable(c, n)
      /\ replica' = IF n \in Rows(c)
                    THEN [replica EXCEPT ![<<c, n>>] = RepRow("deleting", @.charged, @.volume)]
                    ELSE replica
      /\ worker' = [worker EXCEPT ![w] = Job("remove", @.task, {}, None, node[n].instance)]
      /\ UNCHANGED <<catalog, reserved, used, node, retired, task, confirm, maint>>

\* An RPC between the two transactions of a task was answered OK.
Rpc(w, from, to) ==
  /\ worker[w].pc = from
  /\ worker' = [worker EXCEPT ![w].pc = to]
  /\ UNCHANGED <<tables, confirm, maint>>

DeleteRemoved(w) == Rpc(w, "remove", "removed")

\* delete_task, second transaction.
DeleteCommit(w) ==
  LET c == worker[w].task[2]
      n == worker[w].task[3]
  IN  /\ At(w, "delete", "removed")
      /\ Fenced(w)
      /\ node[n].instance = worker[w].instance
      /\ Uncharge(c, n)
      /\ replica' = [replica EXCEPT ![<<c, n>>] =
                       RepRow(IF @.state = "deleting" THEN "gone" ELSE @.state, "none", @.volume)]
      /\ task' = TaskDone(w)
      /\ worker' = [worker EXCEPT ![w] = IdleWorker]
      /\ UNCHANGED <<catalog, node, retired, confirm, maint>>

\* repair_task, first transaction, when nothing is missing any more.
RepairNotNeeded(w) ==
  LET c == worker[w].task[2]
  IN  /\ At(w, "repair", "claimed")
      /\ Fenced(w)
      /\ object[c[1]] = "published"
      /\ Cardinality(Healthy(c)) >= Replicas
      /\ task' = TaskDone(w)
      /\ worker' = [worker EXCEPT ![w] = IdleWorker]
      /\ UNCHANGED <<catalog, space, node, retired, confirm, maint>>

\* The target of a repair: the reserved row if there is one, or the first node
\* with room that has no row or only a "gone" one.
\* Mutant: a pending target is not looked for.
PendingTargetsNone(c) == {n \in Node : FALSE}

PendingTargets(c) == {n \in Node : Rep(c, n).state = "reserved"}

NewTargets(c) ==
  Reserve(Length(c), 1, {n \in Rows(c) : Rep(c, n).state # "gone"}, [n \in Node |-> 0])

\* repair_task, first transaction, ending with a target n.
RepairBegin(w, n) ==
  LET c == worker[w].task[2]
  IN  /\ At(w, "repair", "claimed")
      /\ Fenced(w)
      /\ object[c[1]] = "published"
      /\ Healthy(c) # {} /\ Cardinality(Healthy(c)) < Replicas
      /\ \/ /\ n \in PendingTargets(c) /\ \A m \in PendingTargets(c) : n <= m
            /\ UNCHANGED <<replica, reserved>>
         \/ /\ PendingTargets(c) = {} /\ n \in NewTargets(c)
            /\ replica' = [replica EXCEPT ![<<c, n>>] = NewRow(n)]
            /\ reserved' = [reserved EXCEPT ![n] = @ + Length(c)]
      /\ Fresh(n)
      /\ worker' = [worker EXCEPT ![w] = Job("fetch", @.task, Healthy(c), n, node[n].instance)]
      /\ UNCHANGED <<catalog, used, node, retired, task, confirm, maint>>

\* The RPCs of a repair: get from a source, put to the target, stat it.
RepairFetch(w) == Rpc(w, "fetch", "put")
RepairPut(w) == Rpc(w, "put", "stat")
RepairStat(w) == Rpc(w, "stat", "publish")

\* repair_task, second transaction.
RepairPublish(w) ==
  LET c == worker[w].task[2]
      n == worker[w].target
  IN  /\ At(w, "repair", "publish")
      /\ Fenced(w)
      /\ object[c[1]] = "published"
      /\ node[n].instance = worker[w].instance
      /\ Rep(c, n).state = "reserved" /\ Rep(c, n).charged = "reserved"
      /\ \/ /\ Cardinality(Healthy(c)) >= Replicas
            /\ Uncharge(c, n)
            /\ replica' = [replica EXCEPT ![<<c, n>>] = RepRow("bad", "none", @.volume)]
            /\ task' = Enqueue(TaskDone(w), {DeleteOf(c, n)}, TRUE)
         \/ /\ Cardinality(Healthy(c)) < Replicas
            /\ reserved' = [reserved EXCEPT ![n] = @ - Length(c)]
            /\ used' = [used EXCEPT ![n] = @ + Length(c)]
            /\ replica' = [replica EXCEPT ![<<c, n>>] = RepRow("valid", "used", @.volume)]
            /\ task' = TaskDone(w)
      /\ worker' = [worker EXCEPT ![w] = IdleWorker]
      /\ UNCHANGED <<catalog, node, retired, confirm, maint>>

-----------------------------------------------------------------------------
(***************************************************************************)
(* The maintenance loop: maintain, then reconcile node by node.            *)
(***************************************************************************)

\* maintain: expire uploads, queue repairs of under-replicated chunks.
Maintain(m) ==
  /\ maint[m].pc = "idle"
  /\ \E S \in Limited({o \in Object : upload[o] = "uploading" /\ lapsed[o]}, ExpireLimit) :
       /\ Retire(S, "expired")
       /\ task' = Enqueue(RetiredTasks(S),
                          {t \in Task : /\ t[1] = "repair" /\ object[t[2][1]] = "published"
                                        /\ Cardinality(Healthy(t[2])) < Replicas},
                          FALSE)
  /\ maint' = [maint EXCEPT ![m].pc = "reconcile"]
  /\ UNCHANGED <<node, retired, confirm, worker>>

\* The snapshot of live nodes a pass works from.
ReconcileBegin(m) ==
  /\ maint[m].pc = "reconcile"
  /\ LET live == [n \in Node |-> IF Fresh(n) THEN node[n].instance ELSE None]
     IN  maint' = [maint EXCEPT ![m] = Pass("next", live, None, {}, None, FALSE)]
  /\ UNCHANGED <<tables, confirm, worker>>

\* The unverified rows of the next node.
ReconcileNode(m, n) ==
  /\ maint[m].pc = "next"
  /\ maint[m].nodes[n] # None
  /\ \E S \in Limited({c \in Chunk : Rep(c, n).state = "unverified"}, CheckLimit) :
       maint' = [maint EXCEPT ![m] = Pass("check", @.nodes, n, S, None, FALSE)]
  /\ UNCHANGED <<tables, confirm, worker>>

\* One stat, answered (ok) or not.
ReconcileStat(m, c, ok) ==
  /\ maint[m].pc = "check" /\ c \in maint[m].todo
  /\ maint' = [maint EXCEPT ![m] = Pass("verify", @.nodes, @.node, @.todo \ {c}, c, ok)]
  /\ UNCHANGED <<tables, confirm, worker>>

\* Mutant: whatever process the node has now.
StillAskedAny(m) == TRUE

\* The node still has the process that the pass started from.
StillAsked(m) == node[maint[m].node].instance = maint[m].nodes[maint[m].node]

\* Record the outcome, unless the node is no longer the one that was asked.
ReconcileVerify(m) ==
  LET c == maint[m].chunk
      n == maint[m].node
      i == maint[m].nodes[n]
      row == Rep(c, n)
      lost == ~maint[m].ok /\ row.volume # VolumeOf[i]
      charged == IF lost THEN "none" ELSE row.charged
      verdict == IF maint[m].ok THEN "valid" ELSE "bad"
  IN  /\ maint[m].pc = "verify"
      /\ \/ ~StillAsked(m) /\ UNCHANGED space
         \/ /\ StillAsked(m)
            /\ replica' = [replica EXCEPT ![<<c, n>>] =
                 IF row.state = "unverified" THEN RepRow(verdict, charged, VolumeOf[i])
                                             ELSE RepRow(row.state, charged, row.volume)]
            /\ IF lost THEN Uncharge(c, n) ELSE UNCHANGED <<reserved, used>>
      /\ maint' = [maint EXCEPT ![m] = Pass("check", @.nodes, n, @.todo, None, FALSE)]
      /\ UNCHANGED <<catalog, node, retired, task, confirm, worker>>

\* The inventory RPC, once per page: chunk files the node says it holds.  A node
\* accepts a file only with a ticket, tickets are made for rows, a data directory
\* belongs to one node and rows are never dropped: a file always has a row.
ReconcileInventory(m, ids) ==
  /\ maint[m].pc \in {"check", "files"} /\ maint[m].todo = {}
  /\ \A c \in ids : maint[m].node \in Rows(c)
  /\ maint' = [maint EXCEPT ![m] = Pass("files", @.nodes, @.node, ids, None, FALSE)]
  /\ UNCHANGED <<tables, confirm, worker>>

\* Mutant: only published objects are looked at.
SurplusPublished(m, c) ==
  /\ object[c[1]] = "published"
  /\ Rep(c, maint[m].node).state \notin {"reserved", "valid", "unverified"}
  /\ Cardinality(Healthy(c)) >= Replicas

\* Nothing accounts for this file of the inventory, and it is not needed.
Surplus(m, c) ==
  LET n == maint[m].node
      accounted == /\ Rep(c, n).state \in {"reserved", "valid", "unverified"}
                   /\ Rep(c, n).volume = VolumeOf[maint[m].nodes[n]]
  IN  \/ object[c[1]] = "deleted"
      \/ /\ ~accounted
         /\ object[c[1]] = "published"
         /\ Cardinality(Healthy(c)) >= Replicas

\* One file of the inventory: queue its removal.
ReconcileFile(m, c) ==
  /\ maint[m].pc = "files" /\ c \in maint[m].todo
  /\ task' = IF Surplus(m, c) THEN Enqueue(task, {DeleteOf(c, maint[m].node)}, TRUE) ELSE task
  /\ maint' = [maint EXCEPT ![m].todo = @ \ {c}]
  /\ UNCHANGED <<catalog, space, node, retired, confirm, worker>>

\* The last file was handled, or the inventory RPC failed: next node.
ReconcileNext(m) ==
  /\ maint[m].pc \in {"check", "files"} /\ maint[m].todo = {}
  /\ LET rest == [maint[m].nodes EXCEPT ![maint[m].node] = None]
     IN  maint' = [maint EXCEPT ![m] = Pass("next", rest, None, {}, None, FALSE)]
  /\ UNCHANGED <<tables, confirm, worker>>

\* No node is left, or an exception ended the pass.
ReconcileEnd(m) ==
  /\ maint[m].pc # "idle"
  /\ maint' = [maint EXCEPT ![m] = IdleMaint]
  /\ UNCHANGED <<tables, confirm, worker>>

-----------------------------------------------------------------------------
Requests ==
  \/ \E o \in Object : InitUpload(o) \/ Complete(o) \/ Cancel(o) \/ Delete(o)
  \/ \E c \in Chunk, s \in Sha : Prepare(c, s)
  \/ \E c \in Chunk, n \in Node : BadReplica(c, n)
  \/ \E h \in Confirmer : \/ \E c \in Chunk : ConfirmBegin(h, c)
                          \/ \E n \in Node : ConfirmStat(h, n)
                          \/ ConfirmCommit(h)
                          \/ ConfirmAbort(h)

Environment ==
  \/ \E n \in Node : \E i \in Processes[n], free \in FreeReports : Heartbeat(n, i, free)
  \/ \E n \in Node : Age(n)
  \/ \E o \in Object : Lapse(o)
  \/ \E t \in Task : TaskDue(t)

Tasks ==
  \E w \in Worker :
    \/ \E t \in Task : Claim(w, t)
    \/ WorkerFail(w) \/ WorkerCrash(w)
    \/ DeleteBegin(w) \/ DeleteRemoved(w) \/ DeleteCommit(w)
    \/ RepairNotNeeded(w) \/ \E n \in Node : RepairBegin(w, n)
    \/ RepairFetch(w) \/ RepairPut(w) \/ RepairStat(w) \/ RepairPublish(w)

Maintenance ==
  \E m \in Maintainer :
    \/ Maintain(m) \/ ReconcileBegin(m)
    \/ \E n \in Node : ReconcileNode(m, n)
    \/ \E c \in Chunk, ok \in BOOLEAN : ReconcileStat(m, c, ok)
    \/ ReconcileVerify(m)
    \/ \E ids \in SUBSET Chunk : ReconcileInventory(m, ids)
    \/ \E c \in Chunk : ReconcileFile(m, c)
    \/ ReconcileNext(m) \/ ReconcileEnd(m)

Next == Requests \/ Environment \/ Tasks \/ Maintenance

Spec == Init /\ [][Next]_vars

-----------------------------------------------------------------------------
(***************************************************************************)
(* Properties.                                                             *)
(***************************************************************************)
ObjectState == {"absent", "staging", "published", "deleted"}
UploadState == {"absent", "uploading", "completed", "cancelled", "expired"}
ReplicaState == {"absent", "reserved", "valid", "bad", "unverified", "deleting", "gone"}
Charge == {"none", "reserved", "used"}

Row == [state : ReplicaState, charged : Charge, volume : Volume \cup {None}]
NodeRow == [instance : Instance \cup {None}, volume : Volume \cup {None},
            age : {"fresh", "suspect", "dead"}, free : Nat]
TaskRow == [state : {"pending", "running", "done"}, due : BOOLEAN,
            token : Worker \cup {None}]
ConfirmState == [chunk : Chunk \cup {None}, todo : SUBSET Node,
                 at : [Node -> Instance \cup {None}]]
WorkerState == [pc : {"idle", "claimed", "fetch", "put", "stat", "publish", "remove", "removed"},
                task : Task \cup {None}, sources : SUBSET Node,
                target : Node \cup {None}, instance : Instance \cup {None}]
MaintState == [pc : {"idle", "reconcile", "next", "check", "verify", "files"},
               nodes : [Node -> Instance \cup {None}], node : Node \cup {None},
               todo : SUBSET Chunk, chunk : Chunk \cup {None}, ok : BOOLEAN]

\* A thread's locals are set where its code has set them.
LocalsSet ==
  /\ \A h \in Confirmer : confirm[h].chunk = None => confirm[h].todo = {}
  /\ \A w \in Worker :
       /\ worker[w].pc # "idle" => worker[w].task \in Task
       /\ worker[w].pc \in {"fetch", "put", "stat", "publish"} =>
            worker[w].task[1] = "repair" /\ worker[w].target \in Node
       /\ worker[w].pc \in {"remove", "removed"} => worker[w].task[1] = "delete"
  /\ \A m \in Maintainer :
       /\ maint[m].pc \in {"check", "verify", "files"} =>
            maint[m].node \in Node /\ maint[m].nodes[maint[m].node] \in Instance
       /\ maint[m].pc = "verify" => maint[m].chunk \in Chunk

\* Every table row and every thread's locals have the columns' types, and no
\* thread reads a local before it is set.
TypeOK ==
  /\ object \in [Object -> ObjectState]
  /\ upload \in [Object -> UploadState]
  /\ lapsed \in [Object -> BOOLEAN]
  /\ chunk \in [Chunk -> [state : {"pending", "confirmed"}, sha : Sha \cup {None}]]
  /\ replica \in [Chunk \X Node -> Row]
  /\ node \in [Node -> NodeRow]
  /\ reserved \in [Node -> Int]
  /\ used \in [Node -> Int]
  /\ retired \in [Node -> SUBSET Instance]
  /\ task \in [Task -> TaskRow]
  /\ confirm \in [Confirmer -> ConfirmState]
  /\ worker \in [Worker -> WorkerState]
  /\ maint \in [Maintainer -> MaintState]
  /\ LocalsSet

\* Capacity accounting (ds_nodes.reserved and used_bytes against
\* ds_replicas.charged): the counters are exactly the bytes of the rows
\* charged to the node, whatever handlers, workers and restarts interleave.
ChargedTo(n, charge) == {c \in Chunk : Rep(c, n).charged = charge}

Accounting ==
  \A n \in Node : /\ reserved[n] = Bytes(ChargedTo(n, "reserved"))
                  /\ used[n] = Bytes(ChargedTo(n, "used"))

\* reserve never promises more than a node has: what is reserved and what is
\* used fit its capacity together, also when several uploads and repairs race.
NoOvercommit == \A n \in Node : reserved[n] + used[n] <= Capacity

\* Bytes are held in reserve exactly for the rows that still wait for their
\* data; a cancelled, expired, repaired or lost one holds none.
ReservationsWait ==
  \A c \in Chunk, n \in Node :
    Rep(c, n).charged = "reserved" <=> Rep(c, n).state = "reserved"

\* "Reuse a pending target after a crash instead of reserving twice": a
\* published chunk never has two repair reservations.
OneRepairTarget ==
  \A c \in Chunk : object[c[1]] = "published" =>
    Cardinality({n \in Node : Rep(c, n).state = "reserved"}) <= 1

\* retire is final for the rows: no confirm, repair, heartbeat or reconcile
\* that was under way brings a replica of a deleted object back.
DeletedRowsStayDown ==
  \A c \in Chunk, n \in Node : object[c[1]] = "deleted" =>
    Rep(c, n).state \in {"absent", "deleting", "gone"}

\* A row that readers or writers are sent to is on the volume the node has
\* now, although restarts race with confirm, repair and reconcile.
OnCurrentVolume ==
  \A c \in Chunk, n \in Node : Rep(c, n).state \in {"reserved", "valid"} =>
    Rep(c, n).volume = node[n].volume

\* What every path that touches a row or a node relies on: only an initialised
\* upload has rows, a row without data is not charged, data is only promised on
\* a registered node, and a node's volume is the one its process opened.
RowsAndNodes ==
  /\ \A c \in Chunk, n \in Node :
       /\ object[c[1]] = "absent" => Rep(c, n).state = "absent"
       /\ Rep(c, n).state \in {"absent", "gone"} => Rep(c, n).charged = "none"
       /\ Rep(c, n).state \in {"reserved", "valid"} => node[n].instance # None
  /\ \A n \in Node :
       /\ Fresh(n) => node[n].instance # None
       /\ node[n].instance # None => node[n].volume = VolumeOf[node[n].instance]

\* While a worker's claim passes the fence, the row it is about to remove is
\* out of use: nobody can make it valid or reserve it again meanwhile.
RemovalIsFenced ==
  \A w \in Worker : worker[w].pc \in {"remove", "removed"} /\ Fenced(w) =>
    Rep(worker[w].task[2], worker[w].task[3]).state = "deleting"

\* Only what has a row is ever queued for removal.
RemovalsHaveRows ==
  /\ \A c \in Chunk, n \in Node : task[DeleteOf(c, n)].state # "done" => n \in Rows(c)
  /\ \A m \in Maintainer : maint[m].pc = "files" =>
       \A c \in maint[m].todo : maint[m].node \in Rows(c)

\* The inductive invariant behind Accounting.
SpaceInv ==
  /\ TypeOK /\ Accounting /\ ReservationsWait /\ DeletedRowsStayDown
  /\ OnCurrentVolume /\ RowsAndNodes /\ RemovalIsFenced /\ RemovalsHaveRows

\* While a repair's claim passes the fence, its target row is the reservation
\* it made or took over.
RepairHoldsReservation ==
  \A w \in Worker : worker[w].pc \in {"fetch", "put", "stat", "publish"} /\ Fenced(w) =>
    Rep(worker[w].task[2], worker[w].target).state = "reserved"

\* Object and upload move together: an object is readable exactly when its
\* upload completed, and gone exactly when its upload ended otherwise.
UploadDecidesObject ==
  \A o \in Object :
    /\ object[o] = "published" <=> upload[o] = "completed"
    /\ object[o] = "deleted" <=> upload[o] \in {"cancelled", "expired"}

\* The tables implement ObjectStore: what an owner was told about an object stays
\* true, although confirm works outside the transactions, uploads expire in batches
\* and several requests for an object overlap.
Objects == INSTANCE ObjectStore WITH
  Pieces <- [o \in Object |-> 0 .. Count(o) - 1], Digest <- Sha, Undecided <- None,
  state <- [o \in Object |-> IF upload[o] = "expired" THEN "expired" ELSE object[o]],
  content <- [c \in Chunk |-> chunk[c].sha],
  stored <- {c \in Chunk : chunk[c].state = "confirmed"}
KeepsObjects == Objects!ObjectsSpec
=============================================================================
