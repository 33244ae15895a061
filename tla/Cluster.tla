------------------------------- MODULE Cluster -------------------------------
(***************************************************************************)
(* The distributed mode as a whole: the metadata service of module         *)
(* Metadata, whose RPCs now reach the storage nodes (distributed/          *)
(* storage.py, started by distributed/run.py) and whose tickets are used   *)
(* by the gateway (distributed/gateway.py).                                *)
(*                                                                         *)
(* A chunk's content is fixed by its checksum, which `put`, `stat` and     *)
(* `get` verify; so a file is here a chunk that a volume holds, and files  *)
(* that rot on disk are left out.  What a node does to one chunk happens   *)
(* under its locks and is one step.                                        *)
(***************************************************************************)
EXTENDS Metadata

CONSTANTS
  LateCalls,   \* BOOLEAN: may a node execute a remove after the caller's lease?
  FaultLimit   \* bound: crashes, late heartbeats and calls that fail for no reason

ASSUME FaultsAssumption == LateCalls \in BOOLEAN /\ FaultLimit \in Nat

\* A heartbeat carries whatever is free on the node's volume.
ASSUME ReportsAssumption == 0 .. Capacity \subseteq FreeReports

VARIABLES
  disk,     \* the chunk files on each volume of each node
  serving,  \* the process that listens on the node's address
  started,  \* the processes that were started so far
  ticket,   \* the write authorizations that have not expired
  signed,   \* the repair workers that have made the ticket of their put
  late,     \* removes that were given up by their callers, still to be executed
  faults    \* the number of faults so far

nodes == <<disk, serving, started>>
cluster == <<nodes, ticket, signed, late, faults>>
allVars == <<vars, cluster>>

-----------------------------------------------------------------------------
(***************************************************************************)
(* Storage nodes.                                                          *)
(***************************************************************************)
Files(n) == disk[<<n, VolumeOf[serving[n]]>>]

\* `stat` and `get` succeed.
Holds(n, c) == serving[n] # None /\ c \in Files(n)

\* The room check of `put`; an existing file is only verified.
Fits(n, c) == c \in Files(n) \/ Bytes(Files(n)) + Length(c) <= Capacity

\* `put` with ticket tk.
Accepts(tk) == serving[tk.node] = tk.instance /\ Fits(tk.node, tk.chunk)
Written(tk) == [disk EXCEPT ![<<tk.node, VolumeOf[tk.instance]>>] = @ \cup {tk.chunk}]

\* `remove` by the process i of node n.
Erased(n, i, c) == [disk EXCEPT ![<<n, VolumeOf[i]>>] = @ \ {c}]

\* Something goes wrong that need not.
Fault == faults < FaultLimit /\ faults' = faults + 1

NodeStart(n, i) ==
  /\ serving[n] = None /\ i \in Processes[n] \ started[n]
  /\ serving' = [serving EXCEPT ![n] = i]
  /\ started' = [started EXCEPT ![n] = @ \cup {i}]
  /\ UNCHANGED <<vars, disk, ticket, signed, late, faults>>

NodeStop(n) ==
  /\ serving[n] # None
  /\ Fault
  /\ serving' = [serving EXCEPT ![n] = None]
  /\ UNCHANGED <<vars, disk, started, ticket, signed, late>>

\* A heartbeat arrives, from the serving process or, late, from an earlier one.
NodeHeartbeat(n, i) ==
  /\ i \in started[n]
  /\ LET free == Capacity - Bytes(disk[<<n, VolumeOf[i]>>])
     IN  Heartbeat(n, i, IF free < 0 THEN 0 ELSE free)
  /\ IF i = serving[n] THEN UNCHANGED faults ELSE Fault
  /\ UNCHANGED <<nodes, ticket, signed, late>>

\* No heartbeat came for a while: its process is gone, or something is slow.
Silence(n) ==
  /\ Age(n)
  /\ IF node[n].instance # serving[n] THEN UNCHANGED faults ELSE Fault
  /\ UNCHANGED <<nodes, ticket, signed, late>>

-----------------------------------------------------------------------------
(***************************************************************************)
(* Tickets.  A removal is queued with a delay of auth_ttl + 30 seconds, so *)
(* the tickets that exist then (`old`) expire before it is due.            *)
(***************************************************************************)
Ticket(c, n, i) == [chunk |-> c, node |-> n, instance |-> i, old |-> FALSE]

\* Once a step has queued removals, the tickets for the same file are old.
Outdated ==
  {IF task[DeleteOf(tk.chunk, tk.node)].state = "done"
      /\ task'[DeleteOf(tk.chunk, tk.node)].state # "done"
   THEN [tk EXCEPT !.old = TRUE] ELSE tk : tk \in ticket}

\* The gateway's upload: prepare hands out one ticket for each location, ...
GatewayPrepare(c, s) ==
  /\ Prepare(c, s)
  /\ ticket' = ticket \cup {Ticket(c, n, node[n].instance) : n \in Positions(c)}
  /\ UNCHANGED <<nodes, signed, late, faults>>

\* ... and the data is sent with it; also a repair's put that was given up by
\* its worker may still be executed.
Put(tk) ==
  /\ tk \in ticket /\ Accepts(tk)
  /\ disk' = Written(tk)
  /\ UNCHANGED <<vars, serving, started, ticket, signed, late, faults>>

\* The gateway's download fails on a node the metadata sent it to: the file
\* could not be read, or the call failed for no reason.
GatewayBad(c, n) ==
  /\ n \in Healthy(c)
  /\ BadReplica(c, n)
  /\ IF Holds(n, c) THEN Fault ELSE UNCHANGED faults
  /\ UNCHANGED <<nodes, ticket, signed, late>>

-----------------------------------------------------------------------------
(***************************************************************************)
(* The requests that need no node, and the confirmation.                   *)
(***************************************************************************)
Request(o) ==
  /\ InitUpload(o) \/ Complete(o) \/ Cancel(o) \/ Delete(o)
  /\ ticket' = Outdated
  /\ UNCHANGED <<nodes, signed, late, faults>>

ConfirmRequest(h) ==
  /\ \/ \E c \in Chunk : ConfirmBegin(h, c)
     \/ \E n \in Node : ConfirmStat(h, n) /\ Holds(n, confirm[h].chunk)
     \/ ConfirmCommit(h)
     \/ ConfirmAbort(h)
  /\ UNCHANGED cluster

-----------------------------------------------------------------------------
(***************************************************************************)
(* Task threads.  A repair makes its own ticket, after it has fetched the  *)
(* data and slept.                                                         *)
(***************************************************************************)
Target(w) == Ticket(worker[w].task[2], worker[w].target, worker[w].instance)

\* The ticket of a repair outlives its put, unless something stalls.
TicketExpires(tk) ==
  LET waiting == {w \in signed : At(w, "repair", "put") /\ Target(w) = [tk EXCEPT !.old = FALSE]}
  IN  /\ tk \in ticket
      /\ ticket' = ticket \ {tk}
      /\ IF waiting = {} THEN UNCHANGED faults ELSE Fault
      /\ UNCHANGED <<vars, nodes, signed, late>>

Fetched(w) ==
  /\ RepairFetch(w)
  /\ \E n \in worker[w].sources : Holds(n, worker[w].task[2])
  /\ signed' = signed \ {w}
  /\ UNCHANGED <<nodes, ticket, late, faults>>

Authorized(w) ==
  /\ At(w, "repair", "put") /\ w \notin signed
  /\ ticket' = ticket \cup {Target(w)}
  /\ signed' = signed \cup {w}
  /\ UNCHANGED <<vars, nodes, late, faults>>

PutAnswered(w) ==
  /\ RepairPut(w)
  /\ w \in signed
  /\ \E tk \in ticket : [tk EXCEPT !.old = FALSE] = Target(w)
  /\ Accepts(Target(w))
  /\ disk' = Written(Target(w))
  /\ UNCHANGED <<serving, started, ticket, signed, late, faults>>

StatAnswered(w) ==
  /\ RepairStat(w)
  /\ Holds(worker[w].target, worker[w].task[2])
  /\ UNCHANGED cluster

Transaction(w) ==
  /\ \/ DeleteBegin(w) \/ DeleteCommit(w)
     \/ RepairNotNeeded(w) \/ RepairPublish(w)
     \/ \E n \in Node : RepairBegin(w, n)
  /\ ticket' = Outdated
  /\ UNCHANGED <<nodes, signed, late, faults>>

RemoveAnswered(w) ==
  LET n == worker[w].task[3]
  IN  /\ DeleteRemoved(w)
      /\ serving[n] = worker[w].instance
      /\ disk' = Erased(n, worker[w].instance, worker[w].task[2])
      /\ UNCHANGED <<serving, started, ticket, signed, late, faults>>

GoesOn(w) ==
  \/ Transaction(w) \/ Fetched(w) \/ Authorized(w) \/ PutAnswered(w) \/ StatAnswered(w)
  \/ RemoveAnswered(w)

\* The next call or transaction of the task cannot succeed.
Stuck(w) == ~ ENABLED GoesOn(w)

\* run_once catches an exception.
Failed(w) ==
  /\ WorkerFail(w)
  /\ IF Stuck(w) THEN UNCHANGED faults ELSE Fault
  /\ UNCHANGED <<nodes, ticket, signed, late>>

\* The node has executed the remove, its answer is lost.
AnswerLost(w) ==
  LET n == worker[w].task[3]
  IN  /\ worker[w].pc = "remove" /\ WorkerFail(w)
      /\ serving[n] = worker[w].instance
      /\ Fault
      /\ disk' = Erased(n, worker[w].instance, worker[w].task[2])
      /\ UNCHANGED <<serving, started, ticket, signed, late>>

\* The caller has given up, the node will execute the remove yet.
RemoveDelayed(w) ==
  /\ LateCalls
  /\ worker[w].pc = "remove" /\ WorkerFail(w)
  /\ Fault
  /\ late' = late \cup {<<worker[w].task[2], worker[w].task[3], worker[w].instance>>}
  /\ UNCHANGED <<nodes, ticket, signed>>

LateRemove(r) ==
  /\ r \in late
  /\ late' = late \ {r}
  /\ disk' = IF serving[r[2]] = r[3] THEN Erased(r[2], r[3], r[1]) ELSE disk
  /\ UNCHANGED <<vars, serving, started, ticket, signed, faults>>

Crashed(w) ==
  /\ WorkerCrash(w)
  /\ Fault
  /\ UNCHANGED <<nodes, ticket, signed, late>>

\* A lease ends.  The delay of a removal outlives the tickets that were there
\* when it was queued.  A claim outlives the work on it (config.py demands it),
\* unless something stalls; and unless LateCalls not while a remove is called.
LeaseEnds(t) ==
  LET busy == {w \in Worker : worker[w].pc # "idle" /\ worker[w].task = t /\ Fenced(w)}
  IN  /\ TaskDue(t)
      /\ t[1] = "delete" => ~ \E tk \in ticket : tk.chunk = t[2] /\ tk.node = t[3] /\ tk.old
      /\ LateCalls \/ \A w \in busy : worker[w].pc # "remove"
      /\ IF busy = {} THEN UNCHANGED faults ELSE Fault
      /\ UNCHANGED <<nodes, ticket, signed, late>>

TaskThread(w) ==
  \/ \E t \in Task : Claim(w, t) /\ UNCHANGED cluster
  \/ GoesOn(w)
  \/ Failed(w) \/ AnswerLost(w) \/ RemoveDelayed(w) \/ Crashed(w)

-----------------------------------------------------------------------------
(***************************************************************************)
(* The maintenance thread.                                                 *)
(***************************************************************************)
MaintainTables(m) ==
  /\ Maintain(m) \/ \E c \in Chunk : ReconcileFile(m, c)
  /\ ticket' = Outdated
  /\ UNCHANGED <<nodes, signed, late, faults>>

Asked(m) ==
  /\ \/ ReconcileBegin(m) \/ ReconcileVerify(m)
     \/ \E n \in Node : ReconcileNode(m, n)
  /\ UNCHANGED cluster

\* A stat finds the file, does not find it, or fails.
Statted(m, c) ==
  /\ \/ ReconcileStat(m, c, Holds(maint[m].node, c)) /\ UNCHANGED faults
     \/ ReconcileStat(m, c, FALSE) /\ Holds(maint[m].node, c) /\ Fault
  /\ UNCHANGED <<nodes, ticket, signed, late>>

\* The inventory is what the directory holds, in one page.
Listed(m) ==
  /\ maint[m].pc = "check"
  /\ serving[maint[m].node] # None
  /\ ReconcileInventory(m, Files(maint[m].node))
  /\ UNCHANGED cluster

NextNode(m) ==
  /\ ReconcileNext(m)
  /\ IF maint[m].pc = "files" \/ serving[maint[m].node] = None THEN UNCHANGED faults ELSE Fault
  /\ UNCHANGED <<nodes, ticket, signed, late>>

PassEnds(m) ==
  /\ ReconcileEnd(m)
  /\ IF maint[m].pc = "next" /\ maint[m].nodes = NoNodes THEN UNCHANGED faults ELSE Fault
  /\ UNCHANGED <<nodes, ticket, signed, late>>

MaintenanceThread(m) ==
  \/ MaintainTables(m) \/ Asked(m) \/ \E c \in Chunk : Statted(m, c)
  \/ Listed(m) \/ NextNode(m) \/ PassEnds(m)

-----------------------------------------------------------------------------
ClusterInit ==
  /\ Init
  /\ disk = [d \in Node \X Volume |-> {}]
  /\ serving = [n \in Node |-> None]
  /\ started = [n \in Node |-> {}]
  /\ ticket = {} /\ signed = {} /\ late = {} /\ faults = 0

UserRequests ==
  \/ \E o \in Object : Request(o)
  \/ \E c \in Chunk, s \in Sha : GatewayPrepare(c, s)
  \/ \E h \in Confirmer : ConfirmRequest(h)
  \/ \E c \in Chunk, n \in Node : GatewayBad(c, n)

NodeSteps ==
  \/ \E n \in Node : \E i \in Processes[n] : NodeStart(n, i) \/ NodeHeartbeat(n, i)
  \/ \E n \in Node : NodeStop(n) \/ Silence(n)
  \/ \E tk \in ticket : Put(tk) \/ TicketExpires(tk)
  \/ \E r \in late : LateRemove(r)

TimePasses ==
  \/ \E o \in Object : Lapse(o) /\ UNCHANGED cluster
  \/ \E t \in Task : LeaseEnds(t)

ClusterNext ==
  \/ UserRequests \/ NodeSteps \/ TimePasses
  \/ \E w \in Worker : TaskThread(w)
  \/ \E m \in Maintainer : MaintenanceThread(m)

ClusterSpec == ClusterInit /\ [][ClusterNext]_allVars

(***************************************************************************)
(* Fairness.  Time passes; a worker that is busy and the maintenance loop  *)
(* go on, and claim takes the task with the oldest lease, so that no task  *)
(* is passed over for ever.                                                *)
(***************************************************************************)
ThreadsFair ==
  /\ WF_allVars(\E tk \in ticket : TicketExpires(tk))
  /\ \A t \in Task : /\ WF_allVars(LeaseEnds(t))
                     /\ SF_allVars(\E w \in Worker : Claim(w, t) /\ UNCHANGED cluster)
  /\ \A w \in Worker : []<>(worker[w].pc = "idle") \/ []<><<worker'[w] # worker[w]>>_worker
  /\ \A m \in Maintainer : []<><<maint'[m] # maint[m]>>_maint

-----------------------------------------------------------------------------
(***************************************************************************)
(* Properties.                                                             *)
(***************************************************************************)

\* Durability: where the metadata says "valid", the process that is registered
\* and running for the node really has the file, whatever deletes, repairs,
\* restarts and reconciles were under way ("Never delete ... a valid replica").
ValidIsStored ==
  \A c \in Chunk, n \in Node :
    Rep(c, n).state = "valid" /\ serving[n] # None /\ serving[n] = node[n].instance
      => Holds(n, c)

\* Whatever a node holds is known to the metadata: writes need a ticket, tickets
\* are made for rows, and no path drops a row.  So reconcile finds a row for every
\* file of an inventory.
FilesHaveRows ==
  \A n \in Node, v \in Volume : \A c \in disk[<<n, v>>] : n \in Rows(c)

\* The files of a deleted object disappear for good, also those that arrive late.
CleanedUp ==
  \A o \in Object : object[o] = "deleted" ~> [](\A c \in Chunks(o), n \in Node : ~ Holds(n, c))

\* A published chunk gets its replicas back: no crash of a worker, lost answer,
\* expired lease or late heartbeat leaves its repair stuck.
Repaired ==
  \A c \in Chunk :
    []<>(object[c[1]] # "published" \/ Cardinality(Healthy(c)) >= Replicas)
=============================================================================
