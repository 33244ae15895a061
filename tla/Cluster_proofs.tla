----------------------------- MODULE Cluster_proofs -----------------------------
(***************************************************************************)
(* Proofs about the distributed mode as a whole, for any number of nodes,  *)
(* processes, volumes, chunks, threads and faults.                         *)
(***************************************************************************)
EXTENDS Cluster, Metadata_proofs

-----------------------------------------------------------------------------
(***************************************************************************)
(* Every step of the cluster is a step of FileService or leaves its tables *)
(* and threads alone, so that what was proved of Metadata holds here.      *)
(***************************************************************************)
TicketRow == [chunk : Chunk, node : Node, instance : Instance \cup {None}, old : BOOLEAN]

ClusterTypes ==
  /\ disk \in [Node \X Volume -> SUBSET Chunk]
  /\ serving \in [Node -> Instance \cup {None}]
  /\ ticket \subseteq TicketRow

\* The volume a process opened.
LEMMA VolumeOfInstance == \A i \in Instance : VolumeOf[i] \in Volume /\ i # None
  BY NoneAssumption DEF Volume

\* What a process holds are chunks.
LEMMA FilesAreChunks ==
  ASSUME ClusterTypes, NEW n \in Node, NEW i \in Instance
  PROVE  disk[<<n, VolumeOf[i]>>] \in SUBSET Chunk
  BY VolumeOfInstance DEF ClusterTypes

\* A heartbeat reports one of the values a node may report.
LEMMA HeartbeatImplements ==
  ASSUME ClusterTypes, NEW n \in Node, NEW i \in Processes[n], NodeHeartbeat(n, i)
  PROVE  Environment
<1> DEFINE held == Bytes(disk[<<n, VolumeOf[i]>>])
           free == IF Capacity - held < 0 THEN 0 ELSE Capacity - held
<1>1. i \in Instance
  BY NodesAssumption
<1>2. held \in Nat
  BY <1>1, FilesAreChunks, Numbers
<1>3. free \in 0 .. Capacity
  BY <1>2, NodesAssumption
<1>4. Heartbeat(n, i, free)
  BY DEF NodeHeartbeat
<1> HIDE DEF free
<1>5. free \in FreeReports
  BY <1>3, ReportsAssumption
<1>q. QED BY <1>4, <1>5 DEF Environment

\* Starts, stops, puts and late removes are outside the tables; a heartbeat is a call of heartbeat.
LEMMA NodeStepsImplement == ASSUME ClusterTypes, NodeSteps PROVE Environment \/ UNCHANGED vars
<1>1. ASSUME NEW n \in Node, NEW i \in Processes[n], NodeHeartbeat(n, i) PROVE Environment
  BY <1>1, HeartbeatImplements
<1>2. ASSUME NEW n \in Node, Silence(n) PROVE Environment
  BY <1>2 DEF Silence, Environment
<1>3. CASE \/ \E n \in Node : NodeStop(n)
           \/ \E n \in Node : \E i \in Processes[n] : NodeStart(n, i)
           \/ \E tk \in ticket : Put(tk) \/ TicketExpires(tk)
           \/ \E r \in late : LateRemove(r)
  BY <1>3 DEF NodeStop, NodeStart, Put, TicketExpires, LateRemove
<1>q. QED BY <1>1, <1>2, <1>3 DEF NodeSteps

\* The gateway calls the RPCs of FileService.
LEMMA RequestsImplement == ASSUME UserRequests PROVE Requests
<1>1. CASE \E o \in Object : Request(o)
  BY <1>1 DEF Request, Requests
<1>2. CASE \E c \in Chunk, s \in Sha : GatewayPrepare(c, s)
  BY <1>2 DEF GatewayPrepare, Requests
<1>3. CASE \E h \in Confirmer : ConfirmRequest(h)
  BY <1>3 DEF ConfirmRequest, Requests
<1>4. CASE \E c \in Chunk, n \in Node : GatewayBad(c, n)
  BY <1>4 DEF GatewayBad, Requests
<1>q. QED BY <1>1, <1>2, <1>3, <1>4 DEF UserRequests

\* Time passes for uploads and leases.
LEMMA TimeImplements == ASSUME TimePasses PROVE Environment
  BY DEF TimePasses, LeaseEnds, Environment

\* The calls to nodes are outcomes that Metadata leaves open; making a ticket changes no table.
LEMMA TasksImplement == ASSUME NEW w \in Worker, TaskThread(w) PROVE Tasks \/ UNCHANGED vars
<1>1. CASE \E t \in Task : Claim(w, t) /\ UNCHANGED cluster
  BY <1>1 DEF Tasks
<1>2. CASE Transaction(w)
  BY <1>2 DEF Transaction, Tasks
<1>3. CASE Fetched(w) \/ PutAnswered(w) \/ StatAnswered(w) \/ RemoveAnswered(w)
  BY <1>3 DEF Fetched, PutAnswered, StatAnswered, RemoveAnswered, Tasks
<1>4. CASE Authorized(w)
  BY <1>4 DEF Authorized
<1>5. CASE Failed(w) \/ AnswerLost(w) \/ RemoveDelayed(w) \/ Crashed(w)
  BY <1>5 DEF Failed, AnswerLost, RemoveDelayed, Crashed, Tasks
<1>q. QED BY <1>1, <1>2, <1>3, <1>4, <1>5 DEF TaskThread, GoesOn

\* An inventory lists chunks, a stat finds one or does not: both are answers Metadata allows.
LEMMA MaintenanceImplements ==
  ASSUME TypeOK, ClusterTypes, NEW m \in Maintainer, MaintenanceThread(m) PROVE Maintenance
<1>1. CASE MaintainTables(m)
  BY <1>1 DEF MaintainTables, Maintenance
<1>2. CASE Asked(m)
  BY <1>2 DEF Asked, Maintenance
<1>3. ASSUME NEW c \in Chunk, Statted(m, c) PROVE Maintenance
  <2>1. Holds(maint[m].node, c) \in BOOLEAN
    BY DEF Holds
  <2>q. QED BY <1>3, <2>1 DEF Statted, Maintenance
<1>4. CASE Listed(m)
  <2> DEFINE n == maint[m].node
  <2>1. n \in Node
    BY <1>4 DEF Listed, TypeOK, LocalsSet
  <2>2. serving[n] \in Instance
    BY <1>4, <2>1 DEF Listed, ClusterTypes
  <2>3. Files(n) \in SUBSET Chunk /\ ReconcileInventory(m, Files(n))
    BY <1>4, <2>1, <2>2, FilesAreChunks DEF Files, Listed
  <2>q. QED BY <2>3 DEF Maintenance
<1>5. CASE NextNode(m) \/ PassEnds(m)
  BY <1>5 DEF NextNode, PassEnds, Maintenance
<1>q. QED BY <1>1, <1>2, <1>3, <1>4, <1>5 DEF MaintenanceThread

\* Every step of the cluster.
LEMMA StepImplements ==
  ASSUME TypeOK, ClusterTypes, [ClusterNext]_allVars PROVE [Next]_vars
<1>1. CASE UNCHANGED allVars
  BY <1>1 DEF allVars
<1>q. QED BY <1>1, NodeStepsImplement, RequestsImplement, TimeImplements, TasksImplement,
             MaintenanceImplements DEF ClusterNext, Next

-----------------------------------------------------------------------------
(***************************************************************************)
(* Files and rows.  A put needs a ticket, a ticket is made for a row, and  *)
(* rows persist (Metadata_proofs).                                         *)
(***************************************************************************)
TicketsHaveRows == \A tk \in ticket : tk.node \in Rows(tk.chunk)

TargetsHaveRows ==
  \A w \in Worker : worker[w].pc \in Repairing => worker[w].target \in Rows(worker[w].task[2])

FilesInv == SpaceInv /\ ClusterTypes /\ TicketsHaveRows /\ TargetsHaveRows /\ FilesHaveRows

\* What a repairing worker works for.
LEMMA RepairerNames ==
  ASSUME TypeOK, NEW w \in Worker, worker[w].pc \in Repairing
  PROVE  /\ worker[w].task \in Task /\ worker[w].task[2] \in Chunk
         /\ worker[w].task = RepairOf(worker[w].task[2])
         /\ worker[w].target \in Node /\ worker[w].instance \in Instance \cup {None}
  BY DEF TypeOK, LocalsSet, Repairing, WorkerState, Task, RepairOf

\* A worker that repairs after a step did so before it, or has just got a target.
RepairersStep ==
  \A w \in Worker : worker'[w].pc \in Repairing =>
    \/ /\ worker[w].pc \in Repairing /\ worker[w].task = worker'[w].task
       /\ worker[w].target = worker'[w].target /\ worker[w].instance = worker'[w].instance
    \/ \E n \in Node : RepairBegin(w, n)

\* A step that writes the locals of one worker.
LEMMA OneRepairer ==
  ASSUME TypeOK, NEW w \in Worker, NEW j, worker' = [worker EXCEPT ![w] = j],
         j.pc \in Repairing =>
           \/ /\ worker[w].pc \in Repairing /\ worker[w].task = j.task
              /\ worker[w].target = j.target /\ worker[w].instance = j.instance
           \/ \E n \in Node : RepairBegin(w, n)
  PROVE  RepairersStep
<1> SUFFICES ASSUME NEW v \in Worker, worker'[v].pc \in Repairing
             PROVE  \/ /\ worker[v].pc \in Repairing /\ worker[v].task = worker'[v].task
                       /\ worker[v].target = worker'[v].target
                       /\ worker[v].instance = worker'[v].instance
                    \/ \E n \in Node : RepairBegin(v, n)
  BY DEF RepairersStep
<1>1. CASE v = w
  <2>1. worker'[v] = j
    BY <1>1 DEF TypeOK
  <2>q. QED BY <1>1, <2>1
<1>2. CASE v # w
  <2>1. worker'[v] = worker[v]
    BY <1>2 DEF TypeOK
  <2>q. QED BY <2>1
<1>q. QED BY <1>1, <1>2

\* repair_task keeps its target from its first transaction to its last.
LEMMA RepairersKeepTarget == ASSUME TypeOK, [Next]_vars PROVE RepairersStep
<1>1. CASE Tasks
  <2> PICK w \in Worker :
        \/ \E t \in Task : Claim(w, t)
        \/ WorkerFail(w) \/ WorkerCrash(w)
        \/ DeleteBegin(w) \/ DeleteRemoved(w) \/ DeleteCommit(w)
        \/ RepairNotNeeded(w) \/ \E n \in Node : RepairBegin(w, n)
        \/ RepairFetch(w) \/ RepairPut(w) \/ RepairStat(w) \/ RepairPublish(w)
    BY <1>1 DEF Tasks
  <2>t. worker \in [Worker -> WorkerState]
    BY DEF TypeOK
  <2>1. CASE \/ \E t \in Task : Claim(w, t)
             \/ WorkerFail(w) \/ WorkerCrash(w) \/ DeleteBegin(w) \/ DeleteCommit(w)
             \/ RepairNotNeeded(w) \/ RepairPublish(w)
    <3> DEFINE t == worker[w].task
               removing == Job("remove", t, {}, None, node[t[3]].instance)
    <3>1. \/ worker' = [worker EXCEPT ![w] = IdleWorker]
          \/ worker' = [worker EXCEPT ![w] = removing]
          \/ \E u \in Task : worker' = [worker EXCEPT ![w] = Job("claimed", u, {}, None, None)]
      BY <2>1 DEF Claim, WorkerFail, WorkerCrash, DeleteBegin, DeleteCommit, RepairNotNeeded, RepairPublish
    <3>2. /\ IdleWorker.pc \notin Repairing /\ removing.pc \notin Repairing
          /\ \A u : Job("claimed", u, {}, None, None).pc \notin Repairing
      BY DEF Repairing, IdleWorker, Job
    <3> HIDE DEF removing
    <3>q. QED BY <3>1, <3>2, OneRepairer, SMTT(30)
  <2>2. ASSUME NEW from, NEW to, Rpc(w, from, to),
               from \in Repairing \/ to \notin Repairing
        PROVE  RepairersStep
    <3> DEFINE j == [worker[w] EXCEPT !.pc = to]
    <3>1. worker' = [worker EXCEPT ![w] = j] /\ worker[w].pc = from
      BY <2>2, <2>t DEF Rpc
    <3>2. /\ j.pc = to /\ j.task = worker[w].task /\ j.target = worker[w].target
          /\ j.instance = worker[w].instance
      BY <2>t DEF WorkerState
    <3> HIDE DEF j
    <3>q. QED BY <2>2, <3>1, <3>2, OneRepairer
  <2>3. ASSUME NEW n \in Node, RepairBegin(w, n) PROVE RepairersStep
    <3>1. PICK j : worker' = [worker EXCEPT ![w] = j]
      BY <2>3 DEF RepairBegin
    <3>q. QED BY <2>3, <3>1, OneRepairer
  <2>4. {"fetch", "put", "stat"} \subseteq Repairing /\ "removed" \notin Repairing
    BY DEF Repairing
  <2>q. QED BY <2>1, <2>2, <2>3, <2>4 DEF DeleteRemoved, RepairFetch, RepairPut, RepairStat
<1>2. CASE UNCHANGED worker
  BY <1>2 DEF RepairersStep
<1>3. CASE Requests \/ Environment \/ Maintenance \/ UNCHANGED vars
  <2>1. UNCHANGED worker
    BY <1>3 DEF Requests, InitUpload, Complete, Cancel, Delete, Prepare, BadReplica, ConfirmBegin,
                ConfirmStat, ConfirmCommit, ConfirmAbort, Environment, Heartbeat, Age, Lapse, TaskDue,
                Maintenance, Maintain, ReconcileBegin, ReconcileNode, ReconcileStat, ReconcileVerify,
                ReconcileInventory, ReconcileFile, ReconcileNext, ReconcileEnd, vars, threads
  <2>q. QED BY <1>2, <2>1
<1>q. QED BY <1>1, <1>3 DEF Next
-----------------------------------------------------------------------------
\* What a step does to the files: nothing, or it writes one for which there is
\* a row, or it removes one that a worker is removing, or is still to be removed.
Writes ==
  \E c \in Chunk, n \in Node : \E v :
    n \in Rows(c) /\ disk' = [disk EXCEPT ![<<n, v>>] = @ \cup {c}]

Removing(c, n) == \E w \in Worker : worker[w].pc = "remove" /\ worker[w].task = DeleteOf(c, n)

Removes ==
  \E c, n, v : /\ disk' = [disk EXCEPT ![<<n, v>>] = @ \ {c}]
               /\ late # {} \/ (c \in Chunk /\ n \in Node /\ Removing(c, n))

\* What a removing worker works for.
LEMMA RemoverNames ==
  ASSUME TypeOK, NEW w \in Worker, worker[w].pc = "remove"
  PROVE  /\ worker[w].task[2] \in Chunk /\ worker[w].task[3] \in Node
         /\ worker[w].task = DeleteOf(worker[w].task[2], worker[w].task[3])
         /\ Removing(worker[w].task[2], worker[w].task[3])
<1> DEFINE t == worker[w].task
<1>1. t \in Task /\ t[1] = "delete"
  BY DEF TypeOK, LocalsSet
<1>2. t[2] \in Chunk /\ t[3] \in Node /\ t = DeleteOf(t[2], t[3])
  BY <1>1 DEF Task, DeleteOf
<1>q. QED BY <1>2 DEF Removing

\* Every worker's step.
LEMMA TasksFiles ==
  ASSUME TypeOK, TargetsHaveRows, NEW w \in Worker, TaskThread(w)
  PROVE  UNCHANGED disk \/ Writes \/ Removes
<1>1. CASE RemoveAnswered(w) \/ AnswerLost(w)
  <2> DEFINE c == worker[w].task[2]
             n == worker[w].task[3]
             v == VolumeOf[worker[w].instance]
  <2>1. worker[w].pc = "remove" /\ disk' = Erased(n, worker[w].instance, c)
    BY <1>1 DEF RemoveAnswered, AnswerLost, DeleteRemoved, Rpc
  <2>2. c \in Chunk /\ n \in Node /\ Removing(c, n)
    BY <2>1, RemoverNames
  <2>3. disk' = [disk EXCEPT ![<<n, v>>] = @ \ {c}]
    BY <2>1 DEF Erased
  <2>q. QED BY <2>2, <2>3 DEF Removes
<1>2. CASE PutAnswered(w)
  <2> DEFINE c == worker[w].task[2]
             n == worker[w].target
             v == VolumeOf[worker[w].instance]
  <2>1. worker[w].pc \in Repairing
    BY <1>2 DEF PutAnswered, RepairPut, Rpc, Repairing
  <2>2. c \in Chunk /\ n \in Node /\ n \in Rows(c)
    BY <2>1, RepairerNames DEF TargetsHaveRows
  <2>3. /\ Target(w).chunk = c /\ Target(w).node = n /\ Target(w).instance = worker[w].instance
        /\ disk' = Written(Target(w))
    BY <1>2 DEF PutAnswered, Target, Ticket
  <2>4. disk' = [disk EXCEPT ![<<n, v>>] = @ \cup {c}]
    BY <2>3 DEF Written
  <2>q. QED BY <2>2, <2>4 DEF Writes
<1>3. CASE \/ \E t \in Task : Claim(w, t) /\ UNCHANGED cluster
           \/ Transaction(w) \/ Fetched(w) \/ Authorized(w) \/ StatAnswered(w)
           \/ Failed(w) \/ RemoveDelayed(w) \/ Crashed(w)
  BY <1>3 DEF Transaction, Fetched, Authorized, StatAnswered, Failed, RemoveDelayed, Crashed, cluster, nodes
<1>q. QED BY <1>1, <1>2, <1>3 DEF TaskThread, GoesOn

\* Only a put writes a file at a node outside of a task, and only a late remove removes one.
LEMMA NodesFiles ==
  ASSUME ClusterTypes, TicketsHaveRows, NodeSteps
  PROVE  UNCHANGED disk \/ Writes \/ Removes
<1>1. ASSUME NEW tk \in ticket, Put(tk) PROVE Writes
  <2>1. /\ tk.chunk \in Chunk /\ tk.node \in Node /\ tk.node \in Rows(tk.chunk)
    BY DEF ClusterTypes, TicketRow, TicketsHaveRows
  <2>2. disk' = [disk EXCEPT ![<<tk.node, VolumeOf[tk.instance]>>] = @ \cup {tk.chunk}]
    BY <1>1 DEF Put, Written
  <2>q. QED BY <2>1, <2>2 DEF Writes
<1>2. ASSUME NEW r \in late, LateRemove(r) PROVE UNCHANGED disk \/ Removes
  BY <1>2 DEF LateRemove, Erased, Removes
<1>3. CASE \/ \E n \in Node : NodeStop(n) \/ Silence(n)
           \/ \E n \in Node : \E i \in Processes[n] : NodeStart(n, i) \/ NodeHeartbeat(n, i)
           \/ \E tk \in ticket : TicketExpires(tk)
  BY <1>3 DEF NodeStop, Silence, NodeStart, NodeHeartbeat, TicketExpires, nodes
<1>q. QED BY <1>1, <1>2, <1>3 DEF NodeSteps

\* Requests, time and the maintenance thread reach no file.
LEMMA OthersFiles ==
  ASSUME UserRequests \/ TimePasses \/ (\E m \in Maintainer : MaintenanceThread(m))
  PROVE  UNCHANGED nodes
  BY DEF UserRequests, Request, GatewayPrepare, ConfirmRequest, GatewayBad, TimePasses, LeaseEnds,
         MaintenanceThread, MaintainTables, Asked, Statted, Listed, NextNode, PassEnds, cluster

\* Every step of the cluster.
LEMMA StepFiles ==
  ASSUME FilesInv, ClusterNext PROVE UNCHANGED disk \/ Writes \/ Removes
<1>1. TypeOK /\ ClusterTypes /\ TicketsHaveRows /\ TargetsHaveRows
  BY DEF FilesInv, SpaceInv
<1>q. QED BY <1>1, TasksFiles, NodesFiles, OthersFiles DEF ClusterNext, nodes
\* Whatever is written or removed is a chunk on one volume.
LEMMA FilesKept ==
  ASSUME ClusterTypes, FilesHaveRows, RowsPersist, UNCHANGED disk \/ Writes \/ Removes
  PROVE  disk' \in [Node \X Volume -> SUBSET Chunk] /\ FilesHaveRows'
<1>1. disk \in [Node \X Volume -> SUBSET Chunk]
  BY DEF ClusterTypes
<1>2. ASSUME disk' \in [Node \X Volume -> SUBSET Chunk],
             \A n \in Node, v \in Volume : \A c \in disk'[<<n, v>>] : n \in Rows(c)
      PROVE  FilesHaveRows'
  <2>1. ASSUME NEW n \in Node, NEW v \in Volume, NEW c \in disk'[<<n, v>>]
        PROVE  replica'[<<c, n>>].state # "absent"
    <3>1. c \in Chunk
      BY <1>2, <2>1
    <3>2. Rep(c, n).state # "absent"
      BY <1>2, <2>1 DEF Rows
    <3>q. QED BY <3>1, <3>2 DEF RowsPersist
  <2>q. QED BY <2>1 DEF FilesHaveRows, Rows, Rep
<1>3. CASE UNCHANGED disk
  BY <1>1, <1>2, <1>3 DEF FilesHaveRows
<1>4. CASE Writes
  <2>1. PICK c \in Chunk, n \in Node : \E v :
          n \in Rows(c) /\ disk' = [disk EXCEPT ![<<n, v>>] = @ \cup {c}]
    BY <1>4 DEF Writes
  <2>2. PICK v : disk' = [disk EXCEPT ![<<n, v>>] = @ \cup {c}]
    BY <2>1
  <2>3. disk' \in [Node \X Volume -> SUBSET Chunk]
    BY <1>1, <2>2
  <2>4. ASSUME NEW m \in Node, NEW u \in Volume, NEW d \in disk'[<<m, u>>]
        PROVE  d \in disk[<<m, u>>] \/ (d = c /\ m = n)
    BY <1>1, <2>2, <2>4
  <2>q. QED BY <1>2, <2>1, <2>3, <2>4 DEF FilesHaveRows
<1>5. CASE Removes
  <2>1. PICK c, n, v : disk' = [disk EXCEPT ![<<n, v>>] = @ \ {c}]
    BY <1>5 DEF Removes
  <2>2. /\ disk' \in [Node \X Volume -> SUBSET Chunk]
        /\ \A m \in Node, u \in Volume : disk'[<<m, u>>] \subseteq disk[<<m, u>>]
    BY <1>1, <2>1
  <2>q. QED BY <1>2, <2>2 DEF FilesHaveRows
<1>q. QED BY <1>3, <1>4, <1>5

\* The tickets after a step are old ones, marked or not, or made for a row.
TicketsStep ==
  \A tk \in ticket' : tk \in TicketRow /\ (tk.node \in Rows(tk.chunk) \/ replica'[<<tk.chunk, tk.node>>].state # "absent")

\* Tickets that expire.
LEMMA FewerTickets ==
  ASSUME ClusterTypes, TicketsHaveRows, ticket' \subseteq ticket PROVE TicketsStep
  BY DEF ClusterTypes, TicketsHaveRows, TicketsStep

\* Tickets that get old.
LEMMA OutdatedTickets ==
  ASSUME ClusterTypes, TicketsHaveRows, ticket' = Outdated PROVE TicketsStep
<1>1. ASSUME NEW tk \in ticket
      PROVE  LET old == [tk EXCEPT !.old = TRUE]
             IN  old \in TicketRow /\ old.node = tk.node /\ old.chunk = tk.chunk
  BY DEF ClusterTypes, TicketRow
<1>2. ASSUME NEW x \in ticket'
      PROVE  \E tk \in ticket : x \in TicketRow /\ x.node = tk.node /\ x.chunk = tk.chunk
  <2>1. PICK tk \in ticket : x = tk \/ x = [tk EXCEPT !.old = TRUE]
    BY <1>2 DEF Outdated
  <2>2. tk \in TicketRow
    BY DEF ClusterTypes
  <2>q. QED BY <1>1, <2>1, <2>2
<1>q. QED BY <1>2 DEF TicketsHaveRows, TicketsStep

\* Tickets that are made for rows.
LEMMA MoreTickets ==
  ASSUME ClusterTypes, TicketsHaveRows, NEW T \in SUBSET TicketRow, ticket' = ticket \cup T,
         \A tk \in T : tk.node \in Rows(tk.chunk)
  PROVE  TicketsStep
  BY DEF ClusterTypes, TicketsHaveRows, TicketsStep

\* A ticket has the type of tickets.
LEMMA NewTicket ==
  ASSUME NEW c \in Chunk, NEW n \in Node, NEW i \in Instance \cup {None}
  PROVE  Ticket(c, n, i) \in TicketRow /\ Ticket(c, n, i).node = n /\ Ticket(c, n, i).chunk = c
  BY DEF Ticket, TicketRow

\* Tickets are only made by prepare, for the positions of a chunk, and for the target of a repair.
LEMMA StepTickets ==
  ASSUME FilesInv, ClusterNext PROVE TicketsStep
<1>1. TypeOK /\ ClusterTypes /\ TicketsHaveRows /\ TargetsHaveRows
  BY DEF FilesInv, SpaceInv
<1>2. ASSUME NEW c \in Chunk, NEW s \in Sha, GatewayPrepare(c, s) PROVE TicketsStep
  <2> DEFINE T == {Ticket(c, n, node[n].instance) : n \in Positions(c)}
  <2>1. ticket' = ticket \cup T
    BY <1>2 DEF GatewayPrepare
  <2>2. ASSUME NEW n \in Positions(c)
        PROVE  /\ Ticket(c, n, node[n].instance) \in TicketRow
               /\ Ticket(c, n, node[n].instance).node = n /\ Ticket(c, n, node[n].instance).chunk = c
               /\ n \in Rows(c)
    <3>1. n \in Node /\ n \in Rows(c)
      BY DEF Positions, Rows
    <3>2. node[n].instance \in Instance \cup {None}
      BY <1>1, <3>1 DEF TypeOK, NodeRow
    <3>q. QED BY <3>1, <3>2, NewTicket
  <2>3. T \in SUBSET TicketRow /\ \A tk \in T : tk.node \in Rows(tk.chunk)
    BY <2>2
  <2> HIDE DEF T
  <2>q. QED BY <1>1, <2>1, <2>3, MoreTickets
<1>3. ASSUME NEW w \in Worker, Authorized(w) PROVE TicketsStep
  <2>1. worker[w].pc \in Repairing /\ ticket' = ticket \cup {Target(w)}
    BY <1>3 DEF Authorized, At, Repairing
  <2>2. /\ Target(w) \in TicketRow
        /\ Target(w).node = worker[w].target /\ Target(w).chunk = worker[w].task[2]
    BY <1>1, <2>1, RepairerNames, NewTicket DEF Target
  <2>3. Target(w).node \in Rows(Target(w).chunk)
    BY <1>1, <2>1, <2>2 DEF TargetsHaveRows
  <2> DEFINE T == {Target(w)}
  <2>4. T \in SUBSET TicketRow /\ ticket' = ticket \cup T /\ \A tk \in T : tk.node \in Rows(tk.chunk)
    BY <2>1, <2>2, <2>3
  <2> HIDE DEF T
  <2>q. QED BY <1>1, <2>4, MoreTickets
<1>4. CASE \/ \E o \in Object : Request(o)
           \/ \E w \in Worker : Transaction(w)
           \/ \E m \in Maintainer : MaintainTables(m)
  <2>1. ticket' = Outdated
    BY <1>4 DEF Request, Transaction, MaintainTables
  <2>q. QED BY <1>1, <2>1, OutdatedTickets
<1>5. CASE NodeSteps \/ TimePasses
  <2>1. ticket' \subseteq ticket
    BY <1>5 DEF NodeSteps, NodeStart, NodeStop, NodeHeartbeat, Silence, Put, TicketExpires, LateRemove,
                TimePasses, LeaseEnds, cluster
  <2>q. QED BY <1>1, <2>1, FewerTickets
<1>6. CASE \/ \E h \in Confirmer : ConfirmRequest(h)
           \/ \E c \in Chunk, n \in Node : GatewayBad(c, n)
  <2>1. ticket' = ticket
    BY <1>6 DEF ConfirmRequest, GatewayBad, cluster
  <2>q. QED BY <1>1, <2>1, FewerTickets
<1>7. ASSUME NEW m \in Maintainer,
             \/ Asked(m) \/ (\E c \in Chunk : Statted(m, c)) \/ Listed(m) \/ NextNode(m) \/ PassEnds(m)
      PROVE  TicketsStep
  <2>1. ticket' = ticket
    BY <1>7 DEF Asked, Statted, Listed, NextNode, PassEnds, cluster
  <2>q. QED BY <1>1, <2>1, FewerTickets
<1>8. ASSUME NEW w \in Worker,
             \/ \E t \in Task : Claim(w, t) /\ UNCHANGED cluster
             \/ Fetched(w) \/ PutAnswered(w) \/ StatAnswered(w) \/ RemoveAnswered(w)
             \/ Failed(w) \/ AnswerLost(w) \/ RemoveDelayed(w) \/ Crashed(w)
      PROVE  TicketsStep
  <2>1. ticket' = ticket
    BY <1>8 DEF Fetched, PutAnswered, StatAnswered, RemoveAnswered, Failed, AnswerLost, RemoveDelayed,
                Crashed, cluster
  <2>q. QED BY <1>1, <2>1, FewerTickets
<1>q. QED BY <1>2, <1>3, <1>4, <1>5, <1>6, <1>7, <1>8
          DEF ClusterNext, UserRequests, TaskThread, GoesOn, MaintenanceThread

\* The process that listens is one of the node's.
LEMMA StepServing ==
  ASSUME ClusterTypes, ClusterNext PROVE serving' \in [Node -> Instance \cup {None}]
<1>1. ASSUME NEW n \in Node, NEW i \in Processes[n], NodeStart(n, i)
      PROVE  serving' \in [Node -> Instance \cup {None}]
  BY <1>1, NodesAssumption DEF NodeStart, ClusterTypes
<1>2. ASSUME NEW n \in Node, NodeStop(n) PROVE serving' \in [Node -> Instance \cup {None}]
  BY <1>2 DEF NodeStop, ClusterTypes
<1>3. CASE UNCHANGED serving
  BY <1>3 DEF ClusterTypes
<1>4. CASE \/ \E n \in Node : Silence(n)
           \/ \E n \in Node : \E i \in Processes[n] : NodeHeartbeat(n, i)
           \/ \E tk \in ticket : Put(tk) \/ TicketExpires(tk)
           \/ \E r \in late : LateRemove(r)
  BY <1>3, <1>4 DEF Silence, NodeHeartbeat, Put, TicketExpires, LateRemove, nodes
<1>5. ASSUME NEW w \in Worker, TaskThread(w) PROVE UNCHANGED serving
  BY <1>5 DEF TaskThread, GoesOn, Transaction, Fetched, Authorized, PutAnswered, StatAnswered, RemoveAnswered,
              Failed, AnswerLost, RemoveDelayed, Crashed, cluster, nodes
<1>q. QED BY <1>1, <1>2, <1>3, <1>4, <1>5, OthersFiles DEF ClusterNext, NodeSteps, nodes

\* The rows of a repair's target exist when it begins.
LEMMA BeginHasRow ==
  ASSUME TypeOK, NEW w \in Worker, NEW n \in Node, RepairBegin(w, n)
  PROVE  /\ worker'[w].target = n /\ worker'[w].task = worker[w].task /\ worker[w].task[2] \in Chunk
         /\ replica'[<<worker[w].task[2], n>>].state # "absent"
         /\ worker'[w].instance = node[n].instance /\ Fresh(n)
<1> DEFINE c == worker[w].task[2]
<1>1. c \in Chunk
  BY WorkerNames DEF RepairBegin, At
<1>2. \/ n \in PendingTargets(c) /\ UNCHANGED replica
      \/ replica' = [replica EXCEPT ![<<c, n>>] = NewRow(n)]
  BY DEF RepairBegin
<1>3. worker' = [worker EXCEPT ![w] = Job("fetch", worker[w].task, Healthy(c), n, node[n].instance)]
  BY DEF RepairBegin
<1>4. replica'[<<c, n>>].state # "absent"
  BY <1>1, <1>2 DEF PendingTargets, Rep, TypeOK, NewRow, RepRow
<1>q. QED BY <1>1, <1>3, <1>4 DEF RepairBegin, Job, TypeOK

\* The invariant is inductive: rows persist, so what has one keeps it.
LEMMA FilesNext == ASSUME FilesInv, [ClusterNext]_allVars PROVE FilesInv'
<1>1. TypeOK /\ RowInv /\ RemovalIsFenced /\ ClusterTypes /\ TicketsHaveRows /\ TargetsHaveRows /\ FilesHaveRows
  BY RowInvParts DEF FilesInv, SpaceInv
<1>2. [Next]_vars
  BY <1>1, StepImplements
<1>3. SpaceInv' /\ TypeOK'
  BY <1>2, SpaceNext DEF FilesInv, SpaceInv
<1>4. RowsPersist
  BY <1>1, <1>2, NextPersists
<1>5. TargetsHaveRows'
  <2>1. RepairersStep
    BY <1>1, <1>2, RepairersKeepTarget
  <2>2. ASSUME NEW w \in Worker, worker'[w].pc \in Repairing
        PROVE  replica'[<<worker'[w].task[2], worker'[w].target>>].state # "absent" /\ worker'[w].target \in Node
    <3>1. CASE /\ worker[w].pc \in Repairing /\ worker[w].task = worker'[w].task
               /\ worker[w].target = worker'[w].target
      <4>1. worker[w].task[2] \in Chunk /\ worker[w].target \in Node /\ worker[w].target \in Rows(worker[w].task[2])
        BY <1>1, <3>1, RepairerNames DEF TargetsHaveRows
      <4>q. QED BY <1>4, <3>1, <4>1 DEF Rows, RowsPersist
    <3>2. ASSUME NEW n \in Node, RepairBegin(w, n)
          PROVE  replica'[<<worker'[w].task[2], worker'[w].target>>].state # "absent" /\ worker'[w].target \in Node
      BY <1>1, <3>2, BeginHasRow
    <3>q. QED BY <2>1, <2>2, <3>1, <3>2 DEF RepairersStep
  <2>q. QED BY <2>2 DEF TargetsHaveRows, Rows, Rep
<1>6. CASE UNCHANGED allVars
  <2>1. FilesHaveRows' /\ ClusterTypes' /\ TicketsHaveRows'
    BY <1>1, <1>6 DEF allVars, vars, tables, space, cluster, nodes, FilesHaveRows, ClusterTypes,
                      TicketsHaveRows, Rows, Rep
  <2>q. QED BY <1>3, <1>5, <2>1 DEF FilesInv
<1>7. CASE ClusterNext
  <2>1. disk' \in [Node \X Volume -> SUBSET Chunk] /\ FilesHaveRows'
    BY <1>1, <1>4, <1>7, StepFiles, FilesKept
  <2>2. serving' \in [Node -> Instance \cup {None}]
    BY <1>1, <1>7, StepServing
  <2>3. \A tk \in ticket' : tk \in TicketRow /\ replica'[<<tk.chunk, tk.node>>].state # "absent"
    <3>1. TicketsStep
      BY <1>7, StepTickets
    <3>2. ASSUME NEW tk \in ticket'
          PROVE  tk \in TicketRow /\ replica'[<<tk.chunk, tk.node>>].state # "absent"
      <4>1. tk \in TicketRow /\ tk.chunk \in Chunk /\ tk.node \in Node
        BY <3>1 DEF TicketsStep, TicketRow
      <4>2. tk.node \in Rows(tk.chunk) \/ replica'[<<tk.chunk, tk.node>>].state # "absent"
        BY <3>1 DEF TicketsStep
      <4>q. QED BY <1>4, <4>1, <4>2 DEF Rows, RowsPersist
    <3>q. QED BY <3>2
  <2>4. ClusterTypes' /\ TicketsHaveRows'
    <3>1. \A tk \in TicketRow : tk.node \in Node
      BY DEF TicketRow
    <3>q. QED BY <2>1, <2>2, <2>3, <3>1 DEF ClusterTypes, TicketsHaveRows, Rows, Rep
  <2>q. QED BY <1>3, <1>5, <2>1, <2>4 DEF FilesInv
<1>q. QED BY <1>6, <1>7

\* At first there is no file and no ticket.
LEMMA FilesInit == ASSUME ClusterInit PROVE FilesInv
<1>1. SpaceInv
  BY SpaceInit DEF ClusterInit
<1>2. ClusterTypes /\ TicketsHaveRows /\ FilesHaveRows
  BY DEF ClusterInit, ClusterTypes, TicketsHaveRows, FilesHaveRows
<1>3. TargetsHaveRows
  BY DEF ClusterInit, Init, IdleWorker, Job, TargetsHaveRows, Repairing
<1>q. QED BY <1>1, <1>2, <1>3 DEF FilesInv

\* Every file on a disk, every write ticket and every repair target has a row: storage.py
\* accepts a put only with a ticket, and metadata.py makes tickets for rows and drops none.
THEOREM FilesAreInvariant == ClusterSpec => []FilesInv
<1>1. FilesInv /\ [ClusterNext]_allVars => FilesInv'
  BY FilesNext
<1>q. QED BY <1>1, FilesInit, PTL DEF ClusterSpec

\* The composed system is FileService: whatever was proved of Metadata with nodes
\* left open holds with the nodes of storage.py and the writes of gateway.py.
THEOREM ClusterIsMetadata == ClusterSpec => Spec
<1>1. ClusterInit => Init
  BY DEF ClusterInit
<1>2. FilesInv /\ [ClusterNext]_allVars => [Next]_vars
  <2>1. FilesInv => TypeOK /\ ClusterTypes
    BY DEF FilesInv, SpaceInv
  <2>q. QED BY <2>1, StepImplements
<1>q. QED BY <1>1, <1>2, FilesAreInvariant, PTL DEF ClusterSpec, Spec

\* No file without a row: a put needs a ticket, and tickets are made for rows only.
THEOREM NoUnknownFiles == ClusterSpec => []FilesHaveRows
<1>1. FilesInv => FilesHaveRows
  BY DEF FilesInv
<1>q. QED BY <1>1, FilesAreInvariant, PTL
-----------------------------------------------------------------------------
(***************************************************************************)
(* Durability.  First, what a step of FileService does to its rows.  A row *)
(* only becomes valid by a confirm, a repair or a reconcile; it is only in *)
(* doubt again when its node is replaced; and it is only given up when its *)
(* object is published or deleted.                                         *)
(***************************************************************************)
Ended == {"published", "deleted"}

\* The row is decided to be valid.
Decided(c, n) ==
  \/ \E h \in Confirmer : ConfirmCommit(h) /\ confirm[h].chunk = c /\ n \in Counted(h)
  \/ \E w \in Worker : RepairPublish(w) /\ worker[w].task[2] = c /\ worker[w].target = n
  \/ \E m \in Maintainer : /\ ReconcileVerify(m) /\ StillAsked(m) /\ maint[m].ok
                           /\ maint[m].chunk = c /\ maint[m].node = n
                           /\ Rep(c, n).state = "unverified"

\* Another process takes the node over.
Replaced(n) == node[n].instance # None /\ node'[n].instance # node[n].instance

RowStep(c, n, new) ==
  /\ new = "valid" => ~ Replaced(n) /\ (Rep(c, n).state = "valid" \/ Decided(c, n))
  /\ new = "unverified" => Rep(c, n).state = "unverified" \/ Replaced(n)
  /\ new = "deleting" => Rep(c, n).state = "deleting" \/ object'[c[1]] \in Ended

RowsStep == \A c \in Chunk, n \in Node : RowStep(c, n, replica'[<<c, n>>].state)

ObjectsEnd == \A o \in Object : object[o] \in Ended => object'[o] \in Ended

NodesStep ==
  \A n \in Node :
    \/ node'[n].instance = node[n].instance /\ retired'[n] = retired[n]
    \/ node[n].instance = None /\ node'[n].instance # None /\ retired'[n] = retired[n]
    \/ /\ Replaced(n) /\ node'[n].instance # None
       /\ node'[n].instance \notin retired[n] /\ retired'[n] = retired[n] \cup {node[n].instance}

TableStep == RowsStep /\ ObjectsEnd /\ NodesStep

\* A step that writes no row.
LEMMA SameRowsStep ==
  ASSUME TypeOK, UNCHANGED replica, NodesStep, \A n \in Node : ~ Replaced(n), ObjectsEnd
  PROVE  TableStep
  BY DEF TableStep, RowsStep, RowStep, Rep

\* A step that writes no node.
LEMMA SameNodes ==
  ASSUME UNCHANGED <<node, retired>> PROVE NodesStep /\ \A n \in Node : ~ Replaced(n)
  BY DEF NodesStep, Replaced

\* A step that writes one row.
LEMMA OneRowStep ==
  ASSUME TypeOK, UNCHANGED <<object, node, retired>>, NEW c \in Chunk, NEW n \in Node, NEW row,
         replica' = [replica EXCEPT ![<<c, n>>] = row],
         row.state = "valid" => Rep(c, n).state = "valid" \/ Decided(c, n),
         row.state = "unverified" => Rep(c, n).state = "unverified",
         row.state = "deleting" => Rep(c, n).state = "deleting" \/ object[c[1]] \in Ended
  PROVE  TableStep
<1>1. NodesStep /\ \A m \in Node : ~ Replaced(m)
  BY SameNodes
<1>2. \A d \in Chunk, m \in Node : replica'[<<d, m>>] = IF d = c /\ m = n THEN row ELSE Rep(d, m)
  BY DEF TypeOK, Rep
<1>3. ASSUME NEW d \in Chunk, NEW m \in Node PROVE RowStep(d, m, replica'[<<d, m>>].state)
  <2>1. CASE d = c /\ m = n
    BY <1>1, <1>2, <2>1 DEF RowStep
  <2>2. CASE ~ (d = c /\ m = n)
    BY <1>1, <1>2, <2>2 DEF RowStep
  <2>q. QED BY <2>1, <2>2
<1>q. QED BY <1>1, <1>3 DEF TableStep, RowsStep, ObjectsEnd

\* retire gives up rows of objects it deletes.
LEMMA RetireStep ==
  ASSUME TypeOK, NEW S, NEW end, Retire(S, end), UNCHANGED <<node, retired>> PROVE TableStep
<1>1. NodesStep /\ \A m \in Node : ~ Replaced(m)
  BY SameNodes
<1>2. object' = [o \in Object |-> IF o \in S THEN "deleted" ELSE object[o]]
  BY DEF Retire
<1>3. ASSUME NEW d \in Chunk, NEW m \in Node PROVE RowStep(d, m, replica'[<<d, m>>].state)
  <2>1. replica'[<<d, m>>] = IF d[1] \in S THEN RetiredRow(Rep(d, m)) ELSE Rep(d, m)
    BY DEF Retire, Rep
  <2>2. d[1] \in S => object'[d[1]] = "deleted"
    BY <1>2, ChunkObject
  <2>3. CASE d[1] \in S
    <3>1. replica'[<<d, m>>].state \in {"deleting", "gone", "absent"}
      BY <2>1, <2>3 DEF RetiredRow, RepRow
    <3>q. QED BY <2>2, <2>3, <3>1 DEF RowStep, Ended
  <2>4. CASE d[1] \notin S
    BY <1>1, <2>1, <2>4 DEF RowStep
  <2>q. QED BY <2>3, <2>4
<1>q. QED BY <1>1, <1>2, <1>3 DEF TableStep, RowsStep, ObjectsEnd, Ended

\* Requests: confirm decides, cancel and delete give up.
LEMMA RequestsStepRows == ASSUME TypeOK, Requests PROVE TableStep
<1>1. ASSUME NEW o \in Object, InitUpload(o) PROVE TableStep
  <2>1. NodesStep /\ \A m \in Node : ~ Replaced(m)
    BY <1>1, SameNodes DEF InitUpload
  <2>2. ObjectsEnd
    BY <1>1 DEF InitUpload, ObjectsEnd, TypeOK, Ended
  <2>3. ASSUME NEW d \in Chunk, NEW m \in Node PROVE RowStep(d, m, replica'[<<d, m>>].state)
    <3>1. replica'[<<d, m>>] = Rep(d, m) \/ replica'[<<d, m>>] = NewRow(m)
      BY <1>1 DEF InitUpload, Rep
    <3>2. NewRow(m).state = "reserved"
      BY DEF NewRow, RepRow
    <3>q. QED BY <2>1, <3>1, <3>2 DEF RowStep
  <2>q. QED BY <2>1, <2>2, <2>3 DEF TableStep, RowsStep
<1>2. ASSUME NEW o \in Object, Complete(o) PROVE TableStep
  <2>1. ObjectsEnd
    BY <1>2 DEF Complete, ObjectsEnd, TypeOK, Ended
  <2>2. UNCHANGED <<replica, node, retired>>
    BY <1>2 DEF Complete, space
  <2>q. QED BY <2>1, <2>2, SameNodes, SameRowsStep
<1>3. ASSUME NEW o \in Object, Cancel(o) \/ Delete(o) PROVE TableStep
  BY <1>3, RetireStep DEF Cancel, Delete
<1>4. ASSUME NEW c \in Chunk, NEW n \in Node, BadReplica(c, n) PROVE TableStep
  <2> DEFINE row == RepRow("bad", Rep(c, n).charged, Rep(c, n).volume)
  <2>1. /\ UNCHANGED <<object, node, retired>>
        /\ UNCHANGED replica \/ replica' = [replica EXCEPT ![<<c, n>>] = row]
    BY <1>4 DEF BadReplica, Rep, catalog
  <2>2. row.state = "bad"
    BY DEF RepRow
  <2>3. ObjectsEnd
    BY <2>1 DEF ObjectsEnd
  <2> HIDE DEF row
  <2>q. QED BY <2>1, <2>2, <2>3, OneRowStep, SameRowsStep, SameNodes
<1>5. ASSUME NEW h \in Confirmer, ConfirmCommit(h) PROVE TableStep
  <2>1. UNCHANGED <<object, node, retired>>
    BY <1>5 DEF ConfirmCommit
  <2>2. NodesStep /\ \A m \in Node : ~ Replaced(m)
    BY <2>1, SameNodes
  <2>3. ASSUME NEW d \in Chunk, NEW m \in Node PROVE RowStep(d, m, replica'[<<d, m>>].state)
    <3>1. CASE d = confirm[h].chunk /\ m \in Counted(h)
      <4>1. replica'[<<d, m>>].state = "valid"
        BY <1>5, <3>1 DEF ConfirmCommit, RepRow
      <4>2. Decided(d, m)
        BY <1>5, <3>1 DEF Decided
      <4>q. QED BY <2>2, <4>1, <4>2 DEF RowStep
    <3>2. CASE ~ (d = confirm[h].chunk /\ m \in Counted(h))
      <4>1. replica'[<<d, m>>] = Rep(d, m)
        BY <1>5, <3>2 DEF ConfirmCommit, Rep
      <4>q. QED BY <2>2, <4>1 DEF RowStep
    <3>q. QED BY <3>1, <3>2
  <2>q. QED BY <2>1, <2>2, <2>3 DEF TableStep, RowsStep, ObjectsEnd
<1>6. CASE \/ \E c \in Chunk, s \in Sha : Prepare(c, s)
           \/ \E h \in Confirmer : \/ \E c \in Chunk : ConfirmBegin(h, c)
                                   \/ \E n \in Node : ConfirmStat(h, n)
                                   \/ ConfirmAbort(h)
  <2>1. UNCHANGED <<object, replica, node, retired>>
    BY <1>6 DEF Prepare, ConfirmBegin, ConfirmStat, ConfirmAbort, tables, catalog, space
  <2>q. QED BY <2>1, SameRowsStep, SameNodes DEF ObjectsEnd
<1>q. QED BY <1>1, <1>2, <1>3, <1>4, <1>5, <1>6 DEF Requests

\* A heartbeat of another process puts rows in doubt.
LEMMA EnvironmentStepRows == ASSUME TypeOK, Environment PROVE TableStep
<1>1. ASSUME NEW n \in Node, NEW i \in Processes[n], NEW free \in FreeReports, Heartbeat(n, i, free)
      PROVE  TableStep
  <2> DEFINE takeover == node[n].instance \notin {None, i}
  <2>1. i \in Instance /\ i # None
    BY NodesAssumption, NoneAssumption
  <2>2. node' = [node EXCEPT ![n] = [instance |-> i, volume |-> VolumeOf[i], age |-> "fresh", free |-> free]]
    BY <1>1 DEF Heartbeat
  <2>3. \A m \in Node : node'[m].instance = IF m = n THEN i ELSE node[m].instance
    BY <2>2 DEF TypeOK
  <2>4. \A m \in Node : Replaced(m) <=> m = n /\ takeover
    BY <2>3 DEF Replaced
  <2>5. \A m \in Node : retired'[m] = IF m = n /\ takeover THEN retired[m] \cup {node[m].instance} ELSE retired[m]
    BY <1>1 DEF Heartbeat, TypeOK
  <2>6. takeover => i \notin retired[n]
    BY <1>1 DEF Heartbeat, MayTakeOver
  <2>7. NodesStep
    <3>1. ASSUME NEW m \in Node
          PROVE  \/ node'[m].instance = node[m].instance /\ retired'[m] = retired[m]
                 \/ node[m].instance = None /\ node'[m].instance # None /\ retired'[m] = retired[m]
                 \/ /\ Replaced(m) /\ node'[m].instance # None
                    /\ node'[m].instance \notin retired[m] /\ retired'[m] = retired[m] \cup {node[m].instance}
      BY <2>1, <2>3, <2>4, <2>5, <2>6
    <3>q. QED BY <3>1 DEF NodesStep
  <2>8. ASSUME NEW d \in Chunk, NEW m \in Node PROVE RowStep(d, m, replica'[<<d, m>>].state)
    <3>1. replica'[<<d, m>>] = IF takeover /\ m = n THEN RowAfterChange(Rep(d, m), VolumeOf[i]) ELSE Rep(d, m)
      BY <1>1 DEF Heartbeat, Rep
    <3>2. CASE takeover /\ m = n
      <4>1. /\ RowAfterChange(Rep(d, m), VolumeOf[i]).state # "valid"
            /\ RowAfterChange(Rep(d, m), VolumeOf[i]).state = "deleting" => Rep(d, m).state = "deleting"
        BY DEF RowAfterChange, RepRow
      <4>2. Replaced(m)
        BY <2>4, <3>2
      <4>q. QED BY <3>1, <3>2, <4>1, <4>2 DEF RowStep
    <3>3. CASE ~ (takeover /\ m = n)
      BY <2>4, <3>1, <3>3 DEF RowStep
    <3>q. QED BY <3>2, <3>3
  <2>9. ObjectsEnd
    BY <1>1 DEF Heartbeat, catalog, ObjectsEnd
  <2>q. QED BY <2>7, <2>8, <2>9 DEF TableStep, RowsStep
<1>2. ASSUME NEW n \in Node, Age(n) PROVE TableStep
  <2>1. UNCHANGED <<object, replica, retired>>
    BY <1>2 DEF Age, catalog, space
  <2>2. \A m \in Node : node'[m].instance = node[m].instance
    BY <1>2 DEF Age, TypeOK, NodeRow
  <2>q. QED BY <2>1, <2>2, SameRowsStep DEF ObjectsEnd, NodesStep, Replaced
<1>3. CASE (\E o \in Object : Lapse(o)) \/ (\E t \in Task : TaskDue(t))
  <2>1. UNCHANGED <<object, replica, node, retired>>
    BY <1>3 DEF Lapse, TaskDue, catalog, space
  <2>q. QED BY <2>1, SameRowsStep, SameNodes DEF ObjectsEnd
<1>q. QED BY <1>1, <1>2, <1>3 DEF Environment

\* Tasks: repair decides, removal gives up rows of objects that are published or deleted.
LEMMA TasksStepRows == ASSUME TypeOK, NEW w \in Worker, NEW t, t = worker[w].task PROVE
  /\ DeleteBegin(w) => TableStep
  /\ DeleteCommit(w) => TableStep
  /\ \A n \in Node : RepairBegin(w, n) => TableStep
  /\ RepairPublish(w) => TableStep
<1>1. ASSUME DeleteBegin(w) PROVE TableStep
  <2> DEFINE c == t[2]
             n == t[3]
             row == RepRow("deleting", Rep(c, n).charged, Rep(c, n).volume)
  <2>1. c \in Chunk /\ n \in Node
    BY <1>1, WorkerNames DEF DeleteBegin, At
  <2>2. /\ UNCHANGED <<object, node, retired>> /\ Removable(c, n)
        /\ UNCHANGED replica \/ replica' = [replica EXCEPT ![<<c, n>>] = row]
    BY <1>1 DEF DeleteBegin, Rep, catalog
  <2>3. row.state = "deleting" /\ object[c[1]] \in Ended
    BY <2>2 DEF RepRow, Removable, Ended
  <2>4. ObjectsEnd
    BY <2>2 DEF ObjectsEnd
  <2> HIDE DEF row, c, n
  <2>q. QED BY <2>1, <2>2, <2>3, <2>4, OneRowStep, SameRowsStep, SameNodes
<1>2. ASSUME DeleteCommit(w) PROVE TableStep
  <2> DEFINE c == t[2]
             n == t[3]
             row == RepRow(IF Rep(c, n).state = "deleting" THEN "gone" ELSE Rep(c, n).state,
                           "none", Rep(c, n).volume)
  <2>1. c \in Chunk /\ n \in Node
    BY <1>2, WorkerNames DEF DeleteCommit, At
  <2>2. UNCHANGED <<object, node, retired>> /\ replica' = [replica EXCEPT ![<<c, n>>] = row]
    BY <1>2 DEF DeleteCommit, Rep, catalog
  <2>3. row.state = Rep(c, n).state \/ row.state = "gone"
    BY DEF RepRow
  <2> HIDE DEF row, c, n
  <2>q. QED BY <2>1, <2>2, <2>3, OneRowStep
<1>3. ASSUME NEW n \in Node, RepairBegin(w, n) PROVE TableStep
  <2> DEFINE c == t[2]
  <2>1. c \in Chunk
    BY <1>3, WorkerNames DEF RepairBegin, At
  <2>2. /\ UNCHANGED <<object, node, retired>>
        /\ UNCHANGED replica \/ replica' = [replica EXCEPT ![<<c, n>>] = NewRow(n)]
    BY <1>3 DEF RepairBegin, catalog
  <2>3. NewRow(n).state = "reserved"
    BY DEF NewRow, RepRow
  <2>4. ObjectsEnd
    BY <2>2 DEF ObjectsEnd
  <2> HIDE DEF c
  <2>q. QED BY <2>1, <2>2, <2>3, <2>4, OneRowStep, SameRowsStep, SameNodes
<1>4. ASSUME RepairPublish(w) PROVE TableStep
  <2> DEFINE c == t[2]
             n == worker[w].target
             bad == RepRow("bad", "none", Rep(c, n).volume)
             valid == RepRow("valid", "used", Rep(c, n).volume)
  <2>1. c \in Chunk /\ n \in Node
    BY <1>4, WorkerNames DEF RepairPublish, At
  <2>2. /\ UNCHANGED <<object, node, retired>>
        /\ \/ replica' = [replica EXCEPT ![<<c, n>>] = bad]
           \/ replica' = [replica EXCEPT ![<<c, n>>] = valid]
    BY <1>4 DEF RepairPublish, Rep, catalog
  <2>3. bad.state = "bad" /\ valid.state = "valid" /\ Decided(c, n)
    BY <1>4 DEF RepRow, Decided
  <2> HIDE DEF bad, valid, c, n
  <2>q. QED BY <2>1, <2>2, <2>3, OneRowStep
<1>q. QED BY <1>1, <1>2, <1>3, <1>4

\* Maintenance: reconcile decides, expiry gives up.
LEMMA MaintenanceStepRows == ASSUME TypeOK, Maintenance PROVE TableStep
<1> PICK m \in Maintainer :
      \/ Maintain(m) \/ ReconcileBegin(m)
      \/ \E n \in Node : ReconcileNode(m, n)
      \/ \E c \in Chunk, ok \in BOOLEAN : ReconcileStat(m, c, ok)
      \/ ReconcileVerify(m)
      \/ \E ids \in SUBSET Chunk : ReconcileInventory(m, ids)
      \/ \E c \in Chunk : ReconcileFile(m, c)
      \/ ReconcileNext(m) \/ ReconcileEnd(m)
  BY DEF Maintenance
<1>1. CASE Maintain(m)
  BY <1>1, RetireStep DEF Maintain
<1>2. CASE ReconcileVerify(m)
  <2> DEFINE c == maint[m].chunk
             n == maint[m].node
  <2>1. c \in Chunk /\ n \in Node /\ UNCHANGED <<object, node, retired>>
    BY <1>2, MaintNames DEF ReconcileVerify, catalog
  <2>2. \/ UNCHANGED replica
        \/ \E row : /\ replica' = [replica EXCEPT ![<<c, n>>] = row]
                    /\ \/ row.state = Rep(c, n).state
                       \/ /\ StillAsked(m) /\ Rep(c, n).state = "unverified"
                          /\ row.state = IF maint[m].ok THEN "valid" ELSE "bad"
    BY <1>2 DEF ReconcileVerify, RepRow, space
  <2>3. StillAsked(m) /\ Rep(c, n).state = "unverified" /\ maint[m].ok => Decided(c, n)
    BY <1>2 DEF Decided
  <2>4. ObjectsEnd
    BY <2>1 DEF ObjectsEnd
  <2> HIDE DEF c, n
  <2>q. QED BY <2>1, <2>2, <2>3, <2>4, OneRowStep, SameRowsStep, SameNodes
<1>3. CASE \/ ReconcileBegin(m)
           \/ \E n \in Node : ReconcileNode(m, n)
           \/ \E c \in Chunk, ok \in BOOLEAN : ReconcileStat(m, c, ok)
           \/ \E ids \in SUBSET Chunk : ReconcileInventory(m, ids)
           \/ \E c \in Chunk : ReconcileFile(m, c)
           \/ ReconcileNext(m) \/ ReconcileEnd(m)
  <2>1. UNCHANGED <<object, replica, node, retired>>
    BY <1>3 DEF ReconcileBegin, ReconcileNode, ReconcileStat, ReconcileInventory, ReconcileFile,
                ReconcileNext, ReconcileEnd, tables, catalog, space
  <2>q. QED BY <2>1, SameRowsStep, SameNodes DEF ObjectsEnd
<1>q. QED BY <1>1, <1>2, <1>3

\* Every step of FileService.
LEMMA NextStepRows == ASSUME TypeOK, [Next]_vars PROVE TableStep
<1>1. CASE Tasks
  <2> PICK w \in Worker :
        \/ \E t \in Task : Claim(w, t)
        \/ WorkerFail(w) \/ WorkerCrash(w)
        \/ DeleteBegin(w) \/ DeleteRemoved(w) \/ DeleteCommit(w)
        \/ RepairNotNeeded(w) \/ \E n \in Node : RepairBegin(w, n)
        \/ RepairFetch(w) \/ RepairPut(w) \/ RepairStat(w) \/ RepairPublish(w)
    BY <1>1 DEF Tasks
  <2>1. CASE \/ \E t \in Task : Claim(w, t)
             \/ WorkerFail(w) \/ WorkerCrash(w) \/ DeleteRemoved(w) \/ RepairNotNeeded(w)
             \/ RepairFetch(w) \/ RepairPut(w) \/ RepairStat(w)
    <3>1. UNCHANGED <<object, replica, node, retired>>
      BY <2>1 DEF Claim, WorkerFail, WorkerCrash, DeleteRemoved, RepairNotNeeded, RepairFetch, RepairPut,
                  RepairStat, Rpc, tables, catalog, space
    <3>q. QED BY <3>1, SameRowsStep, SameNodes DEF ObjectsEnd
  <2>q. QED BY <2>1, TasksStepRows
<1>2. CASE UNCHANGED vars
  <2>1. UNCHANGED <<object, replica, node, retired>>
    BY <1>2 DEF vars, tables, catalog, space
  <2>q. QED BY <2>1, SameRowsStep, SameNodes DEF ObjectsEnd
<1>q. QED BY <1>1, <1>2, RequestsStepRows, EnvironmentStepRows, MaintenanceStepRows DEF Next
-----------------------------------------------------------------------------
(***************************************************************************)
(* Claims.  What is claimed stays so until its worker ends it or its lease *)
(* runs out; only claim gives a worker one.                                *)
(***************************************************************************)
RunningRemovals == \A t \in Task : t[1] = "delete" /\ task[t].state = "running" => task'[t] = task[t]

\* retire leaves running removals alone.
LEMMA RetiredRunning ==
  ASSUME NEW S
  PROVE  \A t \in Task : t[1] = "delete" /\ task[t].state = "running" => RetiredTasks(S)[t] = task[t]
  BY DEF RetiredTasks, Enqueue

\* Only time and workers end a claim of a removal.
LEMMA OthersClaims ==
  ASSUME TypeOK, \/ Requests \/ Maintenance
                 \/ Environment /\ ~ \E t \in Task : TaskDue(t)
  PROVE  UNCHANGED worker /\ RunningRemovals
<1>1. CASE Requests
  <2>1. UNCHANGED worker
    BY <1>1 DEF Requests, InitUpload, Complete, Cancel, Delete, Prepare, BadReplica, ConfirmBegin,
                ConfirmStat, ConfirmCommit, ConfirmAbort, threads
  <2>2. \/ UNCHANGED task
        \/ \E o \in Object : task' = RetiredTasks({o})
        \/ \E T : task' = Enqueue(task, T, FALSE)
    BY <1>1 DEF Requests, InitUpload, Complete, Cancel, Delete, Prepare, BadReplica, ConfirmBegin,
                ConfirmStat, ConfirmCommit, ConfirmAbort, tables
  <2>3. ASSUME UNCHANGED task PROVE RunningRemovals
    BY <2>3 DEF RunningRemovals
  <2>4. ASSUME NEW o \in Object, task' = RetiredTasks({o}) PROVE RunningRemovals
    <3>1. \A t \in Task : t[1] = "delete" /\ task[t].state = "running" => RetiredTasks({o})[t] = task[t]
      BY RetiredRunning
    <3>q. QED BY <3>1, <2>4 DEF RunningRemovals
  <2>5. ASSUME NEW T, task' = Enqueue(task, T, FALSE) PROVE RunningRemovals
    <3>1. \A t \in Task : task[t].state = "running" => Enqueue(task, T, FALSE)[t] = task[t]
      BY DEF Enqueue
    <3>q. QED BY <3>1, <2>5 DEF RunningRemovals
  <2>q. QED BY <2>1, <2>2, <2>3, <2>4, <2>5
<1>2. CASE Environment /\ ~ \E t \in Task : TaskDue(t)
  BY <1>2 DEF Environment, Heartbeat, Age, Lapse, threads, RunningRemovals
<1>3. CASE Maintenance
  <2> PICK m \in Maintainer :
        \/ Maintain(m) \/ ReconcileBegin(m)
        \/ \E n \in Node : ReconcileNode(m, n)
        \/ \E c \in Chunk, ok \in BOOLEAN : ReconcileStat(m, c, ok)
        \/ ReconcileVerify(m)
        \/ \E ids \in SUBSET Chunk : ReconcileInventory(m, ids)
        \/ \E c \in Chunk : ReconcileFile(m, c)
        \/ ReconcileNext(m) \/ ReconcileEnd(m)
    BY <1>3 DEF Maintenance
  <2>1. CASE Maintain(m)
    <3>1. UNCHANGED worker /\ \E S, T : task' = Enqueue(RetiredTasks(S), T, FALSE)
      BY <2>1 DEF Maintain
    <3>2. PICK S, T : task' = Enqueue(RetiredTasks(S), T, FALSE)
      BY <3>1
    <3>3. ASSUME NEW t \in Task, t[1] = "delete", task[t].state = "running" PROVE task'[t] = task[t]
      <4>1. RetiredTasks(S)[t] = task[t]
        BY <3>3, RetiredRunning
      <4>2. RetiredTasks(S)[t].state = "running" => Enqueue(RetiredTasks(S), T, FALSE)[t] = RetiredTasks(S)[t]
        BY DEF Enqueue
      <4>q. QED BY <3>2, <3>3, <4>1, <4>2
    <3>q. QED BY <3>1, <3>3 DEF RunningRemovals
  <2>2. ASSUME NEW c \in Chunk, ReconcileFile(m, c) PROVE UNCHANGED worker /\ RunningRemovals
    <3>1. UNCHANGED worker /\ (task' = task \/ task' = Enqueue(task, {DeleteOf(c, maint[m].node)}, TRUE))
      BY <2>2 DEF ReconcileFile
    <3> DEFINE D == {DeleteOf(c, maint[m].node)}
    <3>2. \A t \in Task : task[t].state = "running" => Enqueue(task, D, TRUE)[t] = task[t]
      BY DEF Enqueue
    <3>3. \A t \in Task : task[t].state = "running" => task'[t] = task[t]
      BY <3>1, <3>2
    <3>q. QED BY <3>1, <3>3 DEF RunningRemovals
  <2>3. CASE \/ ReconcileBegin(m)
             \/ \E n \in Node : ReconcileNode(m, n)
             \/ \E c \in Chunk, ok \in BOOLEAN : ReconcileStat(m, c, ok)
             \/ ReconcileVerify(m)
             \/ \E ids \in SUBSET Chunk : ReconcileInventory(m, ids)
             \/ ReconcileNext(m) \/ ReconcileEnd(m)
    BY <2>3 DEF ReconcileBegin, ReconcileNode, ReconcileStat, ReconcileVerify, ReconcileInventory,
                ReconcileNext, ReconcileEnd, tables, RunningRemovals
  <2>q. QED BY <2>1, <2>2, <2>3
<1>q. QED BY <1>1, <1>2, <1>3

WorkerAction(w) ==
  \/ \E t \in Task : Claim(w, t)
  \/ WorkerFail(w) \/ WorkerCrash(w)
  \/ DeleteBegin(w) \/ DeleteRemoved(w) \/ DeleteCommit(w)
  \/ RepairNotNeeded(w) \/ \E n \in Node : RepairBegin(w, n)
  \/ RepairFetch(w) \/ RepairPut(w) \/ RepairStat(w) \/ RepairPublish(w)

\* A worker only writes a task that is due, done or its own.
LEMMA WorkerWrites ==
  ASSUME TypeOK, NEW w \in Worker, WorkerAction(w)
  PROVE  /\ \A v \in Worker : v # w => worker'[v] = worker[v]
         /\ \A t \in Task : \/ task'[t] = task[t] \/ task[t].due \/ task[t].state # "running"
                            \/ task[t].token = w
         /\ \A t \in Task : \/ task'[t] = task[t] \/ task'[t].state # "running"
                            \/ task'[t].token = w /\ worker'[w].pc = "claimed"
<1>t. task \in [Task -> TaskRow] /\ worker \in [Worker -> WorkerState]
  BY DEF TypeOK
<1>1. \A v \in Worker : v # w => worker'[v] = worker[v]
  BY <1>t DEF WorkerAction, Claim, WorkerFail, WorkerCrash, DeleteBegin, DeleteRemoved, DeleteCommit,
              RepairNotNeeded, RepairBegin, RepairFetch, RepairPut, RepairStat, RepairPublish, Rpc
<1>2. ASSUME NEW u \in Task, Claim(w, u)
      PROVE  /\ \A t \in Task : task'[t] = task[t] \/ task[t].due
             /\ \A t \in Task : task'[t] = task[t] \/ (task'[t].token = w /\ worker'[w].pc = "claimed")
  <2>1. \A t \in Task : task'[t] = IF t = u THEN QueueRow("running", FALSE, w) ELSE task[t]
    BY <1>2, <1>t DEF Claim
  <2>2. task[u].due /\ worker'[w].pc = "claimed"
    BY <1>2, <1>t DEF Claim, Job
  <2>q. QED BY <2>1, <2>2 DEF QueueRow
<1>3. CASE WorkerFail(w)
  <2> DEFINE u == worker[w].task
  <2>1. \/ task' = task
        \/ task[u].token = w /\ task' = [task EXCEPT ![u] = QueueRow("pending", FALSE, w)]
    BY <1>3 DEF WorkerFail
  <2> HIDE DEF u
  <2>q. QED BY <1>1, <1>t, <2>1 DEF QueueRow
<1>4. CASE DeleteCommit(w) \/ RepairNotNeeded(w) \/ RepairPublish(w)
  <2> DEFINE u == worker[w].task
             D == {DeleteOf(u[2], worker[w].target)}
  <2>1. Fenced(w) /\ u \in Task
    BY <1>4, WorkerNames DEF DeleteCommit, RepairNotNeeded, RepairPublish, At
  <2>2. task' = TaskDone(w) \/ task' = Enqueue(TaskDone(w), D, TRUE)
    BY <1>4 DEF DeleteCommit, RepairNotNeeded, RepairPublish
  <2>3. \A t \in Task : TaskDone(w)[t] = IF t = u THEN QueueRow("done", FALSE, w) ELSE task[t]
    BY <1>t, <2>1 DEF TaskDone
  <2>4. task[u].token = w
    BY <2>1 DEF Fenced
  <2> HIDE DEF u, D
  <2>5. \A t \in Task : /\ Enqueue(TaskDone(w), D, TRUE)[t] = TaskDone(w)[t] \/ TaskDone(w)[t].state = "done"
                        /\ \/ Enqueue(TaskDone(w), D, TRUE)[t] = TaskDone(w)[t]
                           \/ Enqueue(TaskDone(w), D, TRUE)[t].state = "pending"
    BY DEF Enqueue, QueueRow
  <2>6. \A t \in Task : /\ task'[t] = TaskDone(w)[t] \/ TaskDone(w)[t].state = "done"
                        /\ task'[t] = TaskDone(w)[t] \/ task'[t].state = "pending"
    BY <2>2, <2>5
  <2>q. QED BY <1>1, <2>3, <2>4, <2>6 DEF QueueRow
<1>5. CASE \/ WorkerCrash(w) \/ DeleteBegin(w) \/ DeleteRemoved(w)
           \/ (\E n \in Node : RepairBegin(w, n))
           \/ RepairFetch(w) \/ RepairPut(w) \/ RepairStat(w)
  <2>1. task' = task
    BY <1>5 DEF WorkerCrash, DeleteBegin, DeleteRemoved, RepairBegin, RepairFetch, RepairPut, RepairStat,
                Rpc, tables
  <2>q. QED BY <1>1, <2>1
<1>q. QED BY <1>1, <1>2, <1>3, <1>4, <1>5 DEF WorkerAction

\* Only claim gives a worker a claim.
ClaimStep ==
  \A t \in Task : \/ task'[t] = task[t] \/ task'[t].state # "running" \/ task'[t].due
                  \/ \E v \in Worker : task'[t].token = v /\ worker'[v].pc = "claimed"

\* Every step of FileService.
LEMMA OnlyClaim == ASSUME TypeOK, [Next]_vars PROVE ClaimStep
<1>1. CASE Tasks
  <2>1. PICK w \in Worker : WorkerAction(w)
    BY <1>1 DEF Tasks, WorkerAction
  <2>q. QED BY <2>1, WorkerWrites DEF ClaimStep
<1>2. CASE Requests
  <2>1. \/ UNCHANGED task
        \/ \E o \in Object : task' = RetiredTasks({o})
        \/ \E T : task' = Enqueue(task, T, FALSE)
    BY <1>2 DEF Requests, InitUpload, Complete, Cancel, Delete, Prepare, BadReplica, ConfirmBegin,
                ConfirmStat, ConfirmCommit, ConfirmAbort, tables
  <2>2. \A T : \A t \in Task : Enqueue(task, T, FALSE)[t] = task[t] \/ Enqueue(task, T, FALSE)[t].state = "pending"
    BY EnqueueState
  <2>3. \A S : \A t \in Task : RetiredTasks(S)[t] = task[t] \/ RetiredTasks(S)[t].state # "running"
    BY RetiredTasksState
  <2>q. QED BY <2>1, <2>2, <2>3 DEF ClaimStep
<1>3. CASE Environment
  <2>1. CASE \E u \in Task : TaskDue(u)
    <3>1. PICK u \in Task : task' = [task EXCEPT ![u].due = TRUE]
      BY <2>1 DEF TaskDue
    <3>2. \A t \in Task : task'[t] = task[t] \/ task'[t].due
      BY <3>1 DEF TypeOK, TaskRow
    <3>q. QED BY <3>2 DEF ClaimStep
  <2>q. QED BY <1>3, <2>1 DEF Environment, Heartbeat, Age, Lapse, ClaimStep
<1>4. CASE Maintenance
  <2> PICK m \in Maintainer :
        \/ Maintain(m) \/ ReconcileBegin(m)
        \/ \E n \in Node : ReconcileNode(m, n)
        \/ \E c \in Chunk, ok \in BOOLEAN : ReconcileStat(m, c, ok)
        \/ ReconcileVerify(m)
        \/ \E ids \in SUBSET Chunk : ReconcileInventory(m, ids)
        \/ \E c \in Chunk : ReconcileFile(m, c)
        \/ ReconcileNext(m) \/ ReconcileEnd(m)
    BY <1>4 DEF Maintenance
  <2>1. CASE Maintain(m)
    <3>1. PICK S, T : task' = Enqueue(RetiredTasks(S), T, FALSE)
      BY <2>1 DEF Maintain
    <3>2. \A t \in Task : RetiredTasks(S)[t] = task[t] \/ RetiredTasks(S)[t].state # "running"
      BY RetiredTasksState
    <3>3. \A t \in Task : task'[t] = RetiredTasks(S)[t] \/ task'[t].state = "pending"
      BY <3>1, EnqueueState
    <3>q. QED BY <3>2, <3>3 DEF ClaimStep
  <2>2. ASSUME NEW c \in Chunk, ReconcileFile(m, c) PROVE ClaimStep
    <3>1. task' = task \/ task' = Enqueue(task, {DeleteOf(c, maint[m].node)}, TRUE)
      BY <2>2 DEF ReconcileFile
    <3> DEFINE D == {DeleteOf(c, maint[m].node)}
    <3>2. \A t \in Task : Enqueue(task, D, TRUE)[t] = task[t] \/ Enqueue(task, D, TRUE)[t].state = "pending"
      BY EnqueueState
    <3>3. \A t \in Task : task'[t] = task[t] \/ task'[t].state = "pending"
      BY <3>1, <3>2
    <3>q. QED BY <3>3 DEF ClaimStep
  <2>3. CASE \/ ReconcileBegin(m)
             \/ \E n \in Node : ReconcileNode(m, n)
             \/ \E c \in Chunk, ok \in BOOLEAN : ReconcileStat(m, c, ok)
             \/ ReconcileVerify(m)
             \/ \E ids \in SUBSET Chunk : ReconcileInventory(m, ids)
             \/ ReconcileNext(m) \/ ReconcileEnd(m)
    BY <2>3 DEF ReconcileBegin, ReconcileNode, ReconcileStat, ReconcileVerify, ReconcileInventory,
                ReconcileNext, ReconcileEnd, tables, ClaimStep
  <2>q. QED BY <2>1, <2>2, <2>3
<1>5. CASE UNCHANGED vars
  BY <1>5 DEF vars, tables, ClaimStep
<1>q. QED BY <1>1, <1>2, <1>3, <1>4, <1>5 DEF Next
-----------------------------------------------------------------------------
(***************************************************************************)
(* The file of process i for chunk c is kept: if i still runs, it has it.  *)
(* A process that is replaced never comes back, so that this can only end  *)
(* by a removal.                                                           *)
(***************************************************************************)
Kept(c, n, i) == i \in started[n] /\ (serving[n] = i => c \in disk[<<n, VolumeOf[i]>>])

KeptAfter(c, n, i) == i \in started'[n] /\ (serving'[n] = i => c \in disk'[<<n, VolumeOf[i]>>])

\* Who is registered or runs was started.
ProcessesStarted ==
  /\ started \in [Node -> SUBSET Instance]
  /\ \A n \in Node : /\ serving[n] # None => serving[n] \in started[n]
                     /\ node[n].instance # None => node[n].instance \in started[n]

\* A worker that is calling remove still has its claim.
RemovalsClaimed == \A w \in Worker : worker[w].pc = "remove" => Fenced(w)

\* Nothing of an upload that is still running is given up.
DeletingEnded == \A c \in Chunk, n \in Node : Rep(c, n).state = "deleting" => object[c[1]] \in Ended

ValidKept == \A c \in Chunk, n \in Node : Rep(c, n).state = "valid" => Kept(c, n, node[n].instance)

\* What a confirm has asked for.
ConfirmsKept ==
  \A h \in Confirmer, n \in Node : confirm[h].chunk # None /\ confirm[h].at[n] # None =>
    /\ confirm[h].at[n] \in started[n]
    /\ n \notin confirm[h].todo /\ object[confirm[h].chunk[1]] \notin Ended =>
         Kept(confirm[h].chunk, n, confirm[h].at[n])

\* What a repair has put.
RepairsKept ==
  \A w \in Worker : worker[w].pc \in Repairing =>
    /\ worker[w].instance \in started[worker[w].target]
    /\ worker[w].pc = "publish" /\ Fenced(w) =>
         Kept(worker[w].task[2], worker[w].target, worker[w].instance)

\* The processes a reconcile has read are registered or retired.
SnapshotsKnown ==
  \A m \in Maintainer, n \in Node : maint[m].nodes[n] # None =>
    /\ maint[m].nodes[n] \in started[n] /\ node[n].instance # None
    /\ maint[m].nodes[n] = node[n].instance \/ maint[m].nodes[n] \in retired[n]

\* What a reconcile has found.
VerifiesKept ==
  \A m \in Maintainer : maint[m].pc = "verify" /\ maint[m].ok =>
    LET c == maint[m].chunk
        n == maint[m].node
    IN  maint[m].nodes[n] = node[n].instance /\ Rep(c, n).state = "unverified"
          => Kept(c, n, maint[m].nodes[n])

DurableInv ==
  /\ late = {} /\ RemovalsClaimed /\ DeletingEnded /\ ProcessesStarted
  /\ ValidKept /\ ConfirmsKept /\ RepairsKept /\ SnapshotsKnown /\ VerifiesKept

\* A running process that is not replaced keeps what it has.
ProcessesStep ==
  \A n \in Node : /\ started[n] \subseteq started'[n]
                  /\ serving'[n] = serving[n] \/ serving'[n] = None \/ serving'[n] \notin started[n]

KeepsStep ==
  \A c \in Chunk, n \in Node, i \in Instance :
    Kept(c, n, i) /\ Rep(c, n).state # "deleting" => KeptAfter(c, n, i)

\* Only heartbeats and their age write ds_nodes and ds_instances.
LEMMA TasksNodes == ASSUME Requests \/ Tasks \/ Maintenance PROVE UNCHANGED <<node, retired>>
<1>1. CASE Requests
  BY <1>1 DEF Requests, InitUpload, Complete, Cancel, Delete, Prepare, BadReplica, ConfirmBegin, ConfirmStat,
              ConfirmCommit, ConfirmAbort, tables
<1>2. CASE Tasks
  BY <1>2, ZenonT(40) DEF Tasks, Claim, WorkerFail, WorkerCrash, DeleteBegin, DeleteRemoved, DeleteCommit,
              RepairNotNeeded, RepairBegin, RepairFetch, RepairPut, RepairStat, RepairPublish, Rpc, tables
<1>3. CASE Maintenance
  BY <1>3 DEF Maintenance, Maintain, ReconcileBegin, ReconcileNode, ReconcileStat, ReconcileVerify,
              ReconcileInventory, ReconcileFile, ReconcileNext, ReconcileEnd, tables
<1>q. QED BY <1>1, <1>2, <1>3

\* A process is started once, and only a started one sends heartbeats.
LEMMA StepProcesses ==
  ASSUME TypeOK, ClusterTypes, ProcessesStarted, ClusterNext
  PROVE  ProcessesStarted' /\ ProcessesStep
<1>1. ASSUME NEW n \in Node, NEW i \in Processes[n], NodeStart(n, i)
      PROVE  ProcessesStarted' /\ ProcessesStep
  <2>1. i \in Instance /\ i \notin started[n]
    BY <1>1, NodesAssumption DEF NodeStart
  <2>2. \A m \in Node : /\ started'[m] = IF m = n THEN started[m] \cup {i} ELSE started[m]
                        /\ serving'[m] = IF m = n THEN i ELSE serving[m]
    BY <1>1 DEF NodeStart, ProcessesStarted, ClusterTypes
  <2>3. started' \in [Node -> SUBSET Instance] /\ UNCHANGED node
    BY <1>1, <2>1 DEF NodeStart, ProcessesStarted, vars, tables
  <2>q. QED BY <2>1, <2>2, <2>3 DEF ProcessesStarted, ProcessesStep
<1>2. ASSUME NEW n \in Node, NodeStop(n) PROVE ProcessesStarted' /\ ProcessesStep
  <2>1. UNCHANGED <<started, node>> /\ \A m \in Node : serving'[m] = serving[m] \/ serving'[m] = None
    BY <1>2 DEF NodeStop, ClusterTypes, vars, tables
  <2>q. QED BY <2>1 DEF ProcessesStarted, ProcessesStep
<1>3. CASE UNCHANGED <<started, serving>> /\ \A m \in Node : node'[m].instance \in {node[m].instance} \cup started[m]
  BY <1>3 DEF ProcessesStarted, ProcessesStep
<1>4. ASSUME NEW n \in Node, NEW i \in Processes[n], NodeHeartbeat(n, i)
      PROVE  ProcessesStarted' /\ ProcessesStep
  <2>1. UNCHANGED <<started, serving>> /\ i \in started[n]
    BY <1>4 DEF NodeHeartbeat, nodes
  <2>2. PICK free : Heartbeat(n, i, free)
    BY <1>4 DEF NodeHeartbeat
  <2>3. \A m \in Node : node'[m].instance = IF m = n THEN i ELSE node[m].instance
    BY <2>2 DEF Heartbeat, TypeOK
  <2>q. QED BY <1>3, <2>1, <2>3
<1>5. ASSUME NEW n \in Node, Silence(n) PROVE ProcessesStarted' /\ ProcessesStep
  <2>1. UNCHANGED <<started, serving>>
    BY <1>5 DEF Silence, nodes
  <2>2. \A m \in Node : node'[m].instance = node[m].instance
    BY <1>5 DEF Silence, Age, TypeOK, NodeRow
  <2>q. QED BY <1>3, <2>1, <2>2
<1>6. CASE \/ \E tk \in ticket : Put(tk) \/ TicketExpires(tk)
           \/ \E r \in late : LateRemove(r)
  <2>1. UNCHANGED <<started, serving, node>>
    BY <1>6 DEF Put, TicketExpires, LateRemove, nodes, vars, tables
  <2>q. QED BY <1>3, <2>1
<1>7. ASSUME NEW w \in Worker, TaskThread(w) PROVE ProcessesStarted' /\ ProcessesStep
  <2>1. UNCHANGED <<started, serving>>
    BY <1>7 DEF TaskThread, GoesOn, Transaction, Fetched, Authorized, PutAnswered, StatAnswered,
                RemoveAnswered, Failed, AnswerLost, RemoveDelayed, Crashed, cluster, nodes
  <2>2. Tasks \/ UNCHANGED vars
    BY <1>7, TasksImplement
  <2>3. UNCHANGED node
    BY <2>2, TasksNodes DEF vars, tables
  <2>q. QED BY <1>3, <2>1, <2>3
<1>8. CASE UserRequests \/ TimePasses \/ (\E m \in Maintainer : MaintenanceThread(m))
  <2>1. UNCHANGED <<started, serving>>
    BY <1>8, OthersFiles DEF nodes
  <2>2. UNCHANGED node
    <3>1. CASE TimePasses
      BY <3>1 DEF TimePasses, LeaseEnds, Lapse, TaskDue
    <3>q. QED BY <1>8, <3>1, RequestsImplement, MaintenanceImplements, TasksNodes
  <2>q. QED BY <1>3, <2>1, <2>2
<1>q. QED BY <1>1, <1>2, <1>4, <1>5, <1>6, <1>7, <1>8 DEF ClusterNext, NodeSteps

\* A file of a running process is only removed while its row is given up: by a worker with its claim.
LEMMA StepKeeps ==
  ASSUME FilesInv, late = {}, RemovalsClaimed, ProcessesStarted, ClusterNext
  PROVE  KeepsStep
<1>1. TypeOK /\ ClusterTypes /\ RemovalIsFenced
  BY DEF FilesInv, SpaceInv
<1>2. ProcessesStep
  BY <1>1, StepProcesses
<1>3. ASSUME NEW c \in Chunk, NEW n \in Node, Removing(c, n) PROVE Rep(c, n).state = "deleting"
  <2>1. PICK w \in Worker : worker[w].pc = "remove" /\ worker[w].task = DeleteOf(c, n)
    BY <1>3 DEF Removing
  <2>2. worker[w].task[2] = c /\ worker[w].task[3] = n
    BY <2>1 DEF DeleteOf
  <2>q. QED BY <1>1, <2>1, <2>2 DEF RemovalIsFenced, RemovalsClaimed
<1>4. ASSUME NEW c \in Chunk, NEW n \in Node, NEW i \in Instance, Kept(c, n, i),
             Rep(c, n).state # "deleting"
      PROVE  KeptAfter(c, n, i)
  <2>1. i # None /\ VolumeOf[i] \in Volume /\ i \in started'[n]
    BY <1>2, <1>4, VolumeOfInstance DEF Kept, ProcessesStep
  <2>2. serving'[n] = i => serving[n] = i
    BY <1>2, <1>4, <2>1 DEF Kept, ProcessesStep
  <2>3. disk \in [Node \X Volume -> SUBSET Chunk]
    BY <1>1 DEF ClusterTypes
  <2>4. c \in disk[<<n, VolumeOf[i]>>] => c \in disk'[<<n, VolumeOf[i]>>]
    <3>1. CASE UNCHANGED disk
      BY <3>1
    <3>2. CASE Writes
      <4>1. PICK d \in Chunk, m \in Node : \E v : disk' = [disk EXCEPT ![<<m, v>>] = @ \cup {d}]
        BY <3>2 DEF Writes
      <4>q. QED BY <2>1, <2>3, <4>1
    <3>3. CASE Removes
      <4>1. PICK d, m, v : disk' = [disk EXCEPT ![<<m, v>>] = @ \ {d}] /\ (d \in Chunk /\ m \in Node /\ Removing(d, m))
        BY <3>3 DEF Removes
      <4>2. ~ (d = c /\ m = n)
        BY <1>3, <1>4, <4>1
      <4>q. QED BY <2>1, <2>3, <4>1, <4>2
    <3>q. QED BY <3>1, <3>2, <3>3, StepFiles
  <2>q. QED BY <1>4, <2>1, <2>2, <2>4 DEF Kept, KeptAfter
<1>q. QED BY <1>4 DEF KeepsStep
-----------------------------------------------------------------------------
\* Without late calls no remove outlives its caller.
LEMMA NoLateRemoves ==
  ASSUME ~ LateCalls, late = {}, ClusterNext PROVE late' = {}
<1>1. CASE NodeSteps
  BY <1>1 DEF NodeSteps, NodeStart, NodeStop, NodeHeartbeat, Silence, Put, TicketExpires, LateRemove
<1>2. CASE UserRequests \/ TimePasses \/ (\E m \in Maintainer : MaintenanceThread(m))
  BY <1>2 DEF UserRequests, Request, GatewayPrepare, ConfirmRequest, GatewayBad, TimePasses, LeaseEnds,
              MaintenanceThread, MaintainTables, Asked, Statted, Listed, NextNode, PassEnds, cluster
<1>3. CASE \E w \in Worker : TaskThread(w)
  BY <1>3 DEF TaskThread, GoesOn, Transaction, Fetched, Authorized, PutAnswered, StatAnswered,
              RemoveAnswered, Failed, AnswerLost, RemoveDelayed, Crashed, cluster
<1>q. QED BY <1>1, <1>2, <1>3 DEF ClusterNext

\* What is queued for a claim that passes the fence is not touched by others.
LEMMA RemovalsKept ==
  ASSUME TypeOK, RemovalsClaimed, UNCHANGED worker, RunningRemovals
  PROVE  RemovalsClaimed'
<1> SUFFICES ASSUME NEW w \in Worker, worker[w].pc = "remove"
             PROVE  /\ task'[worker[w].task].token = w
                    /\ task'[worker[w].task].state = "running" /\ ~ task'[worker[w].task].due
  BY DEF RemovalsClaimed, Fenced
<1>1. worker[w].task \in Task /\ worker[w].task[1] = "delete" /\ Fenced(w)
  BY DEF TypeOK, LocalsSet, RemovalsClaimed
<1>q. QED BY <1>1 DEF Fenced, RunningRemovals

\* A lease does not end while a remove is called under it.
LEMMA LeaseKeepsRemovals ==
  ASSUME TypeOK, ~ LateCalls, RemovalsClaimed, NEW t \in Task, LeaseEnds(t)
  PROVE  RemovalsClaimed'
<1>1. task' = [task EXCEPT ![t].due = TRUE] /\ UNCHANGED worker
  BY DEF LeaseEnds, TaskDue, threads
<1>2. \A u \in Task : u # t => task'[u] = task[u]
  BY <1>1 DEF TypeOK
<1>3. ASSUME NEW w \in Worker, worker[w].pc = "remove"
      PROVE  worker[w].task \in Task /\ worker[w].task # t /\ Fenced(w)
  <2>1. worker[w].task \in Task /\ Fenced(w)
    BY <1>3 DEF TypeOK, LocalsSet, RemovalsClaimed
  <2>q. QED BY <1>3, <2>1 DEF LeaseEnds
<1>q. QED BY <1>1, <1>2, <1>3 DEF RemovalsClaimed, Fenced

\* A worker starts to remove under its claim, and other workers leave it alone.
LEMMA WorkersKeepRemovals ==
  ASSUME TypeOK, RemovalsClaimed, NEW w \in Worker, WorkerAction(w)
  PROVE  RemovalsClaimed'
<1> SUFFICES ASSUME NEW v \in Worker, worker'[v].pc = "remove"
             PROVE  /\ task'[worker'[v].task].token = v
                    /\ task'[worker'[v].task].state = "running" /\ ~ task'[worker'[v].task].due
  BY DEF RemovalsClaimed, Fenced
<1>1. CASE v # w
  <2>1. worker'[v] = worker[v]
    BY <1>1, WorkerWrites
  <2>2. worker[v].task \in Task /\ Fenced(v)
    BY <2>1 DEF TypeOK, LocalsSet, RemovalsClaimed
  <2>3. task'[worker[v].task] = task[worker[v].task]
    BY <1>1, <2>2, WorkerWrites DEF Fenced
  <2>q. QED BY <2>1, <2>2, <2>3 DEF Fenced
<1>2. CASE v = w
  <2>t. worker \in [Worker -> WorkerState]
    BY DEF TypeOK
  <2>1. CASE DeleteBegin(w)
    <3>1. worker'[w].task = worker[w].task /\ UNCHANGED task /\ Fenced(w)
      BY <2>1, <2>t DEF DeleteBegin, Job
    <3>q. QED BY <1>2, <3>1 DEF Fenced
  <2>2. CASE \/ \E t \in Task : Claim(w, t)
             \/ WorkerFail(w) \/ WorkerCrash(w) \/ DeleteCommit(w)
             \/ RepairNotNeeded(w) \/ RepairPublish(w)
             \/ \E n \in Node : RepairBegin(w, n)
    <3>1. \E j : worker' = [worker EXCEPT ![w] = j] /\ j.pc \in {"idle", "claimed", "fetch"}
      <4>1. /\ IdleWorker.pc = "idle" /\ \A u : Job("claimed", u, {}, None, None).pc = "claimed"
            /\ \A u, S, n, i : Job("fetch", u, S, n, i).pc = "fetch"
        BY DEF IdleWorker, Job
      <4>2. CASE \E n \in Node : RepairBegin(w, n)
        <5>1. PICK n \in Node : RepairBegin(w, n)
          BY <4>2
        <5> DEFINE j == Job("fetch", worker[w].task, Healthy(worker[w].task[2]), n, node[n].instance)
        <5>2. worker' = [worker EXCEPT ![w] = j]
          BY <5>1 DEF RepairBegin
        <5>3. j.pc = "fetch"
          BY <4>1
        <5> HIDE DEF j
        <5>q. QED BY <5>2, <5>3
      <4>3. CASE \E t \in Task : Claim(w, t)
        <5>1. PICK t \in Task : worker' = [worker EXCEPT ![w] = Job("claimed", t, {}, None, None)]
          BY <4>3 DEF Claim
        <5>q. QED BY <4>1, <5>1
      <4>4. CASE \/ WorkerFail(w) \/ WorkerCrash(w) \/ DeleteCommit(w)
                 \/ RepairNotNeeded(w) \/ RepairPublish(w)
        <5>1. worker' = [worker EXCEPT ![w] = IdleWorker]
          BY <4>4 DEF WorkerFail, WorkerCrash, DeleteCommit, RepairNotNeeded, RepairPublish
        <5>q. QED BY <4>1, <5>1
      <4>q. QED BY <2>2, <4>2, <4>3, <4>4
    <3>2. worker'[w].pc # "remove"
      BY <2>t, <3>1
    <3>q. QED BY <1>2, <3>2
  <2>3. CASE DeleteRemoved(w) \/ RepairFetch(w) \/ RepairPut(w) \/ RepairStat(w)
    BY <1>2, <2>t, <2>3 DEF DeleteRemoved, RepairFetch, RepairPut, RepairStat, Rpc, WorkerState
  <2>q. QED BY <2>1, <2>2, <2>3 DEF WorkerAction
<1>q. QED BY <1>1, <1>2

\* Every step of the cluster.
LEMMA StepRemovals ==
  ASSUME TypeOK, ClusterTypes, ~ LateCalls, RemovalsClaimed, ClusterNext
  PROVE  RemovalsClaimed'
<1>1. CASE UserRequests \/ (\E m \in Maintainer : MaintenanceThread(m))
  BY <1>1, RequestsImplement, MaintenanceImplements, OthersClaims, RemovalsKept
<1>2. CASE NodeSteps \/ (\E o \in Object : Lapse(o))
  <2>1. UNCHANGED <<worker, task>>
    BY <1>2 DEF NodeSteps, NodeStart, NodeStop, NodeHeartbeat, Silence, Put, TicketExpires, LateRemove,
                Lapse, Heartbeat, Age, vars, tables, threads
  <2>q. QED BY <2>1, RemovalsKept DEF RunningRemovals
<1>3. CASE \E t \in Task : LeaseEnds(t)
  BY <1>3, LeaseKeepsRemovals
<1>4. ASSUME NEW w \in Worker, TaskThread(w) PROVE RemovalsClaimed'
  <2>1. WorkerAction(w) \/ UNCHANGED vars
    BY <1>4 DEF TaskThread, GoesOn, Transaction, Fetched, Authorized, PutAnswered, StatAnswered,
                RemoveAnswered, Failed, AnswerLost, RemoveDelayed, Crashed, WorkerAction
  <2>2. CASE UNCHANGED vars
    BY <2>2, RemovalsKept DEF RunningRemovals, vars, tables, threads
  <2>q. QED BY <2>1, <2>2, WorkersKeepRemovals
<1>q. QED BY <1>1, <1>2, <1>3, <1>4 DEF ClusterNext, TimePasses

\* Rows are only given up when their object is published or deleted, and it stays so.
LEMMA StepDeletingEnded ==
  ASSUME DeletingEnded, TableStep PROVE DeletingEnded'
<1> SUFFICES ASSUME NEW c \in Chunk, NEW n \in Node, replica'[<<c, n>>].state = "deleting"
             PROVE  object'[c[1]] \in Ended
  BY DEF DeletingEnded, Rep
<1>1. Rep(c, n).state = "deleting" \/ object'[c[1]] \in Ended
  BY DEF TableStep, RowsStep, RowStep
<1>q. QED BY <1>1, ChunkObject DEF DeletingEnded, TableStep, ObjectsEnd
-----------------------------------------------------------------------------
\* Whatever decides that a row is valid has found its file with the process registered now.
LEMMA DecidedKept ==
  ASSUME TypeOK, RowInv, ObjectsInv, RepairIsFenced, DurableInv, NEW c \in Chunk, NEW n \in Node, Decided(c, n)
  PROVE  Kept(c, n, node[n].instance) /\ UNCHANGED node /\ Rep(c, n).state \in {"reserved", "unverified"}
<1>1. ASSUME NEW h \in Confirmer, ConfirmCommit(h), confirm[h].chunk = c, n \in Counted(h)
      PROVE  Kept(c, n, node[n].instance) /\ UNCHANGED node /\ Rep(c, n).state = "reserved"
  <2>1. /\ c # None /\ confirm[h].todo = {} /\ Active(c[1]) /\ confirm[h].at = Located(c)
        /\ confirm[h].at[n] # None /\ Rep(c, n).state = "reserved" /\ UNCHANGED node
    BY <1>1 DEF ConfirmCommit, Counted
  <2>2. confirm[h].at[n] = node[n].instance
    BY <2>1 DEF Located
  <2>3. object[c[1]] = "staging"
    BY <2>1, States, ChunkObject DEF Active
  <2>4. Kept(c, n, confirm[h].at[n])
    BY <1>1, <2>1, <2>3 DEF DurableInv, ConfirmsKept, Ended
  <2>q. QED BY <2>1, <2>2, <2>4
<1>2. ASSUME NEW w \in Worker, RepairPublish(w), worker[w].task[2] = c, worker[w].target = n
      PROVE  Kept(c, n, node[n].instance) /\ UNCHANGED node /\ Rep(c, n).state = "reserved"
  <2>1. /\ worker[w].pc = "publish" /\ Fenced(w) /\ node[n].instance = worker[w].instance
        /\ Rep(c, n).state = "reserved" /\ UNCHANGED node
    BY <1>2 DEF RepairPublish, At
  <2>q. QED BY <1>2, <2>1 DEF DurableInv, RepairsKept, Repairing
<1>3. ASSUME NEW m \in Maintainer, ReconcileVerify(m), StillAsked(m), maint[m].ok,
             maint[m].chunk = c, maint[m].node = n, Rep(c, n).state = "unverified"
      PROVE  Kept(c, n, node[n].instance) /\ UNCHANGED node
  <2>1. maint[m].pc = "verify" /\ node[n].instance = maint[m].nodes[n] /\ UNCHANGED node
    BY <1>3 DEF ReconcileVerify, StillAsked
  <2>q. QED BY <1>3, <2>1 DEF DurableInv, VerifiesKept
<1>q. QED BY <1>1, <1>2, <1>3 DEF Decided

\* Valid rows were valid before, with the same process, or have just been decided.
LEMMA StepValid ==
  ASSUME TypeOK, RowInv, ObjectsInv, RepairIsFenced, DurableInv, TableStep, KeepsStep
  PROVE  ValidKept'
<1> SUFFICES ASSUME NEW c \in Chunk, NEW n \in Node, replica'[<<c, n>>].state = "valid"
             PROVE  KeptAfter(c, n, node'[n].instance)
  BY DEF ValidKept, Rep, Kept, KeptAfter
<1>1. ~ Replaced(n) /\ (Rep(c, n).state = "valid" \/ Decided(c, n))
  BY DEF TableStep, RowsStep, RowStep
<1>2. CASE Rep(c, n).state = "valid"
  <2>1. Kept(c, n, node[n].instance)
    BY <1>2 DEF DurableInv, ValidKept
  <2>2. node[n].instance \in Instance
    BY <1>2 DEF RowInv, RowOK, TypeOK, NodeRow
  <2>3. node[n].instance # None
    BY <1>2 DEF RowInv, RowOK
  <2>4. node'[n].instance = node[n].instance
    BY <1>1, <2>3 DEF Replaced
  <2>q. QED BY <1>2, <2>1, <2>2, <2>4 DEF KeepsStep
<1>3. CASE Decided(c, n)
  <2>1. /\ Kept(c, n, node[n].instance) /\ UNCHANGED node
        /\ Rep(c, n).state \in {"reserved", "unverified"}
    BY <1>3, DecidedKept
  <2>2. node[n].instance \in Instance
    BY <2>1 DEF Kept, DurableInv, ProcessesStarted
  <2>q. QED BY <2>1, <2>2 DEF KeepsStep
<1>q. QED BY <1>1, <1>2, <1>3

\* What a confirm knows of one of its nodes.
ConfirmKept(cf, n) ==
  cf.chunk # None /\ cf.at[n] # None =>
    /\ cf.at[n] \in started[n]
    /\ n \notin cf.todo /\ object[cf.chunk[1]] \notin Ended => Kept(cf.chunk, n, cf.at[n])

\* What is known stays known.
LEMMA ConfirmStays ==
  ASSUME TypeOK, DurableInv, ProcessesStep, ObjectsEnd, KeepsStep, NEW n \in Node, NEW cf \in ConfirmState,
         ConfirmKept(cf, n), cf.chunk # None, cf.at[n] # None
  PROVE  /\ cf.at[n] \in started'[n]
         /\ n \notin cf.todo /\ object'[cf.chunk[1]] \notin Ended => KeptAfter(cf.chunk, n, cf.at[n])
<1>1. cf.chunk \in Chunk /\ cf.chunk[1] \in Object /\ cf.at[n] \in Instance
  BY ChunkObject DEF ConfirmState
<1>2. cf.at[n] \in started'[n]
  BY DEF ConfirmKept, ProcessesStep
<1>3. ASSUME n \notin cf.todo, object'[cf.chunk[1]] \notin Ended PROVE KeptAfter(cf.chunk, n, cf.at[n])
  <2>1. object[cf.chunk[1]] \notin Ended
    BY <1>1, <1>3 DEF ObjectsEnd
  <2>2. Rep(cf.chunk, n).state # "deleting" /\ Kept(cf.chunk, n, cf.at[n])
    BY <1>1, <1>3, <2>1 DEF ConfirmKept, DurableInv, DeletingEnded
  <2>q. QED BY <1>1, <2>2 DEF KeepsStep
<1>q. QED BY <1>2, <1>3

\* A step changes one confirm: it begins, has one more answer, or ends.
LEMMA ConfirmsStep ==
  ASSUME TypeOK, ClusterTypes, ClusterNext
  PROVE  \/ UNCHANGED confirm
         \/ \E h \in Confirmer : UNCHANGED <<cluster, object>> /\
              \/ \E c \in Chunk : /\ confirm' = [confirm EXCEPT ![h] =
                                          [chunk |-> c, at |-> Located(c), todo |-> Positions(c)]]
              \/ \E n \in Node : /\ n \in confirm[h].todo /\ Holds(n, confirm[h].chunk)
                                 /\ confirm' = [confirm EXCEPT ![h].todo = @ \ {n}]
              \/ confirm' = [confirm EXCEPT ![h] = IdleConfirm]
<1>1. CASE NodeSteps \/ TimePasses
  <2>1. Environment \/ UNCHANGED vars
    BY <1>1, NodeStepsImplement, TimeImplements
  <2>q. QED BY <2>1, EnvironmentCatalog DEF vars, threads
<1>2. ASSUME NEW w \in Worker, TaskThread(w) PROVE UNCHANGED confirm
  <2>1. Tasks \/ UNCHANGED vars
    BY <1>2, TasksImplement
  <2>q. QED BY <2>1, TasksCatalog DEF vars, threads
<1>3. ASSUME NEW m \in Maintainer, MaintenanceThread(m) PROVE UNCHANGED confirm
  <2>1. Maintenance
    BY <1>3, MaintenanceImplements
  <2>2. ASSUME NEW k \in Maintainer, Maintain(k) PROVE UNCHANGED confirm
    BY <2>2 DEF Maintain
  <2>q. QED BY <2>1, <2>2, MaintenanceCatalog
<1>4. CASE UserRequests
  <2>1. CASE \/ \E o \in Object : Request(o)
             \/ \E c \in Chunk, s \in Sha : GatewayPrepare(c, s)
             \/ \E c \in Chunk, n \in Node : GatewayBad(c, n)
    BY <2>1 DEF Request, GatewayPrepare, GatewayBad, InitUpload, Complete, Cancel, Delete, Prepare, BadReplica, threads
  <2>2. CASE \E h \in Confirmer : ConfirmRequest(h)
    <3>1. PICK h \in Confirmer : ConfirmRequest(h)
      BY <2>2
    <3>2. UNCHANGED <<cluster, object>>
      BY <3>1 DEF ConfirmRequest, ConfirmBegin, ConfirmStat, ConfirmCommit, ConfirmAbort, tables, catalog
    <3>3. \/ \E c \in Chunk : confirm' = [confirm EXCEPT ![h] = [chunk |-> c, at |-> Located(c), todo |-> Positions(c)]]
          \/ \E n \in Node : /\ n \in confirm[h].todo /\ Holds(n, confirm[h].chunk)
                             /\ confirm' = [confirm EXCEPT ![h].todo = @ \ {n}]
          \/ confirm' = [confirm EXCEPT ![h] = IdleConfirm]
      BY <3>1 DEF ConfirmRequest, ConfirmBegin, ConfirmStat, ConfirmCommit, ConfirmAbort
    <3>q. QED BY <3>2, <3>3
  <2>q. QED BY <1>4, <2>1, <2>2 DEF UserRequests
<1>q. QED BY <1>1, <1>2, <1>3, <1>4 DEF ClusterNext
\* A stat that finds a file finds it with any process that is running.
LEMMA HoldsKept ==
  ASSUME NEW c, NEW n \in Node, NEW i \in started[n], Holds(n, c) PROVE Kept(c, n, i)
  BY DEF Holds, Files, Kept

\* Answers of nodes are kept, as the processes that gave them are never started again.
LEMMA StepConfirms ==
  ASSUME TypeOK, TypeOK', ClusterTypes, RowInv, DurableInv, ProcessesStep, ObjectsEnd, KeepsStep, ClusterNext
  PROVE  ConfirmsKept'
<1>t. confirm \in [Confirmer -> ConfirmState] /\ confirm' \in [Confirmer -> ConfirmState]
  BY DEF TypeOK
<1>1. ASSUME NEW h \in Confirmer, NEW n \in Node PROVE ConfirmKept(confirm[h], n)
  BY DEF DurableInv, ConfirmsKept, ConfirmKept
<1> SUFFICES ASSUME NEW h \in Confirmer, NEW n \in Node,
                    confirm'[h].chunk # None, confirm'[h].at[n] # None
             PROVE  /\ confirm'[h].at[n] \in started'[n]
                    /\ n \notin confirm'[h].todo /\ object'[confirm'[h].chunk[1]] \notin Ended
                         => KeptAfter(confirm'[h].chunk, n, confirm'[h].at[n])
  BY DEF ConfirmsKept, Kept, KeptAfter
<1>2. CASE confirm'[h] = confirm[h]
  <2>1. confirm[h] \in ConfirmState /\ confirm[h].chunk # None /\ confirm[h].at[n] # None
    BY <1>t, <1>2
  <2>q. QED BY <1>1, <1>2, <2>1, ConfirmStays
<1>3. ASSUME NEW k \in Confirmer, UNCHANGED <<cluster, object>>, NEW c \in Chunk,
             confirm' = [confirm EXCEPT ![k] = [chunk |-> c, at |-> Located(c), todo |-> Positions(c)]]
      PROVE  /\ confirm'[h].at[n] \in started'[n]
             /\ n \notin confirm'[h].todo /\ object'[confirm'[h].chunk[1]] \notin Ended
                  => KeptAfter(confirm'[h].chunk, n, confirm'[h].at[n])
  <2>1. CASE h # k
    BY <1>t, <1>2, <1>3, <2>1
  <2>2. CASE h = k
    <3>1. confirm'[h].at = Located(c) /\ confirm'[h].todo = Positions(c)
      BY <1>t, <1>3, <2>2
    <3>2. n \in Positions(c) /\ confirm'[h].at[n] = node[n].instance
      BY <3>1 DEF Located
    <3>3. node[n].instance \in started'[n]
      BY <1>3, <3>2 DEF cluster, nodes, DurableInv, ProcessesStarted
    <3>q. QED BY <3>1, <3>2, <3>3
  <2>q. QED BY <2>1, <2>2
<1>4. ASSUME NEW k \in Confirmer, UNCHANGED <<cluster, object>>, NEW m \in Node,
             m \in confirm[k].todo, Holds(m, confirm[k].chunk),
             confirm' = [confirm EXCEPT ![k].todo = @ \ {m}]
      PROVE  /\ confirm'[h].at[n] \in started'[n]
             /\ n \notin confirm'[h].todo /\ object'[confirm'[h].chunk[1]] \notin Ended
                  => KeptAfter(confirm'[h].chunk, n, confirm'[h].at[n])
  <2>1. CASE h # k
    BY <1>t, <1>2, <1>4, <2>1
  <2>2. CASE h = k
    <3>1. /\ confirm'[h].at = confirm[h].at /\ confirm'[h].todo = confirm[h].todo \ {m}
          /\ confirm'[h].chunk = confirm[h].chunk
      BY <1>t, <1>4, <2>2 DEF ConfirmState
    <3>2. confirm[h] \in ConfirmState /\ confirm[h].at[n] \in started[n] /\ UNCHANGED <<started, serving, disk, object>>
      BY <1>1, <1>4, <1>t, <3>1 DEF ConfirmKept, cluster, nodes
    <3>3. n = m => Kept(confirm[h].chunk, n, confirm[h].at[n])
      BY <1>4, <2>2, <3>2, HoldsKept
    <3>4. n \notin confirm'[h].todo /\ object'[confirm'[h].chunk[1]] \notin Ended
            => Kept(confirm[h].chunk, n, confirm[h].at[n])
      BY <1>1, <3>1, <3>2, <3>3 DEF ConfirmKept
    <3>q. QED BY <3>1, <3>2, <3>4 DEF Kept, KeptAfter
  <2>q. QED BY <2>1, <2>2
<1>5. ASSUME NEW k \in Confirmer, confirm' = [confirm EXCEPT ![k] = IdleConfirm]
      PROVE  confirm'[h] = confirm[h]
  BY <1>t, <1>5 DEF IdleConfirm
<1>q. QED BY <1>2, <1>3, <1>4, <1>5, ConfirmsStep

-----------------------------------------------------------------------------
\* A worker is ready to publish after a stat that found what it put.
LEMMA PublishersStep ==
  ASSUME TypeOK, ClusterTypes, ClusterNext
  PROVE  \A w \in Worker : worker'[w].pc = "publish" =>
           \/ worker[w].pc = "publish"
           \/ /\ UNCHANGED cluster /\ worker[w].pc = "stat"
              /\ Holds(worker[w].target, worker[w].task[2])
<1>t. worker \in [Worker -> WorkerState]
  BY DEF TypeOK
<1>1. CASE UNCHANGED worker
  BY <1>1
<1>2. CASE UserRequests \/ NodeSteps \/ TimePasses \/ (\E m \in Maintainer : MaintenanceThread(m))
  <2>1. Requests \/ Environment \/ Maintenance \/ UNCHANGED vars
    BY <1>2, RequestsImplement, NodeStepsImplement, TimeImplements, MaintenanceImplements
  <2>2. CASE Requests
    BY <1>1, <2>2, OthersClaims
  <2>3. CASE Maintenance
    BY <1>1, <2>3, OthersClaims
  <2>4. CASE Environment
    <3>1. UNCHANGED worker
      BY <2>4 DEF Environment, Heartbeat, Age, Lapse, TaskDue, threads
    <3>q. QED BY <1>1, <3>1
  <2>5. CASE UNCHANGED vars
    BY <1>1, <2>5 DEF vars, threads
  <2>q. QED BY <2>1, <2>2, <2>3, <2>4, <2>5
<1>3. ASSUME NEW v \in Worker, TaskThread(v), NEW w \in Worker, worker'[w].pc = "publish"
      PROVE  \/ worker[w].pc = "publish"
             \/ /\ UNCHANGED cluster /\ worker[w].pc = "stat"
                /\ Holds(worker[w].target, worker[w].task[2])
  <2>1. CASE StatAnswered(v)
    <3>1. /\ worker[v].pc = "stat" /\ UNCHANGED cluster /\ Holds(worker[v].target, worker[v].task[2])
          /\ worker' = [worker EXCEPT ![v].pc = "publish"]
      BY <2>1 DEF StatAnswered, RepairStat, Rpc
    <3>2. w # v => worker'[w] = worker[w]
      BY <1>t, <3>1
    <3>q. QED BY <1>3, <3>1, <3>2
  <2>2. ASSUME NEW j, worker' = [worker EXCEPT ![v] = j], j.pc # "publish" PROVE worker[w].pc = "publish"
    <3>1. CASE w = v
      BY <1>t, <1>3, <2>2, <3>1
    <3>2. CASE w # v
      BY <1>t, <1>3, <2>2, <3>2
    <3>q. QED BY <3>1, <3>2
  <2>3. ASSUME NEW to, to # "publish", NEW from, Rpc(v, from, to) PROVE worker[w].pc = "publish"
    <3>1. worker' = [worker EXCEPT ![v] = [worker[v] EXCEPT !.pc = to]]
      BY <1>t, <2>3 DEF Rpc
    <3>2. [worker[v] EXCEPT !.pc = to].pc = to
      BY <1>t DEF WorkerState
    <3>q. QED BY <2>2, <2>3, <3>1, <3>2
  <2>4. CASE \/ \E t \in Task : Claim(v, t)
             \/ WorkerFail(v) \/ WorkerCrash(v) \/ DeleteCommit(v)
             \/ RepairNotNeeded(v) \/ RepairPublish(v) \/ DeleteBegin(v)
             \/ \E n \in Node : RepairBegin(v, n)
    <3>1. /\ IdleWorker.pc # "publish" /\ \A u : Job("claimed", u, {}, None, None).pc # "publish"
          /\ \A u, S, n, i : Job("fetch", u, S, n, i).pc # "publish"
          /\ \A u, i : Job("remove", u, {}, None, i).pc # "publish"
      BY DEF IdleWorker, Job
    <3>2. \/ worker' = [worker EXCEPT ![v] = IdleWorker]
          \/ \E u : worker' = [worker EXCEPT ![v] = Job("claimed", u, {}, None, None)]
          \/ \E u, S, n, i : worker' = [worker EXCEPT ![v] = Job("fetch", u, S, n, i)]
          \/ \E u, i : worker' = [worker EXCEPT ![v] = Job("remove", u, {}, None, i)]
      <4>1. CASE \E n \in Node : RepairBegin(v, n)
        <5>1. PICK n \in Node : RepairBegin(v, n)
          BY <4>1
        <5> DEFINE u == worker[v].task
                   S == Healthy(worker[v].task[2])
                   i == node[n].instance
        <5>2. worker' = [worker EXCEPT ![v] = Job("fetch", u, S, n, i)]
          BY <5>1 DEF RepairBegin
        <5> HIDE DEF u, S, i
        <5>q. QED BY <5>2
      <4>2. CASE DeleteBegin(v)
        <5>1. worker' = [worker EXCEPT ![v] = Job("remove", worker[v].task, {}, None, node[worker[v].task[3]].instance)]
          BY <4>2 DEF DeleteBegin
        <5>q. QED BY <5>1
      <4>q. QED BY <2>4, <4>1, <4>2 DEF Claim, WorkerFail, WorkerCrash, DeleteCommit, RepairNotNeeded, RepairPublish
    <3> HIDE DEF IdleWorker
    <3>q. QED BY <2>2, <3>1, <3>2
  <2>5. CASE Authorized(v)
    BY <1>1, <1>3, <2>5 DEF Authorized, vars, threads
  <2>6. CASE Fetched(v) \/ PutAnswered(v) \/ RemoveAnswered(v)
    BY <2>3, <2>6 DEF Fetched, PutAnswered, RemoveAnswered, RepairFetch, RepairPut, DeleteRemoved
  <2>q. QED BY <1>3, <2>1, <2>4, <2>5, <2>6 DEF TaskThread, GoesOn, Transaction, Failed, AnswerLost, RemoveDelayed, Crashed
<1>q. QED BY <1>2, <1>3 DEF ClusterNext
\* What a repair has put stays there while its claim passes the fence, as its row is reserved.
LEMMA StepRepairs ==
  ASSUME TypeOK, TypeOK', ClusterTypes, RowInv, RepairIsFenced, DurableInv, ProcessesStep, KeepsStep,
         ClusterNext, [Next]_vars
  PROVE  RepairsKept'
<1> SUFFICES ASSUME NEW w \in Worker, worker'[w].pc \in Repairing
             PROVE  /\ worker'[w].instance \in started'[worker'[w].target]
                    /\ /\ worker'[w].pc = "publish" /\ task'[worker'[w].task].token = w
                       /\ task'[worker'[w].task].state = "running" /\ ~ task'[worker'[w].task].due
                       => KeptAfter(worker'[w].task[2], worker'[w].target, worker'[w].instance)
  BY DEF RepairsKept, Kept, KeptAfter, Fenced
<1>1. CASE /\ worker[w].pc \in Repairing /\ worker[w].task = worker'[w].task
           /\ worker[w].target = worker'[w].target /\ worker[w].instance = worker'[w].instance
  <2> DEFINE c == worker[w].task[2]
             n == worker[w].target
             i == worker[w].instance
  <2>1. c \in Chunk /\ n \in Node /\ worker[w].task \in Task
    BY <1>1, RepairerNames
  <2>2. i \in started[n] /\ i \in Instance /\ i \in started'[n]
    BY <1>1, <2>1 DEF DurableInv, RepairsKept, ProcessesStarted, ProcessesStep
  <2>3. ASSUME worker'[w].pc = "publish", task'[worker[w].task].token = w,
               task'[worker[w].task].state = "running", ~ task'[worker[w].task].due
        PROVE  KeptAfter(c, n, i)
    <3>1. task'[worker[w].task] = task[worker[w].task]
      <4>1. ClaimStep
        BY OnlyClaim
      <4>2. w # None /\ worker'[w].pc # "claimed"
        BY <2>3, NoneAssumption
      <4>q. QED BY <2>1, <2>3, <4>1, <4>2 DEF ClaimStep
    <3>2. Fenced(w)
      BY <2>3, <3>1 DEF Fenced
    <3>3. Rep(c, n).state = "reserved"
      BY <1>1, <3>2 DEF RepairIsFenced
    <3>4. CASE worker[w].pc = "publish"
      <4>1. Kept(c, n, i)
        BY <3>2, <3>4 DEF DurableInv, RepairsKept, Repairing
      <4> HIDE DEF c, n, i
      <4>q. QED BY <2>1, <2>2, <3>3, <4>1 DEF KeepsStep
    <3>5. CASE UNCHANGED cluster /\ Holds(n, c)
      <4>1. Kept(c, n, i)
        BY <2>1, <2>2, <3>5, HoldsKept
      <4> HIDE DEF c, n, i
      <4>q. QED BY <3>5, <4>1 DEF cluster, nodes, Kept, KeptAfter
    <3>6. worker[w].pc = "publish" \/ (UNCHANGED cluster /\ Holds(n, c))
      BY <2>3, PublishersStep
    <3>q. QED BY <3>4, <3>5, <3>6
  <2>q. QED BY <1>1, <2>2, <2>3
<1>2. ASSUME NEW n \in Node, RepairBegin(w, n)
      PROVE  /\ worker'[w].instance \in started'[worker'[w].target]
             /\ worker'[w].pc # "publish"
  <2>1. worker'[w].target = n /\ worker'[w].instance = node[n].instance /\ Fresh(n)
    BY <1>2, BeginHasRow
  <2>2. node[n].instance # None
    BY <2>1 DEF RowInv, NodeOK, Fresh
  <2>3. worker'[w].pc = "fetch"
    BY <1>2 DEF RepairBegin, Job, TypeOK
  <2>q. QED BY <2>1, <2>2, <2>3 DEF DurableInv, ProcessesStarted, ProcessesStep
<1>3. RepairersStep
  BY RepairersKeepTarget
<1>q. QED BY <1>1, <1>2, <1>3 DEF RepairersStep

-----------------------------------------------------------------------------
\* What a reconcile has read of a node is what is registered when it starts.
SnapshotsStep ==
  \A m \in Maintainer, n \in Node : maint'[m].nodes[n] # None =>
    \/ maint'[m].nodes[n] = maint[m].nodes[n]
    \/ maint'[m].nodes[n] = node[n].instance /\ UNCHANGED <<node, retired>>

\* What one pass may set its locals to.
ReadAfter(m, p) ==
  \A n \in Node : p.nodes[n] # None =>
    \/ p.nodes[n] = maint[m].nodes[n]
    \/ p.nodes[n] = node[n].instance /\ UNCHANGED <<node, retired>>

Unread(m, p) == \A n \in Node : p.nodes[n] = None \/ p.nodes[n] = maint[m].nodes[n]

\* A step of one pass of reconcile.
LEMMA OneSnapshot ==
  ASSUME TypeOK, NEW m \in Maintainer, NEW p, maint' = [maint EXCEPT ![m] = p], ReadAfter(m, p)
  PROVE  SnapshotsStep
<1>1. maint'[m] = p /\ \A k \in Maintainer : k # m => maint'[k] = maint[k]
  BY DEF TypeOK
<1>q. QED BY <1>1 DEF SnapshotsStep, ReadAfter

\* Only the begin of a pass reads the registered processes.
LEMMA SnapshotsRead == ASSUME TypeOK, [Next]_vars PROVE SnapshotsStep
<1>t. maint \in [Maintainer -> MaintState]
  BY DEF TypeOK
<1>1. CASE UNCHANGED maint
  BY <1>1, SMTT(30) DEF SnapshotsStep
<1>2. CASE Requests \/ Environment \/ Tasks \/ UNCHANGED vars
  <2>1. UNCHANGED maint
    BY <1>2, ZenonT(40) DEF Requests, InitUpload, Complete, Cancel, Delete, Prepare, BadReplica, ConfirmBegin,
                ConfirmStat, ConfirmCommit, ConfirmAbort, Environment, Heartbeat, Age, Lapse, TaskDue,
                Tasks, Claim, WorkerFail, WorkerCrash, DeleteBegin, DeleteRemoved, DeleteCommit,
                RepairNotNeeded, RepairBegin, RepairFetch, RepairPut, RepairStat, RepairPublish, Rpc,
                vars, threads
  <2>q. QED BY <1>1, <2>1
<1>3. ASSUME NEW m \in Maintainer, ReconcileBegin(m) PROVE SnapshotsStep
  <2> DEFINE live == [n \in Node |-> IF Fresh(n) THEN node[n].instance ELSE None]
             p == Pass("next", live, None, {}, None, FALSE)
  <2>1. maint' = [maint EXCEPT ![m] = p] /\ UNCHANGED <<node, retired>>
    BY <1>3 DEF ReconcileBegin, tables
  <2>2. p.nodes = live
    BY DEF Pass
  <2>3. ReadAfter(m, p)
    <3> HIDE DEF p
    <3>1. \A n \in Node : live[n] = None \/ live[n] = node[n].instance
      OBVIOUS
    <3> HIDE DEF live
    <3>q. QED BY <2>1, <2>2, <3>1 DEF ReadAfter
  <2> HIDE DEF p
  <2>q. QED BY <2>1, <2>3, OneSnapshot
<1>4. ASSUME NEW m \in Maintainer, NEW p, maint' = [maint EXCEPT ![m] = p],
             Unread(m, p)
      PROVE  SnapshotsStep
  <2>1. ReadAfter(m, p)
    BY <1>4 DEF Unread, ReadAfter
  <2>q. QED BY <1>4, <2>1, OneSnapshot
<1>5. ASSUME NEW m \in Maintainer, NEW p, maint' = [maint EXCEPT ![m] = p], p.nodes = maint[m].nodes
      PROVE  SnapshotsStep
  BY <1>4, <1>5 DEF Unread
<1>6. ASSUME NEW m \in Maintainer, Maintain(m) \/ \E c \in Chunk : ReconcileFile(m, c) PROVE SnapshotsStep
  <2>1. \E p : maint' = [maint EXCEPT ![m] = p] /\ p.nodes = maint[m].nodes
    <3>1. CASE Maintain(m)
      <4> DEFINE p == [maint[m] EXCEPT !.pc = "reconcile"]
      <4>1. maint' = [maint EXCEPT ![m] = p]
        BY <3>1, <1>t DEF Maintain
      <4>2. p.nodes = maint[m].nodes
        BY <1>t DEF MaintState
      <4> HIDE DEF p
      <4>q. QED BY <4>1, <4>2
    <3>2. ASSUME NEW c \in Chunk, ReconcileFile(m, c)
          PROVE  \E p : maint' = [maint EXCEPT ![m] = p] /\ p.nodes = maint[m].nodes
      <4> DEFINE p == [maint[m] EXCEPT !.todo = @ \ {c}]
      <4>1. maint' = [maint EXCEPT ![m] = p]
        BY <3>2, <1>t DEF ReconcileFile
      <4>2. p.nodes = maint[m].nodes
        BY <1>t DEF MaintState
      <4> HIDE DEF p
      <4>q. QED BY <4>1, <4>2
    <3>q. QED BY <1>6, <3>1, <3>2
  <2>q. QED BY <1>5, <2>1
<1>7. ASSUME NEW m \in Maintainer,
             \/ \E n \in Node : ReconcileNode(m, n)
             \/ \E c \in Chunk, ok \in BOOLEAN : ReconcileStat(m, c, ok)
             \/ ReconcileVerify(m)
             \/ \E ids \in SUBSET Chunk : ReconcileInventory(m, ids)
      PROVE  SnapshotsStep
  <2>1. \E pc, n, todo, c, ok : maint' = [maint EXCEPT ![m] = Pass(pc, maint[m].nodes, n, todo, c, ok)]
    <3>1. CASE \E n \in Node : ReconcileNode(m, n)
      BY <3>1 DEF ReconcileNode
    <3>2. CASE \E c \in Chunk, ok \in BOOLEAN : ReconcileStat(m, c, ok)
      BY <3>2 DEF ReconcileStat
    <3>3. CASE ReconcileVerify(m)
      BY <3>3 DEF ReconcileVerify
    <3>4. CASE \E ids \in SUBSET Chunk : ReconcileInventory(m, ids)
      BY <3>4 DEF ReconcileInventory
    <3>q. QED BY <1>7, <3>1, <3>2, <3>3, <3>4
  <2>2. PICK pc, n, todo, c, ok : maint' = [maint EXCEPT ![m] = Pass(pc, maint[m].nodes, n, todo, c, ok)]
    BY <2>1
  <2> DEFINE p == Pass(pc, maint[m].nodes, n, todo, c, ok)
  <2>3. maint' = [maint EXCEPT ![m] = p] /\ p.nodes = maint[m].nodes
    BY <2>2 DEF Pass
  <2> HIDE DEF p
  <2>q. QED BY <1>5, <2>3
<1>8. ASSUME NEW m \in Maintainer, ReconcileNext(m) PROVE SnapshotsStep
  <2> DEFINE rest == [maint[m].nodes EXCEPT ![maint[m].node] = None]
             p == Pass("next", rest, None, {}, None, FALSE)
  <2>1. maint' = [maint EXCEPT ![m] = p] /\ p.nodes = rest
    BY <1>8 DEF ReconcileNext, Pass
  <2>2. \A n \in Node : rest[n] = None \/ rest[n] = maint[m].nodes[n]
    BY <1>t DEF MaintState
  <2> HIDE DEF p, rest
  <2>3. Unread(m, p)
    BY <2>1, <2>2 DEF Unread
  <2>q. QED BY <1>4, <2>1, <2>3
<1>9. ASSUME NEW m \in Maintainer, ReconcileEnd(m) PROVE SnapshotsStep
  <2> DEFINE p == IdleMaint
  <2>1. maint' = [maint EXCEPT ![m] = p]
    BY <1>9 DEF ReconcileEnd
  <2>2. Unread(m, p)
    BY DEF Unread, IdleMaint, Pass, NoNodes
  <2> HIDE DEF p
  <2>q. QED BY <1>4, <2>1, <2>2
<1>q. QED BY <1>2, <1>3, <1>6, <1>7, <1>8, <1>9 DEF Next, Maintenance

\* A process that a reconcile has read is registered, or was replaced and is retired for good.
LEMMA StepSnapshots ==
  ASSUME TypeOK, DurableInv, ProcessesStep, NodesStep, [Next]_vars PROVE SnapshotsKnown'
<1> SUFFICES ASSUME NEW m \in Maintainer, NEW n \in Node, maint'[m].nodes[n] # None
             PROVE  /\ maint'[m].nodes[n] \in started'[n] /\ node'[n].instance # None
                    /\ maint'[m].nodes[n] = node'[n].instance \/ maint'[m].nodes[n] \in retired'[n]
  BY DEF SnapshotsKnown
<1>1. CASE maint'[m].nodes[n] = maint[m].nodes[n]
  <2>1. /\ maint[m].nodes[n] \in started[n] /\ node[n].instance # None
        /\ maint[m].nodes[n] = node[n].instance \/ maint[m].nodes[n] \in retired[n]
    BY <1>1 DEF DurableInv, SnapshotsKnown
  <2>q. QED BY <1>1, <2>1 DEF NodesStep, ProcessesStep
<1>2. CASE maint'[m].nodes[n] = node[n].instance /\ UNCHANGED <<node, retired>>
  BY <1>2 DEF DurableInv, ProcessesStarted, ProcessesStep
<1>3. SnapshotsStep
  BY SnapshotsRead
<1>q. QED BY <1>1, <1>2, <1>3 DEF SnapshotsStep
\* A reconcile has found what it will record when its stat did.
LEMMA VerifiersStep ==
  ASSUME TypeOK, ClusterTypes, ClusterNext
  PROVE  \A m \in Maintainer : maint'[m].pc = "verify" /\ maint'[m].ok =>
           \/ maint'[m] = maint[m]
           \/ /\ maint[m].pc = "check" /\ maint'[m].chunk \in Chunk
              /\ maint'[m].node = maint[m].node /\ maint'[m].nodes = maint[m].nodes
              /\ Holds(maint[m].node, maint'[m].chunk)
              /\ UNCHANGED <<nodes, node, replica>>
<1>t. maint \in [Maintainer -> MaintState]
  BY DEF TypeOK
<1>1. CASE UNCHANGED maint
  BY <1>1
<1>2. CASE UserRequests \/ NodeSteps \/ TimePasses \/ (\E w \in Worker : TaskThread(w))
  <2>1. Requests \/ Environment \/ Tasks \/ UNCHANGED vars
    BY <1>2, RequestsImplement, NodeStepsImplement, TimeImplements, TasksImplement, SMTT(30)
  <2>2. UNCHANGED maint
    BY <2>1, ZenonT(40) DEF Requests, InitUpload, Complete, Cancel, Delete, Prepare, BadReplica, ConfirmBegin,
                ConfirmStat, ConfirmCommit, ConfirmAbort, Environment, Heartbeat, Age, Lapse, TaskDue,
                Tasks, Claim, WorkerFail, WorkerCrash, DeleteBegin, DeleteRemoved, DeleteCommit,
                RepairNotNeeded, RepairBegin, RepairFetch, RepairPut, RepairStat, RepairPublish, Rpc,
                vars, threads
  <2>q. QED BY <1>1, <2>2
<1>3. ASSUME NEW k \in Maintainer, NEW p, maint' = [maint EXCEPT ![k] = p], p.pc # "verify",
             NEW m \in Maintainer, maint'[m].pc = "verify"
      PROVE  maint'[m] = maint[m]
  BY <1>t, <1>3
<1>4. ASSUME NEW k \in Maintainer, NEW c \in Chunk, Statted(k, c),
             NEW m \in Maintainer, maint'[m].pc = "verify", maint'[m].ok
      PROVE  \/ maint'[m] = maint[m]
             \/ /\ maint[m].pc = "check" /\ maint'[m].chunk \in Chunk
                /\ maint'[m].node = maint[m].node /\ maint'[m].nodes = maint[m].nodes
                /\ Holds(maint[m].node, maint'[m].chunk)
                /\ UNCHANGED <<nodes, node, replica>>
  <2>1. PICK ok : ReconcileStat(k, c, ok) /\ (ok = Holds(maint[k].node, c) \/ ok = FALSE)
    BY <1>4 DEF Statted
  <2> DEFINE p == Pass("verify", maint[k].nodes, maint[k].node, maint[k].todo \ {c}, c, ok)
  <2>2. maint' = [maint EXCEPT ![k] = p] /\ maint[k].pc = "check" /\ UNCHANGED <<nodes, node, replica>>
    BY <1>4, <2>1 DEF ReconcileStat, Statted, tables, space
  <2>3. p.ok = ok /\ p.chunk = c /\ p.node = maint[k].node /\ p.nodes = maint[k].nodes
    BY DEF Pass
  <2> HIDE DEF p
  <2>4. CASE m = k
    <3>1. maint'[m] = p
      BY <1>t, <2>2, <2>4
    <3>2. Holds(maint[k].node, c)
      BY <1>4, <2>1, <2>3, <3>1
    <3>q. QED BY <2>2, <2>3, <2>4, <3>1, <3>2
  <2>5. CASE m # k
    BY <1>t, <2>2, <2>5
  <2>q. QED BY <2>4, <2>5
<1>5. ASSUME NEW k \in Maintainer,
             \/ MaintainTables(k) \/ Asked(k) \/ Listed(k) \/ NextNode(k) \/ PassEnds(k)
      PROVE  \E p : maint' = [maint EXCEPT ![k] = p] /\ p.pc # "verify"
  <2>1. CASE MaintainTables(k)
    <3>1. ASSUME Maintain(k) PROVE \E p : maint' = [maint EXCEPT ![k] = p] /\ p.pc # "verify"
      <4> DEFINE p == [maint[k] EXCEPT !.pc = "reconcile"]
      <4>1. maint' = [maint EXCEPT ![k] = p]
        BY <3>1, <1>t DEF Maintain
      <4>2. p.pc # "verify"
        BY <1>t DEF MaintState
      <4> HIDE DEF p
      <4>q. QED BY <4>1, <4>2
    <3>2. ASSUME NEW c \in Chunk, ReconcileFile(k, c)
          PROVE  \E p : maint' = [maint EXCEPT ![k] = p] /\ p.pc # "verify"
      <4> DEFINE p == [maint[k] EXCEPT !.todo = @ \ {c}]
      <4>1. maint' = [maint EXCEPT ![k] = p] /\ maint[k].pc = "files"
        BY <3>2, <1>t DEF ReconcileFile
      <4>2. p.pc # "verify"
        BY <1>t, <4>1 DEF MaintState
      <4> HIDE DEF p
      <4>q. QED BY <4>1, <4>2
    <3>q. QED BY <2>1, <3>1, <3>2 DEF MaintainTables
  <2>2. CASE Asked(k) \/ Listed(k) \/ NextNode(k)
    <3>1. CASE ReconcileBegin(k)
      <4> DEFINE p == Pass("next", [n \in Node |-> IF Fresh(n) THEN node[n].instance ELSE None], None, {}, None, FALSE)
      <4>1. maint' = [maint EXCEPT ![k] = p]
        BY <3>1 DEF ReconcileBegin
      <4>2. p.pc = "next"
        BY DEF Pass
      <4> HIDE DEF p
      <4>q. QED BY <4>1, <4>2
    <3>2. CASE ReconcileVerify(k)
      <4> DEFINE p == Pass("check", maint[k].nodes, maint[k].node, maint[k].todo, None, FALSE)
      <4>1. maint' = [maint EXCEPT ![k] = p]
        BY <3>2 DEF ReconcileVerify
      <4>2. p.pc = "check"
        BY DEF Pass
      <4> HIDE DEF p
      <4>q. QED BY <4>1, <4>2
    <3>3. ASSUME NEW n \in Node, ReconcileNode(k, n)
          PROVE  \E p : maint' = [maint EXCEPT ![k] = p] /\ p.pc # "verify"
      <4>1. PICK S : maint' = [maint EXCEPT ![k] = Pass("check", maint[k].nodes, n, S, None, FALSE)]
        BY <3>3 DEF ReconcileNode
      <4> DEFINE p == Pass("check", maint[k].nodes, n, S, None, FALSE)
      <4>2. maint' = [maint EXCEPT ![k] = p] /\ p.pc = "check"
        BY <4>1 DEF Pass
      <4> HIDE DEF p
      <4>q. QED BY <4>2
    <3>4. CASE Listed(k)
      <4> DEFINE p == Pass("files", maint[k].nodes, maint[k].node, Files(maint[k].node), None, FALSE)
      <4>1. maint' = [maint EXCEPT ![k] = p]
        BY <3>4 DEF Listed, ReconcileInventory
      <4>2. p.pc = "files"
        BY DEF Pass
      <4> HIDE DEF p
      <4>q. QED BY <4>1, <4>2
    <3>5. CASE NextNode(k)
      <4> DEFINE p == Pass("next", [maint[k].nodes EXCEPT ![maint[k].node] = None], None, {}, None, FALSE)
      <4>1. maint' = [maint EXCEPT ![k] = p]
        BY <3>5 DEF NextNode, ReconcileNext
      <4>2. p.pc = "next"
        BY DEF Pass
      <4> HIDE DEF p
      <4>q. QED BY <4>1, <4>2
    <3>q. QED BY <2>2, <3>1, <3>2, <3>3, <3>4, <3>5 DEF Asked
  <2>3. CASE PassEnds(k)
    <3> DEFINE p == IdleMaint
    <3>1. maint' = [maint EXCEPT ![k] = p] /\ p.pc # "verify"
      BY <2>3 DEF PassEnds, ReconcileEnd, IdleMaint, Pass
    <3> HIDE DEF p
    <3>q. QED BY <3>1
  <2>q. QED BY <1>5, <2>1, <2>2, <2>3
<1>6. CASE \E k \in Maintainer : MaintenanceThread(k)
  BY <1>3, <1>4, <1>5, <1>6 DEF MaintenanceThread
<1>q. QED BY <1>2, <1>6 DEF ClusterNext

\* What a reconcile has found is there until its row leaves its doubt, unless the node is replaced.
LEMMA StepVerifies ==
  ASSUME TypeOK, TypeOK', ClusterTypes, DurableInv, TableStep, KeepsStep, ProcessesStep, ClusterNext
  PROVE  VerifiesKept'
<1> SUFFICES ASSUME NEW m \in Maintainer, maint'[m].pc = "verify", maint'[m].ok,
                    maint'[m].nodes[maint'[m].node] = node'[maint'[m].node].instance,
                    replica'[<<maint'[m].chunk, maint'[m].node>>].state = "unverified"
             PROVE  KeptAfter(maint'[m].chunk, maint'[m].node, maint'[m].nodes[maint'[m].node])
  BY DEF VerifiesKept, Kept, KeptAfter, Rep
<1> DEFINE c == maint'[m].chunk
           n == maint'[m].node
           i == maint'[m].nodes[maint'[m].node]
<1>1. c \in Chunk /\ n \in Node /\ i \in Instance /\ i # None
  BY VolumeOfInstance DEF TypeOK, LocalsSet
<1>2. CASE maint'[m] = maint[m]
  <2>1. /\ maint[m].pc = "verify" /\ maint[m].ok /\ maint[m].chunk = c /\ maint[m].node = n
        /\ maint[m].nodes[n] = i
    BY <1>2
  <2> HIDE DEF c, n, i
  <2>2. node[n].instance # None /\ (i = node[n].instance \/ i \in retired[n])
    BY <1>1, <2>1 DEF DurableInv, SnapshotsKnown
  <2>3. node'[n].instance = i
    BY DEF i, n
  <2>4. node'[n].instance = node[n].instance /\ ~ Replaced(n)
    BY <1>1, <2>2, <2>3 DEF TableStep, NodesStep, Replaced
  <2>5. replica'[<<c, n>>].state = "unverified"
    BY DEF c, n
  <2>6. Rep(c, n).state = "unverified"
    BY <1>1, <2>4, <2>5 DEF TableStep, RowsStep, RowStep
  <2>7. Kept(c, n, i)
    BY <2>1, <2>3, <2>4, <2>6 DEF DurableInv, VerifiesKept
  <2>8. KeptAfter(c, n, i)
    BY <1>1, <2>6, <2>7 DEF KeepsStep
  <2>q. QED BY <2>8 DEF c, n, i
<1>3. CASE /\ maint[m].pc = "check"
           /\ maint'[m].node = maint[m].node /\ maint'[m].nodes = maint[m].nodes
           /\ Holds(maint[m].node, maint'[m].chunk) /\ UNCHANGED <<nodes, node, replica>>
  <2>1. maint[m].nodes[n] = i /\ Holds(n, c) /\ UNCHANGED <<disk, serving, started>>
    BY <1>3 DEF nodes
  <2> HIDE DEF c, n, i
  <2>2. i \in started[n]
    BY <1>1, <2>1 DEF DurableInv, SnapshotsKnown
  <2>3. Kept(c, n, i)
    BY <1>1, <2>1, <2>2, HoldsKept
  <2>4. KeptAfter(c, n, i)
    BY <2>1, <2>3 DEF Kept, KeptAfter
  <2>q. QED BY <2>4 DEF c, n, i
<1>q. QED BY <1>2, <1>3, VerifiersStep

-----------------------------------------------------------------------------
\* At first nothing is valid and nobody works.
LEMMA DurableInit == ASSUME ClusterInit PROVE DurableInv
<1>1. late = {} /\ RemovalsClaimed /\ RepairsKept
  BY DEF ClusterInit, Init, IdleWorker, Job, RemovalsClaimed, RepairsKept, Repairing
<1>2. DeletingEnded /\ ValidKept
  BY DEF ClusterInit, Init, NoRow, RepRow, Rep, DeletingEnded, ValidKept
<1>3. ProcessesStarted
  BY DEF ClusterInit, Init, ProcessesStarted
<1>4. ConfirmsKept
  BY DEF ClusterInit, Init, IdleConfirm, ConfirmsKept
<1>5. SnapshotsKnown /\ VerifiesKept
  BY DEF ClusterInit, Init, IdleMaint, NoNodes, Pass, SnapshotsKnown, VerifiesKept
<1>q. QED BY <1>1, <1>2, <1>3, <1>4, <1>5 DEF DurableInv

\* The invariant is inductive, part by part.
LEMMA DurableNext ==
  ASSUME ~ LateCalls, FilesInv, RepairInv, DurableInv, TypeOK', [ClusterNext]_allVars
  PROVE  DurableInv'
<1>1. TypeOK /\ ClusterTypes /\ RowInv /\ ObjectsInv /\ RepairIsFenced
  BY RowInvParts DEF FilesInv, RepairInv, SpaceInv
<1>2. CASE ClusterNext
  <2>1. [Next]_vars
    BY <1>1, <1>2, StepImplements
  <2>2. TableStep
    BY <1>1, <2>1, NextStepRows
  <2>3. /\ late = {} /\ RemovalsClaimed /\ DeletingEnded /\ ProcessesStarted
    BY DEF DurableInv
  <2>4. ProcessesStarted' /\ ProcessesStep
    BY <1>1, <1>2, <2>3, StepProcesses
  <2>5. KeepsStep
    BY <1>2, <2>3, StepKeeps
  <2>6. late' = {} /\ RemovalsClaimed' /\ DeletingEnded'
    BY <1>1, <1>2, <2>2, <2>3, NoLateRemoves, StepRemovals, StepDeletingEnded
  <2>7. ValidKept'
    BY <1>1, <2>2, <2>5, StepValid
  <2>8. NodesStep /\ ObjectsEnd
    BY <2>2 DEF TableStep
  <2>9. ConfirmsKept'
    BY <1>1, <1>2, <2>4, <2>5, <2>8, StepConfirms
  <2>10. RepairsKept'
    BY <1>1, <1>2, <2>1, <2>4, <2>5, StepRepairs
  <2>11. SnapshotsKnown' /\ VerifiesKept'
    BY <1>1, <1>2, <2>1, <2>2, <2>4, <2>5, <2>8, StepSnapshots, StepVerifies
  <2>q. QED BY <2>4, <2>6, <2>7, <2>9, <2>10, <2>11 DEF DurableInv
<1>3. CASE UNCHANGED allVars
  BY <1>3, Zenon DEF allVars, vars, tables, catalog, space, threads, cluster, nodes, DurableInv, RemovalsClaimed,
              Fenced, DeletingEnded, Rep, ProcessesStarted, ValidKept, Kept, ConfirmsKept, RepairsKept,
              SnapshotsKnown, VerifiesKept
<1>q. QED BY <1>2, <1>3

\* Durability, for any number of nodes, threads, restarts and faults: unless a node may
\* execute a remove after its caller's lease has ended (that counterexample is a run of
\* its own), what the metadata calls valid is on the disk of the process it has registered.
THEOREM ValidStaysStored == ASSUME ~ LateCalls PROVE ClusterSpec => []ValidIsStored
<1>1. ClusterInit => DurableInv
  BY DurableInit
<1>2. FilesInv /\ RepairInv /\ DurableInv /\ TypeOK' /\ [ClusterNext]_allVars => DurableInv'
  BY DurableNext
<1>3. FilesInv /\ DurableInv => ValidIsStored
  BY DEF DurableInv, ValidKept, Kept, ValidIsStored, Holds, Files
<1>q. QED BY <1>1, <1>2, <1>3, FilesAreInvariant, ClusterIsMetadata, RepairsAreInvariant, TypeCorrect, PTL
             DEF ClusterSpec
=============================================================================
