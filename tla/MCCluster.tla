------------------------------ MODULE MCCluster ------------------------------
(***************************************************************************)
(* Instances of Cluster for TLC.                                           *)
(***************************************************************************)
EXTENDS Cluster, TLC

CONSTANTS o1, i1, i2, i3, v1, v2

OneByte == [o \in Object |-> 1]
FirstRestarts == [n \in Node |-> IF n = 1 THEN {i1, i2} ELSE {i1}]
FirstRestartsTwice == [n \in Node |-> IF n = 1 THEN {i1, i2, i3} ELSE {i1}]
OneProcess == [n \in Node |-> {i1}]
SameVolume == [i \in Instance |-> v1]
NewVolume == [i \in Instance |-> IF i = i1 THEN v1 ELSE v2]
ThenNewVolume == [i \in Instance |-> IF i = i3 THEN v2 ELSE v1]

\* o1 was uploaded to the nodes 1 and 2 and published; all nodes serve.
Home == {1, 2}

InitOf(rows, silent, reservedOn, jobs, queue, faulty) ==
  /\ object = [o \in Object |-> "published"]
  /\ upload = [o \in Object |-> "completed"]
  /\ lapsed = [o \in Object |-> FALSE]
  /\ chunk = [c \in Chunk |-> [state |-> "confirmed", sha |-> CHOOSE s \in Sha : TRUE]]
  /\ replica = [r \in Chunk \X Node |-> rows[r[2]]]
  /\ node = [n \in Node |-> [instance |-> i1, volume |-> v1,
                            age |-> IF n \in silent THEN "suspect" ELSE "fresh", free |-> Capacity]]
  /\ reserved = [n \in Node |-> IF n \in reservedOn THEN Bytes(Chunk) ELSE 0]
  /\ used = [n \in Node |-> IF n \in Home THEN Bytes(Chunk) ELSE 0]
  /\ retired = [n \in Node |-> {}]
  /\ task = queue
  /\ confirm = [h \in Confirmer |-> IdleConfirm]
  /\ worker = jobs
  /\ maint = [m \in Maintainer |-> IdleMaint]
  /\ disk = [d \in Node \X Volume |-> IF d[1] \in Home /\ d[2] = v1 THEN Chunk ELSE {}]
  /\ serving = [n \in Node |-> i1]
  /\ started = [n \in Node |-> {i1}]
  /\ ticket = {} /\ signed = {} /\ late = {} /\ faults = faulty

InitPublished ==
  InitOf([n \in Node |-> IF n \in Home THEN RepRow("valid", "used", v1) ELSE NoRow], {}, {},
         [w \in Worker |-> IdleWorker], [t \in Task |-> QueueRow("done", FALSE, None)], 0)

\* The same when node 1 has been silent and maintain has queued a repair.
InitSilent ==
  InitOf([n \in Node |-> IF n \in Home THEN RepRow("valid", "used", v1) ELSE NoRow], {1}, {},
         [w \in Worker |-> IdleWorker],
         [t \in Task |-> IF t[1] = "repair" THEN QueueRow("pending", TRUE, None)
                                            ELSE QueueRow("done", FALSE, None)], 1)

\* The same when a download has failed on node 1: a worker fetches the chunk
\* from node 2 to copy it to node 3.
InitRepairing(faulty) ==
  \E w \in Worker, c \in Chunk :
    InitOf([n \in Node |-> CASE n = 1 -> RepRow("bad", "used", v1)
                             [] n = 2 -> RepRow("valid", "used", v1)
                             [] OTHER -> RepRow("reserved", "reserved", v1)], {}, {3},
           [x \in Worker |-> IF x = w THEN Job("fetch", RepairOf(c), {2}, 3, i1) ELSE IdleWorker],
           [t \in Task |-> IF t = RepairOf(c) THEN QueueRow("running", FALSE, w)
                                              ELSE QueueRow("done", FALSE, None)], faulty)

\* Restarts and reconciliation of published data.
NextRecovery ==
  \/ NodeSteps
  \/ \E t \in Task : LeaseEnds(t)
  \/ \E w \in Worker : TaskThread(w)
  \/ \E m \in Maintainer : MaintenanceThread(m)

\* An upload through the gateway, from the start of the nodes.
NextUpload ==
  \/ UserRequests \/ NodeSteps \/ TimePasses
  \/ \E w \in Worker : TaskThread(w)

SpecUpload == ClusterInit /\ [][NextUpload]_allVars
Workers == Permutations(Worker)

SpecRecovery == InitPublished /\ [][NextRecovery]_allVars

\* The deletion of an object whose repair is under way.
NextCleanup ==
  \/ \E o \in Object : Request(o)
  \/ \E tk \in ticket : Put(tk) \/ TicketExpires(tk)
  \/ \E t \in Task : LeaseEnds(t)
  \/ \E w \in Worker : TaskThread(w)
  \/ \E m \in Maintainer : MaintenanceThread(m)

\* The repair of a published object; processes stay, reconcile is left out.
NextRepair ==
  \/ \E n \in Node : NodeHeartbeat(n, i1) \/ Silence(n)
  \/ \E tk \in ticket : Put(tk) \/ TicketExpires(tk)
  \/ \E t \in Task : LeaseEnds(t)
  \/ \E w \in Worker : TaskThread(w)
  \/ \E m \in Maintainer : MaintainTables(m) \/ (ReconcileEnd(m) /\ UNCHANGED cluster)

NextRepairs ==
  \/ NextRepair
  \/ \E c \in Chunk, n \in Node : GatewayBad(c, n)
  \/ \E r \in late : LateRemove(r)

SpecRepairs == InitSilent /\ [][NextRepairs]_allVars
=============================================================================
