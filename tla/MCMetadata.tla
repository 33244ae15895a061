----------------------------- MODULE MCMetadata -----------------------------
(***************************************************************************)
(* Instances of Metadata for TLC.                                          *)
(***************************************************************************)
EXTENDS Metadata, TLC

CONSTANTS o1, i1, v1

OneByte == [o \in Object |-> 1]
TwoUploads == [o \in Object |-> IF o = o1 THEN 3 ELSE 1]
OneProcess == [n \in Node |-> {i1}]
SameVolume == [i \in Instance |-> v1]

\* Every node has registered its first process.
Registered ==
  [n \in Node |-> [instance |-> i1, volume |-> v1, age |-> "fresh",
                   free |-> Capacity]]

\* Published: o1 was uploaded to nodes 1 and 2 and completed; nothing runs.
Home == {1, 2}

InitPublished ==
  /\ object = [o \in Object |-> IF o = o1 THEN "published" ELSE "absent"]
  /\ upload = [o \in Object |-> IF o = o1 THEN "completed" ELSE "absent"]
  /\ lapsed = [o \in Object |-> FALSE]
  /\ chunk = [c \in Chunk |-> IF c[1] = o1 THEN [state |-> "confirmed", sha |-> CHOOSE s \in Sha : TRUE]
                                          ELSE [state |-> "pending", sha |-> None]]
  /\ replica = [r \in Chunk \X Node |->
                  IF r[1][1] = o1 /\ r[2] \in Home THEN RepRow("valid", "used", v1) ELSE NoRow]
  /\ node = Registered
  /\ reserved = [n \in Node |-> 0]
  /\ used = [n \in Node |-> IF n \in Home THEN Size[o1] ELSE 0]
  /\ retired = [n \in Node |-> {}]
  /\ task = [t \in Task |-> QueueRow("done", FALSE, None)]
  /\ confirm = [h \in Confirmer |-> IdleConfirm]
  /\ worker = [w \in Worker |-> IdleWorker]
  /\ maint = [m \in Maintainer |-> IdleMaint]

\* Uploads only: no node restarts are needed for tasks that nobody runs.
InitRegistered ==
  /\ object = [o \in Object |-> "absent"]
  /\ upload = [o \in Object |-> "absent"]
  /\ lapsed = [o \in Object |-> FALSE]
  /\ chunk = [c \in Chunk |-> [state |-> "pending", sha |-> None]]
  /\ replica = [r \in Chunk \X Node |-> NoRow]
  /\ node = Registered
  /\ reserved = [n \in Node |-> 0]
  /\ used = [n \in Node |-> 0]
  /\ retired = [n \in Node |-> {}]
  /\ task = [t \in Task |-> QueueRow("done", FALSE, None)]
  /\ confirm = [h \in Confirmer |-> IdleConfirm]
  /\ worker = [w \in Worker |-> IdleWorker]
  /\ maint = [m \in Maintainer |-> IdleMaint]

NextUpload ==
  \/ Requests
  \/ \E n \in Node : \E i \in Processes[n], free \in FreeReports : Heartbeat(n, i, free)
  \/ \E n \in Node : Age(n)
  \/ \E o \in Object : Lapse(o)
  \/ \E m \in Maintainer : Maintain(m) \/ ReconcileEnd(m)

SpecRegistered == InitRegistered /\ [][NextUpload]_vars

\* Tasks of published data, which may be deleted, while the nodes stay up.
NextTakeover ==
  \/ \E c \in Chunk, n \in Node : BadReplica(c, n)
  \/ \E o \in Object : Delete(o)
  \/ \E n \in Node : \E i \in Processes[n], free \in FreeReports : Heartbeat(n, i, free)
  \/ \E t \in Task : TaskDue(t)
  \/ Tasks

SpecTakeover == InitPublished /\ [][NextTakeover]_vars

Workers == Permutations(Worker)
=============================================================================
