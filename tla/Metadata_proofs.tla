--------------------------- MODULE Metadata_proofs ---------------------------
(***************************************************************************)
(* Proofs about Metadata, for any number of objects, chunks, nodes,        *)
(* restarts and threads: its types and states, the fencing of writes, and  *)
(* that the tables implement ObjectStore; and about FileService's space:   *)
(* the accounting is exact, nodes are not promised more than they have,    *)
(* and repairs neither reserve twice nor lose what they have reserved.     *)
(***************************************************************************)
EXTENDS Metadata, FiniteSetTheorems, TLAPS

-----------------------------------------------------------------------------
(***************************************************************************)
(* Arithmetic of chunks and bytes.                                         *)
(***************************************************************************)

\* Every object has finitely many chunks, numbered from 0 (line 83).
LEMMA CountNat == \A o \in Object : Count(o) \in Nat
  BY ChunksAssumption, SMT DEF Count

\* A chunk is not empty and no longer than the chunk size (line 91).
LEMMA LengthRange == \A c \in Chunk : Length(c) \in 1 .. ChunkSize
<1> SUFFICES ASSUME NEW o \in Object, NEW i \in 0 .. Count(o) - 1
             PROVE  Length(<<o, i>>) \in 1 .. ChunkSize
  BY DEF Chunk, Chunks
<1> DEFINE s == Size[o]
           k == ChunkSize
           q == Count(o)
<1>1. s \in Nat /\ k \in Nat /\ k > 0 /\ q \in Nat /\ i \in Nat /\ i <= q - 1
  BY ChunksAssumption, CountNat
<1>2. q * k <= s + k - 1
  BY <1>1, SMT DEF Count
<1>3. i * k <= (q - 1) * k
  BY <1>1, SMT
<1>4. (q - 1) * k = q * k - k
  BY <1>1, SMT
<1>5. s - i * k >= 1
  <2> HIDE DEF q, s, k
  <2> QED BY <1>1, <1>2, <1>3, <1>4, SMT
<1> QED
  BY <1>1, <1>5, SMT DEF Length

\* The table of chunks is finite.
LEMMA ChunkFinite == IsFiniteSet(Chunk)
<1> DEFINE f == [o \in Object |-> Chunks(o)]
           T == {Chunks(o) : o \in Object}
<1>1. IsFiniteSet(T)
  <2>1. f \in Surjection(Object, T)
    BY DEF Surjection
  <2> QED
    BY <2>1, FS_Surjection, ChunksAssumption
<1>2. ASSUME NEW o \in Object PROVE IsFiniteSet(Chunks(o))
  <2>1. IsFiniteSet(0 .. Count(o) - 1)
    BY CountNat, FS_Interval
  <2> QED
    BY <2>1, FS_Singleton, FS_Product DEF Chunks
<1> QED
  BY <1>1, <1>2, FS_UNION DEF Chunk

\* The bytes of a set of chunks are counted by a natural number.
ByteSet(S) == {p \in S \X (1 .. ChunkSize) : p[2] <= Length(p[1])}

LEMMA ByteSetFinite ==
  ASSUME NEW S \in SUBSET Chunk
  PROVE  IsFiniteSet(ByteSet(S)) /\ Bytes(S) = Cardinality(ByteSet(S)) /\ Bytes(S) \in Nat
<1>1. IsFiniteSet(S \X (1 .. ChunkSize))
  <2>1. IsFiniteSet(S)
    BY ChunkFinite, FS_Subset
  <2>2. IsFiniteSet(1 .. ChunkSize)
    <3>1. 1 \in Int /\ ChunkSize \in Int
      BY ChunksAssumption
    <3> QED
      BY <3>1, FS_Interval
  <2> QED
    BY <2>1, <2>2, FS_Product
<1>2. IsFiniteSet(ByteSet(S))
  BY <1>1, FS_Subset DEF ByteSet
<1> QED
  BY <1>2, FS_CardinalityType DEF ByteSet, Bytes

\* Bytes adds up over disjoint sets of chunks.
LEMMA BytesUnion ==
  ASSUME NEW S \in SUBSET Chunk, NEW T \in SUBSET Chunk, S \cap T = {}
  PROVE  Bytes(S \cup T) = Bytes(S) + Bytes(T)
<1>1. ByteSet(S \cup T) = ByteSet(S) \cup ByteSet(T)
  BY DEF ByteSet
<1>2. ByteSet(S) \cap ByteSet(T) = {}
  BY DEF ByteSet
<1>3. Bytes(S \cup T) = Cardinality(ByteSet(S \cup T))
  <2>1. S \cup T \in SUBSET Chunk
    OBVIOUS
  <2> QED
    BY <2>1, ByteSetFinite
<1>4. /\ IsFiniteSet(ByteSet(S)) /\ Bytes(S) = Cardinality(ByteSet(S)) /\ Bytes(S) \in Nat
      /\ IsFiniteSet(ByteSet(T)) /\ Bytes(T) = Cardinality(ByteSet(T)) /\ Bytes(T) \in Nat
  BY ByteSetFinite
<1>5. Cardinality(ByteSet(S) \cup ByteSet(T))
        = Cardinality(ByteSet(S)) + Cardinality(ByteSet(T)) - Cardinality(ByteSet(S) \cap ByteSet(T))
  BY <1>4, FS_Union
<1>6. Cardinality(ByteSet(S) \cap ByteSet(T)) = 0
  BY <1>2, FS_EmptySet
<1>7. Bytes(S \cup T) = Cardinality(ByteSet(S) \cup ByteSet(T))
  BY <1>1, <1>3, Zenon
<1> QED
  BY <1>4, <1>5, <1>6, <1>7

LEMMA BytesEmpty == Bytes({}) = 0
<1>1. ByteSet({}) = {}
  BY DEF ByteSet
<1> QED
  BY <1>1, FS_EmptySet, ByteSetFinite

LEMMA BytesOne == ASSUME NEW c \in Chunk PROVE Bytes({c}) = Length(c)
<1>1. ByteSet({c}) = {c} \X (1 .. Length(c))
  BY LengthRange, ChunksAssumption DEF ByteSet
<1>2. Cardinality({c}) = 1 /\ IsFiniteSet({c})
  BY FS_Singleton
<1>3. Length(c) \in Nat /\ Length(c) >= 1
  BY LengthRange, ChunksAssumption
<1>4. IsFiniteSet(1 .. Length(c)) /\ Cardinality(1 .. Length(c)) = Length(c)
  <2>1. 1 \in Int /\ Length(c) \in Int
    BY <1>3
  <2>2. Cardinality(1 .. Length(c)) = IF 1 > Length(c) THEN 0 ELSE Length(c) - 1 + 1
    BY <2>1, FS_Interval
  <2> QED
    <3>1. IsFiniteSet(1 .. Length(c))
      BY <2>1, FS_Interval
    <3>2. Cardinality(1 .. Length(c)) = Length(c)
      BY <2>1, <2>2, <1>3
    <3> QED
      BY <3>1, <3>2, Zenon
<1>5. Cardinality({c} \X (1 .. Length(c))) = 1 * Length(c)
  <2>1. Cardinality({c} \X (1 .. Length(c))) = Cardinality({c}) * Cardinality(1 .. Length(c))
    BY <1>2, <1>4, FS_Product, Zenon
  <2> QED
    BY <2>1, <1>2, <1>4, Zenon
<1>6. Bytes({c}) = Cardinality(ByteSet({c}))
  BY ByteSetFinite
<1>7. Bytes({c}) = Cardinality({c} \X (1 .. Length(c)))
  BY <1>1, <1>6, Zenon
<1> QED
  BY <1>3, <1>5, <1>7

\* Adding a chunk to, or taking it from, a set changes Bytes by its length.
LEMMA BytesAdd ==
  ASSUME NEW S \in SUBSET Chunk, NEW c \in Chunk, c \notin S
  PROVE  Bytes(S \cup {c}) = Bytes(S) + Length(c)
  BY BytesUnion, BytesOne

LEMMA BytesRemove ==
  ASSUME NEW S \in SUBSET Chunk, NEW c \in S
  PROVE  Bytes(S \ {c}) = Bytes(S) - Length(c)
<1>1. (S \ {c}) \cup {c} = S
  OBVIOUS
<1>2. Bytes(S) = Bytes(S \ {c}) + Length(c)
  BY <1>1, BytesAdd
<1>3. Bytes(S \ {c}) \in Nat /\ Length(c) \in Nat
  BY ByteSetFinite, LengthRange, ChunksAssumption
<1> QED
  BY <1>2, <1>3

-----------------------------------------------------------------------------
(***************************************************************************)
(* Type correctness.                                                       *)
(***************************************************************************)
TableTypes == /\ object \in [Object -> ObjectState]
              /\ upload \in [Object -> UploadState]
              /\ lapsed \in [Object -> BOOLEAN]
              /\ chunk \in [Chunk -> [state : {"pending", "confirmed"}, sha : Sha \cup {None}]]
              /\ replica \in [Chunk \X Node -> Row]
              /\ node \in [Node -> NodeRow]
              /\ reserved \in [Node -> Int]
              /\ used \in [Node -> Int]
              /\ retired \in [Node -> SUBSET Instance]
              /\ task \in [Task -> TaskRow]

ThreadTypes == /\ confirm \in [Confirmer -> ConfirmState]
               /\ worker \in [Worker -> WorkerState]
               /\ maint \in [Maintainer -> MaintState]
               /\ LocalsSet

LEMMA TypeParts == TypeOK <=> TableTypes /\ ThreadTypes
  BY DEF TypeOK, TableTypes, ThreadTypes

LEMMA TypeParts2 == TypeOK' <=> TableTypes' /\ ThreadTypes'
  BY DEF TypeOK, TableTypes, ThreadTypes

\* Lengths and byte counts are integers.
LEMMA Numbers ==
  /\ \A c \in Chunk : Length(c) \in Nat /\ Length(c) >= 1
  /\ \A S \in SUBSET Chunk : Bytes(S) \in Nat
  BY LengthRange, ChunksAssumption, ByteSetFinite

\* enqueue and retire keep the table of tasks well formed.
LEMMA EnqueueType ==
  ASSUME NEW tasks \in [Task -> TaskRow], NEW T, NEW delayed \in BOOLEAN
  PROVE  Enqueue(tasks, T, delayed) \in [Task -> TaskRow]
  BY DEF Enqueue, TaskRow, QueueRow

LEMMA RetiredTasksType ==
  ASSUME task \in [Task -> TaskRow], NEW S
  PROVE  RetiredTasks(S) \in [Task -> TaskRow]
<1> DEFINE fenced == [t \in Task |-> IF t[1] = "repair" /\ t[2][1] \in S
                                    THEN QueueRow("done", FALSE, None) ELSE task[t]]
<1>1. fenced \in [Task -> TaskRow]
  BY DEF TaskRow, QueueRow
<1> QED
  BY <1>1, EnqueueType DEF RetiredTasks

LEMMA RetireType ==
  ASSUME TableTypes, NEW S, NEW end \in UploadState, Retire(S, end)
  PROVE  /\ object' \in [Object -> ObjectState]
         /\ upload' \in [Object -> UploadState]
         /\ replica' \in [Chunk \X Node -> Row]
         /\ reserved' \in [Node -> Int]
<1>1. object' \in [Object -> ObjectState] /\ upload' \in [Object -> UploadState]
  BY DEF TableTypes, Retire, ObjectState, UploadState
<1>2. replica' \in [Chunk \X Node -> Row]
  BY DEF TableTypes, Retire, RetiredRow, RepRow, Row, ReplicaState, Charge
<1>3. \A n \in Node : Bytes({c \in Chunk : c[1] \in S /\ Rep(c, n).charged = "reserved"}) \in Nat
  BY Numbers
<1>4. reserved' \in [Node -> Int]
  BY <1>3 DEF TableTypes, Retire
<1> QED
  BY <1>1, <1>2, <1>4

LEMMA RetireTables ==
  ASSUME TableTypes, NEW S, NEW end \in UploadState, Retire(S, end),
         task' \in [Task -> TaskRow], UNCHANGED <<node, retired>>
  PROVE  TableTypes'
<1>1. lapsed' = lapsed /\ chunk' = chunk /\ used' = used
  BY DEF Retire
<1>2. /\ object' \in [Object -> ObjectState]
      /\ upload' \in [Object -> UploadState]
      /\ replica' \in [Chunk \X Node -> Row]
      /\ reserved' \in [Node -> Int]
  BY RetireType
<1> QED
  BY <1>1, <1>2 DEF TableTypes

LEMMA NewRowType == ASSUME TableTypes, NEW n \in Node PROVE NewRow(n) \in Row
  BY DEF TableTypes, NewRow, RepRow, Row, NodeRow, ReplicaState, Charge

LEMMA UnchargeType ==
  ASSUME TableTypes, NEW c \in Chunk, NEW n \in Node, Uncharge(c, n)
  PROVE  reserved' \in [Node -> Int] /\ used' \in [Node -> Int]
  BY Numbers DEF TableTypes, Uncharge

LEMMA ReserveNodes == \A l, k, E, held : Reserve(l, k, E, held) \subseteq Node
  BY DEF Reserve

\* What only depends on the locals of other threads stays.
LEMMA LocalsStay == ASSUME ThreadTypes, UNCHANGED threads PROVE ThreadTypes'
  BY DEF ThreadTypes, LocalsSet, threads

LEMMA TablesStay == ASSUME TableTypes, UNCHANGED tables PROVE TableTypes'
  BY DEF TableTypes, tables, catalog, space

\* Actions of the request handlers keep the types.
LEMMA RequestsType == ASSUME TypeOK, Requests PROVE TypeOK'
<1> USE TypeParts, TypeParts2
<1>1. ASSUME NEW o \in Object, InitUpload(o) PROVE TypeOK'
  <2>1. PICK place \in [Chunks(o) -> {S \in SUBSET Node : Cardinality(S) = Replicas}] :
          /\ replica' = [r \in Chunk \X Node |->
                           IF r[1][1] = o /\ r[2] \in place[r[1]] THEN NewRow(r[2]) ELSE replica[r]]
          /\ reserved' = [n \in Node |-> reserved[n] + Bytes({c \in Chunks(o) : n \in place[c]})]
    BY <1>1 DEF InitUpload
  <2>2. replica' \in [Chunk \X Node -> Row]
    BY <2>1, NewRowType DEF TableTypes
  <2>3. \A n \in Node : Bytes({c \in Chunks(o) : n \in place[c]}) \in Nat
    <3>1. Chunks(o) \subseteq Chunk
      BY DEF Chunk
    <3> QED
      BY <3>1, Numbers
  <2>4. reserved' \in [Node -> Int]
    BY <2>1, <2>3 DEF TableTypes
  <2>5. TableTypes'
    BY <1>1, <2>2, <2>4 DEF InitUpload, TableTypes, ObjectState, UploadState
  <2> QED
    BY <1>1, <2>5, LocalsStay DEF InitUpload
<1>2. ASSUME NEW o \in Object, Complete(o) PROVE TypeOK'
  <2>1. TableTypes'
    BY <1>2 DEF Complete, TableTypes, ObjectState, UploadState, space
  <2> QED
    BY <1>2, <2>1, LocalsStay DEF Complete
<1>3. ASSUME NEW o \in Object, Cancel(o) \/ Delete(o) PROVE TypeOK'
  <2>1. Retire({o}, "cancelled") /\ task' = RetiredTasks({o}) /\ UNCHANGED <<node, retired, threads>>
    BY <1>3 DEF Cancel, Delete
  <2>2. "cancelled" \in UploadState
    BY DEF UploadState
  <2>3. task' \in [Task -> TaskRow]
    BY <2>1, RetiredTasksType DEF TableTypes
  <2>4. TableTypes'
    BY <2>1, <2>2, <2>3, RetireTables
  <2> QED
    BY <2>1, <2>4, LocalsStay
<1>4. ASSUME NEW c \in Chunk, NEW s \in Sha, Prepare(c, s) PROVE TypeOK'
  <2>1. TableTypes'
    BY <1>4 DEF Prepare, TableTypes, space
  <2> QED
    BY <1>4, <2>1, LocalsStay DEF Prepare
<1>5. ASSUME NEW c \in Chunk, NEW n \in Node, BadReplica(c, n) PROVE TypeOK'
  <2>1. replica' \in [Chunk \X Node -> Row]
    BY <1>5 DEF BadReplica, TableTypes, Row, RepRow, ReplicaState
  <2>2. task' \in [Task -> TaskRow]
    BY <1>5, EnqueueType DEF BadReplica, TableTypes
  <2>3. TableTypes'
    BY <1>5, <2>1, <2>2 DEF BadReplica, TableTypes, catalog
  <2> QED
    BY <1>5, <2>3, LocalsStay DEF BadReplica
<1>6. ASSUME NEW h \in Confirmer, NEW c \in Chunk, ConfirmBegin(h, c) PROVE TypeOK'
  <2>1. Located(c) \in [Node -> Instance \cup {None}] /\ Positions(c) \in SUBSET Node
    BY DEF Located, Positions, TableTypes, NodeRow
  <2>2. confirm' \in [Confirmer -> ConfirmState]
    BY <1>6, <2>1 DEF ConfirmBegin, ThreadTypes, ConfirmState
  <2>3. LocalsSet'
    BY <1>6, NoneAssumption DEF ConfirmBegin, LocalsSet, ThreadTypes
  <2> QED
    BY <1>6, <2>2, <2>3, TablesStay DEF ConfirmBegin, ThreadTypes
<1>7. ASSUME NEW h \in Confirmer, NEW n \in Node, ConfirmStat(h, n) PROVE TypeOK'
  <2>1. confirm' \in [Confirmer -> ConfirmState]
    BY <1>7 DEF ConfirmStat, ThreadTypes, ConfirmState
  <2>2. LocalsSet'
    BY <1>7 DEF ConfirmStat, ThreadTypes, ConfirmState, LocalsSet
  <2> QED
    BY <1>7, <2>1, <2>2, TablesStay DEF ConfirmStat, ThreadTypes
<1>8. ASSUME NEW h \in Confirmer, ConfirmCommit(h) PROVE TypeOK'
  <2>1. confirm[h].chunk \in Chunk
    BY <1>8 DEF ConfirmCommit, ThreadTypes, ConfirmState
  <2>2. replica' \in [Chunk \X Node -> Row]
    BY <1>8 DEF ConfirmCommit, TableTypes, Row, RepRow, ReplicaState, Charge
  <2>3. reserved' \in [Node -> Int] /\ used' \in [Node -> Int]
    BY <1>8, <2>1, Numbers DEF ConfirmCommit, TableTypes
  <2>4. confirm' \in [Confirmer -> ConfirmState]
    BY <1>8 DEF ConfirmCommit, ThreadTypes, ConfirmState, IdleConfirm, NoNodes
  <2>5. LocalsSet'
    BY <1>8 DEF ConfirmCommit, ThreadTypes, LocalsSet, IdleConfirm
  <2>6. chunk' \in [Chunk -> [state : {"pending", "confirmed"}, sha : Sha \cup {None}]]
    BY <1>8 DEF ConfirmCommit, TableTypes
  <2> QED
    BY <1>8, <2>2, <2>3, <2>4, <2>5, <2>6 DEF ConfirmCommit, TableTypes, ThreadTypes
<1>9. ASSUME NEW h \in Confirmer, ConfirmAbort(h) PROVE TypeOK'
  <2>1. confirm' \in [Confirmer -> ConfirmState]
    BY <1>9 DEF ConfirmAbort, ThreadTypes, ConfirmState, IdleConfirm, NoNodes
  <2>2. LocalsSet'
    BY <1>9 DEF ConfirmAbort, ThreadTypes, LocalsSet, IdleConfirm
  <2> QED
    BY <1>9, <2>1, <2>2, TablesStay DEF ConfirmAbort, ThreadTypes
<1> QED
  BY <1>1, <1>2, <1>3, <1>4, <1>5, <1>6, <1>7, <1>8, <1>9 DEF Requests

\* Heartbeats and the passing of time keep the types.
LEMMA EnvironmentType == ASSUME TypeOK, Environment PROVE TypeOK'
<1> USE TypeParts, TypeParts2
<1>1. ASSUME NEW n \in Node, NEW i \in Processes[n], NEW free \in FreeReports, Heartbeat(n, i, free)
      PROVE  TypeOK'
  <2>1. i \in Instance /\ free \in Nat /\ VolumeOf[i] \in Volume
    BY NodesAssumption DEF Volume
  <2>2. node' \in [Node -> NodeRow]
    BY <1>1, <2>1 DEF Heartbeat, TableTypes, NodeRow
  <2>3. \A row \in Row : RowAfterChange(row, VolumeOf[i]) \in Row
    BY <2>1 DEF RowAfterChange, RepRow, Row, ReplicaState, Charge
  <2>4. replica' \in [Chunk \X Node -> Row]
    BY <1>1, <2>3 DEF Heartbeat, TableTypes
  <2>5. retired' \in [Node -> SUBSET Instance]
    BY <1>1 DEF Heartbeat, TableTypes, NodeRow
  <2>6. UNCHANGED <<object, upload, lapsed, chunk, reserved, used, task, threads>>
    BY <1>1 DEF Heartbeat, catalog
  <2>7. TableTypes'
    BY <2>2, <2>4, <2>5, <2>6 DEF TableTypes
  <2> QED
    BY <2>6, <2>7, LocalsStay
<1>2. ASSUME NEW n \in Node, Age(n) PROVE TypeOK'
  <2>1. node' \in [Node -> NodeRow]
    <3> DEFINE a == IF node[n].age = "fresh" THEN "suspect" ELSE "dead"
    <3>1. node' = [node EXCEPT ![n].age = a] /\ a \in {"fresh", "suspect", "dead"}
      BY <1>2 DEF Age
    <3> HIDE DEF a
    <3> QED
      BY <3>1 DEF TableTypes, NodeRow
  <2>2. UNCHANGED <<object, upload, lapsed, chunk, replica, reserved, used, retired, task, threads>>
    BY <1>2 DEF Age, catalog, space
  <2>3. TableTypes'
    BY <2>1, <2>2 DEF TableTypes
  <2> QED
    BY <2>2, <2>3, LocalsStay
<1>3. ASSUME NEW o \in Object, Lapse(o) PROVE TypeOK'
  <2>1. TableTypes'
    BY <1>3 DEF Lapse, TableTypes, space
  <2> QED
    BY <1>3, <2>1, LocalsStay DEF Lapse
<1>4. ASSUME NEW t \in Task, TaskDue(t) PROVE TypeOK'
  <2>1. task' \in [Task -> TaskRow]
    BY <1>4 DEF TaskDue, TableTypes, TaskRow
  <2>2. TableTypes'
    BY <1>4, <2>1 DEF TaskDue, TableTypes, space, catalog
  <2> QED
    BY <1>4, <2>2, LocalsStay DEF TaskDue
<1> QED
  BY <1>1, <1>2, <1>3, <1>4 DEF Environment

\* The parts of the thread types, one kind of thread at a time.
LEMMA WorkersOnly ==
  ASSUME ThreadTypes, confirm' = confirm, maint' = maint,
         worker' \in [Worker -> WorkerState],
         \A w \in Worker :
           /\ worker'[w].pc # "idle" => worker'[w].task \in Task
           /\ worker'[w].pc \in {"fetch", "put", "stat", "publish"} =>
                worker'[w].task[1] = "repair" /\ worker'[w].target \in Node
           /\ worker'[w].pc \in {"remove", "removed"} => worker'[w].task[1] = "delete"
  PROVE  ThreadTypes'
  BY DEF ThreadTypes, LocalsSet

\* A step that sends worker w to job j.
LEMMA WorkerMoves ==
  ASSUME ThreadTypes, NEW w \in Worker, NEW j \in WorkerState,
         worker' = [worker EXCEPT ![w] = j], confirm' = confirm, maint' = maint,
         j.pc # "idle" => j.task \in Task,
         j.pc \in {"fetch", "put", "stat", "publish"} => j.task[1] = "repair" /\ j.target \in Node,
         j.pc \in {"remove", "removed"} => j.task[1] = "delete"
  PROVE  ThreadTypes'
<1>1. worker \in [Worker -> WorkerState]
  BY DEF ThreadTypes
<1>2. worker' \in [Worker -> WorkerState]
  BY <1>1
<1>3. ASSUME NEW v \in Worker
      PROVE  /\ worker'[v].pc # "idle" => worker'[v].task \in Task
             /\ worker'[v].pc \in {"fetch", "put", "stat", "publish"} =>
                  worker'[v].task[1] = "repair" /\ worker'[v].target \in Node
             /\ worker'[v].pc \in {"remove", "removed"} => worker'[v].task[1] = "delete"
  <2>1. CASE v = w
    BY <1>1, <2>1
  <2>2. CASE v # w
    BY <1>1, <2>2 DEF ThreadTypes, LocalsSet
  <2> QED
    BY <2>1, <2>2
<1> QED
  BY <1>2, <1>3, WorkersOnly

LEMMA WorkerRests ==
  ASSUME ThreadTypes, NEW w \in Worker, worker' = [worker EXCEPT ![w] = IdleWorker],
         confirm' = confirm, maint' = maint
  PROVE  ThreadTypes'
<1>1. IdleWorker \in WorkerState /\ IdleWorker.pc = "idle"
  BY DEF IdleWorker, Job, WorkerState
<1> QED
  BY <1>1, WorkerMoves

\* What a task names.
LEMMA TaskNames ==
  ASSUME NEW t \in Task
  PROVE  /\ t[2] \in Chunk
         /\ t[1] = "delete" => t[3] \in Node
         /\ t[1] \in {"repair", "delete"}
  BY DEF Task

LEMMA TaskDoneType ==
  ASSUME TableTypes, ThreadTypes, NEW w \in Worker, worker[w].pc # "idle"
  PROVE  TaskDone(w) \in [Task -> TaskRow]
  BY DEF TaskDone, QueueRow, TableTypes, TaskRow, ThreadTypes, LocalsSet

\* Writing one replica row.
LEMMA RowWritten ==
  ASSUME TableTypes, NEW c \in Chunk, NEW n \in Node, NEW row \in Row,
         replica' = [replica EXCEPT ![<<c, n>>] = row]
  PROVE  replica' \in [Chunk \X Node -> Row]
  BY DEF TableTypes

LEMMA RowType ==
  ASSUME TableTypes, NEW c \in Chunk, NEW n \in Node
  PROVE  /\ Rep(c, n) \in Row
         /\ \A s \in ReplicaState, k \in Charge : RepRow(s, k, Rep(c, n).volume) \in Row
         /\ Rep(c, n).state \in ReplicaState /\ Rep(c, n).charged \in Charge
  BY DEF TableTypes, Rep, Row, RepRow

\* The workers' actions keep the types.
LEMMA TasksType == ASSUME TypeOK, Tasks PROVE TypeOK'
<1> USE TypeParts, TypeParts2
<1> PICK w \in Worker :
      \/ \E t \in Task : Claim(w, t)
      \/ WorkerFail(w) \/ WorkerCrash(w)
      \/ DeleteBegin(w) \/ DeleteRemoved(w) \/ DeleteCommit(w)
      \/ RepairNotNeeded(w) \/ \E n \in Node : RepairBegin(w, n)
      \/ RepairFetch(w) \/ RepairPut(w) \/ RepairStat(w) \/ RepairPublish(w)
  BY DEF Tasks
<1> DEFINE t == worker[w].task
           c == worker[w].task[2]
<1>t. /\ worker[w] \in WorkerState
      /\ worker[w].pc # "idle" => t \in Task /\ c \in Chunk /\ (t[1] = "delete" => t[3] \in Node)
  BY TaskNames DEF ThreadTypes, LocalsSet
<1>1. ASSUME NEW u \in Task, Claim(w, u) PROVE TypeOK'
  <2>1. task' \in [Task -> TaskRow]
    BY <1>1 DEF Claim, QueueRow, TableTypes, TaskRow
  <2>2. TableTypes'
    BY <1>1, <2>1 DEF Claim, TableTypes, catalog, space
  <2>3. Job("claimed", u, {}, None, None) \in WorkerState
    BY DEF Job, WorkerState
  <2>4. ThreadTypes'
    BY <1>1, <2>3, WorkerMoves DEF Claim, Job
  <2> QED
    BY <2>2, <2>4
<1>2. ASSUME WorkerFail(w) PROVE TypeOK'
  <2>1. task' \in [Task -> TaskRow]
    BY <1>2, <1>t DEF WorkerFail, QueueRow, TableTypes, TaskRow
  <2>2. TableTypes'
    BY <1>2, <2>1 DEF WorkerFail, TableTypes, catalog, space
  <2> QED
    BY <1>2, <2>2, WorkerRests DEF WorkerFail
<1>3. ASSUME WorkerCrash(w) PROVE TypeOK'
  BY <1>3, WorkerRests, TablesStay DEF WorkerCrash
<1>4. ASSUME DeleteBegin(w) PROVE TypeOK'
  <2> DEFINE n == worker[w].task[3]
  <2>1. c \in Chunk /\ n \in Node /\ t \in Task /\ t[1] = "delete"
    BY <1>4, <1>t DEF DeleteBegin, At
  <2>2. replica' \in [Chunk \X Node -> Row]
    <3>1. RepRow("deleting", Rep(c, n).charged, Rep(c, n).volume) \in Row
      BY <2>1, RowType DEF ReplicaState
    <3>2. \/ replica' = replica
          \/ replica' = [replica EXCEPT ![<<c, n>>] = RepRow("deleting", Rep(c, n).charged, Rep(c, n).volume)]
      BY <1>4 DEF DeleteBegin, Rep
    <3> QED
      BY <2>1, <3>1, <3>2, RowWritten DEF TableTypes
  <2>3. TableTypes'
    BY <1>4, <2>2 DEF DeleteBegin, TableTypes, catalog
  <2>4. node[n].instance \in Instance \cup {None}
    BY <2>1 DEF TableTypes, NodeRow
  <2>5. Job("remove", t, {}, None, node[n].instance) \in WorkerState
    BY <2>1, <2>4 DEF Job, WorkerState
  <2>6. worker' = [worker EXCEPT ![w] = Job("remove", t, {}, None, node[n].instance)]
    BY <1>4 DEF DeleteBegin
  <2>7. ThreadTypes'
    <3>1. confirm' = confirm /\ maint' = maint
      BY <1>4 DEF DeleteBegin
    <3> QED
      BY <2>1, <2>5, <2>6, <3>1, WorkerMoves DEF Job
  <2> QED
    BY <2>3, <2>7
<1>5. ASSUME NEW from, NEW to, Rpc(w, from, to),
             \/ from = "remove" /\ to = "removed"
             \/ from = "fetch" /\ to = "put"
             \/ from = "put" /\ to = "stat"
             \/ from = "stat" /\ to = "publish"
      PROVE  TypeOK'
  <2> DEFINE j == [worker[w] EXCEPT !.pc = to]
  <2>1. worker' = [worker EXCEPT ![w] = j] /\ confirm' = confirm /\ maint' = maint
    BY <1>5 DEF Rpc, ThreadTypes
  <2>2. j \in WorkerState /\ j.task = t /\ j.target = worker[w].target /\ j.pc = to
    BY <1>5, <1>t DEF WorkerState
  <2>3. worker[w].pc = from
    BY <1>5 DEF Rpc
  <2>4. t \in Task /\ (from = "remove" => t[1] = "delete")
                   /\ (from # "remove" => t[1] = "repair" /\ worker[w].target \in Node)
    BY <1>5, <2>3 DEF ThreadTypes, LocalsSet
  <2>5. ThreadTypes'
    <3> HIDE DEF j
    <3> QED
      BY <1>5, <2>1, <2>2, <2>3, <2>4, WorkerMoves
  <2> QED
    BY <1>5, <2>5, TablesStay DEF Rpc
<1>6. ASSUME DeleteCommit(w) PROVE TypeOK'
  <2> DEFINE n == worker[w].task[3]
  <2>1. c \in Chunk /\ n \in Node /\ t \in Task /\ worker[w].pc # "idle"
    BY <1>6, <1>t DEF DeleteCommit, At
  <2>2. replica' \in [Chunk \X Node -> Row]
    <3> DEFINE s == IF Rep(c, n).state = "deleting" THEN "gone" ELSE Rep(c, n).state
    <3>1. s \in ReplicaState /\ "none" \in Charge
      BY <2>1, RowType DEF ReplicaState, Charge
    <3>2. replica' = [replica EXCEPT ![<<c, n>>] = RepRow(s, "none", Rep(c, n).volume)]
      BY <1>6 DEF DeleteCommit, Rep
    <3>3. RepRow(s, "none", Rep(c, n).volume) \in Row
      <4> HIDE DEF s
      <4> QED BY <2>1, <3>1, RowType
    <3> QED
      BY <2>1, <3>2, <3>3, RowWritten
  <2>3. reserved' \in [Node -> Int] /\ used' \in [Node -> Int]
    BY <1>6, <2>1, UnchargeType DEF DeleteCommit
  <2>4. task' \in [Task -> TaskRow]
    BY <1>6, <2>1, TaskDoneType DEF DeleteCommit
  <2>5. UNCHANGED <<object, upload, lapsed, chunk, node, retired, confirm, maint>>
    BY <1>6 DEF DeleteCommit, catalog
  <2>6. TableTypes'
    BY <2>2, <2>3, <2>4, <2>5 DEF TableTypes
  <2> QED
    BY <1>6, <2>5, <2>6, WorkerRests DEF DeleteCommit
<1>7. ASSUME RepairNotNeeded(w) PROVE TypeOK'
  <2>1. worker[w].pc # "idle"
    BY <1>7 DEF RepairNotNeeded, At
  <2>2. task' \in [Task -> TaskRow]
    BY <1>7, <2>1, TaskDoneType DEF RepairNotNeeded
  <2>3. TableTypes'
    BY <1>7, <2>2 DEF RepairNotNeeded, TableTypes, catalog, space
  <2> QED
    BY <1>7, <2>3, WorkerRests DEF RepairNotNeeded
<1>8. ASSUME NEW n \in Node, RepairBegin(w, n) PROVE TypeOK'
  <2>1. c \in Chunk /\ t \in Task /\ t[1] = "repair"
    BY <1>8, <1>t DEF RepairBegin, At
  <2>2. replica' \in [Chunk \X Node -> Row] /\ reserved' \in [Node -> Int]
    <3>1. \/ UNCHANGED <<replica, reserved>>
          \/ /\ replica' = [replica EXCEPT ![<<c, n>>] = NewRow(n)]
             /\ reserved' = [reserved EXCEPT ![n] = @ + Length(c)]
      BY <1>8 DEF RepairBegin
    <3>2. NewRow(n) \in Row /\ Length(c) \in Nat
      BY <2>1, NewRowType, Numbers
    <3>3. CASE UNCHANGED <<replica, reserved>>
      BY <3>3 DEF TableTypes
    <3>4. CASE /\ replica' = [replica EXCEPT ![<<c, n>>] = NewRow(n)]
               /\ reserved' = [reserved EXCEPT ![n] = @ + Length(c)]
      <4>1. replica' \in [Chunk \X Node -> Row]
        BY <2>1, <3>2, <3>4, RowWritten
      <4>2. reserved' \in [Node -> Int]
        BY <3>2, <3>4 DEF TableTypes
      <4> QED
        BY <4>1, <4>2
    <3> QED
      BY <3>1, <3>3, <3>4
  <2>3. UNCHANGED <<object, upload, lapsed, chunk, used, node, retired, task, confirm, maint>>
    BY <1>8 DEF RepairBegin, catalog
  <2>4. TableTypes'
    BY <2>2, <2>3 DEF TableTypes
  <2>5. node[n].instance \in Instance \cup {None} /\ Healthy(c) \in SUBSET Node
    BY DEF TableTypes, NodeRow, Healthy
  <2>6. Job("fetch", t, Healthy(c), n, node[n].instance) \in WorkerState
    BY <2>1, <2>5 DEF Job, WorkerState
  <2>7. worker' = [worker EXCEPT ![w] = Job("fetch", t, Healthy(c), n, node[n].instance)]
    BY <1>8 DEF RepairBegin
  <2>8. ThreadTypes'
    BY <2>1, <2>3, <2>6, <2>7, WorkerMoves DEF Job
  <2> QED
    BY <2>4, <2>8
<1>9. ASSUME RepairPublish(w) PROVE TypeOK'
  <2> DEFINE n == worker[w].target
  <2>1. c \in Chunk /\ t \in Task /\ n \in Node /\ worker[w].pc # "idle"
    BY <1>9, <1>t DEF RepairPublish, At, ThreadTypes, LocalsSet
  <2>2. Length(c) \in Nat /\ TaskDone(w) \in [Task -> TaskRow]
    BY <2>1, Numbers, TaskDoneType
  <2>3. /\ RepRow("bad", "none", Rep(c, n).volume) \in Row
        /\ RepRow("valid", "used", Rep(c, n).volume) \in Row
    BY <2>1, RowType DEF ReplicaState, Charge
  <2>4. \/ /\ Uncharge(c, n)
           /\ replica' = [replica EXCEPT ![<<c, n>>] = RepRow("bad", "none", Rep(c, n).volume)]
           /\ task' = Enqueue(TaskDone(w), {DeleteOf(c, n)}, TRUE)
        \/ /\ reserved' = [reserved EXCEPT ![n] = @ - Length(c)]
           /\ used' = [used EXCEPT ![n] = @ + Length(c)]
           /\ replica' = [replica EXCEPT ![<<c, n>>] = RepRow("valid", "used", Rep(c, n).volume)]
           /\ task' = TaskDone(w)
    BY <1>9 DEF RepairPublish, Rep
  <2>5. replica' \in [Chunk \X Node -> Row]
    <3>1. CASE replica' = [replica EXCEPT ![<<c, n>>] = RepRow("bad", "none", Rep(c, n).volume)]
      BY <2>1, <2>3, <3>1, RowWritten
    <3>2. CASE replica' = [replica EXCEPT ![<<c, n>>] = RepRow("valid", "used", Rep(c, n).volume)]
      BY <2>1, <2>3, <3>2, RowWritten
    <3> QED
      BY <2>4, <3>1, <3>2
  <2>6. task' \in [Task -> TaskRow]
    BY <2>2, <2>4, EnqueueType
  <2>7. reserved' \in [Node -> Int] /\ used' \in [Node -> Int]
    <3>1. CASE Uncharge(c, n)
      BY <2>1, <3>1, UnchargeType
    <3>2. CASE /\ reserved' = [reserved EXCEPT ![n] = @ - Length(c)]
               /\ used' = [used EXCEPT ![n] = @ + Length(c)]
      BY <2>1, <2>2, <3>2 DEF TableTypes
    <3> QED
      BY <2>4, <3>1, <3>2
  <2>8. UNCHANGED <<object, upload, lapsed, chunk, node, retired, confirm, maint>>
    BY <1>9 DEF RepairPublish, catalog
  <2>9. TableTypes'
    BY <2>5, <2>6, <2>7, <2>8 DEF TableTypes
  <2>10. worker' = [worker EXCEPT ![w] = IdleWorker]
    BY <1>9 DEF RepairPublish
  <2> QED
    BY <2>8, <2>9, <2>10, WorkerRests
<1> QED
  BY <1>1, <1>2, <1>3, <1>4, <1>5, <1>6, <1>7, <1>8, <1>9
  DEF DeleteRemoved, RepairFetch, RepairPut, RepairStat

\* A step that sends maintenance thread m to the locals p.
LEMMA MaintMoves ==
  ASSUME ThreadTypes, NEW m \in Maintainer, NEW p \in MaintState,
         maint' = [maint EXCEPT ![m] = p], confirm' = confirm, worker' = worker,
         p.pc \in {"check", "verify", "files"} => p.node \in Node /\ p.nodes[p.node] \in Instance,
         p.pc = "verify" => p.chunk \in Chunk
  PROVE  ThreadTypes'
<1>1. maint \in [Maintainer -> MaintState]
  BY DEF ThreadTypes
<1>2. maint' \in [Maintainer -> MaintState]
  BY <1>1
<1>3. ASSUME NEW q \in Maintainer
      PROVE  /\ maint'[q].pc \in {"check", "verify", "files"} =>
                  maint'[q].node \in Node /\ maint'[q].nodes[maint'[q].node] \in Instance
             /\ maint'[q].pc = "verify" => maint'[q].chunk \in Chunk
  <2>1. CASE q = m
    BY <1>1, <2>1
  <2>2. CASE q # m
    BY <1>1, <2>2 DEF ThreadTypes, LocalsSet
  <2> QED
    BY <2>1, <2>2
<1>4. LocalsSet'
  BY <1>3 DEF ThreadTypes, LocalsSet
<1> QED
  BY <1>2, <1>4 DEF ThreadTypes

LEMMA MaintPasses ==
  ASSUME ThreadTypes, NEW m \in Maintainer,
         NEW pc \in {"idle", "reconcile", "next", "check", "verify", "files"},
         NEW nodes \in [Node -> Instance \cup {None}], NEW n \in Node \cup {None},
         NEW todo \in SUBSET Chunk, NEW c \in Chunk \cup {None}, NEW ok \in BOOLEAN,
         maint' = [maint EXCEPT ![m] = Pass(pc, nodes, n, todo, c, ok)],
         confirm' = confirm, worker' = worker,
         pc \in {"check", "verify", "files"} => n \in Node /\ nodes[n] \in Instance,
         pc = "verify" => c \in Chunk
  PROVE  ThreadTypes'
<1> DEFINE p == Pass(pc, nodes, n, todo, c, ok)
<1>1. p \in MaintState /\ p.pc = pc /\ p.nodes = nodes /\ p.node = n /\ p.chunk = c
  BY DEF Pass, MaintState
<1> HIDE DEF p
<1>2. maint' = [maint EXCEPT ![m] = p]
  BY DEF p
<1> QED
  BY <1>1, <1>2, MaintMoves

\* The maintenance loop keeps the types.
LEMMA MaintenanceType == ASSUME TypeOK, Maintenance PROVE TypeOK'
<1> USE TypeParts, TypeParts2
<1> PICK m \in Maintainer :
      \/ Maintain(m) \/ ReconcileBegin(m)
      \/ \E n \in Node : ReconcileNode(m, n)
      \/ \E c \in Chunk, ok \in BOOLEAN : ReconcileStat(m, c, ok)
      \/ ReconcileVerify(m)
      \/ \E ids \in SUBSET Chunk : ReconcileInventory(m, ids)
      \/ \E c \in Chunk : ReconcileFile(m, c)
      \/ ReconcileNext(m) \/ ReconcileEnd(m)
  BY DEF Maintenance
<1>t. /\ maint[m] \in MaintState
      /\ maint[m].nodes \in [Node -> Instance \cup {None}]
      /\ maint[m].node \in Node \cup {None}
      /\ maint[m].todo \in SUBSET Chunk
      /\ maint[m].pc \in {"check", "verify", "files"} =>
           maint[m].node \in Node /\ maint[m].nodes[maint[m].node] \in Instance
      /\ maint[m].pc = "verify" => maint[m].chunk \in Chunk
  BY DEF ThreadTypes, LocalsSet, MaintState
<1>1. ASSUME Maintain(m) PROVE TypeOK'
  <2>1. PICK S : /\ Retire(S, "expired")
                 /\ task' = Enqueue(RetiredTasks(S),
                               {t \in Task : /\ t[1] = "repair" /\ object[t[2][1]] = "published"
                                             /\ Cardinality(Healthy(t[2])) < Replicas}, FALSE)
    BY <1>1 DEF Maintain
  <2>2. task' \in [Task -> TaskRow]
    BY <2>1, RetiredTasksType, EnqueueType DEF TableTypes
  <2>3. "expired" \in UploadState /\ UNCHANGED <<node, retired>>
    BY <1>1 DEF UploadState, Maintain
  <2>4. TableTypes'
    BY <2>1, <2>2, <2>3, RetireTables
  <2> DEFINE p == [maint[m] EXCEPT !.pc = "reconcile"]
  <2>5. maint' = [maint EXCEPT ![m] = p] /\ confirm' = confirm /\ worker' = worker
    BY <1>1 DEF Maintain, ThreadTypes
  <2>6. p \in MaintState /\ p.pc = "reconcile"
    BY <1>t DEF MaintState
  <2>7. ThreadTypes'
    <3> HIDE DEF p
    <3> QED BY <2>5, <2>6, MaintMoves
  <2> QED
    BY <2>4, <2>7
<1>2. ASSUME ReconcileBegin(m) PROVE TypeOK'
  <2> DEFINE live == [n \in Node |-> IF Fresh(n) THEN node[n].instance ELSE None]
  <2>1. live \in [Node -> Instance \cup {None}]
    BY DEF TableTypes, NodeRow
  <2>2. maint' = [maint EXCEPT ![m] = Pass("next", live, None, {}, None, FALSE)]
    BY <1>2 DEF ReconcileBegin
  <2> HIDE DEF live
  <2>3. ThreadTypes'
    <3>1. confirm' = confirm /\ worker' = worker
      BY <1>2 DEF ReconcileBegin
    <3> QED
      BY <2>1, <2>2, <3>1, MaintPasses
  <2> QED
    BY <1>2, <2>3, TablesStay DEF ReconcileBegin
<1>3. ASSUME NEW n \in Node, ReconcileNode(m, n) PROVE TypeOK'
  <2>1. PICK S \in SUBSET Chunk :
          maint' = [maint EXCEPT ![m] = Pass("check", maint[m].nodes, n, S, None, FALSE)]
    BY <1>3 DEF ReconcileNode, Limited
  <2>2. maint[m].nodes[n] \in Instance
    BY <1>3, <1>t DEF ReconcileNode
  <2>3. ThreadTypes'
    BY <1>3, <1>t, <2>1, <2>2, MaintPasses DEF ReconcileNode
  <2> QED
    BY <1>3, <2>3, TablesStay DEF ReconcileNode
<1>4. ASSUME NEW c \in Chunk, NEW ok \in BOOLEAN, ReconcileStat(m, c, ok) PROVE TypeOK'
  <2> DEFINE S == maint[m].todo \ {c}
  <2>1. maint' = [maint EXCEPT ![m] = Pass("verify", maint[m].nodes, maint[m].node, S, c, ok)]
    BY <1>4 DEF ReconcileStat
  <2>2. S \in SUBSET Chunk
    BY <1>t
  <2> HIDE DEF S
  <2>3. ThreadTypes'
    <3>1. confirm' = confirm /\ worker' = worker /\ maint[m].pc = "check"
      BY <1>4 DEF ReconcileStat
    <3>2. maint[m].node \in Node /\ maint[m].nodes[maint[m].node] \in Instance
      BY <1>t, <3>1
    <3> QED
      BY <1>t, <2>1, <2>2, <3>1, <3>2, MaintPasses
  <2> QED
    BY <1>4, <2>3, TablesStay DEF ReconcileStat
<1>5. ASSUME ReconcileVerify(m) PROVE TypeOK'
  <2> DEFINE c == maint[m].chunk
             n == maint[m].node
             i == maint[m].nodes[n]
             row == Rep(c, n)
             lost == ~maint[m].ok /\ row.volume # VolumeOf[i]
             charged == IF lost THEN "none" ELSE row.charged
             verdict == IF maint[m].ok THEN "valid" ELSE "bad"
             new == IF row.state = "unverified" THEN RepRow(verdict, charged, VolumeOf[i])
                                                ELSE RepRow(row.state, charged, row.volume)
  <2>1. c \in Chunk /\ n \in Node /\ i \in Instance
    BY <1>5, <1>t DEF ReconcileVerify, StillAsked
  <2>2. row \in Row
    BY <2>1, RowType
  <2>3. new \in Row
    <3>1. charged \in Charge /\ verdict \in ReplicaState /\ row.state \in ReplicaState
      BY <2>2 DEF Row, Charge, ReplicaState
    <3>2. VolumeOf[i] \in Volume
      BY <2>1 DEF Volume
    <3>3. row.volume \in Volume \cup {None}
      BY <2>2 DEF Row
    <3> HIDE DEF charged, verdict, row
    <3> QED
      BY <3>1, <3>2, <3>3 DEF Row, RepRow
  <2>4. \/ UNCHANGED space
        \/ /\ replica' = [replica EXCEPT ![<<c, n>>] = new]
           /\ Uncharge(c, n) \/ UNCHANGED <<reserved, used>>
    BY <1>5 DEF ReconcileVerify, StillAsked
  <2>5. replica' \in [Chunk \X Node -> Row] /\ reserved' \in [Node -> Int] /\ used' \in [Node -> Int]
    <3> HIDE DEF c, n, new
    <3>1. CASE UNCHANGED space
      BY <3>1 DEF TableTypes, space
    <3>2. CASE /\ replica' = [replica EXCEPT ![<<c, n>>] = new]
               /\ Uncharge(c, n) \/ UNCHANGED <<reserved, used>>
      <4>1. replica' \in [Chunk \X Node -> Row]
        BY <2>1, <2>3, <3>2, RowWritten
      <4>2. reserved' \in [Node -> Int] /\ used' \in [Node -> Int]
        <5>1. CASE Uncharge(c, n)
          BY <2>1, <5>1, UnchargeType
        <5>2. CASE UNCHANGED <<reserved, used>>
          BY <5>2 DEF TableTypes
        <5> QED
          BY <3>2, <5>1, <5>2
      <4> QED
        BY <4>1, <4>2
    <3> QED
      BY <2>4, <3>1, <3>2
  <2>6. UNCHANGED <<object, upload, lapsed, chunk, node, retired, task, confirm, worker>>
    BY <1>5 DEF ReconcileVerify, StillAsked, catalog
  <2>7. TableTypes'
    BY <2>5, <2>6 DEF TableTypes
  <2>8. maint' = [maint EXCEPT ![m] = Pass("check", maint[m].nodes, n, maint[m].todo, None, FALSE)]
    BY <1>5 DEF ReconcileVerify, StillAsked
  <2>9. ThreadTypes'
    BY <1>t, <2>1, <2>6, <2>8, MaintPasses
  <2> QED
    BY <2>7, <2>9
<1>6. ASSUME NEW ids \in SUBSET Chunk, ReconcileInventory(m, ids) PROVE TypeOK'
  <2>1. ThreadTypes'
    BY <1>6, <1>t, MaintPasses DEF ReconcileInventory
  <2> QED
    BY <1>6, <2>1, TablesStay DEF ReconcileInventory
<1>7. ASSUME NEW c \in Chunk, ReconcileFile(m, c) PROVE TypeOK'
  <2>1. task' \in [Task -> TaskRow]
    BY <1>7, EnqueueType DEF ReconcileFile, TableTypes
  <2>2. TableTypes'
    BY <1>7, <2>1 DEF ReconcileFile, TableTypes, catalog, space
  <2> DEFINE p == [maint[m] EXCEPT !.todo = @ \ {c}]
  <2>3. maint' = [maint EXCEPT ![m] = p] /\ confirm' = confirm /\ worker' = worker
    BY <1>7 DEF ReconcileFile, ThreadTypes
  <2>4. /\ p \in MaintState /\ p.pc = "files" /\ p.node \in Node /\ p.nodes[p.node] \in Instance
    BY <1>7, <1>t DEF MaintState, ReconcileFile
  <2>5. ThreadTypes'
    <3> HIDE DEF p
    <3> QED BY <2>3, <2>4, MaintMoves
  <2> QED
    BY <2>2, <2>5
<1>8. ASSUME ReconcileNext(m) PROVE TypeOK'
  <2> DEFINE rest == [maint[m].nodes EXCEPT ![maint[m].node] = None]
  <2>1. rest \in [Node -> Instance \cup {None}]
    BY <1>8, <1>t DEF ReconcileNext
  <2>2. maint' = [maint EXCEPT ![m] = Pass("next", rest, None, {}, None, FALSE)]
    BY <1>8 DEF ReconcileNext
  <2> HIDE DEF rest
  <2>3. ThreadTypes'
    <3>1. confirm' = confirm /\ worker' = worker
      BY <1>8 DEF ReconcileNext
    <3> QED
      BY <2>1, <2>2, <3>1, MaintPasses
  <2> QED
    BY <1>8, <2>3, TablesStay DEF ReconcileNext
<1>9. ASSUME ReconcileEnd(m) PROVE TypeOK'
  <2>1. NoNodes \in [Node -> Instance \cup {None}]
    BY DEF NoNodes
  <2>2. ThreadTypes'
    BY <1>9, <2>1, MaintPasses DEF ReconcileEnd, IdleMaint
  <2> QED
    BY <1>9, <2>2, TablesStay DEF ReconcileEnd
<1> QED
  BY <1>1, <1>2, <1>3, <1>4, <1>5, <1>6, <1>7, <1>8, <1>9

LEMMA InitType == ASSUME Init PROVE TypeOK
<1>1. NoRow \in Row /\ IdleWorker \in WorkerState /\ IdleMaint \in MaintState /\ IdleConfirm \in ConfirmState
  BY DEF NoRow, RepRow, Row, ReplicaState, Charge, IdleWorker, Job, WorkerState,
         IdleMaint, Pass, MaintState, NoNodes, IdleConfirm, ConfirmState
<1>2. TableTypes
  BY <1>1 DEF Init, TableTypes, ObjectState, UploadState, NodeRow, QueueRow, TaskRow
<1>3. ThreadTypes
  <2>1. LocalsSet
    BY DEF Init, LocalsSet, IdleWorker, Job, IdleMaint, Pass, IdleConfirm
  <2> QED
    BY <1>1, <2>1 DEF Init, ThreadTypes
<1> QED
  BY <1>2, <1>3, TypeParts

LEMMA NextType == ASSUME TypeOK, [Next]_vars PROVE TypeOK'
<1>1. CASE UNCHANGED vars
  BY <1>1, LocalsStay, TablesStay, TypeParts, TypeParts2 DEF vars
<1> QED
  BY <1>1, RequestsType, EnvironmentType, TasksType, MaintenanceType DEF Next

\* The tables and every thread's locals keep their types, and no thread reads
\* a local it has not set, in every behaviour of FileService.
THEOREM TypeCorrect == Spec => []TypeOK
<1>1. Init => TypeOK
  BY InitType
<1>2. TypeOK /\ [Next]_vars => TypeOK'
  BY NextType
<1> QED
  BY <1>1, <1>2, PTL DEF Spec

-----------------------------------------------------------------------------
(***************************************************************************)
(* The tables of Metadata implement ObjectStore.                           *)
(***************************************************************************)

\* Object and upload begin together.
BeginTogether == \A o \in Object : object[o] = "absent" <=> upload[o] = "absent"

\* confirm works on chunks whose content is decided.
ConfirmsDecided == \A h \in Confirmer : confirm[h].chunk # None => chunk[confirm[h].chunk].sha # None

\* The inductive invariant: the abstract state of an object is that of its upload.
ObjectsInv == TypeOK /\ UploadDecidesObject /\ BeginTogether /\ ConfirmsDecided

\* A step that leaves the rows of objects, uploads and chunks and the confirms alone is a stutter for the owner.
LEMMA SameCatalog ==
  ASSUME ObjectsInv, TypeOK', UNCHANGED <<object, upload, chunk, confirm>>
  PROVE  ObjectsInv' /\ UNCHANGED Objects!objectVars
  BY SMTT(30) DEF ObjectsInv, UploadDecidesObject, BeginTogether, ConfirmsDecided, Objects!objectVars

\* The steps of the background tasks (worker.py) write replicas, tasks and space only.
LEMMA TasksCatalog == ASSUME Tasks PROVE UNCHANGED <<object, upload, chunk, confirm>>
  BY ZenonT(40) DEF Tasks, Claim, WorkerFail, WorkerCrash, DeleteBegin, DeleteRemoved, DeleteCommit, RepairNotNeeded,
         RepairBegin, RepairFetch, RepairPut, RepairStat, RepairPublish, Rpc, catalog, tables

\* Heartbeats, ageing leases, lapsing uploads and due tasks write no object.
LEMMA EnvironmentCatalog == ASSUME Environment PROVE UNCHANGED <<object, upload, chunk, confirm>>
  BY DEF Environment, Heartbeat, Age, Lapse, TaskDue, catalog, threads

\* The passes of reconciliation write no object; the expiry of uploads is MaintainObjects.
LEMMA MaintenanceCatalog ==
  ASSUME Maintenance, ~ \E m \in Maintainer : Maintain(m)
  PROVE  UNCHANGED <<object, upload, chunk, confirm>>
  BY DEF Maintenance, ReconcileBegin, ReconcileNode, ReconcileStat, ReconcileVerify, ReconcileInventory,
         ReconcileFile, ReconcileNext, ReconcileEnd, catalog, tables

\* The chunks of a file are the pieces of its object.
LEMMA ChunkPieces == Objects!Piece = Chunk /\ \A o \in Object : Objects!PiecesOf(o) = Chunks(o)
  BY DEF Objects!Piece, Objects!PiecesOf, Chunk, Chunks

\* An object is staging exactly while its upload runs, and an expired upload has deleted its object.
LEMMA States ==
  ASSUME ObjectsInv, NEW o \in Object
  PROVE  /\ object[o] = "staging" <=> upload[o] = "uploading"
         /\ upload[o] = "expired" => object[o] = "deleted"
  BY DEF ObjectsInv, TypeOK, ObjectState, UploadState, UploadDecidesObject, BeginTogether

\* retire writes both rows of an object: they still agree after it.
LEMMA RetireEnds ==
  ASSUME ObjectsInv, NEW S \in SUBSET Object, NEW end \in {"cancelled", "expired"}, Retire(S, end),
         \A o \in S : object[o] \notin {"absent"},
         UNCHANGED confirm
  PROVE  UploadDecidesObject' /\ BeginTogether' /\ ConfirmsDecided'
<1>1. /\ upload' = [o \in Object |-> IF o \in S THEN end ELSE upload[o]]
      /\ object' = [o \in Object |-> IF o \in S THEN "deleted" ELSE object[o]]
      /\ chunk' = chunk
  BY DEF Retire
<1>q. QED BY <1>1 DEF ObjectsInv, UploadDecidesObject, BeginTogether, ConfirmsDecided

\* Every request of metadata.py is the operation of ObjectStore with its meaning, or a stutter.
LEMMA RequestsObjects ==
  ASSUME ObjectsInv, TypeOK', Requests
  PROVE  ObjectsInv' /\ [Objects!ObjectsNext]_(Objects!objectVars)
<1>1. ASSUME NEW o \in Object, InitUpload(o)
      PROVE  ObjectsInv' /\ Objects!Begin(o)
  <2>1. /\ object[o] = "absent" /\ object' = [object EXCEPT ![o] = "staging"]
        /\ upload' = [upload EXCEPT ![o] = "uploading"]
        /\ chunk' = chunk /\ confirm' = confirm
    BY <1>1 DEF InitUpload, threads
  <2>2. ObjectsInv'
    BY <2>1 DEF ObjectsInv, TypeOK, UploadDecidesObject, BeginTogether, ConfirmsDecided
  <2>q. QED BY <2>1, <2>2 DEF ObjectsInv, TypeOK, BeginTogether, Objects!Begin
<1>2. ASSUME NEW c \in Chunk, NEW s \in Sha, Prepare(c, s)
      PROVE  ObjectsInv' /\ Objects!Decide(c, s)
  <2>1. c[1] \in Object
    BY DEF Chunk, Chunks
  <2>2. /\ upload[c[1]] = "uploading" /\ chunk[c].sha \in {None, s}
        /\ chunk' = [chunk EXCEPT ![c].sha = s]
        /\ object' = object /\ upload' = upload /\ confirm' = confirm
    BY <1>2 DEF Prepare, threads
  <2>3. \A d \in Chunk : /\ chunk'[d].sha = (IF d = c THEN s ELSE chunk[d].sha)
                         /\ chunk'[d].state = chunk[d].state
    BY <2>2 DEF ObjectsInv, TypeOK
  <2>4. ConfirmsDecided'
    BY <2>2, <2>3, NoneAssumption DEF ObjectsInv, TypeOK, ConfirmState, ConfirmsDecided
  <2>5. ObjectsInv'
    BY <2>2, <2>4 DEF ObjectsInv, UploadDecidesObject, BeginTogether
  <2>6. [d \in Chunk |-> chunk'[d].sha] = [[d \in Chunk |-> chunk[d].sha] EXCEPT ![c] = s]
    BY <2>3
  <2>7. {d \in Chunk : chunk'[d].state = "confirmed"} = {d \in Chunk : chunk[d].state = "confirmed"}
    BY <2>3
  <2>8. object[c[1]] = "staging"
    BY <2>1, <2>2, States
  <2>q. QED BY <2>1, <2>2, <2>5, <2>6, <2>7, <2>8 DEF Objects!Decide
<1>3. ASSUME NEW o \in Object, Complete(o)
      PROVE  ObjectsInv' /\ Objects!Publish(o)
  <2>1. /\ upload[o] = "uploading" /\ object[o] = "staging"
        /\ \A c \in Chunks(o) : chunk[c].state = "confirmed"
        /\ object' = [object EXCEPT ![o] = "published"]
        /\ upload' = [upload EXCEPT ![o] = "completed"]
        /\ chunk' = chunk /\ confirm' = confirm
    BY <1>3, States DEF Complete, threads, ObjectsInv, TypeOK
  <2>2. ObjectsInv'
    BY <2>1 DEF ObjectsInv, TypeOK, UploadDecidesObject, BeginTogether, ConfirmsDecided
  <2>3. Objects!PiecesOf(o) \subseteq {c \in Chunk : chunk[c].state = "confirmed"}
    BY <2>1, ChunkPieces DEF Chunk
  <2>q. QED BY <2>1, <2>2, <2>3 DEF ObjectsInv, TypeOK, Objects!Publish
<1>4. ASSUME NEW o \in Object, Cancel(o) \/ Delete(o)
      PROVE  ObjectsInv' /\ Objects!Delete(o)
  <2>1. object[o] \notin {"absent", "deleted"} /\ Retire({o}, "cancelled") /\ confirm' = confirm
    BY <1>4, States DEF Cancel, Delete, threads
  <2>2. ObjectsInv'
    BY <2>1, RetireEnds DEF ObjectsInv
  <2>3. upload[o] # "expired" /\ object[o] \in {"staging", "published"}
    BY <2>1, States DEF ObjectsInv, TypeOK, ObjectState
  <2>4. /\ upload' = [upload EXCEPT ![o] = "cancelled"]
        /\ object' = [object EXCEPT ![o] = "deleted"]
        /\ chunk' = chunk
    BY <2>1 DEF Retire, ObjectsInv, TypeOK
  <2>q. QED BY <2>2, <2>3, <2>4 DEF ObjectsInv, TypeOK, Objects!Delete
<1>5. ASSUME NEW c \in Chunk, NEW n \in Node, BadReplica(c, n)
      PROVE  ObjectsInv' /\ UNCHANGED Objects!objectVars
  BY <1>5, SameCatalog DEF BadReplica, catalog, threads
<1>6. ASSUME NEW h \in Confirmer,
             \/ \E c \in Chunk : ConfirmBegin(h, c)
             \/ \E n \in Node : ConfirmStat(h, n)
             \/ ConfirmAbort(h)
      PROVE  ObjectsInv' /\ UNCHANGED Objects!objectVars
  <2>1. object' = object /\ upload' = upload /\ chunk' = chunk
    BY <1>6 DEF ConfirmBegin, ConfirmStat, ConfirmAbort, tables, catalog
  <2>2. ConfirmsDecided'
    BY <1>6, <2>1
    DEF ConfirmBegin, ConfirmStat, ConfirmAbort, IdleConfirm, ObjectsInv, TypeOK, ConfirmState,
        ConfirmsDecided
  <2>q. QED BY <2>1, <2>2 DEF ObjectsInv, UploadDecidesObject, BeginTogether, Objects!objectVars
<1>7. ASSUME NEW h \in Confirmer, ConfirmCommit(h)
      PROVE  ObjectsInv' /\ \E c \in Chunk : Objects!Confirm(c)
  <2>0. PICK c \in Chunk : c = confirm[h].chunk
    BY <1>7 DEF ConfirmCommit, Active, ObjectsInv, TypeOK, ConfirmState
  <2>1. /\ c[1] \in Object /\ upload[c[1]] = "uploading"
        /\ chunk' = [chunk EXCEPT ![c].state = "confirmed"]
        /\ confirm' = [confirm EXCEPT ![h] = IdleConfirm]
        /\ object' = object /\ upload' = upload
    BY <1>7, <2>0 DEF ConfirmCommit, Active, ObjectsInv, TypeOK, ConfirmState, Chunk, Chunks
  <2>2. chunk[c].sha # None
    BY <2>0, <1>7, NoneAssumption DEF ConfirmCommit, Active, ObjectsInv, ConfirmsDecided
  <2>3. \A d \in Chunk : /\ chunk'[d].sha = chunk[d].sha
                         /\ chunk'[d].state = (IF d = c THEN "confirmed" ELSE chunk[d].state)
    BY <2>1 DEF ObjectsInv, TypeOK
  <2>4. ConfirmsDecided'
    BY <2>1, <2>3 DEF ObjectsInv, TypeOK, ConfirmState, IdleConfirm, ConfirmsDecided
  <2>5. ObjectsInv'
    BY <2>1, <2>4 DEF ObjectsInv, UploadDecidesObject, BeginTogether
  <2>6. [d \in Chunk |-> chunk'[d].sha] = [d \in Chunk |-> chunk[d].sha]
    BY <2>3
  <2>7. {d \in Chunk : chunk'[d].state = "confirmed"} = {d \in Chunk : chunk[d].state = "confirmed"} \cup {c}
    BY <2>1, <2>3
  <2>8. object[c[1]] = "staging"
    BY <2>1, States
  <2>9. Objects!Confirm(c)
    BY <2>1, <2>2, <2>6, <2>7, <2>8 DEF Objects!Confirm
  <2>q. QED BY <2>5, <2>9
<1> DEFINE Step == ObjectsInv' /\ [Objects!ObjectsNext]_(Objects!objectVars)
<1>8. ASSUME NEW o \in Object, InitUpload(o) \/ Complete(o) \/ Cancel(o) \/ Delete(o)
      PROVE  Step
  BY <1>1, <1>3, <1>4, <1>8 DEF Objects!ObjectsNext
<1>9. ASSUME NEW c \in Chunk, NEW s \in Sha, Prepare(c, s)
      PROVE  Step
  BY <1>2, <1>9, ChunkPieces DEF Objects!ObjectsNext
<1>10. ASSUME NEW c \in Chunk, NEW n \in Node, BadReplica(c, n)
       PROVE  Step
  BY <1>5, <1>10
<1>11. ASSUME NEW h \in Confirmer, ConfirmCommit(h)
       PROVE  Step
  <2>1. PICK c \in Objects!Piece : ObjectsInv' /\ Objects!Confirm(c)
    BY <1>7, <1>11, ChunkPieces
  <2>q. QED BY <2>1 DEF Objects!ObjectsNext
<1>12. ASSUME NEW h \in Confirmer,
              \/ \E c \in Chunk : ConfirmBegin(h, c)
              \/ \E n \in Node : ConfirmStat(h, n)
              \/ ConfirmAbort(h)
       PROVE  Step
  BY <1>6, <1>12
<1> HIDE DEF Step
<1>13. Step
  BY <1>8, <1>9, <1>10, <1>11, <1>12 DEF Requests
<1>q. QED BY <1>13 DEF Step

\* The expiry pass of maintenance.py ends unfinished uploads only.
LEMMA MaintainObjects ==
  ASSUME ObjectsInv, TypeOK', NEW m \in Maintainer, Maintain(m)
  PROVE  ObjectsInv' /\ \E S \in SUBSET Object : Objects!Expire(S)
<1>1. PICK S \in Limited({o \in Object : upload[o] = "uploading" /\ lapsed[o]}, ExpireLimit) :
         Retire(S, "expired")
  BY DEF Maintain
<1>2. S \in SUBSET Object /\ \A o \in S : upload[o] = "uploading" /\ object[o] = "staging"
  BY <1>1, States DEF Limited
<1>3. ObjectsInv'
  BY <1>1, <1>2, RetireEnds DEF Maintain, ObjectsInv
<1>4. /\ upload' = [o \in Object |-> IF o \in S THEN "expired" ELSE upload[o]]
      /\ object' = [o \in Object |-> IF o \in S THEN "deleted" ELSE object[o]]
      /\ chunk' = chunk
  BY <1>1 DEF Retire
<1>q. QED BY <1>2, <1>3, <1>4 DEF Objects!Expire

\* The empty tables are the empty store.
LEMMA ObjectsInit == ASSUME Init PROVE ObjectsInv /\ Objects!ObjectsInit
<1>1. ObjectsInv
  BY InitType DEF Init, IdleConfirm, ObjectsInv, UploadDecidesObject, BeginTogether, ConfirmsDecided
<1>q. QED BY <1>1, ChunkPieces DEF Init, Objects!ObjectsInit

\* Every step of the metadata service keeps the invariant, and is a step of the store or a stutter.
LEMMA ObjectsStep ==
  ASSUME ObjectsInv, [Next]_vars
  PROVE  ObjectsInv' /\ [Objects!ObjectsNext]_(Objects!objectVars)
<1>1. TypeOK'
  BY NextType DEF ObjectsInv
<1>2. CASE Requests
  BY <1>1, <1>2, RequestsObjects
<1>3. CASE Environment \/ Tasks \/ UNCHANGED vars
  BY <1>1, <1>3, SameCatalog, EnvironmentCatalog, TasksCatalog DEF vars, tables, catalog, threads
<1>4. CASE Maintenance
  <2>1. CASE \E m \in Maintainer : Maintain(m)
    BY <1>1, <2>1, MaintainObjects DEF Objects!ObjectsNext
  <2>2. CASE ~ \E m \in Maintainer : Maintain(m)
    BY <1>1, <1>4, <2>2, SameCatalog, MaintenanceCatalog
  <2>q. QED BY <2>1, <2>2
<1>q. QED BY <1>2, <1>3, <1>4 DEF Next

\* The rows of object and upload agree, and confirm works on decided chunks only, in every reachable state.
THEOREM ObjectsInvariant == Spec => []ObjectsInv
  BY ObjectsInit, ObjectsStep, PTL DEF Spec

\* The handlers of metadata.py check now one row, now the other: the two decide the same.
THEOREM UploadsDecide == Spec => []UploadDecidesObject
<1>1. ObjectsInv => UploadDecidesObject
  BY DEF ObjectsInv
<1>q. QED BY <1>1, ObjectsInvariant, PTL

\* The tables of metadata.py implement ObjectStore: contents decided once, published only when all is
\* confirmed, nothing expires or changes once published, ends are final.
THEOREM ObjectsKept == Spec => KeepsObjects
  BY ObjectsInit, ObjectsStep, ObjectsInvariant, PTL DEF Spec, KeepsObjects, Objects!ObjectsSpec

-----------------------------------------------------------------------------
(***************************************************************************)
(* The rows: what SpaceInv says of one row, given the state of its object  *)
(* and the node it is on.                                                  *)
(***************************************************************************)
RowOK(state, row, nd) ==
  /\ row.charged = "reserved" <=> row.state = "reserved"
  /\ state = "deleted" => row.state \in {"absent", "deleting", "gone"}
  /\ state = "absent" => row.state = "absent"
  /\ row.state \in {"absent", "gone"} => row.charged = "none"
  /\ row.state \in {"reserved", "valid"} => row.volume = nd.volume /\ nd.instance # None

NodeOK(nd) ==
  /\ nd.age = "fresh" => nd.instance # None
  /\ nd.instance # None => nd.volume = VolumeOf[nd.instance]

RowInv ==
  /\ \A c \in Chunk, n \in Node : RowOK(object[c[1]], Rep(c, n), node[n])
  /\ \A n \in Node : NodeOK(node[n])

LEMMA RowInvParts ==
  RowInv <=> ReservationsWait /\ DeletedRowsStayDown /\ OnCurrentVolume /\ RowsAndNodes
  BY DEF RowInv, RowOK, NodeOK, ReservationsWait, DeletedRowsStayDown, OnCurrentVolume,
         RowsAndNodes, Fresh

LEMMA RowInvParts2 ==
  RowInv' <=> /\ \A c \in Chunk, n \in Node : RowOK(object'[c[1]], replica'[<<c, n>>], node'[n])
              /\ \A n \in Node : NodeOK(node'[n])
  BY DEF RowInv, RowOK, NodeOK, Rep

LEMMA ChunkObject == \A c \in Chunk : c[1] \in Object
  BY DEF Chunk, Chunks

\* A step that leaves objects, rows and nodes alone.
LEMMA RowsStay ==
  ASSUME RowInv, UNCHANGED <<object, replica, node>>
  PROVE  RowInv'
  BY DEF RowInv, RowOK, NodeOK, Rep

\* A step that writes one row.
LEMMA OneRow ==
  ASSUME RowInv, TypeOK, UNCHANGED <<object, node>>,
         NEW c \in Chunk, NEW n \in Node, NEW row,
         replica' = [replica EXCEPT ![<<c, n>>] = row],
         RowOK(object[c[1]], row, node[n])
  PROVE  RowInv'
<1>1. replica \in [Chunk \X Node -> Row]
  BY DEF TypeOK
<1>2. ASSUME NEW d \in Chunk, NEW m \in Node
      PROVE  RowOK(object'[d[1]], replica'[<<d, m>>], node'[m])
  <2>1. CASE d = c /\ m = n
    BY <1>1, <2>1
  <2>2. CASE ~(d = c /\ m = n)
    <3>1. replica'[<<d, m>>] = Rep(d, m)
      BY <1>1, <2>2 DEF Rep
    <3> QED
      BY <3>1 DEF RowInv
  <2> QED
    BY <2>1, <2>2
<1> QED
  BY <1>2, RowInvParts2 DEF RowInv

\* retire keeps the rows consistent.
LEMMA RetireRows ==
  ASSUME RowInv, TypeOK, NEW S, NEW end, Retire(S, end), UNCHANGED node
  PROVE  RowInv'
<1>1. ASSUME NEW c \in Chunk, NEW n \in Node
      PROVE  RowOK(object'[c[1]], replica'[<<c, n>>], node'[n])
  <2>1. c[1] \in Object
    BY ChunkObject
  <2>2. object'[c[1]] = IF c[1] \in S THEN "deleted" ELSE object[c[1]]
    BY <2>1 DEF Retire
  <2>3. replica'[<<c, n>>] = IF c[1] \in S THEN RetiredRow(Rep(c, n)) ELSE Rep(c, n)
    BY DEF Retire, Rep
  <2>4. RowOK(object[c[1]], Rep(c, n), node[n])
    BY DEF RowInv
  <2>5. CASE c[1] \in S
    BY <2>2, <2>3, <2>4, <2>5 DEF RowOK, RetiredRow, RepRow
  <2>6. CASE c[1] \notin S
    BY <2>2, <2>3, <2>4, <2>6
  <2> QED
    BY <2>5, <2>6
<1> QED
  BY <1>1, RowInvParts2 DEF RowInv

\* Requests of users.
LEMMA RequestsRows == ASSUME TypeOK, RowInv, Requests PROVE RowInv'
<1>1. ASSUME NEW o \in Object, InitUpload(o) PROVE RowInv'
  <2>1. PICK place \in [Chunks(o) -> {S \in SUBSET Node : Cardinality(S) = Replicas}] :
          /\ IsPlacement(o, place)
          /\ replica' = [r \in Chunk \X Node |->
                           IF r[1][1] = o /\ r[2] \in place[r[1]] THEN NewRow(r[2]) ELSE replica[r]]
    BY <1>1 DEF InitUpload
  <2>2. object[o] = "absent" /\ object' = [object EXCEPT ![o] = "staging"] /\ node' = node
    BY <1>1 DEF InitUpload
  <2>3. ASSUME NEW c \in Chunk, NEW n \in Node
        PROVE  RowOK(object'[c[1]], replica'[<<c, n>>], node'[n])
    <3>1. RowOK(object[c[1]], Rep(c, n), node[n]) /\ NodeOK(node[n]) /\ c[1] \in Object
      BY ChunkObject DEF RowInv
    <3>2. CASE c[1] = o /\ n \in place[c]
      <4>1. c \in Chunks(o)
        BY <3>2 DEF Chunk, Chunks
      <4>2. Fresh(n)
        BY <2>1, <3>2, <4>1 DEF IsPlacement, Reserve
      <4>3. replica'[<<c, n>>] = NewRow(n) /\ object'[c[1]] = "staging"
        BY <2>1, <2>2, <3>2 DEF TypeOK
      <4> QED
        BY <2>2, <3>1, <4>2, <4>3 DEF RowOK, NodeOK, NewRow, RepRow, Fresh
    <3>3. CASE ~(c[1] = o /\ n \in place[c])
      <4>1. replica'[<<c, n>>] = Rep(c, n)
        BY <2>1, <3>3 DEF Rep
      <4>2. object'[c[1]] = object[c[1]] \/ (object[c[1]] = "absent" /\ object'[c[1]] = "staging")
        BY <2>2, <3>1 DEF TypeOK
      <4> QED
        BY <2>2, <3>1, <4>1, <4>2 DEF RowOK
    <3> QED
      BY <3>2, <3>3
  <2> QED
    BY <2>2, <2>3, RowInvParts2 DEF RowInv
<1>2. ASSUME NEW o \in Object, Complete(o) PROVE RowInv'
  <2>1. UNCHANGED <<replica, node>>
    BY <1>2 DEF Complete, space
  <2>2. \A p \in Object : object'[p] = object[p] \/ (object[p] = "staging" /\ object'[p] = "published")
    BY <1>2 DEF Complete, TypeOK
  <2>3. ASSUME NEW c \in Chunk, NEW n \in Node
        PROVE  RowOK(object'[c[1]], replica'[<<c, n>>], node'[n])
    <3>1. RowOK(object[c[1]], Rep(c, n), node[n]) /\ c[1] \in Object
      BY ChunkObject DEF RowInv
    <3> QED
      BY <2>1, <2>2, <3>1 DEF RowOK, Rep
  <2> QED
    BY <2>1, <2>3, RowInvParts2 DEF RowInv
<1>3. ASSUME NEW o \in Object, Cancel(o) \/ Delete(o) PROVE RowInv'
  BY <1>3, RetireRows DEF Cancel, Delete
<1>4. ASSUME NEW c \in Chunk, NEW s \in Sha, Prepare(c, s) PROVE RowInv'
  BY <1>4, RowsStay DEF Prepare, space
<1>5. ASSUME NEW c \in Chunk, NEW n \in Node, BadReplica(c, n) PROVE RowInv'
  <2>1. UNCHANGED <<object, node>> /\ object[c[1]] = "published"
    BY <1>5 DEF BadReplica, catalog
  <2>2. CASE Rep(c, n).state = "valid"
    <3> DEFINE row == RepRow("bad", Rep(c, n).charged, Rep(c, n).volume)
    <3>1. replica' = [replica EXCEPT ![<<c, n>>] = row]
      BY <1>5, <2>2 DEF BadReplica, Rep
    <3>2. RowOK(object[c[1]], row, node[n])
      BY <2>1, <2>2 DEF RowInv, RowOK, RepRow
    <3> QED
      BY <2>1, <3>1, <3>2, OneRow
  <2>3. CASE Rep(c, n).state # "valid"
    BY <1>5, <2>1, <2>3, RowsStay DEF BadReplica
  <2> QED
    BY <2>2, <2>3
<1>6. ASSUME NEW h \in Confirmer, ConfirmCommit(h) PROVE RowInv'
  <2> DEFINE d == confirm[h].chunk
             counted == {n \in Node : confirm[h].at[n] # None /\ Rep(d, n).state = "reserved"}
  <2>1. /\ UNCHANGED <<object, node>>
        /\ object[d[1]] # "deleted"
        /\ replica' = [r \in Chunk \X Node |-> IF r[1] = d /\ r[2] \in counted
                                               THEN RepRow("valid", "used", replica[r].volume)
                                               ELSE replica[r]]
    BY <1>6 DEF ConfirmCommit, Active, Counted
  <2>2. ASSUME NEW c \in Chunk, NEW n \in Node
        PROVE  RowOK(object'[c[1]], replica'[<<c, n>>], node'[n])
    <3>1. RowOK(object[c[1]], Rep(c, n), node[n])
      BY SMTT(30) DEF RowInv
    <3>2. CASE c = d /\ n \in counted
      <4>1. replica'[<<c, n>>] = RepRow("valid", "used", Rep(c, n).volume)
        BY <2>1, <3>2 DEF Rep
      <4>2. Rep(c, n).state = "reserved"
        BY <3>2
      <4> QED
        BY <2>1, <3>1, <3>2, <4>1, <4>2 DEF RowOK, RepRow
    <3>3. CASE ~(c = d /\ n \in counted)
      <4>1. replica'[<<c, n>>] = Rep(c, n)
        BY <2>1, <3>3 DEF Rep
      <4> QED
        BY <2>1, <3>1, <4>1
    <3> QED
      BY <3>2, <3>3
  <2> QED
    BY <2>1, <2>2, RowInvParts2 DEF RowInv
<1>7. ASSUME NEW h \in Confirmer, ConfirmAbort(h) \/ (\E c \in Chunk : ConfirmBegin(h, c))
                                                  \/ (\E n \in Node : ConfirmStat(h, n))
      PROVE  RowInv'
  BY <1>7, RowsStay DEF ConfirmAbort, ConfirmBegin, ConfirmStat, tables, catalog, space
<1> QED
  BY <1>1, <1>2, <1>3, <1>4, <1>5, <1>6, <1>7 DEF Requests

\* Heartbeats: a new process moves the rows of its node, nothing else does.
LEMMA EnvironmentRows == ASSUME TypeOK, RowInv, Environment PROVE RowInv'
<1>1. ASSUME NEW n \in Node, NEW i \in Processes[n], NEW free \in FreeReports, Heartbeat(n, i, free)
      PROVE  RowInv'
  <2> DEFINE takeover == node[n].instance \notin {None, i}
             nd == [instance |-> i, volume |-> VolumeOf[i], age |-> "fresh", free |-> free]
  <2>1. /\ object' = object
        /\ node' = [node EXCEPT ![n] = nd]
        /\ replica' = [r \in Chunk \X Node |->
                         IF takeover /\ r[2] = n THEN RowAfterChange(replica[r], VolumeOf[i])
                                                 ELSE replica[r]]
    BY <1>1 DEF Heartbeat, catalog
  <2>2. i \in Instance /\ i # None
    BY NodesAssumption, NoneAssumption
  <2>3. \A m \in Node : node'[m] = IF m = n THEN nd ELSE node[m]
    BY <2>1 DEF TypeOK
  <2>4. \A m \in Node : NodeOK(node'[m])
    BY <2>2, <2>3 DEF RowInv, NodeOK
  <2>5. ASSUME NEW c \in Chunk, NEW m \in Node
        PROVE  RowOK(object'[c[1]], replica'[<<c, m>>], node'[m])
    <3>1. RowOK(object[c[1]], Rep(c, m), node[m]) /\ NodeOK(node[m])
      BY DEF RowInv
    <3>2. CASE m = n /\ takeover
      <4>1. replica'[<<c, m>>] = RowAfterChange(Rep(c, m), VolumeOf[i])
        BY <2>1, <3>2 DEF Rep
      <4>2. node'[m] = nd
        BY <2>3, <3>2
      <4> QED
        BY <2>1, <2>2, <3>1, <4>1, <4>2 DEF RowOK, RowAfterChange, RepRow
    <3>3. CASE m = n /\ ~takeover
      <4>1. replica'[<<c, m>>] = Rep(c, m) /\ node'[m] = nd
        BY <2>1, <2>3, <3>3 DEF Rep
      <4>2. node[m].instance # None => node[m].volume = nd.volume
        BY <3>1, <3>3 DEF NodeOK
      <4> QED
        BY <2>1, <2>2, <3>1, <4>1, <4>2 DEF RowOK
    <3>4. CASE m # n
      <4>1. replica'[<<c, m>>] = Rep(c, m) /\ node'[m] = node[m]
        BY <2>1, <2>3, <3>4 DEF Rep
      <4> QED
        BY <2>1, <3>1, <4>1
    <3> QED
      BY <3>2, <3>3, <3>4
  <2> QED
    BY <2>4, <2>5, RowInvParts2
<1>2. ASSUME NEW n \in Node, Age(n) PROVE RowInv'
  <2>1. UNCHANGED <<object, replica>>
    BY <1>2 DEF Age, catalog, space
  <2>2. \A m \in Node : /\ node'[m].instance = node[m].instance /\ node'[m].volume = node[m].volume
                        /\ node'[m].age = "fresh" => node[m].age = "fresh"
    BY <1>2 DEF Age, TypeOK, NodeRow
  <2>3. \A c \in Chunk, m \in Node : RowOK(object'[c[1]], replica'[<<c, m>>], node'[m])
    BY <2>1, <2>2 DEF RowInv, RowOK, Rep
  <2>4. \A m \in Node : NodeOK(node'[m])
    BY <2>2 DEF RowInv, NodeOK
  <2> QED
    BY <2>3, <2>4, RowInvParts2
<1>3. ASSUME NEW o \in Object, Lapse(o) PROVE RowInv'
  BY <1>3, RowsStay DEF Lapse, space
<1>4. ASSUME NEW t \in Task, TaskDue(t) PROVE RowInv'
  BY <1>4, RowsStay DEF TaskDue, catalog, space
<1> QED
  BY <1>1, <1>2, <1>3, <1>4 DEF Environment

\* What a thread's locals name.
LEMMA WorkerNames ==
  ASSUME TypeOK, NEW w \in Worker, worker[w].pc # "idle"
  PROVE  /\ worker[w].task \in Task /\ worker[w].task[2] \in Chunk
         /\ worker[w].task[1] = "delete" => worker[w].task[3] \in Node
         /\ worker[w].pc = "publish" => worker[w].target \in Node
  BY TaskNames DEF TypeOK, LocalsSet

LEMMA MaintNames ==
  ASSUME TypeOK, NEW m \in Maintainer, maint[m].pc = "verify"
  PROVE  /\ maint[m].chunk \in Chunk /\ maint[m].node \in Node
         /\ maint[m].nodes[maint[m].node] \in Instance
  BY DEF TypeOK, LocalsSet

\* Workers: removal never touches a reservation, repair only takes free rows.
LEMMA TasksRows == ASSUME TypeOK, RowInv, RemovalIsFenced, Tasks PROVE RowInv'
<1> PICK w \in Worker :
      \/ \E t \in Task : Claim(w, t)
      \/ WorkerFail(w) \/ WorkerCrash(w)
      \/ DeleteBegin(w) \/ DeleteRemoved(w) \/ DeleteCommit(w)
      \/ RepairNotNeeded(w) \/ \E n \in Node : RepairBegin(w, n)
      \/ RepairFetch(w) \/ RepairPut(w) \/ RepairStat(w) \/ RepairPublish(w)
  BY DEF Tasks
<1> DEFINE c == worker[w].task[2]
<1>1. CASE \/ \E t \in Task : Claim(w, t)
           \/ WorkerFail(w) \/ WorkerCrash(w) \/ DeleteRemoved(w) \/ RepairNotNeeded(w)
           \/ RepairFetch(w) \/ RepairPut(w) \/ RepairStat(w)
  <2>1. UNCHANGED <<object, replica, node>>
    BY <1>1 DEF Claim, WorkerFail, WorkerCrash, DeleteRemoved, RepairNotNeeded, RepairFetch,
                RepairPut, RepairStat, Rpc, tables, catalog, space
  <2> QED
    BY <2>1, RowsStay
<1>2. CASE DeleteBegin(w)
  <2> DEFINE n == worker[w].task[3]
             row == RepRow("deleting", Rep(c, n).charged, Rep(c, n).volume)
  <2>1. c \in Chunk /\ n \in Node
    BY <1>2, WorkerNames DEF DeleteBegin, At
  <2>2. UNCHANGED <<object, node>> /\ Removable(c, n)
    BY <1>2 DEF DeleteBegin, catalog
  <2>3. RowOK(object[c[1]], Rep(c, n), node[n])
    BY <2>1 DEF RowInv
  <2>4. CASE n \in Rows(c)
    <3>1. replica' = [replica EXCEPT ![<<c, n>>] = row]
      BY <1>2, <2>4 DEF DeleteBegin, Rep
    <3>2. RowOK(object[c[1]], row, node[n])
      BY <2>2, <2>3, <2>4 DEF Removable, RowOK, RepRow, Rows
    <3> HIDE DEF row, c, n
    <3> QED
      BY <2>1, <2>2, <3>1, <3>2, OneRow
  <2>5. CASE n \notin Rows(c)
    BY <1>2, <2>2, <2>5, RowsStay DEF DeleteBegin
  <2> QED
    BY <2>4, <2>5
<1>3. CASE DeleteCommit(w)
  <2> DEFINE n == worker[w].task[3]
             row == RepRow(IF Rep(c, n).state = "deleting" THEN "gone" ELSE Rep(c, n).state,
                           "none", Rep(c, n).volume)
  <2>1. c \in Chunk /\ n \in Node
    BY <1>3, WorkerNames DEF DeleteCommit, At
  <2>2. UNCHANGED <<object, node>> /\ replica' = [replica EXCEPT ![<<c, n>>] = row]
    BY <1>3 DEF DeleteCommit, catalog, Rep
  <2>3. RowOK(object[c[1]], Rep(c, n), node[n])
    BY <2>1 DEF RowInv
  <2>4. Rep(c, n).state = "deleting"
    BY <1>3 DEF DeleteCommit, At, RemovalIsFenced
  <2>5. RowOK(object[c[1]], row, node[n])
    BY <2>3, <2>4 DEF RowOK, RepRow
  <2> HIDE DEF row, c, n
  <2> QED
    BY <2>1, <2>2, <2>5, OneRow
<1>4. CASE \E n \in Node : RepairBegin(w, n)
  <2>1. PICK n \in Node : RepairBegin(w, n)
    BY <1>4
  <2>2. c \in Chunk /\ UNCHANGED <<object, node>> /\ object[c[1]] = "published" /\ Fresh(n)
    BY <2>1, WorkerNames DEF RepairBegin, At, catalog
  <2>3. RowOK(object[c[1]], Rep(c, n), node[n]) /\ NodeOK(node[n])
    BY <2>2 DEF RowInv
  <2>4. RowOK(object[c[1]], NewRow(n), node[n])
    BY <2>2, <2>3 DEF RowOK, NodeOK, NewRow, RepRow, Fresh
  <2>5. UNCHANGED replica \/ replica' = [replica EXCEPT ![<<c, n>>] = NewRow(n)]
    BY <2>1 DEF RepairBegin
  <2> HIDE DEF c
  <2> QED
    BY <2>2, <2>4, <2>5, OneRow, RowsStay
<1>5. CASE RepairPublish(w)
  <2> DEFINE n == worker[w].target
             bad == RepRow("bad", "none", Rep(c, n).volume)
             valid == RepRow("valid", "used", Rep(c, n).volume)
  <2>1. c \in Chunk /\ n \in Node
    BY <1>5, WorkerNames DEF RepairPublish, At
  <2>2. /\ UNCHANGED <<object, node>> /\ object[c[1]] = "published"
        /\ Rep(c, n).state = "reserved"
        /\ \/ replica' = [replica EXCEPT ![<<c, n>>] = bad]
           \/ replica' = [replica EXCEPT ![<<c, n>>] = valid]
    BY <1>5 DEF RepairPublish, catalog, Rep
  <2>3. RowOK(object[c[1]], Rep(c, n), node[n])
    BY <2>1 DEF RowInv
  <2>4. RowOK(object[c[1]], bad, node[n]) /\ RowOK(object[c[1]], valid, node[n])
    BY <2>2, <2>3 DEF RowOK, RepRow
  <2>5. CASE replica' = [replica EXCEPT ![<<c, n>>] = bad]
    <3> HIDE DEF bad, valid, c, n
    <3> QED BY <2>1, <2>2, <2>4, <2>5, OneRow
  <2>6. CASE replica' = [replica EXCEPT ![<<c, n>>] = valid]
    <3> HIDE DEF bad, valid, c, n
    <3> QED BY <2>1, <2>2, <2>4, <2>6, OneRow
  <2> QED
    BY <2>2, <2>5, <2>6
<1> QED
  BY <1>1, <1>2, <1>3, <1>4, <1>5

\* Maintenance: a verdict only lands on an unverified row, and a row that waits
\* for data is never mistaken for lost data of an old volume.
LEMMA MaintenanceRows == ASSUME TypeOK, RowInv, Maintenance PROVE RowInv'
<1> PICK m \in Maintainer :
      \/ Maintain(m) \/ ReconcileBegin(m)
      \/ \E n \in Node : ReconcileNode(m, n)
      \/ \E c \in Chunk, ok \in BOOLEAN : ReconcileStat(m, c, ok)
      \/ ReconcileVerify(m)
      \/ \E ids \in SUBSET Chunk : ReconcileInventory(m, ids)
      \/ \E c \in Chunk : ReconcileFile(m, c)
      \/ ReconcileNext(m) \/ ReconcileEnd(m)
  BY DEF Maintenance
<1>1. CASE Maintain(m)
  BY <1>1, RetireRows DEF Maintain
<1>2. CASE ReconcileVerify(m)
  <2> DEFINE c == maint[m].chunk
             n == maint[m].node
             i == maint[m].nodes[n]
             row == Rep(c, n)
             lost == ~maint[m].ok /\ row.volume # VolumeOf[i]
             charged == IF lost THEN "none" ELSE row.charged
             verdict == IF maint[m].ok THEN "valid" ELSE "bad"
             new == IF row.state = "unverified" THEN RepRow(verdict, charged, VolumeOf[i])
                                                ELSE RepRow(row.state, charged, row.volume)
  <2>1. c \in Chunk /\ n \in Node /\ i \in Instance
    BY <1>2, MaintNames DEF ReconcileVerify, StillAsked
  <2>2. UNCHANGED <<object, node>>
    BY <1>2 DEF ReconcileVerify, StillAsked, catalog
  <2>3. \/ UNCHANGED replica
        \/ node[n].instance = i /\ replica' = [replica EXCEPT ![<<c, n>>] = new]
    BY <1>2 DEF ReconcileVerify, StillAsked, space
  <2>4. CASE UNCHANGED replica
    BY <2>2, <2>4, RowsStay
  <2>5. CASE node[n].instance = i /\ replica' = [replica EXCEPT ![<<c, n>>] = new]
    <3>1. RowOK(object[c[1]], row, node[n]) /\ NodeOK(node[n])
      BY <2>1 DEF RowInv
    <3>2. node[n].instance # None /\ node[n].volume = VolumeOf[i]
      BY <2>1, <2>5, <3>1, NoneAssumption DEF NodeOK
    <3>3. row.state = "reserved" => ~lost
      BY <3>1, <3>2 DEF RowOK
    <3>4. RowOK(object[c[1]], new, node[n])
      <4>1. charged = row.charged \/ charged = "none"
        OBVIOUS
      <4>2. row.state = "reserved" => charged = row.charged
        BY <3>3
      <4>3. verdict \in {"valid", "bad"}
        OBVIOUS
      <4> HIDE DEF charged, verdict, lost, row
      <4> QED
        BY <3>1, <3>2, <4>1, <4>2, <4>3 DEF RowOK, RepRow
    <3> HIDE DEF new, c, n, i
    <3> QED
      BY <2>1, <2>2, <2>5, <3>4, OneRow
  <2> QED
    BY <2>3, <2>4, <2>5
<1>3. CASE \/ ReconcileBegin(m)
           \/ \E n \in Node : ReconcileNode(m, n)
           \/ \E c \in Chunk, ok \in BOOLEAN : ReconcileStat(m, c, ok)
           \/ \E ids \in SUBSET Chunk : ReconcileInventory(m, ids)
           \/ \E c \in Chunk : ReconcileFile(m, c)
           \/ ReconcileNext(m) \/ ReconcileEnd(m)
  <2>1. UNCHANGED <<object, replica, node>>
    BY <1>3 DEF ReconcileBegin, ReconcileNode, ReconcileStat, ReconcileInventory, ReconcileFile,
                ReconcileNext, ReconcileEnd, tables, catalog, space
  <2> QED
    BY <2>1, RowsStay
<1> QED
  BY <1>1, <1>2, <1>3

-----------------------------------------------------------------------------
(***************************************************************************)
(* The removal queue.  Two facts about every step drive the proofs: rows   *)
(* are never dropped, and a row that is "deleting" stays so until the      *)
(* worker whose claim passes the fence ends its removal.                   *)
(***************************************************************************)
Deleting(c, n) == Rep(c, n).state = "deleting"

RowsPersist ==
  \A c \in Chunk, n \in Node : Rep(c, n).state # "absent" => replica'[<<c, n>>].state # "absent"

DeletingPersists ==
  \A c \in Chunk, n \in Node :
    Deleting(c, n) => \/ replica'[<<c, n>>].state = "deleting"
                      \/ \E w \in Worker : /\ At(w, "delete", "removed") /\ Fenced(w)
                                           /\ worker[w].task = DeleteOf(c, n)
                                           /\ task'[DeleteOf(c, n)].state = "done"

LEMMA OneRowPersists ==
  ASSUME TypeOK, NEW c \in Chunk, NEW n \in Node, NEW row,
         replica' = [replica EXCEPT ![<<c, n>>] = row],
         Rep(c, n).state # "absent" => row.state # "absent",
         Rep(c, n).state = "deleting" => row.state = "deleting"
  PROVE  RowsPersist /\ DeletingPersists
  BY DEF TypeOK, RowsPersist, DeletingPersists, Deleting, Rep

LEMMA SameRowsPersist == ASSUME UNCHANGED replica PROVE RowsPersist /\ DeletingPersists
  BY DEF RowsPersist, DeletingPersists, Deleting, Rep

LEMMA RetirePersists ==
  ASSUME TypeOK, NEW S, NEW end, Retire(S, end) PROVE RowsPersist /\ DeletingPersists
<1>1. ASSUME NEW c \in Chunk, NEW n \in Node
      PROVE  /\ Rep(c, n).state # "absent" => replica'[<<c, n>>].state # "absent"
             /\ Rep(c, n).state = "deleting" => replica'[<<c, n>>].state = "deleting"
  <2>1. replica'[<<c, n>>] = IF c[1] \in S THEN RetiredRow(Rep(c, n)) ELSE Rep(c, n)
    BY DEF Retire, Rep
  <2> QED
    BY <2>1 DEF RetiredRow, RepRow
<1> QED
  BY <1>1 DEF RowsPersist, DeletingPersists, Deleting

LEMMA RequestsPersist == ASSUME TypeOK, RowInv, Requests PROVE RowsPersist /\ DeletingPersists
<1>1. ASSUME NEW o \in Object, InitUpload(o) PROVE RowsPersist /\ DeletingPersists
  <2>1. PICK place \in [Chunks(o) -> {S \in SUBSET Node : Cardinality(S) = Replicas}] :
          replica' = [r \in Chunk \X Node |->
                        IF r[1][1] = o /\ r[2] \in place[r[1]] THEN NewRow(r[2]) ELSE replica[r]]
    BY <1>1 DEF InitUpload
  <2>2. ASSUME NEW c \in Chunk, NEW n \in Node
        PROVE  \/ replica'[<<c, n>>] = Rep(c, n)
               \/ Rep(c, n).state = "absent" /\ replica'[<<c, n>>] = NewRow(n)
    <3>1. RowOK(object[c[1]], Rep(c, n), node[n]) /\ object[o] = "absent"
      BY <1>1 DEF RowInv, InitUpload
    <3> QED
      BY <2>1, <3>1 DEF RowOK, Rep
  <2> QED
    BY <2>2 DEF RowsPersist, DeletingPersists, Deleting
<1>2. ASSUME NEW o \in Object, Complete(o) PROVE RowsPersist /\ DeletingPersists
  BY <1>2, SameRowsPersist DEF Complete, space
<1>3. ASSUME NEW o \in Object, Cancel(o) \/ Delete(o) PROVE RowsPersist /\ DeletingPersists
  BY <1>3, RetirePersists DEF Cancel, Delete
<1>4. ASSUME NEW c \in Chunk, NEW s \in Sha, Prepare(c, s) PROVE RowsPersist /\ DeletingPersists
  BY <1>4, SameRowsPersist DEF Prepare, space
<1>5. ASSUME NEW c \in Chunk, NEW n \in Node, BadReplica(c, n) PROVE RowsPersist /\ DeletingPersists
  <2> DEFINE row == RepRow("bad", Rep(c, n).charged, Rep(c, n).volume)
  <2>1. \/ UNCHANGED replica
        \/ Rep(c, n).state = "valid" /\ replica' = [replica EXCEPT ![<<c, n>>] = row]
    BY <1>5 DEF BadReplica, Rep
  <2>2. row.state = "bad"
    BY DEF RepRow
  <2> HIDE DEF row
  <2> QED
    BY <2>1, <2>2, SameRowsPersist, OneRowPersists
<1>6. ASSUME NEW h \in Confirmer, ConfirmCommit(h) PROVE RowsPersist /\ DeletingPersists
  <2>1. ASSUME NEW c \in Chunk, NEW n \in Node
        PROVE  \/ replica'[<<c, n>>] = Rep(c, n)
               \/ Rep(c, n).state = "reserved" /\ replica'[<<c, n>>].state = "valid"
    BY <1>6 DEF ConfirmCommit, Counted, Rep, RepRow
  <2> QED
    BY <2>1 DEF RowsPersist, DeletingPersists, Deleting
<1>7. ASSUME NEW h \in Confirmer, ConfirmAbort(h) \/ (\E c \in Chunk : ConfirmBegin(h, c))
                                                  \/ (\E n \in Node : ConfirmStat(h, n))
      PROVE  RowsPersist /\ DeletingPersists
  BY <1>7, SameRowsPersist DEF ConfirmAbort, ConfirmBegin, ConfirmStat, tables, space
<1> QED
  BY <1>1, <1>2, <1>3, <1>4, <1>5, <1>6, <1>7 DEF Requests

LEMMA EnvironmentPersists == ASSUME TypeOK, RowInv, Environment PROVE RowsPersist /\ DeletingPersists
<1>1. ASSUME NEW n \in Node, NEW i \in Processes[n], NEW free \in FreeReports, Heartbeat(n, i, free)
      PROVE  RowsPersist /\ DeletingPersists
  <2>1. ASSUME NEW c \in Chunk, NEW m \in Node
        PROVE  replica'[<<c, m>>] \in {Rep(c, m), RowAfterChange(Rep(c, m), VolumeOf[i])}
    BY <1>1 DEF Heartbeat, Rep
  <2>2. ASSUME NEW c \in Chunk, NEW m \in Node
        PROVE  /\ Rep(c, m).state # "absent" => replica'[<<c, m>>].state # "absent"
               /\ Rep(c, m).state = "deleting" => replica'[<<c, m>>].state = "deleting"
    <3>1. CASE replica'[<<c, m>>] = Rep(c, m)
      BY <3>1
    <3>2. CASE replica'[<<c, m>>] = RowAfterChange(Rep(c, m), VolumeOf[i])
      BY <3>2 DEF RowAfterChange, RepRow
    <3> QED
      BY <2>1, <3>1, <3>2
  <2> QED
    BY <2>2 DEF RowsPersist, DeletingPersists, Deleting
<1>2. CASE \/ \E n \in Node : Age(n)
           \/ \E o \in Object : Lapse(o)
           \/ \E t \in Task : TaskDue(t)
  BY <1>2, SameRowsPersist DEF Age, Lapse, TaskDue, space
<1> QED
  BY <1>1, <1>2 DEF Environment

LEMMA TasksPersist ==
  ASSUME TypeOK, RowInv, RemovalIsFenced, Tasks PROVE RowsPersist /\ DeletingPersists
<1> PICK w \in Worker :
      \/ \E t \in Task : Claim(w, t)
      \/ WorkerFail(w) \/ WorkerCrash(w)
      \/ DeleteBegin(w) \/ DeleteRemoved(w) \/ DeleteCommit(w)
      \/ RepairNotNeeded(w) \/ \E n \in Node : RepairBegin(w, n)
      \/ RepairFetch(w) \/ RepairPut(w) \/ RepairStat(w) \/ RepairPublish(w)
  BY DEF Tasks
<1> DEFINE c == worker[w].task[2]
<1>1. CASE \/ \E t \in Task : Claim(w, t)
           \/ WorkerFail(w) \/ WorkerCrash(w) \/ DeleteRemoved(w) \/ RepairNotNeeded(w)
           \/ RepairFetch(w) \/ RepairPut(w) \/ RepairStat(w)
  <2>1. UNCHANGED replica
    BY <1>1 DEF Claim, WorkerFail, WorkerCrash, DeleteRemoved, RepairNotNeeded, RepairFetch,
                RepairPut, RepairStat, Rpc, tables, space
  <2> QED
    BY <2>1, SameRowsPersist
<1>2. CASE DeleteBegin(w)
  <2> DEFINE n == worker[w].task[3]
             row == RepRow("deleting", Rep(c, n).charged, Rep(c, n).volume)
  <2>1. c \in Chunk /\ n \in Node
    BY <1>2, WorkerNames DEF DeleteBegin, At
  <2>2. UNCHANGED replica \/ replica' = [replica EXCEPT ![<<c, n>>] = row]
    BY <1>2 DEF DeleteBegin, Rep
  <2>3. row.state = "deleting"
    BY DEF RepRow
  <2> HIDE DEF row, c, n
  <2> QED
    BY <2>1, <2>2, <2>3, SameRowsPersist, OneRowPersists
<1>3. CASE DeleteCommit(w)
  <2> DEFINE n == worker[w].task[3]
             row == RepRow(IF Rep(c, n).state = "deleting" THEN "gone" ELSE Rep(c, n).state,
                           "none", Rep(c, n).volume)
  <2>1. c \in Chunk /\ n \in Node /\ worker[w].task \in Task
    BY <1>3, WorkerNames DEF DeleteCommit, At
  <2>2. replica' = [replica EXCEPT ![<<c, n>>] = row]
    BY <1>3 DEF DeleteCommit, Rep
  <2>3. Rep(c, n).state = "deleting"
    BY <1>3 DEF DeleteCommit, At, RemovalIsFenced
  <2>4. row.state = "gone"
    BY <2>3 DEF RepRow
  <2>5. worker[w].task = DeleteOf(c, n) /\ At(w, "delete", "removed") /\ Fenced(w)
    BY <1>3, <2>1 DEF DeleteCommit, At, DeleteOf, Task
  <2>6. task'[DeleteOf(c, n)].state = "done"
    BY <1>3, <2>1, <2>5 DEF DeleteCommit, TaskDone, QueueRow, TypeOK
  <2>7. \A d \in Chunk, m \in Node : \/ d = c /\ m = n /\ replica'[<<d, m>>].state = "gone"
                                     \/ replica'[<<d, m>>] = Rep(d, m)
    <3> HIDE DEF row
    <3> QED BY <2>1, <2>2, <2>4 DEF TypeOK, Rep
  <2> HIDE DEF c, n
  <2> QED
    BY <2>5, <2>6, <2>7 DEF RowsPersist, DeletingPersists, Deleting
<1>4. CASE \E n \in Node : RepairBegin(w, n)
  <2>1. PICK n \in Node : RepairBegin(w, n)
    BY <1>4
  <2>2. c \in Chunk
    BY <2>1, WorkerNames DEF RepairBegin, At
  <2>3. \/ UNCHANGED replica
        \/ n \in NewTargets(c) /\ replica' = [replica EXCEPT ![<<c, n>>] = NewRow(n)]
    BY <2>1 DEF RepairBegin
  <2>4. n \in NewTargets(c) => Rep(c, n).state # "deleting"
    BY DEF NewTargets, Reserve, Rows
  <2>5. NewRow(n).state = "reserved"
    BY DEF NewRow, RepRow
  <2> HIDE DEF c
  <2> QED
    BY <2>2, <2>3, <2>4, <2>5, SameRowsPersist, OneRowPersists
<1>5. CASE RepairPublish(w)
  <2> DEFINE n == worker[w].target
             bad == RepRow("bad", "none", Rep(c, n).volume)
             valid == RepRow("valid", "used", Rep(c, n).volume)
  <2>1. c \in Chunk /\ n \in Node
    BY <1>5, WorkerNames DEF RepairPublish, At
  <2>2. /\ Rep(c, n).state = "reserved"
        /\ \/ replica' = [replica EXCEPT ![<<c, n>>] = bad]
           \/ replica' = [replica EXCEPT ![<<c, n>>] = valid]
    BY <1>5 DEF RepairPublish, Rep
  <2>3. bad.state = "bad" /\ valid.state = "valid"
    BY DEF RepRow
  <2> HIDE DEF bad, valid, c, n
  <2>4. CASE replica' = [replica EXCEPT ![<<c, n>>] = bad]
    BY <2>1, <2>2, <2>3, <2>4, OneRowPersists
  <2>5. CASE replica' = [replica EXCEPT ![<<c, n>>] = valid]
    BY <2>1, <2>2, <2>3, <2>5, OneRowPersists
  <2> QED
    BY <2>2, <2>4, <2>5
<1> QED
  BY <1>1, <1>2, <1>3, <1>4, <1>5

LEMMA MaintenancePersists == ASSUME TypeOK, RowInv, Maintenance PROVE RowsPersist /\ DeletingPersists
<1> PICK m \in Maintainer :
      \/ Maintain(m) \/ ReconcileBegin(m)
      \/ \E n \in Node : ReconcileNode(m, n)
      \/ \E c \in Chunk, ok \in BOOLEAN : ReconcileStat(m, c, ok)
      \/ ReconcileVerify(m)
      \/ \E ids \in SUBSET Chunk : ReconcileInventory(m, ids)
      \/ \E c \in Chunk : ReconcileFile(m, c)
      \/ ReconcileNext(m) \/ ReconcileEnd(m)
  BY DEF Maintenance
<1>1. CASE Maintain(m)
  BY <1>1, RetirePersists DEF Maintain
<1>2. CASE ReconcileVerify(m)
  <2> DEFINE c == maint[m].chunk
             n == maint[m].node
  <2>1. c \in Chunk /\ n \in Node
    BY <1>2, MaintNames DEF ReconcileVerify, StillAsked
  <2>2. \/ UNCHANGED replica
        \/ \E row : /\ replica' = [replica EXCEPT ![<<c, n>>] = row]
                    /\ row.state = Rep(c, n).state \/ Rep(c, n).state = "unverified"
                    /\ Rep(c, n).state = "unverified" => row.state \in {"valid", "bad"}
    BY <1>2 DEF ReconcileVerify, StillAsked, space, RepRow
  <2> HIDE DEF c, n
  <2> QED
    BY <2>1, <2>2, SameRowsPersist, OneRowPersists
<1>3. CASE \/ ReconcileBegin(m)
           \/ \E n \in Node : ReconcileNode(m, n)
           \/ \E c \in Chunk, ok \in BOOLEAN : ReconcileStat(m, c, ok)
           \/ \E ids \in SUBSET Chunk : ReconcileInventory(m, ids)
           \/ \E c \in Chunk : ReconcileFile(m, c)
           \/ ReconcileNext(m) \/ ReconcileEnd(m)
  <2>1. UNCHANGED replica
    BY <1>3 DEF ReconcileBegin, ReconcileNode, ReconcileStat, ReconcileInventory, ReconcileFile,
                ReconcileNext, ReconcileEnd, tables, space
  <2> QED
    BY <2>1, SameRowsPersist
<1> QED
  BY <1>1, <1>2, <1>3

LEMMA NextPersists ==
  ASSUME TypeOK, RowInv, RemovalIsFenced, [Next]_vars PROVE RowsPersist /\ DeletingPersists
<1>1. CASE UNCHANGED vars
  BY <1>1, SameRowsPersist DEF vars, tables, space
<1> QED
  BY <1>1, RequestsPersist, EnvironmentPersists, TasksPersist, MaintenancePersists DEF Next

\* A step only queues removals of rows, and only reads files that have rows.
QueueStep ==
  /\ \A c \in Chunk, n \in Node :
       task'[DeleteOf(c, n)].state # "done" =>
         task[DeleteOf(c, n)].state # "done" \/ Rep(c, n).state # "absent"
  /\ \A m \in Maintainer : maint'[m].pc = "files" =>
       \A c \in maint'[m].todo : Rep(c, maint'[m].node).state # "absent"

\* A worker that is removing under the fence after a step was before it, or
\* has just marked the row.
FenceStep ==
  \A w \in Worker :
    /\ worker'[w].pc \in {"remove", "removed"}
    /\ task'[worker'[w].task].token = w
    /\ task'[worker'[w].task].state = "running" /\ ~task'[worker'[w].task].due
    => \/ /\ worker[w].pc \in {"remove", "removed"}
          /\ worker[w].task = worker'[w].task /\ Fenced(w)
       \/ replica'[<<worker'[w].task[2], worker'[w].task[3]>>].state = "deleting"

LEMMA DeleteOfTask == \A c \in Chunk, n \in Node : DeleteOf(c, n) \in Task
  BY DEF DeleteOf, Task

\* The two steps are enough.
LEMMA QueueInductive ==
  ASSUME TypeOK, TypeOK', RemovalsHaveRows, RemovalIsFenced,
         RowsPersist, DeletingPersists, QueueStep, FenceStep
  PROVE  RemovalsHaveRows' /\ RemovalIsFenced'
<1>1. RemovalsHaveRows'
  <2>1. ASSUME NEW c \in Chunk, NEW n \in Node, task'[DeleteOf(c, n)].state # "done"
        PROVE  replica'[<<c, n>>].state # "absent"
    BY <2>1 DEF RemovalsHaveRows, Rows, QueueStep, RowsPersist
  <2>2. ASSUME NEW m \in Maintainer, maint'[m].pc = "files", NEW c \in maint'[m].todo
        PROVE  maint'[m].node \in Node /\ replica'[<<c, maint'[m].node>>].state # "absent"
    <3>1. maint'[m].node \in Node /\ c \in Chunk
      BY <2>2 DEF TypeOK, LocalsSet, MaintState
    <3> QED
      BY <2>2, <3>1 DEF QueueStep, RowsPersist
  <2> QED
    BY <2>1, <2>2 DEF RemovalsHaveRows, Rows, Rep
<1>2. RemovalIsFenced'
  <2>1. ASSUME NEW w \in Worker, worker'[w].pc \in {"remove", "removed"},
               task'[worker'[w].task].token = w,
               task'[worker'[w].task].state = "running", ~task'[worker'[w].task].due
        PROVE  replica'[<<worker'[w].task[2], worker'[w].task[3]>>].state = "deleting"
    <3> DEFINE t == worker'[w].task
    <3>1. t \in Task /\ t[1] = "delete"
      BY <2>1 DEF TypeOK, LocalsSet
    <3>2. t[2] \in Chunk /\ t[3] \in Node /\ t = DeleteOf(t[2], t[3])
      BY <3>1 DEF Task, DeleteOf
    <3>3. CASE worker[w].pc \in {"remove", "removed"} /\ worker[w].task = t /\ Fenced(w)
      <4>1. Deleting(t[2], t[3])
        BY <3>3 DEF RemovalIsFenced, Deleting
      <4>2. task'[DeleteOf(t[2], t[3])].state # "done"
        BY <2>1, <3>2
      <4> QED
        BY <3>2, <4>1, <4>2 DEF DeletingPersists
    <3> QED
      BY <2>1, <3>3 DEF FenceStep
  <2> QED
    BY <2>1 DEF RemovalIsFenced, Fenced, Rep
<1> QED
  BY <1>1, <1>2

\* enqueue and retire never make a task running.
LEMMA EnqueueState ==
  ASSUME NEW tasks, NEW T, NEW delayed
  PROVE  \A t \in Task : \/ Enqueue(tasks, T, delayed)[t] = tasks[t]
                         \/ t \in T /\ Enqueue(tasks, T, delayed)[t].state = "pending"
  BY DEF Enqueue, QueueRow

LEMMA RetiredTasksState ==
  ASSUME NEW S
  PROVE  \A t \in Task :
           \/ RetiredTasks(S)[t] = task[t]
           \/ RetiredTasks(S)[t].state = "done"
           \/ t[1] = "delete" /\ t[3] \in Rows(t[2]) /\ RetiredTasks(S)[t].state = "pending"
<1> DEFINE fenced == [t \in Task |-> IF t[1] = "repair" /\ t[2][1] \in S
                                    THEN QueueRow("done", FALSE, None) ELSE task[t]]
           T == {t \in Task : /\ t[1] = "delete" /\ t[2][1] \in S /\ t[3] \in Rows(t[2])}
<1>1. \A t \in Task : fenced[t] = task[t] \/ fenced[t].state = "done"
  BY DEF QueueRow
<1>2. RetiredTasks(S) = Enqueue(fenced, T, TRUE)
  BY DEF RetiredTasks
<1>3. \A t \in Task : \/ Enqueue(fenced, T, TRUE)[t] = fenced[t]
                      \/ t \in T /\ Enqueue(fenced, T, TRUE)[t].state = "pending"
  BY DEF Enqueue, QueueRow
<1> HIDE DEF fenced
<1> QED
  BY <1>1, <1>2, <1>3

\* Steps of other threads than the workers.
ReadFilesHaveRows ==
  \A m \in Maintainer : maint'[m].pc = "files" =>
    \A c \in maint'[m].todo : Rep(c, maint'[m].node).state # "absent"

LEMMA FilesStay == ASSUME UNCHANGED maint, RemovalsHaveRows PROVE ReadFilesHaveRows
  BY DEF ReadFilesHaveRows, RemovalsHaveRows, Rows

LEMMA OtherSteps ==
  ASSUME TypeOK, UNCHANGED worker, ReadFilesHaveRows,
         \A t \in Task : \/ task'[t] = task[t]
                         \/ task'[t].state = "done"
                         \/ task[t].state # "done" /\ task'[t].due
                         \/ task'[t].state = "pending" /\
                              (t[1] = "delete" => Rep(t[2], t[3]).state # "absent")
  PROVE  QueueStep /\ FenceStep
<1>1. QueueStep
  <2>1. ASSUME NEW c \in Chunk, NEW n \in Node, task'[DeleteOf(c, n)].state # "done"
        PROVE  task[DeleteOf(c, n)].state # "done" \/ Rep(c, n).state # "absent"
    <3>1. DeleteOf(c, n) \in Task
      BY DeleteOfTask
    <3>2. DeleteOf(c, n)[1] = "delete" /\ DeleteOf(c, n)[2] = c /\ DeleteOf(c, n)[3] = n
      BY DEF DeleteOf
    <3> QED
      BY <2>1, <3>1, <3>2
  <2> QED
    BY <2>1 DEF QueueStep, ReadFilesHaveRows
<1>2. FenceStep
  <2>1. ASSUME NEW w \in Worker, worker[w].pc \in {"remove", "removed"}
        PROVE  worker[w].task \in Task
    BY <2>1 DEF TypeOK, LocalsSet
  <2> QED
    BY <2>1 DEF FenceStep, Fenced
<1> QED
  BY <1>1, <1>2

LEMMA SameTasks ==
  ASSUME TypeOK, RemovalsHaveRows, UNCHANGED <<worker, maint, task>>
  PROVE  QueueStep /\ FenceStep
  BY FilesStay, OtherSteps

LEMMA RetireSteps ==
  ASSUME TypeOK, UNCHANGED worker, ReadFilesHaveRows, NEW S, NEW T,
         \A t \in T : t[1] = "repair",
         task' = Enqueue(RetiredTasks(S), T, FALSE)
  PROVE  QueueStep /\ FenceStep
<1>1. ASSUME NEW t \in Task
      PROVE  \/ task'[t] = task[t]
             \/ task'[t].state = "done"
             \/ task'[t].state = "pending" /\
                  (t[1] = "delete" => Rep(t[2], t[3]).state # "absent")
  <2>1. \/ RetiredTasks(S)[t] = task[t]
        \/ RetiredTasks(S)[t].state = "done"
        \/ t[1] = "delete" /\ t[3] \in Rows(t[2]) /\ RetiredTasks(S)[t].state = "pending"
    BY RetiredTasksState
  <2>2. t[3] \in Rows(t[2]) => Rep(t[2], t[3]).state # "absent"
    BY DEF Rows
  <2>3. \/ task'[t] = RetiredTasks(S)[t]
        \/ t \in T /\ task'[t].state = "pending"
    BY EnqueueState
  <2> QED
    BY <2>1, <2>2, <2>3
<1> QED
  BY <1>1, OtherSteps

LEMMA RequestsSteps ==
  ASSUME TypeOK, RemovalsHaveRows, Requests PROVE QueueStep /\ FenceStep
<1>1. ASSUME NEW o \in Object, InitUpload(o) \/ Complete(o) PROVE QueueStep /\ FenceStep
  BY <1>1, SameTasks DEF InitUpload, Complete, threads
<1>2. ASSUME NEW o \in Object, Cancel(o) \/ Delete(o) PROVE QueueStep /\ FenceStep
  <2>1. UNCHANGED <<worker, maint>> /\ task' = RetiredTasks({o})
    BY <1>2 DEF Cancel, Delete, threads
  <2>2. ReadFilesHaveRows
    BY <2>1, FilesStay
  <2>3. \A t \in Task : \/ task'[t] = task[t] \/ task'[t].state = "done"
                        \/ t[3] \in Rows(t[2]) /\ task'[t].state = "pending"
    BY <2>1, RetiredTasksState
  <2>4. \A t \in Task : t[3] \in Rows(t[2]) => Rep(t[2], t[3]).state # "absent"
    BY DEF Rows
  <2> QED
    BY <2>1, <2>2, <2>3, <2>4, OtherSteps
<1>3. ASSUME NEW c \in Chunk, NEW s \in Sha, Prepare(c, s) PROVE QueueStep /\ FenceStep
  BY <1>3, SameTasks DEF Prepare, threads
<1>4. ASSUME NEW c \in Chunk, NEW n \in Node, BadReplica(c, n) PROVE QueueStep /\ FenceStep
  <2>1. UNCHANGED <<worker, maint>> /\ task' = Enqueue(task, {RepairOf(c)}, FALSE)
    BY <1>4 DEF BadReplica, threads
  <2>2. RepairOf(c)[1] = "repair"
    BY DEF RepairOf
  <2>4. \A t \in Task : task'[t] = task[t] \/ (t = RepairOf(c) /\ task'[t].state = "pending")
    BY <2>1 DEF Enqueue, QueueRow
  <2>3. \A t \in Task : task'[t] = task[t] \/ (t[1] = "repair" /\ task'[t].state = "pending")
    BY <2>2, <2>4, Zenon
  <2> QED
    BY <2>1, <2>3, FilesStay, OtherSteps
<1>5. ASSUME NEW h \in Confirmer,
             \/ ConfirmAbort(h) \/ ConfirmCommit(h)
             \/ (\E c \in Chunk : ConfirmBegin(h, c)) \/ (\E n \in Node : ConfirmStat(h, n))
      PROVE  QueueStep /\ FenceStep
  BY <1>5, SameTasks DEF ConfirmAbort, ConfirmCommit, ConfirmBegin, ConfirmStat, tables
<1> QED
  BY <1>1, <1>2, <1>3, <1>4, <1>5 DEF Requests

LEMMA EnvironmentSteps ==
  ASSUME TypeOK, RemovalsHaveRows, Environment PROVE QueueStep /\ FenceStep
<1>1. CASE \/ \E n \in Node : \E i \in Processes[n], free \in FreeReports : Heartbeat(n, i, free)
           \/ \E n \in Node : Age(n)
           \/ \E o \in Object : Lapse(o)
  BY <1>1, SameTasks DEF Heartbeat, Age, Lapse, threads
<1>2. ASSUME NEW t \in Task, TaskDue(t) PROVE QueueStep /\ FenceStep
  <2>1. \A u \in Task : task'[u] = task[u] \/ (task[u].state # "done" /\ task'[u].due)
    <3>1. task[t].state # "done" /\ task' = [task EXCEPT ![t].due = TRUE]
      BY <1>2 DEF TaskDue
    <3>2. task \in [Task -> TaskRow]
      BY DEF TypeOK
    <3>3. task'[t] = [task[t] EXCEPT !.due = TRUE] /\ task[t] \in TaskRow
      BY <3>1, <3>2
    <3>4. task'[t].due
      BY <3>3 DEF TaskRow
    <3>5. \A u \in Task : u # t => task'[u] = task[u]
      BY <3>1, <3>2
    <3> QED
      BY <3>1, <3>4, <3>5, Zenon
  <2> QED
    BY <1>2, <2>1, FilesStay, OtherSteps DEF TaskDue, threads
<1> QED
  BY <1>1, <1>2 DEF Environment

LEMMA MaintenanceSteps ==
  ASSUME TypeOK, RemovalsHaveRows, Maintenance PROVE QueueStep /\ FenceStep
<1> PICK m \in Maintainer :
      \/ Maintain(m) \/ ReconcileBegin(m)
      \/ \E n \in Node : ReconcileNode(m, n)
      \/ \E c \in Chunk, ok \in BOOLEAN : ReconcileStat(m, c, ok)
      \/ ReconcileVerify(m)
      \/ \E ids \in SUBSET Chunk : ReconcileInventory(m, ids)
      \/ \E c \in Chunk : ReconcileFile(m, c)
      \/ ReconcileNext(m) \/ ReconcileEnd(m)
  BY DEF Maintenance
<1>1. ReadFilesHaveRows
  <2>1. \A q \in Maintainer : q # m => maint'[q] = maint[q]
    BY DEF Maintain, ReconcileBegin, ReconcileNode, ReconcileStat, ReconcileVerify, StillAsked, ReconcileInventory,
           ReconcileFile, ReconcileNext, ReconcileEnd, TypeOK
  <2>2. ASSUME maint'[m].pc = "files", NEW c \in maint'[m].todo
        PROVE  Rep(c, maint'[m].node).state # "absent"
    <3>1. CASE \E ids \in SUBSET Chunk : ReconcileInventory(m, ids)
      BY <2>2, <3>1 DEF ReconcileInventory, Pass, Rows, TypeOK
    <3>2. CASE \E d \in Chunk : ReconcileFile(m, d)
      <4>1. /\ maint[m].pc = "files" /\ maint'[m].node = maint[m].node
            /\ maint'[m].todo \subseteq maint[m].todo
        BY <3>2 DEF ReconcileFile, TypeOK, MaintState
      <4> QED
        BY <2>2, <4>1 DEF RemovalsHaveRows, Rows
    <3>3. CASE \/ Maintain(m) \/ ReconcileBegin(m)
               \/ \E n \in Node : ReconcileNode(m, n)
               \/ \E d \in Chunk, ok \in BOOLEAN : ReconcileStat(m, d, ok)
               \/ ReconcileVerify(m) \/ ReconcileNext(m) \/ ReconcileEnd(m)
      <4>1. maint'[m].pc # "files"
        <5>1. maint \in [Maintainer -> MaintState]
          BY DEF TypeOK
        <5>2. CASE Maintain(m)
          BY <5>1, <5>2 DEF Maintain, MaintState
        <5>3. CASE ReconcileBegin(m)
          BY <5>1, <5>3 DEF ReconcileBegin, Pass
        <5>4. CASE \E n \in Node : ReconcileNode(m, n)
          BY <5>1, <5>4 DEF ReconcileNode, Pass
        <5>5. CASE \E d \in Chunk, ok \in BOOLEAN : ReconcileStat(m, d, ok)
          BY <5>1, <5>5 DEF ReconcileStat, Pass
        <5>6. CASE ReconcileVerify(m)
          BY <5>1, <5>6 DEF ReconcileVerify, StillAsked, Pass
        <5>7. CASE ReconcileNext(m) \/ ReconcileEnd(m)
          BY <5>1, <5>7 DEF ReconcileNext, ReconcileEnd, IdleMaint, Pass
        <5> QED
          BY <3>3, <5>2, <5>3, <5>4, <5>5, <5>6, <5>7
      <4> QED
        BY <2>2, <4>1
    <3> QED
      BY <3>1, <3>2, <3>3
  <2> QED
    BY <2>1, <2>2 DEF ReadFilesHaveRows, RemovalsHaveRows, Rows
<1>2. CASE Maintain(m)
  <2> DEFINE T == {t \in Task : /\ t[1] = "repair" /\ object[t[2][1]] = "published"
                                /\ Cardinality(Healthy(t[2])) < Replicas}
  <2>1. UNCHANGED worker /\ \E S : task' = Enqueue(RetiredTasks(S), T, FALSE)
    BY <1>2 DEF Maintain
  <2>2. \A t \in T : t[1] = "repair"
    OBVIOUS
  <2> HIDE DEF T
  <2> QED
    BY <1>1, <2>1, <2>2, RetireSteps
<1>3. CASE \E c \in Chunk : ReconcileFile(m, c)
  <2>1. PICK c \in Chunk : ReconcileFile(m, c)
    BY <1>3
  <2> DEFINE n == maint[m].node
  <2>2. UNCHANGED worker /\ (task' = task \/ task' = Enqueue(task, {DeleteOf(c, n)}, TRUE))
    BY <2>1 DEF ReconcileFile
  <2>3. Rep(c, n).state # "absent"
    BY <2>1 DEF ReconcileFile, RemovalsHaveRows, Rows
  <2>4. DeleteOf(c, n)[2] = c /\ DeleteOf(c, n)[3] = n
    BY DEF DeleteOf
  <2>5. \A t \in Task : \/ task'[t] = task[t]
                        \/ t = DeleteOf(c, n) /\ task'[t].state = "pending"
    BY <2>2 DEF Enqueue, QueueRow
  <2> HIDE DEF n
  <2> QED
    BY <1>1, <2>2, <2>3, <2>4, <2>5, OtherSteps
<1>4. CASE \/ ReconcileBegin(m)
           \/ \E n \in Node : ReconcileNode(m, n)
           \/ \E c \in Chunk, ok \in BOOLEAN : ReconcileStat(m, c, ok)
           \/ ReconcileVerify(m)
           \/ \E ids \in SUBSET Chunk : ReconcileInventory(m, ids)
           \/ ReconcileNext(m) \/ ReconcileEnd(m)
  <2>1. UNCHANGED <<worker, task>>
    BY <1>4 DEF ReconcileBegin, ReconcileNode, ReconcileStat, ReconcileVerify, StillAsked, ReconcileInventory,
                ReconcileNext, ReconcileEnd, tables
  <2> QED
    BY <1>1, <2>1, OtherSteps, SMTT(30)
<1> QED
  BY <1>2, <1>3, <1>4

\* A step of worker w that moves only w and at most the row of one task.
LEMMA WorkerStep ==
  ASSUME TypeOK, RemovalsHaveRows, NEW w \in Worker, NEW j, UNCHANGED maint,
         worker' = [worker EXCEPT ![w] = j],
         \A t \in Task : \/ task'[t] = task[t]
                         \/ task[t].state # "done" /\ task'[t].token = w
                         \/ task'[t].state = "done"
                         \/ task'[t].state = "pending" /\
                              (t[1] = "delete" => Rep(t[2], t[3]).state # "absent"),
         j.pc \in {"remove", "removed"} =>
           \/ worker[w].pc \in {"remove", "removed"} /\ worker[w].task = j.task /\ UNCHANGED task
           \/ replica'[<<j.task[2], j.task[3]>>].state = "deleting"
  PROVE  QueueStep /\ FenceStep
<1>1. worker \in [Worker -> WorkerState]
  BY DEF TypeOK
<1>2. QueueStep
  <2>1. ASSUME NEW c \in Chunk, NEW n \in Node, task'[DeleteOf(c, n)].state # "done"
        PROVE  task[DeleteOf(c, n)].state # "done" \/ Rep(c, n).state # "absent"
    <3>1. DeleteOf(c, n) \in Task
      BY DeleteOfTask
    <3>2. DeleteOf(c, n)[1] = "delete" /\ DeleteOf(c, n)[2] = c /\ DeleteOf(c, n)[3] = n
      BY DEF DeleteOf
    <3> QED
      BY <2>1, <3>1, <3>2
  <2> QED
    BY <2>1, FilesStay DEF QueueStep, ReadFilesHaveRows
<1>3. FenceStep
  <2> SUFFICES ASSUME NEW v \in Worker, worker'[v].pc \in {"remove", "removed"},
                      task'[worker'[v].task].token = v,
                      task'[worker'[v].task].state = "running",
                      ~task'[worker'[v].task].due
               PROVE  \/ /\ worker[v].pc \in {"remove", "removed"}
                         /\ worker[v].task = worker'[v].task /\ Fenced(v)
                      \/ replica'[<<worker'[v].task[2], worker'[v].task[3]>>].state = "deleting"
    BY DEF FenceStep
  <2>1. CASE v = w
    <3>1. worker'[v] = j
      BY <1>1, <2>1
    <3> QED
      BY <2>1, <3>1 DEF Fenced
  <2>2. CASE v # w
    <3>1. worker'[v] = worker[v]
      BY <1>1, <2>2
    <3>2. worker[v].task \in Task
      BY <3>1 DEF TypeOK, LocalsSet
    <3>3. task'[worker[v].task] = task[worker[v].task]
      BY <2>2, <3>1, <3>2
    <3> QED
      BY <3>1, <3>3 DEF Fenced
  <2> QED
    BY <2>1, <2>2
<1> QED
  BY <1>2, <1>3

LEMMA TasksSteps ==
  ASSUME TypeOK, RemovalsHaveRows, Tasks PROVE QueueStep /\ FenceStep
<1> PICK w \in Worker :
      \/ \E t \in Task : Claim(w, t)
      \/ WorkerFail(w) \/ WorkerCrash(w)
      \/ DeleteBegin(w) \/ DeleteRemoved(w) \/ DeleteCommit(w)
      \/ RepairNotNeeded(w) \/ \E n \in Node : RepairBegin(w, n)
      \/ RepairFetch(w) \/ RepairPut(w) \/ RepairStat(w) \/ RepairPublish(w)
  BY DEF Tasks
<1> DEFINE t == worker[w].task
<1>t. task \in [Task -> TaskRow] /\ worker \in [Worker -> WorkerState]
  BY DEF TypeOK
<1>j. IdleWorker.pc = "idle"
  BY DEF IdleWorker, Job
<1>1. ASSUME NEW u \in Task, Claim(w, u) PROVE QueueStep /\ FenceStep
  <2> DEFINE j == Job("claimed", u, {}, None, None)
  <2>1. worker' = [worker EXCEPT ![w] = j] /\ UNCHANGED maint
    BY <1>1 DEF Claim
  <2>2. j.pc = "claimed"
    BY DEF Job
  <2>3. \A x \in Task : task'[x] = task[x] \/ (task[x].state # "done" /\ task'[x].token = w)
    BY <1>1, <1>t DEF Claim, QueueRow
  <2> HIDE DEF j
  <2> QED
    BY <2>1, <2>2, <2>3, WorkerStep
<1>2. CASE WorkerFail(w) \/ WorkerCrash(w)
  <2>1. worker' = [worker EXCEPT ![w] = IdleWorker] /\ UNCHANGED maint
    BY <1>2 DEF WorkerFail, WorkerCrash
  <2>2. \A x \in Task : task'[x] = task[x] \/ (task[x].state # "done" /\ task'[x].token = w)
    BY <1>2, <1>t DEF WorkerFail, WorkerCrash, tables, QueueRow
  <2> QED
    BY <1>j, <2>1, <2>2, WorkerStep
<1>3. CASE DeleteBegin(w)
  <2> DEFINE c == t[2]
             n == t[3]
             j == Job("remove", t, {}, None, node[n].instance)
             row == RepRow("deleting", Rep(c, n).charged, Rep(c, n).volume)
  <2>1. worker' = [worker EXCEPT ![w] = j] /\ UNCHANGED <<maint, task>>
    BY <1>3 DEF DeleteBegin
  <2>2. c \in Chunk /\ n \in Node /\ t = DeleteOf(c, n)
    BY <1>3, WorkerNames DEF DeleteBegin, At, Task, DeleteOf
  <2>3. n \in Rows(c)
    <3>1. task[DeleteOf(c, n)].state = "running"
      BY <1>3, <2>2 DEF DeleteBegin, Fenced
    <3> QED
      BY <2>2, <3>1 DEF RemovalsHaveRows
  <2>4. replica' = [replica EXCEPT ![<<c, n>>] = row]
    BY <1>3, <2>3 DEF DeleteBegin, Rep
  <2>5. replica'[<<c, n>>].state = "deleting"
    BY <2>2, <2>4 DEF TypeOK, RepRow
  <2>6. j.task = t
    BY DEF Job
  <2> HIDE DEF j
  <2> QED
    BY <2>1, <2>5, <2>6, WorkerStep
<1>4. ASSUME NEW from, NEW to, Rpc(w, from, to),
             \/ from = "remove" /\ to = "removed"
             \/ to \in {"put", "stat", "publish"}
      PROVE  QueueStep /\ FenceStep
  <2> DEFINE j == [worker[w] EXCEPT !.pc = to]
  <2>1. worker' = [worker EXCEPT ![w] = j] /\ UNCHANGED <<maint, task>>
    BY <1>4, <1>t DEF Rpc, tables
  <2>2. worker[w].pc = from /\ j.task = t /\ j.pc = to
    BY <1>4, <1>t DEF Rpc, WorkerState
  <2> HIDE DEF j
  <2> QED
    BY <1>4, <2>1, <2>2, WorkerStep
<1>5. CASE DeleteCommit(w) \/ RepairNotNeeded(w)
  <2>1. worker' = [worker EXCEPT ![w] = IdleWorker] /\ UNCHANGED maint /\ task' = TaskDone(w)
    BY <1>5 DEF DeleteCommit, RepairNotNeeded
  <2>2. \A x \in Task : task'[x] = task[x] \/ task'[x].state = "done"
    BY <1>t, <2>1 DEF TaskDone, QueueRow
  <2> QED
    BY <1>j, <2>1, <2>2, WorkerStep
<1>6. ASSUME NEW n \in Node, RepairBegin(w, n) PROVE QueueStep /\ FenceStep
  <2> DEFINE j == Job("fetch", t, Healthy(t[2]), n, node[n].instance)
  <2>1. worker' = [worker EXCEPT ![w] = j] /\ UNCHANGED <<maint, task>>
    BY <1>6 DEF RepairBegin
  <2>2. j.pc = "fetch"
    BY DEF Job
  <2> HIDE DEF j
  <2> QED
    BY <2>1, <2>2, WorkerStep
<1>7. CASE RepairPublish(w)
  <2> DEFINE c == t[2]
             n == worker[w].target
  <2>1. worker' = [worker EXCEPT ![w] = IdleWorker] /\ UNCHANGED maint
    BY <1>7 DEF RepairPublish
  <2>2. task' = TaskDone(w) \/ task' = Enqueue(TaskDone(w), {DeleteOf(c, n)}, TRUE)
    BY <1>7 DEF RepairPublish
  <2>3. \A x \in Task : TaskDone(w)[x] = task[x] \/ TaskDone(w)[x].state = "done"
    BY <1>t DEF TaskDone, QueueRow
  <2>4. \A x \in Task : \/ task'[x] = TaskDone(w)[x]
                        \/ x = DeleteOf(c, n) /\ task'[x].state = "pending"
    <3>1. \A x \in Task : \/ Enqueue(TaskDone(w), {DeleteOf(c, n)}, TRUE)[x] = TaskDone(w)[x]
                          \/ /\ x = DeleteOf(c, n)
                             /\ Enqueue(TaskDone(w), {DeleteOf(c, n)}, TRUE)[x].state = "pending"
      BY DEF Enqueue, QueueRow
    <3> QED
      BY <2>2, <3>1
  <2>5. DeleteOf(c, n)[2] = c /\ DeleteOf(c, n)[3] = n /\ Rep(c, n).state # "absent"
    BY <1>7 DEF RepairPublish, DeleteOf
  <2>6. \A x \in Task : \/ task'[x] = task[x] \/ task'[x].state = "done"
                        \/ task'[x].state = "pending" /\ Rep(x[2], x[3]).state # "absent"
    <3> HIDE DEF c, n
    <3> QED BY <2>3, <2>4, <2>5
  <2> QED
    BY <1>j, <2>1, <2>6, WorkerStep
<1> QED
  BY <1>1, <1>2, <1>3, <1>4, <1>5, <1>6, <1>7 DEF DeleteRemoved, RepairFetch, RepairPut, RepairStat

\* The rows and the removal queue, together, are inductive.
LEMMA RowsAndQueue ==
  ASSUME TypeOK, RowInv, RemovalsHaveRows, RemovalIsFenced, [Next]_vars
  PROVE  RowInv' /\ RemovalsHaveRows' /\ RemovalIsFenced'
<1>1. RowInv'
  <2>1. CASE UNCHANGED vars
    BY <2>1, RowsStay DEF vars, tables, catalog, space
  <2> QED
    BY <2>1, RequestsRows, EnvironmentRows, TasksRows, MaintenanceRows DEF Next
<1>2. QueueStep /\ FenceStep
  <2>1. CASE UNCHANGED vars
    BY <2>1, SameTasks DEF vars, tables, threads
  <2> QED
    BY <2>1, RequestsSteps, EnvironmentSteps, TasksSteps, MaintenanceSteps DEF Next
<1>3. RowsPersist /\ DeletingPersists
  BY NextPersists
<1> QED
  BY <1>1, <1>2, <1>3, NextType, QueueInductive

-----------------------------------------------------------------------------
(***************************************************************************)
(* The counters.                                                           *)
(***************************************************************************)
ChargedAfter(n, k) == {c \in Chunk : replica'[<<c, n>>].charged = k}

LEMMA AccountingAfter ==
  ASSUME \A n \in Node : /\ reserved'[n] = Bytes(ChargedAfter(n, "reserved"))
                         /\ used'[n] = Bytes(ChargedAfter(n, "used"))
  PROVE  Accounting'
  BY DEF Accounting, ChargedTo, ChargedAfter, Rep

LEMMA ChargedNat ==
  \A n, k : /\ ChargedTo(n, k) \in SUBSET Chunk /\ ChargedAfter(n, k) \in SUBSET Chunk
            /\ Bytes(ChargedTo(n, k)) \in Nat /\ Bytes(ChargedAfter(n, k)) \in Nat
<1> TAKE n, k
<1>1. ChargedTo(n, k) \in SUBSET Chunk /\ ChargedAfter(n, k) \in SUBSET Chunk
  BY DEF ChargedTo, ChargedAfter
<1> QED
  BY <1>1, Numbers

\* A step that changes no charge and no counter.
LEMMA ChargesStay ==
  ASSUME Accounting, UNCHANGED <<reserved, used>>,
         \A c \in Chunk, n \in Node : replica'[<<c, n>>].charged = Rep(c, n).charged
  PROVE  Accounting'
<1>1. \A n \in Node, k \in Charge : ChargedAfter(n, k) = ChargedTo(n, k)
  BY DEF ChargedAfter, ChargedTo
<1>2. \A n \in Node, k \in Charge : Bytes(ChargedAfter(n, k)) = Bytes(ChargedTo(n, k))
  BY <1>1, Zenon
<1> QED
  BY <1>2, AccountingAfter DEF Accounting, Charge

LEMMA SameSpace == ASSUME Accounting, UNCHANGED space PROVE Accounting'
  BY ChargesStay DEF space, Rep

\* What a new row for (c, n) does to the bytes charged k on each node.
LEMMA OneCharge ==
  ASSUME TypeOK, NEW c \in Chunk, NEW n \in Node, NEW row, NEW k \in Charge,
         replica' = [replica EXCEPT ![<<c, n>>] = row]
  PROVE  /\ \A m \in Node : m # n => Bytes(ChargedAfter(m, k)) = Bytes(ChargedTo(m, k))
         /\ (row.charged = k <=> Rep(c, n).charged = k) =>
              Bytes(ChargedAfter(n, k)) = Bytes(ChargedTo(n, k))
         /\ row.charged = k /\ Rep(c, n).charged # k =>
              Bytes(ChargedAfter(n, k)) = Bytes(ChargedTo(n, k)) + Length(c)
         /\ row.charged # k /\ Rep(c, n).charged = k =>
              Bytes(ChargedAfter(n, k)) = Bytes(ChargedTo(n, k)) - Length(c)
<1>1. \A d \in Chunk, m \in Node :
        replica'[<<d, m>>] = IF d = c /\ m = n THEN row ELSE Rep(d, m)
  BY DEF TypeOK, Rep
<1>2. ASSUME NEW m \in Node, m # n PROVE Bytes(ChargedAfter(m, k)) = Bytes(ChargedTo(m, k))
  <2>1. ChargedAfter(m, k) = ChargedTo(m, k)
    BY <1>1, <1>2 DEF ChargedAfter, ChargedTo
  <2> QED
    BY <2>1, Zenon
<1>3. ASSUME row.charged = k <=> Rep(c, n).charged = k
      PROVE  Bytes(ChargedAfter(n, k)) = Bytes(ChargedTo(n, k))
  <2>1. ChargedAfter(n, k) = ChargedTo(n, k)
    BY <1>1, <1>3 DEF ChargedAfter, ChargedTo
  <2> QED
    BY <2>1, Zenon
<1>4. ASSUME row.charged = k, Rep(c, n).charged # k
      PROVE  Bytes(ChargedAfter(n, k)) = Bytes(ChargedTo(n, k)) + Length(c)
  <2>1. ChargedAfter(n, k) = ChargedTo(n, k) \cup {c} /\ c \notin ChargedTo(n, k)
    BY <1>1, <1>4 DEF ChargedAfter, ChargedTo
  <2>2. Bytes(ChargedTo(n, k) \cup {c}) = Bytes(ChargedTo(n, k)) + Length(c)
    BY <2>1, ChargedNat, BytesAdd
  <2> QED
    BY <2>1, <2>2, Zenon
<1>5. ASSUME row.charged # k, Rep(c, n).charged = k
      PROVE  Bytes(ChargedAfter(n, k)) = Bytes(ChargedTo(n, k)) - Length(c)
  <2>1. ChargedAfter(n, k) = ChargedTo(n, k) \ {c} /\ c \in ChargedTo(n, k)
    BY <1>1, <1>5 DEF ChargedAfter, ChargedTo
  <2>2. Bytes(ChargedTo(n, k) \ {c}) = Bytes(ChargedTo(n, k)) - Length(c)
    BY <2>1, ChargedNat, BytesRemove
  <2> QED
    BY <2>1, <2>2, Zenon
<1> QED
  BY <1>2, <1>3, <1>4, <1>5

\* One row changes and the counters of its node follow its charge.
LEMMA OneRowAccounted ==
  ASSUME TypeOK, Accounting, NEW c \in Chunk, NEW n \in Node, NEW row,
         replica' = [replica EXCEPT ![<<c, n>>] = row],
         \A m \in Node : m # n => reserved'[m] = reserved[m] /\ used'[m] = used[m],
         reserved'[n] = reserved[n] + (IF row.charged = "reserved" THEN Length(c) ELSE 0)
                                    - (IF Rep(c, n).charged = "reserved" THEN Length(c) ELSE 0),
         used'[n] = used[n] + (IF row.charged = "used" THEN Length(c) ELSE 0)
                            - (IF Rep(c, n).charged = "used" THEN Length(c) ELSE 0)
  PROVE  Accounting'
<1>1. Length(c) \in Nat
  BY Numbers
<1>2. /\ reserved[n] = Bytes(ChargedTo(n, "reserved")) /\ used[n] = Bytes(ChargedTo(n, "used"))
      /\ reserved[n] \in Nat /\ used[n] \in Nat
  BY ChargedNat DEF Accounting
<1>3. \A m \in Node : reserved'[m] = Bytes(ChargedAfter(m, "reserved"))
  <2>1. /\ \A m \in Node : m # n => Bytes(ChargedAfter(m, "reserved")) = Bytes(ChargedTo(m, "reserved"))
        /\ (row.charged = "reserved" <=> Rep(c, n).charged = "reserved") =>
             Bytes(ChargedAfter(n, "reserved")) = Bytes(ChargedTo(n, "reserved"))
        /\ row.charged = "reserved" /\ Rep(c, n).charged # "reserved" =>
             Bytes(ChargedAfter(n, "reserved")) = Bytes(ChargedTo(n, "reserved")) + Length(c)
        /\ row.charged # "reserved" /\ Rep(c, n).charged = "reserved" =>
             Bytes(ChargedAfter(n, "reserved")) = Bytes(ChargedTo(n, "reserved")) - Length(c)
    BY OneCharge, Zenon DEF Charge
  <2>2. reserved'[n] = Bytes(ChargedAfter(n, "reserved"))
    BY <1>1, <1>2, <2>1
  <2>3. \A m \in Node : m # n => reserved'[m] = Bytes(ChargedAfter(m, "reserved"))
    BY <2>1 DEF Accounting
  <2> QED
    BY <2>2, <2>3
<1>4. \A m \in Node : used'[m] = Bytes(ChargedAfter(m, "used"))
  <2>1. /\ \A m \in Node : m # n => Bytes(ChargedAfter(m, "used")) = Bytes(ChargedTo(m, "used"))
        /\ (row.charged = "used" <=> Rep(c, n).charged = "used") =>
             Bytes(ChargedAfter(n, "used")) = Bytes(ChargedTo(n, "used"))
        /\ row.charged = "used" /\ Rep(c, n).charged # "used" =>
             Bytes(ChargedAfter(n, "used")) = Bytes(ChargedTo(n, "used")) + Length(c)
        /\ row.charged # "used" /\ Rep(c, n).charged = "used" =>
             Bytes(ChargedAfter(n, "used")) = Bytes(ChargedTo(n, "used")) - Length(c)
    BY OneCharge, Zenon DEF Charge
  <2>2. used'[n] = Bytes(ChargedAfter(n, "used"))
    BY <1>1, <1>2, <2>1
  <2>3. \A m \in Node : m # n => used'[m] = Bytes(ChargedAfter(m, "used"))
    BY <2>1 DEF Accounting
  <2> QED
    BY <2>2, <2>3
<1> QED
  BY <1>3, <1>4, AccountingAfter

\* uncharge is what a row that loses its charge needs.
LEMMA UnchargeAccounted ==
  ASSUME TypeOK, Accounting, NEW c \in Chunk, NEW n \in Node, NEW row, row.charged = "none",
         replica' = [replica EXCEPT ![<<c, n>>] = row], Uncharge(c, n)
  PROVE  Accounting'
<1>1. reserved \in [Node -> Int] /\ used \in [Node -> Int] /\ Length(c) \in Nat
  BY Numbers DEF TypeOK
<1>2. \A m \in Node : m # n => reserved'[m] = reserved[m] /\ used'[m] = used[m]
  BY <1>1 DEF Uncharge
<1>3. reserved'[n] = reserved[n] + 0 - (IF Rep(c, n).charged = "reserved" THEN Length(c) ELSE 0)
  BY <1>1 DEF Uncharge
<1>4. used'[n] = used[n] + 0 - (IF Rep(c, n).charged = "used" THEN Length(c) ELSE 0)
  BY <1>1 DEF Uncharge
<1> QED
  BY <1>2, <1>3, <1>4, OneRowAccounted

\* A row is rewritten with the charge it has.
LEMMA ChargeKept ==
  ASSUME TypeOK, Accounting, NEW c \in Chunk, NEW n \in Node, NEW row,
         row.charged = Rep(c, n).charged,
         replica' = [replica EXCEPT ![<<c, n>>] = row], UNCHANGED <<reserved, used>>
  PROVE  Accounting'
  BY ChargesStay DEF TypeOK, Rep

\* retire gives back exactly the reservations of the uploads it ends.
LEMMA RetireAccounted ==
  ASSUME TypeOK, Accounting, NEW S, NEW end, Retire(S, end) PROVE Accounting'
<1>1. \A c \in Chunk, n \in Node :
        replica'[<<c, n>>].charged = IF c[1] \in S /\ Rep(c, n).charged = "reserved"
                                     THEN "none" ELSE Rep(c, n).charged
  BY DEF Retire, RetiredRow, RepRow, Rep
<1>2. ASSUME NEW n \in Node PROVE reserved'[n] = Bytes(ChargedAfter(n, "reserved"))
  <2> DEFINE A == ChargedTo(n, "reserved")
             R == {c \in Chunk : c[1] \in S /\ Rep(c, n).charged = "reserved"}
             B == ChargedAfter(n, "reserved")
  <2>1. A = B \cup R /\ B \cap R = {} /\ B \in SUBSET Chunk /\ R \in SUBSET Chunk
    BY <1>1 DEF ChargedTo, ChargedAfter
  <2>2. reserved'[n] = reserved[n] - Bytes(R)
    BY DEF Retire
  <2>3. reserved[n] = Bytes(A)
    BY DEF Accounting
  <2> HIDE DEF A, B, R
  <2>4. Bytes(B \cup R) = Bytes(B) + Bytes(R)
    BY <2>1, BytesUnion
  <2>5. Bytes(A) = Bytes(B \cup R)
    BY <2>1, Zenon
  <2>6. Bytes(B) \in Nat /\ Bytes(R) \in Nat
    BY <2>1, Numbers
  <2>7. reserved'[n] = Bytes(B)
    BY <2>2, <2>3, <2>4, <2>5, <2>6
  <2> QED
    BY <2>7 DEF B
<1>3. ASSUME NEW n \in Node PROVE used'[n] = Bytes(ChargedAfter(n, "used"))
  <2>1. ChargedAfter(n, "used") = ChargedTo(n, "used")
    BY <1>1 DEF ChargedAfter, ChargedTo
  <2>2. Bytes(ChargedAfter(n, "used")) = Bytes(ChargedTo(n, "used"))
    BY <2>1, Zenon
  <2> QED
    BY <2>2 DEF Accounting, Retire
<1> QED
  BY <1>2, <1>3, AccountingAfter

LEMMA RequestsAccounted == ASSUME TypeOK, RowInv, Accounting, Requests PROVE Accounting'
<1>1. ASSUME NEW o \in Object, InitUpload(o) PROVE Accounting'
  <2>1. PICK place \in [Chunks(o) -> {S \in SUBSET Node : Cardinality(S) = Replicas}] :
          /\ replica' = [r \in Chunk \X Node |->
                           IF r[1][1] = o /\ r[2] \in place[r[1]] THEN NewRow(r[2]) ELSE replica[r]]
          /\ reserved' = [n \in Node |-> reserved[n] + Bytes({c \in Chunks(o) : n \in place[c]})]
    BY <1>1 DEF InitUpload
  <2>2. used' = used /\ object[o] = "absent"
    BY <1>1 DEF InitUpload
  <2>3. \A c \in Chunk : c \in Chunks(o) <=> c[1] = o
    BY DEF Chunk, Chunks
  <2>4. ASSUME NEW c \in Chunk, NEW n \in Node
        PROVE  /\ c \in Chunks(o) /\ n \in place[c] =>
                    Rep(c, n).charged = "none" /\ replica'[<<c, n>>].charged = "reserved"
               /\ ~(c \in Chunks(o) /\ n \in place[c]) => replica'[<<c, n>>] = Rep(c, n)
    <3>1. RowOK(object[c[1]], Rep(c, n), node[n])
      BY DEF RowInv
    <3> QED
      BY <2>1, <2>2, <2>3, <3>1 DEF RowOK, Rep, NewRow, RepRow
  <2>5. ASSUME NEW n \in Node PROVE reserved'[n] = Bytes(ChargedAfter(n, "reserved"))
    <3> DEFINE A == ChargedTo(n, "reserved")
               R == {c \in Chunks(o) : n \in place[c]}
    <3>1. R \in SUBSET Chunk
      BY DEF Chunk
    <3>2. ChargedAfter(n, "reserved") = A \cup R /\ A \cap R = {} /\ A \in SUBSET Chunk
      BY <2>4, <3>1 DEF ChargedTo, ChargedAfter
    <3>3. reserved'[n] = reserved[n] + Bytes(R) /\ reserved[n] = Bytes(A)
      BY <2>1 DEF Accounting
    <3> HIDE DEF A, R
    <3>4. Bytes(A \cup R) = Bytes(A) + Bytes(R)
      BY <3>1, <3>2, BytesUnion
    <3>5. Bytes(ChargedAfter(n, "reserved")) = Bytes(A \cup R)
      BY <3>2, Zenon
    <3> QED
      BY <3>3, <3>4, <3>5
  <2>6. ASSUME NEW n \in Node PROVE used'[n] = Bytes(ChargedAfter(n, "used"))
    <3>1. ChargedAfter(n, "used") = ChargedTo(n, "used")
      BY <2>4 DEF ChargedAfter, ChargedTo
    <3>2. Bytes(ChargedAfter(n, "used")) = Bytes(ChargedTo(n, "used"))
      BY <3>1, Zenon
    <3> QED
      BY <2>2, <3>2 DEF Accounting
  <2> QED
    BY <2>5, <2>6, AccountingAfter
<1>2. ASSUME NEW o \in Object, Complete(o) PROVE Accounting'
  BY <1>2, SameSpace DEF Complete
<1>3. ASSUME NEW o \in Object, Cancel(o) \/ Delete(o) PROVE Accounting'
  BY <1>3, RetireAccounted DEF Cancel, Delete
<1>4. ASSUME NEW c \in Chunk, NEW s \in Sha, Prepare(c, s) PROVE Accounting'
  BY <1>4, SameSpace DEF Prepare
<1>5. ASSUME NEW c \in Chunk, NEW n \in Node, BadReplica(c, n) PROVE Accounting'
  <2> DEFINE row == RepRow("bad", Rep(c, n).charged, Rep(c, n).volume)
  <2>1. UNCHANGED <<reserved, used>> /\ (UNCHANGED replica \/ replica' = [replica EXCEPT ![<<c, n>>] = row])
    BY <1>5 DEF BadReplica, Rep
  <2>2. row.charged = Rep(c, n).charged
    BY DEF RepRow
  <2> HIDE DEF row
  <2> QED
    BY <2>1, <2>2, ChargeKept, SameSpace DEF space
<1>6. ASSUME NEW h \in Confirmer, ConfirmCommit(h) PROVE Accounting'
  <2> DEFINE d == confirm[h].chunk
             counted == {n \in Node : confirm[h].at[n] # None /\ Rep(d, n).state = "reserved"}
  <2>1. d \in Chunk
    BY <1>6 DEF ConfirmCommit, TypeOK, ConfirmState
  <2>2. /\ replica' = [r \in Chunk \X Node |-> IF r[1] = d /\ r[2] \in counted
                                               THEN RepRow("valid", "used", replica[r].volume)
                                               ELSE replica[r]]
        /\ reserved' = [n \in Node |-> IF n \in counted THEN reserved[n] - Length(d) ELSE reserved[n]]
        /\ used' = [n \in Node |-> IF n \in counted THEN used[n] + Length(d) ELSE used[n]]
    BY <1>6 DEF ConfirmCommit, Counted
  <2>3. \A n \in counted : Rep(d, n).charged = "reserved"
    BY <2>1 DEF RowInv, RowOK
  <2>4. \A c \in Chunk, n \in Node :
          replica'[<<c, n>>].charged = IF c = d /\ n \in counted THEN "used" ELSE Rep(c, n).charged
    BY <2>2 DEF Rep, RepRow
  <2> HIDE DEF d, counted
  <2>5. ASSUME NEW n \in Node
        PROVE  reserved'[n] = Bytes(ChargedAfter(n, "reserved")) /\ used'[n] = Bytes(ChargedAfter(n, "used"))
    <3>1. /\ reserved[n] = Bytes(ChargedTo(n, "reserved"))
          /\ used[n] = Bytes(ChargedTo(n, "used"))
      BY DEF Accounting
    <3>2. CASE n \in counted
      <4>1. ChargedAfter(n, "reserved") = ChargedTo(n, "reserved") \ {d} /\ d \in ChargedTo(n, "reserved")
        BY <2>1, <2>3, <2>4, <3>2 DEF ChargedAfter, ChargedTo
      <4>2. ChargedAfter(n, "used") = ChargedTo(n, "used") \cup {d} /\ d \notin ChargedTo(n, "used")
        BY <2>1, <2>3, <2>4, <3>2 DEF ChargedAfter, ChargedTo
      <4>3. Bytes(ChargedTo(n, "reserved") \ {d}) = Bytes(ChargedTo(n, "reserved")) - Length(d)
        BY <4>1, ChargedNat, BytesRemove
      <4>4. Bytes(ChargedTo(n, "used") \cup {d}) = Bytes(ChargedTo(n, "used")) + Length(d)
        BY <2>1, <4>2, ChargedNat, BytesAdd
      <4>5. reserved'[n] = reserved[n] - Length(d) /\ used'[n] = used[n] + Length(d)
        BY <2>2, <3>2
      <4> QED
        BY <3>1, <4>1, <4>2, <4>3, <4>4, <4>5, Zenon
    <3>3. CASE n \notin counted
      <4>1. ChargedAfter(n, "reserved") = ChargedTo(n, "reserved")
        BY <2>4, <3>3 DEF ChargedAfter, ChargedTo
      <4>2. ChargedAfter(n, "used") = ChargedTo(n, "used")
        BY <2>4, <3>3 DEF ChargedAfter, ChargedTo
      <4>3. reserved'[n] = reserved[n] /\ used'[n] = used[n]
        BY <2>2, <3>3
      <4> QED
        BY <3>1, <4>1, <4>2, <4>3, Zenon
    <3> QED
      BY <3>2, <3>3
  <2> QED
    BY <2>5, AccountingAfter
<1>7. ASSUME NEW h \in Confirmer, ConfirmAbort(h) \/ (\E c \in Chunk : ConfirmBegin(h, c))
                                                  \/ (\E n \in Node : ConfirmStat(h, n))
      PROVE  Accounting'
  BY <1>7, SameSpace DEF ConfirmAbort, ConfirmBegin, ConfirmStat, tables
<1> QED
  BY <1>1, <1>2, <1>3, <1>4, <1>5, <1>6, <1>7 DEF Requests

LEMMA EnvironmentAccounted == ASSUME TypeOK, Accounting, Environment PROVE Accounting'
<1>1. ASSUME NEW n \in Node, NEW i \in Processes[n], NEW free \in FreeReports, Heartbeat(n, i, free)
      PROVE  Accounting'
  <2>1. \A row, v : RowAfterChange(row, v).charged = row.charged
    BY DEF RowAfterChange, RepRow
  <2>2. \A c \in Chunk, m \in Node : replica'[<<c, m>>].charged = Rep(c, m).charged
    BY <1>1, <2>1 DEF Heartbeat, Rep
  <2> QED
    BY <1>1, <2>2, ChargesStay DEF Heartbeat
<1>2. CASE (\E n \in Node : Age(n)) \/ (\E o \in Object : Lapse(o)) \/ (\E t \in Task : TaskDue(t))
  BY <1>2, SameSpace DEF Age, Lapse, TaskDue
<1> QED
  BY <1>1, <1>2 DEF Environment

LEMMA TasksAccounted == ASSUME TypeOK, RowInv, Accounting, Tasks PROVE Accounting'
<1> PICK w \in Worker :
      \/ \E t \in Task : Claim(w, t)
      \/ WorkerFail(w) \/ WorkerCrash(w)
      \/ DeleteBegin(w) \/ DeleteRemoved(w) \/ DeleteCommit(w)
      \/ RepairNotNeeded(w) \/ \E n \in Node : RepairBegin(w, n)
      \/ RepairFetch(w) \/ RepairPut(w) \/ RepairStat(w) \/ RepairPublish(w)
  BY DEF Tasks
<1> DEFINE c == worker[w].task[2]
<1>t. reserved \in [Node -> Int] /\ used \in [Node -> Int]
  BY DEF TypeOK
<1>1. CASE \/ \E t \in Task : Claim(w, t)
           \/ WorkerFail(w) \/ WorkerCrash(w) \/ DeleteRemoved(w) \/ RepairNotNeeded(w)
           \/ RepairFetch(w) \/ RepairPut(w) \/ RepairStat(w)
  <2>1. UNCHANGED space
    BY <1>1 DEF Claim, WorkerFail, WorkerCrash, DeleteRemoved, RepairNotNeeded, RepairFetch,
                RepairPut, RepairStat, Rpc, tables
  <2> QED
    BY <2>1, SameSpace
<1>2. CASE DeleteBegin(w)
  <2> DEFINE n == worker[w].task[3]
             row == RepRow("deleting", Rep(c, n).charged, Rep(c, n).volume)
  <2>1. c \in Chunk /\ n \in Node
    BY <1>2, WorkerNames DEF DeleteBegin, At
  <2>2. UNCHANGED <<reserved, used>> /\ (UNCHANGED replica \/ replica' = [replica EXCEPT ![<<c, n>>] = row])
    BY <1>2 DEF DeleteBegin, Rep
  <2>3. row.charged = Rep(c, n).charged
    BY DEF RepRow
  <2> HIDE DEF row, c, n
  <2> QED
    BY <2>1, <2>2, <2>3, ChargeKept, SameSpace DEF space
<1>3. CASE DeleteCommit(w)
  <2> DEFINE n == worker[w].task[3]
             row == RepRow(IF Rep(c, n).state = "deleting" THEN "gone" ELSE Rep(c, n).state,
                           "none", Rep(c, n).volume)
  <2>1. c \in Chunk /\ n \in Node
    BY <1>3, WorkerNames DEF DeleteCommit, At
  <2>2. Uncharge(c, n) /\ replica' = [replica EXCEPT ![<<c, n>>] = row]
    BY <1>3 DEF DeleteCommit, Rep
  <2>3. row.charged = "none"
    BY DEF RepRow
  <2> HIDE DEF row, c, n
  <2> QED
    BY <2>1, <2>2, <2>3, UnchargeAccounted
<1>4. CASE \E n \in Node : RepairBegin(w, n)
  <2>1. PICK n \in Node : RepairBegin(w, n)
    BY <1>4
  <2>2. c \in Chunk /\ Length(c) \in Nat
    BY <2>1, WorkerNames, Numbers DEF RepairBegin, At
  <2>3. \/ UNCHANGED space
        \/ /\ n \in NewTargets(c)
           /\ replica' = [replica EXCEPT ![<<c, n>>] = NewRow(n)]
           /\ reserved' = [reserved EXCEPT ![n] = @ + Length(c)] /\ used' = used
    BY <2>1 DEF RepairBegin, space
  <2>4. CASE UNCHANGED space
    BY <2>4, SameSpace
  <2>5. CASE /\ n \in NewTargets(c)
             /\ replica' = [replica EXCEPT ![<<c, n>>] = NewRow(n)]
             /\ reserved' = [reserved EXCEPT ![n] = @ + Length(c)] /\ used' = used
    <3>1. Rep(c, n).state \in {"absent", "gone"}
      BY <2>5 DEF NewTargets, Reserve, Rows
    <3>2. Rep(c, n).charged = "none"
      BY <2>2, <3>1 DEF RowInv, RowOK
    <3>3. NewRow(n).charged = "reserved"
      BY DEF NewRow, RepRow
    <3> HIDE DEF c
    <3>4. reserved'[n] = reserved[n] + Length(c) - 0 /\ used'[n] = used[n] + 0 - 0
      BY <1>t, <2>2, <2>5
    <3>5. \A m \in Node : m # n => reserved'[m] = reserved[m] /\ used'[m] = used[m]
      BY <1>t, <2>5
    <3> QED
      BY <2>2, <2>5, <3>2, <3>3, <3>4, <3>5, OneRowAccounted
  <2> QED
    BY <2>3, <2>4, <2>5
<1>5. CASE RepairPublish(w)
  <2> DEFINE n == worker[w].target
             bad == RepRow("bad", "none", Rep(c, n).volume)
             valid == RepRow("valid", "used", Rep(c, n).volume)
  <2>1. c \in Chunk /\ n \in Node /\ Length(c) \in Nat
    BY <1>5, WorkerNames, Numbers DEF RepairPublish, At
  <2>2. /\ Rep(c, n).charged = "reserved"
        /\ \/ Uncharge(c, n) /\ replica' = [replica EXCEPT ![<<c, n>>] = bad]
           \/ /\ reserved' = [reserved EXCEPT ![n] = @ - Length(c)]
              /\ used' = [used EXCEPT ![n] = @ + Length(c)]
              /\ replica' = [replica EXCEPT ![<<c, n>>] = valid]
    BY <1>5 DEF RepairPublish, Rep
  <2>3. bad.charged = "none" /\ valid.charged = "used"
    BY DEF RepRow
  <2> HIDE DEF bad, valid, c, n
  <2>4. CASE Uncharge(c, n) /\ replica' = [replica EXCEPT ![<<c, n>>] = bad]
    BY <2>1, <2>3, <2>4, UnchargeAccounted
  <2>5. CASE /\ reserved' = [reserved EXCEPT ![n] = @ - Length(c)]
             /\ used' = [used EXCEPT ![n] = @ + Length(c)]
             /\ replica' = [replica EXCEPT ![<<c, n>>] = valid]
    <3>1. /\ reserved'[n] = reserved[n] + (IF valid.charged = "reserved" THEN Length(c) ELSE 0)
                             - (IF Rep(c, n).charged = "reserved" THEN Length(c) ELSE 0)
          /\ used'[n] = used[n] + (IF valid.charged = "used" THEN Length(c) ELSE 0)
                     - (IF Rep(c, n).charged = "used" THEN Length(c) ELSE 0)
      BY <1>t, <2>1, <2>2, <2>3, <2>5
    <3>2. \A m \in Node : m # n => reserved'[m] = reserved[m] /\ used'[m] = used[m]
      BY <1>t, <2>5
    <3> QED
      BY <2>1, <2>5, <3>1, <3>2, OneRowAccounted
  <2> QED
    BY <2>2, <2>4, <2>5
<1> QED
  BY <1>1, <1>2, <1>3, <1>4, <1>5

LEMMA MaintenanceAccounted == ASSUME TypeOK, Accounting, Maintenance PROVE Accounting'
<1> PICK m \in Maintainer :
      \/ Maintain(m) \/ ReconcileBegin(m)
      \/ \E n \in Node : ReconcileNode(m, n)
      \/ \E c \in Chunk, ok \in BOOLEAN : ReconcileStat(m, c, ok)
      \/ ReconcileVerify(m)
      \/ \E ids \in SUBSET Chunk : ReconcileInventory(m, ids)
      \/ \E c \in Chunk : ReconcileFile(m, c)
      \/ ReconcileNext(m) \/ ReconcileEnd(m)
  BY DEF Maintenance
<1>1. CASE Maintain(m)
  BY <1>1, RetireAccounted DEF Maintain
<1>2. CASE ReconcileVerify(m)
  <2> DEFINE c == maint[m].chunk
             n == maint[m].node
  <2>1. c \in Chunk /\ n \in Node
    BY <1>2, MaintNames DEF ReconcileVerify, StillAsked
  <2>2. \/ UNCHANGED space
        \/ \E row : /\ replica' = [replica EXCEPT ![<<c, n>>] = row]
                    /\ \/ row.charged = "none" /\ Uncharge(c, n)
                       \/ row.charged = Rep(c, n).charged /\ UNCHANGED <<reserved, used>>
    BY <1>2 DEF ReconcileVerify, StillAsked, RepRow
  <2> HIDE DEF c, n
  <2> QED
    BY <2>1, <2>2, SameSpace, UnchargeAccounted, ChargeKept
<1>3. CASE \/ ReconcileBegin(m)
           \/ \E n \in Node : ReconcileNode(m, n)
           \/ \E c \in Chunk, ok \in BOOLEAN : ReconcileStat(m, c, ok)
           \/ \E ids \in SUBSET Chunk : ReconcileInventory(m, ids)
           \/ \E c \in Chunk : ReconcileFile(m, c)
           \/ ReconcileNext(m) \/ ReconcileEnd(m)
  <2>1. UNCHANGED space
    BY <1>3 DEF ReconcileBegin, ReconcileNode, ReconcileStat, ReconcileInventory, ReconcileFile,
                ReconcileNext, ReconcileEnd, tables
  <2> QED
    BY <2>1, SameSpace
<1> QED
  BY <1>1, <1>2, <1>3

-----------------------------------------------------------------------------
LEMMA SpaceInit == ASSUME Init PROVE SpaceInv
<1>1. TypeOK
  BY InitType
<1>2. \A c \in Chunk, n \in Node : Rep(c, n) = NoRow
  BY DEF Init, Rep
<1>3. RowInv
  <2>1. \A c \in Chunk, n \in Node : RowOK(object[c[1]], Rep(c, n), node[n])
    BY <1>2, ChunkObject DEF Init, RowOK, NoRow, RepRow
  <2> QED
    BY <2>1 DEF Init, RowInv, NodeOK
<1>4. Accounting
  <2>1. ASSUME NEW n \in Node, NEW k \in {"reserved", "used"} PROVE Bytes(ChargedTo(n, k)) = 0
    <3>1. ChargedTo(n, k) = {}
      BY <1>2 DEF ChargedTo, NoRow, RepRow
    <3> QED
      BY <3>1, BytesEmpty, Zenon
  <2> QED
    BY <2>1 DEF Accounting, Init
<1>5. RemovalIsFenced /\ RemovalsHaveRows
  BY DeleteOfTask DEF Init, RemovalIsFenced, RemovalsHaveRows, IdleWorker, Job, IdleMaint, Pass, QueueRow
<1> QED
  BY <1>1, <1>3, <1>4, <1>5, RowInvParts DEF SpaceInv

LEMMA SpaceNext == ASSUME SpaceInv, [Next]_vars PROVE SpaceInv'
<1>1. /\ TypeOK /\ RowInv /\ Accounting /\ RemovalIsFenced /\ RemovalsHaveRows
  BY RowInvParts DEF SpaceInv
<1>2. TypeOK' /\ RowInv' /\ RemovalsHaveRows' /\ RemovalIsFenced'
  BY <1>1, NextType, RowsAndQueue
<1>3. Accounting'
  <2>1. CASE UNCHANGED vars
    BY <1>1, <2>1, SameSpace DEF vars, tables
  <2> QED
    BY <1>1, <2>1, RequestsAccounted, EnvironmentAccounted, TasksAccounted, MaintenanceAccounted DEF Next
<1>4. (ReservationsWait /\ DeletedRowsStayDown /\ OnCurrentVolume /\ RowsAndNodes)'
  BY <1>2 DEF RowInv, RowOK, NodeOK, ReservationsWait, DeletedRowsStayDown, OnCurrentVolume,
              RowsAndNodes, Fresh, Rep
<1> QED
  BY <1>2, <1>3, <1>4 DEF SpaceInv

\* The inductive invariant holds in every behaviour of FileService.
THEOREM SpaceIsInvariant == Spec => []SpaceInv
<1>1. Init => SpaceInv
  BY SpaceInit
<1>2. SpaceInv /\ [Next]_vars => SpaceInv'
  BY SpaceNext
<1> QED
  BY <1>1, <1>2, PTL DEF Spec

\* ds_nodes.reserved and used_bytes are always exactly the bytes of the rows
\* charged to the node, for any interleaving of requests, tasks, heartbeats,
\* restarts, expiry and reconciliation.
THEOREM AccountingHolds == Spec => []Accounting
<1>1. SpaceInv => Accounting
  BY DEF SpaceInv
<1> QED
  BY <1>1, SpaceIsInvariant, PTL

\* A reservation is held exactly while its row waits for data.
THEOREM ReservationsHold == Spec => []ReservationsWait
<1>1. SpaceInv => ReservationsWait
  BY DEF SpaceInv
<1> QED
  BY <1>1, SpaceIsInvariant, PTL

\* No replica row of a deleted object ever comes back.
THEOREM DeletedStaysDown == Spec => []DeletedRowsStayDown
<1>1. SpaceInv => DeletedRowsStayDown
  BY DEF SpaceInv
<1> QED
  BY <1>1, SpaceIsInvariant, PTL

\* Readers and writers are only sent to rows on the node's current volume.
THEOREM CurrentVolumeHolds == Spec => []OnCurrentVolume
<1>1. SpaceInv => OnCurrentVolume
  BY DEF SpaceInv
<1> QED
  BY <1>1, SpaceIsInvariant, PTL

\* A removal whose claim passes the fence only ever removes a row out of use.
THEOREM RemovalsAreFenced == Spec => []RemovalIsFenced
<1>1. SpaceInv => RemovalIsFenced
  BY DEF SpaceInv
<1> QED
  BY <1>1, SpaceIsInvariant, PTL

-----------------------------------------------------------------------------
(***************************************************************************)
(* reserve and repair_task.                                                *)
(***************************************************************************)

\* A set of chunks has one with the greatest seq.
LEMMA LastChunk ==
  ASSUME NEW S \in SUBSET Chunk, S # {}
  PROVE  \E c \in S : \A d \in S : d[2] <= c[2]
<1> DEFINE After(c) == {d \in S : d[2] > c[2]}
           T == {After(c) : c \in S}
<1>1. \A c \in S : c[2] \in Int
  BY DEF Chunk, Chunks
<1>2. IsFiniteSet(S)
  BY ChunkFinite, FS_Subset
<1>3. T \subseteq FiniteSubsetsOf(S) /\ T # {}
  <2>1. \A c \in S : After(c) \in SUBSET S /\ IsFiniteSet(After(c))
    BY <1>2, FS_Subset
  <2>q. QED BY <2>1 DEF FiniteSubsetsOf
<1>4. PICK A \in T : \A B \in T : ~ (<<B, A>> \in StrictSubsetOrdering(S))
  BY <1>3, FS_StrictSubsetOrderingWellFounded, WFMin
<1>5. PICK c \in S : A = After(c)
  OBVIOUS
<1>6. ASSUME NEW d \in S, d[2] > c[2]
      PROVE  FALSE
  <2>1. After(d) \subseteq A /\ d \in A /\ d \notin After(d)
    BY <1>1, <1>5, <1>6
  <2>2. <<After(d), A>> \in StrictSubsetOrdering(S)
    BY <1>5, <2>1 DEF StrictSubsetOrdering
  <2>q. QED BY <1>4, <2>2
<1>q. QED BY <1>1, <1>6

\* init places every chunk where it still fits, after those before it.
LEMMA PlacementFits ==
  ASSUME TypeOK, NoOvercommit, NEW o \in Object, NEW n \in Node,
         NEW place \in [Chunks(o) -> SUBSET Node], IsPlacement(o, place)
  PROVE  reserved[n] + Bytes({c \in Chunks(o) : n \in place[c]}) + used[n] <= Capacity
<1> DEFINE R == {c \in Chunks(o) : n \in place[c]}
<1>1. R \in SUBSET Chunk /\ reserved[n] \in Int /\ used[n] \in Int
  BY DEF Chunk, TypeOK
<1>2. CASE R = {}
  <2>1. Bytes(R) = 0
    BY <1>2, BytesEmpty, Zenon
  <2>q. QED BY <1>1, <2>1 DEF NoOvercommit
<1>3. CASE R # {}
  <2>1. PICK c \in R : \A d \in R : d[2] <= c[2]
    BY <1>1, <1>3, LastChunk
  <2> DEFINE E == {d \in Chunks(o) : d[2] < c[2] /\ n \in place[d]}
             held == [m \in Node |-> Earlier(o, c, m, place)]
  <2>2. c \in Chunks(o) /\ n \in place[c]
    OBVIOUS
  <2>3. \A d \in R : d \in E \/ d = c
    BY <2>1 DEF Chunks
  <2>4. R = E \cup {c} /\ c \notin E /\ E \in SUBSET Chunk /\ c \in Chunk
    BY <1>1, <2>2, <2>3 DEF Chunks
  <2>5. Bytes(E \cup {c}) = Bytes(E) + Length(c)
    BY <2>4, BytesAdd
  <2>6. held[n] = Bytes(E)
    BY DEF Earlier
  <2>7. n \in Reserve(Length(c), Replicas, {}, held)
    BY <2>2 DEF IsPlacement
  <2>8. HasRoom(n, held, Length(c))
    BY <2>7 DEF Reserve
  <2>9. Bytes(R) = Bytes(E \cup {c}) /\ Bytes(E) \in Nat /\ Length(c) \in Nat
    BY <2>4, Numbers, Zenon
  <2> HIDE DEF held, E, R
  <2>q. QED BY <1>1, <2>5, <2>6, <2>8, <2>9, NodesAssumption DEF HasRoom, Load, R
<1>q. QED BY <1>2, <1>3

\* A step that gives no node more.
LEMMA NotMore ==
  ASSUME TypeOK, TypeOK', NoOvercommit,
         \A n \in Node : reserved'[n] + used'[n] <= reserved[n] + used[n]
  PROVE  NoOvercommit'
  BY NodesAssumption DEF TypeOK, NoOvercommit

\* uncharge only gives back.
LEMMA UnchargeNotMore ==
  ASSUME TypeOK, NEW c \in Chunk, NEW n \in Node, Uncharge(c, n)
  PROVE  \A m \in Node : reserved'[m] + used'[m] <= reserved[m] + used[m]
<1>1. Length(c) \in Nat /\ reserved \in [Node -> Int] /\ used \in [Node -> Int]
  BY Numbers DEF TypeOK
<1>2. CASE Rep(c, n).charged = "reserved"
  BY <1>1, <1>2 DEF Uncharge
<1>3. CASE Rep(c, n).charged # "reserved"
  BY <1>1, <1>3 DEF Uncharge
<1>q. QED BY <1>2, <1>3

\* retire only gives back.
LEMMA RetireNotMore ==
  ASSUME TypeOK, NEW S, NEW end, Retire(S, end)
  PROVE  \A n \in Node : reserved'[n] + used'[n] <= reserved[n] + used[n]
<1>1. ASSUME NEW n \in Node PROVE reserved'[n] + used'[n] <= reserved[n] + used[n]
  <2> DEFINE R == {c \in Chunk : c[1] \in S /\ Rep(c, n).charged = "reserved"}
  <2>1. R \in SUBSET Chunk
    OBVIOUS
  <2>2. Bytes(R) \in Nat
    BY <2>1, Numbers
  <2>3. reserved'[n] = reserved[n] - Bytes(R) /\ used'[n] = used[n]
    BY DEF Retire
  <2> HIDE DEF R
  <2>q. QED BY <2>2, <2>3 DEF TypeOK
<1>q. QED BY <1>1

\* A step that moves no bytes.
LEMMA SameBytes ==
  ASSUME TypeOK, UNCHANGED <<reserved, used>>
  PROVE  \A n \in Node : reserved'[n] + used'[n] <= reserved[n] + used[n]
  BY DEF TypeOK

\* Only init asks for space; confirm moves what is reserved to what is used.
LEMMA RequestsFit == ASSUME TypeOK, TypeOK', NoOvercommit, Requests PROVE NoOvercommit'
<1>1. ASSUME NEW o \in Object, InitUpload(o) PROVE NoOvercommit'
  <2>1. PICK place \in [Chunks(o) -> {S \in SUBSET Node : Cardinality(S) = Replicas}] :
          /\ IsPlacement(o, place)
          /\ reserved' = [n \in Node |-> reserved[n] + Bytes({c \in Chunks(o) : n \in place[c]})]
    BY <1>1 DEF InitUpload
  <2>2. place \in [Chunks(o) -> SUBSET Node]
    OBVIOUS
  <2>3. used' = used
    BY <1>1 DEF InitUpload
  <2>4. \A n \in Node : reserved[n] + Bytes({c \in Chunks(o) : n \in place[c]}) + used[n] <= Capacity
    BY <2>1, <2>2, PlacementFits
  <2>q. QED BY <2>1, <2>3, <2>4 DEF NoOvercommit
<1>2. ASSUME NEW o \in Object, Cancel(o) \/ Delete(o) PROVE NoOvercommit'
  BY <1>2, RetireNotMore, NotMore DEF Cancel, Delete
<1>3. ASSUME NEW h \in Confirmer, ConfirmCommit(h) PROVE NoOvercommit'
  <2> DEFINE d == confirm[h].chunk
  <2>1. d \in Chunk
    BY <1>3 DEF ConfirmCommit, TypeOK, ConfirmState
  <2>2. Length(d) \in Nat
    BY <2>1, Numbers
  <2>3. /\ reserved' = [n \in Node |-> IF n \in Counted(h) THEN reserved[n] - Length(d) ELSE reserved[n]]
        /\ used' = [n \in Node |-> IF n \in Counted(h) THEN used[n] + Length(d) ELSE used[n]]
    BY <1>3 DEF ConfirmCommit
  <2> HIDE DEF d
  <2>4. \A n \in Node : reserved'[n] + used'[n] <= reserved[n] + used[n]
    BY <2>2, <2>3 DEF TypeOK
  <2>q. QED BY <2>4, NotMore
<1>4. CASE ~ \/ \E o \in Object : InitUpload(o) \/ Cancel(o) \/ Delete(o)
             \/ \E h \in Confirmer : ConfirmCommit(h)
  <2>1. UNCHANGED <<reserved, used>>
    BY <1>4 DEF Requests, Complete, Prepare, BadReplica, ConfirmBegin, ConfirmStat, ConfirmAbort, space, tables
  <2>q. QED BY <2>1, SameBytes, NotMore
<1>q. QED BY <1>1, <1>2, <1>3, <1>4

\* Only a repair that begins asks for space.
LEMMA TasksFit == ASSUME TypeOK, TypeOK', NoOvercommit, Tasks PROVE NoOvercommit'
<1> PICK w \in Worker :
      \/ \E t \in Task : Claim(w, t)
      \/ WorkerFail(w) \/ WorkerCrash(w)
      \/ DeleteBegin(w) \/ DeleteRemoved(w) \/ DeleteCommit(w)
      \/ RepairNotNeeded(w) \/ \E n \in Node : RepairBegin(w, n)
      \/ RepairFetch(w) \/ RepairPut(w) \/ RepairStat(w) \/ RepairPublish(w)
  BY DEF Tasks
<1> DEFINE c == worker[w].task[2]
<1>t. reserved \in [Node -> Int] /\ used \in [Node -> Int]
  BY DEF TypeOK
<1>1. CASE DeleteCommit(w)
  <2>1. c \in Chunk /\ worker[w].task[3] \in Node
    BY <1>1, WorkerNames DEF DeleteCommit, At
  <2>2. Uncharge(c, worker[w].task[3])
    BY <1>1 DEF DeleteCommit
  <2> HIDE DEF c
  <2>q. QED BY <2>1, <2>2, UnchargeNotMore, NotMore
<1>2. ASSUME NEW n \in Node, RepairBegin(w, n) PROVE NoOvercommit'
  <2>1. c \in Chunk
    BY <1>2, WorkerNames DEF RepairBegin, At
  <2>2. Length(c) \in Nat
    BY <2>1, Numbers
  <2>3. CASE UNCHANGED reserved
    <3>1. UNCHANGED <<reserved, used>>
      BY <1>2, <2>3 DEF RepairBegin
    <3>q. QED BY <3>1, SameBytes, NotMore
  <2>4. CASE ~ UNCHANGED reserved
    <3>1. n \in NewTargets(c) /\ reserved' = [reserved EXCEPT ![n] = @ + Length(c)] /\ used' = used
      BY <1>2, <2>4 DEF RepairBegin
    <3>2. HasRoom(n, [m \in Node |-> 0], Length(c))
      BY <3>1 DEF NewTargets, Reserve
    <3> HIDE DEF c
    <3>3. Capacity - (reserved[n] + 0 + used[n]) >= Length(c)
      BY <3>2 DEF HasRoom, Load
    <3>4. \A m \in Node : reserved'[m] + used'[m] <= Capacity
      BY <1>t, <2>2, <3>1, <3>3, NodesAssumption DEF NoOvercommit
    <3>q. QED BY <3>4 DEF NoOvercommit
  <2>q. QED BY <2>3, <2>4
<1>3. CASE RepairPublish(w)
  <2> DEFINE n == worker[w].target
  <2>1. c \in Chunk /\ n \in Node
    BY <1>3, WorkerNames DEF RepairPublish, At
  <2>2. \/ Uncharge(c, n)
        \/ /\ reserved' = [reserved EXCEPT ![n] = @ - Length(c)]
           /\ used' = [used EXCEPT ![n] = @ + Length(c)]
    BY <1>3 DEF RepairPublish
  <2>3. Length(c) \in Nat
    BY <2>1, Numbers
  <2> HIDE DEF c, n
  <2>4. CASE Uncharge(c, n)
    BY <2>1, <2>4, UnchargeNotMore, NotMore
  <2>5. CASE /\ reserved' = [reserved EXCEPT ![n] = @ - Length(c)]
             /\ used' = [used EXCEPT ![n] = @ + Length(c)]
    <3>1. \A m \in Node : reserved'[m] + used'[m] <= reserved[m] + used[m]
      BY <1>t, <2>1, <2>3, <2>5
    <3>q. QED BY <3>1, NotMore
  <2>q. QED BY <2>2, <2>4, <2>5
<1>4. CASE \/ \E t \in Task : Claim(w, t)
           \/ WorkerFail(w) \/ WorkerCrash(w) \/ DeleteBegin(w) \/ DeleteRemoved(w) \/ RepairNotNeeded(w)
           \/ RepairFetch(w) \/ RepairPut(w) \/ RepairStat(w)
  <2>1. UNCHANGED <<reserved, used>>
    BY <1>4 DEF Claim, WorkerFail, WorkerCrash, DeleteBegin, DeleteRemoved, RepairNotNeeded, RepairFetch,
                RepairPut, RepairStat, Rpc, tables, space
  <2>q. QED BY <2>1, SameBytes, NotMore
<1>q. QED BY <1>1, <1>2, <1>3, <1>4

\* Heartbeats, the passing of time and maintenance only give back.
LEMMA OthersFit ==
  ASSUME TypeOK, TypeOK', NoOvercommit, Environment \/ Maintenance \/ UNCHANGED vars
  PROVE  NoOvercommit'
<1>1. ASSUME NEW m \in Maintainer, Maintain(m) PROVE NoOvercommit'
  BY <1>1, RetireNotMore, NotMore DEF Maintain
<1>2. ASSUME NEW m \in Maintainer, ReconcileVerify(m) PROVE NoOvercommit'
  <2>1. maint[m].chunk \in Chunk /\ maint[m].node \in Node
    BY <1>2, MaintNames DEF ReconcileVerify
  <2>2. UNCHANGED <<reserved, used>> \/ Uncharge(maint[m].chunk, maint[m].node)
    BY <1>2 DEF ReconcileVerify, space
  <2>q. QED BY <2>1, <2>2, UnchargeNotMore, SameBytes, NotMore
<1>3. CASE ~ \E m \in Maintainer : Maintain(m) \/ ReconcileVerify(m)
  <2>1. CASE Maintenance
    <3>1. UNCHANGED <<reserved, used>>
      BY <1>3, <2>1 DEF Maintenance, ReconcileBegin, ReconcileNode, ReconcileStat, ReconcileInventory, ReconcileFile,
                        ReconcileNext, ReconcileEnd, tables, space
    <3>q. QED BY <3>1, SameBytes, NotMore
  <2>2. CASE Environment \/ UNCHANGED vars
    <3>1. UNCHANGED <<reserved, used>>
      BY <2>2 DEF Environment, Heartbeat, Age, Lapse, TaskDue, vars, tables, space
    <3>q. QED BY <3>1, SameBytes, NotMore
  <2>q. QED BY <2>1, <2>2
<1>q. QED BY <1>1, <1>2, <1>3

\* What is reserved and used on a node fits its capacity at any time: reserve
\* (metadata.py) counts what other transactions, and its own, have promised.
THEOREM NeverOvercommitted == Spec => []NoOvercommit
<1>1. Init => NoOvercommit
  BY NodesAssumption DEF Init, NoOvercommit
<1>2. TypeOK /\ TypeOK' /\ NoOvercommit /\ [Next]_vars => NoOvercommit'
  BY RequestsFit, TasksFit, OthersFit DEF Next
<1>q. QED BY <1>1, <1>2, TypeCorrect, PTL DEF Spec

-----------------------------------------------------------------------------
(***************************************************************************)
(* Repairs.  A chunk has Replicas rows until its object is published, so   *)
(* that none of them can be reserved then; from there on only a repair     *)
(* reserves, if nothing is reserved yet, and its row stays as it is while  *)
(* the repair's claim passes the fence.                                    *)
(***************************************************************************)
StagingRows == \A c \in Chunk : object[c[1]] = "staging" => Cardinality(Rows(c)) <= Replicas

Repairing == {"fetch", "put", "stat", "publish"}

RepairIsFenced ==
  \A w \in Worker : worker[w].pc \in Repairing /\ Fenced(w) =>
    /\ object[worker[w].task[2][1]] = "published"
    /\ Rep(worker[w].task[2], worker[w].target).state = "reserved"

\* A step that makes no row and no reservation, and publishes nothing.
CalmRows ==
  /\ \A o \in Object : object'[o] = object[o] \/ object'[o] = "deleted"
  /\ \A c \in Chunk, n \in Node :
       /\ replica'[<<c, n>>].state # "absent" => Rep(c, n).state # "absent"
       /\ replica'[<<c, n>>].state = "reserved" => Rep(c, n).state = "reserved"

\* A reservation for published data stays, unless it is no longer repaired.
HeldRows ==
  \A c \in Chunk, n \in Node : object[c[1]] = "published" /\ Rep(c, n).state = "reserved" =>
    \/ object'[c[1]] = "published" /\ replica'[<<c, n>>].state = "reserved"
    \/ task'[RepairOf(c)].state # "running"

\* A repair under the fence was so before a step, or has just got its target.
FenceHeld ==
  \A w \in Worker :
    /\ worker'[w].pc \in Repairing
    /\ task'[worker'[w].task].token = w
    /\ task'[worker'[w].task].state = "running" /\ ~task'[worker'[w].task].due
    => \/ /\ worker[w].pc \in Repairing /\ worker[w].task = worker'[w].task
          /\ worker[w].target = worker'[w].target /\ Fenced(w)
       \/ /\ object'[worker'[w].task[2][1]] = "published"
          /\ replica'[<<worker'[w].task[2], worker'[w].target>>].state = "reserved"

\* A subset of the nodes is no larger.
LEMMA FewerNodes ==
  ASSUME NEW S \in SUBSET Node, NEW T \in SUBSET Node, S \subseteq T
  PROVE  Cardinality(S) \in Nat /\ Cardinality(S) <= Cardinality(T) /\ Cardinality(T) \in Nat
<1>1. IsFiniteSet(T) /\ IsFiniteSet(S)
  BY NodesAssumption, FS_Subset
<1>q. QED BY <1>1, FS_Subset, FS_CardinalityType

\* Such a step keeps the numbers of rows and of reservations.
LEMMA CalmTargets ==
  ASSUME StagingRows, OneRepairTarget, CalmRows
  PROVE  StagingRows' /\ OneRepairTarget'
<1>1. ASSUME NEW c \in Chunk, object'[c[1]] = "staging"
      PROVE  Cardinality({n \in Node : replica'[<<c, n>>].state # "absent"}) <= Replicas
  <2> DEFINE S == {n \in Node : replica'[<<c, n>>].state # "absent"}
             T == Rows(c)
  <2>1. object[c[1]] = "staging" /\ S \subseteq T /\ S \in SUBSET Node /\ T \in SUBSET Node
    BY <1>1, ChunkObject DEF CalmRows, Rows
  <2>2. Cardinality(T) <= Replicas
    BY <2>1 DEF StagingRows
  <2> HIDE DEF S, T
  <2>3. Cardinality(S) \in Nat /\ Cardinality(S) <= Cardinality(T) /\ Cardinality(T) \in Nat
    BY <2>1, FewerNodes
  <2>4. Cardinality(S) <= Replicas
    BY <2>2, <2>3, NodesAssumption
  <2>q. QED BY <2>4 DEF S
<1>2. ASSUME NEW c \in Chunk, object'[c[1]] = "published"
      PROVE  Cardinality({n \in Node : replica'[<<c, n>>].state = "reserved"}) <= 1
  <2> DEFINE S == {n \in Node : replica'[<<c, n>>].state = "reserved"}
             T == {n \in Node : Rep(c, n).state = "reserved"}
  <2>1. object[c[1]] = "published" /\ S \subseteq T /\ S \in SUBSET Node /\ T \in SUBSET Node
    BY <1>2, ChunkObject DEF CalmRows
  <2>2. Cardinality(T) <= 1
    BY <2>1 DEF OneRepairTarget
  <2> HIDE DEF S, T
  <2>3. Cardinality(S) \in Nat /\ Cardinality(S) <= Cardinality(T) /\ Cardinality(T) \in Nat
    BY <2>1, FewerNodes
  <2>4. Cardinality(S) <= 1
    BY <2>2, <2>3
  <2>q. QED BY <2>4 DEF S
<1>q. QED BY <1>1, <1>2 DEF StagingRows, OneRepairTarget, Rows, Rep

\* The two kinds of steps are enough.
LEMMA RepairFenceKept ==
  ASSUME TypeOK, TypeOK', RepairIsFenced, HeldRows, FenceHeld
  PROVE  RepairIsFenced'
<1> SUFFICES ASSUME NEW w \in Worker, worker'[w].pc \in Repairing,
                    task'[worker'[w].task].token = w,
                    task'[worker'[w].task].state = "running", ~task'[worker'[w].task].due
             PROVE  /\ object'[worker'[w].task[2][1]] = "published"
                    /\ replica'[<<worker'[w].task[2], worker'[w].target>>].state = "reserved"
  BY DEF RepairIsFenced, Fenced, Rep
<1> DEFINE t == worker'[w].task
<1>1. t \in Task /\ t[1] = "repair" /\ worker'[w].target \in Node
  BY DEF TypeOK, LocalsSet, Repairing
<1>2. t[2] \in Chunk /\ t = RepairOf(t[2])
  BY <1>1 DEF Task, RepairOf
<1>3. CASE worker[w].pc \in Repairing /\ worker[w].task = t /\ worker[w].target = worker'[w].target /\ Fenced(w)
  <2>1. object[t[2][1]] = "published" /\ Rep(t[2], worker'[w].target).state = "reserved"
    BY <1>3 DEF RepairIsFenced
  <2>2. task'[RepairOf(t[2])].state = "running"
    BY <1>2
  <2>3. object'[t[2][1]] = "published" /\ replica'[<<t[2], worker'[w].target>>].state = "reserved"
    <3> HIDE DEF t
    <3>q. QED BY <1>1, <1>2, <2>1, <2>2 DEF HeldRows
  <2>q. QED BY <2>3
<1>4. CASE object'[t[2][1]] = "published" /\ replica'[<<t[2], worker'[w].target>>].state = "reserved"
  BY <1>4
<1>5. \/ worker[w].pc \in Repairing /\ worker[w].task = t /\ worker[w].target = worker'[w].target /\ Fenced(w)
      \/ object'[t[2][1]] = "published" /\ replica'[<<t[2], worker'[w].target>>].state = "reserved"
  BY Zenon DEF FenceHeld
<1>q. QED BY <1>3, <1>4, <1>5

-----------------------------------------------------------------------------
\* Steps of other threads than the workers.
LEMMA OthersHold ==
  ASSUME TypeOK, UNCHANGED worker,
         \A t \in Task : t[1] = "repair" =>
           task'[t] = task[t] \/ task'[t].state # "running" \/ task'[t].due
  PROVE  FenceHeld
<1>1. ASSUME NEW w \in Worker, worker[w].pc \in Repairing
      PROVE  worker[w].task \in Task /\ worker[w].task[1] = "repair"
  BY <1>1 DEF TypeOK, LocalsSet, Repairing
<1>q. QED BY <1>1 DEF FenceHeld, Fenced

\* The repair task of a chunk.
LEMMA RepairTask == \A c \in Chunk : RepairOf(c) \in Task /\ RepairOf(c)[1] = "repair" /\ RepairOf(c)[2] = c
  BY DEF RepairOf, Task

\* retire ends the repairs of what it retires, and touches no other row.
LEMMA RetireHolds ==
  ASSUME TypeOK, UNCHANGED worker, NEW S, NEW end, NEW T, Retire(S, end),
         task' \in {RetiredTasks(S), Enqueue(RetiredTasks(S), T, FALSE)}
  PROVE  CalmRows /\ HeldRows /\ FenceHeld
<1>1. \A o \in Object : object'[o] = IF o \in S THEN "deleted" ELSE object[o]
  BY DEF Retire
<1>2. \A c \in Chunk, n \in Node :
        replica'[<<c, n>>] = IF c[1] \in S THEN RetiredRow(Rep(c, n)) ELSE Rep(c, n)
  BY DEF Retire, Rep
<1>3. \A t \in Task : t[1] = "repair" =>
        RetiredTasks(S)[t] = IF t[2][1] \in S THEN QueueRow("done", FALSE, None) ELSE task[t]
  <2> DEFINE fenced == [t \in Task |-> IF t[1] = "repair" /\ t[2][1] \in S
                                       THEN QueueRow("done", FALSE, None) ELSE task[t]]
             D == {t \in Task : t[1] = "delete" /\ t[2][1] \in S /\ t[3] \in Rows(t[2])}
  <2>1. RetiredTasks(S) = Enqueue(fenced, D, TRUE)
    BY DEF RetiredTasks
  <2>2. \A t \in Task : t \notin D => Enqueue(fenced, D, TRUE)[t] = fenced[t]
    BY DEF Enqueue
  <2>3. \A t \in Task : t[1] = "repair" => t \notin D
    OBVIOUS
  <2>4. \A t \in Task : t[1] = "repair" =>
          fenced[t] = IF t[2][1] \in S THEN QueueRow("done", FALSE, None) ELSE task[t]
    OBVIOUS
  <2> HIDE DEF fenced, D
  <2>q. QED BY <2>1, <2>2, <2>3, <2>4
<1>4. \A t \in Task : task'[t] = RetiredTasks(S)[t] \/ task'[t].state = "pending"
  <2>1. \A t \in Task : \/ Enqueue(RetiredTasks(S), T, FALSE)[t] = RetiredTasks(S)[t]
                        \/ Enqueue(RetiredTasks(S), T, FALSE)[t].state = "pending"
    BY EnqueueState
  <2>q. QED BY <2>1
<1>5. \A t \in Task : t[1] = "repair" =>
        /\ task'[t] = task[t] \/ task'[t].state # "running"
        /\ t[2][1] \in S => task'[t].state # "running"
  BY <1>3, <1>4 DEF QueueRow
<1>6. CalmRows
  <2>1. \A row : /\ RetiredRow(row).state # "absent" => row.state # "absent"
                 /\ RetiredRow(row).state # "reserved"
    BY DEF RetiredRow, RepRow
  <2>q. QED BY <1>1, <1>2, <2>1 DEF CalmRows
<1>7. HeldRows
  BY <1>1, <1>2, <1>5, RepairTask, ChunkObject DEF HeldRows
<1>q. QED BY <1>5, <1>6, <1>7, OthersHold

\* One row changes, to a state that makes no reservation and ends none.
LEMMA OneRowHolds ==
  ASSUME TypeOK, UNCHANGED object, NEW c \in Chunk, NEW n \in Node, NEW row,
         replica' = [replica EXCEPT ![<<c, n>>] = row],
         row.state # "absent" => Rep(c, n).state # "absent",
         row.state = "reserved" <=> Rep(c, n).state = "reserved"
  PROVE  CalmRows /\ HeldRows
<1>1. \A d \in Chunk, m \in Node : replica'[<<d, m>>] = IF d = c /\ m = n THEN row ELSE Rep(d, m)
  BY DEF TypeOK, Rep
<1>q. QED BY <1>1 DEF CalmRows, HeldRows

\* A step that writes no row.
LEMMA SameRowsHold == ASSUME UNCHANGED <<object, replica>> PROVE CalmRows /\ HeldRows
  BY DEF CalmRows, HeldRows, Rep

-----------------------------------------------------------------------------
\* init gives every chunk of a new upload its Replicas rows.
LEMMA InitHolds ==
  ASSUME TypeOK, RowInv, StagingRows, OneRepairTarget, NEW o \in Object, InitUpload(o)
  PROVE  StagingRows' /\ OneRepairTarget' /\ HeldRows /\ FenceHeld
<1>1. PICK place \in [Chunks(o) -> {S \in SUBSET Node : Cardinality(S) = Replicas}] :
        replica' = [r \in Chunk \X Node |->
                      IF r[1][1] = o /\ r[2] \in place[r[1]] THEN NewRow(r[2]) ELSE replica[r]]
  BY DEF InitUpload
<1>2. object[o] = "absent" /\ object' = [object EXCEPT ![o] = "staging"] /\ UNCHANGED <<task, worker>>
  BY DEF InitUpload, threads
<1>3. \A c \in Chunk, n \in Node :
        replica'[<<c, n>>] = IF c[1] = o /\ n \in place[c] THEN NewRow(n) ELSE Rep(c, n)
  BY <1>1 DEF Rep
<1>4. \A c \in Chunk : c[1] \in Object /\ (c[1] = o => c \in Chunks(o))
  BY ChunkObject DEF Chunk, Chunks
<1>5. \A c \in Chunk : object'[c[1]] = IF c[1] = o THEN "staging" ELSE object[c[1]]
  BY <1>2, <1>4 DEF TypeOK
<1>6. ASSUME NEW c \in Chunk, object'[c[1]] = "staging"
      PROVE  Cardinality({n \in Node : replica'[<<c, n>>].state # "absent"}) <= Replicas
  <2>1. CASE c[1] = o
    <3>1. c \in Chunks(o) /\ place[c] \in SUBSET Node /\ Cardinality(place[c]) = Replicas
      BY <1>4, <2>1
    <3>2. \A n \in Node : Rep(c, n).state = "absent"
      BY <1>2, <2>1 DEF RowInv, RowOK
    <3>3. \A n \in Node : NewRow(n).state # "absent"
      BY DEF NewRow, RepRow
    <3>4. {n \in Node : replica'[<<c, n>>].state # "absent"} = place[c]
      BY <1>3, <2>1, <3>1, <3>2, <3>3
    <3>5. Cardinality({n \in Node : replica'[<<c, n>>].state # "absent"}) = Replicas
      BY <3>1, <3>4, Zenon
    <3>q. QED BY <3>5, NodesAssumption
  <2>2. CASE c[1] # o
    <3>1. {n \in Node : replica'[<<c, n>>].state # "absent"} = Rows(c)
      BY <1>3, <2>2 DEF Rows
    <3>q. QED BY <1>5, <1>6, <2>2, <3>1 DEF StagingRows
  <2>q. QED BY <2>1, <2>2
<1>7. ASSUME NEW c \in Chunk, object'[c[1]] = "published"
      PROVE  Cardinality({n \in Node : replica'[<<c, n>>].state = "reserved"}) <= 1
  <2>1. object[c[1]] = "published" /\ c[1] # o
    BY <1>5, <1>7
  <2>2. {n \in Node : replica'[<<c, n>>].state = "reserved"} = {n \in Node : Rep(c, n).state = "reserved"}
    BY <1>3, <2>1
  <2>q. QED BY <2>1, <2>2 DEF OneRepairTarget
<1>8. HeldRows
  BY <1>2, <1>3, <1>5 DEF HeldRows
<1>9. FenceHeld
  BY <1>2, OthersHold
<1>q. QED BY <1>6, <1>7, <1>8, <1>9 DEF StagingRows, OneRepairTarget, Rows, Rep

\* complete publishes an object of whose rows all hold data.
LEMMA CompleteHolds ==
  ASSUME TypeOK, ObjectsInv, StagingRows, OneRepairTarget, NEW o \in Object, Complete(o)
  PROVE  StagingRows' /\ OneRepairTarget' /\ HeldRows /\ FenceHeld
<1>1. /\ object' = [object EXCEPT ![o] = IF @ = "staging" THEN "published" ELSE @]
      /\ UNCHANGED <<replica, task, worker>>
      /\ \A c \in Chunks(o) : Cardinality({n \in Node : Rep(c, n).state = "valid"}) >= Replicas
  BY DEF Complete, space, threads
<1>2. object[o] = "staging"
  BY States DEF Complete
<1>3. \A c \in Chunk : /\ c[1] \in Object /\ (c[1] = o => c \in Chunks(o))
                       /\ object'[c[1]] = IF c[1] = o THEN "published" ELSE object[c[1]]
  BY <1>1, <1>2, ChunkObject DEF Chunk, Chunks, TypeOK
<1>4. ASSUME NEW c \in Chunk, c[1] = o
      PROVE  Cardinality({n \in Node : Rep(c, n).state = "reserved"}) <= 1
  <2> DEFINE V == {n \in Node : Rep(c, n).state = "valid"}
             R == {n \in Node : Rep(c, n).state = "reserved"}
  <2>1. Cardinality(V) >= Replicas /\ Cardinality(Rows(c)) <= Replicas
    BY <1>1, <1>2, <1>3, <1>4 DEF StagingRows
  <2>2. V \cup R \subseteq Rows(c) /\ V \cap R = {} /\ V \in SUBSET Node /\ R \in SUBSET Node
        /\ V \cup R \in SUBSET Node /\ Rows(c) \in SUBSET Node
    BY DEF Rows
  <2> HIDE DEF V, R
  <2>3. IsFiniteSet(V) /\ IsFiniteSet(R) /\ Cardinality(V) \in Nat /\ Cardinality(R) \in Nat
    BY <2>2, NodesAssumption, FS_Subset, FS_CardinalityType
  <2>4. Cardinality(V \cup R) <= Cardinality(Rows(c)) /\ Cardinality(Rows(c)) \in Nat
        /\ Cardinality(V \cup R) \in Nat
    BY <2>2, FewerNodes
  <2>5. Cardinality(V \cup R) = Cardinality(V) + Cardinality(R) - Cardinality(V \cap R)
    BY <2>3, FS_Union
  <2>6. Cardinality(V \cap R) = 0
    BY <2>2, FS_EmptySet
  <2>7. Cardinality(R) <= 1
    BY <2>1, <2>3, <2>4, <2>5, <2>6, NodesAssumption
  <2>q. QED BY <2>7 DEF R
<1>5. \A c \in Chunk, n \in Node : replica'[<<c, n>>] = Rep(c, n)
  BY <1>1 DEF Rep
<1>6. StagingRows'
  BY <1>1, <1>3 DEF StagingRows, Rows, Rep
<1>7. OneRepairTarget'
  BY <1>1, <1>3, <1>4 DEF OneRepairTarget, Rep
<1>8. HeldRows
  BY <1>3, <1>5 DEF HeldRows
<1>q. QED BY <1>1, <1>6, <1>7, <1>8, OthersHold

\* confirm only works on uploads that are not published.
LEMMA ConfirmHolds ==
  ASSUME TypeOK, ObjectsInv, NEW h \in Confirmer, ConfirmCommit(h)
  PROVE  CalmRows /\ HeldRows /\ FenceHeld
<1> DEFINE d == confirm[h].chunk
<1>1. d \in Chunk /\ UNCHANGED <<object, task, worker>>
  BY DEF ConfirmCommit, TypeOK, ConfirmState
<1>2. d[1] \in Object /\ upload[d[1]] = "uploading"
  BY <1>1, ChunkObject DEF ConfirmCommit, Active
<1>3. object[d[1]] = "staging"
  BY <1>2, States
<1>4. replica' = [r \in Chunk \X Node |-> IF r[1] = d /\ r[2] \in Counted(h)
                                          THEN RepRow("valid", "used", replica[r].volume) ELSE replica[r]]
  BY DEF ConfirmCommit
<1>5. \A n \in Counted(h) : Rep(d, n).state = "reserved"
  BY DEF Counted
<1> HIDE DEF d
<1>6. \A c \in Chunk, n \in Node :
        \/ replica'[<<c, n>>] = Rep(c, n)
        \/ c = d /\ Rep(d, n).state = "reserved" /\ replica'[<<c, n>>].state = "valid"
  BY <1>4, <1>5 DEF Rep, RepRow
<1>7. CalmRows /\ HeldRows
  BY <1>1, <1>3, <1>6 DEF CalmRows, HeldRows
<1>q. QED BY <1>1, <1>7, OthersHold

\* Requests of users: each is one of the above, or writes one row or none.
LEMMA RequestsHold ==
  ASSUME TypeOK, RowInv, ObjectsInv, StagingRows, OneRepairTarget, Requests
  PROVE  StagingRows' /\ OneRepairTarget' /\ HeldRows /\ FenceHeld
<1>1. ASSUME NEW o \in Object, InitUpload(o) \/ Complete(o)
      PROVE  StagingRows' /\ OneRepairTarget' /\ HeldRows /\ FenceHeld
  BY <1>1, InitHolds, CompleteHolds
<1>2. ASSUME NEW o \in Object, Cancel(o) \/ Delete(o)
      PROVE  CalmRows /\ HeldRows /\ FenceHeld
  BY <1>2, RetireHolds DEF Cancel, Delete, threads
<1>3. ASSUME NEW c \in Chunk, NEW n \in Node, BadReplica(c, n)
      PROVE  CalmRows /\ HeldRows /\ FenceHeld
  <2> DEFINE row == RepRow("bad", Rep(c, n).charged, Rep(c, n).volume)
  <2>1. /\ UNCHANGED <<object, worker>> /\ task' = Enqueue(task, {RepairOf(c)}, FALSE)
        /\ \/ UNCHANGED replica
           \/ Rep(c, n).state = "valid" /\ replica' = [replica EXCEPT ![<<c, n>>] = row]
    BY <1>3 DEF BadReplica, Rep, catalog, threads
  <2>2. row.state = "bad"
    BY DEF RepRow
  <2>3. \A t \in Task : task'[t] = task[t] \/ task'[t].state # "running"
    BY <2>1, EnqueueState
  <2> HIDE DEF row
  <2>q. QED BY <2>1, <2>2, <2>3, OneRowHolds, SameRowsHold, OthersHold
<1>4. ASSUME NEW h \in Confirmer, ConfirmCommit(h)
      PROVE  CalmRows /\ HeldRows /\ FenceHeld
  BY <1>4, ConfirmHolds
<1>5. CASE \/ \E c \in Chunk, s \in Sha : Prepare(c, s)
           \/ \E h \in Confirmer : \/ \E c \in Chunk : ConfirmBegin(h, c)
                                   \/ \E n \in Node : ConfirmStat(h, n)
                                   \/ ConfirmAbort(h)
  <2>1. UNCHANGED <<object, replica, task, worker>>
    BY <1>5 DEF Prepare, ConfirmBegin, ConfirmStat, ConfirmAbort, tables, catalog, space, threads
  <2>q. QED BY <2>1, SameRowsHold, OthersHold, CalmTargets
<1>q. QED BY <1>1, <1>2, <1>3, <1>4, <1>5, CalmTargets DEF Requests

\* A node that comes back keeps its reservations; only copies with data are in doubt.
LEMMA EnvironmentHolds == ASSUME TypeOK, Environment PROVE CalmRows /\ HeldRows /\ FenceHeld
<1>1. ASSUME NEW n \in Node, NEW i \in Processes[n], NEW free \in FreeReports, Heartbeat(n, i, free)
      PROVE  CalmRows /\ HeldRows /\ FenceHeld
  <2>1. \A row, v : /\ RowAfterChange(row, v).state # "absent" => row.state # "absent"
                    /\ RowAfterChange(row, v).state = "reserved" <=> row.state = "reserved"
    BY DEF RowAfterChange, RepRow
  <2>2. \A c \in Chunk, m \in Node :
          replica'[<<c, m>>] = Rep(c, m) \/ replica'[<<c, m>>] = RowAfterChange(Rep(c, m), VolumeOf[i])
    BY <1>1 DEF Heartbeat, Rep
  <2>3. UNCHANGED <<object, task, worker>>
    BY <1>1 DEF Heartbeat, catalog, threads
  <2>4. CalmRows /\ HeldRows
    BY <2>1, <2>2, <2>3 DEF CalmRows, HeldRows
  <2>q. QED BY <2>3, <2>4, OthersHold
<1>2. CASE (\E n \in Node : Age(n)) \/ (\E o \in Object : Lapse(o))
  <2>1. UNCHANGED <<object, replica, task, worker>>
    BY <1>2 DEF Age, Lapse, catalog, space, threads
  <2>q. QED BY <2>1, SameRowsHold, OthersHold
<1>3. ASSUME NEW u \in Task, TaskDue(u) PROVE CalmRows /\ HeldRows /\ FenceHeld
  <2>1. UNCHANGED <<object, replica, worker>> /\ task' = [task EXCEPT ![u].due = TRUE]
    BY <1>3 DEF TaskDue, catalog, space, threads
  <2>2. \A t \in Task : task'[t] = task[t] \/ task'[t].due
    BY <2>1 DEF TypeOK, TaskRow
  <2>q. QED BY <2>1, <2>2, SameRowsHold, OthersHold
<1>q. QED BY <1>1, <1>2, <1>3 DEF Environment

\* Reconciliation only decides rows that are unverified.
LEMMA MaintenanceHolds == ASSUME TypeOK, Maintenance PROVE CalmRows /\ HeldRows /\ FenceHeld
<1> PICK m \in Maintainer :
      \/ Maintain(m) \/ ReconcileBegin(m)
      \/ \E n \in Node : ReconcileNode(m, n)
      \/ \E c \in Chunk, ok \in BOOLEAN : ReconcileStat(m, c, ok)
      \/ ReconcileVerify(m)
      \/ \E ids \in SUBSET Chunk : ReconcileInventory(m, ids)
      \/ \E c \in Chunk : ReconcileFile(m, c)
      \/ ReconcileNext(m) \/ ReconcileEnd(m)
  BY DEF Maintenance
<1>1. CASE Maintain(m)
  BY <1>1, RetireHolds DEF Maintain
<1>2. CASE ReconcileVerify(m)
  <2> DEFINE c == maint[m].chunk
             n == maint[m].node
  <2>1. c \in Chunk /\ n \in Node /\ UNCHANGED <<object, task, worker>>
    BY <1>2, MaintNames DEF ReconcileVerify, catalog
  <2>2. \/ UNCHANGED replica
        \/ \E row : /\ replica' = [replica EXCEPT ![<<c, n>>] = row]
                    /\ \/ row.state = Rep(c, n).state
                       \/ Rep(c, n).state = "unverified" /\ row.state \in {"valid", "bad"}
    BY <1>2 DEF ReconcileVerify, RepRow, space
  <2> HIDE DEF c, n
  <2>q. QED BY <2>1, <2>2, OneRowHolds, SameRowsHold, OthersHold
<1>3. ASSUME NEW c \in Chunk, ReconcileFile(m, c) PROVE CalmRows /\ HeldRows /\ FenceHeld
  <2>1. /\ UNCHANGED <<object, replica, worker>>
        /\ task' = task \/ task' = Enqueue(task, {DeleteOf(c, maint[m].node)}, TRUE)
    BY <1>3 DEF ReconcileFile, catalog, space
  <2> DEFINE D == {DeleteOf(c, maint[m].node)}
  <2>2. \A t \in Task : Enqueue(task, D, TRUE)[t] = task[t] \/ Enqueue(task, D, TRUE)[t].state = "pending"
    BY EnqueueState
  <2>3. \A t \in Task : task'[t] = task[t] \/ task'[t].state # "running"
    BY <2>1, <2>2
  <2>q. QED BY <2>1, <2>3, SameRowsHold, OthersHold
<1>4. CASE \/ ReconcileBegin(m)
           \/ \E n \in Node : ReconcileNode(m, n)
           \/ \E c \in Chunk, ok \in BOOLEAN : ReconcileStat(m, c, ok)
           \/ \E ids \in SUBSET Chunk : ReconcileInventory(m, ids)
           \/ ReconcileNext(m) \/ ReconcileEnd(m)
  <2>1. UNCHANGED <<object, replica, task, worker>>
    BY <1>4 DEF ReconcileBegin, ReconcileNode, ReconcileStat, ReconcileInventory, ReconcileNext, ReconcileEnd,
                tables, catalog, space
  <2>q. QED BY <2>1, SameRowsHold, OthersHold
<1>q. QED BY <1>1, <1>2, <1>3, <1>4

\* A step of worker w does not touch another worker's claim.
LEMMA WorkerHolds ==
  ASSUME TypeOK, NEW w \in Worker, NEW j, worker' = [worker EXCEPT ![w] = j],
         \A t \in Task : task'[t] = task[t] \/ task'[t].token = w \/ task'[t].state # "running",
         j.pc \in Repairing =>
           \/ /\ worker[w].pc \in Repairing /\ worker[w].task = j.task
              /\ worker[w].target = j.target /\ UNCHANGED task
           \/ /\ object'[j.task[2][1]] = "published"
              /\ replica'[<<j.task[2], j.target>>].state = "reserved"
  PROVE  FenceHeld
<1> SUFFICES ASSUME NEW v \in Worker, worker'[v].pc \in Repairing,
                    task'[worker'[v].task].token = v,
                    task'[worker'[v].task].state = "running", ~task'[worker'[v].task].due
             PROVE  \/ /\ worker[v].pc \in Repairing /\ worker[v].task = worker'[v].task
                       /\ worker[v].target = worker'[v].target /\ Fenced(v)
                    \/ /\ object'[worker'[v].task[2][1]] = "published"
                       /\ replica'[<<worker'[v].task[2], worker'[v].target>>].state = "reserved"
  BY DEF FenceHeld
<1>1. CASE v = w
  <2>1. worker'[v] = j
    BY <1>1 DEF TypeOK
  <2>q. QED BY <1>1, <2>1 DEF Fenced
<1>2. CASE v # w
  <2>1. worker'[v] = worker[v]
    BY <1>2 DEF TypeOK
  <2>2. worker[v].task \in Task
    BY <2>1 DEF TypeOK, LocalsSet, Repairing
  <2>3. task'[worker[v].task] = task[worker[v].task]
    BY <1>2, <2>1, <2>2
  <2>q. QED BY <2>1, <2>3 DEF Fenced
<1>q. QED BY <1>1, <1>2

\* A repair reserves where nothing is reserved yet.
LEMMA BeginHolds ==
  ASSUME TypeOK, StagingRows, OneRepairTarget, NEW w \in Worker, NEW n \in Node, RepairBegin(w, n)
  PROVE  StagingRows' /\ OneRepairTarget' /\ HeldRows /\ FenceHeld
<1> DEFINE c == worker[w].task[2]
           j == Job("fetch", worker[w].task, Healthy(c), n, node[n].instance)
<1>1. c \in Chunk /\ object[c[1]] = "published" /\ worker' = [worker EXCEPT ![w] = j]
      /\ UNCHANGED <<object, task>>
  BY WorkerNames DEF RepairBegin, At, catalog
<1>2. \/ n \in PendingTargets(c) /\ UNCHANGED replica
      \/ PendingTargets(c) = {} /\ replica' = [replica EXCEPT ![<<c, n>>] = NewRow(n)]
  BY DEF RepairBegin
<1>3. NewRow(n).state = "reserved"
  BY DEF NewRow, RepRow
<1>4. j.task = worker[w].task /\ j.target = n /\ j.pc = "fetch"
  BY DEF Job
<1> HIDE DEF j
<1>5. replica'[<<c, n>>].state = "reserved"
  BY <1>1, <1>2, <1>3 DEF PendingTargets, Rep, TypeOK
<1>6. FenceHeld
  BY <1>1, <1>4, <1>5, WorkerHolds
<1>7. CASE UNCHANGED replica
  BY <1>1, <1>6, <1>7, SameRowsHold, CalmTargets
<1>8. CASE PendingTargets(c) = {} /\ replica' = [replica EXCEPT ![<<c, n>>] = NewRow(n)]
  <2> HIDE DEF c
  <2>1. \A d \in Chunk, m \in Node : replica'[<<d, m>>] = IF d = c /\ m = n THEN NewRow(n) ELSE Rep(d, m)
    BY <1>8 DEF TypeOK, Rep
  <2>2. \A m \in Node : Rep(c, m).state # "reserved"
    BY <1>8 DEF PendingTargets
  <2>3. HeldRows
    BY <1>1, <1>3, <2>1 DEF HeldRows
  <2>4. StagingRows'
    <3>1. ASSUME NEW d \in Chunk, object'[d[1]] = "staging"
          PROVE  Cardinality({m \in Node : replica'[<<d, m>>].state # "absent"}) <= Replicas
      <4>1. object[d[1]] = "staging" /\ d # c
        BY <1>1, <3>1
      <4>2. {m \in Node : replica'[<<d, m>>].state # "absent"} = Rows(d)
        BY <2>1, <4>1 DEF Rows
      <4>q. QED BY <4>1, <4>2 DEF StagingRows
    <3>q. QED BY <3>1 DEF StagingRows, Rows, Rep
  <2>5. OneRepairTarget'
    <3>1. ASSUME NEW d \in Chunk, object'[d[1]] = "published"
          PROVE  Cardinality({m \in Node : replica'[<<d, m>>].state = "reserved"}) <= 1
      <4>1. CASE d = c
        <5>1. {m \in Node : replica'[<<d, m>>].state = "reserved"} = {n}
          BY <1>3, <2>1, <2>2, <4>1
        <5>2. Cardinality({n}) = 1
          BY FS_Singleton
        <5>3. Cardinality({m \in Node : replica'[<<d, m>>].state = "reserved"}) = 1
          BY <5>1, <5>2, Zenon
        <5>q. QED BY <5>3
      <4>2. CASE d # c
        <5>1. {m \in Node : replica'[<<d, m>>].state = "reserved"} = {m \in Node : Rep(d, m).state = "reserved"}
          BY <2>1, <4>2
        <5>q. QED BY <1>1, <3>1, <5>1 DEF OneRepairTarget
      <4>q. QED BY <4>1, <4>2
    <3>q. QED BY <3>1 DEF OneRepairTarget, Rep
  <2>q. QED BY <1>6, <2>3, <2>4, <2>5
<1>q. QED BY <1>2, <1>7, <1>8

\* A publish ends the claim under which the reservation was held.
LEMMA PublishHolds ==
  ASSUME TypeOK, NEW w \in Worker, RepairPublish(w)
  PROVE  CalmRows /\ HeldRows /\ FenceHeld
<1> DEFINE t == worker[w].task
           c == t[2]
           n == worker[w].target
           bad == RepRow("bad", "none", Rep(c, n).volume)
           valid == RepRow("valid", "used", Rep(c, n).volume)
<1>1. c \in Chunk /\ n \in Node /\ t \in Task /\ t = RepairOf(c)
  BY WorkerNames DEF RepairPublish, At, Task, RepairOf
<1>2. /\ Rep(c, n).state = "reserved" /\ object' = object /\ worker' = [worker EXCEPT ![w] = IdleWorker]
      /\ \/ replica' = [replica EXCEPT ![<<c, n>>] = bad]
         \/ replica' = [replica EXCEPT ![<<c, n>>] = valid]
  BY DEF RepairPublish, Rep, catalog
<1>3. task' = TaskDone(w) \/ task' = Enqueue(TaskDone(w), {DeleteOf(c, n)}, TRUE)
  BY DEF RepairPublish
<1>4. bad.state = "bad" /\ valid.state = "valid" /\ IdleWorker.pc = "idle"
  BY DEF RepRow, IdleWorker, Job
<1>5. \A x \in Task : TaskDone(w)[x] = IF x = t THEN QueueRow("done", FALSE, w) ELSE task[x]
  BY <1>1 DEF TaskDone, TypeOK
<1>6. \A x \in Task : task'[x] = TaskDone(w)[x] \/ task'[x].state = "pending"
  <2>1. \A x \in Task : \/ Enqueue(TaskDone(w), {DeleteOf(c, n)}, TRUE)[x] = TaskDone(w)[x]
                        \/ Enqueue(TaskDone(w), {DeleteOf(c, n)}, TRUE)[x].state = "pending"
    BY EnqueueState
  <2>q. QED BY <1>3, <2>1
<1>7. \A x \in Task : /\ task'[x] = task[x] \/ task'[x].state # "running"
                      /\ x = t => task'[x].state # "running"
  BY <1>5, <1>6 DEF QueueRow
<1>8. task'[RepairOf(c)].state # "running"
  BY <1>1, <1>7
<1> HIDE DEF bad, valid, c, n, t
<1>9. \A d \in Chunk, m \in Node :
        replica'[<<d, m>>] = IF d = c /\ m = n THEN replica'[<<c, n>>] ELSE Rep(d, m)
  BY <1>1, <1>2 DEF TypeOK, Rep
<1>10. replica'[<<c, n>>].state \in {"bad", "valid"}
  BY <1>1, <1>2, <1>4 DEF TypeOK
<1>11. CalmRows
  BY <1>2, <1>9, <1>10 DEF CalmRows
<1>12. HeldRows
  BY <1>2, <1>8, <1>9 DEF HeldRows
<1>13. FenceHeld
  BY <1>2, <1>4, <1>7, WorkerHolds DEF Repairing
<1>q. QED BY <1>11, <1>12, <1>13

\* Steps of the workers; a removal does not begin on a row that is reserved.
LEMMA TasksHold ==
  ASSUME TypeOK, RowInv, RemovalIsFenced, StagingRows, OneRepairTarget, Tasks
  PROVE  StagingRows' /\ OneRepairTarget' /\ HeldRows /\ FenceHeld
<1> PICK w \in Worker :
      \/ \E t \in Task : Claim(w, t)
      \/ WorkerFail(w) \/ WorkerCrash(w)
      \/ DeleteBegin(w) \/ DeleteRemoved(w) \/ DeleteCommit(w)
      \/ RepairNotNeeded(w) \/ \E n \in Node : RepairBegin(w, n)
      \/ RepairFetch(w) \/ RepairPut(w) \/ RepairStat(w) \/ RepairPublish(w)
  BY DEF Tasks
<1> DEFINE t == worker[w].task
<1>t. task \in [Task -> TaskRow] /\ worker \in [Worker -> WorkerState]
  BY DEF TypeOK
<1>j. IdleWorker.pc \notin Repairing
  BY DEF IdleWorker, Job, Repairing
<1>1. ASSUME NEW u \in Task, Claim(w, u) PROVE CalmRows /\ HeldRows /\ FenceHeld
  <2> DEFINE j == Job("claimed", u, {}, None, None)
  <2>1. worker' = [worker EXCEPT ![w] = j] /\ UNCHANGED <<object, replica>>
    BY <1>1 DEF Claim, catalog, space
  <2>2. j.pc \notin Repairing
    BY DEF Job, Repairing
  <2>3. \A x \in Task : task'[x] = task[x] \/ task'[x].token = w
    BY <1>1, <1>t DEF Claim, QueueRow
  <2> HIDE DEF j
  <2>q. QED BY <2>1, <2>2, <2>3, WorkerHolds, SameRowsHold
<1>2. CASE WorkerFail(w) \/ WorkerCrash(w) \/ RepairNotNeeded(w)
  <2>1. worker' = [worker EXCEPT ![w] = IdleWorker] /\ UNCHANGED <<object, replica>>
    BY <1>2 DEF WorkerFail, WorkerCrash, RepairNotNeeded, tables, catalog, space
  <2>2. \A x \in Task : task'[x] = task[x] \/ task'[x].token = w
    BY <1>2, <1>t DEF WorkerFail, WorkerCrash, RepairNotNeeded, TaskDone, tables, QueueRow
  <2>q. QED BY <1>j, <2>1, <2>2, WorkerHolds, SameRowsHold, CalmTargets
<1>3. CASE DeleteBegin(w)
  <2> DEFINE c == t[2]
             n == t[3]
             j == Job("remove", t, {}, None, node[n].instance)
             row == RepRow("deleting", Rep(c, n).charged, Rep(c, n).volume)
  <2>1. worker' = [worker EXCEPT ![w] = j] /\ UNCHANGED <<task, object>>
    BY <1>3 DEF DeleteBegin, catalog
  <2>2. c \in Chunk /\ n \in Node
    BY <1>3, WorkerNames DEF DeleteBegin, At
  <2>3. \/ UNCHANGED replica
        \/ n \in Rows(c) /\ replica' = [replica EXCEPT ![<<c, n>>] = row]
    BY <1>3 DEF DeleteBegin, Rep
  <2>4. Rep(c, n).state # "reserved"
    <3>1. Removable(c, n) /\ RowOK(object[c[1]], Rep(c, n), node[n])
      BY <1>3, <2>2 DEF DeleteBegin, RowInv
    <3>q. QED BY <3>1 DEF Removable, RowOK
  <2>5. row.state = "deleting" /\ j.pc \notin Repairing /\ (n \in Rows(c) => Rep(c, n).state # "absent")
    BY DEF RepRow, Job, Repairing, Rows
  <2> HIDE DEF j, row, c, n
  <2>6. FenceHeld
    BY <2>1, <2>5, WorkerHolds
  <2>q. QED BY <2>1, <2>2, <2>3, <2>4, <2>5, <2>6, OneRowHolds, SameRowsHold, CalmTargets
<1>4. ASSUME NEW from, NEW to, Rpc(w, from, to),
             \/ from = "remove" /\ to = "removed"
             \/ from \in Repairing /\ to \in {"put", "stat", "publish"}
      PROVE  CalmRows /\ HeldRows /\ FenceHeld
  <2> DEFINE j == [worker[w] EXCEPT !.pc = to]
  <2>1. worker' = [worker EXCEPT ![w] = j] /\ UNCHANGED <<object, replica, task>>
    BY <1>4, <1>t DEF Rpc, tables, catalog, space
  <2>2. worker[w].pc = from /\ j.task = t /\ j.target = worker[w].target /\ j.pc = to
    BY <1>4, <1>t DEF Rpc, WorkerState
  <2>3. "removed" \notin Repairing
    BY DEF Repairing
  <2> HIDE DEF j
  <2>4. FenceHeld
    BY <1>4, <2>1, <2>2, <2>3, WorkerHolds
  <2>q. QED BY <2>1, <2>4, SameRowsHold
<1>5. CASE DeleteCommit(w)
  <2> DEFINE c == t[2]
             n == t[3]
             row == RepRow(IF Rep(c, n).state = "deleting" THEN "gone" ELSE Rep(c, n).state,
                           "none", Rep(c, n).volume)
  <2>1. /\ worker' = [worker EXCEPT ![w] = IdleWorker] /\ UNCHANGED object
        /\ task' = TaskDone(w) /\ replica' = [replica EXCEPT ![<<c, n>>] = row]
    BY <1>5 DEF DeleteCommit, catalog, Rep
  <2>2. c \in Chunk /\ n \in Node
    BY <1>5, WorkerNames DEF DeleteCommit, At
  <2>3. \A x \in Task : task'[x] = task[x] \/ task'[x].token = w
    BY <1>t, <2>1 DEF TaskDone, QueueRow
  <2>4. Rep(c, n).state = "deleting"
    BY <1>5 DEF DeleteCommit, At, RemovalIsFenced
  <2>5. row.state = "gone"
    BY <2>4 DEF RepRow
  <2> HIDE DEF row, c, n
  <2>6. FenceHeld
    BY <1>j, <2>1, <2>3, WorkerHolds
  <2>q. QED BY <2>1, <2>2, <2>4, <2>5, <2>6, OneRowHolds, CalmTargets
<1>6. ASSUME NEW n \in Node, RepairBegin(w, n)
      PROVE  StagingRows' /\ OneRepairTarget' /\ HeldRows /\ FenceHeld
  BY <1>6, BeginHolds
<1>7. CASE RepairPublish(w)
  BY <1>7, PublishHolds, CalmTargets
<1>8. {"fetch", "put", "stat"} \subseteq Repairing
  BY DEF Repairing
<1>q. QED BY <1>1, <1>2, <1>3, <1>4, <1>5, <1>6, <1>7, <1>8, CalmTargets
          DEF DeleteRemoved, RepairFetch, RepairPut, RepairStat

-----------------------------------------------------------------------------
\* Everything the reservations rest on, in every reachable state.
RepairInv == SpaceInv /\ ObjectsInv /\ StagingRows /\ OneRepairTarget /\ RepairIsFenced

\* At first nothing is staged, published or repaired.
LEMMA RepairInit == Init => StagingRows /\ OneRepairTarget /\ RepairIsFenced
<1>1. Init => \A c \in Chunk : object[c[1]] = "absent"
  BY ChunkObject DEF Init
<1>2. Init => \A w \in Worker : worker[w].pc = "idle"
  BY DEF Init, IdleWorker, Job
<1>q. QED BY <1>1, <1>2 DEF StagingRows, OneRepairTarget, RepairIsFenced, Repairing

\* Every step keeps the three parts that SpaceInv and ObjectsInv do not have.
LEMMA RepairNext ==
  ASSUME SpaceInv, ObjectsInv, StagingRows, OneRepairTarget, RepairIsFenced, TypeOK', [Next]_vars
  PROVE  StagingRows' /\ OneRepairTarget' /\ RepairIsFenced'
<1>1. TypeOK /\ RowInv /\ RemovalIsFenced
  BY RowInvParts DEF SpaceInv
<1>2. CASE Requests \/ Tasks
  BY <1>1, <1>2, RequestsHold, TasksHold, RepairFenceKept
<1>3. CASE Environment \/ Maintenance
  BY <1>1, <1>3, EnvironmentHolds, MaintenanceHolds, CalmTargets, RepairFenceKept
<1>4. CASE UNCHANGED vars
  <2>1. UNCHANGED <<object, replica, task, worker>>
    BY <1>4 DEF vars, tables, catalog, space, threads
  <2>q. QED BY <1>1, <2>1, SameRowsHold, OthersHold, CalmTargets, RepairFenceKept
<1>q. QED BY <1>2, <1>3, <1>4 DEF Next

\* A chunk of an upload has at most its Replicas rows, one repair reserves at a time,
\* and the row of a repair under the fence waits for it (metadata.py, repair_task).
THEOREM RepairsAreInvariant == Spec => []RepairInv
<1>1. Init => StagingRows /\ OneRepairTarget /\ RepairIsFenced
  BY RepairInit
<1>2. SpaceInv /\ ObjectsInv /\ StagingRows /\ OneRepairTarget /\ RepairIsFenced /\ TypeOK' /\ [Next]_vars
      => StagingRows' /\ OneRepairTarget' /\ RepairIsFenced'
  BY RepairNext
<1>q. QED BY <1>1, <1>2, SpaceIsInvariant, ObjectsInvariant, TypeCorrect, PTL DEF Spec, RepairInv

\* "Reuse a pending target after a crash instead of reserving twice"
\* (metadata.py, repair_task): published data never has two repair targets.
THEOREM OneTarget == Spec => []OneRepairTarget
<1>1. RepairInv => OneRepairTarget
  BY DEF RepairInv
<1>q. QED BY <1>1, RepairsAreInvariant, PTL

\* Whatever other workers, requests and restarts do meanwhile, a repair whose claim
\* still passes the fence finds its target reserved when it publishes.
THEOREM RepairsHoldReservations == Spec => []RepairHoldsReservation
<1>1. RepairInv => RepairHoldsReservation
  BY DEF RepairInv, RepairIsFenced, RepairHoldsReservation, Repairing
<1>q. QED BY <1>1, RepairsAreInvariant, PTL
=============================================================================
