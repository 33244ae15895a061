------------------------- MODULE StorageNode_proofs --------------------------
(***************************************************************************)
(* Proofs about StorageNode, for all chunks, contents, volumes, numbers of *)
(* files and capacities: its inductive invariant, and the refinement of    *)
(* ChunkStore.                                                             *)
(***************************************************************************)
EXTENDS StorageNode, TLAPS

\* What an entry stands for.
Value(x) == IF x = Absent THEN Absent ELSE file[x]

\* The directory that processes see is one of those that a power failure may leave.
Entries == \A n \in Name : dir[n] \in onDisk[n]

\* Whatever a chunk's entry is after a power failure: the file is whole and on disk.
WholeChunks == \A c \in Chunk : \A x \in onDisk[c] : x # Absent => x \in synced /\ file[x] \in Data

\* ... and it is what was promised.
Promised == \A c \in Chunk : promise[c] # Unknown => \A x \in onDisk[c] : Value(x) = promise[c]

\* The chunks that may differ from what is on the disk.
Durable ==
  op.pc # "down" /\ op.task \in {"none", "put", "remove"} =>
    \A c \in Chunk \ unsure : (c = op.name /\ op.pc \in {"unlink", "syncdir"}) \/ onDisk[c] = {dir[c]}

\* Where each operation is.
Steps ==
  /\ op.pc \in {"write", "sync"} => op.task \in {"identity", "put"}
  /\ op.pc \in {"link", "unlink"} => op.task = "put"
  /\ op.pc = "remove" => op.task = "remove"
  /\ op.pc = "clean" => op.task = "start"
  /\ op.pc \in {"idle", "down"} => op.task = "none"
  /\ op.pc = "syncdir" => op.task # "none"

\* The file of a put belongs to nobody else until it is linked, and is on the disk then.
PutOK ==
  /\ op.task \in {"put", "remove"} => op.name \in Chunk
  /\ op.task = "remove" => promise[op.name] = Unknown
  /\ op.task = "put" /\ op.pc # "syncdir" =>
       op.inode \in Inode /\ op.data \in Data /\ promise[op.name] = Unknown
  /\ op.task = "put" /\ op.pc \in {"write", "sync", "link"} =>
       \A n \in Chunk \cup {Identity} : op.inode \notin onDisk[n]
  /\ op.task = "put" /\ op.pc \in {"sync", "link"} => file[op.inode] = op.data
  /\ op.task = "put" /\ op.pc = "link" => op.inode \in synced

\* The identity is written before anybody knows it, and read before it is announced.
IdentityOK ==
  /\ op.task = "identity" =>
       /\ op.inode \in Inode /\ op.data \in Volume /\ served = {} /\ dir[Identity] = op.inode
       /\ \A c \in Chunk : op.inode \notin onDisk[c]
       /\ op.pc # "write" => file[op.inode] = op.data
  /\ op.task = "start" => Content(Identity) \in Volume

NodeInv ==
  /\ NodeTypeOK /\ Entries /\ WholeChunks /\ Promised
  /\ Durable /\ Steps /\ PutOK /\ IdentityOK /\ VolumeKept

\* The identity is created under a fresh inode, before the node has served anything.
LEMMA FirstStartInv ==
  ASSUME NodeInv, NEW i \in Inode, NEW v \in Volume, FirstStart(i, v)
  PROVE  NodeInv'
<1>1. NodeTypeOK'
  BY DEF NodeTypeOK, OpType, NodeInv, FirstStart, Created, SetEntry, Op, At
<1>2. Entries'
  BY DEF NodeTypeOK, Entries, NodeInv, FirstStart, Created, Unnamed, SetEntry, Op, At
<1>3. WholeChunks'
  BY StorageAssumption
  DEF Name, WholeChunks, NodeInv, FirstStart, Created, Unnamed, SetEntry, Op, At
<1>4. Promised'
  BY StorageAssumption
  DEF Name, Promised, Value, IdentityOK, NodeInv, FirstStart, Created, Unnamed, SetEntry, Op, At
<1>5. Durable'
  BY DEF Durable, FirstStart, Created, Unnamed, SetEntry, Op, At
<1>6. Steps'
  BY DEF Steps, FirstStart, Op, At
<1>7. PutOK'
  BY DEF PutOK, FirstStart, Created, Unnamed, SetEntry, Op, At
<1>8. IdentityOK'
  BY StorageAssumption
  DEF NodeTypeOK, Name, IdentityOK, Entries, VolumeKept, NodeInv, FirstStart, Created, Unnamed,
      SetEntry, Op, At
<1>9. VolumeKept'
  BY DEF Name, VolumeKept, Entries, NodeInv, FirstStart, Created, Unnamed, SetEntry, Op, At
<1>q. QED BY <1>1, <1>2, <1>3, <1>4, <1>5, <1>6, <1>7, <1>8, <1>9 DEF NodeInv

\* A start reads the identity and goes on only when it is readable (storage.py 45-49).
LEMMA StartInv ==
  ASSUME NodeInv, Start
  PROVE  NodeInv'
<1>1. NodeTypeOK'
  BY DEF NodeTypeOK, OpType, NodeInv, Start, Starting, Op
<1>2. Entries'
  BY DEF Entries, NodeInv, Start, Op, At
<1>3. WholeChunks'
  BY DEF WholeChunks, NodeInv, Start, Starting, Op, At
<1>4. Promised'
  BY DEF Promised, Value, IdentityOK, NodeInv, Start, Starting, Op, At
<1>5. Durable'
  BY DEF Durable, Start, Starting, Op, At
<1>6. Steps'
  BY DEF Steps, Start, Starting, Op
<1>7. PutOK'
  BY DEF PutOK, Start, Starting, Op, At
<1>8. IdentityOK'
  BY DEF Content, IdentityOK, NodeInv, Start, Starting, Op, At
<1>9. VolumeKept'
  BY DEF VolumeKept, NodeInv, Start, Starting, Op, At
<1>q. QED BY <1>1, <1>2, <1>3, <1>4, <1>5, <1>6, <1>7, <1>8, <1>9 DEF NodeInv

\* Temporary files of a killed put are removed at the start and the directory is synchronised.
LEMMA CleanInv ==
  ASSUME NodeInv, Clean
  PROVE  NodeInv'
<1>1. NodeTypeOK'
  BY DEF NodeTypeOK, OpType, NodeInv, Clean, Goto
<1>2. Entries'
  BY DEF Entries, NodeInv, Clean, Goto
<1>3. WholeChunks'
  BY DEF Name, WholeChunks, NodeInv, Clean, At, Goto
<1>4. Promised'
  BY StorageAssumption DEF Name, Promised, Value, IdentityOK, NodeInv, Clean, At, Goto
<1>5. Durable'
  BY DEF Durable, Steps, NodeInv, Clean, At, Goto
<1>6. Steps'
  BY DEF Steps, NodeInv, Clean, At, Goto
<1>7. PutOK'
  BY DEF PutOK, NodeInv, Clean, At, Goto
<1>8. IdentityOK'
  BY StorageAssumption DEF Content, Name, IdentityOK, NodeInv, Clean, At, Goto
<1>9. VolumeKept'
  BY StorageAssumption DEF Name, VolumeKept, NodeInv, Clean, At, Goto
<1>q. QED BY <1>1, <1>2, <1>3, <1>4, <1>5, <1>6, <1>7, <1>8, <1>9 DEF NodeInv

\* A put starts with a temporary file of a fresh inode (mkstemp); its chunk is not promised meanwhile.
LEMMA PutInv ==
  ASSUME NodeInv, NEW c \in Chunk, NEW d \in Data, NEW i \in Inode, Put(c, d, i)
  PROVE  NodeInv'
<1>1. NodeTypeOK'
  BY DEF NodeTypeOK, OpType, NodeInv, Put, Created, SetEntry, Op, At
<1>2. Entries'
  BY DEF NodeTypeOK, Entries, NodeInv, Put, Created, Unnamed, SetEntry, Op, At
<1>3. WholeChunks'
  BY StorageAssumption DEF Name, WholeChunks, NodeInv, Put, Created, Unnamed, SetEntry, Op, At
<1>4. Promised'
  BY StorageAssumption
  DEF Name, Promised, Value, IdentityOK, NodeInv, Put, Created, Unnamed, SetEntry, Op, At
<1>5. Durable'
  BY StorageAssumption DEF Durable, Steps, NodeInv, Put, Created, Unnamed, SetEntry, Op, At
<1>6. Steps'
  BY DEF Steps, Put, Op, At
<1>7. PutOK'
  BY StorageAssumption DEF NodeTypeOK, Name, PutOK, NodeInv, Put, Created, Unnamed, SetEntry, Op, At
<1>8. IdentityOK'
  BY DEF IdentityOK, NodeInv, Put, Created, Unnamed, SetEntry, Op, At
<1>9. VolumeKept'
  BY DEF NodeTypeOK, Name, VolumeKept, Entries, NodeInv, Put, Created, Unnamed, SetEntry, Op, At
<1>q. QED BY <1>1, <1>2, <1>3, <1>4, <1>5, <1>6, <1>7, <1>8, <1>9 DEF NodeInv

\* A put of a chunk that is there answers only after a directory sync.
LEMMA PutAgainInv ==
  ASSUME NodeInv, NEW c \in Chunk, NEW d \in Data, PutAgain(c, d)
  PROVE  NodeInv'
<1>1. NodeTypeOK'
  BY DEF NodeTypeOK, OpType, NodeInv, PutAgain, Op
<1>2. Entries'
  BY DEF Entries, NodeInv, PutAgain, At
<1>3. WholeChunks'
  BY DEF WholeChunks, NodeInv, PutAgain, Op, At
<1>4. Promised'
  BY DEF Promised, Value, IdentityOK, NodeInv, PutAgain, Op, At
<1>5. Durable'
  BY DEF Durable, Steps, NodeInv, PutAgain, Op, At
<1>6. Steps'
  BY DEF Steps, PutAgain, Op
<1>7. PutOK'
  BY DEF PutOK, PutAgain, Op, At
<1>8. IdentityOK'
  BY DEF IdentityOK, NodeInv, PutAgain, Op, At
<1>9. VolumeKept'
  BY DEF VolumeKept, NodeInv, PutAgain, Op, At
<1>q. QED BY <1>1, <1>2, <1>3, <1>4, <1>5, <1>6, <1>7, <1>8, <1>9 DEF NodeInv

\* Data goes to the temporary file, which no chunk name may show.
LEMMA WriteInv ==
  ASSUME NodeInv, Write
  PROVE  NodeInv'
<1>1. NodeTypeOK'
  BY DEF NodeTypeOK, OpType, NodeInv, Write, Goto
<1>2. Entries'
  BY DEF Entries, NodeInv, Write, Goto
<1>3. WholeChunks'
  BY DEF WholeChunks, Steps, PutOK, IdentityOK, NodeInv, Write, At, Goto
<1>4. Promised'
  BY DEF Promised, Value, Steps, PutOK, IdentityOK, NodeInv, Write, At, Goto
<1>5. Durable'
  BY DEF Durable, NodeInv, Write, At, Goto
<1>6. Steps'
  BY DEF Steps, NodeInv, Write, At, Goto
<1>7. PutOK'
  BY DEF NodeTypeOK, PutOK, NodeInv, Write, At, Goto
<1>8. IdentityOK'
  BY DEF NodeTypeOK, IdentityOK, Steps, NodeInv, Write, At, Goto
<1>9. VolumeKept'
  BY DEF VolumeKept, Steps, PutOK, IdentityOK, NodeInv, Write, At, Goto
<1>q. QED BY <1>1, <1>2, <1>3, <1>4, <1>5, <1>6, <1>7, <1>8, <1>9 DEF NodeInv

\* After fsync the temporary file is whole whatever happens.
LEMMA FsyncInv ==
  ASSUME NodeInv, Fsync
  PROVE  NodeInv'
<1>1. NodeTypeOK'
  BY DEF NodeTypeOK, PutOK, IdentityOK, Steps, OpType, NodeInv, Fsync, At, Goto
<1>2. Entries'
  BY DEF Entries, NodeInv, Fsync, Goto
<1>3. WholeChunks'
  BY DEF WholeChunks, NodeInv, Fsync, At, Goto
<1>4. Promised'
  BY DEF Promised, Value, IdentityOK, NodeInv, Fsync, At, Goto
<1>5. Durable'
  BY DEF Durable, NodeInv, Fsync, At, Goto
<1>6. Steps'
  BY DEF Steps, NodeInv, Fsync, At, Goto
<1>7. PutOK'
  BY DEF PutOK, NodeInv, Fsync, At, Goto
<1>8. IdentityOK'
  BY DEF IdentityOK, Steps, NodeInv, Fsync, At, Goto
<1>9. VolumeKept'
  BY DEF VolumeKept, NodeInv, Fsync, At, Goto
<1>q. QED BY <1>1, <1>2, <1>3, <1>4, <1>5, <1>6, <1>7, <1>8, <1>9 DEF NodeInv

\* The name appears with a file that is whole and on the disk.
LEMMA LinkInv ==
  ASSUME NodeInv, Link
  PROVE  NodeInv'
<1>1. NodeTypeOK'
  BY DEF NodeTypeOK, OpType, NodeInv, Link, Goto, SetEntry
<1>2. Entries'
  BY DEF NodeTypeOK, Entries, NodeInv, Link, Goto, SetEntry
<1>3. WholeChunks'
  BY DEF WholeChunks, Steps, PutOK, NodeInv, Link, At, Goto, SetEntry
<1>4. Promised'
  BY DEF Promised, Value, Steps, PutOK, IdentityOK, NodeInv, Link, At, Goto, SetEntry
<1>5. Durable'
  BY DEF Durable, NodeInv, Link, At, Goto, SetEntry
<1>6. Steps'
  BY DEF Steps, NodeInv, Link, At, Goto
<1>7. PutOK'
  BY DEF PutOK, NodeInv, Link, At, Goto, SetEntry
<1>8. IdentityOK'
  BY DEF IdentityOK, Steps, NodeInv, Link, At, Goto, SetEntry
<1>9. VolumeKept'
  BY StorageAssumption DEF VolumeKept, Steps, PutOK, NodeInv, Link, At, Goto, SetEntry
<1>q. QED BY <1>1, <1>2, <1>3, <1>4, <1>5, <1>6, <1>7, <1>8, <1>9 DEF NodeInv

\* The temporary name goes, the chunk name stays.
LEMMA UnlinkTmpInv ==
  ASSUME NodeInv, UnlinkTmp
  PROVE  NodeInv'
<1>1. NodeTypeOK'
  BY DEF NodeTypeOK, OpType, NodeInv, UnlinkTmp, Goto, SetEntry
<1>2. Entries'
  BY DEF NodeTypeOK, Entries, NodeInv, UnlinkTmp, Goto, SetEntry
<1>3. WholeChunks'
  BY DEF WholeChunks, NodeInv, UnlinkTmp, At, Goto, SetEntry
<1>4. Promised'
  BY StorageAssumption
  DEF Promised, Value, Steps, PutOK, IdentityOK, NodeInv, UnlinkTmp, At, Goto, SetEntry
<1>5. Durable'
  BY StorageAssumption DEF Durable, Steps, PutOK, NodeInv, UnlinkTmp, At, Goto, SetEntry
<1>6. Steps'
  BY DEF Steps, NodeInv, UnlinkTmp, At, Goto
<1>7. PutOK'
  BY DEF PutOK, NodeInv, UnlinkTmp, At, Goto, SetEntry
<1>8. IdentityOK'
  BY DEF IdentityOK, Steps, NodeInv, UnlinkTmp, At, Goto, SetEntry
<1>9. VolumeKept'
  BY StorageAssumption DEF VolumeKept, Steps, PutOK, NodeInv, UnlinkTmp, At, Goto, SetEntry
<1>q. QED BY <1>1, <1>2, <1>3, <1>4, <1>5, <1>6, <1>7, <1>8, <1>9 DEF NodeInv

\* A remove withdraws the promise before it touches the directory.
LEMMA RemoveInv ==
  ASSUME NodeInv, NEW c \in Chunk, Remove(c)
  PROVE  NodeInv'
<1>1. NodeTypeOK'
  BY DEF NodeTypeOK, OpType, NodeInv, Remove, Op
<1>2. Entries'
  BY DEF Entries, NodeInv, Remove, At
<1>3. WholeChunks'
  BY DEF WholeChunks, NodeInv, Remove, Op, At
<1>4. Promised'
  BY DEF Promised, Value, IdentityOK, NodeInv, Remove, Op, At
<1>5. Durable'
  BY DEF Durable, Steps, NodeInv, Remove, Op, At
<1>6. Steps'
  BY DEF Steps, Remove, Op
<1>7. PutOK'
  BY DEF NodeTypeOK, PutOK, NodeInv, Remove, Op, At
<1>8. IdentityOK'
  BY DEF IdentityOK, NodeInv, Remove, Op, At
<1>9. VolumeKept'
  BY DEF VolumeKept, NodeInv, Remove, Op, At
<1>q. QED BY <1>1, <1>2, <1>3, <1>4, <1>5, <1>6, <1>7, <1>8, <1>9 DEF NodeInv

\* The name goes; until the directory is synchronised a power failure may bring it back.
LEMMA UnlinkInv ==
  ASSUME NodeInv, Unlink
  PROVE  NodeInv'
<1>1. NodeTypeOK'
  BY DEF NodeTypeOK, OpType, NodeInv, Unlink, Goto, SetEntry
<1>2. Entries'
  BY DEF NodeTypeOK, Entries, NodeInv, Unlink, Goto, SetEntry
<1>3. WholeChunks'
  BY DEF NodeTypeOK, Name, WholeChunks, NodeInv, Unlink, At, Goto, SetEntry
<1>4. Promised'
  BY
  DEF NodeTypeOK, Name, Promised, Value, Steps, PutOK, IdentityOK, NodeInv, Unlink, At, Goto,
      SetEntry
<1>5. Durable'
  BY DEF NodeTypeOK, Name, Durable, NodeInv, Unlink, At, Goto, SetEntry
<1>6. Steps'
  BY DEF Steps, NodeInv, Unlink, At, Goto
<1>7. PutOK'
  BY DEF PutOK, NodeInv, Unlink, At, Goto, SetEntry
<1>8. IdentityOK'
  BY DEF IdentityOK, Steps, NodeInv, Unlink, At, Goto, SetEntry
<1>9. VolumeKept'
  BY StorageAssumption
  DEF NodeTypeOK, Name, VolumeKept, Steps, PutOK, NodeInv, Unlink, At, Goto, SetEntry
<1>q. QED BY <1>1, <1>2, <1>3, <1>4, <1>5, <1>6, <1>7, <1>8, <1>9 DEF NodeInv

\* After the directory sync the disk has what processes see, and the answer is a promise.
LEMMA SyncDirInv ==
  ASSUME NodeInv, SyncDir
  PROVE  NodeInv'
<1>1. NodeTypeOK'
  BY
  DEF Content, NodeTypeOK, IdentityOK, WholeChunks, Entries, OpType, Name, NodeInv, SyncDir, At,
      Linked, Starting, Rest, Op
<1>2. Entries'
  BY DEF Entries, SyncDir, Linked, Starting, Rest, Op
<1>3. WholeChunks'
  BY DEF NodeTypeOK, Name, WholeChunks, Entries, NodeInv, SyncDir, At, Linked, Starting, Rest, Op
<1>4. Promised'
  BY
  DEF Content, NodeTypeOK, Name, Promised, Value, Entries, IdentityOK, NodeInv, SyncDir, At, Linked,
      Starting, Rest, Op, Content
<1>5. Durable'
  BY DEF Name, Durable, SyncDir, At, Linked, Starting, Rest, Op
<1>6. Steps'
  BY DEF Steps, SyncDir, Starting, Rest, Op
<1>7. PutOK'
  BY DEF PutOK, SyncDir, At, Linked, Starting, Rest, Op
<1>8. IdentityOK'
  BY StorageAssumption
  DEF Content, Name, IdentityOK, NodeInv, SyncDir, At, Linked, Starting, Rest, Op
<1>9. VolumeKept'
  BY StorageAssumption
  DEF Content, NodeTypeOK, Name, VolumeKept, Entries, IdentityOK, NodeInv, SyncDir, At, Linked,
      Starting, Rest, Op
<1>q. QED BY <1>1, <1>2, <1>3, <1>4, <1>5, <1>6, <1>7, <1>8, <1>9 DEF NodeInv

\* A failing system call ends a put with its temporary file removed; a failed sync leaves the chunk unsure.
LEMMA FailsInv ==
  ASSUME NodeInv, Fails
  PROVE  NodeInv'
<1>1. NodeTypeOK'
  BY DEF NodeTypeOK, PutOK, OpType, NodeInv, Fails, SetEntry, Rest, Down, Op
<1>2. Entries'
  BY DEF NodeTypeOK, Entries, NodeInv, Fails, SetEntry, Rest, Down, Op
<1>3. WholeChunks'
  BY DEF NodeTypeOK, Name, WholeChunks, NodeInv, Fails, SetEntry, Rest, Down, Op
<1>4. Promised'
  BY StorageAssumption
  DEF NodeTypeOK, Name, Promised, Value, PutOK, IdentityOK, NodeInv, Fails, SetEntry, Rest, Down, Op
<1>5. Durable'
  BY StorageAssumption
  DEF NodeTypeOK, Name, Durable, PutOK, NodeInv, Fails, SetEntry, Rest, Down, Op
<1>6. Steps'
  BY DEF Steps, Fails, Rest, Down, Op
<1>7. PutOK'
  BY DEF PutOK, Fails, SetEntry, Rest, Down, Op
<1>8. IdentityOK'
  BY DEF IdentityOK, NodeInv, Fails, SetEntry, Rest, Down, Op
<1>9. VolumeKept'
  BY StorageAssumption
  DEF NodeTypeOK, Name, VolumeKept, PutOK, NodeInv, Fails, SetEntry, Rest, Down, Op
<1>q. QED BY <1>1, <1>2, <1>3, <1>4, <1>5, <1>6, <1>7, <1>8, <1>9 DEF NodeInv

\* SIGKILL leaves the files as they are.
LEMMA KilledInv ==
  ASSUME NodeInv, Killed
  PROVE  NodeInv'
<1>1. NodeTypeOK'
  BY DEF NodeTypeOK, OpType, NodeInv, Killed, Down, Rest, Op
<1>2. Entries'
  BY DEF Entries, NodeInv, Killed, Rest, Op
<1>3. WholeChunks'
  BY DEF WholeChunks, NodeInv, Killed, Down, Rest, Op
<1>4. Promised'
  BY DEF Promised, Value, IdentityOK, NodeInv, Killed, Down, Rest, Op
<1>5. Durable'
  BY DEF Durable, Killed, Down, Rest, Op
<1>6. Steps'
  BY DEF Steps, Killed, Down, Rest, Op
<1>7. PutOK'
  BY DEF PutOK, Killed, Down, Rest, Op
<1>8. IdentityOK'
  BY DEF IdentityOK, NodeInv, Killed, Down, Rest, Op
<1>9. VolumeKept'
  BY DEF VolumeKept, NodeInv, Killed, Down, Rest, Op
<1>q. QED BY <1>1, <1>2, <1>3, <1>4, <1>5, <1>6, <1>7, <1>8, <1>9 DEF NodeInv

\* A power failure leaves under every name one of the entries that may be on the disk.
LEMMA PowerFailsInv ==
  ASSUME NodeInv, PowerFails
  PROVE  NodeInv'
<1>1. NodeTypeOK'
  <2>1. dir' \in [Name -> Inode \cup {Absent}]
    BY DEF NodeTypeOK, NodeInv, PowerFails
  <2>2. onDisk' \in [Name -> SUBSET (Inode \cup {Absent})]
    BY <2>1 DEF PowerFails
  <2>3. synced' \subseteq Inode
    BY <2>1 DEF PowerFails, Linked
  <2>4. file' \in [Inode -> Data \cup Volume \cup {Partial}]
    BY DEF NodeTypeOK, NodeInv, PowerFails
  <2>5. op' \in OpType
    BY DEF PowerFails, Down, Rest, Op, OpType
  <2>q. QED BY <2>2, <2>3, <2>5 DEF NodeTypeOK, NodeInv, PowerFails
<1>2. Entries'
  BY DEF Entries, PowerFails, Down, Rest, Op
<1>3. WholeChunks'
  BY DEF NodeTypeOK, Name, WholeChunks, NodeInv, PowerFails, Linked, Down, Rest, Op
<1>4. Promised'
  BY StorageAssumption
  DEF NodeTypeOK, Name, Promised, Value, WholeChunks, IdentityOK, NodeInv, PowerFails, Linked, Down,
      Rest, Op
<1>5. Durable'
  BY DEF Durable, PowerFails, Linked, Down, Rest, Op
<1>6. Steps'
  BY DEF Steps, PowerFails, Down, Rest, Op
<1>7. PutOK'
  BY DEF PutOK, PowerFails, Linked, Down, Rest, Op
<1>8. IdentityOK'
  BY DEF IdentityOK, NodeInv, PowerFails, Linked, Down, Rest, Op
<1>9. VolumeKept'
  BY
  DEF NodeTypeOK, OpType, Name, VolumeKept, IdentityOK, NodeInv, PowerFails, Linked, Down, Rest, Op
<1>q. QED BY <1>1, <1>2, <1>3, <1>4, <1>5, <1>6, <1>7, <1>8, <1>9 DEF NodeInv

\* A step that leaves every chunk name and its file alone is a stutter of ChunkStore.
LEMMA Unchanged ==
  ASSUME NodeInv, NodeInv', UNCHANGED promise,
         \A c \in Chunk : dir'[c] = dir[c] /\ (dir[c] # Absent => file'[dir[c]] = file[dir[c]])
  PROVE  UNCHANGED Store!storeVars
  BY StorageAssumption DEF StorageAssumption, Store!storeVars, Content

\* A step may change only chunks about which nothing is promised.
LEMMA Unpromised ==
  ASSUME NodeInv, NodeInv', UNCHANGED promise,
         \A c \in Chunk : promise[c] # Unknown => dir'[c] \in onDisk[c] /\ (dir'[c] # Absent => file'[dir'[c]] = file[dir'[c]])
  PROVE  Store!Change
<1>1. \A c \in Chunk : Content(c)' # Content(c) => promise[c] = Unknown
  BY StorageAssumption DEF StorageAssumption, NodeInv, Entries, Promised, Value, Content, Name
<1>2. [c \in Chunk |-> Content(c)]' \in [Chunk -> Data \cup {Absent}]
  <2>1. NodeInv' => [c \in Chunk |-> Content(c)]' \in [Chunk -> Data \cup {Absent}]
    BY DEF NodeInv, NodeTypeOK, Entries, WholeChunks, Content, Name
  <2>q. QED BY <2>1
<1>q. QED BY <1>1, <1>2 DEF Store!Change

\* An empty directory is an empty store.
LEMMA InitRefines == NodeInit => Store!StoreInit
  BY DEF NodeInit, Store!StoreInit, Content, Name

\* Every system call of put and remove, every fault and every start is a step of ChunkStore or a stutter.
LEMMA StepRefines ==
  ASSUME NodeInv, NodeInv', [NodeNext]_nodeVars
  PROVE  [Store!StoreNext]_(Store!storeVars)
<1> USE StorageAssumption
<1>1. ASSUME NEW i \in Inode, NEW v \in Volume, FirstStart(i, v)
      PROVE  UNCHANGED Store!storeVars
  BY <1>1, Unchanged
  DEF FirstStart, Created, Unnamed, SetEntry, NodeInv, NodeTypeOK, Entries, Name, StorageAssumption
<1>2. CASE Start \/ Killed
  BY <1>2, Unchanged DEF Start, Killed
<1>3. CASE Clean
  BY <1>3, Unchanged DEF Clean, Name, StorageAssumption, NodeInv, NodeTypeOK
<1>4. ASSUME NEW c \in Chunk, NEW d \in Data, NEW i \in Inode, Put(c, d, i)
      PROVE  Store!Begin(c)
  BY <1>4
  DEF Put, Created, Unnamed, SetEntry, NodeInv, NodeTypeOK, Entries, Name, StorageAssumption,
      Store!Begin, Content
<1>5. ASSUME NEW c \in Chunk, NEW d \in Data, PutAgain(c, d)
      PROVE  UNCHANGED Store!storeVars
  BY <1>5, Unchanged DEF PutAgain
<1>6. ASSUME NEW c \in Chunk, Remove(c)
      PROVE  Store!Begin(c)
  BY <1>6 DEF Remove, Store!Begin, Content
<1>7. CASE Write
  <2>1. \A c \in Chunk : dir[c] # op.inode
    BY <1>7 DEF Write, At, NodeInv, Entries, Steps, PutOK, IdentityOK, Name
  <2>q. QED BY <1>7, <2>1, Unchanged DEF Write, NodeInv, NodeTypeOK, Name
<1>8. CASE Fsync
  BY <1>8, Unchanged DEF Fsync
<1>9. CASE Link
  <2>1. op.name \in Chunk /\ promise[op.name] = Unknown /\ op.inode \in Inode
    BY <1>9 DEF Link, At, NodeInv, Steps, PutOK
  <2>2. \A c \in Chunk : promise[c] # Unknown => dir'[c] = dir[c]
    BY <1>9, <2>1 DEF Link, SetEntry, NodeInv, NodeTypeOK, Name
  <2>q. QED BY <1>9, <2>2, Unpromised DEF Link, NodeInv, Entries, Name, Store!StoreNext
<1>10. CASE UnlinkTmp
  <2>1. op.inode \in Inode
    BY <1>10 DEF UnlinkTmp, At, NodeInv, Steps, PutOK
  <2>q. QED BY <1>10, <2>1, Unchanged
  DEF UnlinkTmp, SetEntry, NodeInv, NodeTypeOK, Name, StorageAssumption
<1>11. CASE Unlink
  <2>1. op.name \in Chunk /\ promise[op.name] = Unknown
    BY <1>11 DEF Unlink, At, NodeInv, Steps, PutOK
  <2>2. \A c \in Chunk : promise[c] # Unknown => dir'[c] = dir[c]
    BY <1>11, <2>1 DEF Unlink, SetEntry, NodeInv, NodeTypeOK, Name
  <2>q. QED BY <1>11, <2>2, Unpromised DEF Unlink, NodeInv, Entries, Name, Store!StoreNext
<1>12. CASE SyncDir
  <2>1. \A c \in Chunk : Content(c)' = Content(c)
    BY <1>12 DEF SyncDir, Linked, Content, NodeInv, NodeTypeOK, Name
  <2>2. [c \in Chunk |-> Content(c)]' = [c \in Chunk |-> Content(c)]
    BY <2>1
  <2>3. CASE op.task \in {"put", "remove"}
    <3>1. op.name \in Chunk /\ Store!Answer(op.name)
      BY <1>12, <2>2, <2>3 DEF SyncDir, NodeInv, PutOK, Store!Answer
    <3>q. QED BY <3>1 DEF Store!StoreNext
  <2>4. CASE op.task \notin {"put", "remove"}
    BY <1>12, <2>2, <2>4 DEF SyncDir, Store!storeVars
  <2>q. QED BY <2>3, <2>4
<1>13. CASE Fails
  <2>1. op.task = "put" /\ op.pc # "syncdir" => op.inode \in Inode
    BY DEF NodeInv, PutOK
  <2>2. \A c \in Chunk : dir'[c] = dir[c]
    BY <1>13, <2>1 DEF Fails, SetEntry, NodeInv, NodeTypeOK, Name, StorageAssumption
  <2>q. QED BY <1>13, <2>2, Unchanged DEF Fails
<1>14. CASE PowerFails
  <2>1. ASSUME NEW c \in Chunk
        PROVE  dir'[c] \in onDisk[c] /\ (dir'[c] # Absent => file'[dir'[c]] = file[dir'[c]])
    <3>1. dir'[c] \in onDisk[c]
      BY <1>14 DEF PowerFails, NodeInv, Entries, Name
    <3>2. CASE dir'[c] # Absent
      BY <1>14, <3>1, <3>2 DEF PowerFails, Linked, NodeInv, NodeTypeOK, WholeChunks, Name
    <3>q. QED BY <3>1, <3>2
  <2>2. UNCHANGED promise
    BY <1>14 DEF PowerFails
  <2>q. QED BY <2>1, <2>2, Unpromised DEF Store!StoreNext
<1>15. CASE UNCHANGED nodeVars
  BY <1>15, Unchanged DEF nodeVars
<1>q. QED
  BY <1>1, <1>2, <1>3, <1>4, <1>5, <1>6, <1>7, <1>8, <1>9, <1>10, <1>11, <1>12, <1>13, <1>14, <1>15
  DEF NodeNext, Store!StoreNext

\* The empty directory of a new node.
LEMMA InitInv == NodeInit => NodeInv
  BY StorageAssumption
  DEF StorageAssumption, NodeInit, NodeInv, NodeTypeOK, OpType, Name, Op, Rest, Down, Entries, WholeChunks,
      Promised, Value, Durable, Steps, PutOK, IdentityOK, VolumeKept

\* Every step keeps the invariant.
LEMMA NextInv == NodeInv /\ [NodeNext]_nodeVars => NodeInv'
<1> SUFFICES ASSUME NodeInv, [NodeNext]_nodeVars
             PROVE  NodeInv'
  OBVIOUS
<1>1. CASE \E i \in Inode, v \in Volume : FirstStart(i, v)
  BY <1>1, FirstStartInv
<1>2. CASE \E c \in Chunk, d \in Data : PutAgain(c, d) \/ \E i \in Inode : Put(c, d, i)
  BY <1>2, PutInv, PutAgainInv
<1>3. CASE \E c \in Chunk : Remove(c)
  BY <1>3, RemoveInv
<1>4. CASE Start \/ Clean
  BY <1>4, StartInv, CleanInv
<1>5. CASE Write \/ Fsync \/ Link \/ UnlinkTmp \/ Unlink \/ SyncDir
  BY <1>5, WriteInv, FsyncInv, LinkInv, UnlinkTmpInv, UnlinkInv, SyncDirInv
<1>6. CASE Fails \/ Killed \/ PowerFails
  BY <1>6, FailsInv, KilledInv, PowerFailsInv
<1>7. CASE UNCHANGED nodeVars
  BY <1>7 DEF nodeVars, NodeInv, NodeTypeOK, Entries, WholeChunks, Promised, Value, Durable, Steps,
              PutOK, IdentityOK, VolumeKept, Content
<1>q. QED BY <1>1, <1>2, <1>3, <1>4, <1>5, <1>6, <1>7 DEF NodeNext

\* Whatever is interrupted where: chunk names lead to whole files on the disk, with the promised content.
THEOREM NodeInvariant == NodeSpec => []NodeInv
  BY InitInv, NextInv, PTL DEF NodeSpec

\* The directory, the disk and the running operation have their types.
THEOREM NodeTypes == NodeSpec => []NodeTypeOK
<1>1. NodeInv => NodeTypeOK
  BY DEF NodeInv
<1>q. QED BY <1>1, NodeInvariant, PTL

\* What stat confirms between two requests survives a power failure, unless a directory sync has failed.
THEOREM ConfirmedIsDurable == NodeSpec => []StatIsDurable
<1>1. NodeInv => StatIsDurable
  BY DEF NodeInv, NodeTypeOK, OpType, Name, At, Steps, Durable, WholeChunks, StatIsDurable
<1>q. QED BY <1>1, NodeInvariant, PTL

\* The identity that processes announce to the metadata service never changes on one disk.
THEOREM NodeKeepsVolume == NodeSpec => []VolumeKept
<1>1. NodeInv => VolumeKept
  BY DEF NodeInv
<1>q. QED BY <1>1, NodeInvariant, PTL

\* put and remove implement ChunkStore: whole or absent, and what was answered stays true.
THEOREM NodeKeepsPromises == NodeSpec => KeepsPromises
<1>1. NodeInv /\ NodeInv' /\ [NodeNext]_nodeVars => [Store!StoreNext]_(Store!storeVars)
  BY StepRefines
<1>q. QED BY <1>1, InitRefines, NodeInvariant, PTL DEF NodeSpec, KeepsPromises, Store!StoreSpec
=============================================================================
