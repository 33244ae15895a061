----------------------------- MODULE StorageNode -----------------------------
(***************************************************************************)
(* The data directory of a storage node (distributed/storage.py) when its  *)
(* process is killed, its system calls fail, or the power fails.  All      *)
(* requests of a process run under capacity_lock, one after the other, and *)
(* flock keeps a second process away: there is one operation at a time.    *)
(*                                                                         *)
(* The file system is external.  A process sees every change at once.  A   *)
(* power failure keeps what was synchronised; an entry of the directory    *)
(* that has changed since the last fsync of the directory is any of the    *)
(* values it had meanwhile, a file without fsync may lack some of its data.*)
(***************************************************************************)
EXTENDS Integers, FiniteSets

CONSTANTS
  Chunk, Data,
  Volume,     \* the volume names a first start may choose
  Inode,      \* bound: the files that exist at the same time
  Capacity,   \* in chunks
  Identity,   \* the name ".identity"
  Absent,     \* no file
  Partial,    \* a file that lacks data
  Unknown     \* no promise

ASSUME StorageAssumption ==
  /\ Capacity \in Nat
  /\ Chunk \cap (Inode \cup {Identity}) = {} /\ Identity \notin Inode /\ Absent \notin Inode
  /\ (Data \cup Volume) \cap {Absent, Partial, Unknown} = {} /\ Data \cap Volume = {}
  /\ Absent # Partial /\ Absent # Unknown /\ Partial # Unknown

VARIABLES
  dir,      \* the directory as processes see it
  onDisk,   \* the values an entry may have after a power failure
  file,     \* the content of each file
  synced,   \* the files whose content is on the disk
  op,       \* what the process does
  promise,  \* history: what it has answered last about each chunk
  served,   \* history: the volumes that it was known as
  unsure    \* history: chunks whose operation failed before the directory was synchronised

nodeVars == <<dir, onDisk, file, synced, op, promise, served, unsure>>

\* A temporary file (".tmp-...") is named by its inode.
Name == Chunk \cup Inode \cup {Identity}

Op(pc, task, name, inode, data) ==
  [pc |-> pc, task |-> task, name |-> name, inode |-> inode, data |-> data]
Rest == Op("idle", "none", Identity, Absent, Partial)
Down == [Rest EXCEPT !.pc = "down"]

At(pc) == op.pc = pc
Goto(pc) == op' = [op EXCEPT !.pc = pc]

Content(n) == IF dir[n] = Absent THEN Absent ELSE file[dir[n]]

-----------------------------------------------------------------------------
(***************************************************************************)
(* The file system.                                                        *)
(***************************************************************************)
Unnamed(i) == \A n \in Name : i \notin onDisk[n]

SetEntry(n, x) ==
  /\ dir' = [dir EXCEPT ![n] = x]
  /\ onDisk' = [onDisk EXCEPT ![n] = @ \cup {x}]

\* It gives a new file an inode that no entry names.
Fresh == CHOOSE i \in Inode : Unnamed(i)

Created(n, i) ==
  /\ Unnamed(i) /\ i = Fresh
  /\ SetEntry(n, i)
  /\ file' = [file EXCEPT ![i] = Partial]
  /\ synced' = synced \ {i}

\* Files with a name; others are gone when the directory is on the disk.
Linked(names) == {names[n] : n \in Name} \ {Absent}

\* The kernel has written some of the changes, and reads them back at the next boot.
PowerFails ==
  LET open == {n \in Name : onDisk[n] # {dir[n]}}
  IN  /\ \E kept \in [open -> Inode \cup {Absent}] :
           /\ \A n \in open : kept[n] \in onDisk[n]
           /\ dir' = [n \in Name |-> IF n \in open THEN kept[n] ELSE dir[n]]
      /\ onDisk' = [n \in Name |-> {dir'[n]}]
      /\ \E torn \in SUBSET (Linked(dir') \ synced) :
           file' = [i \in Inode |-> IF i \in Linked(dir') \ torn THEN file[i] ELSE Partial]
      /\ synced' = Linked(dir')
      /\ op' = Down /\ unsure' = {}
      /\ UNCHANGED <<promise, served>>

Killed ==
  /\ op' = Down
  /\ UNCHANGED <<dir, onDisk, file, synced, promise, served, unsure>>

-----------------------------------------------------------------------------
(***************************************************************************)
(* Storage.__init__.  A start that finds an incomplete identity fails.     *)
(***************************************************************************)
FirstStart(i, v) ==
  /\ At("down") /\ dir[Identity] = Absent
  /\ Created(Identity, i)
  /\ op' = Op("write", "identity", Identity, i, v)
  /\ UNCHANGED <<promise, served, unsure>>

Starting == Op("clean", "start", Identity, Absent, Partial)

Start ==
  /\ At("down") /\ Content(Identity) \in Volume
  /\ op' = Starting
  /\ UNCHANGED <<dir, onDisk, file, synced, promise, served, unsure>>

\* Mutant: the directory is not synchronised at the start.
CleanUnsynced ==
  /\ At("clean")
  /\ dir' = [n \in Name |-> IF n \in Inode THEN Absent ELSE dir[n]]
  /\ onDisk' = [n \in Name |-> IF n \in Inode THEN onDisk[n] \cup {Absent} ELSE onDisk[n]]
  /\ op' = Rest /\ served' = served \cup {Content(Identity)}
  /\ UNCHANGED <<file, synced, promise, unsure>>

\* Temporary files are removed.
Clean ==
  /\ At("clean")
  /\ dir' = [n \in Name |-> IF n \in Inode THEN Absent ELSE dir[n]]
  /\ onDisk' = [n \in Name |-> IF n \in Inode THEN onDisk[n] \cup {Absent} ELSE onDisk[n]]
  /\ Goto("syncdir")
  /\ UNCHANGED <<file, synced, promise, served, unsure>>

-----------------------------------------------------------------------------
(***************************************************************************)
(* dispatch: put, remove.  get and stat change nothing.                    *)
(***************************************************************************)
Chunks == {c \in Chunk : dir[c] # Absent}

\* A new chunk, when there is room for it.
Put(c, d, i) ==
  /\ At("idle") /\ dir[c] = Absent
  /\ Cardinality(Chunks) < Capacity
  /\ Created(i, i)
  /\ op' = Op("write", "put", c, i, d)
  /\ promise' = [promise EXCEPT ![c] = Unknown]
  /\ UNCHANGED <<served, unsure>>

\* Mutant: the retry is answered at once.
PutAgainUnsynced(c, d) ==
  /\ At("idle") /\ Content(c) = d
  /\ promise' = [promise EXCEPT ![c] = d]
  /\ UNCHANGED <<dir, onDisk, file, synced, op, served, unsure>>

\* A retry: the chunk is there with the same content.
PutAgain(c, d) ==
  /\ At("idle") /\ Content(c) = d
  /\ op' = Op("syncdir", "put", c, Absent, Partial)
  /\ UNCHANGED <<dir, onDisk, file, synced, promise, served, unsure>>

Write ==
  /\ At("write")
  /\ file' = [file EXCEPT ![op.inode] = op.data]
  /\ Goto("sync")
  /\ UNCHANGED <<dir, onDisk, synced, promise, served, unsure>>

\* Mutant: no fsync.
FsyncSkipped ==
  /\ At("sync")
  /\ Goto(IF op.task = "identity" THEN "syncdir" ELSE "link")
  /\ UNCHANGED <<dir, onDisk, file, synced, promise, served, unsure>>

Fsync ==
  /\ At("sync")
  /\ synced' = synced \cup {op.inode}
  /\ Goto(IF op.task = "identity" THEN "syncdir" ELSE "link")
  /\ UNCHANGED <<dir, onDisk, file, promise, served, unsure>>

Link ==
  /\ At("link")
  /\ SetEntry(op.name, op.inode)
  /\ Goto("unlink")
  /\ UNCHANGED <<file, synced, promise, served, unsure>>

UnlinkTmp ==
  /\ At("unlink")
  /\ SetEntry(op.inode, Absent)
  /\ Goto("syncdir")
  /\ UNCHANGED <<file, synced, promise, served, unsure>>

Remove(c) ==
  /\ At("idle")
  /\ op' = Op("remove", "remove", c, Absent, Partial)
  /\ promise' = [promise EXCEPT ![c] = Unknown]
  /\ UNCHANGED <<dir, onDisk, file, synced, served, unsure>>

\* unlink(missing_ok=True).
Unlink ==
  /\ At("remove")
  /\ IF dir[op.name] = Absent THEN UNCHANGED <<dir, onDisk>> ELSE SetEntry(op.name, Absent)
  /\ Goto("syncdir")
  /\ UNCHANGED <<file, synced, promise, served, unsure>>

\* Mutant: the first start does not synchronise the directory, nor do later ones.
SyncDirRequests ==
  /\ At("syncdir")
  /\ onDisk' = IF op.task \in {"identity", "start"} THEN onDisk ELSE [n \in Name |-> {dir[n]}]
  /\ unsure' = {}
  /\ op' = IF op.task = "identity" THEN Starting ELSE Rest
  /\ promise' = IF op.task \in {"put", "remove"} THEN [promise EXCEPT ![op.name] = Content(op.name)]
                ELSE promise
  /\ served' = IF op.task = "start" THEN served \cup {Content(Identity)} ELSE served
  /\ UNCHANGED <<dir, file, synced>>

\* syncdir, and what follows it.
SyncDir ==
  /\ At("syncdir")
  /\ onDisk' = [n \in Name |-> {dir[n]}]
  /\ file' = [i \in Inode |-> IF i \in Linked(dir) THEN file[i] ELSE Partial]
  /\ synced' = synced \cap Linked(dir)
  /\ unsure' = {}
  /\ op' = IF op.task = "identity" THEN Starting ELSE Rest
  /\ promise' = IF op.task \in {"put", "remove"} THEN [promise EXCEPT ![op.name] = Content(op.name)]
                ELSE promise
  /\ served' = IF op.task = "start" THEN served \cup {Content(Identity)} ELSE served
  /\ UNCHANGED dir

\* A system call fails: a put removes its temporary file and answers with an error,
\* a start gives up.
Fails ==
  /\ op.pc \in {"write", "sync", "link", "unlink", "remove", "syncdir"}
  /\ IF op.task = "put" /\ op.pc # "syncdir" THEN SetEntry(op.inode, Absent)
     ELSE UNCHANGED <<dir, onDisk>>
  /\ op' = IF op.task \in {"put", "remove"} THEN Rest ELSE Down
  /\ unsure' = IF op.task \in {"put", "remove"} /\ op.pc \in {"unlink", "syncdir"}
               THEN unsure \cup {op.name} ELSE unsure
  /\ UNCHANGED <<file, synced, promise, served>>

-----------------------------------------------------------------------------
\* An empty directory.
NodeInit ==
  /\ dir = [n \in Name |-> Absent] /\ onDisk = [n \in Name |-> {Absent}]
  /\ file = [i \in Inode |-> Partial] /\ synced = {}
  /\ op = Down
  /\ promise = [c \in Chunk |-> Absent] /\ served = {} /\ unsure = {}

NodeNext ==
  \/ \E i \in Inode, v \in Volume : FirstStart(i, v)
  \/ Start \/ Clean
  \/ \E c \in Chunk, d \in Data : PutAgain(c, d) \/ \E i \in Inode : Put(c, d, i)
  \/ \E c \in Chunk : Remove(c)
  \/ Write \/ Fsync \/ Link \/ UnlinkTmp \/ Unlink \/ SyncDir
  \/ Fails \/ Killed \/ PowerFails

NodeSpec == NodeInit /\ [][NodeNext]_nodeVars

-----------------------------------------------------------------------------
(***************************************************************************)
(* Properties.                                                             *)
(***************************************************************************)
OpType ==
  [pc : {"down", "clean", "idle", "write", "sync", "link", "unlink", "remove", "syncdir"},
   task : {"none", "identity", "start", "put", "remove"},
   name : Chunk \cup {Identity}, inode : Inode \cup {Absent}, data : Data \cup Volume \cup {Partial}]

NodeTypeOK ==
  /\ dir \in [Name -> Inode \cup {Absent}]
  /\ onDisk \in [Name -> SUBSET (Inode \cup {Absent})]
  /\ file \in [Inode -> Data \cup Volume \cup {Partial}]
  /\ synced \subseteq Inode
  /\ op \in OpType
  /\ promise \in [Chunk -> Data \cup {Absent, Unknown}]
  /\ served \subseteq Volume /\ unsure \subseteq Chunk

\* The steps of a put and a remove, the faults and the recovery at the start
\* implement ChunkStore: nobody ever finds part of a chunk under its name, and a
\* power failure after the answer changes nothing.
Store == INSTANCE ChunkStore WITH store <- [c \in Chunk |-> Content(c)]
KeepsPromises == Store!StoreSpec

\* What stat confirms between two requests survives a power failure as well, also
\* when an earlier process was killed before it synchronised the directory; except
\* when the synchronisation itself has failed.
StatIsDurable ==
  At("idle") => \A c \in Chunk \ unsure :
    onDisk[c] = {dir[c]} /\ (dir[c] # Absent => dir[c] \in synced)

\* The metadata knows a node by its volume: once a process has served, no later one
\* serves as another volume.  (The identity may be torn, when the process that wrote
\* it was killed before its fsync: then no process can start.)
VolumeKept ==
  \A v \in served : \A i \in onDisk[Identity] : i # Absent /\ file[i] \in {v, Partial}
=============================================================================
