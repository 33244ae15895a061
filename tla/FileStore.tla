------------------------------ MODULE FileStore ------------------------------
(***************************************************************************)
(* What the two C++ modes share: the table file_info (database/            *)
(* file_dao.cc), the files under the storage root (storage/                *)
(* storage_manager.cc), upload_start and delete (services/file_service.cc) *)
(* and the client's side of an upload or a download (client/               *)
(* file_client.cc).                                                        *)
(*                                                                         *)
(* Sizes and offsets count blocks of kChunkSize.  The content of an upload *)
(* is named by its key.  All requests are made for one user.               *)
(*                                                                         *)
(* A thread is a client together with the handler of its current request:  *)
(* a client sends its next request after the answer to the last one.  The  *)
(* handler of a client that has given up goes on in a Slot.                *)
(***************************************************************************)
EXTENDS Integers

CONSTANTS
  Key,         \* what a client may upload: filename, filesize and md5
  Size,        \* [Key -> number of blocks]
  Name,        \* [Key -> filename]
  MaxFiles,    \* bound: the rows that may be inserted
  LastSecond,  \* bound: the last second of the clock
  Client,
  Slot,        \* bound: handlers that outlive their client's patience
  None

FileId == 1..MaxFiles
Thread == Client \cup Slot
Path == {Name[k] : k \in Key} \X (0..LastSecond)

ASSUME SizeAssumption == Size \in [Key -> Nat \ {0}]
ASSUME BoundsAssumption == MaxFiles \in Nat /\ LastSecond \in Nat
ASSUME NoneAssumption == None \notin Key /\ None \notin Path

VARIABLES
  row,    \* file_info: status, key, filepath, upload_size
  disk,   \* a file: its size (-1: there is none) and its written blocks <<offset, key>>
  clock,  \* std::time
  call,   \* what each thread is doing
  spoiled \* history: the rows whose file was removed or emptied after a failure that
          \* the code ignores; no step reads it

vars == <<row, disk, clock, call, spoiled>>

-----------------------------------------------------------------------------
(***************************************************************************)
(* FileDAO and StorageManager.                                             *)
(***************************************************************************)
NoRow == [status |-> "absent", key |-> None, path |-> None, upload_size |-> 0]
NewRow(k, p) == [status |-> "uploading", key |-> k, path |-> p, upload_size |-> 0]

\* FindById and the owner check.
Exists(f) == f \in FileId /\ row[f].status # "absent"
Uploading(f) == Exists(f) /\ row[f].status = "uploading"

\* FindIncompleteByKey.
\* Mutant: the md5 is not compared.
IncompleteAny(k) == {f \in FileId : Uploading(f)}

Incomplete(k) == {f \in FileId : Uploading(f) /\ row[f].key = k}

UpdateUploadSize(f, n) ==
  [row EXCEPT ![f] = [status |-> @.status, key |-> @.key, path |-> @.path, upload_size |-> n]]
UpdateStatus(f, s) ==
  [row EXCEPT ![f] = [status |-> s, key |-> @.key, path |-> @.path, upload_size |-> @.upload_size]]

\* The caller ignores the result of the statement that leads to `rows`.
Unchecked(rows) == row' \in {rows, row}

NoFile == [size |-> -1, data |-> {}]
EmptyFile == [size |-> 0, data |-> {}]

\* The write of WriteChunk: blocks from..(to - 1) of the upload k.
Overwrite(file, k, from, to) ==
  [size |-> IF file.size < to THEN to ELSE file.size,
   data |-> {x \in file.data : x[1] < from \/ x[1] >= to}
            \cup {<<b, k>> : b \in from..(to - 1)}]

\* GetFileSize.
FileSize(p) == disk[p].size

-----------------------------------------------------------------------------
(***************************************************************************)
(* Threads.  `offset`..`to` is the chunk in transit; `seen` is the         *)
(* upload_size that was read with the row; `linked` says that the opened   *)
(* file has not been removed since.                                        *)
(***************************************************************************)
Job(p, k, f, offset, to, path, seen, linked) ==
  [pc |-> p, key |-> k, file |-> f, offset |-> offset, to |-> to, path |-> path,
   seen |-> seen, linked |-> linked]

Idle == Job("idle", None, 0, 0, 0, None, 0, FALSE)

\* The job r at its step p; r with an open file; r for the chunk up to `to` of a path.
AtStep(r, p) == Job(p, r.key, r.file, r.offset, r.to, r.path, r.seen, r.linked)
Opened(r) == Job("write", r.key, r.file, r.offset, r.to, r.path, r.seen, TRUE)
Unlinked(r) == Job(r.pc, r.key, r.file, r.offset, r.to, r.path, r.seen, FALSE)
Chunk(r, to, path, seen) == Job("open", r.key, r.file, r.offset, to, path, seen, FALSE)
Goto(t, p) == [call EXCEPT ![t] = AtStep(@, p)]

\* A client goes on after the answer to a request: at `offset` of the file f.
\* Nobody waits for the answer of a handler in a Slot.
Succeed(t, f, k, offset) ==
  [call EXCEPT ![t] = IF t \in Client THEN Job("ready", k, f, offset, 0, None, 0, FALSE) ELSE Idle]
Refuse(t) == [call EXCEPT ![t] = Idle]

At(t, p) == call[t].pc = p
InRequest(t) == call[t].pc \notin {"idle", "ready", "get", "reading"}

\* A process ends, an RPC fails, or a step fails whose result is checked; the client's
\* upload ends.  A failure that the code ignores is an outcome of its own action.
Fail(t) ==
  /\ call[t].pc # "idle"
  /\ call' = Refuse(t)
  /\ UNCHANGED <<row, disk, clock, spoiled>>

\* The client's future.wait_for, or the gateway's, runs out; the handler goes on.
Timeout(c, s) ==
  /\ c \in Client /\ s \in Slot
  /\ InRequest(c) /\ At(s, "idle")
  /\ call' = [call EXCEPT ![s] = call[c], ![c] = Idle]
  /\ UNCHANGED <<row, disk, clock, spoiled>>

Tick ==
  /\ clock < LastSecond
  /\ clock' = clock + 1
  /\ UNCHANGED <<row, disk, call, spoiled>>

-----------------------------------------------------------------------------
(***************************************************************************)
(* FileService::UploadStart: resume the newest incomplete upload with the  *)
(* same key, or insert a row.  A failed query looks like one that has      *)
(* found nothing.                                                          *)
(***************************************************************************)
Newest(k) == {f \in Incomplete(k) : \A g \in Incomplete(k) : g <= f}

UploadStart(c, k) ==
  /\ At(c, "idle") /\ c \in Client
  /\ \/ call' = [call EXCEPT ![c] = Job("insert", k, 0, 0, 0, None, 0, FALSE)]
     \/ \E f \in Newest(k) : call' = Succeed(c, f, k, row[f].upload_size)
  /\ UNCHANGED <<row, disk, clock, spoiled>>

\* GenerateFilepath and FileDAO::Insert.
GenerateFilepath(k) == <<Name[k], clock>>

UploadInsert(t) ==
  LET k == call[t].key
  IN  /\ At(t, "insert")
      /\ \E f \in FileId :
           /\ ~ Exists(f) /\ \A g \in FileId : g < f => Exists(g)
           /\ row' = [row EXCEPT ![f] = NewRow(k, GenerateFilepath(k))]
           /\ call' = Succeed(t, f, k, 0)
      /\ UNCHANGED <<disk, clock, spoiled>>

-----------------------------------------------------------------------------
(***************************************************************************)
(* StorageManager::WriteChunk, which takes no lock.                        *)
(***************************************************************************)
\* Mutant: every chunk is written to a new file.
MustCreateAlways(t) == TRUE

MustCreate(t) == FileSize(call[t].path) < 0

AtOffset(t) == Overwrite(disk[call[t].path], call[t].key, call[t].offset, call[t].to)

\* The first open, for reading and writing, succeeds or finds no file; when it fails
\* for another reason, the code also goes on as if there were none.
WriteOpen(t) ==
  /\ At(t, "open")
  /\ \/ /\ call' = IF MustCreate(t) THEN Goto(t, "create") ELSE [call EXCEPT ![t] = Opened(@)]
        /\ UNCHANGED spoiled
     \/ /\ ~ MustCreate(t)
        /\ call' = Goto(t, "create")
        /\ spoiled' = spoiled \cup {call[t].file}
  /\ UNCHANGED <<row, disk, clock>>

\* The second open, for writing only, creates or truncates; its result is not looked at.
WriteCreate(t) ==
  /\ At(t, "create")
  /\ disk' \in {[disk EXCEPT ![call[t].path] = EmptyFile], disk}
  /\ call' = Goto(t, "reopen")
  /\ UNCHANGED <<row, clock, spoiled>>

\* The third open, like the first.
WriteReopen(t) ==
  /\ At(t, "reopen")
  /\ call' = IF FileSize(call[t].path) >= 0 THEN [call EXCEPT ![t] = Opened(@)] ELSE Refuse(t)
  /\ UNCHANGED <<row, disk, clock, spoiled>>

\* seekp, write and flush.  Then the mode goes on at step p.
WriteData(t, p) ==
  /\ At(t, "write")
  /\ disk' = IF call[t].linked THEN [disk EXCEPT ![call[t].path] = AtOffset(t)] ELSE disk
  /\ call' = Goto(t, p)
  /\ UNCHANGED <<row, clock, spoiled>>

-----------------------------------------------------------------------------
(***************************************************************************)
(* FileService::Delete, whatever the status is.  The file is removed also  *)
(* when the UPDATE has failed.                                             *)
(***************************************************************************)
DeleteBegin(c, f) ==
  /\ At(c, "idle") /\ c \in Client
  /\ Exists(f)
  /\ call' = [call EXCEPT ![c] = Job("softdelete", None, f, 0, 0, row[f].path, 0, FALSE)]
  /\ UNCHANGED <<row, disk, clock, spoiled>>

SoftDelete(t) ==
  LET f == call[t].file
  IN  /\ At(t, "softdelete")
      /\ \/ row' = UpdateStatus(f, "deleted") /\ UNCHANGED spoiled
         \/ spoiled' = spoiled \cup {f} /\ UNCHANGED row
      /\ call' = Goto(t, "remove")
      /\ UNCHANGED <<disk, clock>>

\* Open files of other threads are no longer reachable by their path.
DeleteFile(t) ==
  /\ At(t, "remove")
  /\ disk' = [disk EXCEPT ![call[t].path] = NoFile]
  /\ call' = [u \in Thread |->
                IF u = t THEN Idle
                ELSE IF call[u].path = call[t].path THEN Unlinked(call[u])
                ELSE call[u]]
  /\ UNCHANGED <<row, clock, spoiled>>

-----------------------------------------------------------------------------
(***************************************************************************)
(* FileClient::DownloadFile: learn the size, then ask for chunks until     *)
(* that many blocks have come.                                             *)
(***************************************************************************)
DownloadBegin(c, f) ==
  /\ At(c, "idle") /\ c \in Client
  /\ Exists(f)
  /\ call' = [call EXCEPT ![c] = Job("get", row[f].key, f, 0, 0, None, 0, FALSE)]
  /\ UNCHANGED <<row, disk, clock, spoiled>>

DownloadAsk(c) ==
  /\ At(c, "get")
  /\ call' = Goto(c, "reading")
  /\ UNCHANGED <<row, disk, clock, spoiled>>

\* ReadChunk: how many of the next n blocks there are.
ReadChunk(p, offset, n) ==
  IF p \notin Path \/ FileSize(p) <= offset THEN 0
  ELSE IF FileSize(p) - offset < n THEN FileSize(p) - offset ELSE n

\* n blocks arrive.
DownloadGot(c, n) ==
  LET offset == call[c].offset + n
  IN  call' = [call EXCEPT ![c] = IF offset < Size[@.key]
                                  THEN Job("get", @.key, @.file, offset, 0, None, 0, FALSE)
                                  ELSE Idle]

-----------------------------------------------------------------------------
Init ==
  /\ row = [f \in FileId |-> NoRow]
  /\ disk = [p \in Path |-> NoFile]
  /\ clock = 0
  /\ call = [t \in Thread |-> Idle]
  /\ spoiled = {}

\* The steps both modes have.
SharedNext ==
  \/ Tick
  \/ \E c \in Client, k \in Key : UploadStart(c, k)
  \/ \E c \in Client, f \in FileId : DeleteBegin(c, f) \/ DownloadBegin(c, f)
  \/ \E c \in Client, s \in Slot : Timeout(c, s)
  \/ \E t \in Thread : \/ Fail(t) \/ UploadInsert(t)
                       \/ WriteOpen(t) \/ WriteCreate(t) \/ WriteReopen(t)
                       \/ SoftDelete(t) \/ DeleteFile(t)
                       \/ DownloadAsk(t)

-----------------------------------------------------------------------------
(***************************************************************************)
(* Properties.                                                             *)
(***************************************************************************)
\* Resuming is sound: what upload_size says was uploaded is in the file, block by
\* block, so a client may continue at that offset ("A retry of an already
\* confirmed range is safe", file_dao.cc).  Not so for a spoiled file.
ConfirmedIsStored ==
  \A f \in FileId \ spoiled : row[f].status \in {"uploading", "completed"} =>
    \A b \in 0..(row[f].upload_size - 1) : <<b, row[f].key>> \in disk[row[f].path].data

\* A file that is called complete is the one that was announced ("验证完整性,
\* 标记 status=1", file_service.h), unless it was spoiled.
CompletedIsWhole ==
  \A f \in FileId \ spoiled : row[f].status = "completed" =>
    /\ FileSize(row[f].path) = Size[row[f].key]
    /\ \A b \in 0..(Size[row[f].key] - 1) : <<b, row[f].key>> \in disk[row[f].path].data

\* The files of two uploads are never mixed.
NotMixed ==
  \A f \in FileId : Exists(f) => \A x \in disk[row[f].path].data : x[2] = row[f].key
=============================================================================
