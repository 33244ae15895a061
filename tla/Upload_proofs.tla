---------------------------- MODULE Upload_proofs ----------------------------
(***************************************************************************)
(* Proofs about uploads in both C++ modes, for any number of clients, late *)
(* handlers, uploads and blocks: files are not mixed, a completed file was *)
(* confirmed, and what was confirmed is stored while handlers do not       *)
(* overlap.                                                                *)
(***************************************************************************)
EXTENDS MCUpload, TLAPS

-----------------------------------------------------------------------------
(***************************************************************************)
(* The invariant of both modes.                                            *)
(***************************************************************************)
RowRecord ==
  [status : {"absent", "uploading", "completed", "deleted"},
   key : Key \cup {None}, path : Path \cup {None}, upload_size : Nat]

FileRecord == [size : Nat \cup {-1}, data : SUBSET (Nat \X Key)]

Writing == {"open", "create", "reopen", "write"}
Confirming == {"check", "confirm", "reread"}
Completing == {"stat", "complete", "progress"}
Removing == {"softdelete", "remove"}
Reading == {"get", "reading"}

JobRecord ==
  [pc : {"idle", "insert", "ready", "update"} \cup Writing \cup Confirming \cup Completing \cup Removing \cup Reading,
   key : Key \cup {None}, file : Nat, offset : Nat, to : Nat, path : Path \cup {None},
   seen : Nat, linked : BOOLEAN]

UploadTypes ==
  /\ row \in [FileId -> RowRecord] /\ disk \in [Path -> FileRecord]
  /\ clock \in 0 .. LastSecond /\ call \in [Thread -> JobRecord]
  /\ spoiled \in SUBSET FileId

\* A row that was inserted has a key and a path, and no other row has that path.
RowsInv ==
  /\ OwnPaths
  /\ \A f \in FileId : IF Exists(f) THEN row[f].key \in Key /\ row[f].path \in Path
                       ELSE row[f].upload_size = 0

\* There are no files without a row.
FilesHaveRows == \A p \in Path : disk[p] = NoFile \/ \E f \in FileId : Exists(f) /\ row[f].path = p

-----------------------------------------------------------------------------
(***************************************************************************)
(* A handler r, with the row rw it works on and the file under its path,   *)
(* in mode m; sp says that the file is spoiled.                            *)
(***************************************************************************)
\* The first n blocks of the upload k are in the file.
Has(file, k, n) == \A b \in 0 .. (n - 1) : <<b, k>> \in file.data

\* A handler works on a row, with its key and, in a file, under its path.
JobOK(r, rw) ==
  /\ r.pc = "insert" => r.key \in Key
  /\ r.pc \notin {"idle", "insert"} => r.file \in FileId /\ rw.status # "absent"
  /\ r.pc \notin {"idle", "insert"} \cup Removing => r.key = rw.key
  /\ r.pc \in Writing \cup Removing \cup {"stat"} => r.path = rw.path
  /\ r.pc \in Writing \cup Confirming \cup {"update"} => r.to = r.offset + 1 /\ r.to <= Size[r.key]

\* In the microservice mode a finalize has seen that everything is confirmed; that stays.
AllSeen(r, rw) == r.pc \in {"stat", "complete"} => rw.upload_size = Size[rw.key]

\* The row is deleted and so is its file.
Gone(rw, file) == rw.status = "deleted" /\ file = NoFile

\* One request at a time: where the handler stands, and what it can rely on.  It is the
\* file that it relies on: the progress in the row may have failed to be stored.
StepOK(r, rw, file, m) ==
  /\ r.pc = "ready" => Has(file, r.key, r.offset) \/ Gone(rw, file)
  /\ r.pc \in Writing \cup Confirming \cup {"update"} => rw.status = "uploading" /\ Has(file, r.key, r.offset)
  /\ r.pc = "create" => file = NoFile
  /\ r.pc = "write" => r.linked = TRUE /\ file # NoFile
  /\ r.pc \in Confirming \cup {"update"} => <<r.offset, r.key>> \in file.data
  /\ r.pc \in Writing \cup {"update"} /\ m = "patient-server" => r.seen = rw.upload_size
  /\ r.pc \in {"complete", "progress"} => file.size = Size[r.key]
  /\ r.pc = "remove" => rw.status = "deleted"

\* Each mode has its steps, and what it promises of them.
JobFits(r, rw, file, m, sp) ==
  /\ JobOK(r, rw)
  /\ IF m = "patient-server" THEN r.pc \notin Confirming ELSE r.pc \notin {"update", "progress"}
  /\ m # "patient-server" => AllSeen(r, rw)
  /\ m # "services" /\ ~ sp => StepOK(r, rw, file, m)

Fits(r) == JobFits(r, row[r.file], disk[row[r.file].path], mode, r.file \in spoiled)

JobsInv == \A t \in Thread : Fits(call[t])

-----------------------------------------------------------------------------
(***************************************************************************)
(* A row rw with the file under its path.                                  *)
(***************************************************************************)
\* The confirmed blocks are in the file.
Stored(rw, file) == Has(file, rw.key, rw.upload_size)

\* One request at a time: the file is not longer than announced and has no holes.
FileOK(rw, file) ==
  /\ rw.upload_size <= Size[rw.key]
  /\ file.size <= Size[rw.key]
  /\ \A x \in file.data : x[1] < file.size
  /\ Has(file, rw.key, file.size)
  /\ Stored(rw, file) \/ Gone(rw, file)
  /\ rw.status = "completed" => file.size = Size[rw.key]

RowFits(rw, file, m, sp) ==
  /\ m # "patient-server" /\ rw.status = "completed" => rw.upload_size = Size[rw.key]
  /\ m # "services" /\ ~ sp => FileOK(rw, file)

FilesInv == \A f \in FileId : Exists(f) => RowFits(row[f], disk[row[f].path], mode, f \in spoiled)

-----------------------------------------------------------------------------
(***************************************************************************)
(* The inductive invariant.                                                *)
(***************************************************************************)
InTurn == mode # "services" => Patient

ModesInv ==
  /\ mode \in {"patient-services", "services", "patient-server"}
  /\ UploadTypes /\ RowsInv /\ FilesHaveRows /\ NotMixed
  /\ InTurn /\ JobsInv /\ FilesInv

-----------------------------------------------------------------------------
(***************************************************************************)
(* The two modes instantiate FileStore: its steps are the same in both.    *)
(***************************************************************************)
\* The steps the microservice mode shares are those of FileStore.
LEMMA ServicesShared == Services!SharedNext <=> SharedNext
BY DEF SharedNext, Services!SharedNext, Fail, Timeout, Tick, UploadStart, UploadInsert, WriteOpen, WriteCreate,
       WriteReopen, WriteData, DeleteBegin, SoftDelete, DeleteFile, DownloadBegin, DownloadAsk, Exists, Uploading,
       Incomplete, Newest, UpdateUploadSize, UpdateStatus, NoRow, NewRow, NoFile, EmptyFile, Overwrite, FileSize,
       FileId, Thread, Path, Job, Idle, AtStep, Opened, Unlinked, Chunk, Goto, Succeed, Refuse, At, InRequest,
       GenerateFilepath, MustCreate, AtOffset, ReadChunk, DownloadGot, Services!Fail, Services!Timeout,
       Services!Tick, Services!UploadStart, Services!UploadInsert, Services!WriteOpen, Services!WriteCreate,
       Services!WriteReopen, Services!Newest, Services!WriteData, Services!DeleteBegin, Services!SoftDelete, Services!DeleteFile,
       Services!DownloadBegin, Services!DownloadAsk, Services!Exists, Services!Uploading, Services!Incomplete,
       Services!UpdateUploadSize, Services!UpdateStatus, Services!NoRow, Services!NewRow, Services!NoFile,
       Services!EmptyFile, Services!Overwrite, Services!FileSize, Services!FileId, Services!Thread,
       Services!Path, Services!Job, Services!Idle, Services!AtStep, Services!Opened, Services!Unlinked,
       Services!Chunk, Services!Goto, Services!Succeed, Services!Refuse, Services!At, Services!InRequest,
       Services!GenerateFilepath, Services!MustCreate, Services!AtOffset, Services!ReadChunk,
       Services!DownloadGot

\* The steps the single process shares are those of FileStore.
LEMMA ServerShared == Server!SharedNext <=> SharedNext
BY DEF SharedNext, Server!SharedNext, Fail, Timeout, Tick, UploadStart, UploadInsert, WriteOpen, WriteCreate,
       WriteReopen, WriteData, DeleteBegin, SoftDelete, DeleteFile, DownloadBegin, DownloadAsk, Exists, Uploading,
       Incomplete, Newest, UpdateUploadSize, UpdateStatus, NoRow, NewRow, NoFile, EmptyFile, Overwrite, FileSize,
       FileId, Thread, Path, Job, Idle, AtStep, Opened, Unlinked, Chunk, Goto, Succeed, Refuse, At, InRequest,
       GenerateFilepath, MustCreate, AtOffset, ReadChunk, DownloadGot, Server!Fail, Server!Timeout, Server!Tick,
       Server!UploadStart, Server!UploadInsert, Server!WriteOpen, Server!WriteCreate, Server!WriteReopen,
       Server!Newest, Server!WriteData,
       Server!DeleteBegin, Server!SoftDelete, Server!DeleteFile, Server!DownloadBegin, Server!DownloadAsk,
       Server!Exists, Server!Uploading, Server!Incomplete, Server!UpdateUploadSize, Server!UpdateStatus,
       Server!NoRow, Server!NewRow, Server!NoFile, Server!EmptyFile, Server!Overwrite, Server!FileSize,
       Server!FileId, Server!Thread, Server!Path, Server!Job, Server!Idle, Server!AtStep, Server!Opened,
       Server!Unlinked, Server!Chunk, Server!Goto, Server!Succeed, Server!Refuse, Server!At, Server!InRequest,
       Server!GenerateFilepath, Server!MustCreate, Server!AtOffset, Server!ReadChunk, Server!DownloadGot

-----------------------------------------------------------------------------
(***************************************************************************)
(* Rows, jobs and files.                                                   *)
(***************************************************************************)
\* Numbers of rows and blocks.
LEMMA Ranges ==
  /\ \A f \in FileId : f \in Nat /\ f # 0
  /\ \A k \in Key : Size[k] \in Nat /\ Size[k] > 0 /\ k # None
  /\ \A p \in Path : p # None
BY SizeAssumption, BoundsAssumption, NoneAssumption DEF FileId

\* The parameters of a job are its fields.
LEMMA JobFields ==
  ASSUME NEW p, NEW k, NEW f, NEW offset, NEW to, NEW path, NEW seen, NEW linked
  PROVE  LET r == Job(p, k, f, offset, to, path, seen, linked)
         IN  /\ r.pc = p /\ r.key = k /\ r.file = f /\ r.offset = offset /\ r.to = to
             /\ r.path = path /\ r.seen = seen /\ r.linked = linked
BY DEF Job

\* The idle job fits everywhere.
LEMMA IdleFits == Idle \in JobRecord /\ Idle.pc = "idle" /\ \A rw, file, m, sp : JobFits(Idle, rw, file, m, sp)
BY DEF Idle, Job, JobRecord, JobFits, JobOK, AllSeen, StepOK, Writing, Confirming, Completing, Removing, Reading

\* A job with the table and the files it was checked with; more files may be spoiled.
LEMMA SameFits ==
  ASSUME UNCHANGED <<row, disk, mode>>, spoiled \subseteq spoiled', NEW r, Fits(r)
  PROVE  Fits(r)'
<1>1. r.file \in spoiled => r.file \in spoiled'
  OBVIOUS
<1>q. QED BY <1>1 DEF Fits, JobFits

\* The jobs are checked one by one.
LEMMA JobByJob ==
  ASSUME \A t \in Thread : \E r : call'[t] = r /\ Fits(r)'
  PROVE  JobsInv'
<1> SUFFICES ASSUME NEW t \in Thread
             PROVE  Fits(call[t])'
  BY DEF JobsInv
<1>1. PICK r : call'[t] = r /\ Fits(r)'
  OBVIOUS
<1>q. QED
  BY <1>1 DEF Fits

\* A step of one thread that only reads the table and the files, and may spoil one.
LEMMA SpoilStep ==
  ASSUME ModesInv, UNCHANGED <<row, disk, clock, mode>>, spoiled \subseteq spoiled', spoiled' \in SUBSET FileId,
         NEW t \in Thread, NEW r \in JobRecord, call' = [call EXCEPT ![t] = r], Fits(r)', InTurn'
  PROVE  ModesInv'
<1>1. UploadTypes'
  BY DEF ModesInv, UploadTypes
<1>2. RowsInv' /\ FilesHaveRows' /\ NotMixed'
  BY DEF ModesInv, RowsInv, OwnPaths, FilesHaveRows, NotMixed, Exists
<1>3. FilesInv'
  <2> SUFFICES ASSUME NEW f \in FileId, Exists(f)' PROVE RowFits(row[f], disk[row[f].path], mode, f \in spoiled)'
    BY DEF FilesInv
  <2>1. RowFits(row[f], disk[row[f].path], mode, f \in spoiled) /\ (f \in spoiled => f \in spoiled')
    BY DEF ModesInv, FilesInv, Exists
  <2>q. QED BY <2>1 DEF RowFits
<1>4. ASSUME NEW u \in Thread PROVE \E x : call'[u] = x /\ Fits(x)'
  <2>1. PICK x : x = call'[u] /\ (x = r \/ x = call[u])
    BY DEF ModesInv, UploadTypes
  <2>2. x = r \/ Fits(x)
    BY <2>1 DEF ModesInv, JobsInv
  <2>3. Fits(x)'
    <3>1. CASE x = r
      BY <3>1
    <3>2. CASE Fits(x)
      BY <3>2, SameFits
    <3>q. QED BY <2>2, <3>1, <3>2
  <2>q. QED BY <2>1, <2>3
<1>q. QED BY <1>1, <1>2, <1>3, <1>4, JobByJob DEF ModesInv

\* A step of one thread that only reads the table and the files.
LEMMA CallStep ==
  ASSUME ModesInv, UNCHANGED <<row, disk, clock, spoiled, mode>>, NEW t \in Thread, NEW r \in JobRecord,
         call' = [call EXCEPT ![t] = r], Fits(r), InTurn'
  PROVE  ModesInv'
<1>1. Fits(r)'
  BY SameFits
<1>2. spoiled \subseteq spoiled' /\ spoiled' \in SUBSET FileId
  BY DEF ModesInv, UploadTypes
<1>q. QED BY <1>1, <1>2, SpoilStep

-----------------------------------------------------------------------------
(***************************************************************************)
(* Steps that change no row and no file.                                   *)
(***************************************************************************)
\* What the invariant says of a thread at work.
LEMMA AtWork ==
  ASSUME ModesInv, NEW t \in Thread
  PROVE  call[t] \in JobRecord /\ Fits(call[t])
BY DEF ModesInv, UploadTypes, JobsInv

\* What the invariant says of a row.
LEMMA RowAtWork ==
  ASSUME ModesInv, NEW f \in FileId, Exists(f)
  PROVE  /\ row[f] \in RowRecord /\ row[f].key \in Key /\ row[f].path \in Path
         /\ disk[row[f].path] \in FileRecord
         /\ RowFits(row[f], disk[row[f].path], mode, f \in spoiled)
         /\ \A x \in disk[row[f].path].data : x[2] = row[f].key
<1>1. row[f] \in RowRecord /\ row[f].key \in Key /\ row[f].path \in Path
  BY DEF ModesInv, UploadTypes, RowsInv
<1>2. disk[row[f].path] \in FileRecord
  BY <1>1 DEF ModesInv, UploadTypes
<1>q. QED BY <1>1, <1>2 DEF ModesInv, FilesInv, NotMixed

\* A client takes up the upload f at `offset`, or a handler's answer is for nobody.
LEMMA SucceedRecord ==
  ASSUME NEW t \in Thread, NEW f \in FileId, NEW k \in Key, NEW offset \in Nat
  PROVE  \E r \in JobRecord :
           /\ Succeed(t, f, k, offset) = [call EXCEPT ![t] = r]
           /\ r = Idle \/ (r.pc = "ready" /\ r.key = k /\ r.file = f /\ r.offset = offset)
<1> DEFINE r == Job("ready", k, f, offset, 0, None, 0, FALSE)
<1>1. r \in JobRecord /\ r.pc = "ready" /\ r.key = k /\ r.file = f /\ r.offset = offset
  BY Ranges DEF Job, JobRecord
<1>2. Succeed(t, f, k, offset) = [call EXCEPT ![t] = IF t \in Client THEN r ELSE Idle]
  BY DEF Succeed
<1> HIDE DEF r
<1>q. QED BY <1>1, <1>2, IdleFits

\* A client at `offset` of a row.
LEMMA ReadyFits ==
  ASSUME NEW r, NEW rw, NEW file, NEW m, NEW sp, r.pc = "ready", r.file \in FileId, rw.status # "absent",
         r.key = rw.key, m # "services" /\ ~ sp => Has(file, rw.key, r.offset) \/ Gone(rw, file)
  PROVE  JobFits(r, rw, file, m, sp)
BY DEF JobFits, JobOK, AllSeen, StepOK, Writing, Confirming, Completing, Removing

\* A request fails.
LEMMA FailKeeps == ASSUME ModesInv, InTurn', UNCHANGED mode, NEW t \in Thread, Fail(t) PROVE ModesInv'
<1>1. call' = [call EXCEPT ![t] = Idle] /\ UNCHANGED <<row, disk, clock, spoiled, mode>>
  BY DEF Fail, Refuse
<1>q. QED BY <1>1, IdleFits, CallStep DEF Fits

\* A client gives up; its handler goes on.
LEMMA TimeoutKeeps ==
  ASSUME ModesInv, InTurn', UNCHANGED mode, NEW c \in Client, NEW s \in Slot, Timeout(c, s)
  PROVE  ModesInv'
<1>1. UNCHANGED <<row, disk, clock, spoiled, mode>> /\ c \in Thread /\ s \in Thread
  BY DEF Timeout, Thread
<1>2. call' = [call EXCEPT ![s] = call[c], ![c] = Idle]
  BY DEF Timeout
<1>3. \A u \in Thread : call'[u] \in {Idle, call[c], call[u]}
  BY <1>1, <1>2 DEF ModesInv, UploadTypes
<1>4. UploadTypes'
  <2>1. call' \in [Thread -> JobRecord]
    BY <1>1, <1>2, IdleFits DEF ModesInv, UploadTypes
  <2>q. QED BY <1>1, <2>1 DEF ModesInv, UploadTypes
<1>5. RowsInv' /\ FilesHaveRows' /\ NotMixed' /\ FilesInv'
  BY <1>1 DEF ModesInv, RowsInv, OwnPaths, FilesHaveRows, NotMixed, FilesInv, Exists
<1>6. ASSUME NEW u \in Thread PROVE \E x : call'[u] = x /\ Fits(x)'
  <2>1. PICK x : x = call'[u] /\ x \in {Idle, call[c], call[u]}
    BY <1>3
  <2>2. Fits(x)
    <3>1. CASE x = Idle
      BY <3>1, IdleFits DEF Fits
    <3>q. QED BY <3>1, <2>1, <1>1, AtWork
  <2>3. Fits(x)'
    BY <1>1, <2>2, SameFits
  <2>q. QED BY <2>1, <2>3
<1>q. QED BY <1>1, <1>4, <1>5, <1>6, JobByJob DEF ModesInv

\* upload_start: a new upload, or the newest incomplete one resumed where it was confirmed.
LEMMA UploadStartKeeps ==
  ASSUME ModesInv, InTurn', UNCHANGED mode, NEW c \in Client, NEW k \in Key, UploadStart(c, k)
  PROVE  ModesInv'
<1>1. UNCHANGED <<row, disk, clock, spoiled, mode>> /\ c \in Thread
  BY DEF UploadStart, Thread
<1> DEFINE new == Job("insert", k, 0, 0, 0, None, 0, FALSE)
<1>2. CASE call' = [call EXCEPT ![c] = new]
  <2>1. new \in JobRecord /\ new.pc = "insert" /\ new.key = k
    BY DEF Job, JobRecord
  <2> HIDE DEF new
  <2>3. Fits(new)
    BY <2>1 DEF Fits, JobFits, JobOK, AllSeen, StepOK, Writing, Confirming, Completing, Removing
  <2>q. QED BY <1>1, <1>2, <2>1, <2>3, CallStep
<1>3. ASSUME NEW f \in Newest(k), call' = Succeed(c, f, k, row[f].upload_size)
      PROVE  ModesInv'
  <2>4. f \in FileId /\ Exists(f) /\ row[f].key = k /\ row[f].status = "uploading"
    BY DEF Newest, Incomplete, Uploading
  <2>5. row[f].upload_size \in Nat
    BY <2>4, RowAtWork DEF RowRecord
  <2>6. PICK r \in JobRecord :
           /\ call' = [call EXCEPT ![c] = r]
           /\ r = Idle \/ (r.pc = "ready" /\ r.key = k /\ r.file = f /\ r.offset = row[f].upload_size)
    <3> DEFINE n == row[f].upload_size
    <3>1. c \in Thread /\ f \in FileId /\ n \in Nat /\ call' = Succeed(c, f, k, n)
      BY <1>1, <1>3, <2>4, <2>5
    <3>2. \E r \in JobRecord :
             /\ Succeed(c, f, k, n) = [call EXCEPT ![c] = r]
             /\ r = Idle \/ (r.pc = "ready" /\ r.key = k /\ r.file = f /\ r.offset = n)
      <4> HIDE DEF n
      <4>q. QED BY <3>1, SucceedRecord
    <3>q. QED BY <3>1, <3>2
  <2>7. Fits(r)
    <3>1. CASE r = Idle
      BY <3>1, IdleFits DEF Fits
    <3>2. CASE r.pc = "ready" /\ r.key = k /\ r.file = f /\ r.offset = row[f].upload_size
      <4>1. mode # "services" /\ f \notin spoiled => Has(disk[row[f].path], row[f].key, r.offset)
        BY <2>4, <3>2, RowAtWork DEF RowFits, FileOK, Stored, Gone
      <4>q. QED BY <3>2, <2>4, <4>1, ReadyFits DEF Fits, Exists
    <3>q. QED BY <3>1, <3>2, <2>6
  <2>q. QED BY <1>1, <1>3, <2>6, <2>7, CallStep
<1>q. QED BY <1>2, <1>3 DEF UploadStart

\* The first open of WriteChunk; one request at a time, there is a file or none at all,
\* unless the open failed and the file is spoiled.
LEMMA WriteOpenKeeps ==
  ASSUME ModesInv, InTurn', UNCHANGED mode, NEW t \in Thread, WriteOpen(t)
  PROVE  ModesInv'
<1> DEFINE r == call[t]
           c == AtStep(r, "create")
           w == Opened(r)
<1>1. UNCHANGED <<row, disk, clock, mode>> /\ r.pc = "open"
  BY DEF WriteOpen, At
<1>2. r \in JobRecord /\ Fits(r)
  BY AtWork
<1>3. c \in JobRecord /\ w \in JobRecord
  BY <1>2 DEF AtStep, Opened, Job, JobRecord, Writing
<1>4. row[r.file].path = r.path /\ disk[r.path] \in FileRecord
  <2>1. r.file \in FileId /\ Exists(r.file) /\ r.path = row[r.file].path
    BY <1>1, <1>2 DEF Fits, JobFits, JobOK, Writing, Removing, Exists
  <2>q. QED BY <2>1, RowAtWork
<1>5. mode # "services" /\ r.file \notin spoiled /\ disk[r.path].size < 0 => disk[r.path] = NoFile
  <2>1. r.file \in FileId /\ Exists(r.file)
    BY <1>1, <1>2 DEF Fits, JobFits, JobOK, Writing, Removing, Exists
  <2>2. RowFits(row[r.file], disk[r.path], mode, r.file \in spoiled)
    BY <1>4, <2>1, RowAtWork
  <2> DEFINE d == disk[r.path]
  <2>3. mode # "services" /\ r.file \notin spoiled => \A x \in d.data : x[1] < d.size
    BY <2>2 DEF RowFits, FileOK
  <2>4. d \in FileRecord
    BY <1>4
  <2> HIDE DEF d
  <2>5. ASSUME mode # "services", r.file \notin spoiled, d.size < 0 PROVE d = NoFile
    <3>1. d.size = -1 /\ d.data \in SUBSET (Nat \X Key)
      BY <2>4, <2>5 DEF FileRecord
    <3>2. \A x \in d.data : x[1] \in Nat
      BY <3>1
    <3>3. d.data = {}
      BY <3>1, <3>2, <2>3, <2>5
    <3>q. QED BY <3>1, <3>3, <2>4 DEF NoFile, FileRecord
  <2>q. QED BY <2>5 DEF d
<1>8. r.file \in FileId
  BY <1>1, <1>2 DEF Fits, JobFits, JobOK, Writing
<1>6. CASE UNCHANGED spoiled /\ MustCreate(t)
  <2>1. call' = [call EXCEPT ![t] = c]
    BY <1>6 DEF WriteOpen, Goto, MustCreate
  <2>2. Fits(c)
    <3>1. /\ c.pc = "create" /\ c.key = r.key /\ c.file = r.file /\ c.offset = r.offset /\ c.to = r.to
          /\ c.path = r.path /\ c.seen = r.seen
      BY DEF AtStep, Job
    <3>2. mode # "services" /\ r.file \notin spoiled => disk[r.path] = NoFile
      BY <1>5, <1>6 DEF MustCreate, FileSize
    <3> HIDE DEF c
    <3>q. QED BY <1>1, <1>2, <1>4, <3>1, <3>2
           DEF Fits, JobFits, JobOK, AllSeen, StepOK, Writing, Confirming, Completing, Removing
  <2> HIDE DEF c
  <2>q. QED BY <1>1, <1>3, <1>6, <2>1, <2>2, CallStep
<1>7. CASE UNCHANGED spoiled /\ ~ MustCreate(t) /\ call' = [call EXCEPT ![t] = w]
  <2>1. call' = [call EXCEPT ![t] = w]
    BY <1>7
  <2>2. Fits(w)
    <3>1. /\ w.pc = "write" /\ w.key = r.key /\ w.file = r.file /\ w.offset = r.offset /\ w.to = r.to
          /\ w.path = r.path /\ w.seen = r.seen /\ w.linked = TRUE
      BY DEF Opened, Job
    <3>2. disk[r.path] # NoFile
      BY <1>7 DEF MustCreate, FileSize, NoFile
    <3> HIDE DEF w
    <3>q. QED BY <1>1, <1>2, <1>4, <3>1, <3>2
           DEF Fits, JobFits, JobOK, AllSeen, StepOK, Writing, Confirming, Completing, Removing
  <2> HIDE DEF w
  <2>q. QED BY <1>1, <1>3, <1>7, <2>1, <2>2, CallStep
<1>9. CASE call' = [call EXCEPT ![t] = c] /\ spoiled' = spoiled \cup {r.file}
  <2>1. spoiled \subseteq spoiled' /\ spoiled' \in SUBSET FileId /\ r.file \in spoiled'
    BY <1>8, <1>9 DEF ModesInv, UploadTypes
  <2>2. PICK x \in JobRecord : x = c
    BY <1>3
  <2>3. /\ x.pc = "create" /\ x.key = r.key /\ x.file = r.file /\ x.offset = r.offset /\ x.to = r.to
        /\ x.path = r.path
    BY <2>2 DEF AtStep, Job
  <2>4. call' = [call EXCEPT ![t] = x]
    BY <1>9, <2>2
  <2> HIDE DEF c
  <2>5. Fits(x)'
    BY <1>1, <1>2, <2>1, <2>3
    DEF Fits, JobFits, JobOK, AllSeen, Writing, Confirming, Completing, Removing
  <2>q. QED BY <1>1, <2>1, <2>4, <2>5, SpoilStep
<1>10. \/ UNCHANGED spoiled /\ MustCreate(t)
       \/ UNCHANGED spoiled /\ ~ MustCreate(t) /\ call' = [call EXCEPT ![t] = w]
       \/ call' = [call EXCEPT ![t] = c] /\ spoiled' = spoiled \cup {r.file}
  BY DEF WriteOpen, Goto
<1>q. QED BY <1>6, <1>7, <1>9, <1>10

\* The third open of WriteChunk finds a file.
LEMMA WriteReopenKeeps ==
  ASSUME ModesInv, InTurn', UNCHANGED mode, NEW t \in Thread, WriteReopen(t)
  PROVE  ModesInv'
<1> DEFINE r == call[t]
           w == Opened(r)
<1>1. UNCHANGED <<row, disk, clock, spoiled, mode>> /\ r.pc = "reopen"
  BY DEF WriteReopen, At
<1>2. r \in JobRecord /\ Fits(r)
  BY AtWork
<1>3. w \in JobRecord
  BY <1>2 DEF Opened, Job, JobRecord, Writing
<1>4. row[r.file].path = r.path
  BY <1>1, <1>2 DEF Fits, JobFits, JobOK, Writing
<1>5. CASE call' = [call EXCEPT ![t] = Idle]
  BY <1>1, <1>5, IdleFits, CallStep DEF Fits
<1>6. CASE FileSize(r.path) >= 0 /\ call' = [call EXCEPT ![t] = w]
  <2>1. /\ w.pc = "write" /\ w.key = r.key /\ w.file = r.file /\ w.offset = r.offset /\ w.to = r.to
        /\ w.path = r.path /\ w.seen = r.seen /\ w.linked = TRUE
    BY DEF Opened, Job
  <2>2. disk[r.path] # NoFile
    BY <1>6 DEF FileSize, NoFile
  <2> HIDE DEF w
  <2>3. Fits(w)
    BY <1>1, <1>2, <1>4, <2>1, <2>2
       DEF Fits, JobFits, JobOK, AllSeen, StepOK, Writing, Confirming, Completing, Removing
  <2>q. QED BY <1>1, <1>3, <1>6, <2>3, CallStep
<1>7. \/ call' = [call EXCEPT ![t] = Idle]
      \/ FileSize(r.path) >= 0 /\ call' = [call EXCEPT ![t] = w]
  BY DEF WriteReopen, Refuse
<1>q. QED BY <1>5, <1>6, <1>7

\* A delete reads its row.
LEMMA DeleteBeginKeeps ==
  ASSUME ModesInv, InTurn', UNCHANGED mode, NEW c \in Client, NEW f \in FileId, DeleteBegin(c, f)
  PROVE  ModesInv'
<1> DEFINE r == Job("softdelete", None, f, 0, 0, row[f].path, 0, FALSE)
<1>1. UNCHANGED <<row, disk, clock, spoiled, mode>> /\ c \in Thread /\ Exists(f) /\ call' = [call EXCEPT ![c] = r]
  BY DEF DeleteBegin, Thread
<1>2. r \in JobRecord
  BY <1>1, RowAtWork DEF Job, JobRecord, FileId, Removing
<1>3. r.pc = "softdelete" /\ r.file = f /\ r.path = row[f].path
  BY DEF Job
<1> HIDE DEF r
<1>4. Fits(r)
  BY <1>1, <1>3 DEF Fits, JobFits, JobOK, AllSeen, StepOK, Writing, Confirming, Completing, Removing, Exists
<1>q. QED BY <1>1, <1>2, <1>4, CallStep

\* A job that reads a file, which nothing else relies on.
LEMMA ReadingFits ==
  ASSUME NEW r, NEW rw, NEW file, NEW m, NEW sp, r.pc \in Reading, r.file \in FileId, rw.status # "absent",
         r.key = rw.key
  PROVE  JobFits(r, rw, file, m, sp)
BY DEF JobFits, JobOK, AllSeen, StepOK, Writing, Confirming, Completing, Removing, Reading

\* A download reads its row.
LEMMA DownloadBeginKeeps ==
  ASSUME ModesInv, InTurn', UNCHANGED mode, NEW c \in Client, NEW f \in FileId, DownloadBegin(c, f)
  PROVE  ModesInv'
<1> DEFINE r == Job("get", row[f].key, f, 0, 0, None, 0, FALSE)
<1>1. UNCHANGED <<row, disk, clock, spoiled, mode>> /\ c \in Thread /\ Exists(f) /\ call' = [call EXCEPT ![c] = r]
  BY DEF DownloadBegin, Thread
<1>2. r \in JobRecord
  BY <1>1, RowAtWork DEF Job, JobRecord, FileId, Reading
<1>3. r.pc \in Reading /\ r.file = f /\ r.key = row[f].key
  BY DEF Job, Reading
<1> HIDE DEF r
<1>4. Fits(r)
  BY <1>1, <1>3, ReadingFits DEF Fits, Exists
<1>q. QED BY <1>1, <1>2, <1>4, CallStep

\* What the invariant says of a job that reads.
LEMMA ReadingIs ==
  ASSUME ModesInv, NEW t \in Thread, call[t].pc \in Reading
  PROVE  /\ call[t] \in JobRecord /\ call[t].file \in FileId /\ row[call[t].file].status # "absent"
         /\ call[t].key = row[call[t].file].key /\ call[t].key \in Key
<1>1. call[t] \in JobRecord /\ Fits(call[t])
  BY AtWork
<1>2. /\ call[t].file \in FileId /\ row[call[t].file].status # "absent"
      /\ call[t].key = row[call[t].file].key
  BY <1>1 DEF Fits, JobFits, JobOK, Reading, Removing
<1>q. QED BY <1>1, <1>2, RowAtWork DEF Exists

\* A download asks for a chunk.
LEMMA DownloadAskKeeps ==
  ASSUME ModesInv, InTurn', UNCHANGED mode, NEW t \in Thread, DownloadAsk(t)
  PROVE  ModesInv'
<1> DEFINE r == AtStep(call[t], "reading")
<1>1. UNCHANGED <<row, disk, clock, spoiled, mode>> /\ call' = [call EXCEPT ![t] = r] /\ call[t].pc \in Reading
  BY DEF DownloadAsk, Goto, At, Reading
<1>2. r \in JobRecord
  BY <1>1, ReadingIs DEF AtStep, Job, JobRecord, Reading
<1>3. r.pc \in Reading /\ r.file = call[t].file /\ r.key = call[t].key
  BY DEF Job, AtStep, Reading
<1> HIDE DEF r
<1>4. Fits(r)
  BY <1>1, <1>3, ReadingIs, ReadingFits DEF Fits
<1>q. QED BY <1>1, <1>2, <1>4, CallStep

\* A chunk arrives.
LEMMA DownloadGotKeeps ==
  ASSUME ModesInv, InTurn', UNCHANGED <<row, disk, clock, spoiled, mode>>, NEW t \in Thread, call[t].pc \in Reading,
         NEW n \in Nat, DownloadGot(t, n)
  PROVE  ModesInv'
<1> DEFINE o == call[t].offset + n
           r == Job("get", call[t].key, call[t].file, o, 0, None, 0, FALSE)
<1>0. o \in Nat
  BY ReadingIs DEF JobRecord
<1>1. call' = [call EXCEPT ![t] = r] \/ call' = [call EXCEPT ![t] = Idle]
  BY DEF DownloadGot
<1>2. r \in JobRecord
  BY <1>0, ReadingIs DEF Job, JobRecord, Reading
<1>3. r.pc \in Reading /\ r.file = call[t].file /\ r.key = call[t].key
  BY DEF Job, Reading
<1> HIDE DEF r
<1>4. Fits(r)
  BY <1>3, ReadingIs, ReadingFits DEF Fits
<1>5. Fits(Idle) /\ Idle \in JobRecord
  BY IdleFits DEF Fits
<1>q. QED BY <1>1, <1>2, <1>4, <1>5, CallStep

\* A read returns at most the blocks there are.
LEMMA ReadChunkNat ==
  ASSUME ModesInv, NEW t \in Thread, call[t].pc \in Reading, NEW p
  PROVE  ReadChunk(p, call[t].offset, 1) \in Nat
<1>1. call[t].offset \in Nat
  BY ReadingIs DEF JobRecord
<1>2. CASE p \notin Path
  BY <1>2 DEF ReadChunk
<1>3. CASE p \in Path
  <2>0. disk[p] \in FileRecord
    BY <1>3 DEF ModesInv, UploadTypes
  <2>1. FileSize(p) \in Int
    BY <2>0 DEF FileSize, FileRecord
  <2>q. QED BY <2>1, <1>1, <1>3 DEF ReadChunk
<1>q. QED BY <1>2, <1>3

\* download_chunk of the gateway.
LEMMA DownloadReadKeeps ==
  ASSUME ModesInv, InTurn', UNCHANGED mode, NEW t \in Thread, Services!DownloadRead(t)
  PROVE  ModesInv'
<1>1. call[t].pc \in Reading /\ UNCHANGED <<row, disk, clock, spoiled, mode>>
  BY DEF Services!DownloadRead, Services!At, Reading
<1>2. DownloadGot(t, ReadChunk(None, call[t].offset, 1))
  BY DEF Services!DownloadRead, Services!DownloadGot, Services!ReadChunk, Services!Job, Services!Idle, Services!FileSize,
         Services!Path, DownloadGot, ReadChunk, Job, Idle, FileSize, Path
<1>3. ReadChunk(None, call[t].offset, 1) \in Nat
  BY <1>1, ReadChunkNat
<1>q. QED BY <1>1, <1>2, <1>3, DownloadGotKeeps

\* DownloadChunk of the single process.
LEMMA DownloadChunkKeeps ==
  ASSUME ModesInv, InTurn', UNCHANGED mode, NEW t \in Thread, Server!DownloadChunk(t)
  PROVE  ModesInv'
<1> DEFINE f == call[t].file
           n == IF row[f].status = "deleted" THEN 0 ELSE ReadChunk(row[f].path, call[t].offset, 1)
<1>1. call[t].pc \in Reading /\ UNCHANGED <<row, disk, clock, spoiled, mode>>
  BY DEF Server!DownloadChunk, Server!At, Reading
<1>2. IF n = 0 THEN call' = Refuse(t) ELSE DownloadGot(t, n)
  BY DEF Server!DownloadChunk, Server!DownloadStep, Server!DownloadGot, Server!ReadChunk, Server!Job, Server!Idle,
         Server!FileSize, Server!Path, Server!Refuse, DownloadGot, ReadChunk, Job, Idle, FileSize, Path, Refuse
<1>3. n \in Nat
  BY <1>1, ReadChunkNat
<1> HIDE DEF n, f
<1>4. CASE n = 0
  BY <1>1, <1>2, <1>4, IdleFits, CallStep DEF Fits, Refuse
<1>5. CASE n # 0
  BY <1>1, <1>2, <1>3, <1>5, DownloadGotKeeps
<1>q. QED BY <1>4, <1>5

-----------------------------------------------------------------------------
(***************************************************************************)
(* Requests of the two modes that change no row and no file.               *)
(***************************************************************************)
\* What the invariant says of a job that works on a row.
LEMMA JobIs ==
  ASSUME ModesInv, NEW t \in Thread, call[t].pc \notin {"idle", "insert"}
  PROVE  LET r == call[t]
             f == r.file
         IN  /\ r \in JobRecord /\ f \in FileId /\ row[f].status # "absent" /\ Exists(f)
             /\ row[f] \in RowRecord /\ row[f].key \in Key /\ row[f].path \in Path
             /\ disk[row[f].path] \in FileRecord
             /\ JobFits(r, row[f], disk[row[f].path], mode, f \in spoiled)
             /\ RowFits(row[f], disk[row[f].path], mode, f \in spoiled)
             /\ Size[row[f].key] \in Nat
             /\ r.pc \notin Removing => r.key = row[f].key
             /\ r.pc \in Writing \cup Removing \cup {"stat"} => r.path = row[f].path
<1> DEFINE r == call[t]
           f == r.file
<1>1. r \in JobRecord /\ Fits(r)
  BY AtWork
<1>2. f \in FileId /\ row[f].status # "absent" /\ (r.pc \notin Removing => r.key = row[f].key)
      /\ (r.pc \in Writing \cup Removing \cup {"stat"} => r.path = row[f].path)
  BY <1>1 DEF Fits, JobFits, JobOK
<1>q. QED BY <1>1, <1>2, RowAtWork, Ranges DEF Exists, Fits

\* An answer: the client goes on where the table allows it.
LEMMA AnswerKeeps ==
  ASSUME ModesInv, InTurn', UNCHANGED <<row, disk, clock, spoiled, mode>>, NEW t \in Thread,
         call[t].pc \notin {"idle", "insert"} \cup Removing, NEW n \in Nat,
         LET f == call[t].file
         IN  mode # "services" /\ f \notin spoiled => Has(disk[row[f].path], row[f].key, n),
         call' = Succeed(t, call[t].file, call[t].key, n)
  PROVE  ModesInv'
<1>1. call[t].file \in FileId /\ call[t].key \in Key /\ call[t].key = row[call[t].file].key
      /\ row[call[t].file].status # "absent"
  BY JobIs
<1> DEFINE f == call[t].file
           k == call[t].key
<1>2. PICK r \in JobRecord :
        /\ call' = [call EXCEPT ![t] = r]
        /\ r = Idle \/ (r.pc = "ready" /\ r.key = k /\ r.file = f /\ r.offset = n)
  <2>1. f \in FileId /\ k \in Key /\ call' = Succeed(t, f, k, n)
    BY <1>1
  <2> HIDE DEF f, k
  <2>q. QED BY <2>1, SucceedRecord
<1>3. Fits(r)
  <2>1. CASE r = Idle
    BY <2>1, IdleFits DEF Fits
  <2>2. CASE r.pc = "ready" /\ r.key = call[t].key /\ r.file = call[t].file /\ r.offset = n
    BY <2>2, <1>1, ReadyFits DEF Fits
  <2>q. QED BY <2>1, <2>2, <1>2
<1>q. QED BY <1>2, <1>3, CallStep

\* A refusal.
LEMMA RefuseKeeps ==
  ASSUME ModesInv, InTurn', UNCHANGED <<row, disk, clock, spoiled, mode>>, NEW t \in Thread, call' = Refuse(t)
  PROVE  ModesInv'
BY IdleFits, CallStep DEF Refuse, Fits

\* A chunk starts on its way to a file.
LEMMA ChunkKeeps ==
  ASSUME ModesInv, InTurn', UNCHANGED <<row, disk, clock, spoiled, mode>>, NEW t \in Thread, call[t].pc = "ready",
         NEW n \in Nat,
         LET r == call[t]
             f == r.file
         IN  /\ call' = [call EXCEPT ![t] = Chunk(r, r.offset + 1, row[f].path, n)]
             /\ r.offset + 1 <= Size[r.key] /\ row[f].status = "uploading"
             /\ mode = "patient-server" => n = row[f].upload_size
  PROVE  ModesInv'
<1> DEFINE r == call[t]
           f == r.file
           c == Chunk(r, r.offset + 1, row[f].path, n)
<1>1. /\ r \in JobRecord /\ f \in FileId /\ row[f].status # "absent" /\ row[f].path \in Path
      /\ r.key = row[f].key /\ JobFits(r, row[f], disk[row[f].path], mode, f \in spoiled)
  BY JobIs DEF Removing
<1>2. r.offset \in Nat /\ r.offset + 1 \in Nat /\ r.key \in Key \cup {None} /\ f \in Nat
  BY <1>1 DEF JobRecord
<1>3. c \in JobRecord
  BY <1>1, <1>2 DEF Chunk, Job, JobRecord, Writing
<1>4. /\ c.pc = "open" /\ c.key = r.key /\ c.file = f /\ c.offset = r.offset /\ c.to = r.offset + 1
      /\ c.path = row[f].path /\ c.seen = n
  BY DEF Chunk, Job
<1> HIDE DEF c
<1>5. JobFits(c, row[f], disk[row[f].path], mode, f \in spoiled)
  BY <1>1, <1>4 DEF JobFits, JobOK, AllSeen, StepOK, Gone, Writing, Confirming, Completing, Removing
<1>6. Fits(c)
  BY <1>4, <1>5 DEF Fits
<1>7. call' = [call EXCEPT ![t] = c]
  BY DEF c
<1>q. QED BY <1>3, <1>6, <1>7, CallStep

\* A finalize asks for the size of the file.
LEMMA AskSizeKeeps ==
  ASSUME ModesInv, InTurn', UNCHANGED <<row, disk, clock, spoiled, mode>>, NEW t \in Thread, call[t].pc = "ready",
         LET r == call[t]
             f == r.file
         IN  /\ call' = [call EXCEPT ![t] = Job("stat", r.key, f, r.offset, 0, row[f].path, 0, FALSE)]
             /\ mode # "patient-server" => row[f].upload_size = Size[r.key]
  PROVE  ModesInv'
<1> DEFINE r == call[t]
           f == r.file
           c == Job("stat", r.key, f, r.offset, 0, row[f].path, 0, FALSE)
<1>1. /\ r \in JobRecord /\ f \in FileId /\ row[f].status # "absent" /\ row[f].path \in Path
      /\ r.key = row[f].key
  BY JobIs DEF Removing
<1>2. r.offset \in Nat
  BY <1>1 DEF JobRecord
<1>3. c \in JobRecord
  BY <1>1, <1>2 DEF Job, JobRecord, Completing
<1>4. c.pc = "stat" /\ c.key = r.key /\ c.file = f /\ c.path = row[f].path
  BY DEF Job
<1> HIDE DEF c
<1>5. JobFits(c, row[f], disk[row[f].path], mode, f \in spoiled)
  BY <1>1, <1>4 DEF JobFits, JobOK, AllSeen, StepOK, Writing, Confirming, Completing, Removing
<1>6. Fits(c)
  BY <1>4, <1>5 DEF Fits
<1>7. call' = [call EXCEPT ![t] = c]
  BY DEF c
<1>q. QED BY <1>3, <1>6, <1>7, CallStep

\* The size is as announced.
LEMMA SizeSeenKeeps ==
  ASSUME ModesInv, InTurn', UNCHANGED <<row, disk, clock, spoiled, mode>>, NEW t \in Thread, call[t].pc = "stat",
         call' = Goto(t, "complete"),
         LET r == call[t]
         IN  mode # "services" /\ r.file \notin spoiled => FileSize(r.path) = Size[r.key]
  PROVE  ModesInv'
<1> DEFINE r == call[t]
           f == r.file
           c == AtStep(r, "complete")
<1>1. /\ r \in JobRecord /\ f \in FileId /\ row[f].status # "absent" /\ r.path = row[f].path
      /\ r.key = row[f].key /\ JobFits(r, row[f], disk[row[f].path], mode, f \in spoiled)
  BY JobIs DEF Removing
<1>3. c \in JobRecord
  BY <1>1 DEF AtStep, Job, JobRecord, Completing
<1>4. c.pc = "complete" /\ c.key = r.key /\ c.file = f /\ c.path = r.path
  BY DEF AtStep, Job
<1>2. mode # "services" /\ f \notin spoiled => disk[row[f].path].size = Size[r.key]
  BY <1>1 DEF FileSize
<1> HIDE DEF c
<1>5. JobFits(c, row[f], disk[row[f].path], mode, f \in spoiled)
  BY <1>1, <1>2, <1>4 DEF JobFits, JobOK, AllSeen, StepOK, Writing, Confirming, Completing, Removing
<1>6. Fits(c)
  BY <1>4, <1>5 DEF Fits
<1>7. call' = [call EXCEPT ![t] = c]
  BY DEF c, Goto
<1>q. QED BY <1>3, <1>6, <1>7, CallStep

\* A part of what upload_size says is in the file.
LEMMA ConfirmedHas ==
  ASSUME ModesInv, NEW t \in Thread, call[t].pc \notin {"idle", "insert"}, NEW n \in Nat,
         LET f == call[t].file IN n <= row[f].upload_size /\ row[f].status # "deleted" /\ f \notin spoiled,
         mode # "services"
  PROVE  LET f == call[t].file IN Has(disk[row[f].path], row[f].key, n)
<1> DEFINE f == call[t].file
           u == row[f].upload_size
<1>1. row[f] \in RowRecord /\ RowFits(row[f], disk[row[f].path], mode, f \in spoiled)
  BY JobIs
<1>2. u \in Nat /\ n <= u
  BY <1>1 DEF RowRecord
<1>3. Has(disk[row[f].path], row[f].key, u)
  BY <1>1 DEF RowFits, FileOK, Stored, Gone
<1> HIDE DEF u
<1>4. \A b \in 0 .. (n - 1) : b \in 0 .. (u - 1)
  BY <1>2
<1>q. QED BY <1>3, <1>4 DEF Has

\* PrepareUploadChunk.
LEMMA PrepareKeeps ==
  ASSUME ModesInv, InTurn', UNCHANGED mode, mode # "patient-server", NEW t \in Thread,
         Services!PrepareUploadChunk(t)
  PROVE  ModesInv'
<1> DEFINE f == call[t].file
           k == call[t].key
           to == call[t].offset + 1
<1>1. UNCHANGED <<row, disk, clock, spoiled, mode>> /\ call[t].pc = "ready"
  BY DEF Services!PrepareUploadChunk, Services!At
<1>2. to \in Nat /\ k = row[f].key
  <2>1. call[t] \in JobRecord /\ k = row[f].key
    BY <1>1, JobIs DEF Removing
  <2>q. QED BY <2>1 DEF JobRecord
<1>3. \/ call' = Refuse(t)
      \/ call' = Succeed(t, f, k, to) /\ to <= row[f].upload_size /\ row[f].status = "uploading"
      \/ /\ call' = [call EXCEPT ![t] = Chunk(call[t], to, row[f].path, 0)]
         /\ to <= Size[row[f].key] /\ row[f].status = "uploading"
  BY DEF Services!PrepareUploadChunk, Services!Refuse, Services!Succeed, Services!Chunk, Services!ValidChunk,
         Services!Uploading, Services!Exists, Services!Job, Services!Idle, Refuse, Succeed, Chunk, Job, Idle
<1>4. CASE call' = Succeed(t, f, k, to) /\ to <= row[f].upload_size /\ row[f].status = "uploading"
  <2>1. mode # "services" /\ f \notin spoiled => Has(disk[row[f].path], row[f].key, to)
    BY <1>1, <1>2, <1>4, ConfirmedHas DEF Removing
  <2>q. QED BY <1>1, <1>2, <1>4, <2>1, AnswerKeeps DEF Removing
<1>q. QED BY <1>1, <1>2, <1>3, <1>4, RefuseKeeps, ChunkKeeps DEF Removing

\* validate_chunk of ConfirmUploadChunk.
LEMMA ConfirmCheckKeeps ==
  ASSUME ModesInv, InTurn', UNCHANGED mode, NEW t \in Thread, Services!ConfirmCheck(t)
  PROVE  ModesInv'
<1> DEFINE r == call[t]
           c == AtStep(r, "confirm")
<1>1. UNCHANGED <<row, disk, clock, spoiled, mode>> /\ r.pc = "check"
  BY DEF Services!ConfirmCheck, Services!At
<1>2. call' = Refuse(t) \/ call' = [call EXCEPT ![t] = c]
  BY DEF Services!ConfirmCheck, Services!Refuse, Services!Goto, Services!AtStep, Services!Job, Services!Idle,
         Refuse, AtStep, Job, Idle
<1>3. r \in JobRecord /\ Fits(r)
  BY AtWork
<1>4. c \in JobRecord
  BY <1>3 DEF AtStep, Job, JobRecord, Confirming
<1>5. /\ c.pc = "confirm" /\ c.key = r.key /\ c.file = r.file /\ c.offset = r.offset /\ c.to = r.to
      /\ c.path = r.path
  BY DEF AtStep, Job
<1> HIDE DEF c
<1>6. Fits(c)
  BY <1>1, <1>3, <1>5 DEF Fits, JobFits, JobOK, AllSeen, StepOK, Writing, Confirming, Completing, Removing
<1>q. QED BY <1>1, <1>2, <1>4, <1>6, RefuseKeeps, CallStep

\* FindById after a conditional UPDATE that changed nothing.
LEMMA ConfirmRereadKeeps ==
  ASSUME ModesInv, InTurn', UNCHANGED mode, NEW t \in Thread, Services!ConfirmReread(t)
  PROVE  ModesInv'
<1> DEFINE f == call[t].file
           k == call[t].key
           to == call[t].to
<1>1. UNCHANGED <<row, disk, clock, spoiled, mode>> /\ call[t].pc = "reread"
  BY DEF Services!ConfirmReread, Services!At
<1>2. to \in Nat /\ f \in FileId /\ row[f] \in RowRecord
  BY <1>1, JobIs DEF JobRecord, Removing
<1>3. \/ call' = Refuse(t)
      \/ call' = Succeed(t, f, k, to) /\ row[f].upload_size >= to /\ row[f].status = "uploading"
  BY DEF Services!ConfirmReread, Services!Uploading, Services!Refuse, Services!Succeed, Services!Job, Services!Idle,
         Refuse, Succeed, Job, Idle
<1>4. CASE call' = Succeed(t, f, k, to) /\ row[f].upload_size >= to /\ row[f].status = "uploading"
  <2>1. to <= row[f].upload_size
    BY <1>4, <1>2 DEF RowRecord
  <2>2. mode # "services" /\ f \notin spoiled => Has(disk[row[f].path], row[f].key, to)
    BY <1>1, <1>2, <1>4, <2>1, ConfirmedHas
  <2>q. QED BY <1>1, <1>2, <1>4, <2>2, AnswerKeeps DEF Removing
<1>q. QED BY <1>1, <1>3, <1>4, RefuseKeeps

\* UploadFinalize of the microservice mode reads its row.
LEMMA ServiceFinalizeBeginKeeps ==
  ASSUME ModesInv, InTurn', UNCHANGED mode, NEW t \in Thread, Services!FinalizeBegin(t)
  PROVE  ModesInv'
<1>1. UNCHANGED <<row, disk, clock, spoiled, mode>> /\ call[t].pc = "ready"
  BY DEF Services!FinalizeBegin, Services!At
<1> DEFINE r == call[t]
           f == r.file
<1>2. r.key = row[f].key
  BY <1>1, JobIs DEF Removing
<1>3. \/ call' = Refuse(t)
      \/ /\ call' = [call EXCEPT ![t] = Job("stat", r.key, f, r.offset, 0, row[f].path, 0, FALSE)]
         /\ row[f].upload_size = Size[row[f].key]
  BY DEF Services!FinalizeBegin, Services!AllConfirmed, Services!Refuse, Services!Job, Services!Idle, Refuse, Job, Idle
<1>q. QED BY <1>1, <1>2, <1>3, RefuseKeeps, AskSizeKeeps

\* ... compares the size of the file.
LEMMA ServiceFinalizeStatKeeps ==
  ASSUME ModesInv, InTurn', UNCHANGED mode, NEW t \in Thread, Services!FinalizeStat(t)
  PROVE  ModesInv'
<1>1. UNCHANGED <<row, disk, clock, spoiled, mode>> /\ call[t].pc = "stat"
  BY DEF Services!FinalizeStat, Services!At
<1>2. \/ call' = Refuse(t)
      \/ call' = Goto(t, "complete") /\ FileSize(call[t].path) = Size[call[t].key]
  BY DEF Services!FinalizeStat, Services!FileSize, Services!Refuse, Services!Goto, Services!AtStep, Services!Job,
         Services!Idle, FileSize, Refuse, Goto, AtStep, Job, Idle
<1>q. QED BY <1>1, <1>2, RefuseKeeps, SizeSeenKeeps

\* UploadData reads its row.
LEMMA UploadDataKeeps ==
  ASSUME ModesInv, InTurn', UNCHANGED mode, NEW t \in Thread, Server!UploadData(t)
  PROVE  ModesInv'
<1> DEFINE r == call[t]
           f == r.file
<1>1. UNCHANGED <<row, disk, clock, spoiled, mode>> /\ r.pc = "ready" /\ r.offset < Size[r.key]
  BY DEF Server!UploadData, Server!At
<1>2. r.offset \in Nat /\ row[f].upload_size \in Nat /\ Size[r.key] \in Nat
  BY <1>1, JobIs DEF JobRecord, RowRecord, Removing
<1>3. \/ call' = Refuse(t)
      \/ /\ call' = [call EXCEPT ![t] = Chunk(r, r.offset + 1, row[f].path, row[f].upload_size)]
         /\ row[f].status = "uploading"
  BY DEF Server!UploadData, Server!Uploading, Server!Exists, Server!Refuse, Server!Chunk, Server!Job, Server!Idle,
         Refuse, Chunk, Job, Idle
<1>4. r.offset + 1 <= Size[r.key]
  BY <1>1, <1>2
<1>q. QED BY <1>1, <1>2, <1>3, <1>4, RefuseKeeps, ChunkKeeps

\* UploadFinalize of the single process reads its row.
LEMMA ServerFinalizeBeginKeeps ==
  ASSUME ModesInv, InTurn', UNCHANGED mode, mode = "patient-server", NEW t \in Thread, Server!FinalizeBegin(t)
  PROVE  ModesInv'
<1> DEFINE r == call[t]
           f == r.file
<1>1. UNCHANGED <<row, disk, clock, spoiled, mode>> /\ r.pc = "ready"
  BY DEF Server!FinalizeBegin, Server!At
<1>2. \/ call' = Refuse(t)
      \/ call' = [call EXCEPT ![t] = Job("stat", r.key, f, r.offset, 0, row[f].path, 0, FALSE)]
  BY DEF Server!FinalizeBegin, Server!Refuse, Server!Job, Server!Idle, Refuse, Job, Idle
<1>q. QED BY <1>1, <1>2, RefuseKeeps, AskSizeKeeps

\* ... finds the file large enough, and it is never larger.
LEMMA ServerFinalizeStatKeeps ==
  ASSUME ModesInv, InTurn', UNCHANGED mode, mode = "patient-server", NEW t \in Thread, Server!FinalizeStat(t)
  PROVE  ModesInv'
<1> DEFINE r == call[t]
           f == r.file
<1>1. UNCHANGED <<row, disk, clock, spoiled, mode>> /\ r.pc = "stat"
  BY DEF Server!FinalizeStat, Server!At
<1>2. /\ r.key = row[f].key /\ r.path = row[f].path /\ Size[r.key] \in Nat
      /\ disk[row[f].path] \in FileRecord /\ RowFits(row[f], disk[row[f].path], mode, f \in spoiled)
  BY <1>1, JobIs DEF Removing
<1> DEFINE z == FileSize(r.path)
           s == Size[r.key]
<1>3. z \in Int /\ s \in Nat /\ (f \notin spoiled => z <= s)
  <2>1. z = disk[row[f].path].size /\ s = Size[row[f].key]
    BY <1>2 DEF FileSize
  <2>2. f \notin spoiled => z <= s
    BY <1>2, <2>1 DEF RowFits, FileOK
  <2>3. disk[row[f].path].size \in Int
    BY <1>2 DEF FileRecord
  <2>q. QED BY <1>2, <2>1, <2>2, <2>3
<1>4. \/ call' = Refuse(t)
      \/ call' = Goto(t, "complete") /\ FileSize(r.path) >= Size[r.key]
  BY DEF Server!FinalizeStat, Server!BigEnough, Server!FileSize, Server!Refuse, Server!Goto, Server!AtStep, Server!Job,
         Server!Idle, FileSize, Refuse, Goto, AtStep, Job, Idle
<1>5. \/ call' = Refuse(t)
      \/ call' = Goto(t, "complete") /\ (f \notin spoiled => FileSize(r.path) = Size[r.key])
  <2> HIDE DEF z, s
  <2>1. z >= s => (f \notin spoiled => z = s)
    BY <1>3
  <2>q. QED BY <1>4, <2>1 DEF z, s
<1>q. QED BY <1>1, <1>5, RefuseKeeps, SizeSeenKeeps

-----------------------------------------------------------------------------
(***************************************************************************)
(* Steps that write a row.                                                 *)
(***************************************************************************)
\* What another thread relies on is left by one that writes a row at its turn.
LEMMA OthersFit ==
  ASSUME NEW x \in JobRecord, NEW rw \in RowRecord, NEW w \in RowRecord, NEW file, NEW m, NEW sp,
         JobFits(x, rw, file, m, sp), rw.key \in Key,
         w.status # "absent", w.key = rw.key, w.path = rw.path,
         m # "patient-server" /\ rw.upload_size = Size[rw.key] => w.upload_size = rw.upload_size,
         m # "services" /\ ~ sp /\ Gone(rw, file) => Gone(w, file),
         m # "services" => x.pc \in {"idle", "ready", "get", "reading"}
  PROVE  JobFits(x, w, file, m, sp)
<1>2. JobOK(x, w)
  BY DEF JobFits, JobOK
<1>3. m # "patient-server" => AllSeen(x, w)
  BY DEF JobFits, AllSeen
<1>4. ASSUME m # "services", ~ sp PROVE StepOK(x, w, file, m)
  <2>1. x.pc = "ready" => Has(file, x.key, x.offset) \/ Gone(w, file)
    BY <1>4 DEF JobFits, StepOK
  <2>q. QED BY <1>4, <2>1 DEF StepOK, Writing, Confirming, Completing
<1>q. QED BY <1>2, <1>3, <1>4 DEF JobFits

\* While one handler is at work, the others are not, where requests take turns.
LEMMA OthersIdle ==
  ASSUME ModesInv, mode # "services", NEW t \in Thread, call[t].pc \notin {"idle", "ready", "get", "reading"},
         NEW u \in Thread, u # t
  PROVE  call[u].pc \in {"idle", "ready", "get", "reading"}
BY DEF ModesInv, InTurn, Patient, InRequest

\* A step of one thread that writes one row.
LEMMA RowStep ==
  ASSUME ModesInv, InTurn', UNCHANGED <<disk, clock, spoiled, mode>>, NEW t \in Thread, NEW f \in FileId, Exists(f),
         call[t].pc \notin {"idle", "ready", "get", "reading"},
         NEW w \in RowRecord, row' = [row EXCEPT ![f] = w],
         w.status # "absent", w.key = row[f].key, w.path = row[f].path,
         mode # "patient-server" /\ row[f].upload_size = Size[row[f].key] => w.upload_size = row[f].upload_size,
         mode # "services" /\ f \notin spoiled /\ Gone(row[f], disk[w.path]) => Gone(w, disk[w.path]),
         RowFits(w, disk[w.path], mode, f \in spoiled),
         NEW r \in JobRecord, call' = [call EXCEPT ![t] = r],
         r = Idle \/ (r.file = f /\ JobFits(r, w, disk[w.path], mode, f \in spoiled))
  PROVE  ModesInv'
<1>1. UploadTypes'
  BY DEF ModesInv, UploadTypes
<1>2. \A g \in FileId : row'[g] = IF g = f THEN w ELSE row[g]
  BY DEF ModesInv, UploadTypes
<1>3. \A g \in FileId : (Exists(g)' <=> Exists(g)) /\ row'[g].path = row[g].path /\ row'[g].key = row[g].key
  BY <1>2 DEF Exists
<1>4. RowsInv' /\ FilesHaveRows' /\ NotMixed'
  <2>1. OwnPaths'
    BY <1>3 DEF ModesInv, RowsInv, OwnPaths
  <2>2. ASSUME NEW g \in FileId
        PROVE  (IF Exists(g) THEN row[g].key \in Key /\ row[g].path \in Path ELSE row[g].upload_size = 0)'
    BY <1>2, <1>3 DEF ModesInv, RowsInv
  <2>3. FilesHaveRows'
    BY <1>3 DEF ModesInv, FilesHaveRows
  <2>4. NotMixed'
    BY <1>3 DEF ModesInv, NotMixed
  <2>q. QED BY <2>1, <2>2, <2>3, <2>4 DEF RowsInv
<1>5. FilesInv'
  BY <1>2, <1>3 DEF ModesInv, FilesInv
<1>6. ASSUME NEW u \in Thread PROVE \E x : call'[u] = x /\ Fits(x)'
  <2>1. CASE u = t
    <3>1. call'[u] = r
      BY <2>1 DEF ModesInv, UploadTypes
    <3>2. Fits(r)'
      BY <1>2, IdleFits DEF Fits
    <3>q. QED BY <3>1, <3>2
  <2>2. CASE u # t
    <3>1. PICK x : x = call'[u] /\ x = call[u]
      BY <2>2 DEF ModesInv, UploadTypes
    <3>2. Fits(x) /\ x \in JobRecord
      BY <3>1, AtWork
    <3>3. mode # "services" => x.pc \in {"idle", "ready", "get", "reading"}
      BY <2>2, <3>1, OthersIdle
    <3>4. CASE x.file = f
      <4>1. row[f] \in RowRecord /\ row[f].key \in Key
        BY RowAtWork
      <4>2. JobFits(x, w, disk[w.path], mode, f \in spoiled)
        BY <3>2, <3>3, <3>4, <4>1, OthersFit DEF Fits
      <4>q. QED BY <1>2, <3>1, <3>4, <4>2 DEF Fits
    <3>5. CASE x.file # f /\ x.file \in FileId
      BY <1>2, <3>1, <3>2, <3>5 DEF Fits
    <3>6. CASE x.file \notin FileId
      <4>1. x.pc \in {"idle", "insert"}
        BY <3>2, <3>6 DEF Fits, JobFits, JobOK
      <4>2. \A rw, file, m, sp : JobFits(x, rw, file, m, sp)
        BY <3>2, <4>1 DEF Fits, JobFits, JobOK, AllSeen, StepOK, Writing, Confirming, Completing, Removing
      <4>q. QED BY <3>1, <4>2 DEF Fits
    <3>q. QED BY <3>4, <3>5, <3>6
  <2>q. QED BY <2>1, <2>2
<1>q. QED BY <1>1, <1>4, <1>5, <1>6, JobByJob DEF ModesInv

\* FileDAO sets a status.
LEMMA StatusKeeps ==
  ASSUME ModesInv, InTurn', UNCHANGED <<disk, clock, spoiled, mode>>, NEW t \in Thread,
         call[t].pc \notin {"idle", "insert", "ready", "get", "reading"},
         NEW s \in {"completed", "deleted"}, row' = UpdateStatus(call[t].file, s),
         LET f == call[t].file
         IN  s = "completed" => /\ mode # "patient-server" => row[f].upload_size = Size[row[f].key]
                                /\ mode # "services" /\ f \notin spoiled => disk[row[f].path].size = Size[row[f].key],
         NEW r \in JobRecord, call' = [call EXCEPT ![t] = r], r.file = call[t].file \/ r = Idle,
         LET f == call[t].file
         IN  r # Idle => JobFits(r, [status |-> s, key |-> row[f].key, path |-> row[f].path,
                                     upload_size |-> row[f].upload_size], disk[row[f].path], mode, f \in spoiled)
  PROVE  ModesInv'
<1> DEFINE f == call[t].file
           w == [status |-> s, key |-> row[f].key, path |-> row[f].path, upload_size |-> row[f].upload_size]
<1>1. /\ f \in FileId /\ Exists(f) /\ row[f] \in RowRecord /\ row[f].key \in Key
      /\ disk[row[f].path] \in FileRecord /\ RowFits(row[f], disk[row[f].path], mode, f \in spoiled) /\ Size[row[f].key] \in Nat
  BY JobIs
<1>2. w \in RowRecord
  BY <1>1 DEF RowRecord
<1>3. row' = [row EXCEPT ![f] = w]
  BY DEF UpdateStatus
<1>4. w.status = s /\ w.key = row[f].key /\ w.path = row[f].path /\ w.upload_size = row[f].upload_size
  OBVIOUS
<1>5. r = Idle \/ (r.file = f /\ JobFits(r, w, disk[row[f].path], mode, f \in spoiled))
  OBVIOUS
<1>9. s = "completed" => /\ mode # "patient-server" => row[f].upload_size = Size[row[f].key]
                         /\ mode # "services" /\ f \notin spoiled => disk[row[f].path].size = Size[row[f].key]
  OBVIOUS
<1> HIDE DEF w, f
<1>10. ASSUME s = "completed", mode # "services", f \notin spoiled PROVE disk[row[f].path] # NoFile
  <2>1. disk[row[f].path].size \in Nat
    BY <1>1, <1>9, <1>10
  <2>q. QED BY <2>1 DEF NoFile
<1>6. RowFits(w, disk[w.path], mode, f \in spoiled)
  <2>1. CASE s = "deleted"
    BY <1>1, <1>4, <2>1 DEF RowFits, FileOK, Stored, Gone
  <2>2. CASE s = "completed"
    <3>1. ASSUME mode # "services", f \notin spoiled PROVE FileOK(w, disk[w.path])
      BY <1>1, <1>4, <1>9, <1>10, <2>2, <3>1 DEF RowFits, FileOK, Stored, Gone
    <3>q. QED BY <1>4, <1>9, <2>2, <3>1 DEF RowFits
  <2>q. QED BY <2>1, <2>2
<1>7. mode # "services" /\ f \notin spoiled /\ Gone(row[f], disk[w.path]) => Gone(w, disk[w.path])
  BY <1>4, <1>10 DEF Gone
<1>8. r = Idle \/ (r.file = f /\ JobFits(r, w, disk[w.path], mode, f \in spoiled))
  BY <1>4, <1>5
<1>q. QED BY <1>1, <1>2, <1>3, <1>4, <1>6, <1>7, <1>8, RowStep

\* FileDAO sets upload_size.
LEMMA SizeKeeps ==
  ASSUME ModesInv, InTurn', UNCHANGED <<disk, clock, spoiled, mode>>, NEW t \in Thread,
         call[t].pc \notin {"idle", "insert", "ready", "get", "reading"} \cup Removing, NEW n \in Nat,
         row' = UpdateUploadSize(call[t].file, n),
         LET f == call[t].file
         IN  /\ mode # "patient-server" /\ row[f].upload_size = Size[row[f].key] => n = row[f].upload_size
             /\ mode # "services" /\ f \notin spoiled => n <= Size[row[f].key] /\ Has(disk[row[f].path], row[f].key, n),
         NEW r \in JobRecord, call' = [call EXCEPT ![t] = r],
         \/ r = Idle
         \/ /\ r.pc = "ready" /\ r.file = call[t].file /\ r.key = call[t].key
            /\ LET f == call[t].file
               IN  mode # "services" /\ f \notin spoiled => Has(disk[row[f].path], row[f].key, r.offset)
  PROVE  ModesInv'
<1> DEFINE f == call[t].file
           rw == row[f]
           w == [status |-> rw.status, key |-> rw.key, path |-> rw.path, upload_size |-> n]
<1>1. /\ f \in FileId /\ Exists(f) /\ rw \in RowRecord /\ rw.key \in Key /\ rw.status # "absent"
      /\ disk[rw.path] \in FileRecord /\ RowFits(rw, disk[rw.path], mode, f \in spoiled) /\ Size[rw.key] \in Nat
      /\ call[t].key = rw.key
  BY JobIs
<1>2. w \in RowRecord
  BY <1>1 DEF RowRecord
<1>3. row' = [row EXCEPT ![f] = w]
  BY DEF UpdateUploadSize
<1>4. w.status = rw.status /\ w.key = rw.key /\ w.path = rw.path /\ w.upload_size = n
  OBVIOUS
<1>5. mode # "patient-server" /\ rw.upload_size = Size[rw.key] => n = rw.upload_size
  OBVIOUS
<1>6. mode # "services" /\ f \notin spoiled => n <= Size[rw.key] /\ Has(disk[rw.path], rw.key, n)
  OBVIOUS
<1>7. \/ r = Idle
      \/ /\ r.pc = "ready" /\ r.file = f /\ r.key = rw.key
         /\ mode # "services" /\ f \notin spoiled => Has(disk[rw.path], rw.key, r.offset)
  BY <1>1
<1> HIDE DEF w, rw, f
<1>9. RowFits(w, disk[w.path], mode, f \in spoiled)
  <2>1. mode # "patient-server" /\ w.status = "completed" => w.upload_size = Size[w.key]
    BY <1>1, <1>4, <1>5 DEF RowFits
  <2>2. ASSUME mode # "services", f \notin spoiled PROVE FileOK(w, disk[w.path])
    BY <2>2, <1>1, <1>4, <1>6 DEF RowFits, FileOK, Stored
  <2>q. QED BY <2>1, <2>2 DEF RowFits
<1>10. r = Idle \/ (r.file = f /\ JobFits(r, w, disk[w.path], mode, f \in spoiled))
  BY <1>1, <1>4, <1>7, ReadyFits
<1>11. call[t].pc \notin {"idle", "ready", "get", "reading"}
  OBVIOUS
<1>q. QED
  <2>1. row[f] = rw
    BY DEF rw
  <2>2. w.status # "absent" /\ w.key = row[f].key /\ w.path = row[f].path
    BY <2>1, <1>1, <1>4
  <2>3. mode # "patient-server" /\ row[f].upload_size = Size[row[f].key] => w.upload_size = row[f].upload_size
    BY <2>1, <1>4, <1>5
  <2>4. Gone(row[f], disk[w.path]) => Gone(w, disk[w.path])
    BY <2>1, <1>4 DEF Gone
  <2>q. QED BY <1>1, <1>2, <1>3, <1>9, <1>10, <1>11, <2>2, <2>3, <2>4, RowStep

\* FileDAO::SoftDelete; when it fails, the file is spoiled.
LEMMA SoftDeleteKeeps ==
  ASSUME ModesInv, InTurn', UNCHANGED mode, NEW t \in Thread, SoftDelete(t)
  PROVE  ModesInv'
<1> DEFINE x == call[t]
           f == x.file
           r == AtStep(x, "remove")
           w == [status |-> "deleted", key |-> row[f].key, path |-> row[f].path, upload_size |-> row[f].upload_size]
<1>1. UNCHANGED <<disk, clock, mode>> /\ x.pc = "softdelete" /\ call' = [call EXCEPT ![t] = r]
  BY DEF SoftDelete, At, Goto
<1>2. x \in JobRecord /\ f \in FileId /\ x.path = row[f].path /\ Exists(f)
  BY <1>1, JobIs DEF Removing
<1>3. r \in JobRecord
  BY <1>2 DEF AtStep, Job, JobRecord, Removing
<1>4. r.pc = "remove" /\ r.file = f /\ r.path = x.path
  BY DEF AtStep, Job
<1>5. w.status = "deleted" /\ w.path = row[f].path
  OBVIOUS
<1> HIDE DEF w, r
<1>6. CASE row' = UpdateStatus(f, "deleted") /\ UNCHANGED spoiled
  <2>1. JobFits(r, w, disk[row[f].path], mode, f \in spoiled)
    BY <1>2, <1>4, <1>5 DEF JobFits, JobOK, AllSeen, StepOK, Writing, Confirming, Completing, Removing
  <2>q. QED BY <1>1, <1>3, <1>4, <1>6, <2>1, StatusKeeps DEF w
<1>7. CASE spoiled' = spoiled \cup {f} /\ UNCHANGED row
  <2>1. spoiled \subseteq spoiled' /\ spoiled' \in SUBSET FileId /\ f \in spoiled'
    BY <1>2, <1>7 DEF ModesInv, UploadTypes
  <2>2. PICK y \in JobRecord : y = r
    BY <1>3
  <2>3. Fits(y)'
    BY <1>1, <1>2, <1>4, <1>7, <2>1, <2>2
    DEF Fits, JobFits, JobOK, AllSeen, Exists, Writing, Confirming, Completing, Removing
  <2>q. QED BY <1>1, <1>7, <2>1, <2>2, <2>3, SpoilStep
<1>q. QED BY <1>6, <1>7 DEF SoftDelete

\* UploadFinalize of the microservice mode sets the status.
LEMMA ServiceFinalizeCompleteKeeps ==
  ASSUME ModesInv, InTurn', UNCHANGED mode, mode # "patient-server", NEW t \in Thread, Services!FinalizeComplete(t)
  PROVE  ModesInv'
<1> DEFINE x == call[t]
           f == x.file
<1>1. UNCHANGED <<disk, clock, spoiled, mode>> /\ x.pc = "complete" /\ row' = UpdateStatus(f, "completed")
      /\ call' = [call EXCEPT ![t] = Idle]
  BY DEF Services!FinalizeComplete, Services!At, Services!UpdateStatus, Services!Refuse, Services!Idle, Services!Job,
         UpdateStatus, Idle, Job
<1>2. JobFits(x, row[f], disk[row[f].path], mode, f \in spoiled) /\ x.key = row[f].key
  BY <1>1, JobIs DEF Removing
<1>3. row[f].upload_size = Size[row[f].key]
  BY <1>1, <1>2 DEF JobFits, AllSeen
<1>4. mode # "services" /\ f \notin spoiled => disk[row[f].path].size = Size[row[f].key]
  BY <1>1, <1>2 DEF JobFits, StepOK
<1>q. QED BY <1>1, <1>3, <1>4, IdleFits, StatusKeeps

\* UploadFinalize of the single process sets the status, or fails to.
LEMMA ServerFinalizeCompleteKeeps ==
  ASSUME ModesInv, InTurn', UNCHANGED mode, mode = "patient-server", NEW t \in Thread, Server!FinalizeComplete(t)
  PROVE  ModesInv'
<1> DEFINE x == call[t]
           f == x.file
           r == AtStep(x, "progress")
           w == [status |-> "completed", key |-> row[f].key, path |-> row[f].path, upload_size |-> row[f].upload_size]
<1>1. /\ UNCHANGED <<disk, clock, spoiled, mode>> /\ x.pc = "complete" /\ call' = [call EXCEPT ![t] = r]
      /\ row' = UpdateStatus(f, "completed") \/ UNCHANGED row
  BY DEF Server!FinalizeComplete, Server!At, Server!Unchecked, Server!UpdateStatus, Server!Goto, Server!AtStep,
         Server!Job, UpdateStatus, AtStep, Job
<1>2. /\ JobFits(x, row[f], disk[row[f].path], mode, f \in spoiled) /\ x.key = row[f].key /\ x \in JobRecord
      /\ f \in FileId /\ row[f].status # "absent"
  BY <1>1, JobIs DEF Removing
<1>3. f \notin spoiled => disk[row[f].path].size = Size[row[f].key]
  BY <1>1, <1>2 DEF JobFits, StepOK, Completing
<1>4. r \in JobRecord
  BY <1>2 DEF AtStep, Job, JobRecord, Completing
<1>5. r.pc = "progress" /\ r.file = f /\ r.key = x.key
  BY DEF AtStep, Job
<1>6. w.status = "completed" /\ w.key = row[f].key /\ w.upload_size = row[f].upload_size
  OBVIOUS
<1> HIDE DEF w, r
<1>7. \A rw : rw.status # "absent" /\ rw.key = row[f].key => JobFits(r, rw, disk[row[f].path], mode, f \in spoiled)
  BY <1>2, <1>3, <1>5 DEF JobFits, JobOK, AllSeen, StepOK, Writing, Confirming, Completing, Removing
<1>8. CASE row' = UpdateStatus(f, "completed")
  <2>1. JobFits(r, w, disk[row[f].path], mode, f \in spoiled)
    BY <1>6, <1>7
  <2>q. QED BY <1>1, <1>3, <1>4, <1>5, <1>8, <2>1, StatusKeeps DEF w
<1>9. CASE UNCHANGED row
  <2>1. Fits(r)
    BY <1>2, <1>5, <1>7 DEF Fits
  <2>q. QED BY <1>1, <1>4, <1>9, <2>1, CallStep
<1>q. QED BY <1>1, <1>8, <1>9

\* The answer that carries `n`, as a job.
LEMMA AnswerIs ==
  ASSUME ModesInv, NEW t \in Thread, call[t].pc \notin {"idle", "insert"} \cup Removing, NEW n \in Nat,
         call' = Succeed(t, call[t].file, call[t].key, n)
  PROVE  \E r \in JobRecord :
           /\ call' = [call EXCEPT ![t] = r]
           /\ \/ r = Idle
              \/ r.pc = "ready" /\ r.file = call[t].file /\ r.key = call[t].key /\ r.offset = n
<1> DEFINE f == call[t].file
           k == call[t].key
<1>1. f \in FileId /\ k \in Key /\ call' = Succeed(t, f, k, n)
  BY JobIs
<1> HIDE DEF f, k
<1>2. PICK r \in JobRecord :
        /\ call' = [call EXCEPT ![t] = r]
        /\ r = Idle \/ (r.pc = "ready" /\ r.key = k /\ r.file = f /\ r.offset = n)
  BY <1>1, SucceedRecord
<1>q. QED BY <1>2 DEF f, k

\* The block after those that are in the file.
LEMMA NextBlock ==
  ASSUME NEW file, NEW k, NEW n \in Nat, Has(file, k, n), <<n, k>> \in file.data
  PROVE  Has(file, k, n + 1)
<1> SUFFICES ASSUME NEW b \in 0 .. (n + 1 - 1) PROVE <<b, k>> \in file.data
  BY DEF Has
<1>1. b = n \/ b \in 0 .. (n - 1)
  OBVIOUS
<1>q. QED BY <1>1 DEF Has

\* The conditional UPDATE of FileDAO::ConfirmUploadChunk adds the block after the confirmed ones.
LEMMA ConfirmKeeps ==
  ASSUME ModesInv, InTurn', UNCHANGED mode, mode # "patient-server", NEW t \in Thread, Services!ConfirmUploadChunk(t)
  PROVE  ModesInv'
<1> DEFINE x == call[t]
           f == x.file
           to == x.to
           c == AtStep(x, "reread")
<1>1. UNCHANGED <<disk, clock, spoiled, mode>> /\ x.pc = "confirm"
  BY DEF Services!ConfirmUploadChunk, Services!At
<1>2. /\ x \in JobRecord /\ JobFits(x, row[f], disk[row[f].path], mode, f \in spoiled) /\ x.key = row[f].key
      /\ RowFits(row[f], disk[row[f].path], mode, f \in spoiled) /\ Size[row[f].key] \in Nat
  BY <1>1, JobIs DEF Removing
<1>3. x.offset \in Nat /\ to \in Nat /\ to = x.offset + 1 /\ to <= Size[row[f].key]
  BY <1>1, <1>2 DEF JobFits, JobOK, Confirming, JobRecord
<1>4. mode # "services" /\ f \notin spoiled => Has(disk[row[f].path], row[f].key, to)
  BY <1>1, <1>2, <1>3, NextBlock DEF JobFits, StepOK, Confirming
<1>5. \/ /\ row[f].upload_size = x.offset /\ row' = UpdateUploadSize(f, to)
         /\ call' = Succeed(t, f, x.key, to)
      \/ UNCHANGED row /\ call' = [call EXCEPT ![t] = c]
  BY DEF Services!ConfirmUploadChunk, Services!Continues, Services!Goto, Services!AtStep,
         Services!UpdateUploadSize, Services!Succeed, Services!Idle, Services!Job, UpdateUploadSize, Succeed, Idle, Job,
         AtStep
<1>6. CASE UNCHANGED row /\ call' = [call EXCEPT ![t] = c]
  <2>1. c \in JobRecord
    BY <1>2 DEF AtStep, Job, JobRecord, Confirming
  <2>2. /\ c.pc = "reread" /\ c.key = x.key /\ c.file = f /\ c.offset = x.offset /\ c.to = to /\ c.path = x.path
    BY DEF AtStep, Job
  <2> HIDE DEF c
  <2>3. Fits(c)
    BY <1>1, <1>2, <2>2 DEF Fits, JobFits, JobOK, AllSeen, StepOK, Writing, Confirming, Completing, Removing
  <2>q. QED BY <1>1, <1>6, <2>1, <2>3, CallStep
<1>7. CASE /\ row[f].upload_size = x.offset /\ row' = UpdateUploadSize(f, to)
           /\ call' = Succeed(t, f, x.key, to)
  <2>1. PICK r \in JobRecord :
          /\ call' = [call EXCEPT ![t] = r]
          /\ \/ r = Idle
             \/ r.pc = "ready" /\ r.file = f /\ r.key = x.key /\ r.offset = to
    BY <1>1, <1>3, <1>7, AnswerIs DEF Removing
  <2>2. row[f].upload_size # Size[row[f].key]
    BY <1>2, <1>3, <1>7
  <2>q. QED BY <1>1, <1>3, <1>4, <1>7, <2>1, <2>2, SizeKeeps DEF Removing
<1>q. QED BY <1>5, <1>6, <1>7

\* UploadData stores the progress, or fails to; what it has seen of upload_size is still so.
LEMMA UploadDataDoneKeeps ==
  ASSUME ModesInv, InTurn', UNCHANGED mode, mode = "patient-server", NEW t \in Thread, Server!UploadDataDone(t)
  PROVE  ModesInv'
<1> DEFINE x == call[t]
           f == x.file
           u == row[f].upload_size
           n == IF x.seen < x.to THEN x.to ELSE x.seen
<1>1. /\ UNCHANGED <<disk, clock, spoiled, mode>> /\ x.pc = "update"
      /\ row' = UpdateUploadSize(f, n) \/ UNCHANGED row
      /\ call' = Succeed(t, f, x.key, x.to)
  BY DEF Server!UploadDataDone, Server!At, Server!Unchecked, Server!NewSize, Server!UpdateUploadSize, Server!Succeed,
         Server!Idle, Server!Job, UpdateUploadSize, Succeed, Idle, Job
<1>2. /\ x \in JobRecord /\ JobFits(x, row[f], disk[row[f].path], mode, f \in spoiled) /\ x.key = row[f].key
      /\ RowFits(row[f], disk[row[f].path], mode, f \in spoiled) /\ row[f] \in RowRecord
      /\ Size[row[f].key] \in Nat
  BY <1>1, JobIs DEF Removing
<1>3. x.to = x.offset + 1 /\ x.to <= Size[row[f].key]
  BY <1>1, <1>2 DEF JobFits, JobOK
<1>4. x.offset \in Nat /\ x.to \in Nat /\ u \in Nat /\ x.seen \in Nat /\ n \in Nat /\ (n = x.to \/ n = x.seen)
  BY <1>2 DEF JobRecord, RowRecord
<1>5. f \notin spoiled => Has(disk[row[f].path], row[f].key, x.to)
  BY <1>1, <1>2, <1>3, <1>4, NextBlock DEF JobFits, StepOK
<1>6. f \notin spoiled => n <= Size[row[f].key] /\ Has(disk[row[f].path], row[f].key, n)
  <2> SUFFICES ASSUME f \notin spoiled PROVE n <= Size[row[f].key] /\ Has(disk[row[f].path], row[f].key, n)
    OBVIOUS
  <2>1. x.seen = u /\ row[f].status = "uploading"
    BY <1>1, <1>2 DEF JobFits, StepOK
  <2>2. u <= Size[row[f].key] /\ Has(disk[row[f].path], row[f].key, u)
    BY <1>2, <2>1 DEF RowFits, FileOK, Stored, Gone
  <2> HIDE DEF n
  <2>q. QED BY <1>3, <1>4, <1>5, <2>1, <2>2
<1> HIDE DEF n
<1>7. CASE UNCHANGED row
  BY <1>1, <1>4, <1>5, <1>7, AnswerKeeps DEF Removing
<1>8. CASE row' = UpdateUploadSize(f, n)
  <2>1. PICK r \in JobRecord :
          /\ call' = [call EXCEPT ![t] = r]
          /\ \/ r = Idle
             \/ r.pc = "ready" /\ r.file = f /\ r.key = x.key /\ r.offset = x.to
    BY <1>1, <1>4, AnswerIs DEF Removing
  <2>q. QED BY <1>1, <1>4, <1>5, <1>6, <1>8, <2>1, SizeKeeps DEF Removing
<1>q. QED BY <1>1, <1>7, <1>8

\* UploadFinalize of the single process sets upload_size to the size, or fails to.
LEMMA FinalizeProgressKeeps ==
  ASSUME ModesInv, InTurn', UNCHANGED mode, mode = "patient-server", NEW t \in Thread, Server!FinalizeProgress(t)
  PROVE  ModesInv'
<1> DEFINE x == call[t]
           f == x.file
           n == Size[x.key]
<1>1. /\ UNCHANGED <<disk, clock, spoiled, mode>> /\ x.pc = "progress" /\ call' = [call EXCEPT ![t] = Idle]
      /\ row' = UpdateUploadSize(f, n) \/ UNCHANGED row
  BY DEF Server!FinalizeProgress, Server!At, Server!Unchecked, Server!UpdateUploadSize, Server!Refuse, Server!Idle,
         Server!Job, UpdateUploadSize, Idle, Job
<1>2. /\ JobFits(x, row[f], disk[row[f].path], mode, f \in spoiled) /\ x.key = row[f].key /\ Size[row[f].key] \in Nat
      /\ RowFits(row[f], disk[row[f].path], mode, f \in spoiled)
  BY <1>1, JobIs DEF Removing
<1>3. f \notin spoiled => n <= Size[row[f].key] /\ Has(disk[row[f].path], row[f].key, n)
  BY <1>1, <1>2 DEF JobFits, StepOK, RowFits, FileOK
<1>4. n \in Nat
  BY <1>2
<1> HIDE DEF n
<1>5. CASE row' = UpdateUploadSize(f, n)
  BY <1>1, <1>3, <1>4, <1>5, IdleFits, SizeKeeps DEF Removing
<1>6. CASE UNCHANGED row
  BY <1>1, <1>6, IdleFits, CallStep DEF Fits
<1>q. QED BY <1>1, <1>5, <1>6

\* Time passes.
LEMMA TickKeeps == ASSUME ModesInv, InTurn', UNCHANGED mode, Tick PROVE ModesInv'
<1>1. UNCHANGED <<row, disk, call, spoiled, mode>> /\ clock' = clock + 1 /\ clock < LastSecond
  BY DEF Tick
<1>2. UploadTypes'
  BY <1>1, BoundsAssumption DEF ModesInv, UploadTypes
<1>3. RowsInv' /\ FilesHaveRows' /\ NotMixed' /\ FilesInv' /\ JobsInv'
  BY <1>1 DEF ModesInv, RowsInv, OwnPaths, FilesHaveRows, NotMixed, FilesInv, JobsInv, Fits, Exists
<1>q. QED BY <1>1, <1>2, <1>3 DEF ModesInv

\* FileDAO::Insert: the path is new, so there is no file under it.
LEMMA UploadInsertKeeps ==
  ASSUME ModesInv, InTurn', UNCHANGED mode, OwnPaths', NEW t \in Thread, UploadInsert(t)
  PROVE  ModesInv'
<1> DEFINE k == call[t].key
           p == GenerateFilepath(k)
           w == NewRow(k, p)
<1>1. UNCHANGED <<disk, clock, spoiled, mode>> /\ call[t].pc = "insert"
  BY DEF UploadInsert, At
<1>2. PICK f \in FileId : /\ ~ Exists(f)
                          /\ row' = [row EXCEPT ![f] = w]
                          /\ call' = Succeed(t, f, k, 0)
  BY DEF UploadInsert
<1>3. k \in Key
  BY <1>1, AtWork DEF Fits, JobFits, JobOK
<1>4. p \in Path
  BY <1>3 DEF GenerateFilepath, Path, ModesInv, UploadTypes
<1> HIDE DEF p
<1>5. /\ w \in RowRecord /\ w.status = "uploading" /\ w.key = k /\ w.path = p /\ w.upload_size = 0
  BY <1>3, <1>4 DEF NewRow, RowRecord
<1> HIDE DEF k, w
<1>6. PICK r \in JobRecord :
        /\ call' = [call EXCEPT ![t] = r]
        /\ r = Idle \/ (r.pc = "ready" /\ r.key = k /\ r.file = f /\ r.offset = 0)
  <2>1. 0 \in Nat
    OBVIOUS
  <2>q. QED BY <1>2, <1>3, <2>1, SucceedRecord
<1>7. \A g \in FileId : row'[g] = IF g = f THEN w ELSE row[g]
  BY <1>2 DEF ModesInv, UploadTypes
<1>8. \A g \in FileId : Exists(g)' <=> (g = f \/ Exists(g))
  BY <1>5, <1>7 DEF Exists
<1>9. UploadTypes'
  BY <1>1, <1>2, <1>5, <1>6 DEF ModesInv, UploadTypes
<1>10. disk'[p] = NoFile
  <2>1. SUFFICES ASSUME NEW g \in FileId, Exists(g), row[g].path = p PROVE FALSE
    BY <1>1, <1>4 DEF ModesInv, FilesHaveRows
  <2>2. g # f /\ row'[g].path = p /\ row'[f].path = p /\ Exists(g)' /\ Exists(f)'
    BY <1>2, <1>5, <1>7, <1>8, <2>1
  <2>q. QED BY <2>2 DEF OwnPaths
<1>11. RowsInv'
  <2>2. ASSUME NEW g \in FileId
        PROVE  (IF Exists(g) THEN row[g].key \in Key /\ row[g].path \in Path ELSE row[g].upload_size = 0)'
    BY <1>3, <1>4, <1>5, <1>7, <1>8 DEF ModesInv, RowsInv
  <2>q. QED BY <2>2 DEF RowsInv
<1>12. FilesHaveRows'
  BY <1>1, <1>7, <1>8, <1>10, <1>2 DEF ModesInv, FilesHaveRows
<1>13. NotMixed'
  <2>1. disk'[p].data = {}
    BY <1>10 DEF NoFile
  <2>q. QED BY <1>1, <1>5, <1>7, <1>8, <2>1 DEF ModesInv, NotMixed
<1>14. RowFits(w, NoFile, mode, f \in spoiled)
  BY <1>3, <1>5, Ranges DEF RowFits, FileOK, Stored, Has, NoFile
<1>15. FilesInv'
  BY <1>1, <1>5, <1>7, <1>8, <1>10, <1>14 DEF ModesInv, FilesInv
<1>16. ASSUME NEW u \in Thread PROVE \E x : call'[u] = x /\ Fits(x)'
  <2>1. CASE u = t
    <3>1. call'[u] = r
      BY <2>1, <1>6 DEF ModesInv, UploadTypes
    <3>2. r.pc = "ready" /\ r.key = k /\ r.file = f /\ r.offset = 0 => JobFits(r, w, disk'[w.path], mode, f \in spoiled)
      BY <1>5, ReadyFits DEF Has
    <3>3. Fits(r)'
      BY <1>1, <1>6, <1>7, <3>2, IdleFits DEF Fits
    <3>q. QED BY <3>1, <3>3
  <2>2. CASE u # t
    <3>1. PICK x : x = call'[u] /\ x = call[u]
      BY <2>2, <1>6 DEF ModesInv, UploadTypes
    <3>2. Fits(x) /\ x \in JobRecord
      BY <3>1, AtWork
    <3>3. CASE x.file \in FileId /\ x.file # f
      BY <1>1, <1>7, <3>1, <3>2, <3>3 DEF Fits
    <3>4. CASE x.file \notin FileId \/ x.file = f
      <4>1. x.pc \in {"idle", "insert"}
        BY <1>2, <3>2, <3>4 DEF Fits, JobFits, JobOK, Exists
      <4>2. \A rw, file, m, sp : JobFits(x, rw, file, m, sp)
        BY <3>2, <4>1 DEF Fits, JobFits, JobOK, AllSeen, StepOK, Writing, Confirming, Completing, Removing
      <4>q. QED BY <3>1, <4>2 DEF Fits
    <3>q. QED BY <3>3, <3>4
  <2>q. QED BY <2>1, <2>2
<1>q. QED BY <1>1, <1>9, <1>11, <1>12, <1>13, <1>15, <1>16, JobByJob DEF ModesInv

-----------------------------------------------------------------------------
(***************************************************************************)
(* Steps that write a file.                                                *)
(***************************************************************************)
\* What another thread relies on is left by one that adds to a file or removes a deleted
\* one at its turn.
LEMMA OtherFilesFit ==
  ASSUME NEW x \in JobRecord, NEW rw, NEW file, NEW new, NEW m, NEW sp,
         JobFits(x, rw, file, m, sp), m # "services" => x.pc \in {"idle", "ready", "get", "reading"},
         m # "services" /\ ~ sp => Gone(rw, new) \/ (file.data \subseteq new.data /\ ~ Gone(rw, file))
  PROVE  JobFits(x, rw, new, m, sp) /\ JobFits(Unlinked(x), rw, new, m, sp) /\ Unlinked(x) \in JobRecord
<1> DEFINE y == Unlinked(x)
<1>1. /\ y.pc = x.pc /\ y.key = x.key /\ y.file = x.file /\ y.offset = x.offset /\ y.to = x.to /\ y.path = x.path
      /\ y.seen = x.seen
  BY DEF Unlinked, Job
<1>2. y \in JobRecord
  BY DEF Unlinked, Job, JobRecord
<1> HIDE DEF y
<1>5. m # "services" /\ ~ sp /\ x.pc = "ready" => Has(new, x.key, x.offset) \/ Gone(rw, new)
  BY DEF JobFits, StepOK, Has
<1>3. JobFits(x, rw, new, m, sp)
  BY <1>5 DEF JobFits, JobOK, AllSeen, StepOK, Writing, Confirming, Completing
<1>4. JobFits(y, rw, new, m, sp)
  BY <1>1, <1>5 DEF JobFits, JobOK, AllSeen, StepOK, Writing, Confirming, Completing
<1>q. QED BY <1>2, <1>3, <1>4 DEF y

\* A job at another file whose open file may be the removed one.
LEMMA UnlinkedFits ==
  ASSUME NEW x \in JobRecord, NEW rw, NEW file, NEW m, NEW sp,
         JobFits(x, rw, file, m, sp), m # "services" => x.pc \in {"idle", "ready", "get", "reading"}
  PROVE  JobFits(Unlinked(x), rw, file, m, sp)
<1> DEFINE y == Unlinked(x)
<1>1. /\ y.pc = x.pc /\ y.key = x.key /\ y.file = x.file /\ y.offset = x.offset /\ y.to = x.to /\ y.path = x.path
      /\ y.seen = x.seen
  BY DEF Unlinked, Job
<1> HIDE DEF y
<1>2. JobFits(y, rw, file, m, sp)
  BY <1>1 DEF JobFits, JobOK, AllSeen, StepOK, Writing, Confirming, Completing
<1>q. QED BY <1>2 DEF y

\* A step of one thread that writes the file of one row.
LEMMA DiskStep ==
  ASSUME ModesInv, InTurn', UNCHANGED <<row, clock, spoiled, mode>>, NEW t \in Thread, NEW f \in FileId, Exists(f),
         call[t].pc \notin {"idle", "ready", "get", "reading"},
         NEW d \in FileRecord, disk' = [disk EXCEPT ![row[f].path] = d],
         \A x \in d.data : x[2] = row[f].key, RowFits(row[f], d, mode, f \in spoiled),
         LET old == disk[row[f].path]
         IN  mode # "services" /\ f \notin spoiled =>
               Gone(row[f], d) \/ (old.data \subseteq d.data /\ ~ Gone(row[f], old)),
         NEW r \in JobRecord, r = Idle \/ (r.file = f /\ JobFits(r, row[f], d, mode, f \in spoiled)),
         call' \in [Thread -> JobRecord], call'[t] = r,
         \A u \in Thread : u # t => call'[u] \in {call[u], Unlinked(call[u])}
  PROVE  ModesInv'
<1> DEFINE p == row[f].path
<1>1. /\ p \in Path /\ \A q \in Path : disk'[q] = IF q = p THEN d ELSE disk[q]
      /\ disk' \in [Path -> FileRecord]
  BY RowAtWork DEF ModesInv, UploadTypes
<1>2. UploadTypes'
  BY <1>1 DEF ModesInv, UploadTypes
<1>3. RowsInv'
  BY DEF ModesInv, RowsInv, OwnPaths, Exists
<1>4. FilesHaveRows'
  <2>1. \A g \in FileId : Exists(g)' <=> Exists(g)
    BY DEF Exists
  <2>q. QED BY <1>1, <2>1 DEF ModesInv, FilesHaveRows
<1>5. \A g \in FileId : Exists(g) => row[g].path \in Path /\ (g # f => row[g].path # p)
  BY DEF ModesInv, RowsInv, OwnPaths
<1>6. \A g \in FileId : Exists(g) => disk'[row[g].path] = IF g = f THEN d ELSE disk[row[g].path]
  BY <1>1, <1>5
<1> HIDE DEF p
<1>7. NotMixed' /\ FilesInv'
  <2>1. \A g \in FileId : Exists(g)' <=> Exists(g)
    BY DEF Exists
  <2>q. QED BY <1>6, <2>1 DEF ModesInv, NotMixed, FilesInv
<1>8. ASSUME NEW u \in Thread PROVE \E x : call'[u] = x /\ Fits(x)'
  <2>1. CASE u = t
    <3>1. Fits(r)'
      BY <1>6, IdleFits DEF Fits
    <3>q. QED BY <2>1, <3>1
  <2>2. CASE u # t
    <3>1. PICK y : y = call[u]
      OBVIOUS
    <3>2. PICK x : x = call'[u] /\ x \in {y, Unlinked(y)}
      BY <2>2, <3>1
    <3>3. Fits(y) /\ y \in JobRecord
      BY <3>1, AtWork
    <3>4. mode # "services" => y.pc \in {"idle", "ready", "get", "reading"}
      BY <2>2, <3>1, OthersIdle
    <3>5. x.file = y.file
      BY <3>2 DEF Unlinked, Job
    <3>6. ASSUME y.file = f PROVE Fits(x)'
      <4>1. JobFits(y, row[f], disk[row[f].path], mode, f \in spoiled)
        BY <3>3, <3>6 DEF Fits
      <4>2. JobFits(y, row[f], d, mode, f \in spoiled) /\ JobFits(Unlinked(y), row[f], d, mode, f \in spoiled)
        BY <3>3, <3>4, <4>1, OtherFilesFit
      <4>q. QED BY <1>6, <3>2, <3>5, <3>6, <4>2 DEF Fits
    <3>7. ASSUME y.file # f, Exists(y.file), y.file \in FileId PROVE Fits(x)'
      <4>1. JobFits(x, row[y.file], disk[row[y.file].path], mode, y.file \in spoiled)
        BY <3>2, <3>3, <3>4, UnlinkedFits DEF Fits
      <4>q. QED BY <1>6, <3>5, <3>7, <4>1 DEF Fits
    <3>8. ASSUME ~ Exists(y.file) \/ y.file \notin FileId PROVE Fits(x)'
      <4>1. y.pc \in {"idle", "insert"}
        BY <3>3, <3>8 DEF Fits, JobFits, JobOK, Exists
      <4>2. x.pc = y.pc /\ (x.pc = "insert" => x.key \in Key)
        BY <3>2, <3>3, <4>1 DEF Unlinked, Job, Fits, JobFits, JobOK
      <4>3. \A rw, file, m, sp : JobFits(x, rw, file, m, sp)
        BY <4>1, <4>2 DEF JobFits, JobOK, AllSeen, StepOK, Writing, Confirming, Completing, Removing
      <4>q. QED BY <4>3 DEF Fits
    <3>9. Fits(x)'
      BY <3>6, <3>7, <3>8
    <3>q. QED BY <3>2, <3>9
  <2>q. QED BY <2>1, <2>2
<1>q. QED BY <1>2, <1>3, <1>4, <1>7, <1>8, JobByJob DEF ModesInv

\* The second open of WriteChunk truncates, if it can; one request at a time, there was nothing.
LEMMA WriteCreateKeeps ==
  ASSUME ModesInv, InTurn', UNCHANGED mode, NEW t \in Thread, WriteCreate(t)
  PROVE  ModesInv'
<1> DEFINE x == call[t]
           f == x.file
           r == AtStep(x, "reopen")
<1>1. x.pc = "create" /\ UNCHANGED <<row, clock, spoiled, mode>>
  BY DEF WriteCreate, At
<1>2. /\ x \in JobRecord /\ f \in FileId /\ Exists(f) /\ x.key = row[f].key /\ x.path = row[f].path
      /\ JobFits(x, row[f], disk[row[f].path], mode, f \in spoiled)
      /\ RowFits(row[f], disk[row[f].path], mode, f \in spoiled)
      /\ row[f] \in RowRecord /\ Size[row[f].key] \in Nat
  BY <1>1, JobIs DEF Writing, Removing
<1>3. /\ call' = [call EXCEPT ![t] = r]
      /\ disk' = [disk EXCEPT ![row[f].path] = EmptyFile] \/ UNCHANGED disk
  BY <1>2 DEF WriteCreate, Goto
<1>4. r \in JobRecord
  BY <1>2 DEF AtStep, Job, JobRecord, Writing
<1>5. /\ r.pc = "reopen" /\ r.key = x.key /\ r.file = f /\ r.offset = x.offset /\ r.to = x.to /\ r.path = x.path
      /\ r.seen = x.seen
  BY DEF AtStep, Job
<1> HIDE DEF r
<1>6. CASE UNCHANGED disk
  <2>1. Fits(r)
    BY <1>1, <1>2, <1>5 DEF Fits, JobFits, JobOK, AllSeen, StepOK, Writing, Confirming, Completing, Removing
  <2>q. QED BY <1>1, <1>3, <1>4, <1>6, <2>1, CallStep
<1>7. CASE disk' = [disk EXCEPT ![row[f].path] = EmptyFile]
  <2>1. EmptyFile \in FileRecord /\ EmptyFile.data = {} /\ EmptyFile.size = 0 /\ NoFile.data = {}
    BY DEF EmptyFile, NoFile, FileRecord
  <2>2. mode # "services" /\ f \notin spoiled => row[f].status = "uploading" /\ disk[row[f].path] = NoFile
    BY <1>1, <1>2 DEF JobFits, StepOK, Writing
  <2>3. \A k, n : Has(NoFile, k, n) => Has(EmptyFile, k, n)
    BY <2>1 DEF Has
  <2>4. RowFits(row[f], EmptyFile, mode, f \in spoiled)
    <3>1. ASSUME mode # "services", f \notin spoiled PROVE FileOK(row[f], EmptyFile)
      <4>1. Stored(row[f], NoFile) /\ row[f].upload_size <= Size[row[f].key]
        BY <1>2, <2>2, <3>1 DEF RowFits, FileOK, Gone
      <4>2. Has(EmptyFile, row[f].key, 0)
        BY DEF Has
      <4>q. QED BY <1>2, <2>1, <2>2, <2>3, <3>1, <4>1, <4>2 DEF FileOK, Stored
    <3>q. QED BY <1>2, <3>1 DEF RowFits
  <2>5. JobFits(r, row[f], EmptyFile, mode, f \in spoiled)
    BY <1>1, <1>2, <1>5, <2>2, <2>3
       DEF JobFits, JobOK, AllSeen, StepOK, Writing, Confirming, Completing, Removing
  <2>6. call' \in [Thread -> JobRecord] /\ call'[t] = r /\ \A u \in Thread : u # t => call'[u] = call[u]
    BY <1>3, <1>4 DEF ModesInv, UploadTypes
  <2>7. mode # "services" /\ f \notin spoiled =>
          disk[row[f].path].data \subseteq EmptyFile.data /\ ~ Gone(row[f], disk[row[f].path])
    BY <2>1, <2>2 DEF Gone
  <2>q. QED BY <1>1, <1>2, <1>4, <1>5, <1>7, <2>1, <2>4, <2>5, <2>6, <2>7, DiskStep
<1>q. QED BY <1>3, <1>6, <1>7

\* A block is written: it is there, the others are as they were.
LEMMA BlockWritten ==
  ASSUME NEW old \in FileRecord, NEW k \in Key, NEW a \in Nat
  PROVE  LET d == Overwrite(old, k, a, a + 1)
         IN  /\ d \in FileRecord /\ old.size <= d.size /\ a + 1 <= d.size
             /\ d.size = a + 1 \/ d.size = old.size
             /\ <<a, k>> \in d.data
             /\ \A y \in d.data : y = <<a, k>> \/ y \in old.data
             /\ \A y \in old.data : y[1] # a => y \in d.data
<1> DEFINE d == Overwrite(old, k, a, a + 1)
           s == old.size
           n == a + 1
<1>1. s \in Int /\ s >= -1 /\ old.data \subseteq Nat \X Key
  BY DEF FileRecord
<1>2. a .. (n - 1) = {a} /\ n \in Nat
  OBVIOUS
<1>3. d = [size |-> IF s < n THEN n ELSE s, data |-> {x \in old.data : x[1] < a \/ x[1] >= n} \cup {<<a, k>>}]
  BY <1>2 DEF Overwrite
<1>4. (IF s < n THEN n ELSE s) \in Nat /\ s <= (IF s < n THEN n ELSE s) /\ n <= (IF s < n THEN n ELSE s)
  <2> HIDE DEF s, n
  <2>q. QED BY <1>1, <1>2
<1>5. \A y \in old.data : y[1] \in Nat
  BY <1>1
<1>6. <<a, k>> \in Nat \X Key
  OBVIOUS
<1>7. {x \in old.data : x[1] < a \/ x[1] >= n} \cup {<<a, k>>} \subseteq Nat \X Key
  BY <1>1, <1>6
<1> DEFINE z == IF s < n THEN n ELSE s
           c == {x \in old.data : x[1] < a \/ x[1] >= n} \cup {<<a, k>>}
<1>8. d = [size |-> z, data |-> c] /\ z \in Nat /\ c \subseteq Nat \X Key /\ s <= z /\ n <= z /\ (z = n \/ z = s)
  BY <1>3, <1>4, <1>7
<1>9. <<a, k>> \in c /\ (\A y \in c : y = <<a, k>> \/ y \in old.data)
  OBVIOUS
<1>10. \A y \in old.data : y[1] # a => y \in c
  BY <1>5
<1> HIDE DEF d, z, c
<1>11. d \in FileRecord /\ d.size = z /\ d.data = c
  BY <1>8 DEF FileRecord
<1>q. QED BY <1>8, <1>9, <1>10, <1>11 DEF d

\* The write of WriteChunk.
LEMMA WriteDataKeeps ==
  ASSUME ModesInv, InTurn', UNCHANGED mode, NEW t \in Thread,
         NEW p, p = IF mode = "patient-server" THEN "update" ELSE "check", WriteData(t, p)
  PROVE  ModesInv'
<1> DEFINE x == call[t]
           f == x.file
           r == AtStep(x, p)
           rw == row[f]
           old == disk[rw.path]
           k == rw.key
           a == x.offset
           d == Overwrite(old, k, a, a + 1)
<1>1. x.pc = "write" /\ UNCHANGED <<row, clock, spoiled, mode>> /\ call' = [call EXCEPT ![t] = r]
  BY DEF WriteData, At, Goto
<1>2. /\ x \in JobRecord /\ f \in FileId /\ Exists(f) /\ x.key = k /\ x.path = rw.path /\ k \in Key
      /\ JobFits(x, rw, old, mode, f \in spoiled) /\ RowFits(rw, old, mode, f \in spoiled) /\ old \in FileRecord
      /\ rw \in RowRecord /\ Size[k] \in Nat
  BY <1>1, JobIs DEF Writing, Removing
<1>3. x.to = a + 1 /\ a + 1 <= Size[k] /\ a \in Nat
  BY <1>1, <1>2 DEF JobFits, JobOK, Writing, JobRecord
<1>4. disk' = IF x.linked THEN [disk EXCEPT ![rw.path] = d] ELSE disk
  BY <1>2, <1>3 DEF WriteData, AtOffset
<1>5. r \in JobRecord
  BY <1>2 DEF AtStep, Job, JobRecord, Confirming
<1>6. /\ r.pc = p /\ r.key = k /\ r.file = f /\ r.offset = a /\ r.to = x.to /\ r.path = x.path
      /\ r.seen = x.seen
  BY <1>2 DEF AtStep, Job
<1> HIDE DEF r
<1>7. /\ d \in FileRecord /\ old.size <= d.size /\ a + 1 <= d.size
      /\ (d.size = a + 1 \/ d.size = old.size)
      /\ <<a, k>> \in d.data
      /\ (\A y \in d.data : y = <<a, k>> \/ y \in old.data)
      /\ (\A y \in old.data : y[1] # a => y \in d.data)
  <2> HIDE DEF old, k, a
  <2>q. QED BY <1>2, <1>3, BlockWritten
<1> HIDE DEF d
<1>8. old.size \in Int /\ d.size \in Int /\ \A y \in old.data : y[1] \in Nat
  <2> HIDE DEF old
  <2>q. QED BY <1>2, <1>7 DEF FileRecord
<1>9. \A y \in d.data : y[2] = k
  <2>1. \A y \in old.data : y[2] = k
    BY <1>2, RowAtWork
  <2> HIDE DEF old, k, a
  <2>q. QED BY <1>7, <2>1
<1>14. old.data \subseteq d.data
  <2> SUFFICES ASSUME NEW y \in old.data PROVE y \in d.data
    OBVIOUS
  <2>1. y = <<y[1], y[2]>> /\ y[2] = k
    <3>1. y[2] = k
      BY <1>2, RowAtWork
    <3>2. old.data \subseteq Nat \X Key
      BY <1>2 DEF FileRecord
    <3> HIDE DEF old, k
    <3>q. QED BY <3>1, <3>2
  <2>2. y[1] = a => y = <<a, k>>
    BY <2>1
  <2> HIDE DEF old, k, a
  <2>q. QED BY <1>7, <2>2
<1>10. mode # "services" /\ f \notin spoiled => x.linked = TRUE /\ rw.status = "uploading"
  BY <1>1, <1>2 DEF JobFits, StepOK, Writing
<1>11. RowFits(rw, d, mode, f \in spoiled)
  <2> SUFFICES ASSUME mode # "services", f \notin spoiled PROVE FileOK(rw, d)
    BY <1>2 DEF RowFits
  <2>1. FileOK(rw, old) /\ rw.status = "uploading"
    BY <1>2, <1>10 DEF RowFits
  <2> HIDE DEF old, a
  <2>2. d.size <= Size[k]
    BY <2>1, <1>3, <1>7 DEF FileOK
  <2>3. ASSUME NEW y \in d.data
        PROVE  y[1] < d.size
    <3>1. CASE y = <<a, k>>
      <4>1. y[1] = a
        BY <3>1
      <4>q. QED BY <4>1, <1>3, <1>7, <1>8
    <3>2. CASE y \in old.data
      <4>1. y[1] < old.size /\ y[1] \in Nat
        BY <3>2, <2>1, <1>8 DEF FileOK
      <4>q. QED BY <4>1, <1>7, <1>8
    <3>q. QED BY <3>1, <3>2, <1>7
  <2>4. Stored(rw, d)
    BY <2>1, <1>14 DEF FileOK, Stored, Has, Gone
  <2>5. Has(d, k, d.size)
    <3>1. Has(d, k, old.size)
      BY <2>1, <1>14 DEF FileOK, Has
    <3>2. Has(d, k, x.offset + 1)
      <4>1. Has(d, k, x.offset)
        BY <1>1, <1>2, <1>14 DEF JobFits, StepOK, Has, Writing
      <4>q. QED BY <1>3, <1>7, <4>1, NextBlock DEF a
    <3>q. QED BY <1>7, <3>1, <3>2 DEF a
  <2>q. QED BY <2>1, <2>2, <2>3, <2>4, <2>5 DEF FileOK
<1>12. CASE x.linked = TRUE
  <2>1. disk' = [disk EXCEPT ![rw.path] = d]
    BY <1>4, <1>12
  <2>2. JobFits(r, rw, d, mode, f \in spoiled)
    <3>1. \A n : Has(old, k, n) => Has(d, k, n)
      BY <1>14 DEF Has
    <3> HIDE DEF old, k
    <3>q. QED BY <1>1, <1>2, <1>6, <1>7, <3>1
          DEF JobFits, JobOK, AllSeen, StepOK, Writing, Confirming, Completing, Removing
  <2>3. call' \in [Thread -> JobRecord] /\ call'[t] = r /\ \A u \in Thread : u # t => call'[u] = call[u]
    BY <1>1, <1>5 DEF ModesInv, UploadTypes
  <2>4. call[t].pc \notin {"idle", "ready", "get", "reading"}
    BY <1>1
  <2>5. mode # "services" /\ f \notin spoiled => old.data \subseteq d.data /\ ~ Gone(rw, old)
    BY <1>10, <1>14 DEF Gone
  <2>q. QED BY <1>1, <1>2, <1>5, <1>6, <1>7, <1>9, <1>11, <2>1, <2>2, <2>3, <2>4, <2>5, DiskStep
<1>13. CASE x.linked # TRUE
  <2>1. UNCHANGED <<row, disk, clock, spoiled, mode>>
    BY <1>1, <1>2, <1>4, <1>13 DEF JobRecord
  <2>2. mode = "services" \/ f \in spoiled
    BY <1>10, <1>13
  <2>3. JobFits(r, rw, old, mode, f \in spoiled)
    BY <1>1, <1>2, <1>6, <2>2 DEF JobFits, JobOK, AllSeen, Writing, Confirming, Completing, Removing
  <2>4. Fits(r)
    BY <1>6, <2>3 DEF Fits
  <2>q. QED BY <1>1, <1>5, <2>1, <2>4, CallStep
<1>q. QED BY <1>12, <1>13

\* The file of a deleted row is removed.
LEMMA DeleteFileKeeps ==
  ASSUME ModesInv, InTurn', UNCHANGED mode, NEW t \in Thread, DeleteFile(t)
  PROVE  ModesInv'
<1> DEFINE x == call[t]
           f == x.file
<1>1. x.pc = "remove" /\ UNCHANGED <<row, clock, spoiled, mode>>
  BY DEF DeleteFile, At
<1>2. /\ f \in FileId /\ Exists(f) /\ x.path = row[f].path
      /\ JobFits(x, row[f], disk[row[f].path], mode, f \in spoiled) /\ RowFits(row[f], disk[row[f].path], mode, f \in spoiled)
      /\ row[f] \in RowRecord /\ Size[row[f].key] \in Nat
  BY <1>1, JobIs DEF Removing
<1>3. disk' = [disk EXCEPT ![row[f].path] = NoFile]
  BY <1>2 DEF DeleteFile
<1>4. NoFile \in FileRecord /\ NoFile.data = {} /\ NoFile.size = -1
  BY DEF NoFile, FileRecord
<1>11. mode # "services" /\ f \notin spoiled => row[f].status = "deleted"
  BY <1>1, <1>2 DEF JobFits, StepOK
<1>5. RowFits(row[f], NoFile, mode, f \in spoiled)
  <2>1. Has(NoFile, row[f].key, -1)
    BY DEF Has
  <2>q. QED BY <1>2, <1>4, <1>11, <2>1 DEF RowFits, FileOK, Gone
<1>6. \A u \in Thread : call'[u] = IF u = t THEN Idle
                                   ELSE IF call[u].path = call[t].path THEN Unlinked(call[u]) ELSE call[u]
  BY DEF DeleteFile
<1>7. call' \in [Thread -> JobRecord]
  <2>1. \A u \in Thread : call'[u] \in JobRecord
    <3> SUFFICES ASSUME NEW u \in Thread PROVE call'[u] \in JobRecord
      OBVIOUS
    <3>1. call[u] \in JobRecord
      BY AtWork
    <3>2. Unlinked(call[u]) \in JobRecord
      BY <3>1 DEF Unlinked, Job, JobRecord
    <3>q. QED BY <1>6, <3>1, <3>2, IdleFits
  <2>2. call' = [u \in Thread |-> call'[u]]
    BY DEF DeleteFile
  <2>q. QED BY <2>1, <2>2
<1>8. call[t].pc \notin {"idle", "ready", "get", "reading"}
  BY <1>1
<1>9. \A u \in Thread : u # t => call'[u] \in {call[u], Unlinked(call[u])}
  BY <1>6
<1>10. call'[t] = Idle /\ Idle \in JobRecord
  BY <1>6, IdleFits
<1>12. mode # "services" /\ f \notin spoiled => Gone(row[f], NoFile)
  BY <1>11 DEF Gone
<1>q. QED BY <1>1, <1>2, <1>3, <1>4, <1>5, <1>7, <1>8, <1>9, <1>10, <1>12, DiskStep

-----------------------------------------------------------------------------
(***************************************************************************)
(* The modes.                                                              *)
(***************************************************************************)
\* Nothing is uploaded yet.
LEMMA ModesInitOK == ModeInit => ModesInv
<1> SUFFICES ASSUME ModeInit PROVE ModesInv
  OBVIOUS
<1>1. NoRow \in RowRecord /\ NoRow.status = "absent" /\ NoRow.upload_size = 0
  BY DEF NoRow, RowRecord
<1>2. NoFile \in FileRecord
  BY DEF NoFile, FileRecord
<1>3. UploadTypes
  BY <1>1, <1>2, IdleFits, BoundsAssumption DEF ModeInit, Init, UploadTypes
<1>4. \A f \in FileId : ~ Exists(f) /\ row[f].upload_size = 0
  BY <1>1 DEF ModeInit, Init, Exists
<1>5. RowsInv /\ FilesHaveRows /\ NotMixed /\ FilesInv
  BY <1>4 DEF ModeInit, Init, RowsInv, OwnPaths, FilesHaveRows, NotMixed, FilesInv
<1>6. \A t \in Thread : call[t] = Idle /\ ~ InRequest(t)
  BY IdleFits DEF ModeInit, Init, InRequest
<1>7. InTurn /\ JobsInv
  BY <1>6, IdleFits DEF InTurn, Patient, JobsInv, Fits
<1>q. QED BY <1>3, <1>5, <1>7 DEF ModeInit, ModesInv

\* A step that both modes have.
LEMMA SharedKeeps == ASSUME ModesInv, InTurn', UNCHANGED mode, OwnPaths', SharedNext PROVE ModesInv'
<1>1. CASE Tick
  BY <1>1, TickKeeps
<1>2. CASE \E c \in Client, k \in Key : UploadStart(c, k)
  BY <1>2, UploadStartKeeps
<1>3. CASE \E c \in Client, f \in FileId : DeleteBegin(c, f) \/ DownloadBegin(c, f)
  BY <1>3, DeleteBeginKeeps, DownloadBeginKeeps
<1>4. CASE \E c \in Client, s \in Slot : Timeout(c, s)
  BY <1>4, TimeoutKeeps
<1>5. ASSUME NEW t \in Thread,
             \/ Fail(t) \/ UploadInsert(t) \/ WriteOpen(t) \/ WriteCreate(t) \/ WriteReopen(t)
             \/ SoftDelete(t) \/ DeleteFile(t) \/ DownloadAsk(t)
      PROVE  ModesInv'
  BY <1>5, FailKeeps, UploadInsertKeeps, WriteOpenKeeps, WriteCreateKeeps, WriteReopenKeeps, SoftDeleteKeeps,
     DeleteFileKeeps, DownloadAskKeeps
<1>q. QED BY <1>1, <1>2, <1>3, <1>4, <1>5 DEF SharedNext

\* A write, as FileStore's.
LEMMA WritesShared ==
  /\ \A t \in Services!Thread : Services!WriteData(t, "check") <=> WriteData(t, "check")
  /\ \A t \in Server!Thread : Server!WriteData(t, "update") <=> WriteData(t, "update")
  /\ Services!Thread = Thread /\ Server!Thread = Thread
BY DEF WriteData, Thread, AtOffset, Overwrite, Goto, AtStep, Job, At,
       Services!WriteData, Services!Thread, Services!AtOffset, Services!Overwrite, Services!Goto, Services!AtStep,
       Services!Job, Services!At, Server!WriteData, Server!Thread, Server!AtOffset, Server!Overwrite, Server!Goto,
       Server!AtStep, Server!Job, Server!At

\* A step of the microservice mode.
LEMMA ServicesKeep ==
  ASSUME ModesInv, InTurn', UNCHANGED mode, OwnPaths', mode # "patient-server", Services!Next
  PROVE  ModesInv'
<1>1. CASE Services!SharedNext
  BY <1>1, ServicesShared, SharedKeeps
<1>2. ASSUME NEW t \in Thread,
             \/ Services!PrepareUploadChunk(t) \/ WriteData(t, "check")
             \/ Services!ConfirmCheck(t) \/ Services!ConfirmUploadChunk(t) \/ Services!ConfirmReread(t)
             \/ Services!FinalizeBegin(t) \/ Services!FinalizeStat(t) \/ Services!FinalizeComplete(t)
             \/ Services!DownloadRead(t)
      PROVE  ModesInv'
  BY <1>2, PrepareKeeps, WriteDataKeeps, ConfirmCheckKeeps, ConfirmKeeps, ConfirmRereadKeeps,
     ServiceFinalizeBeginKeeps, ServiceFinalizeStatKeeps, ServiceFinalizeCompleteKeeps, DownloadReadKeeps
<1>q. QED BY <1>1, <1>2, WritesShared DEF Services!Next

\* A step of the single process.
LEMMA ServerKeeps ==
  ASSUME ModesInv, InTurn', UNCHANGED mode, OwnPaths', mode = "patient-server", Server!Next
  PROVE  ModesInv'
<1>1. CASE Server!SharedNext
  BY <1>1, ServerShared, SharedKeeps
<1>2. ASSUME NEW t \in Thread,
             \/ Server!UploadData(t)
             \/ WriteData(t, "update") \/ Server!UploadDataDone(t)
             \/ Server!FinalizeBegin(t) \/ Server!FinalizeStat(t)
             \/ Server!FinalizeComplete(t) \/ Server!FinalizeProgress(t)
             \/ Server!DownloadChunk(t)
      PROVE  ModesInv'
  BY <1>2, UploadDataKeeps, WriteDataKeeps, UploadDataDoneKeeps, ServerFinalizeBeginKeeps, ServerFinalizeStatKeeps,
     ServerFinalizeCompleteKeeps, FinalizeProgressKeeps, DownloadChunkKeeps
<1>q. QED BY <1>1, <1>2, WritesShared DEF Server!Next

\* A step of a mode.
LEMMA ModeKeeps == ModesInv /\ [ModeNext]_<<vars, mode>> => ModesInv'
<1> SUFFICES ASSUME ModesInv, [ModeNext]_<<vars, mode>> PROVE ModesInv'
  OBVIOUS
<1>1. CASE ModeNext
  <2>1. UNCHANGED mode /\ OwnPaths'
    BY <1>1 DEF ModeNext
  <2>2. InTurn'
    BY <1>1 DEF ModeNext, InTurn
  <2>3. \/ mode # "patient-server" /\ Services!Next
        \/ mode = "patient-server" /\ Server!Next
    BY <1>1 DEF ModeNext
  <2>q. QED BY <2>1, <2>2, <2>3, ServicesKeep, ServerKeeps
<1>2. CASE UNCHANGED <<vars, mode>>
  <2>1. UNCHANGED <<row, disk, clock, call, spoiled, mode>>
    BY <1>2 DEF vars
  <2>2. UploadTypes' /\ RowsInv' /\ FilesHaveRows' /\ NotMixed' /\ FilesInv' /\ JobsInv' /\ InTurn'
    BY <2>1 DEF ModesInv, UploadTypes, RowsInv, OwnPaths, FilesHaveRows, NotMixed, FilesInv, JobsInv, Fits, InTurn,
                Patient, InRequest, Exists
  <2>q. QED BY <2>1, <2>2 DEF ModesInv
<1>q. QED BY <1>1, <1>2

\* The inductive invariant of both modes: rows and files of one upload belong together,
\* and every handler stands where its mode allows it.
THEOREM ModesInvariant == ModeSpec => []ModesInv
  BY ModesInitOK, ModeKeeps, PTL DEF ModeSpec

\* In the microservice mode a file is only completed after all of its blocks were
\* confirmed (UploadFinalize and ConfirmUploadChunk), whatever requests overlap.
THEOREM CompletedFilesWereConfirmed == ModeSpec => []CompletedWasConfirmed
<1>1. ModesInv => CompletedWasConfirmed
  <2> SUFFICES ASSUME ModesInv, mode # "patient-server", NEW f \in FileId, row[f].status = "completed"
               PROVE  row[f].upload_size = Size[row[f].key]
    BY DEF CompletedWasConfirmed, Services!CompletedWasConfirmed, Services!FileId, FileId
  <2>q. QED BY RowAtWork DEF Exists, RowFits
<1>q. QED BY <1>1, ModesInvariant, PTL

\* The files of two uploads are never mixed (GenerateFilepath and WriteChunk), in any
\* mode, whatever requests overlap.
THEOREM FilesAreNotMixed == ModeSpec => []NotMixed
  BY ModesInvariant, PTL DEF ModesInv

\* One request at a time: what upload_size says is in the file (UploadData,
\* ConfirmUploadChunk, Delete), in both modes, unless an ignored failure of SoftDelete
\* or of the first open of WriteChunk has spoiled it.
THEOREM ConfirmedBlocksAreStored == ModeSpec => []PatientIsStored
<1>1. ModesInv => PatientIsStored
  <2> SUFFICES ASSUME ModesInv, mode # "services", NEW f \in FileId \ spoiled,
                      row[f].status \in {"uploading", "completed"}
               PROVE  Stored(row[f], disk[row[f].path])
    BY DEF PatientIsStored, ConfirmedIsStored, Stored, Has
  <2>1. RowFits(row[f], disk[row[f].path], mode, f \in spoiled)
    BY RowAtWork DEF Exists
  <2>q. QED BY <2>1 DEF RowFits, FileOK, Gone
<1>q. QED BY <1>1, ModesInvariant, PTL

\* One request at a time: a completed file is the one that was announced
\* (UploadFinalize), in both modes, unless it was spoiled; failed statements of
\* UploadData and UploadFinalize do no harm.
THEOREM CompletedFilesAreWhole == ModeSpec => []PatientIsWhole
<1>1. ModesInv => PatientIsWhole
  <2> SUFFICES ASSUME ModesInv, mode # "services", NEW f \in FileId \ spoiled, row[f].status = "completed"
               PROVE  /\ FileSize(row[f].path) = Size[row[f].key]
                      /\ \A b \in 0 .. (Size[row[f].key] - 1) : <<b, row[f].key>> \in disk[row[f].path].data
    BY DEF PatientIsWhole, CompletedIsWhole
  <2>1. RowFits(row[f], disk[row[f].path], mode, f \in spoiled)
    BY RowAtWork DEF Exists
  <2>2. disk[row[f].path].size = Size[row[f].key] /\ Has(disk[row[f].path], row[f].key, Size[row[f].key])
    BY <2>1 DEF RowFits, FileOK
  <2>q. QED BY <2>2 DEF Has, FileSize
<1>q. QED BY <1>1, ModesInvariant, PTL

\* upload_size stays or grows.
Advances == \A f \in FileId : row'[f].upload_size >= row[f].upload_size

\* One row is written.
LEMMA AdvancesOne ==
  ASSUME ModesInv, NEW f \in FileId, NEW w, row' = [row EXCEPT ![f] = w], w.upload_size \in Nat,
         w.upload_size >= row[f].upload_size
  PROVE  Advances
<1>1. \A g \in FileId : row[g].upload_size \in Nat
  BY DEF ModesInv, UploadTypes, RowRecord
<1>2. \A g \in FileId : row'[g] = IF g = f THEN w ELSE row[g]
  BY DEF ModesInv, UploadTypes
<1>q. QED BY <1>1, <1>2 DEF Advances

\* No row is written.
LEMMA AdvancesNone == ASSUME ModesInv, UNCHANGED row PROVE Advances
<1>1. \A g \in FileId : row[g].upload_size \in Nat
  BY DEF ModesInv, UploadTypes, RowRecord
<1>q. QED BY <1>1 DEF Advances

\* A status is written.
LEMMA AdvancesStatus ==
  ASSUME ModesInv, NEW t \in Thread, call[t].pc \notin {"idle", "insert"}, NEW s,
         row' = UpdateStatus(call[t].file, s)
  PROVE  Advances
<1> DEFINE f == call[t].file
           w == [status |-> s, key |-> row[f].key, path |-> row[f].path, upload_size |-> row[f].upload_size]
<1>1. f \in FileId /\ row[f].upload_size \in Nat
  BY JobIs DEF RowRecord
<1>2. row' = [row EXCEPT ![f] = w] /\ w.upload_size = row[f].upload_size
  BY DEF UpdateStatus
<1> HIDE DEF w, f
<1>3. w.upload_size \in Nat /\ w.upload_size >= row[f].upload_size
  BY <1>1, <1>2
<1>q. QED BY <1>1, <1>2, <1>3, AdvancesOne

\* A shared step.
LEMMA SharedAdvances == ASSUME ModesInv, SharedNext PROVE Advances
<1>1. ASSUME NEW t \in Thread, UploadInsert(t) PROVE Advances
  <2>1. PICK f \in FileId : ~ Exists(f) /\ row' = [row EXCEPT ![f] = NewRow(call[t].key, GenerateFilepath(call[t].key))]
    BY <1>1 DEF UploadInsert
  <2> DEFINE w == NewRow(call[t].key, GenerateFilepath(call[t].key))
  <2>2. w.upload_size = 0
    BY DEF NewRow
  <2>3. row[f].upload_size = 0
    BY <2>1 DEF ModesInv, RowsInv
  <2> HIDE DEF w
  <2>4. w.upload_size \in Nat /\ w.upload_size >= row[f].upload_size
    BY <2>2, <2>3
  <2>q. QED BY <2>1, <2>4, AdvancesOne DEF w
<1>2. ASSUME NEW t \in Thread, SoftDelete(t), ~ UNCHANGED row PROVE Advances
  <2>1. call[t].pc = "softdelete" /\ row' = UpdateStatus(call[t].file, "deleted")
    BY <1>2 DEF SoftDelete, At
  <2>q. QED BY <2>1, AdvancesStatus
<1>3. CASE UNCHANGED row
  BY <1>3, AdvancesNone
<1>4. \/ UNCHANGED row
      \/ \E t \in Thread : UploadInsert(t) \/ SoftDelete(t)
  BY DEF SharedNext, Tick, UploadStart, DeleteBegin, DownloadBegin, Timeout, Fail, WriteOpen, WriteCreate, WriteReopen,
         DeleteFile, DownloadAsk
<1>q. QED BY <1>1, <1>2, <1>3, <1>4

\* A step of the microservice mode.
LEMMA ServicesAdvance == ASSUME ModesInv, Services!Next PROVE Advances
<1>1. CASE Services!SharedNext
  BY <1>1, ServicesShared, SharedAdvances
<1>2. ASSUME NEW t \in Thread, Services!FinalizeComplete(t) PROVE Advances
  <2>1. call[t].pc = "complete" /\ row' = UpdateStatus(call[t].file, "completed")
    BY <1>2 DEF Services!FinalizeComplete, Services!At, Services!UpdateStatus, UpdateStatus
  <2>q. QED BY <2>1, AdvancesStatus
<1>3. ASSUME NEW t \in Thread, Services!ConfirmUploadChunk(t) PROVE Advances
  <2>1. CASE UNCHANGED row
    BY <2>1, AdvancesNone
  <2>2. CASE ~ UNCHANGED row
    <3> DEFINE x == call[t]
               f == x.file
               w == [status |-> row[f].status, key |-> row[f].key, path |-> row[f].path, upload_size |-> x.to]
    <3>1. row' = [row EXCEPT ![f] = w] /\ row[f].upload_size = x.offset /\ x.pc = "confirm"
      BY <1>3, <2>2 DEF Services!ConfirmUploadChunk, Services!Continues, Services!UpdateUploadSize, Services!At
    <3>2. x \in JobRecord /\ f \in FileId /\ JobFits(x, row[f], disk[row[f].path], mode, f \in spoiled)
      BY <3>1, JobIs
    <3>3. x.to = x.offset + 1 /\ x.offset \in Nat /\ x.to \in Nat
      BY <3>1, <3>2 DEF JobFits, JobOK, Confirming, JobRecord
    <3>4. w.upload_size = x.to
      OBVIOUS
    <3> HIDE DEF w
    <3>5. w.upload_size \in Nat /\ w.upload_size >= row[f].upload_size
      BY <3>1, <3>3, <3>4
    <3>q. QED BY <3>1, <3>2, <3>5, AdvancesOne
  <2>q. QED BY <2>1, <2>2
<1>4. ASSUME NEW t \in Thread,
             \/ Services!PrepareUploadChunk(t) \/ WriteData(t, "check") \/ Services!ConfirmCheck(t)
             \/ Services!ConfirmReread(t) \/ Services!FinalizeBegin(t) \/ Services!FinalizeStat(t) \/ Services!DownloadRead(t)
      PROVE  Advances
  BY <1>4, AdvancesNone DEF Services!PrepareUploadChunk, WriteData, Services!ConfirmCheck, Services!ConfirmReread,
                            Services!FinalizeBegin,
                            Services!FinalizeStat, Services!DownloadRead
<1>q. QED BY <1>1, <1>2, <1>3, <1>4, WritesShared DEF Services!Next

\* In the microservice mode the conditional UPDATE of FileDAO::ConfirmUploadChunk, like every
\* other statement, never moves upload_size back.
THEOREM ConfirmsOnlyAdvance == ModeSpec => ConfirmOnlyAdvances
<1> DEFINE A == mode # "patient-server" => \A f \in FileId : row'[f].upload_size >= row[f].upload_size
<1>1. ModesInv /\ [ModeNext]_<<vars, mode>> => [A]_vars
  <2> SUFFICES ASSUME ModesInv, ModeNext, mode # "patient-server" PROVE Advances
    BY DEF Advances, vars
  <2>q. QED BY ServicesAdvance DEF ModeNext
<1>2. ModeSpec => [][A]_vars
  BY <1>1, ModesInvariant, PTL DEF ModeSpec
<1>q. QED BY <1>2 DEF ConfirmOnlyAdvances
=============================================================================
