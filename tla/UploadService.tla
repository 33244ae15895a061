---------------------------- MODULE UploadService ----------------------------
(***************************************************************************)
(* The microservice mode: the gateway (gateway/bin/gateway_main.cc) calls  *)
(* FileService for the table and StorageService for the files              *)
(* (services/file_service_server.cc, services/storage_service_server.cc).  *)
(***************************************************************************)
EXTENDS FileStore

\* validate_chunk: the chunk continues the confirmed prefix or repeats a part of it.
ValidChunk(f, from, to) ==
  /\ Uploading(f)
  /\ to <= Size[row[f].key]
  /\ from <= row[f].upload_size
  /\ from < row[f].upload_size => to <= row[f].upload_size

\* upload_data of the gateway: PrepareUploadChunk, and the answer for a chunk
\* that has been confirmed before.
PrepareUploadChunk(c) ==
  LET f == call[c].file
      k == call[c].key
      from == call[c].offset
      to == from + 1
  IN  /\ At(c, "ready") /\ from < Size[k]
      /\ call' = IF ~ ValidChunk(f, from, to) THEN Refuse(c)
                 ELSE IF to <= row[f].upload_size THEN Succeed(c, f, k, to)
                 ELSE [call EXCEPT ![c] = Chunk(@, to, row[f].path, 0)]
      /\ UNCHANGED <<row, disk, clock, spoiled>>

\* ConfirmUploadChunk of FileService: validate_chunk again, ...
ConfirmCheck(t) ==
  /\ At(t, "check")
  /\ call' = IF ValidChunk(call[t].file, call[t].offset, call[t].to)
             THEN Goto(t, "confirm") ELSE Refuse(t)
  /\ UNCHANGED <<row, disk, clock, spoiled>>

\* ... then the conditional UPDATE of FileDAO::ConfirmUploadChunk.
\* Mutant: without the condition on upload_size.
ContinuesLoose(f, from, to) == Uploading(f) /\ to <= Size[row[f].key]

Continues(f, from, to) ==
  Uploading(f) /\ row[f].upload_size = from /\ to <= Size[row[f].key]

ConfirmUploadChunk(t) ==
  LET f == call[t].file
      to == call[t].to
  IN  /\ At(t, "confirm")
      /\ \/ /\ Continues(f, call[t].offset, to)
            /\ row' = UpdateUploadSize(f, to)
            /\ call' = Succeed(t, f, call[t].key, to)
         \/ /\ ~ Continues(f, call[t].offset, to)
            /\ call' = Goto(t, "reread")
            /\ UNCHANGED row
      /\ UNCHANGED <<disk, clock, spoiled>>

\* When it changed nothing, FindById tells whether the chunk was confirmed before.
ConfirmReread(t) ==
  LET f == call[t].file
      to == call[t].to
  IN  /\ At(t, "reread")
      /\ call' = IF Uploading(f) /\ row[f].upload_size >= to
                 THEN Succeed(t, f, call[t].key, to) ELSE Refuse(t)
      /\ UNCHANGED <<row, disk, clock, spoiled>>

\* UploadFinalize: read the row, ask StorageService for the size, set the status.
AllConfirmed(f) == Uploading(f) /\ row[f].upload_size = Size[row[f].key]

FinalizeBegin(c) ==
  /\ At(c, "ready") /\ call[c].offset >= Size[call[c].key]
  /\ call' = IF AllConfirmed(call[c].file)
             THEN [call EXCEPT ![c] = Job("stat", @.key, @.file, @.offset, 0, row[@.file].path, 0, FALSE)]
             ELSE Refuse(c)
  /\ UNCHANGED <<row, disk, clock, spoiled>>

FinalizeStat(t) ==
  /\ At(t, "stat")
  /\ call' = IF FileSize(call[t].path) = Size[call[t].key] THEN Goto(t, "complete") ELSE Refuse(t)
  /\ UNCHANGED <<row, disk, clock, spoiled>>

FinalizeComplete(t) ==
  /\ At(t, "complete")
  /\ row' = UpdateStatus(call[t].file, "completed")
  /\ call' = Refuse(t)
  /\ UNCHANGED <<disk, clock, spoiled>>

\* download_chunk: the gateway reads the path from the request, where FileClient
\* puts none, and answers with code 0 whatever StorageService has read.
DownloadRead(c) ==
  /\ At(c, "reading")
  /\ DownloadGot(c, ReadChunk(None, call[c].offset, 1))
  /\ UNCHANGED <<row, disk, clock, spoiled>>

Next ==
  \/ SharedNext
  \/ \E t \in Thread : \/ PrepareUploadChunk(t)
                       \/ WriteData(t, "check")
                       \/ ConfirmCheck(t) \/ ConfirmUploadChunk(t) \/ ConfirmReread(t)
                       \/ FinalizeBegin(t) \/ FinalizeStat(t) \/ FinalizeComplete(t)
                       \/ DownloadRead(t)

Spec == Init /\ [][Next]_vars

-----------------------------------------------------------------------------
\* Whatever requests overlap, time out or fail, a file is only completed after
\* all of its blocks were confirmed one after the other.
CompletedWasConfirmed ==
  \A f \in FileId : row[f].status = "completed" => row[f].upload_size = Size[row[f].key]
=============================================================================
