---------------------------- MODULE UploadServer -----------------------------
(***************************************************************************)
(* The single-process mode: gateway/bin/server_main.cc calls FileService   *)
(* (services/file_service.cc) in the threads of its pool.                  *)
(***************************************************************************)
EXTENDS FileStore

\* UploadData: read the row, write the chunk, store the progress.
UploadData(c) ==
  LET f == call[c].file
  IN  /\ At(c, "ready") /\ call[c].offset < Size[call[c].key]
      /\ call' = IF Uploading(f)
                 THEN [call EXCEPT ![c] = Chunk(@, @.offset + 1, row[f].path, row[f].upload_size)]
                 ELSE Refuse(c)
      /\ UNCHANGED <<row, disk, clock, spoiled>>

\* Mutant: one block too far.
NewSizeTooFar(t) == call[t].to + 1

NewSize(t) == IF call[t].seen < call[t].to THEN call[t].to ELSE call[t].seen

UploadDataDone(t) ==
  /\ At(t, "update")
  /\ Unchecked(UpdateUploadSize(call[t].file, NewSize(t)))
  /\ call' = Succeed(t, call[t].file, call[t].key, call[t].to)
  /\ UNCHANGED <<disk, clock, spoiled>>

\* UploadFinalize: the size on disk decides; then two statements, neither checked.
BigEnough(t) == FileSize(call[t].path) >= Size[call[t].key]

FinalizeBegin(c) ==
  /\ At(c, "ready") /\ call[c].offset >= Size[call[c].key]
  /\ call' = IF Exists(call[c].file)
             THEN [call EXCEPT ![c] = Job("stat", @.key, @.file, @.offset, 0, row[@.file].path, 0, FALSE)]
             ELSE Refuse(c)
  /\ UNCHANGED <<row, disk, clock, spoiled>>

FinalizeStat(t) ==
  /\ At(t, "stat")
  /\ call' = IF BigEnough(t) THEN Goto(t, "complete") ELSE Refuse(t)
  /\ UNCHANGED <<row, disk, clock, spoiled>>

FinalizeComplete(t) ==
  /\ At(t, "complete")
  /\ Unchecked(UpdateStatus(call[t].file, "completed"))
  /\ call' = Goto(t, "progress")
  /\ UNCHANGED <<disk, clock, spoiled>>

FinalizeProgress(t) ==
  /\ At(t, "progress")
  /\ Unchecked(UpdateUploadSize(call[t].file, Size[call[t].key]))
  /\ call' = Refuse(t)
  /\ UNCHANGED <<disk, clock, spoiled>>

\* DownloadChunk: a deleted file and the end of a file are errors.
\* Mutant: they are not.
DownloadStepEmpty(c, n) == DownloadGot(c, n)

DownloadStep(c, n) == IF n = 0 THEN call' = Refuse(c) ELSE DownloadGot(c, n)

DownloadChunk(c) ==
  LET f == call[c].file
  IN  /\ At(c, "reading")
      /\ DownloadStep(c, IF row[f].status = "deleted" THEN 0
                         ELSE ReadChunk(row[f].path, call[c].offset, 1))
      /\ UNCHANGED <<row, disk, clock, spoiled>>

Next ==
  \/ SharedNext
  \/ \E t \in Thread : \/ UploadData(t)
                       \/ WriteData(t, "update") \/ UploadDataDone(t)
                       \/ FinalizeBegin(t) \/ FinalizeStat(t)
                       \/ FinalizeComplete(t) \/ FinalizeProgress(t)
                       \/ DownloadChunk(t)

Spec == Init /\ [][Next]_vars

\* The client's download loop.
DownloadTurn(c) == DownloadAsk(c) \/ DownloadChunk(c)
=============================================================================
