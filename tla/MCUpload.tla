------------------------------ MODULE MCUpload -------------------------------
(***************************************************************************)
(* Instances of UploadService and UploadServer for TLC: the two modes in   *)
(* which the C++ programs are deployed, with and without requests that     *)
(* overlap.                                                                *)
(***************************************************************************)
EXTENDS FileStore, FiniteSets

VARIABLE mode   \* how the system is deployed and used; never changes

Services == INSTANCE UploadService
Server == INSTANCE UploadServer

TwoBlocks == [k \in Key |-> 2]
TwoOrOne == [k \in Key |-> IF k = "large" THEN 2 ELSE 1]
SameName == [k \in Key |-> "name"]

\* One request at a time: clients wait for each other's handlers and for those they
\* have given up.
Patient == \A t, u \in Thread : InRequest(t) /\ InRequest(u) => t = u

\* Uploads of the same name start in different seconds.
OwnPaths ==
  \A f, g \in FileId : f # g /\ Exists(f) /\ Exists(g) => row[f].path # row[g].path

ModeInit == Init /\ mode \in {"patient-services", "services", "patient-server"}

ModeNext ==
  /\ \/ mode = "services" /\ Services!Next
     \/ mode = "patient-services" /\ Services!Next /\ Patient'
     \/ mode = "patient-server" /\ Server!Next /\ Patient'
  /\ OwnPaths'
  /\ UNCHANGED mode

ModeSpec == ModeInit /\ [][ModeNext]_<<vars, mode>>

\* Nothing is deleted.
UploadsOnly == \A t \in Thread : ~ At(t, "softdelete")

UploadsSpec == ModeInit /\ [][ModeNext /\ UploadsOnly']_<<vars, mode>>

\* Bound: the files that are spoiled.
FewSpoiled == Cardinality(spoiled) <= (IF mode = "services" THEN 0 ELSE 1)

ModeFair ==
  /\ ModeInit /\ [][ModeNext /\ FewSpoiled']_<<vars, mode>>
  /\ \A c \in Client : WF_<<vars, mode>>(Server!DownloadTurn(c) /\ UNCHANGED mode)

-----------------------------------------------------------------------------
\* In the microservice mode a file is only completed after all of its blocks were
\* confirmed one after the other, whatever requests overlap, time out or fail.
CompletedWasConfirmed == mode # "patient-server" => Services!CompletedWasConfirmed

\* In the microservice mode the conditional UPDATE of ConfirmUploadChunk never moves
\* upload_size back.
ConfirmOnlyAdvances ==
  [][mode # "patient-server" => \A f \in FileId : row'[f].upload_size >= row[f].upload_size]_vars

\* As long as requests do not overlap, an upload may be resumed at upload_size, in
\* both modes, whatever failed or was given up before.  Two ignored failures are
\* excepted: a file whose row Delete could not update and that was removed all the
\* same, and a file that WriteChunk could not open and took for a missing one.
PatientIsStored == mode # "services" => ConfirmedIsStored

\* As long as requests do not overlap, a completed file is the one that was
\* announced, in both modes; also when the statements of UploadData and
\* UploadFinalize fail unnoticed, but for the same two exceptions.
PatientIsWhole == mode # "services" => CompletedIsWhole

\* When no request is in progress, the completed files are the ones that were
\* announced; so says the protocol of file_service.h, of the microservice mode too.
SettledIsWhole == (\A t \in Thread : ~ InRequest(t)) => CompletedIsWhole

\* A download from the single process ends, with the file or with an error.
DownloadEnds ==
  \A c \in Client : mode = "patient-server" /\ call[c].pc = "get" ~> call[c].pc = "idle"
=============================================================================
