-------------------------- MODULE DistributedClient --------------------------
(***************************************************************************)
(* The command line client of the distributed mode (distributed/client.py) *)
(* and the gateway it talks to (distributed/gateway.py), over what the     *)
(* metadata service promises (ObjectStore, which Metadata implements).     *)
(*                                                                         *)
(* A command is a process: upload, resume or download.  It ends, fails or  *)
(* is killed, and the user starts another one.  A request whose answer is  *)
(* late is sent again; the gateway may still carry out the earlier one.    *)
(* The local file may be edited at any time, its size stays (status        *)
(* compares it).  Two versions differ in every piece.                      *)
(***************************************************************************)
EXTENDS ObjectStore, Integers, FiniteSetsExt

CONSTANTS
  PageSize,     \* the pieces that one status names (256)
  Concurrency,  \* threads that send pieces
  Attempts,     \* of a request
  NoFile

ASSUME ClientAssumption ==
  /\ \A o \in Object : IsFiniteSet(Pieces[o]) /\ Pieces[o] = 0 .. (Cardinality(Pieces[o]) - 1)
  /\ Undecided \notin Digest \cup Nat
  /\ PageSize \in Nat \ {0} /\ Concurrency \in Nat \ {0} /\ Attempts \in Nat \ {0}

VARIABLES
  source,      \* the version of the local file
  run,         \* the process: where it is, its object, its page of the status, its attempts
  part,        \* what each thread sends
  astray,      \* pieces whose request was given up and may still change something
  completing,  \* objects whose complete was given up and may still change something
  known,       \* the uploads that can be resumed
  told,        \* history: the objects that the user knows to be published
  stable,      \* history: the uploads since whose init the file was not edited
  temporary,   \* the file that a download writes, and what of it is on the disk
  target,      \* the file that a download replaces
  onPlatter    \* what target may be after a power failure

localFiles == <<temporary, target, onPlatter>>
transfer == <<part, astray, completing>>
knowledge == <<source, known, told, stable>>
clientVars == <<objectVars, run, transfer, knowledge, localFiles>>

Number == UNION {Pieces[o] : o \in Object}

Run(pc, o, page, next) == [pc |-> pc, object |-> o, page |-> page, next |-> next, tries |-> 0]
Stopped == Run("stopped", Undecided, {}, 0)
In(pc) == run.pc = pc
StepTo(pc) == run' = [run EXCEPT !.pc = pc, !.tries = 0]

Part(pc, d, tries) == [pc |-> pc, digest |-> d, tries |-> tries]
NotSent == Part("none", Undecided, 0)
AllUnsent == [k \in Number |-> NotSent]
Holes == [k \in Number |-> Undecided]
Empty == [written |-> Holes, kept |-> Holes]

\* Client.request: three attempts, then the exception ends the command.
Again == run' = IF run.tries + 1 < Attempts THEN [run EXCEPT !.tries = @ + 1] ELSE Stopped

GivenUp(pieces, objects) ==
  /\ astray' = {a \in pieces : /\ state'[a[1]] = "staging" /\ <<a[1], a[2]>> \notin stored'
                              /\ content'[<<a[1], a[2]>>] \in {Undecided, a[3]}}
  /\ completing' = {o \in objects : state'[o] = "staging"}

GivenUpStay == GivenUp(astray, completing)

-----------------------------------------------------------------------------
(***************************************************************************)
(* upload and resume.                                                      *)
(***************************************************************************)
UploadCommand ==
  /\ In("stopped")
  /\ run' = Run("init", Undecided, {}, 0)
  /\ UNCHANGED <<objectVars, transfer, knowledge, localFiles>>

InitAnswered(o) ==
  /\ In("init") /\ Begin(o)
  /\ run' = Run("checkpoint", o, {}, 0)
  /\ stable' = stable \cup {o}
  /\ UNCHANGED <<transfer, source, known, told, localFiles>>

\* The retry begins another upload, that of the lost answer stays until it expires.
InitLost ==
  /\ In("init") /\ Again
  /\ UNCHANGED objectVars \/ \E o \in Object : Begin(o)
  /\ UNCHANGED <<transfer, knowledge, localFiles>>

Checkpoint ==
  /\ In("checkpoint")
  /\ known' = known \cup {run.object}
  /\ StepTo("status")
  /\ UNCHANGED <<objectVars, transfer, source, told, stable, localFiles>>

ResumeCommand(o) ==
  /\ In("stopped") /\ o \in known
  /\ run' = Run("status", o, {}, 0)
  /\ UNCHANGED <<objectVars, transfer, knowledge, localFiles>>

Tell(o) == run' = Stopped /\ told' = told \cup {o}

\* Mutant: an upload without missing pieces is taken for a completed one.
IsCompletedMissing(o) == PiecesOf(o) \subseteq stored

IsCompleted(o) == state[o] = "published"

\* The first status: nothing is left to be done, or pieces are sent page after page.
Status ==
  /\ In("status")
  /\ IF IsCompleted(run.object) THEN Tell(run.object) ELSE StepTo("page") /\ UNCHANGED told
  /\ UNCHANGED <<objectVars, transfer, source, known, stable, localFiles>>

Missing(o, from) == {k \in Pieces[o] : k >= from /\ <<o, k>> \notin stored}

\* The first elements of a set of numbers.
First(S, n) == {k \in S : Cardinality({j \in S : j < k}) < n}

\* Mutant: a piece is skipped.
NextCursorSkips(page, missing) ==
  IF Cardinality(missing) > PageSize THEN Max(page) + 2 ELSE Undecided

NextCursor(page, missing) ==
  IF Cardinality(missing) > PageSize THEN Max(page) + 1 ELSE Undecided

Page ==
  LET missing == Missing(run.object, run.next)
      page == First(missing, PageSize)
  IN  /\ In("page")
      /\ run' = Run("send", run.object, page, NextCursor(page, missing))
      /\ part' = AllUnsent
      /\ UNCHANGED <<objectVars, astray, completing, knowledge, localFiles>>

PartAt(k, pcs) == In("send") /\ k \in run.page /\ part[k].pc \in pcs

SetPart(k, p) == part' = [part EXCEPT ![k] = p]

\* A thread of the pool reads the piece and sends it.
Send(k) ==
  /\ PartAt(k, {"none"})
  /\ Cardinality({j \in run.page : part[j].pc \in {"asked", "prepared", "confirmed"}}) < Concurrency
  /\ SetPart(k, Part("asked", source, 0))
  /\ UNCHANGED <<objectVars, run, astray, completing, knowledge, localFiles>>

\* The gateway: prepare, put on every node, confirm, answer.
Prepared(k) ==
  /\ PartAt(k, {"asked"})
  /\ Decide(<<run.object, k>>, part[k].digest)
  /\ SetPart(k, [part[k] EXCEPT !.pc = "prepared"]) /\ GivenUpStay
  /\ UNCHANGED <<run, knowledge, localFiles>>

Confirmed(k) ==
  /\ PartAt(k, {"prepared"})
  /\ Confirm(<<run.object, k>>)
  /\ SetPart(k, [part[k] EXCEPT !.pc = "confirmed"]) /\ GivenUpStay
  /\ UNCHANGED <<run, knowledge, localFiles>>

Accepted(k) ==
  /\ PartAt(k, {"confirmed"})
  /\ SetPart(k, Part("done", Undecided, 0))
  /\ UNCHANGED <<objectVars, run, astray, completing, knowledge, localFiles>>

\* An error is answered: another content was decided, a node is not there, ...
PartRefused(k) ==
  /\ PartAt(k, {"asked", "prepared"})
  /\ SetPart(k, Part("failed", Undecided, 0))
  /\ UNCHANGED <<objectVars, run, astray, completing, knowledge, localFiles>>

\* No answer came in time: the same data is sent again.
PartLost(k) ==
  LET p == part[k]
  IN  /\ PartAt(k, {"asked", "prepared", "confirmed"})
      /\ SetPart(k, IF p.tries + 1 < Attempts THEN Part("asked", p.digest, p.tries + 1)
                    ELSE Part("failed", Undecided, 0))
      /\ UNCHANGED <<objectVars, run, knowledge, localFiles>>
      /\ GivenUp(astray \cup {<<run.object, k, p.digest>>}, completing)

PageEnds ==
  /\ In("send") /\ \A k \in run.page : part[k].pc \in {"done", "failed"}
  /\ run' = IF \E k \in run.page : part[k].pc = "failed" THEN Stopped
            ELSE IF run.next = Undecided THEN Run("complete", run.object, {}, 0)
            ELSE Run("page", run.object, {}, run.next)
  /\ part' = AllUnsent
  /\ UNCHANGED <<objectVars, astray, completing, knowledge, localFiles>>

\* complete: published by this attempt or by an earlier one.
Completed ==
  /\ In("complete")
  /\ \/ Publish(run.object)
     \/ state[run.object] = "published" /\ UNCHANGED objectVars
  /\ Tell(run.object) /\ GivenUpStay
  /\ UNCHANGED <<part, source, known, stable, localFiles>>

CompleteLost ==
  /\ In("complete") /\ Again
  /\ UNCHANGED <<objectVars, part, knowledge, localFiles>>
  /\ GivenUp(astray, completing \cup {run.object})

-----------------------------------------------------------------------------
(***************************************************************************)
(* What the gateway does with requests that were given up.                 *)
(***************************************************************************)
AstrayPiece(o, k, d) ==
  /\ <<o, k, d>> \in astray
  /\ \/ Decide(<<o, k>>, d)
     \/ content[<<o, k>>] = d /\ Confirm(<<o, k>>)
  /\ GivenUpStay
  /\ UNCHANGED <<run, part, knowledge, localFiles>>

AstrayComplete(o) ==
  /\ o \in completing /\ Publish(o) /\ GivenUpStay
  /\ UNCHANGED <<run, part, knowledge, localFiles>>

-----------------------------------------------------------------------------
(***************************************************************************)
(* download: piece after piece into a temporary file, which then replaces  *)
(* the target.                                                             *)
(***************************************************************************)
DownloadCommand(o) ==
  /\ In("stopped") /\ state[o] = "published"
  /\ run' = Run("download", o, {}, 0)
  /\ UNCHANGED <<objectVars, transfer, knowledge, localFiles>>

\* The gateway looks at the object before and after it reads the piece; the content
\* is verified.
Fetch(k) ==
  /\ In("download") /\ k = run.next /\ k \in Pieces[run.object]
  /\ state[run.object] = "published"
  /\ temporary' = [temporary EXCEPT !.written[k] = content[<<run.object, k>>]]
  /\ run' = [run EXCEPT !.next = k + 1]
  /\ UNCHANGED <<objectVars, transfer, knowledge, target, onPlatter>>

\* Mutant: the data is not synchronised.
DataSyncedNever ==
  /\ In("download") /\ run.next \notin Pieces[run.object]
  /\ StepTo("replace")
  /\ UNCHANGED <<objectVars, transfer, knowledge, localFiles>>

DataSynced ==
  /\ In("download") /\ run.next \notin Pieces[run.object]
  /\ temporary' = [temporary EXCEPT !.kept = temporary.written]
  /\ StepTo("replace")
  /\ UNCHANGED <<objectVars, transfer, knowledge, target, onPlatter>>

Replace ==
  /\ In("replace")
  /\ target' = temporary.written /\ onPlatter' = onPlatter \cup {temporary.kept}
  /\ StepTo("sync")
  /\ UNCHANGED <<objectVars, transfer, knowledge, temporary>>

Downloaded ==
  /\ In("sync")
  /\ onPlatter' = {target} /\ run' = Stopped /\ temporary' = Empty
  /\ UNCHANGED <<objectVars, transfer, knowledge, target>>

-----------------------------------------------------------------------------
\* The process ends where it is: a request is refused, it is killed.  What the
\* threads have sent is under way.  A temporary file that stays is never used again.
GoAstray ==
  LET under == {k \in run.page : part[k].pc \in {"asked", "prepared"}}
  IN  /\ UNCHANGED objectVars
      /\ GivenUp(astray \cup {<<run.object, k, part[k].digest>> : k \in under},
                 IF In("complete") THEN completing \cup {run.object} ELSE completing)
      /\ part' = AllUnsent /\ run' = Stopped /\ temporary' = Empty

CommandEnds ==
  /\ ~In("stopped") /\ GoAstray
  /\ UNCHANGED <<knowledge, target, onPlatter>>

\* The checkpoint was not synchronised.
PowerFailure ==
  /\ GoAstray
  /\ known' \in SUBSET known
  /\ target' \in onPlatter /\ onPlatter' = {target'}
  /\ UNCHANGED <<source, told, stable>>

Edit(d) ==
  /\ source # d
  /\ source' = d /\ stable' = {}
  /\ UNCHANGED <<objectVars, run, transfer, known, told, localFiles>>

\* Another command of the user, or the metadata service.
ObjectEnds(o) ==
  /\ Delete(o) \/ Expire({o})
  /\ GivenUpStay
  /\ UNCHANGED <<run, part, knowledge, localFiles>>

-----------------------------------------------------------------------------
ClientInit ==
  /\ ObjectsInit
  /\ source \in Digest /\ run = Stopped
  /\ part = AllUnsent /\ astray = {} /\ completing = {}
  /\ known = {} /\ told = {} /\ stable = {}
  /\ temporary = Empty
  /\ target = NoFile /\ onPlatter = {NoFile}

Upload ==
  \/ UploadCommand \/ InitLost \/ Checkpoint \/ Status \/ Page
  \/ \E o \in Object : InitAnswered(o) \/ ResumeCommand(o)
  \/ \E k \in Number : \/ Send(k) \/ Prepared(k) \/ Confirmed(k) \/ Accepted(k)
                     \/ PartRefused(k) \/ PartLost(k)
  \/ PageEnds \/ Completed \/ CompleteLost

Download ==
  \/ \E o \in Object : DownloadCommand(o)
  \/ \E k \in Number : Fetch(k)
  \/ DataSynced \/ Replace \/ Downloaded

ClientNext ==
  \/ Upload \/ Download \/ CommandEnds \/ PowerFailure
  \/ \E d \in Digest : Edit(d)
  \/ \E o \in Object : AstrayComplete(o) \/ ObjectEnds(o)
  \/ \E a \in astray : AstrayPiece(a[1], a[2], a[3])

ClientSpec == ClientInit /\ [][ClientNext]_clientVars

-----------------------------------------------------------------------------
(***************************************************************************)
(* Properties.                                                             *)
(***************************************************************************)

\* What the user is told is published is published (until it is deleted), and an
\* object contains the local file, whatever requests were repeated, carried out late
\* or came from an earlier process; as long as the file is not edited after init.
UploadKeepsFile ==
  \A o \in Object :
    /\ o \in told => state[o] \in {"published", "deleted"}
    /\ o \in stable /\ state[o] = "published" => \A p \in PiecesOf(o) : content[p] = source

\* Page after page, no piece is forgotten: complete finds all of them confirmed,
\* although pieces are confirmed by others between two pages.
CompleteFindsAll == In("complete") => PiecesOf(run.object) \subseteq stored

\* The target of a download, also after a power failure, is what it was before or a
\* whole object, never part of one.
TargetIsWhole ==
  \A f \in onPlatter \cup {target} :
    \/ f = NoFile
    \/ \E o \in Object : /\ state[o] \in {"published", "deleted"}
                         /\ \A k \in Number : f[k] = IF k \in Pieces[o] THEN content[<<o, k>>] ELSE Undecided
=============================================================================
