---------------------- MODULE DistributedClient_proofs ----------------------
(***************************************************************************)
(* Proofs about the command line client of the distributed mode, for any   *)
(* number of objects and pieces, any page size, any number of threads and  *)
(* attempts: what the user is told, what an upload contains and what a     *)
(* download leaves.                                                        *)
(***************************************************************************)
EXTENDS DistributedClient, FiniteSetTheorems, TLAPS

-----------------------------------------------------------------------------
(***************************************************************************)
(* The invariant.                                                          *)
(***************************************************************************)
Maybe == Digest \cup {Undecided}

RunRow == [pc : {"stopped", "init", "checkpoint", "status", "page", "send", "complete",
                 "download", "replace", "sync"},
           object : Object \cup {Undecided}, page : SUBSET Number,
           next : Nat \cup {Undecided}, tries : Nat]

PartRow == [pc : {"none", "asked", "prepared", "confirmed", "done", "failed"},
            digest : Maybe, tries : Nat]

ObjectTypes ==
  /\ state \in [Object -> {"absent", "staging", "published", "deleted", "expired"}]
  /\ content \in [Piece -> Maybe]
  /\ stored \in SUBSET Piece

ClientTypes ==
  /\ source \in Digest
  /\ run \in RunRow /\ part \in [Number -> PartRow]
  /\ known \in SUBSET Object /\ told \in SUBSET Object /\ stable \in SUBSET Object
  /\ completing \in SUBSET Object
  /\ \A a \in astray : a \in Object \X Number \X Digest /\ <<a[1], a[2]>> \in Piece
  /\ temporary \in [written : [Number -> Maybe], kept : [Number -> Maybe]]

\* An object that has not begun has no content; one that is published is stored, and what is stored is decided.
StoreInv ==
  /\ \A p \in Piece : state[p[1]] = "absent" => content[p] = Undecided
  /\ \A o \in Object : state[o] = "published" => PiecesOf(o) \subseteq stored
  /\ \A p \in stored : content[p] # Undecided

\* Where the process works on an object, and with which page.
RunInv ==
  /\ run.pc \notin {"stopped", "init"} => run.object \in Object
  /\ run.pc \in {"checkpoint", "status", "page", "download"} => run.next \in Nat
  /\ run.pc \in {"checkpoint", "status"} => run.next = 0
  /\ run.page \subseteq (IF run.pc = "send" THEN Pieces[run.object] ELSE {})

\* An object whose file was not edited since its upload began has nothing else in it,
\* nor is anything else on its way to it, left by a request that was given up or sent
\* by a thread.
ContentInv == \A p \in Piece : p[1] \in stable => content[p] \in {Undecided, source}

AstrayInv == \A a \in astray : state[a[1]] = "staging" /\ (a[1] \in stable => a[3] = source)

PartsInv ==
  In("send") => \A k \in run.page :
    part[k].pc \in {"asked", "prepared", "confirmed"} =>
      /\ part[k].digest \in Digest
      /\ run.object \in stable => part[k].digest = source

\* The pieces below the page are stored, and those of the page that were accepted.
PageInv ==
  /\ In("page") => \A k \in Pieces[run.object] : k < run.next => <<run.object, k>> \in stored
  /\ In("send") =>
       /\ \A k \in Pieces[run.object] :
            \/ k \in run.page \/ <<run.object, k>> \in stored
            \/ run.next # Undecided /\ k >= run.next
       /\ \A k \in run.page : part[k].pc \in {"confirmed", "done"} => <<run.object, k>> \in stored

Ended(o) == state[o] \in {"published", "deleted"}
WholeFrom(o, f, to) ==
  \A k \in Number : f[k] = IF k \in Pieces[o] /\ k < to THEN content[<<o, k>>] ELSE Undecided
IsWhole(o, f) ==
  \A k \in Number : f[k] = IF k \in Pieces[o] THEN content[<<o, k>>] ELSE Undecided

\* A download has fetched the pieces below the next one.
DownloadInv ==
  /\ run.pc \notin {"download", "replace", "sync"} => temporary = Empty
  /\ In("download") => Ended(run.object) /\ WholeFrom(run.object, temporary.written, run.next)
  /\ In("replace") => /\ Ended(run.object) /\ IsWhole(run.object, temporary.written)
                      /\ temporary.kept = temporary.written

ToldInv == \A o \in told : Ended(o)

ClientInv ==
  /\ ObjectTypes /\ ClientTypes /\ StoreInv /\ RunInv
  /\ ContentInv /\ AstrayInv /\ PartsInv /\ PageInv /\ DownloadInv
  /\ ToldInv /\ CompleteFindsAll /\ TargetIsWhole
-----------------------------------------------------------------------------
(***************************************************************************)
(* Sets of pieces, and the rows of the client.                             *)
(***************************************************************************)
\* Undecided is no content and no number (the digest is None, next_cursor is None).
LEMMA UndecidedApart == Undecided \notin Digest /\ Undecided \notin Nat
  BY ClientAssumption

\* The pieces of an object are finitely many, numbered from 0.
LEMMA PiecesNat ==
  /\ \A o \in Object : Pieces[o] \in SUBSET Nat /\ IsFiniteSet(Pieces[o]) /\ Pieces[o] \subseteq Number
  /\ \A o \in Object : \A k \in Pieces[o] : \A j \in Nat : j <= k => j \in Pieces[o]
<1>1. \A o \in Object : IsFiniteSet(Pieces[o]) /\ Pieces[o] = 0 .. (Cardinality(Pieces[o]) - 1)
  BY ClientAssumption
<1>2. \A o \in Object : Pieces[o] \subseteq Number
  BY DEF Number
<1>3. \A o \in Object : Cardinality(Pieces[o]) \in Nat
  BY <1>1, FS_CardinalityType
<1>4. ASSUME NEW o \in Object
      PROVE  Pieces[o] \in SUBSET Nat /\ \A k \in Pieces[o] : \A j \in Nat : j <= k => j \in Pieces[o]
  <2> DEFINE n == Cardinality(Pieces[o]) - 1
  <2>1. Pieces[o] = 0 .. n /\ n \in Int
    BY <1>1, <1>3
  <2> HIDE DEF n
  <2>q. QED BY <2>1
<1>q. QED BY <1>1, <1>2, <1>4

\* A piece and its number.
LEMMA PieceIs ==
  /\ \A o \in Object : \A k \in Pieces[o] : <<o, k>> \in Piece /\ <<o, k>> \in PiecesOf(o)
  /\ \A p \in Piece : p[1] \in Object /\ p[2] \in Pieces[p[1]] /\ p = <<p[1], p[2]>> /\ p \in PiecesOf(p[1])
  /\ \A o \in Object : \A p \in PiecesOf(o) : p \in Piece /\ p[1] = o /\ p[2] \in Pieces[o] /\ p = <<o, p[2]>>
BY DEF Piece, PiecesOf

\* A finite set of numbers that is not empty has a least element and a greatest (max(items), metadata.py).
LEMMA LeastNumber ==
  ASSUME NEW S, \A i \in S : i \in Int, IsFiniteSet(S), S # {}
  PROVE  \E m \in S : \A k \in S : m <= k
<1> DEFINE Below(k) == {j \in S : j < k}
           T == {Below(k) : k \in S}
<1>1. T \subseteq FiniteSubsetsOf(S) /\ T # {}
  <2>1. \A k \in S : Below(k) \in SUBSET S /\ IsFiniteSet(Below(k))
    BY FS_Subset
  <2>q. QED BY <2>1 DEF FiniteSubsetsOf
<1>2. PICK A \in T : \A B \in T : ~ (<<B, A>> \in StrictSubsetOrdering(S))
  BY <1>1, FS_StrictSubsetOrderingWellFounded, WFMin
<1>3. PICK m \in S : A = Below(m)
  OBVIOUS
<1>4. ASSUME NEW k \in S, k < m
      PROVE  FALSE
  <2>1. Below(k) \subseteq A /\ k \in A /\ k \notin Below(k)
    BY <1>3, <1>4
  <2>2. <<Below(k), A>> \in StrictSubsetOrdering(S)
    BY <1>3, <2>1 DEF StrictSubsetOrdering
  <2>q. QED BY <1>2, <2>2
<1>q. QED BY <1>4

LEMMA MaxIsGreatest ==
  ASSUME NEW S, \A i \in S : i \in Int, IsFiniteSet(S), S # {}
  PROVE  Max(S) \in S /\ \A k \in S : k <= Max(S)
<1> DEFINE Above(k) == {j \in S : j > k}
           T == {Above(k) : k \in S}
<1>1. T \subseteq FiniteSubsetsOf(S) /\ T # {}
  <2>1. \A k \in S : Above(k) \in SUBSET S /\ IsFiniteSet(Above(k))
    BY FS_Subset
  <2>q. QED BY <2>1 DEF FiniteSubsetsOf
<1>2. PICK A \in T : \A B \in T : ~ (<<B, A>> \in StrictSubsetOrdering(S))
  BY <1>1, FS_StrictSubsetOrderingWellFounded, WFMin
<1>3. PICK m \in S : A = Above(m)
  OBVIOUS
<1>4. ASSUME NEW k \in S, k > m
      PROVE  FALSE
  <2>1. Above(k) \subseteq A /\ k \in A /\ k \notin Above(k)
    BY <1>3, <1>4
  <2>2. <<Above(k), A>> \in StrictSubsetOrdering(S)
    BY <1>3, <2>1 DEF StrictSubsetOrdering
  <2>q. QED BY <1>2, <2>2
<1>5. \E x \in S : \A y \in S : x >= y
  BY <1>4
<1>q. QED BY <1>5 DEF Max

\* A page names the first missing pieces, all that come before one of them included.
LEMMA FirstIsPrefix ==
  ASSUME NEW S, \A i \in S : i \in Int, IsFiniteSet(S)
  PROVE  LET page == First(S, PageSize)
         IN  /\ page \subseteq S
             /\ Cardinality(S) <= PageSize => page = S
             /\ Cardinality(S) > PageSize =>
                  Max(page) \in page /\ \A k \in S : k \in page \/ k > Max(page)
<1> DEFINE Below(k) == {j \in S : j < k}
           page == First(S, PageSize)
<1>1. PageSize \in Nat /\ PageSize > 0
  BY ClientAssumption
<1>2. \A k \in S : /\ IsFiniteSet(Below(k)) /\ Cardinality(Below(k)) \in Nat
                   /\ Cardinality(Below(k)) < Cardinality(S)
  <2> TAKE k \in S
  <2>1. Below(k) \subseteq S /\ Below(k) # S
    OBVIOUS
  <2> HIDE DEF Below
  <2>2. IsFiniteSet(Below(k)) /\ Cardinality(Below(k)) <= Cardinality(S) /\ (Cardinality(Below(k)) = Cardinality(S) => Below(k) = S)
    BY <2>1, FS_Subset
  <2>q. QED BY <2>1, <2>2, FS_CardinalityType
<1>3. page = {k \in S : Cardinality(Below(k)) < PageSize}
  BY DEF First
<1>4. Cardinality(S) \in Nat
  BY FS_CardinalityType
<1>5. ASSUME Cardinality(S) <= PageSize
      PROVE  page = S
  <2> HIDE DEF Below, page
  <2>1. \A k \in S : Cardinality(Below(k)) < PageSize
    BY <1>1, <1>2, <1>4, <1>5
  <2>q. QED BY <1>3, <2>1
<1>6. ASSUME Cardinality(S) > PageSize
      PROVE  Max(page) \in page /\ \A k \in S : k \in page \/ k > Max(page)
  <2>1. S # {}
    BY <1>1, <1>4, <1>6, FS_EmptySet
  <2>2. PICK m \in S : \A k \in S : m <= k
    BY <2>1, LeastNumber
  <2>3. Below(m) = {}
    BY <1>1, <2>2
  <2>4. m \in page
    <3>1. Cardinality(Below(m)) = 0
      BY <2>3, FS_EmptySet
    <3> HIDE DEF Below, page
    <3>q. QED BY <1>1, <1>3, <3>1
  <2>5. (\A i \in page : i \in Int) /\ IsFiniteSet(page) /\ page # {}
    <3>1. page \subseteq S
      BY <1>3
    <3> HIDE DEF page
    <3>q. QED BY <2>4, <3>1, FS_Subset
  <2>6. Max(page) \in page /\ \A k \in page : k <= Max(page)
    <3> HIDE DEF page
    <3>q. QED BY <2>5, MaxIsGreatest
  <2> DEFINE x == Max(page)
  <2>7. ASSUME NEW k \in S, ~ (k > x)
        PROVE  k \in page
    <3>1. x \in S /\ Cardinality(Below(x)) < PageSize
      BY <2>6, <1>3
    <3> HIDE DEF x, page
    <3>2. Below(k) \subseteq Below(x)
      BY <1>1, <2>7, <3>1
    <3> HIDE DEF Below
    <3>3. Cardinality(Below(k)) <= Cardinality(Below(x))
      BY <1>2, <3>1, <3>2, FS_Subset
    <3>q. QED BY <1>1, <1>2, <1>3, <3>1, <3>3
  <2>q. QED BY <2>6, <2>7
<1>q. QED BY <1>3, <1>5, <1>6

\* A request without an answer is repeated, or the process ends.
LEMMA AgainRun ==
  ASSUME run \in RunRow, Again
  PROVE  run' \in RunRow /\ (run' = Stopped \/ (/\ run'.pc = run.pc /\ run'.object = run.object
                                                /\ run'.page = run.page /\ run'.next = run.next))
BY DEF RunRow, Again, Stopped, Run

\* A piece that was fetched is written behind the others.
LEMMA FetchRows ==
  ASSUME ObjectTypes, ClientTypes, RunInv, NEW k \in Number, Fetch(k)
  PROVE  /\ run'.pc = run.pc /\ run'.object = run.object /\ run'.page = run.page /\ run'.next = k + 1
         /\ temporary'.kept = temporary.kept
         /\ temporary'.written = [temporary.written EXCEPT ![k] = content[<<run.object, k>>]]
BY DEF ClientTypes, Fetch, RunRow
-----------------------------------------------------------------------------
(***************************************************************************)
(* What the requests do to the objects, whoever made them.                 *)
(***************************************************************************)
StoreStep ==
  \/ UNCHANGED objectVars
  \/ \E o \in Object : Begin(o) \/ Publish(o) \/ Delete(o) \/ Expire({o})
  \/ \E p \in Piece : Confirm(p) \/ \E d \in Digest : Decide(p, d)

\* What was stored stays, an ended object does not change.
StoreKept ==
  /\ stored \subseteq stored'
  /\ \A o \in Object : Ended(o) =>
       /\ Ended(o)'
       /\ \A k \in Pieces[o] : content'[<<o, k>>] = content[<<o, k>>]

\* The operations of the metadata service keep the store's invariant and what has ended.
LEMMA StoreStepKeeps ==
  ASSUME ObjectTypes, StoreInv, StoreStep
  PROVE  ObjectTypes' /\ StoreInv' /\ StoreKept
<1> USE DEF ObjectTypes, StoreInv, StoreKept, Ended
<1>1. CASE UNCHANGED objectVars
  BY <1>1 DEF objectVars
<1>2. ASSUME NEW o \in Object, Begin(o) PROVE ObjectTypes' /\ StoreInv' /\ StoreKept
  BY <1>2, PieceIs DEF Begin
<1>3. ASSUME NEW o \in Object, Publish(o) PROVE ObjectTypes' /\ StoreInv' /\ StoreKept
  BY <1>3, PieceIs DEF Publish
<1>4. ASSUME NEW o \in Object, Delete(o) PROVE ObjectTypes' /\ StoreInv' /\ StoreKept
  BY <1>4, PieceIs DEF Delete
<1>5. ASSUME NEW o \in Object, Expire({o}) PROVE ObjectTypes' /\ StoreInv' /\ StoreKept
  BY <1>5, PieceIs DEF Expire
<1>6. ASSUME NEW p \in Piece, Confirm(p) PROVE ObjectTypes' /\ StoreInv' /\ StoreKept
  BY <1>6, PieceIs DEF Confirm
<1>7. ASSUME NEW p \in Piece, NEW d \in Digest, Decide(p, d) PROVE ObjectTypes' /\ StoreInv' /\ StoreKept
  <2>1. content' = [content EXCEPT ![p] = d] /\ state' = state /\ stored' = stored /\ state[p[1]] = "staging"
    BY <1>7 DEF Decide
  <2>q. QED BY <2>1, PieceIs, UndecidedApart DEF Maybe
<1>q. QED BY <1>1, <1>2, <1>3, <1>4, <1>5, <1>6, <1>7 DEF StoreStep

\* The files of earlier downloads stay whole.
LEMMA TargetStays ==
  ASSUME ObjectTypes, TargetIsWhole, StoreKept, UNCHANGED <<target, onPlatter>>
  PROVE  TargetIsWhole'
<1> SUFFICES ASSUME NEW f \in onPlatter \cup {target}, f # NoFile
             PROVE  \E o \in Object : Ended(o)' /\ IsWhole(o, f)'
  BY DEF TargetIsWhole, Ended, IsWhole
<1>1. PICK o \in Object : Ended(o) /\ IsWhole(o, f)
  BY DEF TargetIsWhole, Ended, IsWhole
<1>2. Ended(o)' /\ \A k \in Pieces[o] : content'[<<o, k>>] = content[<<o, k>>]
  BY <1>1 DEF StoreKept
<1>q. QED BY <1>1, <1>2 DEF IsWhole

\* A step of the client that changes no object and edits no file.
LEMMA LocalStep ==
  ASSUME ClientInv, UNCHANGED <<objectVars, astray, completing, source, stable, target, onPlatter>>
  PROVE  ObjectTypes' /\ StoreInv' /\ ContentInv' /\ AstrayInv' /\ TargetIsWhole'
<1>1. StoreStep
  BY DEF StoreStep
<1>q. QED BY <1>1, StoreStepKeeps, TargetStays DEF ClientInv, ContentInv, AstrayInv, objectVars

\* A step of the gateway or of the metadata service.
LEMMA RemoteStep ==
  ASSUME ClientInv, StoreStep, UNCHANGED <<run, told, localFiles>>
  PROVE  /\ ObjectTypes' /\ StoreInv' /\ StoreKept /\ RunInv' /\ DownloadInv'
         /\ ToldInv' /\ CompleteFindsAll' /\ TargetIsWhole'
<1>1. ObjectTypes' /\ StoreInv' /\ StoreKept
  BY StoreStepKeeps DEF ClientInv
<1>2. TargetIsWhole'
  BY <1>1, TargetStays DEF ClientInv, localFiles
<1>3. RunInv' /\ ToldInv' /\ CompleteFindsAll'
  BY <1>1 DEF ClientInv, RunInv, ToldInv, CompleteFindsAll, StoreKept, ClientTypes, In
<1>4. DownloadInv'
  BY <1>1 DEF ClientInv, DownloadInv, RunInv, StoreKept, WholeFrom, IsWhole, localFiles, In
<1>q. QED BY <1>1, <1>2, <1>3, <1>4

\* Requests that were given up carry what they were sent with.
LEMMA GivenUpCarries ==
  ASSUME ClientInv, NEW P, NEW O, GivenUp(P, O), O \subseteq Object, UNCHANGED <<source, stable>>,
         \A a \in P : /\ a \in Object \X Number \X Digest /\ <<a[1], a[2]>> \in Piece
                      /\ a[1] \in stable => a[3] = source
  PROVE  /\ AstrayInv' /\ completing' \in SUBSET Object
         /\ \A a \in astray' : a \in Object \X Number \X Digest /\ <<a[1], a[2]>> \in Piece
BY DEF GivenUp, AstrayInv

LEMMA GivenUpStayCarries ==
  ASSUME ClientInv, GivenUpStay, UNCHANGED <<source, stable>>
  PROVE  /\ AstrayInv' /\ completing' \in SUBSET Object
         /\ \A a \in astray' : a \in Object \X Number \X Digest /\ <<a[1], a[2]>> \in Piece
<1>1. GivenUp(astray, completing)
  BY DEF GivenUpStay
<1>q. QED BY <1>1, GivenUpCarries DEF ClientInv, ClientTypes, AstrayInv

\* A content is decided by a request for it.
LEMMA DecideContent ==
  ASSUME ClientInv, NEW p \in Piece, NEW d \in Digest, Decide(p, d), p[1] \in stable => d = source,
         UNCHANGED <<source, stable>>
  PROVE  ContentInv'
BY DEF ClientInv, ObjectTypes, ContentInv, Decide
-----------------------------------------------------------------------------
(***************************************************************************)
(* upload and resume: from the command to complete.                        *)
(***************************************************************************)
\* No process runs.
LEMMA StoppedKeeps ==
  ASSUME run' = Stopped, temporary' = Empty
  PROVE  run' \in RunRow /\ RunInv' /\ PartsInv' /\ PageInv' /\ DownloadInv' /\ CompleteFindsAll'
BY DEF Stopped, Run, RunRow, RunInv, PartsInv, PageInv, DownloadInv, CompleteFindsAll, In

\* Nothing was written to a temporary file, outside of a download.
LEMMA NoTemporary ==
  ASSUME ClientInv, run.pc \notin {"download", "replace", "sync"}
  PROVE  temporary = Empty
BY DEF ClientInv, DownloadInv

\* The commands upload and resume.
LEMMA CommandsKeep ==
  ASSUME ClientInv, UploadCommand \/ \E o \in Object : ResumeCommand(o)
  PROVE  ClientInv'
<1>1. UNCHANGED <<objectVars, transfer, knowledge, localFiles>> /\ In("stopped")
  BY DEF UploadCommand, ResumeCommand
<1>2. run' = Run("init", Undecided, {}, 0) \/ \E o \in Object : run' = Run("status", o, {}, 0)
  BY DEF UploadCommand, ResumeCommand
<1>3. ObjectTypes' /\ StoreInv' /\ ContentInv' /\ AstrayInv' /\ TargetIsWhole'
  BY <1>1, LocalStep DEF transfer, knowledge, localFiles
<1>4. run' \in RunRow /\ RunInv' /\ PartsInv' /\ PageInv' /\ CompleteFindsAll'
  BY <1>2 DEF Run, RunRow, RunInv, PartsInv, PageInv, CompleteFindsAll, In
<1>5. temporary = Empty
  BY <1>1, NoTemporary DEF In
<1>6. DownloadInv'
  BY <1>1, <1>2, <1>5 DEF Run, DownloadInv, localFiles, In
<1>7. ClientTypes' /\ ToldInv'
  BY <1>1, <1>4 DEF ClientInv, ClientTypes, ToldInv, Ended, objectVars, transfer, knowledge, localFiles
<1>q. QED BY <1>3, <1>4, <1>6, <1>7 DEF ClientInv

\* init: a new object has no content, and nothing is on its way to it.
LEMMA InitAnsweredKeeps ==
  ASSUME ClientInv, NEW o \in Object, InitAnswered(o)
  PROVE  ClientInv'
<1>1. /\ In("init") /\ Begin(o) /\ run' = Run("checkpoint", o, {}, 0)
      /\ stable' = stable \cup {o} /\ UNCHANGED <<transfer, source, known, told, localFiles>>
  BY DEF InitAnswered
<1>2. ObjectTypes' /\ StoreInv' /\ StoreKept
  BY <1>1, StoreStepKeeps DEF ClientInv, StoreStep
<1>3. TargetIsWhole'
  BY <1>1, <1>2, TargetStays DEF ClientInv, localFiles
<1>4. run' \in RunRow /\ RunInv' /\ PartsInv' /\ PageInv' /\ CompleteFindsAll'
  BY <1>1 DEF Run, RunRow, RunInv, PartsInv, PageInv, CompleteFindsAll, In
<1>5. temporary = Empty
  BY <1>1, NoTemporary DEF In
<1>6. DownloadInv'
  BY <1>1, <1>5 DEF Run, DownloadInv, localFiles, In
<1>7. ContentInv'
  BY <1>1 DEF ClientInv, StoreInv, ContentInv, Begin
<1>8. AstrayInv'
  BY <1>1 DEF ClientInv, ObjectTypes, ClientTypes, AstrayInv, Begin, transfer
<1>9. ClientTypes' /\ ToldInv'
  BY <1>1, <1>2, <1>4 DEF ClientInv, ClientTypes, ToldInv, StoreKept, transfer, localFiles
<1>q. QED BY <1>2, <1>3, <1>4, <1>6, <1>7, <1>8, <1>9 DEF ClientInv

\* init again: the upload of the lost answer may have begun.
LEMMA InitLostKeeps ==
  ASSUME ClientInv, InitLost
  PROVE  ClientInv'
<1>1. /\ In("init") /\ Again /\ UNCHANGED <<transfer, knowledge, localFiles>>
      /\ UNCHANGED objectVars \/ \E o \in Object : Begin(o)
  BY DEF InitLost
<1>2. ObjectTypes' /\ StoreInv' /\ StoreKept
  BY <1>1, StoreStepKeeps DEF ClientInv, StoreStep
<1>3. TargetIsWhole'
  BY <1>1, <1>2, TargetStays DEF ClientInv, localFiles
<1>4. run' \in RunRow /\ run'.pc \in {"stopped", "init"} /\ run'.page = {}
  <2>1. run.page = {}
    BY <1>1 DEF ClientInv, RunInv, In
  <2>q. QED BY <1>1, <2>1, AgainRun DEF ClientInv, ClientTypes, Stopped, Run, In
<1>5. RunInv' /\ PartsInv' /\ PageInv' /\ CompleteFindsAll'
  BY <1>4 DEF RunInv, PartsInv, PageInv, CompleteFindsAll, In
<1>6. temporary = Empty
  BY <1>1, NoTemporary DEF In
<1>7. DownloadInv'
  BY <1>1, <1>4, <1>6 DEF DownloadInv, localFiles, In
<1>8. content' = content /\ ContentInv'
  BY <1>1 DEF ClientInv, ContentInv, Begin, objectVars, knowledge
<1>9. AstrayInv'
  BY <1>1 DEF ClientInv, ObjectTypes, ClientTypes, AstrayInv, Begin, objectVars, transfer, knowledge
<1>10. ClientTypes' /\ ToldInv'
  BY <1>1, <1>2, <1>4 DEF ClientInv, ClientTypes, ToldInv, StoreKept, transfer, knowledge, localFiles
<1>q. QED BY <1>2, <1>3, <1>4, <1>5, <1>7, <1>8, <1>9, <1>10 DEF ClientInv

\* The checkpoint names the object of the process.
LEMMA CheckpointKeeps ==
  ASSUME ClientInv, Checkpoint
  PROVE  ClientInv'
<1>1. /\ In("checkpoint") /\ known' = known \cup {run.object} /\ StepTo("status")
      /\ UNCHANGED <<objectVars, transfer, source, told, stable, localFiles>>
  BY DEF Checkpoint
<1>2. ObjectTypes' /\ StoreInv' /\ ContentInv' /\ AstrayInv' /\ TargetIsWhole'
  BY <1>1, LocalStep DEF transfer, localFiles
<1>3. /\ run'.pc = "status" /\ run'.object = run.object /\ run'.page = run.page
      /\ run'.next = run.next /\ run'.tries = 0 /\ run' \in RunRow
  <2>1. run \in RunRow
    BY DEF ClientInv, ClientTypes
  <2>q. QED BY <1>1, <2>1 DEF RunRow, StepTo
<1>4. RunInv' /\ PartsInv' /\ PageInv' /\ CompleteFindsAll'
  BY <1>1, <1>3 DEF ClientInv, RunInv, PartsInv, PageInv, CompleteFindsAll, In
<1>5. temporary = Empty
  BY <1>1, NoTemporary DEF In
<1>6. DownloadInv'
  BY <1>1, <1>3, <1>5 DEF DownloadInv, localFiles, In
<1>7. ClientTypes' /\ ToldInv'
  BY <1>1, <1>3 DEF ClientInv, ClientTypes, RunInv, ToldInv, Ended, objectVars, transfer, localFiles, In
<1>q. QED BY <1>2, <1>3, <1>4, <1>6, <1>7 DEF ClientInv

\* The first status: the user is told only what is published.
LEMMA StatusKeeps ==
  ASSUME ClientInv, Status
  PROVE  ClientInv'
<1>1. /\ In("status") /\ UNCHANGED <<objectVars, transfer, source, known, stable, localFiles>>
      /\ \/ IsCompleted(run.object) /\ Tell(run.object)
         \/ StepTo("page") /\ UNCHANGED told
  BY DEF Status
<1>2. ObjectTypes' /\ StoreInv' /\ ContentInv' /\ AstrayInv' /\ TargetIsWhole'
  BY <1>1, LocalStep DEF transfer, localFiles
<1>3. temporary = Empty /\ run \in RunRow /\ run.object \in Object /\ run.next = 0
  BY <1>1, NoTemporary DEF ClientInv, ClientTypes, RunInv, In
<1>4. CASE IsCompleted(run.object) /\ Tell(run.object)
  <2>1. run' = Stopped /\ temporary' = Empty
    BY <1>1, <1>3, <1>4 DEF Tell, localFiles
  <2>2. run' \in RunRow /\ RunInv' /\ PartsInv' /\ PageInv' /\ DownloadInv' /\ CompleteFindsAll'
    BY <2>1, StoppedKeeps
  <2>3. ToldInv' /\ told' \in SUBSET Object
    BY <1>1, <1>3, <1>4 DEF ClientInv, ClientTypes, ToldInv, Ended, IsCompleted, Tell, objectVars
  <2>4. ClientTypes'
    BY <1>1, <2>2, <2>3 DEF ClientInv, ClientTypes, transfer, localFiles
  <2>q. QED BY <1>2, <2>2, <2>3, <2>4 DEF ClientInv
<1>5. CASE StepTo("page") /\ UNCHANGED told
  <2>1. /\ run'.pc = "page" /\ run'.object = run.object /\ run'.page = run.page
        /\ run'.next = run.next /\ run' \in RunRow
    BY <1>3, <1>5 DEF RunRow, StepTo
  <2>2. RunInv' /\ PartsInv' /\ CompleteFindsAll'
    BY <1>1, <1>3, <2>1 DEF ClientInv, RunInv, PartsInv, CompleteFindsAll, In
  <2>3. PageInv'
    BY <1>3, <2>1, PiecesNat DEF PageInv, In
  <2>4. DownloadInv'
    BY <1>1, <1>3, <2>1 DEF DownloadInv, localFiles, In
  <2>5. ClientTypes' /\ ToldInv'
    BY <1>1, <1>5, <2>1 DEF ClientInv, ClientTypes, ToldInv, Ended, objectVars, transfer, localFiles
  <2>q. QED BY <1>2, <2>1, <2>2, <2>3, <2>4, <2>5 DEF ClientInv
<1>q. QED BY <1>1, <1>4, <1>5
\* A page names missing pieces only; the cursor is behind all that come before (metadata.py).
LEMMA PageKeeps ==
  ASSUME ClientInv, Page
  PROVE  ClientInv'
<1> DEFINE missing == Missing(run.object, run.next)
           page == First(missing, PageSize)
           next == NextCursor(page, missing)
<1>1. /\ In("page") /\ run' = Run("send", run.object, page, next) /\ part' = AllUnsent
      /\ UNCHANGED <<objectVars, astray, completing, knowledge, localFiles>>
  BY DEF Page
<1>2. temporary = Empty /\ run.object \in Object /\ run.next \in Nat
  BY <1>1, NoTemporary DEF ClientInv, RunInv, In
<1>3. missing = {k \in Pieces[run.object] : k >= run.next /\ <<run.object, k>> \notin stored}
  BY DEF Missing
<1>4. (\A k \in missing : k \in Nat) /\ IsFiniteSet(missing) /\ missing \subseteq Pieces[run.object]
  <2>1. missing \subseteq Pieces[run.object]
    BY <1>3
  <2> HIDE DEF missing
  <2>q. QED BY <1>2, <2>1, PiecesNat, FS_Subset
<1>5. Cardinality(missing) \in Nat /\ PageSize \in Nat
  BY <1>4, FS_CardinalityType, ClientAssumption
<1>6. /\ page \subseteq missing
      /\ Cardinality(missing) <= PageSize => page = missing
      /\ Cardinality(missing) > PageSize =>
           Max(page) \in page /\ \A k \in missing : k \in page \/ k > Max(page)
  <2> HIDE DEF missing
  <2>1. \A k \in missing : k \in Int
    BY <1>4
  <2>q. QED BY <1>4, <2>1, FirstIsPrefix
<1>7. /\ next \in Nat \cup {Undecided}
      /\ \A k \in missing : k \in page \/ (next # Undecided /\ k >= next)
  <2>1. CASE Cardinality(missing) > PageSize
    <3>1. next = Max(page) + 1 /\ Max(page) \in Nat
      BY <1>4, <1>6, <2>1 DEF NextCursor
    <3> HIDE DEF missing, page, next
    <3>q. QED BY <1>4, <1>6, <2>1, <3>1, UndecidedApart
  <2>2. CASE ~ (Cardinality(missing) > PageSize)
    <3>1. next = Undecided
      BY <2>2 DEF NextCursor
    <3> HIDE DEF missing, page, next
    <3>q. QED BY <1>5, <1>6, <2>2, <3>1
  <2>q. QED BY <2>1, <2>2
<1>8. /\ run'.pc = "send" /\ run'.object = run.object /\ run'.page = page /\ run'.next = next
      /\ run' \in RunRow
  <2> HIDE DEF missing, next, page
  <2>1. page \subseteq Number
    BY <1>2, <1>4, <1>6, PiecesNat
  <2>q. QED BY <1>1, <1>2, <1>7, <2>1 DEF Run, RunRow
<1> HIDE DEF next, page
<1>9. ObjectTypes' /\ StoreInv' /\ ContentInv' /\ AstrayInv' /\ TargetIsWhole'
  BY <1>1, LocalStep DEF knowledge, localFiles
<1>10. page \subseteq Pieces[run.object] /\ page \subseteq Number
  <2> HIDE DEF missing
  <2>q. QED BY <1>2, <1>4, <1>6, PiecesNat
<1>11. \A k \in page : part'[k].pc = "none" /\ part' \in [Number -> PartRow]
  BY <1>1, <1>10 DEF AllUnsent, NotSent, Part, PartRow, Maybe
<1>12. RunInv' /\ PartsInv' /\ CompleteFindsAll'
  BY <1>2, <1>8, <1>10, <1>11 DEF RunInv, PartsInv, CompleteFindsAll, In
<1>13. \A k \in Pieces[run.object] : k \in page \/ <<run.object, k>> \in stored \/ (next # Undecided /\ k >= next)
  <2> SUFFICES ASSUME NEW k \in Pieces[run.object], <<run.object, k>> \notin stored
               PROVE  k \in page \/ (next # Undecided /\ k >= next)
    OBVIOUS
  <2>1. k >= run.next
    BY <1>1, <1>2, PiecesNat DEF ClientInv, PageInv, In
  <2>2. k \in missing
    BY <1>3, <2>1
  <2> HIDE DEF missing
  <2>q. QED BY <1>7, <2>2
<1>14. stored' = stored
  BY <1>1 DEF objectVars
<1>15. PageInv'
  BY <1>8, <1>11, <1>13, <1>14 DEF PageInv, In
<1>16. DownloadInv'
  BY <1>1, <1>2, <1>8 DEF DownloadInv, localFiles, In
<1>17. ClientTypes'
  <2>1. part' \in [Number -> PartRow]
    BY <1>1 DEF AllUnsent, NotSent, Part, PartRow, Maybe
  <2>q. QED BY <1>1, <1>8, <2>1 DEF ClientInv, ClientTypes, knowledge, localFiles
<1>18. ToldInv'
  BY <1>1 DEF ClientInv, ToldInv, Ended, objectVars, knowledge
<1>q. QED BY <1>9, <1>12, <1>15, <1>16, <1>17, <1>18 DEF ClientInv

-----------------------------------------------------------------------------
(***************************************************************************)
(* The pieces of a page.                                                   *)
(***************************************************************************)
\* A thread sends what is in the file.
LEMMA SetPartKeeps ==
  ASSUME ClientInv, NEW k \in Number, NEW p \in PartRow, SetPart(k, p), PartAt(k, {"none", "asked", "prepared", "confirmed"}),
         p.pc \in {"asked", "prepared", "confirmed"} => p.digest \in Digest /\ (run.object \in stable => p.digest = source),
         p.pc \in {"confirmed", "done"} => <<run.object, k>> \in stored',
         UNCHANGED <<run, knowledge>>, stored \subseteq stored'
  PROVE  part' \in [Number -> PartRow] /\ PartsInv' /\ PageInv'
<1>1. In("send") /\ k \in run.page /\ part' = [part EXCEPT ![k] = p] /\ part \in [Number -> PartRow]
  BY DEF PartAt, SetPart, ClientInv, ClientTypes
<1>2. part' \in [Number -> PartRow] /\ part'[k] = p /\ \A j \in Number : j # k => part'[j] = part[j]
  BY <1>1
<1>3. run.page \subseteq Number
  BY DEF ClientInv, ClientTypes, RunRow
<1>4. PartsInv'
  BY <1>1, <1>2, <1>3 DEF ClientInv, PartsInv, In, knowledge
<1>5. PageInv'
  BY <1>1, <1>2, <1>3 DEF ClientInv, PageInv, In
<1>q. QED BY <1>2, <1>4, <1>5

\* The piece of a thread is one of the object of the process.
LEMMA PartIs ==
  ASSUME ClientInv, NEW k \in Number, NEW pcs, PartAt(k, pcs)
  PROVE  /\ In("send") /\ k \in run.page /\ run.object \in Object /\ k \in Pieces[run.object]
         /\ <<run.object, k>> \in Piece /\ part[k] \in PartRow /\ part[k].pc \in pcs
         /\ part[k].pc \in {"asked", "prepared", "confirmed"} =>
              part[k].digest \in Digest /\ (run.object \in stable => part[k].digest = source)
<1>1. In("send") /\ k \in run.page /\ part[k].pc \in pcs
  BY DEF PartAt
<1>2. run.object \in Object /\ k \in Pieces[run.object]
  BY <1>1 DEF ClientInv, RunInv, In
<1>q. QED BY <1>1, <1>2, PieceIs DEF ClientInv, ClientTypes, PartsInv

\* Nothing but the threads changes.
LEMMA ThreadStep ==
  ASSUME ClientInv, PartsInv', PageInv', part' \in [Number -> PartRow],
         UNCHANGED <<objectVars, run, astray, completing, knowledge, localFiles>>
  PROVE  ClientInv'
<1>1. ObjectTypes' /\ StoreInv' /\ ContentInv' /\ AstrayInv' /\ TargetIsWhole'
  BY LocalStep DEF knowledge, localFiles
<1>2. RunInv' /\ CompleteFindsAll' /\ ToldInv'
  BY DEF ClientInv, RunInv, CompleteFindsAll, ToldInv, Ended, In, objectVars, knowledge
<1>3. DownloadInv'
  BY DEF ClientInv, DownloadInv, Ended, WholeFrom, IsWhole, In, objectVars, localFiles
<1>4. ClientTypes'
  BY DEF ClientInv, ClientTypes, knowledge, localFiles
<1>q. QED BY <1>1, <1>2, <1>3, <1>4 DEF ClientInv

\* A piece is sent, accepted or refused.
LEMMA ThreadKeeps ==
  ASSUME ClientInv, NEW k \in Number, Send(k) \/ Accepted(k) \/ PartRefused(k)
  PROVE  ClientInv'
<1>1. UNCHANGED <<objectVars, run, astray, completing, knowledge, localFiles>>
  BY DEF Send, Accepted, PartRefused
<1>2. stored' = stored
  BY <1>1 DEF objectVars
<1>3. CASE Send(k)
  <2> DEFINE p == Part("asked", source, 0)
  <2>1. PartAt(k, {"none", "asked", "prepared", "confirmed"}) /\ SetPart(k, p)
    BY <1>3 DEF Send, PartAt
  <2>2. p \in PartRow /\ p.pc = "asked" /\ p.digest = source /\ source \in Digest
    BY DEF Part, PartRow, ClientInv, ClientTypes, Maybe
  <2> HIDE DEF p
  <2>q. QED BY <1>1, <1>2, <2>1, <2>2, SetPartKeeps, ThreadStep
<1>4. CASE Accepted(k)
  <2> DEFINE p == Part("done", Undecided, 0)
  <2>1. PartAt(k, {"none", "asked", "prepared", "confirmed"}) /\ SetPart(k, p)
    BY <1>4 DEF Accepted, PartAt
  <2>2. p \in PartRow /\ p.pc = "done" /\ <<run.object, k>> \in stored
    BY <1>4 DEF Accepted, Part, PartRow, ClientInv, PageInv, PartAt, Maybe
  <2> HIDE DEF p
  <2>q. QED BY <1>1, <1>2, <2>1, <2>2, SetPartKeeps, ThreadStep
<1>5. CASE PartRefused(k)
  <2> DEFINE p == Part("failed", Undecided, 0)
  <2>1. PartAt(k, {"none", "asked", "prepared", "confirmed"}) /\ SetPart(k, p)
    BY <1>5 DEF PartRefused, PartAt
  <2>2. p \in PartRow /\ p.pc = "failed"
    BY DEF Part, PartRow, Maybe
  <2> HIDE DEF p
  <2>q. QED BY <1>1, <1>2, <2>1, <2>2, SetPartKeeps, ThreadStep
<1>q. QED BY <1>3, <1>4, <1>5
\* What a request of the process or of its past does to the objects, when it gives up no other.
LEMMA GatewayStep ==
  ASSUME ClientInv, StoreStep, GivenUpStay, ContentInv', PartsInv', PageInv', part' \in [Number -> PartRow],
         UNCHANGED <<run, knowledge, localFiles>>
  PROVE  ClientInv'
<1>1. /\ ObjectTypes' /\ StoreInv' /\ RunInv' /\ DownloadInv'
      /\ ToldInv' /\ CompleteFindsAll' /\ TargetIsWhole'
  BY RemoteStep DEF knowledge
<1>2. /\ AstrayInv' /\ completing' \in SUBSET Object
      /\ \A a \in astray' : a \in Object \X Number \X Digest /\ <<a[1], a[2]>> \in Piece
  BY GivenUpStayCarries DEF knowledge
<1>3. ClientTypes'
  BY <1>2 DEF ClientInv, ClientTypes, knowledge, localFiles
<1>q. QED BY <1>1, <1>2, <1>3 DEF ClientInv

\* The threads do not change, the store grows.
LEMMA PartsStay ==
  ASSUME ClientInv, StoreKept, UNCHANGED <<run, part, source, stable>>
  PROVE  PartsInv' /\ PageInv' /\ part' \in [Number -> PartRow]
BY DEF ClientInv, ClientTypes, RunInv, PartsInv, PageInv, StoreKept, In

\* prepare decides the content, with what was sent.
LEMMA PreparedKeeps ==
  ASSUME ClientInv, NEW k \in Number, Prepared(k)
  PROVE  ClientInv'
<1> DEFINE p == [part[k] EXCEPT !.pc = "prepared"]
<1>1. /\ PartAt(k, {"asked"}) /\ Decide(<<run.object, k>>, part[k].digest)
      /\ SetPart(k, p) /\ GivenUpStay /\ UNCHANGED <<run, knowledge, localFiles>>
  BY DEF Prepared
<1>2. /\ run.object \in Object /\ <<run.object, k>> \in Piece /\ part[k] \in PartRow
      /\ part[k].digest \in Digest /\ (run.object \in stable => part[k].digest = source)
  BY <1>1, PartIs
<1>3. p \in PartRow /\ p.pc = "prepared" /\ p.digest = part[k].digest
  BY <1>2 DEF PartRow
<1>4. StoreStep
  BY <1>1, <1>2 DEF StoreStep
<1> HIDE DEF p
<1>5. stored' = stored
  BY <1>1 DEF Decide
<1>6. PartAt(k, {"none", "asked", "prepared", "confirmed"})
  BY <1>1 DEF PartAt
<1>7. PartsInv' /\ PageInv' /\ part' \in [Number -> PartRow]
  BY <1>1, <1>2, <1>3, <1>5, <1>6, SetPartKeeps
<1>8. ContentInv'
  BY <1>1, <1>2, DecideContent DEF knowledge
<1>q. QED BY <1>1, <1>4, <1>7, <1>8, GatewayStep

\* confirm stores the piece.
LEMMA ConfirmedKeeps ==
  ASSUME ClientInv, NEW k \in Number, Confirmed(k)
  PROVE  ClientInv'
<1> DEFINE p == [part[k] EXCEPT !.pc = "confirmed"]
<1>1. /\ PartAt(k, {"prepared"}) /\ Confirm(<<run.object, k>>)
      /\ SetPart(k, p) /\ GivenUpStay /\ UNCHANGED <<run, knowledge, localFiles>>
  BY DEF Confirmed
<1>2. /\ run.object \in Object /\ <<run.object, k>> \in Piece /\ part[k] \in PartRow
      /\ part[k].digest \in Digest /\ (run.object \in stable => part[k].digest = source)
  BY <1>1, PartIs
<1>3. p \in PartRow /\ p.pc = "confirmed" /\ p.digest = part[k].digest
  BY <1>2 DEF PartRow
<1>4. StoreStep
  BY <1>1, <1>2 DEF StoreStep
<1> HIDE DEF p
<1>5. stored' = stored \cup {<<run.object, k>>} /\ content' = content
  BY <1>1 DEF Confirm
<1>6. PartAt(k, {"none", "asked", "prepared", "confirmed"})
  BY <1>1 DEF PartAt
<1>7. PartsInv' /\ PageInv' /\ part' \in [Number -> PartRow]
  BY <1>1, <1>2, <1>3, <1>5, <1>6, SetPartKeeps
<1>8. ContentInv'
  BY <1>1, <1>5 DEF ClientInv, ContentInv, knowledge
<1>q. QED BY <1>1, <1>4, <1>7, <1>8, GatewayStep

\* A request without an answer is sent again with the same data; the earlier one may still be carried out.
LEMMA PartLostKeeps ==
  ASSUME ClientInv, NEW k \in Number, PartLost(k)
  PROVE  ClientInv'
<1> DEFINE p == IF part[k].tries + 1 < Attempts THEN Part("asked", part[k].digest, part[k].tries + 1)
                ELSE Part("failed", Undecided, 0)
           P == astray \cup {<<run.object, k, part[k].digest>>}
<1>1. /\ PartAt(k, {"asked", "prepared", "confirmed"}) /\ SetPart(k, p)
      /\ UNCHANGED <<objectVars, run, knowledge, localFiles>> /\ GivenUp(P, completing)
  BY DEF PartLost
<1>2. /\ run.object \in Object /\ <<run.object, k>> \in Piece /\ part[k] \in PartRow
      /\ part[k].digest \in Digest /\ (run.object \in stable => part[k].digest = source)
  BY <1>1, PartIs
<1>3. p \in PartRow /\ ((p.pc = "asked" /\ p.digest = part[k].digest) \/ p.pc = "failed")
  BY <1>2 DEF Part, PartRow, Maybe
<1>4. \A a \in P : /\ a \in Object \X Number \X Digest /\ <<a[1], a[2]>> \in Piece
                   /\ a[1] \in stable => a[3] = source
  <2>1. \A a \in astray : /\ a \in Object \X Number \X Digest /\ <<a[1], a[2]>> \in Piece
                          /\ a[1] \in stable => a[3] = source
    BY DEF ClientInv, ClientTypes, AstrayInv
  <2> DEFINE b == <<run.object, k, part[k].digest>>
  <2>2. b \in Object \X Number \X Digest /\ b[1] = run.object /\ b[2] = k /\ b[3] = part[k].digest
    BY <1>2
  <2> HIDE DEF b
  <2>3. <<b[1], b[2]>> \in Piece /\ (b[1] \in stable => b[3] = source)
    BY <1>2, <2>2
  <2>4. \A a \in P : a \in astray \/ a = b
    BY DEF b
  <2>q. QED BY <2>1, <2>2, <2>3, <2>4
<1> HIDE DEF p, P
<1>5. PartAt(k, {"none", "asked", "prepared", "confirmed"})
  BY <1>1 DEF PartAt
<1>6. stored' = stored
  BY <1>1 DEF objectVars
<1>7. PartsInv' /\ PageInv' /\ part' \in [Number -> PartRow]
  BY <1>1, <1>2, <1>3, <1>5, <1>6, SetPartKeeps
<1>8. completing \subseteq Object
  BY DEF ClientInv, ClientTypes
<1>9. /\ AstrayInv' /\ completing' \in SUBSET Object
      /\ \A a \in astray' : a \in Object \X Number \X Digest /\ <<a[1], a[2]>> \in Piece
  BY <1>1, <1>4, <1>8, GivenUpCarries DEF knowledge
<1>10. StoreStep
  BY <1>1 DEF StoreStep
<1>11. /\ ObjectTypes' /\ StoreInv' /\ RunInv' /\ DownloadInv'
       /\ ToldInv' /\ CompleteFindsAll' /\ TargetIsWhole'
  BY <1>1, <1>10, RemoteStep DEF knowledge
<1>12. ContentInv'
  BY <1>1 DEF ClientInv, ContentInv, objectVars, knowledge
<1>13. ClientTypes'
  BY <1>1, <1>7, <1>9 DEF ClientInv, ClientTypes, knowledge, localFiles
<1>q. QED BY <1>7, <1>9, <1>11, <1>12, <1>13 DEF ClientInv

\* The threads of an empty page.
LEMMA AllUnsentRows == AllUnsent \in [Number -> PartRow]
  BY DEF AllUnsent, NotSent, Part, PartRow, Maybe

\* All pieces of the page were accepted: the pieces below the next page are stored.
LEMMA PageEndsKeeps ==
  ASSUME ClientInv, PageEnds
  PROVE  ClientInv'
<1>1. /\ In("send") /\ \A k \in run.page : part[k].pc \in {"done", "failed"}
      /\ part' = AllUnsent /\ UNCHANGED <<objectVars, astray, completing, knowledge, localFiles>>
  BY DEF PageEnds
<1>2. \/ run' = Stopped
      \/ /\ \A k \in run.page : part[k].pc # "failed"
         /\ run.next = Undecided /\ run' = Run("complete", run.object, {}, 0)
      \/ /\ \A k \in run.page : part[k].pc # "failed"
         /\ run.next # Undecided /\ run' = Run("page", run.object, {}, run.next)
  BY DEF PageEnds
<1>3. temporary = Empty /\ run.object \in Object /\ run.next \in Nat \cup {Undecided} /\ run.page \subseteq Pieces[run.object]
  BY <1>1, NoTemporary DEF ClientInv, ClientTypes, RunRow, RunInv, In
<1>4. ObjectTypes' /\ StoreInv' /\ ContentInv' /\ AstrayInv' /\ TargetIsWhole' /\ temporary' = Empty
  BY <1>1, <1>3, LocalStep DEF knowledge, localFiles
<1>5. ToldInv'
  BY <1>1 DEF ClientInv, ToldInv, Ended, objectVars, knowledge
<1>6. stored' = stored
  BY <1>1 DEF objectVars
<1>7. ASSUME \A k \in run.page : part[k].pc # "failed"
      PROVE  \A k \in Pieces[run.object] : \/ <<run.object, k>> \in stored
                                           \/ run.next # Undecided /\ k >= run.next
  BY <1>1, <1>7 DEF ClientInv, PageInv, In
<1>8. /\ run' \in RunRow /\ RunInv' /\ PartsInv' /\ PageInv' /\ DownloadInv' /\ CompleteFindsAll'
  <2>1. CASE run' = Stopped
    BY <1>4, <2>1, StoppedKeeps
  <2>2. CASE /\ \A k \in run.page : part[k].pc # "failed"
             /\ run.next = Undecided /\ run' = Run("complete", run.object, {}, 0)
    <3>1. run' \in RunRow /\ RunInv' /\ PartsInv' /\ PageInv' /\ DownloadInv'
      BY <1>3, <1>4, <2>2 DEF Run, RunRow, RunInv, PartsInv, PageInv, DownloadInv, In
    <3>2. \A k \in Pieces[run.object] : <<run.object, k>> \in stored
      BY <1>7, <2>2
    <3>3. CompleteFindsAll'
      BY <1>6, <2>2, <3>2 DEF CompleteFindsAll, PiecesOf, Run
    <3>q. QED BY <3>1, <3>3
  <2>3. CASE /\ \A k \in run.page : part[k].pc # "failed"
             /\ run.next # Undecided /\ run' = Run("page", run.object, {}, run.next)
    <3>1. run.next \in Nat
      BY <1>3, <2>3
    <3>2. run' \in RunRow /\ RunInv' /\ PartsInv' /\ DownloadInv' /\ CompleteFindsAll'
      BY <1>3, <1>4, <2>3, <3>1 DEF Run, RunRow, RunInv, PartsInv, DownloadInv, CompleteFindsAll, In
    <3>3. \A k \in Pieces[run.object] : k < run.next => <<run.object, k>> \in stored
      BY <1>3, <1>7, <2>3, <3>1, PiecesNat
    <3>4. PageInv'
      BY <1>6, <2>3, <3>3 DEF PageInv, In, Run
    <3>q. QED BY <3>2, <3>4
  <2>q. QED BY <1>2, <2>1, <2>2, <2>3
<1>9. ClientTypes'
  BY <1>1, <1>8, AllUnsentRows DEF ClientInv, ClientTypes, knowledge, localFiles
<1>q. QED BY <1>4, <1>5, <1>8, <1>9 DEF ClientInv
-----------------------------------------------------------------------------
(***************************************************************************)
(* complete, and what the gateway does with requests that were given up.   *)
(***************************************************************************)
\* The user is told that the object is published when it is.
LEMMA CompletedKeeps ==
  ASSUME ClientInv, Completed
  PROVE  ClientInv'
<1>1. /\ In("complete") /\ Tell(run.object) /\ GivenUpStay
      /\ Publish(run.object) \/ (state[run.object] = "published" /\ UNCHANGED objectVars)
      /\ UNCHANGED <<part, source, known, stable, localFiles>>
  BY DEF Completed
<1>2. temporary = Empty /\ run.object \in Object
  BY <1>1, NoTemporary DEF ClientInv, RunInv, In
<1>3. StoreStep
  BY <1>1, <1>2 DEF StoreStep
<1>4. ObjectTypes' /\ StoreInv' /\ StoreKept
  BY <1>3, StoreStepKeeps DEF ClientInv
<1>5. run' = Stopped /\ temporary' = Empty /\ told' = told \cup {run.object}
  BY <1>1, <1>2 DEF Tell, localFiles
<1>6. run' \in RunRow /\ RunInv' /\ PartsInv' /\ PageInv' /\ DownloadInv' /\ CompleteFindsAll'
  BY <1>5, StoppedKeeps
<1>7. TargetIsWhole'
  BY <1>1, <1>4, TargetStays DEF ClientInv, localFiles
<1>9. ToldInv'
  <2>1. state'[run.object] \in {"published", "deleted"}
    BY <1>1, <1>2 DEF ClientInv, ObjectTypes, Publish, objectVars
  <2>2. \A o \in told : state'[o] \in {"published", "deleted"}
    BY <1>4 DEF ClientInv, ClientTypes, ToldInv, StoreKept, Ended
  <2>q. QED BY <1>5, <2>1, <2>2 DEF ToldInv, Ended
<1>10. /\ AstrayInv' /\ completing' \in SUBSET Object
       /\ \A a \in astray' : a \in Object \X Number \X Digest /\ <<a[1], a[2]>> \in Piece
  BY <1>1, GivenUpStayCarries
<1>11. content' = content /\ ContentInv'
  BY <1>1 DEF ClientInv, ContentInv, Publish, objectVars
<1>12. ClientTypes'
  BY <1>1, <1>2, <1>5, <1>6, <1>10 DEF ClientInv, ClientTypes, localFiles
<1>q. QED BY <1>4, <1>6, <1>7, <1>9, <1>10, <1>11, <1>12 DEF ClientInv

\* complete again, or the end of the process.
LEMMA CompleteLostKeeps ==
  ASSUME ClientInv, CompleteLost
  PROVE  ClientInv'
<1>1. /\ In("complete") /\ Again /\ UNCHANGED <<objectVars, part, knowledge, localFiles>>
      /\ GivenUp(astray, completing \cup {run.object})
  BY DEF CompleteLost
<1>2. temporary = Empty /\ run.object \in Object /\ run \in RunRow
  BY <1>1, NoTemporary DEF ClientInv, ClientTypes, RunInv, In
<1>3. StoreStep
  BY <1>1 DEF StoreStep
<1>4. ObjectTypes' /\ StoreInv' /\ StoreKept /\ TargetIsWhole'
  BY <1>1, <1>3, StoreStepKeeps, TargetStays DEF ClientInv, localFiles
<1>5. /\ run' \in RunRow
      /\ run' = Stopped \/ (run'.pc = "complete" /\ run'.object = run.object /\ run'.page = run.page)
  BY <1>1, <1>2, AgainRun DEF In
<1>6. RunInv' /\ PartsInv' /\ PageInv' /\ CompleteFindsAll'
  BY <1>1, <1>2, <1>5 DEF ClientInv, RunInv, PartsInv, PageInv, CompleteFindsAll, In, Stopped, Run, objectVars
<1>7. DownloadInv'
  BY <1>1, <1>2, <1>5 DEF DownloadInv, In, Stopped, Run, localFiles
<1>8. \A a \in astray : /\ a \in Object \X Number \X Digest /\ <<a[1], a[2]>> \in Piece
                        /\ a[1] \in stable => a[3] = source
  BY DEF ClientInv, ClientTypes, AstrayInv
<1>9. completing \cup {run.object} \subseteq Object
  BY <1>2 DEF ClientInv, ClientTypes
<1>10. /\ AstrayInv' /\ completing' \in SUBSET Object
       /\ \A a \in astray' : a \in Object \X Number \X Digest /\ <<a[1], a[2]>> \in Piece
  BY <1>1, <1>8, <1>9, GivenUpCarries DEF knowledge
<1>11. ContentInv' /\ ToldInv'
  BY <1>1 DEF ClientInv, ContentInv, ToldInv, Ended, objectVars, knowledge
<1>12. ClientTypes'
  BY <1>1, <1>5, <1>10 DEF ClientInv, ClientTypes, knowledge, localFiles
<1>q. QED BY <1>4, <1>6, <1>7, <1>10, <1>11, <1>12 DEF ClientInv

\* A request is carried out after the client gave it up.
LEMMA AstrayKeeps ==
  ASSUME ClientInv,
         (\E o \in Object : AstrayComplete(o) \/ ObjectEnds(o)) \/ \E a \in astray : AstrayPiece(a[1], a[2], a[3])
  PROVE  ClientInv'
<1>1. ASSUME StoreStep, GivenUpStay, ContentInv', UNCHANGED <<run, part, knowledge, localFiles>>
      PROVE  ClientInv'
  <2>1. StoreKept
    BY <1>1, StoreStepKeeps DEF ClientInv
  <2>2. PartsInv' /\ PageInv' /\ part' \in [Number -> PartRow]
    BY <1>1, <2>1, PartsStay DEF knowledge
  <2>q. QED BY <1>1, <2>2, GatewayStep
<1>2. ASSUME NEW o \in Object, AstrayComplete(o) \/ ObjectEnds(o) PROVE ClientInv'
  <2>1. StoreStep /\ GivenUpStay /\ UNCHANGED <<run, part, knowledge, localFiles>>
    BY <1>2 DEF AstrayComplete, ObjectEnds, StoreStep
  <2>2. content' = content
    BY <1>2 DEF AstrayComplete, ObjectEnds, Publish, Delete, Expire
  <2>3. ContentInv'
    BY <2>1, <2>2 DEF ClientInv, ContentInv, knowledge
  <2>q. QED BY <1>1, <2>1, <2>3
<1>3. ASSUME NEW a \in astray, AstrayPiece(a[1], a[2], a[3]) PROVE ClientInv'
  <2> DEFINE p == <<a[1], a[2]>>
             d == a[3]
  <2>1. p \in Piece /\ d \in Digest /\ p[1] = a[1] /\ (p[1] \in stable => d = source)
    BY DEF ClientInv, ClientTypes, AstrayInv
  <2>2. /\ Decide(p, d) \/ (content[p] = d /\ Confirm(p))
        /\ GivenUpStay /\ UNCHANGED <<run, part, knowledge, localFiles>>
    BY <1>3 DEF AstrayPiece
  <2> HIDE DEF p, d
  <2>3. StoreStep
    BY <2>1, <2>2 DEF StoreStep
  <2>4. ContentInv'
    <3>1. CASE Decide(p, d)
      BY <2>1, <2>2, <3>1, DecideContent DEF knowledge
    <3>2. CASE Confirm(p)
      BY <2>2, <3>2 DEF ClientInv, ContentInv, Confirm, knowledge
    <3>q. QED BY <2>2, <3>1, <3>2
  <2>q. QED BY <1>1, <2>2, <2>3, <2>4
<1>q. QED BY <1>2, <1>3

-----------------------------------------------------------------------------
(***************************************************************************)
(* download.                                                               *)
(***************************************************************************)
\* An object that is published is downloaded, piece after piece into an empty file.
LEMMA DownloadCommandKeeps ==
  ASSUME ClientInv, NEW o \in Object, DownloadCommand(o)
  PROVE  ClientInv'
<1>1. /\ In("stopped") /\ state[o] = "published" /\ run' = Run("download", o, {}, 0)
      /\ UNCHANGED <<objectVars, transfer, knowledge, localFiles>>
  BY DEF DownloadCommand
<1>2. ObjectTypes' /\ StoreInv' /\ ContentInv' /\ AstrayInv' /\ TargetIsWhole'
  BY <1>1, LocalStep DEF transfer, knowledge, localFiles
<1>3. run' \in RunRow /\ RunInv' /\ PartsInv' /\ PageInv' /\ CompleteFindsAll'
  BY <1>1 DEF Run, RunRow, RunInv, PartsInv, PageInv, CompleteFindsAll, In
<1>4. temporary = Empty
  BY <1>1, NoTemporary DEF In
<1>5. \A k \in Pieces[o] : ~ (k < 0)
  BY PiecesNat
<1>6. WholeFrom(o, temporary.written, 0)
  BY <1>4, <1>5 DEF WholeFrom, Empty, Holes
<1>7. DownloadInv'
  BY <1>1, <1>4, <1>6 DEF Run, DownloadInv, Ended, WholeFrom, objectVars, localFiles, In
<1>8. ClientTypes' /\ ToldInv'
  BY <1>1, <1>3 DEF ClientInv, ClientTypes, ToldInv, Ended, objectVars, transfer, knowledge, localFiles
<1>q. QED BY <1>2, <1>3, <1>7, <1>8 DEF ClientInv

\* Steps of a download that leave the target alone.
LEMMA DownloadStep ==
  ASSUME ClientInv, DownloadInv', run' \in RunRow, run'.pc \in {"download", "replace"},
         run'.object = run.object, run'.page = run.page, run.pc = "download", run'.pc = "download" => run'.next \in Nat, run.object \in Object,
         temporary' \in [written : [Number -> Maybe], kept : [Number -> Maybe]],
         UNCHANGED <<objectVars, transfer, knowledge, target, onPlatter>>
  PROVE  ClientInv'
<1>1. ObjectTypes' /\ StoreInv' /\ ContentInv' /\ AstrayInv' /\ TargetIsWhole'
  BY LocalStep DEF transfer, knowledge
<1>2. RunInv' /\ PartsInv' /\ PageInv' /\ CompleteFindsAll'
  BY DEF ClientInv, RunInv, PartsInv, PageInv, CompleteFindsAll, In
<1>3. ClientTypes' /\ ToldInv'
  BY DEF ClientInv, ClientTypes, ToldInv, Ended, objectVars, transfer, knowledge
<1>q. QED BY <1>1, <1>2, <1>3 DEF ClientInv

\* The next piece is written.
LEMMA FetchKeeps ==
  ASSUME ClientInv, NEW k \in Number, Fetch(k)
  PROVE  ClientInv'
<1>1. /\ In("download") /\ k = run.next /\ k \in Pieces[run.object]
      /\ run' = [run EXCEPT !.next = k + 1]
      /\ UNCHANGED <<objectVars, transfer, knowledge, target, onPlatter>>
  BY DEF Fetch
<1>2. /\ run.object \in Object /\ run.next \in Nat /\ run \in RunRow
      /\ temporary \in [written : [Number -> Maybe], kept : [Number -> Maybe]]
      /\ Ended(run.object) /\ WholeFrom(run.object, temporary.written, run.next)
  BY <1>1 DEF ClientInv, ClientTypes, RunInv, DownloadInv, In
<1>3. /\ run'.pc = run.pc /\ run'.object = run.object /\ run'.page = run.page /\ run'.next = k + 1
      /\ temporary'.kept = temporary.kept
      /\ temporary'.written = [temporary.written EXCEPT ![k] = content[<<run.object, k>>]]
  BY FetchRows DEF ClientInv
<1>4. content[<<run.object, k>>] \in Maybe
  BY <1>1, <1>2, PieceIs DEF ClientInv, ObjectTypes
<1>5. temporary' \in [written : [Number -> Maybe], kept : [Number -> Maybe]]
  BY <1>2, <1>4 DEF Fetch
<1>6. WholeFrom(run.object, temporary'.written, k + 1)
  <2>1. \A j \in Pieces[run.object] : j \in Nat
    BY <1>2, PiecesNat
  <2>2. ASSUME NEW j \in Number
        PROVE  temporary'.written[j] = IF j \in Pieces[run.object] /\ j < k + 1 THEN content[<<run.object, j>>] ELSE Undecided
    <3>1. CASE j = k
      BY <1>1, <1>2, <1>3, <2>1, <3>1
    <3>2. CASE j # k
      <4>1. temporary'.written[j] = temporary.written[j]
        BY <1>2, <1>3, <3>2
      <4>2. j \in Pieces[run.object] => (j < k + 1 <=> j < k)
        BY <1>1, <1>2, <2>1, <3>2
      <4>q. QED BY <1>1, <1>2, <4>1, <4>2 DEF WholeFrom
    <3>q. QED BY <3>1, <3>2
  <2>q. QED BY <2>2 DEF WholeFrom
<1>7. run' \in RunRow /\ run'.next \in Nat
  BY <1>1, <1>2, <1>3 DEF RunRow
<1>8. DownloadInv'
  BY <1>1, <1>2, <1>3, <1>6 DEF DownloadInv, Ended, WholeFrom, objectVars, In
<1>q. QED BY <1>1, <1>2, <1>3, <1>5, <1>7, <1>8, DownloadStep DEF In

\* All pieces were fetched: the file is whole.
LEMMA DataSyncedKeeps ==
  ASSUME ClientInv, DataSynced
  PROVE  ClientInv'
<1>1. /\ In("download") /\ run.next \notin Pieces[run.object] /\ StepTo("replace")
      /\ temporary' = [temporary EXCEPT !.kept = temporary.written]
      /\ UNCHANGED <<objectVars, transfer, knowledge, target, onPlatter>>
  BY DEF DataSynced
<1>2. /\ run.object \in Object /\ run.next \in Nat /\ run \in RunRow
      /\ temporary \in [written : [Number -> Maybe], kept : [Number -> Maybe]]
      /\ Ended(run.object) /\ WholeFrom(run.object, temporary.written, run.next)
  BY <1>1 DEF ClientInv, ClientTypes, RunInv, DownloadInv, In
<1>3. run'.pc = "replace" /\ run'.object = run.object /\ run'.page = run.page /\ run' \in RunRow
  BY <1>1, <1>2 DEF RunRow, StepTo
<1>4. /\ temporary' \in [written : [Number -> Maybe], kept : [Number -> Maybe]]
      /\ temporary'.written = temporary.written /\ temporary'.kept = temporary.written
  BY <1>1, <1>2
<1>5. \A k \in Pieces[run.object] : k < run.next
  BY <1>1, <1>2, PiecesNat
<1>6. IsWhole(run.object, temporary.written)
  BY <1>2, <1>5 DEF WholeFrom, IsWhole
<1>7. DownloadInv'
  BY <1>1, <1>2, <1>3, <1>4, <1>6 DEF DownloadInv, Ended, IsWhole, objectVars, In
<1>q. QED BY <1>1, <1>2, <1>3, <1>4, <1>7, DownloadStep DEF In
\* A whole file replaces the target; what the disk keeps of it is whole too.
LEMMA ReplaceKeeps ==
  ASSUME ClientInv, Replace
  PROVE  ClientInv'
<1>1. /\ In("replace") /\ StepTo("sync")
      /\ target' = temporary.written /\ onPlatter' = onPlatter \cup {temporary.kept}
      /\ UNCHANGED <<objectVars, transfer, knowledge, temporary>>
  BY DEF Replace
<1>2. /\ run.object \in Object /\ run \in RunRow /\ Ended(run.object)
      /\ IsWhole(run.object, temporary.written) /\ temporary.kept = temporary.written
  BY <1>1 DEF ClientInv, ClientTypes, RunInv, DownloadInv, In
<1>3. run'.pc = "sync" /\ run'.object = run.object /\ run'.page = run.page /\ run' \in RunRow
  BY <1>1, <1>2 DEF RunRow, StepTo
<1>4. StoreStep
  BY <1>1 DEF StoreStep
<1>5. ObjectTypes' /\ StoreInv' /\ ContentInv' /\ AstrayInv'
  BY <1>1, <1>4, StoreStepKeeps DEF ClientInv, ContentInv, AstrayInv, objectVars, transfer, knowledge
<1>6. RunInv' /\ PartsInv' /\ PageInv' /\ DownloadInv' /\ CompleteFindsAll'
  BY <1>1, <1>2, <1>3 DEF ClientInv, RunInv, PartsInv, PageInv, DownloadInv, CompleteFindsAll, In
<1>7. TargetIsWhole'
  <2> SUFFICES ASSUME NEW f \in onPlatter' \cup {target'}, f # NoFile
               PROVE  \E o \in Object : Ended(o) /\ IsWhole(o, f)
    BY <1>1 DEF TargetIsWhole, Ended, IsWhole, objectVars
  <2>1. f \in onPlatter \/ f = temporary.written
    BY <1>1, <1>2
  <2>2. CASE f \in onPlatter
    BY <2>2 DEF ClientInv, TargetIsWhole, Ended, IsWhole
  <2>3. CASE f = temporary.written
    BY <1>2, <2>3
  <2>q. QED BY <2>1, <2>2, <2>3
<1>8. ClientTypes' /\ ToldInv'
  BY <1>1, <1>3 DEF ClientInv, ClientTypes, ToldInv, Ended, objectVars, transfer, knowledge
<1>q. QED BY <1>5, <1>6, <1>7, <1>8 DEF ClientInv

\* No file was written.
LEMMA EmptyRows == Empty \in [written : [Number -> Maybe], kept : [Number -> Maybe]]
  BY DEF Empty, Holes, Maybe

\* The directory is synchronised.
LEMMA DownloadedKeeps ==
  ASSUME ClientInv, Downloaded
  PROVE  ClientInv'
<1>1. /\ onPlatter' = {target} /\ run' = Stopped /\ temporary' = Empty /\ target' = target
      /\ UNCHANGED <<objectVars, transfer, knowledge>>
  BY DEF Downloaded
<1>2. StoreStep
  BY <1>1 DEF StoreStep
<1>3. ObjectTypes' /\ StoreInv' /\ ContentInv' /\ AstrayInv' /\ ToldInv'
  BY <1>1, <1>2, StoreStepKeeps DEF ClientInv, ContentInv, AstrayInv, ToldInv, Ended, objectVars, transfer, knowledge
<1>4. run' \in RunRow /\ RunInv' /\ PartsInv' /\ PageInv' /\ DownloadInv' /\ CompleteFindsAll'
  BY <1>1, StoppedKeeps
<1>5. TargetIsWhole'
  BY <1>1 DEF ClientInv, TargetIsWhole, objectVars
<1>6. ClientTypes'
  BY <1>1, <1>4, EmptyRows DEF ClientInv, ClientTypes, transfer, knowledge
<1>q. QED BY <1>3, <1>4, <1>5, <1>6 DEF ClientInv

-----------------------------------------------------------------------------
(***************************************************************************)
(* The end of the process, and what happens outside of it.                 *)
(***************************************************************************)
\* What the threads have sent is under way with the content they read.
LEMMA GoAstrayKeeps ==
  ASSUME ClientInv, GoAstray, UNCHANGED <<source, told, stable>>
  PROVE  /\ ObjectTypes' /\ StoreInv' /\ StoreKept /\ ContentInv' /\ AstrayInv' /\ ToldInv'
         /\ run' \in RunRow /\ RunInv' /\ PartsInv' /\ PageInv' /\ DownloadInv' /\ CompleteFindsAll'
         /\ known' \in SUBSET Object => ClientTypes'
<1> DEFINE under == {k \in run.page : part[k].pc \in {"asked", "prepared"}}
           P == astray \cup {<<run.object, k, part[k].digest>> : k \in under}
           O == IF In("complete") THEN completing \cup {run.object} ELSE completing
           sent == IF In("send") THEN under ELSE {}
<1>1. /\ UNCHANGED objectVars /\ GivenUp(P, O)
      /\ part' = AllUnsent /\ run' = Stopped /\ temporary' = Empty
  BY DEF GoAstray
<1>2. O \subseteq Object
  BY DEF ClientInv, ClientTypes, RunInv, In
<1>3. \A a \in P : /\ a \in Object \X Number \X Digest /\ <<a[1], a[2]>> \in Piece
                   /\ a[1] \in stable => a[3] = source
  <2>1. \A a \in astray : /\ a \in Object \X Number \X Digest /\ <<a[1], a[2]>> \in Piece
                          /\ a[1] \in stable => a[3] = source
    BY DEF ClientInv, ClientTypes, AstrayInv
  <2>2. ASSUME NEW k \in under
        PROVE  LET a == <<run.object, k, part[k].digest>>
               IN  /\ a \in Object \X Number \X Digest /\ <<a[1], a[2]>> \in Piece
                   /\ a[1] \in stable => a[3] = source
    <3>1. In("send") /\ k \in run.page /\ k \in Number /\ part[k].pc \in {"asked", "prepared"}
      BY DEF ClientInv, ClientTypes, RunRow, RunInv, In
    <3>2. PartAt(k, {"asked", "prepared"})
      BY <3>1 DEF PartAt
    <3>3. /\ run.object \in Object /\ <<run.object, k>> \in Piece
          /\ part[k].digest \in Digest /\ (run.object \in stable => part[k].digest = source)
      BY <3>1, <3>2, PartIs
    <3> DEFINE d == part[k].digest
    <3> HIDE DEF d
    <3>4. d \in Digest /\ (run.object \in stable => d = source)
      BY <3>3 DEF d
    <3>5. LET a == <<run.object, k, d>>
          IN  /\ a \in Object \X Number \X Digest /\ <<a[1], a[2]>> \in Piece
              /\ a[1] \in stable => a[3] = source
      BY <3>1, <3>3, <3>4
    <3>q. QED BY <3>5 DEF d
  <2>q. QED BY <2>1, <2>2
<1> HIDE DEF P, O
<1>4. /\ AstrayInv' /\ completing' \in SUBSET Object
      /\ \A a \in astray' : a \in Object \X Number \X Digest /\ <<a[1], a[2]>> \in Piece
  BY <1>1, <1>2, <1>3, GivenUpCarries
<1>5. StoreStep
  BY <1>1 DEF StoreStep
<1>6. ObjectTypes' /\ StoreInv' /\ StoreKept /\ ContentInv' /\ ToldInv'
  BY <1>1, <1>5, StoreStepKeeps DEF ClientInv, ContentInv, ToldInv, Ended, objectVars
<1>7. run' \in RunRow /\ RunInv' /\ PartsInv' /\ PageInv' /\ DownloadInv' /\ CompleteFindsAll'
  BY <1>1, StoppedKeeps
<1>8. known' \in SUBSET Object => ClientTypes'
  BY <1>1, <1>4, <1>7, AllUnsentRows, EmptyRows DEF ClientInv, ClientTypes
<1>q. QED BY <1>4, <1>6, <1>7, <1>8

\* The process ends, or the machine.
LEMMA EndsKeep ==
  ASSUME ClientInv, CommandEnds \/ PowerFailure
  PROVE  ClientInv'
<1>1. GoAstray /\ UNCHANGED <<source, told, stable>>
  BY DEF CommandEnds, PowerFailure, knowledge
<1>2. known' \in SUBSET Object
  BY DEF CommandEnds, PowerFailure, knowledge, ClientInv, ClientTypes
<1>3. onPlatter' \cup {target'} \subseteq onPlatter \cup {target}
  BY DEF CommandEnds, PowerFailure
<1>4. StoreKept /\ ObjectTypes'
  BY <1>1, GoAstrayKeeps
<1>5. TargetIsWhole'
  BY <1>1, <1>3 DEF ClientInv, TargetIsWhole, GoAstray, objectVars
<1>q. QED BY <1>1, <1>2, <1>5, GoAstrayKeeps DEF ClientInv

\* The owner edits the file: nothing is claimed of the uploads that have begun.
LEMMA EditKeeps ==
  ASSUME ClientInv, NEW d \in Digest, Edit(d)
  PROVE  ClientInv'
<1>1. /\ source' = d /\ stable' = {}
      /\ UNCHANGED <<objectVars, run, transfer, known, told, localFiles>>
  BY DEF Edit
<1>2. StoreStep
  BY <1>1 DEF StoreStep
<1>3. /\ ObjectTypes' /\ StoreInv' /\ StoreKept /\ RunInv' /\ DownloadInv'
      /\ ToldInv' /\ CompleteFindsAll' /\ TargetIsWhole'
  BY <1>1, <1>2, RemoteStep
<1>4. ContentInv' /\ AstrayInv' /\ PartsInv' /\ PageInv'
  BY <1>1 DEF ClientInv, ContentInv, AstrayInv, PartsInv, PageInv, In, objectVars, transfer
<1>5. ClientTypes'
  BY <1>1 DEF ClientInv, ClientTypes, transfer, localFiles
<1>q. QED BY <1>3, <1>4, <1>5 DEF ClientInv

\* Nothing happens.
LEMMA ClientStutter ==
  ASSUME ClientInv, UNCHANGED clientVars
  PROVE  ClientInv'
<1>1. UNCHANGED <<objectVars, run, part, astray, completing, source, known, told, stable, temporary, target, onPlatter>>
  BY DEF clientVars, transfer, knowledge, localFiles
<1>2. StoreStep
  BY <1>1 DEF StoreStep
<1>3. /\ ObjectTypes' /\ StoreInv' /\ StoreKept /\ RunInv' /\ DownloadInv'
      /\ ToldInv' /\ CompleteFindsAll' /\ TargetIsWhole'
  BY <1>1, <1>2, RemoteStep DEF localFiles
<1>4. ContentInv' /\ AstrayInv' /\ PartsInv' /\ PageInv'
  BY <1>1 DEF ClientInv, ContentInv, AstrayInv, PartsInv, PageInv, In, objectVars
<1>5. ClientTypes'
  BY <1>1 DEF ClientInv, ClientTypes
<1>q. QED BY <1>3, <1>4, <1>5 DEF ClientInv

-----------------------------------------------------------------------------
(***************************************************************************)
(* The theorems.                                                           *)
(***************************************************************************)
\* A client that has done nothing.
LEMMA ClientInitOK == ClientInit => ClientInv
<1> SUFFICES ASSUME ClientInit PROVE ClientInv
  OBVIOUS
<1>1. ObjectTypes /\ StoreInv
  BY PieceIs DEF ClientInit, ObjectsInit, ObjectTypes, StoreInv, Maybe
<1>2. run = Stopped /\ temporary = Empty
  BY DEF ClientInit
<1>3. run \in RunRow /\ RunInv /\ PartsInv /\ PageInv /\ DownloadInv /\ CompleteFindsAll
  BY <1>2 DEF Stopped, Run, RunRow, RunInv, PartsInv, PageInv, DownloadInv, CompleteFindsAll, In
<1>4. ClientTypes /\ ContentInv /\ AstrayInv /\ ToldInv
  BY <1>3, AllUnsentRows, EmptyRows DEF ClientInit, ClientTypes, ContentInv, AstrayInv, ToldInv
<1>5. TargetIsWhole
  BY DEF ClientInit, TargetIsWhole
<1>q. QED BY <1>1, <1>3, <1>4, <1>5 DEF ClientInv

\* Every step of the client, its gateway, its owner and its machine keeps the invariant.
LEMMA ClientStep ==
  ASSUME ClientInv, [ClientNext]_clientVars
  PROVE  ClientInv'
<1>1. CASE Upload
  <2>1. CASE UploadCommand \/ \E o \in Object : ResumeCommand(o)
    BY <2>1, CommandsKeep
  <2>2. CASE \E o \in Object : InitAnswered(o)
    BY <2>2, InitAnsweredKeeps
  <2>3. CASE InitLost
    BY <2>3, InitLostKeeps
  <2>4. CASE Checkpoint
    BY <2>4, CheckpointKeeps
  <2>5. CASE Status
    BY <2>5, StatusKeeps
  <2>6. CASE Page
    BY <2>6, PageKeeps
  <2>7. ASSUME NEW k \in Number, Send(k) \/ Accepted(k) \/ PartRefused(k) PROVE ClientInv'
    BY <2>7, ThreadKeeps
  <2>8. ASSUME NEW k \in Number, Prepared(k) PROVE ClientInv'
    BY <2>8, PreparedKeeps
  <2>9. ASSUME NEW k \in Number, Confirmed(k) PROVE ClientInv'
    BY <2>9, ConfirmedKeeps
  <2>10. ASSUME NEW k \in Number, PartLost(k) PROVE ClientInv'
    BY <2>10, PartLostKeeps
  <2>11. CASE PageEnds
    BY <2>11, PageEndsKeeps
  <2>12. CASE Completed
    BY <2>12, CompletedKeeps
  <2>13. CASE CompleteLost
    BY <2>13, CompleteLostKeeps
  <2>q. QED BY <1>1, <2>1, <2>2, <2>3, <2>4, <2>5, <2>6, <2>7, <2>8, <2>9, <2>10, <2>11, <2>12, <2>13 DEF Upload
<1>2. CASE Download
  <2>1. ASSUME NEW o \in Object, DownloadCommand(o) PROVE ClientInv'
    BY <2>1, DownloadCommandKeeps
  <2>2. ASSUME NEW k \in Number, Fetch(k) PROVE ClientInv'
    BY <2>2, FetchKeeps
  <2>3. CASE DataSynced
    BY <2>3, DataSyncedKeeps
  <2>4. CASE Replace
    BY <2>4, ReplaceKeeps
  <2>5. CASE Downloaded
    BY <2>5, DownloadedKeeps
  <2>q. QED BY <1>2, <2>1, <2>2, <2>3, <2>4, <2>5 DEF Download
<1>3. CASE CommandEnds \/ PowerFailure
  BY <1>3, EndsKeep
<1>4. ASSUME NEW d \in Digest, Edit(d) PROVE ClientInv'
  BY <1>4, EditKeeps
<1>5. CASE (\E o \in Object : AstrayComplete(o) \/ ObjectEnds(o)) \/ \E a \in astray : AstrayPiece(a[1], a[2], a[3])
  BY <1>5, AstrayKeeps
<1>6. CASE UNCHANGED clientVars
  BY <1>6, ClientStutter
<1>q. QED BY <1>1, <1>2, <1>3, <1>4, <1>5, <1>6 DEF ClientNext

\* The inductive invariant of the client: whatever is under way to an object whose file
\* was not edited is that file, the pieces below the page are stored, and a temporary
\* file has what was fetched.
THEOREM ClientInvariant == ClientSpec => []ClientInv
<1>1. ClientInv /\ [ClientNext]_clientVars => ClientInv'
  BY ClientStep
<1>q. QED BY <1>1, ClientInitOK, PTL DEF ClientSpec

\* The user is told of published objects only, and an object that was uploaded while its
\* file was not edited is that file, whatever was repeated, resumed or carried out late.
THEOREM UploadsKeepFiles == ClientSpec => []UploadKeepsFile
<1>1. ClientInv => UploadKeepsFile
  <2> SUFFICES ASSUME ClientInv PROVE UploadKeepsFile
    OBVIOUS
  <2>1. \A o \in told : Ended(o)
    BY DEF ClientInv, ToldInv
  <2>2. ASSUME NEW o \in Object, o \in stable, state[o] = "published", NEW p \in PiecesOf(o)
        PROVE  content[p] = source
    <3>1. p \in Piece /\ p[1] = o /\ p \in stored
      BY <2>2, PieceIs DEF ClientInv, StoreInv
    <3>q. QED BY <2>2, <3>1 DEF ClientInv, StoreInv, ContentInv
  <2>q. QED BY <2>1, <2>2 DEF UploadKeepsFile, Ended
<1>q. QED BY <1>1, ClientInvariant, PTL

\* complete is only asked for when every piece is stored (client.py pages through status).
THEOREM CompletesFindAll == ClientSpec => []CompleteFindsAll
<1>1. ClientInv => CompleteFindsAll
  BY DEF ClientInv
<1>q. QED BY <1>1, ClientInvariant, PTL

\* What a download leaves under the name of its target, also after a power failure, is
\* what was there before or a whole object.
THEOREM TargetsAreWhole == ClientSpec => []TargetIsWhole
<1>1. ClientInv => TargetIsWhole
  BY DEF ClientInv
<1>q. QED BY <1>1, ClientInvariant, PTL
=============================================================================
