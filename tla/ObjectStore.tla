----------------------------- MODULE ObjectStore -----------------------------
(***************************************************************************)
(* What the distributed mode promises the owner of objects, whatever       *)
(* nodes, workers and requests do meanwhile (docs/distributed.md, the      *)
(* table of states): the content of a piece is decided once, an object is  *)
(* published when all its pieces are stored, it does not change until it   *)
(* is deleted, only an unfinished one expires, and both ends are final.    *)
(***************************************************************************)
CONSTANTS
  Object,
  Pieces,    \* [Object -> the numbers of its pieces]
  Digest,    \* what a piece may contain
  Undecided  \* nothing yet

Piece == UNION {{o} \X Pieces[o] : o \in Object}

VARIABLES
  state,    \* of each object
  content,  \* of each piece
  stored    \* the pieces that were confirmed

objectVars == <<state, content, stored>>

PiecesOf(o) == {o} \X Pieces[o]

ObjectsInit ==
  /\ state = [o \in Object |-> "absent"]
  /\ content = [p \in Piece |-> Undecided]
  /\ stored = {}

Begin(o) ==
  /\ state[o] = "absent"
  /\ state' = [state EXCEPT ![o] = "staging"]
  /\ UNCHANGED <<content, stored>>

Decide(p, d) ==
  /\ state[p[1]] = "staging" /\ content[p] \in {Undecided, d}
  /\ content' = [content EXCEPT ![p] = d]
  /\ UNCHANGED <<state, stored>>

Confirm(p) ==
  /\ state[p[1]] = "staging" /\ content[p] # Undecided
  /\ stored' = stored \cup {p}
  /\ UNCHANGED <<state, content>>

Publish(o) ==
  /\ state[o] = "staging" /\ PiecesOf(o) \subseteq stored
  /\ state' = [state EXCEPT ![o] = "published"]
  /\ UNCHANGED <<content, stored>>

\* Cancelled, or deleted.
Delete(o) ==
  /\ state[o] \in {"staging", "published"}
  /\ state' = [state EXCEPT ![o] = "deleted"]
  /\ UNCHANGED <<content, stored>>

Expire(S) ==
  /\ \A o \in S : state[o] = "staging"
  /\ state' = [o \in Object |-> IF o \in S THEN "expired" ELSE state[o]]
  /\ UNCHANGED <<content, stored>>

ObjectsNext ==
  \/ \E o \in Object : Begin(o) \/ Publish(o) \/ Delete(o)
  \/ \E p \in Piece : Confirm(p) \/ \E d \in Digest : Decide(p, d)
  \/ \E S \in SUBSET Object : Expire(S)

ObjectsSpec == ObjectsInit /\ [][ObjectsNext]_objectVars
=============================================================================
