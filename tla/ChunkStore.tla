----------------------------- MODULE ChunkStore ------------------------------
(***************************************************************************)
(* What a storage node promises about its chunks, as the callers of its    *)
(* put and remove see it: a chunk is whole or absent, and what an answer   *)
(* has said stays true until the next request for the chunk, whatever      *)
(* process or power fails in between.                                      *)
(***************************************************************************)
CONSTANTS Chunk, Data, Absent, Unknown

VARIABLES
  store,   \* the content of each chunk
  promise  \* what the node has answered last

storeVars == <<store, promise>>

StoreInit == store = [c \in Chunk |-> Absent] /\ promise = store

\* A request begins: until it is answered nothing is promised.
Begin(c) == promise' = [promise EXCEPT ![c] = Unknown] /\ UNCHANGED store

\* Chunks without a promise may change, also back again.
Change ==
  /\ store' \in [Chunk -> Data \cup {Absent}]
  /\ \A c \in Chunk : store'[c] # store[c] => promise[c] = Unknown
  /\ UNCHANGED promise

Answer(c) == promise' = [promise EXCEPT ![c] = store[c]] /\ UNCHANGED store

StoreNext == Change \/ \E c \in Chunk : Begin(c) \/ Answer(c)

StoreSpec == StoreInit /\ [][StoreNext]_storeVars
=============================================================================
