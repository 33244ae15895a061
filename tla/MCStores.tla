------------------------------ MODULE MCStores -------------------------------
(***************************************************************************)
(* Instances of UserAuth, StorageNode and DistributedClient for TLC: what  *)
(* is answered is kept.  A run covers the table user, the directory of a   *)
(* storage node, and the objects of a user; which of them is chosen at the *)
(* start.                                                                  *)
(***************************************************************************)
EXTENDS UserAuth, StorageNode, DistributedClient, TLC

VARIABLE place   \* "table", "directory" or "objects"; never changes

storesVars == <<vars, nodeVars, clientVars, place>>

ThreePieces == [o \in Object |-> 0 .. 2]

InitStores ==
  /\ Init /\ NodeInit /\ ClientInit
  /\ place \in {"table", "directory", "objects"}
  /\ place # "objects" => source = CHOOSE d \in Digest : TRUE

NextStores ==
  /\ \/ place = "table" /\ Next /\ UNCHANGED <<nodeVars, clientVars>>
     \/ place = "directory" /\ NodeNext /\ UNCHANGED <<vars, clientVars>>
     \/ place = "objects" /\ ClientNext /\ UNCHANGED <<vars, nodeVars>>
  /\ UNCHANGED place

SpecStores == InitStores /\ [][NextStores]_storesVars

Symmetric == Permutations(Client) \cup Permutations(Username) \cup Permutations(Password)
=============================================================================
