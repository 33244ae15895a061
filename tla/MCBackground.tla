----------------------------- MODULE MCBackground -----------------------------
(***************************************************************************)
(* Liveness of the background work: a repair is under way, and its object  *)
(* is deleted, or stays published.                                         *)
(***************************************************************************)
EXTENDS MCCluster

VARIABLE scenario   \* what happens to the object; never changes

backgroundVars == <<allVars, scenario>>

\* Without faults when the object is deleted.
InitBackground ==
  \/ scenario = "deleted" /\ InitRepairing(FaultLimit)
  \/ scenario = "published" /\ InitRepairing(1)

NextBackground ==
  /\ \/ scenario = "deleted" /\ NextCleanup
     \/ scenario = "published" /\ NextRepair
  /\ UNCHANGED scenario

\* The heartbeats of a node that is late get through in the end.
HeartbeatsFair ==
  \A n \in Ageing :
    WF_allVars(scenario = "published" /\ \E i \in Processes[n] : i = serving[n] /\ NodeHeartbeat(n, i))

SpecBackground ==
  InitBackground /\ [][NextBackground]_backgroundVars /\ ThreadsFair /\ HeartbeatsFair
=============================================================================
