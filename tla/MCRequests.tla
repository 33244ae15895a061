------------------------------ MODULE MCRequests ------------------------------
(***************************************************************************)
(* Instances of both network paths for TLC.  A run covers both: `path` is  *)
(* chosen at the start and never changes.                                  *)
(***************************************************************************)
EXTENDS GatewayRequests, RpcRequests, TLC

CONSTANTS c1, c2

SecondCallsOnce == [f \in Client |-> IF f = c2 THEN 1 ELSE 2]

VARIABLE path

mcVars == <<requestVars, session, discovery, path>>

Init ==
  /\ GatewayInit /\ RpcInit
  /\ path \in {"gateway", "rpc"}
  /\ path = "gateway" => running = Instances

OnGateway == path = "gateway" /\ GatewayNext /\ UNCHANGED <<discovery, path>>

\* One handler thread calls services.
OnRpc ==
  /\ path = "rpc" /\ RpcNext
  /\ client'[c2] = client[c2]
  /\ UNCHANGED <<session, path>>

\* I/O threads read all that has arrived, and workers run.  The steps are named by
\* what they do to the bytes and to the tasks; only OnMessage and Work do that.
Reads(l) ==
  /\ link[l].far = "up" /\ toServer[l] # Empty
  /\ toServer' = [toServer EXCEPT ![l] = Empty] /\ link' = link

Works == \E j \in job : job' = job \ {j}

Spec == Init /\ [][OnGateway \/ OnRpc]_mcVars /\ (\A l \in Link : WF_toServer(Reads(l))) /\ WF_job(Works)

SessionPerConnection == path = "gateway" => OneSessionEach
=============================================================================
