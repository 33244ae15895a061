----------------------------- MODULE RpcRequests -----------------------------
(***************************************************************************)
(* The gateway's calls to the services (gateway_main.cc, rpc/).  CallRpc   *)
(* looks an instance up in ZooKeeper, makes an RpcClient, calls once and   *)
(* destroys it again; Client is here a handler thread of the gateway.      *)
(* RpcServer makes a decoder when a connection comes up and drops it when  *)
(* it goes down.  ZooKeeper is external: an instance has an ephemeral node *)
(* until its session ends.                                                 *)
(***************************************************************************)
EXTENDS Requests

CONSTANTS
  Instances,  \* the instances of one service
  Fallback    \* the one at the default address

VARIABLES
  running,     \* the instances that listen
  registered,  \* the instances that have a node
  zk           \* the session of the gateway's ZkClient: is it connected_?

discovery == <<running, registered, zk>>
rpcVars == <<requestVars, discovery>>

-----------------------------------------------------------------------------
(***************************************************************************)
(* Service discovery.                                                      *)
(***************************************************************************)
\* An instance starts and registers, unless ZooKeeper does not answer.
Register(s) ==
  \/ registered' = registered \cup {s} /\ UNCHANGED faults
  \/ registered' = registered /\ Fault

InstanceStart(s) ==
  /\ s \notin running
  /\ running' = running \cup {s}
  /\ Register(s)
  /\ UNCHANGED <<network, client, server, zk>>

\* Its connections, decoders and tasks go with it.
InstanceCrash(s) ==
  LET lost == {l \in Far({"no", "up"}) \cap Near({"up", "closing", "down"}) : link[l].to = s}
  IN  /\ s \in running
      /\ Fault
      /\ running' = running \ {s}
      /\ link' = [l \in Link |-> IF l \in lost THEN [link[l] EXCEPT !.far = "down"] ELSE link[l]]
      /\ toServer' = [l \in Link |-> IF l \in lost THEN Empty ELSE toServer[l]]
      /\ decoder' = [a \in Address |-> IF \E l \in lost : link[l].address = a THEN None ELSE decoder[a]]
      /\ job' = {j \in job : link[j.link].to # s}
      /\ UNCHANGED <<toClient, client, done, received, submitted, stale, registered, zk>>

\* An ephemeral node disappears; a session that expires while its instance runs
\* is not replaced.
SessionEnds(s) ==
  /\ s \in registered
  /\ FaultUnless(s \notin running)
  /\ registered' = registered \ {s}
  /\ UNCHANGED <<network, client, server, running, zk>>

\* WatcherCallback of the gateway's ZkClient, which may come after main has gone on
\* with the default addresses; an expired session is not replaced.
GatewayConnects ==
  /\ zk = "connecting"
  /\ zk' = "connected"
  /\ UNCHANGED <<network, client, server, running, registered, faults>>

GatewayExpires ==
  /\ zk = "connected" /\ Fault
  /\ zk' = "expired"
  /\ UNCHANGED <<network, client, server, running, registered>>

\* Discover.
Nodes == IF zk = "connected" THEN registered ELSE {}

\* ServiceDiscovery: the first of the nodes, in no particular order, or the
\* default address when there is none or ZooKeeper does not answer.
Discovered(s) ==
  \/ s \in Nodes /\ UNCHANGED faults
  \/ s = Fallback /\ FaultUnless(Nodes = {})

-----------------------------------------------------------------------------
(***************************************************************************)
(* CallRpc.                                                                *)
(***************************************************************************)
\* An RpcClient that was just made, by a handler that has sent so many requests.
Fresh(f, pc) == [NewClient EXCEPT !.pc = pc, !.calls = client[f].calls]

CallRpc(f) ==
  /\ client[f].pc = "idle" /\ client[f].calls < MaxCalls[f]
  /\ Near({"no"}) # {}
  /\ \E s \in Instances : Discovered(s) /\ link' = Opened(f, s)
  /\ client' = [client EXCEPT ![f] = Fresh(f, "connecting")]
  /\ UNCHANGED <<toServer, toClient, server, discovery>>

\* RpcClient::Connect has seen the connection and Call finds it.
CallStarts(f) == client[f].pc = "connecting" /\ StartCall(f) /\ UNCHANGED discovery

\* Connect has waited for 3 s, or the connection is gone before Call looks for it.
CallFails(f) ==
  /\ client[f].pc = "connecting"
  /\ client' = [client EXCEPT ![f].pc = "returned"]
  /\ UNCHANGED <<network, server, discovery, faults>>

CallEnds(f) == (Withdraw(f, "returned") \/ Return(f, "returned")) /\ UNCHANGED discovery

\* ~RpcClient destroys pending_, decoder_ and connection_, then tcp_client_, which
\* asks the loop to close the connection, and then waits for the loop to end.  What
\* a callback does with the destroyed members is undefined and left out here.
Destroy(f) ==
  /\ client[f].pc = "returned"
  /\ link' = [l \in Link |-> Abandoned(f, l)]
  /\ client' = [client EXCEPT ![f] = Fresh(f, "leaving")]
  /\ UNCHANGED <<toServer, toClient, server, discovery, faults>>

Destroyed(f) ==
  /\ client[f].pc = "leaving"
  /\ Own(f) \cap Near({"closing"}) = {}
  /\ client' = [client EXCEPT ![f].pc = "idle"]
  /\ UNCHANGED <<network, server, discovery, faults>>

-----------------------------------------------------------------------------
(***************************************************************************)
(* RpcServer.                                                              *)
(***************************************************************************)
\* Only a running instance takes connections.
RpcAccept(l, a) ==
  /\ link[l].near \in {"up", "closing", "down"} /\ link[l].far = "no"
  /\ link[l].to \in running
  /\ a \in FreeAddress
  /\ link' = [link EXCEPT ![l] = [@ EXCEPT !.far = "up", !.address = a]]
  /\ decoder' = [decoder EXCEPT ![a] = Empty]
  /\ UNCHANGED <<toServer, toClient, client, job, done, received, submitted, stale, discovery, faults>>

RpcDisconnected(l) ==
  /\ Hangup(l)
  /\ decoder' = [decoder EXCEPT ![link[l].address] = None]
  /\ UNCHANGED <<toClient, client, job, done, received, submitted, stale, discovery>>

\* OnMessage: without a decoder the bytes are left where they are.
RpcOnMessage(l, n) ==
  /\ link[l].far = "up"
  /\ decoder[link[l].address] # None
  /\ ServerMessage(l, n, decoder[link[l].address])
  /\ UNCHANGED discovery

RpcInit ==
  /\ RequestsInit
  /\ running \in SUBSET Instances /\ registered = running /\ zk = "connecting"

\* A worker finds the method and runs it.
RunMethod(j) == Work(j) /\ UNCHANGED discovery

\* A connection comes up when somebody listens at the address.
RpcLoops ==
  /\ Loops
  /\ \A l \in Link : link[l].near = "opening" /\ link'[l].near = "up" => link[l].to \in running
  /\ UNCHANGED discovery

RpcNext ==
  \/ \E s \in Instances : InstanceStart(s) \/ InstanceCrash(s) \/ SessionEnds(s)
  \/ GatewayConnects \/ GatewayExpires
  \/ \E f \in Client : CallRpc(f) \/ CallStarts(f) \/ CallFails(f) \/ CallEnds(f)
  \/ \E f \in Client : Destroy(f) \/ Destroyed(f)
  \/ \E l \in Link : \E a \in Address : RpcAccept(l, a)
  \/ \E l \in Link : RpcDisconnected(l)
  \/ \E l \in Link : \E n \in 1 .. Len(toServer[l]) : RpcOnMessage(l, n)
  \/ \E j \in job : RunMethod(j)
  \/ RpcLoops
=============================================================================
