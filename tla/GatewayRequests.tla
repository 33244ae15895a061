--------------------------- MODULE GatewayRequests ---------------------------
(***************************************************************************)
(* The console client and the gateway (client/file_client.cc; network/     *)
(* and handler/ of gateway/).  A FileClient lives as long as its program   *)
(* and keeps its decoder and its pending requests when it connects again.  *)
(* BusinessProcessor finds the decoder of a connection by the address of   *)
(* its TcpConnection; nobody calls its RemoveDecoder.                      *)
(***************************************************************************)
EXTENDS Requests

VARIABLES
  session  \* TcpConnectionManager: a session has its number and its connection

gatewayVars == <<requestVars, session>>

-----------------------------------------------------------------------------
(***************************************************************************)
(* FileClient.                                                             *)
(***************************************************************************)
\* FileClient::Connect waits up to 3 s and then goes on, connected or not.
Connect(f) ==
  /\ client[f].pc = "idle"
  /\ Near({"no"}) # {}
  /\ link' = Opened(f, None)
  /\ client' = [client EXCEPT ![f] = [@ EXCEPT !.pc = "connecting", !.connection = None]]
  /\ UNCHANGED <<toServer, toClient, server, session, faults>>

ConnectEnds(f) ==
  /\ client[f].pc = "connecting"
  /\ client' = [client EXCEPT ![f].pc = "idle"]
  /\ UNCHANGED <<network, server, session, faults>>

\* SendRequestWithBinary.
SendRequest(f) == client[f].pc = "idle" /\ StartCall(f) /\ UNCHANGED session

RequestEnds(f) == (Withdraw(f, "idle") \/ Return(f, "idle")) /\ UNCHANGED session

-----------------------------------------------------------------------------
(***************************************************************************)
(* The gateway.                                                            *)
(***************************************************************************)
\* AddSession: next_id_ counts the connections that were accepted.
NextSession == Cardinality(Far({"up", "down"})) + 1

\* TcpServerWrapper::OnConnection.
Accept(l, a) ==
  /\ link[l].near \in {"up", "closing", "down"} /\ link[l].far = "no"
  /\ a \in FreeAddress
  /\ link' = [link EXCEPT ![l] = [@ EXCEPT !.far = "up", !.address = a]]
  /\ session' = session \cup {[id |-> NextSession, link |-> l]}
  /\ stale' = IF decoder[a] = None THEN stale ELSE stale \cup {l}
  /\ UNCHANGED <<toServer, toClient, client, decoder, job, done, received, submitted, faults>>

\* Mutant: RemoveSession looks for the peer.
DisconnectedPeer(l) ==
  /\ Hangup(l)
  /\ session' = {s \in session : link[s.link].client # link[l].client}
  /\ UNCHANGED <<toClient, client, server>>

\* RemoveSession looks for the session by its connection.
Disconnected(l) ==
  /\ Hangup(l)
  /\ session' = {s \in session : s.link # l}
  /\ UNCHANGED <<toClient, client, server>>

\* GetDecoder.
DecoderOf(l) == IF decoder[link[l].address] = None THEN Empty ELSE decoder[link[l].address]

OnMessage(l, n) == ServerMessage(l, n, DecoderOf(l)) /\ UNCHANGED session

\* The task handler routes the request and sends what the router returns.
ProcessTask(j) == Work(j) /\ UNCHANGED session

GatewayInit == RequestsInit /\ session = {}

GatewayNext ==
  \/ \E f \in Client : Connect(f) \/ ConnectEnds(f) \/ SendRequest(f) \/ RequestEnds(f)
  \/ \E l \in Link : \E a \in Address : Accept(l, a)
  \/ \E l \in Link : Disconnected(l)
  \/ \E l \in Link : \E n \in 1 .. Len(toServer[l]) : OnMessage(l, n)
  \/ \E j \in job : ProcessTask(j)
  \/ Loops /\ UNCHANGED session

-----------------------------------------------------------------------------
\* The manager has one session for each connection that is up, and no other.
OneSessionEach ==
  /\ {s.link : s \in session} = Far({"up"})
  /\ \A r, s \in session : r.id = s.id => r = s
=============================================================================
