------------------------------- MODULE Requests -------------------------------
(***************************************************************************)
(* What both network paths of the C++ code share: the console's FileClient *)
(* talking to the gateway (module GatewayRequests) and the gateway's       *)
(* RpcClients talking to the services (module RpcRequests).  A client is a *)
(* caller thread together with the event loop thread of its client object; *)
(* a server is its I/O threads, one decoder per connection and a pool of   *)
(* workers.  muduo and TCP are external: a connection delivers the bytes   *)
(* of each direction in order, in pieces of any size, until it breaks.     *)
(***************************************************************************)
EXTENDS Decoder, FiniteSets

CONSTANTS
  None,
  Client,     \* the threads that send requests
  Links,      \* bound: connections that are opened
  Address,    \* where the server allocates its TcpConnection objects
  MaxCalls,   \* bound: the number of requests of each client
  FaultLimit  \* bound: connections that break, servers that crash, sessions that end

VARIABLES
  link,      \* the connections, in the order in which they are opened
  toServer,  \* bytes on their way
  toClient,
  client,    \* the client object, and the caller thread in it
  decoder,   \* the server's decoders
  job,       \* requests that were submitted to the worker pool
  done,      \* how often a request was executed
  received,  \* the bytes a connection has received so far
  submitted, \* the requests it has submitted so far
  stale,     \* the connections that got a decoder which others had used
  faults

network == <<link, toServer, toClient>>
server == <<decoder, job, done, received, submitted, stale>>
requestVars == <<network, client, server, faults>>

Link == 1 .. Links

Call == UNION {{f} \X (1 .. MaxCalls[f]) : f \in Client}
Message == [kind : {"request", "response"}, client : Client, call : Nat, id : Nat]

\* None is nothing of the kind it is used for.
ASSUME RequestsAssumption ==
  /\ Links \in Nat /\ MaxCalls \in [Client -> Nat] /\ FaultLimit \in Nat
  /\ None \notin Client /\ None \notin Address /\ None \notin 1 .. Links
  /\ None \notin Message /\ None \notin Seq(Message \X (1 .. 3))

Response(m) == [m EXCEPT !.kind = "response"]

Fault == faults < FaultLimit /\ faults' = faults + 1
FaultUnless(expected) == IF expected THEN UNCHANGED faults ELSE Fault

-----------------------------------------------------------------------------
(***************************************************************************)
(* Connections.  Each side has its own view of one.                        *)
(***************************************************************************)
Unused == [client |-> None, to |-> None, near |-> "no", far |-> "no", address |-> None]
Own(f) == {l \in Link : link[l].client = f}
Near(states) == {l \in Link : link[l].near \in states}
Far(states) == {l \in Link : link[l].far \in states}

\* A TcpConnection is freed when the connection is down and no task holds it.
Allocated == {link[l].address : l \in Far({"up"}) \cup {j.link : j \in job}}

\* Addresses that no decoder belongs to do not differ: one of them is enough.
FreeAddress ==
  LET free == Address \ Allocated
      new == {a \in free : decoder[a] = None}
  IN  (free \ new) \cup (IF new = {} THEN {} ELSE {CHOOSE a \in new : TRUE})

\* A new TcpClient takes the place of the old one, whose destructor asks the loop
\* to close its connection, or gives up connecting.
Abandoned(f, l) ==
  IF link[l].client # f THEN link[l]
  ELSE [link[l] EXCEPT !.near = CASE @ = "up" -> "closing" [] @ = "opening" -> "gone" [] OTHER -> @]

Opened(f, host) ==
  LET new == CHOOSE l \in Near({"no"}) : \A k \in Near({"no"}) : l <= k
  IN  [l \in Link |-> IF l # new THEN Abandoned(f, l)
                    ELSE [Unused EXCEPT !.client = f, !.to = host, !.near = "opening"]]

\* The requests and answers of a connection that is down are lost.
SentToServer(l, bytes) == [toServer EXCEPT ![l] = IF link[l].far = "down" THEN @ ELSE @ \o bytes]
SentToClient(l, bytes) ==
  [toClient EXCEPT ![l] = IF l \in Near({"down"}) THEN @ ELSE @ \o bytes]

-----------------------------------------------------------------------------
(***************************************************************************)
(* The client object.                                                      *)
(***************************************************************************)
NewClient ==
  [pc |-> "idle", calls |-> 0, next |-> 1, connection |-> None, posted |-> <<>>,
   buffer |-> Empty, pending |-> {}, answer |-> None]

\* OnConnection, in the event loop: closing the old connection was posted before
\* connecting the new one.
ClientUp(l) ==
  LET f == link[l].client
  IN  /\ link[l].near = "opening"
      /\ Own(f) \cap Near({"closing"}) = {}
      /\ link' = [link EXCEPT ![l].near = "up"]
      /\ client' = [client EXCEPT ![f].connection = l]
      /\ UNCHANGED <<toServer, toClient, server, faults>>

ClientDown(l) ==
  /\ link[l].near \in {"up", "closing"}
  /\ FaultUnless(link[l].near = "closing" \/ link[l].far = "down")
  /\ link' = [link EXCEPT ![l].near = "down"]
  /\ toClient' = [toClient EXCEPT ![l] = Empty]
  /\ client' = [client EXCEPT ![link[l].client].connection = None]
  /\ UNCHANGED <<toServer, server>>

\* Call and SendRequest: the promise is entered, and a function that sends the
\* request is posted to the event loop.
Called(f) ==
  LET c == client[f]
      m == [kind |-> "request", client |-> f, call |-> c.calls + 1, id |-> c.next]
  IN  [client EXCEPT ![f] = [c EXCEPT !.pc = "waiting", !.calls = m.call, !.next = m.id + 1,
         !.posted = Append(@, m), !.pending = @ \cup {<<m.id, m.call>>}, !.answer = None]]

StartCall(f) ==
  /\ client[f].connection # None
  /\ client[f].calls < MaxCalls[f]
  /\ client' = Called(f)
  /\ UNCHANGED <<network, server, faults>>

\* The posted function.
Post(f) ==
  LET c == client[f]
  IN  /\ c.posted # <<>>
      /\ client' = [client EXCEPT ![f].posted = Tail(@)]
      /\ toServer' = IF c.connection = None THEN toServer
                     ELSE SentToServer(c.connection, Encode(Head(c.posted)))
      /\ UNCHANGED <<link, toClient, server, faults>>

\* Mutant: any answer resolves the promise that waits.
ResolvedAny(c, answers) ==
  IF answers = <<>> \/ c.pending = {} THEN c
  ELSE [c EXCEPT !.answer = answers[1], !.pending = {}]

\* ResolvePending, for each message that OnMessage has decoded: the promise with
\* the id of the answer gets it, once.
Resolved(c, answers) ==
  LET hit == {k \in DOMAIN answers : \E p \in c.pending : p[1] = answers[k].id}
      first == CHOOSE k \in hit : \A j \in hit : k <= j
  IN  IF hit = {} THEN c
      ELSE [c EXCEPT !.answer = answers[first],
                     !.pending = {p \in @ : \A k \in hit : p[1] # answers[k].id}]

ClientMessage(l, n) ==
  LET f == link[l].client
      fed == Feed(client[f].buffer, SubSeq(toClient[l], 1, n))
  IN  /\ link[l].near \in {"up", "closing"}
      /\ client[f].pc # "leaving"
      /\ n \in 1 .. Len(toClient[l])
      /\ toClient' = [toClient EXCEPT ![l] = SubSeq(@, n + 1, Len(@))]
      /\ client' = [client EXCEPT ![f] = [Resolved(@, fed.out) EXCEPT !.buffer = fed.buffer]]
      /\ UNCHANGED <<link, toServer, server, faults>>

\* wait_for returns: the time is up, ...
Expire(f) ==
  /\ client[f].pc = "waiting" /\ client[f].answer = None
  /\ client' = [client EXCEPT ![f].pc = "expired"]
  /\ UNCHANGED <<network, server, faults>>

\* Mutant: the promise is not taken back.
WithdrawKept(f, pc) ==
  /\ client[f].pc = "expired"
  /\ client' = [client EXCEPT ![f] = [@ EXCEPT !.pc = pc, !.answer = None]]
  /\ UNCHANGED <<network, server, faults>>

\* ... and the promise is taken back, under the mutex, whether or not the answer
\* has come meanwhile; or there is an answer.
Withdraw(f, pc) ==
  LET c == client[f]
  IN  /\ c.pc = "expired"
      /\ client' = [client EXCEPT ![f] = [c EXCEPT !.pc = pc, !.answer = None,
                      !.pending = {p \in @ : p[1] # c.next - 1}]]
      /\ UNCHANGED <<network, server, faults>>

Return(f, pc) ==
  /\ client[f].pc = "waiting" /\ client[f].answer # None
  /\ client' = [client EXCEPT ![f] = [@ EXCEPT !.pc = pc, !.answer = None]]
  /\ UNCHANGED <<network, server, faults>>

-----------------------------------------------------------------------------
(***************************************************************************)
(* The server.                                                             *)
(***************************************************************************)
\* Mutant: one task for each piece.
SubmitsFirst(l, piece, buffer) ==
  LET fed == Feed(buffer, piece)
  IN  /\ decoder' = [decoder EXCEPT ![link[l].address] = fed.buffer]
      /\ job' = job \cup {[link |-> l, request |-> fed.out[k]] : k \in DOMAIN fed.out \cap {1}}
      /\ received' = [received EXCEPT ![l] = @ \o piece]
      /\ submitted' = [submitted EXCEPT ![l] = @ \o fed.out]

\* OnMessage, in an I/O thread: the connection's decoder gets the piece, and what
\* it returns is submitted, in this order, to workers that may overtake each other.
Submits(l, piece, buffer) ==
  LET fed == Feed(buffer, piece)
  IN  /\ decoder' = [decoder EXCEPT ![link[l].address] = fed.buffer]
      /\ job' = job \cup {[link |-> l, request |-> fed.out[k]] : k \in DOMAIN fed.out}
      /\ received' = [received EXCEPT ![l] = @ \o piece]
      /\ submitted' = [submitted EXCEPT ![l] = @ \o fed.out]

ServerMessage(l, n, buffer) ==
  /\ link[l].far = "up"
  /\ n \in 1 .. Len(toServer[l])
  /\ Submits(l, SubSeq(toServer[l], 1, n), buffer)
  /\ toServer' = [toServer EXCEPT ![l] = SubSeq(@, n + 1, Len(@))]
  /\ UNCHANGED <<link, toClient, client, done, stale, faults>>

\* A worker runs the handler and sends the answer on the connection the request
\* came from, if that is still up.
Work(j) ==
  /\ j \in job
  /\ job' = job \ {j}
  /\ done' = [done EXCEPT ![<<j.request.client, j.request.call>>] = @ + 1]
  /\ toClient' = IF link[j.link].far = "up"
                 THEN SentToClient(j.link, Encode(Response(j.request))) ELSE toClient
  /\ UNCHANGED <<link, toServer, client, decoder, received, submitted, stale, faults>>

\* The connection was closed by the client and everything it sent has arrived, or
\* it breaks.
Hangup(l) ==
  /\ link[l].far = "up"
  /\ FaultUnless(link[l].near = "down" /\ toServer[l] = Empty)
  /\ link' = [link EXCEPT ![l].far = "down"]
  /\ toServer' = [toServer EXCEPT ![l] = Empty]

RequestsInit ==
  /\ link = [l \in Link |-> Unused]
  /\ toServer = [l \in Link |-> Empty] /\ toClient = [l \in Link |-> Empty]
  /\ client = [f \in Client |-> NewClient]
  /\ decoder = [a \in Address |-> None]
  /\ job = {} /\ done = [c \in Call |-> 0]
  /\ received = [l \in Link |-> Empty] /\ submitted = [l \in Link |-> <<>>]
  /\ stale = {} /\ faults = 0

\* The event loops of the clients, and the end of a wait.
Loops ==
  \/ \E l \in Link : ClientUp(l) \/ ClientDown(l)
  \/ \E l \in Link : \E n \in 1 .. Len(toClient[l]) : ClientMessage(l, n)
  \/ \E f \in Client : Post(f) \/ Expire(f)

-----------------------------------------------------------------------------
(***************************************************************************)
(* Properties.                                                             *)
(***************************************************************************)
\* An answer reaches the call that asked for it, whatever timeouts, late answers,
\* overtaking workers, new connections and partial messages there were before, as
\* long as no connection got a decoder that another one had used.
AnswersOwnCall ==
  stale = {} => \A f \in Client :
    client[f].answer # None => client[f].answer.client = f /\ client[f].answer.call = client[f].calls

\* A promise is in the pending requests exactly until it is answered or its caller
\* has given up: no late answer finds one that is gone (it was on a stack), and no
\* caller waits for one that nobody can resolve.
PromisesAlive ==
  \A f \in Client :
    /\ \A p \in client[f].pending : client[f].pc \in {"waiting", "expired"} /\ p[2] = client[f].calls
    /\ client[f].pc = "waiting" /\ client[f].answer = None => client[f].pending # {}

\* A request is executed at most once.
AtMostOnce == \A c \in DOMAIN done : done[c] <= 1

\* Whatever the pieces were: a connection has submitted every message that has
\* arrived completely, in order, and keeps the rest.
Bytes(messages) == [k \in 1 .. 3 * Len(messages) |-> <<messages[(k + 2) \div 3], ((k - 1) % 3) + 1>>]

Reassembled ==
  \A l \in Far({"up"}) \ stale :
    LET rest == IF decoder[link[l].address] = None THEN Empty ELSE decoder[link[l].address]
    IN  received[l] = Bytes(submitted[l]) \o rest /\ Len(rest) < 3

\* What arrives on a connection that stays up is executed in the end.
Behind(l) ==
  \/ toServer[l] # Empty
  \/ \E k \in DOMAIN received[l] : LET m == received[l][k][1] IN done[<<m.client, m.call>>] = 0

Served == \A l \in Link : link[l].far = "up" /\ Behind(l) ~> ~ Behind(l) \/ link[l].far = "down" \/ l \in stale
=============================================================================
