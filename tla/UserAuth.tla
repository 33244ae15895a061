------------------------------- MODULE UserAuth -------------------------------
(***************************************************************************)
(* Accounts and tokens of the C++ modes: UserService (services/            *)
(* user_service.cc) over the table user (database/user_dao.cc), called in  *)
(* parallel by the workers of services/user_service_server.cc or           *)
(* gateway/bin/server_main.cc.                                             *)
(*                                                                         *)
(* A token is the time in milliseconds and a random number.  The generator *)
(* is a static object that all workers use without a lock; its numbers are *)
(* named by the states it goes through, which do not repeat within the     *)
(* bounds.  Two workers in it at the same time race: both may draw the     *)
(* same number, and the history variable `raced` remembers that it         *)
(* happened.  A client makes one request at a time.                        *)
(***************************************************************************)
EXTENDS Integers

CONSTANTS
  Username, Password,
  Client,
  LastTime,  \* bound: the last millisecond
  MaxDraws,  \* bound: the last state of the generator
  None

ASSUME AuthAssumption ==
  /\ LastTime \in Nat /\ MaxDraws \in Nat
  /\ None \notin Username /\ None \notin Password /\ None \notin Nat \X Nat

VARIABLES
  user,     \* table user: password (None: no such row) and token
  rng,      \* the state of the generator
  raced,    \* history: two workers were in the generator at the same time
  clock,    \* milliseconds
  call,     \* the request of each client: register or login
  session   \* what a client knows: the name and password it used, its token

vars == <<user, rng, raced, clock, call, session>>

Job(p, op, u, pw, tok) == [pc |-> p, op |-> op, name |-> u, password |-> pw, token |-> tok]
Idle == Job("idle", "none", None, None, None)
Row(pw, tok) == [password |-> pw, token |-> tok]
NoSession == [name |-> None, password |-> None, token |-> None]

\* FindByUsername.
Known(u) == user[u].password # None

\* FindByToken, as VerifyToken uses it.
Owners(tok) == {u \in Username : Known(u) /\ user[u].token = tok}

\* A request is refused.
Refused(c) == call' = [call EXCEPT ![c] = Idle]

\* The client gets its token.
Answered(c) ==
  /\ call' = [call EXCEPT ![c] = Idle]
  /\ session' = [session EXCEPT ![c] = [name |-> call[c].name, password |-> call[c].password,
                                        token |-> call[c].token]]

-----------------------------------------------------------------------------
\* Register: the name is looked up before anything else is done.  A lookup that
\* fails looks like an unknown name, so that a known one may get past it too.
Register(c, u, pw) ==
  /\ call[c].pc = "idle"
  /\ \E found \in {Known(u), FALSE} : ~ found
  /\ call' = [call EXCEPT ![c] = Job("start", "register", u, pw, None)]
  /\ UNCHANGED <<user, rng, raced, clock, session>>

\* Login with the right password.
MayLogin(u, pw) == Known(u) /\ user[u].password = pw

Login(c, u, pw) ==
  /\ call[c].pc = "idle"
  /\ MayLogin(u, pw)
  /\ call' = [call EXCEPT ![c] = Job("start", "login", u, pw, None)]
  /\ UNCHANGED <<user, rng, raced, clock, session>>

\* GenerateToken: read the clock and the state of the generator, ...
DrawBegin(c) ==
  /\ call[c].pc = "start" /\ rng < MaxDraws
  /\ raced' = (raced \/ \E d \in Client : call[d].pc = "draw")
  /\ call' = [call EXCEPT ![c] = Job("draw", @.op, @.name, @.password, <<clock, rng>>)]
  /\ UNCHANGED <<user, rng, clock, session>>

\* ... and store the next state.
\* Mutant: the state is not stored.
NextStateSame(c) == rng

NextState(c) == call[c].token[2] + 1

DrawEnd(c) ==
  /\ call[c].pc = "draw"
  /\ rng' = NextState(c)
  /\ call' = [call EXCEPT ![c] = Job("store", @.op, @.name, @.password, @.token)]
  /\ UNCHANGED <<user, raced, clock, session>>

\* UserDAO::Insert; the unique key uk_username refuses a second row.
\* Mutant: there is no such key.
InsertRefusedNever(u) == FALSE

InsertRefused(u) == Known(u)

Insert(c) ==
  LET u == call[c].name
  IN  /\ call[c].pc = "store" /\ call[c].op = "register"
      /\ \/ /\ InsertRefused(u)
            /\ Refused(c)
            /\ UNCHANGED <<user, session>>
         \/ /\ ~ InsertRefused(u)
            /\ user' = [user EXCEPT ![u] = Row(call[c].password, call[c].token)]
            /\ Answered(c)
      /\ UNCHANGED <<rng, raced, clock>>

\* UserDAO::UpdateToken.
UpdateToken(c) ==
  LET u == call[c].name
  IN  /\ call[c].pc = "store" /\ call[c].op = "login"
      /\ user' = [user EXCEPT ![u] = Row(@.password, call[c].token)]
      /\ Answered(c)
      /\ UNCHANGED <<rng, raced, clock>>

\* A database call fails, or the answer of a call that has not begun to store is lost.
Fail(c) ==
  /\ call[c].pc \in {"start", "store"}
  /\ Refused(c)
  /\ UNCHANGED <<user, rng, raced, clock, session>>

\* The token is stored, the client does not learn of it (RPC timeout).
LostAnswer(c) ==
  LET u == call[c].name
  IN  /\ call[c].pc = "store"
      /\ IF call[c].op = "login" THEN user' = [user EXCEPT ![u] = Row(@.password, call[c].token)]
         ELSE ~ InsertRefused(u) /\ user' = [user EXCEPT ![u] = Row(call[c].password, call[c].token)]
      /\ Refused(c)
      /\ UNCHANGED <<rng, raced, clock, session>>

Tick ==
  /\ clock < LastTime
  /\ clock' = clock + 1
  /\ UNCHANGED <<user, rng, raced, call, session>>

-----------------------------------------------------------------------------
Init ==
  /\ user = [u \in Username |-> Row(None, None)]
  /\ rng = 0
  /\ raced = FALSE
  /\ clock = 0
  /\ call = [c \in Client |-> Idle]
  /\ session = [c \in Client |-> NoSession]

Next ==
  \/ Tick
  \/ \E c \in Client :
       \/ \E u \in Username, pw \in Password : Register(c, u, pw) \/ Login(c, u, pw)
       \/ DrawBegin(c) \/ DrawEnd(c)
       \/ Insert(c) \/ UpdateToken(c)
       \/ Fail(c) \/ LostAnswer(c)

Spec == Init /\ [][Next]_vars

-----------------------------------------------------------------------------
TokenOrNone == (Nat \X Nat) \cup {None}

TypeOK ==
  /\ user \in [Username -> [password : Password \cup {None}, token : TokenOrNone]]
  /\ rng \in Nat /\ raced \in BOOLEAN /\ clock \in Nat
  /\ call \in [Client -> [pc : {"idle", "start", "draw", "store"}, op : {"none", "register", "login"},
                          name : Username \cup {None}, password : Password \cup {None},
                          token : TokenOrNone]]
  /\ session \in [Client -> [name : Username \cup {None}, password : Password \cup {None},
                             token : TokenOrNone]]

\* A token that a client was given is never taken for another user's: VerifyToken
\* finds the user who registered or logged in, or nobody; unless two workers have
\* raced in GenerateToken.
TokenOfOwner ==
  ~ raced =>
    \A c \in Client : session[c].token # None => Owners(session[c].token) \subseteq {session[c].name}

\* Who was told that a registration or login succeeded owns the account with this
\* password, whichever registrations of the same name overlapped.
AccountKept ==
  \A c \in Client : session[c].name # None => user[session[c].name].password = session[c].password
=============================================================================
