--------------------------- MODULE UserAuth_proofs ---------------------------
(***************************************************************************)
(* Proofs about UserAuth, for any number of users, clients, milliseconds   *)
(* and drawn numbers: tokens belong to their users while no two workers    *)
(* race in the generator, and accounts are kept in any case.               *)
(***************************************************************************)
EXTENDS UserAuth, TLAPS

\* A login was let in by the password of the row, which no statement changes.
LoginsKnown ==
  \A c \in Client :
    /\ call[c].pc # "idle" => call[c].name \in Username /\ call[c].password \in Password
    /\ call[c].pc # "idle" /\ call[c].op = "login" => user[call[c].name].password = call[c].password
    /\ call[c].pc \in {"draw", "store"} => call[c].token # None

\* A session has a name exactly when it has a token, and a password then.
SessionsWhole ==
  \A c \in Client :
    /\ session[c].name \in Username <=> session[c].token # None
    /\ session[c].name \in Username => session[c].password \in Password

\* One worker draws at a time, and gets the number after all those drawn before.
Drawn ==
  /\ \A c \in Client : call[c].pc = "draw" => call[c].token[2] = rng
  /\ \A c, d \in Client : call[c].pc = "draw" /\ call[d].pc = "draw" => c = d
  /\ \A c \in Client : call[c].pc = "store" => call[c].token[2] < rng
  /\ \A c \in Client : session[c].token # None => session[c].token[2] < rng
  /\ \A u \in Username : user[u].token # None => user[u].token[2] < rng

\* A token that is not stored yet is nobody else's.
Fresh ==
  \A c \in Client : call[c].pc = "store" =>
    /\ \A u \in Username : user[u].token # call[c].token
    /\ \A d \in Client : session[d].token # call[c].token
    /\ \A d \in Client : call[d].pc = "store" /\ call[d].token = call[c].token => d = c

\* A token in the table and in a session is of the same user.
Owned ==
  \A c \in Client, u \in Username :
    session[c].token # None /\ user[u].token = session[c].token => session[c].name = u

AuthInv ==
  /\ TypeOK /\ LoginsKnown /\ SessionsWhole /\ AccountKept
  /\ ~ raced => Drawn /\ Fresh /\ Owned

USE AuthAssumption

\* At first there is no account, no token and no request.
LEMMA InitAuth == Init => AuthInv
<1> SUFFICES ASSUME Init
             PROVE  AuthInv
  OBVIOUS
<1>1. TypeOK
  BY DEF Init, TypeOK, TokenOrNone, Row, Idle, Job, NoSession
<1>2. LoginsKnown /\ SessionsWhole /\ AccountKept
  BY DEF Init, Row, Idle, Job, NoSession, LoginsKnown, SessionsWhole, AccountKept
<1>3. Drawn
  BY DEF Init, Row, Idle, Job, NoSession, Drawn
<1>4. Fresh /\ Owned
  BY DEF Init, Row, Idle, Job, NoSession, Fresh, Owned
<1>q. QED BY <1>1, <1>2, <1>3, <1>4 DEF AuthInv

\* Register and Login leave the tables alone; a login has seen the password of the row.
LEMMA Begins ==
  ASSUME AuthInv, NEW c \in Client, NEW u \in Username, NEW pw \in Password,
         Register(c, u, pw) \/ Login(c, u, pw)
  PROVE  AuthInv'
<1>1. PICK op \in {"register", "login"} :
        /\ call' = [call EXCEPT ![c] = Job("start", op, u, pw, None)]
        /\ op = "login" => user[u].password = pw
  BY DEF Register, Login, MayLogin
<1>2. UNCHANGED <<user, rng, raced, clock, session>>
  BY DEF Register, Login
<1>3. TypeOK'
  BY <1>1, <1>2 DEF AuthInv, TypeOK, TokenOrNone, Job
<1>4. LoginsKnown'
  BY <1>1, <1>2 DEF AuthInv, TypeOK, LoginsKnown, Job
<1>5. SessionsWhole' /\ AccountKept'
  BY <1>2 DEF AuthInv, SessionsWhole, AccountKept
<1>6. ASSUME ~ raced
      PROVE  Drawn' /\ Fresh' /\ Owned'
  BY <1>1, <1>2, <1>6 DEF AuthInv, TypeOK, Drawn, Fresh, Owned, Job
<1>q. QED BY <1>2, <1>3, <1>4, <1>5, <1>6 DEF AuthInv

\* GenerateToken reads the generator: alone in it, or it is raced.
LEMMA DrawBegins == ASSUME AuthInv, NEW c \in Client, DrawBegin(c) PROVE AuthInv'
<1>1. /\ call[c].pc = "start" /\ call' = [call EXCEPT ![c] = Job("draw", @.op, @.name, @.password, <<clock, rng>>)]
      /\ UNCHANGED <<user, rng, clock, session>>
      /\ raced' = (raced \/ \E d \in Client : call[d].pc = "draw")
  BY DEF DrawBegin
<1>2. <<clock, rng>> \in Nat \X Nat /\ <<clock, rng>> # None
  BY DEF AuthInv, TypeOK
<1>3. TypeOK'
  BY <1>1, <1>2 DEF AuthInv, TypeOK, TokenOrNone, Job
<1>4. LoginsKnown'
  BY <1>1, <1>2 DEF AuthInv, TypeOK, LoginsKnown, Job
<1>5. SessionsWhole' /\ AccountKept'
  BY <1>1 DEF AuthInv, SessionsWhole, AccountKept
<1>6. ASSUME ~ raced'
      PROVE  Drawn' /\ Fresh' /\ Owned'
  BY <1>1, <1>2, <1>6 DEF AuthInv, TypeOK, Drawn, Fresh, Owned, Job
<1>q. QED BY <1>3, <1>4, <1>5, <1>6 DEF AuthInv

\* GenerateToken stores the next state: the number drawn is new, the others' are older.
LEMMA DrawEnds == ASSUME AuthInv, NEW c \in Client, DrawEnd(c) PROVE AuthInv'
<1>1. /\ call[c].pc = "draw" /\ rng' = call[c].token[2] + 1
      /\ call' = [call EXCEPT ![c] = Job("store", @.op, @.name, @.password, @.token)]
      /\ UNCHANGED <<user, raced, clock, session>>
  BY DEF DrawEnd, NextState
<1>2. call[c].token \in Nat \X Nat /\ call[c].token # None
  BY <1>1 DEF AuthInv, TypeOK, TokenOrNone, LoginsKnown
<1>3. TypeOK'
  BY <1>1, <1>2 DEF AuthInv, TypeOK, TokenOrNone, Job
<1>4. LoginsKnown'
  BY <1>1, <1>2 DEF AuthInv, TypeOK, LoginsKnown, Job
<1>5. SessionsWhole' /\ AccountKept'
  BY <1>1 DEF AuthInv, SessionsWhole, AccountKept
<1>6. ASSUME ~ raced
      PROVE  Drawn' /\ Fresh' /\ Owned'
  <2>1. rng' = rng + 1 /\ rng \in Nat /\ call[c].token[2] = rng
    BY <1>1, <1>6 DEF AuthInv, TypeOK, Drawn
  <2>2. \A d \in Client : session[d].token # call[c].token
    BY <1>2, <1>6, <2>1 DEF AuthInv, TypeOK, Drawn
  <2>3. \A u \in Username : user[u].token # call[c].token
    BY <1>2, <1>6, <2>1 DEF AuthInv, TypeOK, Drawn
  <2>4. \A d \in Client \ {c} : call[d].pc = "store" => call[d].token # call[c].token
    BY <1>2, <1>6, <2>1 DEF AuthInv, TypeOK, Drawn
  <2>5. \A t \in Nat \X Nat : t[2] < rng => t[2] < rng + 1
    BY <2>1
  <2>6. Drawn'
    BY <1>1, <1>2, <1>6, <2>1, <2>5 DEF AuthInv, TypeOK, TokenOrNone, LoginsKnown, Drawn, Job
  <2>7. Fresh'
    BY <1>1, <1>6, <2>2, <2>3, <2>4 DEF AuthInv, TypeOK, Fresh, Job
  <2>8. Owned'
    BY <1>1, <1>6 DEF AuthInv, Owned
  <2>q. QED BY <2>6, <2>7, <2>8
<1>q. QED BY <1>1, <1>3, <1>4, <1>5, <1>6 DEF AuthInv

\* UserDAO::Insert or UserDAO::UpdateToken, with the answer or without: the token is
\* new, and the password of a known user stays.
LEMMA Stores ==
  ASSUME AuthInv, NEW c \in Client, call[c].pc = "store",
         call[c].op # "login" => ~ Known(call[c].name),
         user' = [user EXCEPT ![call[c].name] = Row(call[c].password, call[c].token)],
         call' = [call EXCEPT ![c] = Idle],
         \/ session' = session
         \/ session' = [session EXCEPT ![c] = [name |-> call[c].name, password |-> call[c].password,
                                              token |-> call[c].token]],
         UNCHANGED <<rng, raced, clock>>
  PROVE  AuthInv'
<1>1. call[c].name \in Username /\ call[c].password \in Password /\ call[c].token \in Nat \X Nat
  BY DEF AuthInv, TypeOK, TokenOrNone, LoginsKnown
<1>2. TypeOK'
  BY <1>1 DEF AuthInv, TypeOK, TokenOrNone, Row, Idle, Job
<1>3. \A u \in Username : user[u].password # None => user'[u].password = user[u].password
  BY <1>1 DEF AuthInv, TypeOK, LoginsKnown, Known, Row
<1>4. LoginsKnown'
  BY <1>1, <1>3 DEF AuthInv, TypeOK, LoginsKnown, Idle, Job
<1>5. SessionsWhole'
  BY <1>1 DEF AuthInv, TypeOK, SessionsWhole
<1>6. AccountKept'
  <2>1. \A d \in Client : session[d].name # None => session[d].name \in Username /\ session[d].password \in Password
    BY DEF AuthInv, TypeOK, SessionsWhole
  <2>2. \A d \in Client : session[d].name # None => user[session[d].name].password = session[d].password
    BY DEF AuthInv, AccountKept
  <2>q. QED BY <1>1, <1>3, <2>1, <2>2 DEF AuthInv, TypeOK, AccountKept, Row
<1>7. ASSUME ~ raced
      PROVE  Drawn' /\ Fresh' /\ Owned'
  <2>1. Drawn'
    <3>1. call[c].token[2] < rng
      BY <1>7 DEF AuthInv, Drawn
    <3>2. \A d \in Client : call'[d] = call[d] \/ call'[d].pc = "idle"
      BY DEF AuthInv, TypeOK, Idle, Job
    <3>3. \A d \in Client : session'[d] = session[d] \/ session'[d].token = call[c].token
      BY DEF AuthInv, TypeOK
    <3>4. \A u \in Username : user'[u] = user[u] \/ user'[u].token = call[c].token
      BY DEF AuthInv, TypeOK, Row
    <3>q. QED BY <1>7, <3>1, <3>2, <3>3, <3>4 DEF AuthInv, Drawn
  <2>2. Fresh'
    BY <1>1, <1>7 DEF AuthInv, TypeOK, Fresh, Row, Idle, Job
  <2>3. Owned'
    BY <1>1, <1>7 DEF AuthInv, TypeOK, Fresh, Owned, Row
  <2>q. QED BY <2>1, <2>2, <2>3
<1>q. QED BY <1>2, <1>4, <1>5, <1>6, <1>7 DEF AuthInv

\* A request that is refused or fails (Register and Login return "") changes no row.
LEMMA Ends ==
  ASSUME AuthInv, NEW c \in Client, Refused(c), UNCHANGED <<user, rng, raced, session>>, clock' \in Nat
  PROVE  AuthInv'
  BY DEF Refused, AuthInv, TypeOK, TokenOrNone, Idle, Job, LoginsKnown, SessionsWhole, AccountKept,
         Drawn, Fresh, Owned

\* Every step, one group of actions at a time; all that store go through Stores.
LEMMA StepAuth == AuthInv /\ [Next]_vars => AuthInv'
<1> SUFFICES ASSUME AuthInv, [Next]_vars
             PROVE  AuthInv'
  OBVIOUS
<1>1. CASE UNCHANGED <<user, rng, raced, call, session>> /\ clock' \in Nat
  BY <1>1 DEF AuthInv, TypeOK, LoginsKnown, SessionsWhole, AccountKept, Drawn, Fresh, Owned
<1>2. ASSUME NEW c \in Client, Insert(c) \/ UpdateToken(c) \/ LostAnswer(c) \/ Fail(c)
      PROVE  AuthInv'
  <2>1. CASE Refused(c) /\ UNCHANGED <<user, rng, raced, clock, session>>
    BY <2>1, Ends DEF AuthInv, TypeOK
  <2>2. CASE ~ (Refused(c) /\ UNCHANGED <<user, rng, raced, clock, session>>)
    <3>1. call[c].pc = "store" /\ (call[c].op # "login" => ~ Known(call[c].name))
      BY <1>2, <2>2 DEF Insert, UpdateToken, LostAnswer, Fail, InsertRefused
    <3>2. user' = [user EXCEPT ![call[c].name] = Row(call[c].password, call[c].token)]
      <4>1. call[c].op = "login" => user[call[c].name].password = call[c].password
        BY <3>1 DEF AuthInv, LoginsKnown
      <4>q. QED BY <1>2, <2>2, <3>1, <4>1 DEF Insert, UpdateToken, LostAnswer, Fail
    <3>3. /\ call' = [call EXCEPT ![c] = Idle]
          /\ \/ session' = session
             \/ session' = [session EXCEPT ![c] = [name |-> call[c].name, password |-> call[c].password,
                                                  token |-> call[c].token]]
          /\ UNCHANGED <<rng, raced, clock>>
      BY <1>2, <2>2 DEF Insert, UpdateToken, LostAnswer, Fail, Refused, Answered
    <3>q. QED BY <3>1, <3>2, <3>3, Stores
  <2>q. QED BY <2>1, <2>2
<1>3. CASE Tick \/ UNCHANGED vars
  BY <1>1, <1>3 DEF Tick, vars, AuthInv, TypeOK
<1>q. QED BY <1>2, <1>3, Begins, DrawBegins, DrawEnds DEF Next

\* UserService and the table user: types, the numbers in order, the accounts, and
\* who owns which token, in every reachable state.
THEOREM AuthInvariant == Spec => []AuthInv
  BY InitAuth, StepAuth, PTL DEF Spec

\* Who was told that Register or Login succeeded (user_service.cc:38-92) owns the
\* account with that password, for any number of users and clients.
THEOREM AccountsKept == Spec => []AccountKept
<1>1. AuthInv => AccountKept
  BY DEF AuthInv
<1>q. QED BY <1>1, AuthInvariant, PTL

\* VerifyToken (user_service.cc:95-106) takes a token for nobody but the user it was
\* given to, while no two workers have raced in GenerateToken.
THEOREM TokensOfOwners == Spec => []TokenOfOwner
<1>1. AuthInv => TokenOfOwner
  BY DEF AuthInv, TypeOK, Owned, TokenOfOwner, Owners
<1>q. QED BY <1>1, AuthInvariant, PTL
=============================================================================
