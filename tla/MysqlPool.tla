------------------------------- MODULE MysqlPool -------------------------------
(***************************************************************************)
(* The connection pool database/mysql_pool.cc: at most Size connections,   *)
(* shared by the worker threads of one process.  GetConnection holds the   *)
(* mutex from its wait to its return, CreateConnection and mysql_ping      *)
(* included, so it is one step; a thread that has to wait joins the        *)
(* condition variable and repeats the test when notify_one picks it.       *)
(*                                                                         *)
(* A caller may ask for another connection while it keeps the first:       *)
(* FileDAO::ConfirmUploadChunk calls FindById, which has its own.  Nested  *)
(* connections are dropped in the opposite order.                          *)
(*                                                                         *)
(* The database goes down and comes back.  While it is up, mysql_ping      *)
(* succeeds (MYSQL_OPT_RECONNECT is set); while it is down, mysql_ping and *)
(* mysql_real_connect fail.                                                *)
(***************************************************************************)
EXTENDS Integers, FiniteSets

CONSTANTS
  Thread,
  Size,     \* pool_size_
  Nested,   \* how many connections a thread may hold at a time
  Outages   \* bound: how often the database goes down

ASSUME PoolAssumption ==
  Size \in Nat \ {0} /\ Nested \in Nat \ {0} /\ Outages \in Nat /\ IsFiniteSet(Thread)

VARIABLES
  idle,           \* how many connections pool_ holds
  total_created,
  waiting,        \* threads blocked in cond_.wait
  woken,          \* threads picked by notify_one that do not have the mutex yet
  holding,        \* connections in use: <<t, n>> is the n-th that t holds
  up,             \* is the database up?
  outages

vars == <<idle, total_created, waiting, woken, holding, up, outages>>

\* How many connections a thread holds.
Depth(t) == Cardinality({n \in 1..Nested : <<t, n>> \in holding})

\* A thread that is in no call of GetConnection.
Free(t) == t \notin waiting \cup woken

\* What cond_.wait waits for.
Available == idle > 0 \/ total_created < Size

\* The answer of GetConnection: a connection, held until the caller drops it, or nothing.
Gets(t, conn) == holding' = IF conn THEN holding \cup {<<t, Depth(t) + 1>>} ELSE holding

\* Take an idle connection.  When it is dead and cannot be reconnected it is closed
\* and nothing is returned; total_created stays.
TakeIdle(t) ==
  /\ idle > 0
  /\ idle' = idle - 1
  /\ Gets(t, up)
  /\ UNCHANGED total_created

\* Open another connection.
\* Mutant: it is not counted.
CreatedUncounted(n) == n

Created(n) == n + 1

CreateConnection(t) ==
  /\ idle = 0 /\ total_created < Size
  /\ total_created' = IF up THEN Created(total_created) ELSE total_created
  /\ Gets(t, up)
  /\ UNCHANGED idle

\* GetConnection.
Call(t) ==
  /\ Free(t) /\ Depth(t) < Nested
  /\ \/ /\ ~ Available
        /\ waiting' = waiting \cup {t}
        /\ UNCHANGED <<idle, total_created, holding>>
     \/ /\ TakeIdle(t) \/ CreateConnection(t)
        /\ UNCHANGED waiting
  /\ UNCHANGED <<woken, up, outages>>

\* A waiting thread gets the mutex back.
Resume(t) ==
  /\ t \in woken
  /\ woken' = woken \ {t}
  /\ \/ /\ ~ Available
        /\ waiting' = waiting \cup {t}
        /\ UNCHANGED <<idle, total_created, holding>>
     \/ /\ TakeIdle(t) \/ CreateConnection(t)
        /\ UNCHANGED waiting
  /\ UNCHANGED <<up, outages>>

\* cond_.notify_one.
\* Mutant: nobody is notified.
NotifyNone == UNCHANGED <<waiting, woken>>

NotifyOne ==
  \/ /\ waiting = {}
     /\ UNCHANGED <<waiting, woken>>
  \/ \E w \in waiting :
       /\ waiting' = waiting \ {w}
       /\ woken' = woken \cup {w}

\* The deleter of the shared pointer: the connection taken last is dropped first.
ReturnConnection(t) ==
  /\ Free(t) /\ <<t, Depth(t)>> \in holding
  /\ holding' = holding \ {<<t, Depth(t)>>}
  /\ idle' = idle + 1
  /\ NotifyOne
  /\ UNCHANGED <<total_created, up, outages>>

DatabaseDown ==
  /\ up /\ outages < Outages
  /\ up' = FALSE
  /\ outages' = outages + 1
  /\ UNCHANGED <<idle, total_created, waiting, woken, holding>>

DatabaseUp ==
  /\ ~ up
  /\ up' = TRUE
  /\ UNCHANGED <<idle, total_created, waiting, woken, holding, outages>>

-----------------------------------------------------------------------------
\* The constructor opens Size connections and keeps those that succeed.
Init ==
  /\ idle \in 0..Size
  /\ total_created = idle
  /\ waiting = {} /\ woken = {} /\ holding = {}
  /\ up = TRUE
  /\ outages = 0

Use(t) == Call(t) \/ Resume(t) \/ ReturnConnection(t)

Next == DatabaseDown \/ DatabaseUp \/ \E t \in Thread : Use(t)

Spec == Init /\ [][Next]_vars

-----------------------------------------------------------------------------
TypeOK ==
  /\ idle \in Nat /\ total_created \in Nat
  /\ waiting \in SUBSET Thread /\ woken \in SUBSET Thread
  /\ holding \in SUBSET (Thread \X (1..Nested))
  /\ up \in BOOLEAN /\ outages \in Nat

\* The process never has more than pool_size connections, idle or in use.
AtMostSize == idle + Cardinality(holding) <= Size

\* As long as somebody waits, there is a notified thread for every idle connection:
\* no connection lies in pool_ while everybody sleeps.
NoLostWakeup == waiting # {} => idle <= Cardinality(woken)
=============================================================================
