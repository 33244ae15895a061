---------------------------- MODULE ServerProcess ----------------------------
(***************************************************************************)
(* A C++ server process: the workers of its ThreadPool execute tasks, and  *)
(* every task is a request whose handler calls methods of the DAOs, one    *)
(* after the other.  Each method takes a connection from the MysqlPool,    *)
(* uses it and drops it, or fails when it gets none;                       *)
(* FileDAO::ConfirmUploadChunk may take a second one meanwhile.  After a   *)
(* failure a handler goes on or answers.  The I/O threads submit the tasks *)
(* (gateway/handler/business_processor.cc, rpc/rpc_server.cc).             *)
(*                                                                         *)
(* The definitions of MysqlPool are used under their own names, those of   *)
(* ThreadPool as Tasks!..., over the threads of the process.               *)
(***************************************************************************)
EXTENDS MysqlPool, Sequences

CONSTANTS
  Submitter,
  MaxTasks,
  Handlers    \* the DAO methods that handlers call: sequences over Method

\* ConfirmUploadChunk, and the methods with one connection.
Method == {"statement", "confirm"}

\* The constructor of ThreadPool starts at least one worker, whatever it is asked for.
ASSUME TasksAssumption ==
  /\ Thread # {} /\ IsFiniteSet(Submitter) /\ MaxTasks \in Nat
  /\ Handlers \subseteq Seq(Method) \ {<<>>}

VARIABLES
  tasks, running, asleep, roused, task, exited, notifying, submitted, done, dtor,
  rest   \* the methods that each worker's handler has still to call, or is in

Tasks == INSTANCE ThreadPool WITH Worker <- Thread, waiting <- asleep, woken <- roused

taskVars == <<tasks, running, asleep, roused, task, exited, notifying, submitted, done, dtor>>
processVars == <<vars, taskVars, rest>>

\* A worker that takes a task starts its handler.
Take(t) ==
  /\ Tasks!Look(t)
  /\ \E h \in Handlers : rest' = IF task'[t] # 0 THEN [rest EXCEPT ![t] = h] ELSE rest
  /\ UNCHANGED vars

\* A method has returned, with or without an error: the handler goes on to the next
\* one, or answers, and the task is over.
Over(t) ==
  \/ /\ Len(rest[t]) > 1
     /\ rest' = [rest EXCEPT ![t] = Tail(@)]
     /\ UNCHANGED taskVars
  \/ Tasks!Execute(t) /\ rest' = [rest EXCEPT ![t] = <<>>]

\* GetConnection lets the thread wait, or gives it a connection; a method that gets
\* none is over.
Got(t) ==
  IF t \in waiting' \/ Depth(t)' > 0 THEN UNCHANGED <<taskVars, rest>> ELSE Over(t)

\* A method of a DAO begins, ...
Ask(t) ==
  /\ task[t] # 0 /\ Depth(t) = 0
  /\ Call(t) /\ Got(t)

\* ... gets the mutex back, ...
Continue(t) == Resume(t) /\ Got(t)

\* ... calls FindById when the UPDATE of ConfirmUploadChunk has changed no row, ...
Reread(t) ==
  /\ rest[t] # <<>> /\ Head(rest[t]) = "confirm" /\ Depth(t) = 1
  /\ Call(t)
  /\ rest' = [rest EXCEPT ![t] = <<"reread">> \o Tail(@)]
  /\ UNCHANGED taskVars

\* ... and drops its connection.
Return(t) ==
  /\ ReturnConnection(t)
  /\ IF Depth(t) > 1 THEN UNCHANGED <<taskVars, rest>> ELSE Over(t)

Handle(t) == Ask(t) \/ Continue(t) \/ Reread(t) \/ Return(t)

ProcessInit == Init /\ Tasks!Init /\ rest = [t \in Thread |-> <<>>]

ProcessNext ==
  \/ (DatabaseDown \/ DatabaseUp) /\ UNCHANGED <<taskVars, rest>>
  \/ \E t \in Thread : Take(t) \/ Handle(t)
  \/ \E s \in Submitter : (Tasks!Submit(s) \/ Tasks!NotifyOne(s)) /\ UNCHANGED <<vars, rest>>
  \/ (Tasks!Stop \/ Tasks!NotifyAll \/ Tasks!Join) /\ UNCHANGED <<vars, rest>>

\* A thread that may run runs, statements end and the database is started again.
ProcessFairness ==
  /\ WF_processVars(DatabaseUp /\ UNCHANGED <<taskVars, rest>>)
  /\ WF_processVars((Tasks!NotifyAll \/ Tasks!Join) /\ UNCHANGED <<vars, rest>>)
  /\ \A s \in Submitter : WF_processVars(Tasks!NotifyOne(s) /\ UNCHANGED <<vars, rest>>)
  /\ \A t \in Thread : WF_processVars(Handle(t)) /\ WF_processVars(Take(t))

ProcessSpec == ProcessInit /\ [][ProcessNext]_processVars /\ ProcessFairness

-----------------------------------------------------------------------------
\* No queued task is forgotten: while a worker sleeps in WorkerLoop, a
\* notification for every task is on its way.
NoTaskAsleep == Tasks!NoLostWakeup

\* When the destructor of ThreadPool returns, every task that Submit accepted was
\* executed, and executed once.
DrainedAtEnd == Tasks!DrainedAtEnd

\* A connection is idle, may still be opened, or is in the hands of a thread that is
\* not itself waiting for one.
Usable ==
  \/ idle > 0 \/ total_created < Size
  \/ \E h \in holding : Free(h[1])

\* With more workers than connections, and whenever the destructor comes, all accepted
\* tasks are executed in the end (submissions stop at MaxTasks), unless all connections
\* were closed after failed pings or are held by threads that wait for another one.
Executed ==
  []Usable => []<>(\A i \in 1..submitted : done[i] = 1)

\* The destructor of ThreadPool returns ("通知所有线程退出并等待join", thread_pool.h).
DestructorEnds == dtor = "stop" ~> dtor = "done"
=============================================================================
