------------------------------ MODULE ThreadPool ------------------------------
(***************************************************************************)
(* The worker pool threadpool/thread_pool.cc: a queue of tasks, a mutex    *)
(* and a condition variable.  Every block under the mutex is one step; the *)
(* notification of Submit and of the destructor comes after the unlock and *)
(* is a step of its own.                                                   *)
(***************************************************************************)
EXTENDS Integers, Sequences, FiniteSets

CONSTANTS
  Worker,     \* the threads of workers_
  Submitter,  \* the threads that call Submit: the I/O threads
  MaxTasks    \* bound: tasks submitted

VARIABLES
  tasks,      \* tasks_, tasks named by the order of submission
  running,
  waiting,    \* workers blocked in cond_.wait
  woken,      \* notified workers that do not have the mutex yet
  task,       \* the task each worker executes, 0: none
  exited,     \* workers that have left WorkerLoop
  notifying,  \* submitters between the unlock and cond_.notify_one
  submitted,  \* how many tasks were accepted
  done,       \* tasks that were executed, and how often
  dtor        \* the destructor: "none", "stop", "join" or "done"

vars == <<tasks, running, waiting, woken, task, exited, notifying, submitted, done, dtor>>

-----------------------------------------------------------------------------
\* Submit.  After the destructor has begun it throws, and nothing is queued.
Submit(s) ==
  /\ s \notin notifying /\ submitted < MaxTasks
  /\ running
  /\ submitted' = submitted + 1
  /\ tasks' = Append(tasks, submitted + 1)
  /\ notifying' = notifying \cup {s}
  /\ UNCHANGED <<running, waiting, woken, task, exited, done, dtor>>

\* cond_.notify_one: one waiting worker is notified, if there is one.
\* Mutant: nobody is notified.
NotifiedNever == UNCHANGED <<waiting, woken>>

Notified ==
  \/ /\ waiting = {}
     /\ UNCHANGED <<waiting, woken>>
  \/ \E w \in waiting :
       /\ waiting' = waiting \ {w}
       /\ woken' = woken \cup {w}

NotifyOne(s) ==
  /\ s \in notifying
  /\ notifying' = notifying \ {s}
  /\ Notified
  /\ UNCHANGED <<tasks, running, task, exited, submitted, done, dtor>>

\* The predicate of cond_.wait.
\* Mutant: tasks are not looked at any more when the pool stops.
MayGoOnRunning == running /\ tasks # <<>>

MayGoOn == ~ running \/ tasks # <<>>

\* When a worker leaves its loop.
\* Mutant: as soon as the pool stops.
LeavesAtOnce == ~ running

Leaves == ~ running /\ tasks = <<>>

\* WorkerLoop under the mutex: wait, leave, or take the first task.
Look(w) ==
  /\ w \notin waiting \cup exited /\ task[w] = 0
  /\ woken' = woken \ {w}
  /\ \/ /\ ~ MayGoOn
        /\ waiting' = waiting \cup {w}
        /\ UNCHANGED <<tasks, task, exited>>
     \/ /\ MayGoOn /\ Leaves
        /\ exited' = exited \cup {w}
        /\ UNCHANGED <<tasks, task, waiting>>
     \/ /\ MayGoOn /\ ~ Leaves
        /\ task' = [task EXCEPT ![w] = Head(tasks)]
        /\ tasks' = Tail(tasks)
        /\ UNCHANGED <<waiting, exited>>
  /\ UNCHANGED <<running, notifying, submitted, done, dtor>>

\* The task runs outside the mutex; a packaged_task keeps its exceptions to itself.
Execute(w) ==
  /\ task[w] # 0
  /\ done' = [done EXCEPT ![task[w]] = @ + 1]
  /\ task' = [task EXCEPT ![w] = 0]
  /\ UNCHANGED <<tasks, running, waiting, woken, exited, notifying, submitted, dtor>>

\* The destructor: stop, ...
Stop ==
  /\ dtor = "none"
  /\ running' = FALSE
  /\ dtor' = "stop"
  /\ UNCHANGED <<tasks, waiting, woken, task, exited, notifying, submitted, done>>

\* ... notify all, ...
NotifyAll ==
  /\ dtor = "stop"
  /\ waiting' = {}
  /\ woken' = woken \cup waiting
  /\ dtor' = "join"
  /\ UNCHANGED <<tasks, running, task, exited, notifying, submitted, done>>

\* ... and join.
Join ==
  /\ dtor = "join" /\ exited = Worker
  /\ dtor' = "done"
  /\ UNCHANGED <<tasks, running, waiting, woken, task, exited, notifying, submitted, done>>

-----------------------------------------------------------------------------
Init ==
  /\ tasks = <<>> /\ running = TRUE
  /\ waiting = {} /\ woken = {} /\ exited = {} /\ notifying = {}
  /\ task = [w \in Worker |-> 0]
  /\ submitted = 0
  /\ done = [i \in 1..MaxTasks |-> 0]
  /\ dtor = "none"

Next ==
  \/ Stop \/ NotifyAll \/ Join
  \/ \E s \in Submitter : Submit(s) \/ NotifyOne(s)
  \/ \E w \in Worker : Look(w) \/ Execute(w)

Spec == Init /\ [][Next]_vars

-----------------------------------------------------------------------------
\* While a worker sleeps, every queued task has a notification on its way.
NoLostWakeup ==
  waiting # {} => Len(tasks) <= Cardinality(woken) + Cardinality(notifying)

\* When the destructor returns, every task that Submit accepted was executed once.
DrainedAtEnd == dtor = "done" => \A i \in 1..submitted : done[i] = 1
=============================================================================
