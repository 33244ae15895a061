------------------------- MODULE ServerProcess_proofs -------------------------
(***************************************************************************)
(* Proofs about the two pools of a server process, for any number of       *)
(* threads, connections and tasks and any behaviour of the database: the   *)
(* connection pool never opens more than pool_size connections, no wakeup  *)
(* is lost in either pool, and the destructor of the thread pool returns   *)
(* only after every accepted task was executed, once.                      *)
(***************************************************************************)
EXTENDS ServerProcess, FiniteSetTheorems, TLAPS

-----------------------------------------------------------------------------
(***************************************************************************)
(* The connection pool.                                                    *)
(***************************************************************************)
Connections == Thread \X (1 .. Nested)

\* A thread is in at most one place, and asks only for connections it may hold.
Apart ==
  /\ waiting \cap woken = {}
  /\ \A t \in waiting \cup woken : Depth(t) < Nested

\* total_created counts at least the connections there are.
Counted == idle + Cardinality(holding) <= total_created /\ total_created <= Size

PoolInv == TypeOK /\ Apart /\ Counted /\ NoLostWakeup

-----------------------------------------------------------------------------
\* Sets of threads are finite.
LEMMA ThreadSets ==
  ASSUME NEW S \in SUBSET Thread
  PROVE  IsFiniteSet(S) /\ Cardinality(S) \in Nat
BY FS_Subset, FS_CardinalityType, PoolAssumption DEF PoolAssumption

\* So are sets of connections.
LEMMA ConnectionSets ==
  ASSUME NEW S \in SUBSET Connections
  PROVE  IsFiniteSet(S) /\ Cardinality(S) \in Nat
<1>1. IsFiniteSet(1 .. Nested)
  BY FS_Interval, PoolAssumption DEF PoolAssumption
<1>2. IsFiniteSet(Connections)
  BY <1>1, FS_Product, PoolAssumption DEF PoolAssumption, Connections
<1>q. QED BY <1>2, FS_Subset, FS_CardinalityType

\* How many connections a thread holds is a number.
LEMMA DepthType == \A t : Depth(t) \in Nat
<1> SUFFICES ASSUME NEW t PROVE Depth(t) \in Nat
  OBVIOUS
<1> DEFINE S == {n \in 1 .. Nested : <<t, n>> \in holding}
<1>1. IsFiniteSet(1 .. Nested) /\ S \subseteq 1 .. Nested
  BY FS_Interval, PoolAssumption DEF PoolAssumption
<1> HIDE DEF S
<1>2. Cardinality(S) \in Nat
  BY <1>1, FS_Subset, FS_CardinalityType
<1>q. QED BY <1>2 DEF Depth, S

\* It depends on the connections of this thread only.
LEMMA SameDepth ==
  ASSUME NEW t, \A n \in 1 .. Nested : <<t, n>> \in holding' <=> <<t, n>> \in holding
  PROVE  Depth(t)' = Depth(t)
<1>1. {n \in 1 .. Nested : <<t, n>> \in holding'} = {n \in 1 .. Nested : <<t, n>> \in holding}
  OBVIOUS
<1>q. QED BY <1>1 DEF Depth

\* A thread joins a set.
LEMMA Joins ==
  ASSUME NEW S \in SUBSET Thread, NEW t \in Thread, t \notin S
  PROVE  Cardinality(S \cup {t}) = Cardinality(S) + 1
BY ThreadSets, FS_AddElement

\* ... or leaves it.
LEMMA Quits ==
  ASSUME NEW S \in SUBSET Thread, NEW t \in S
  PROVE  Cardinality(S \ {t}) = Cardinality(S) - 1
BY ThreadSets, FS_RemoveElement

\* The constructor establishes the invariant.
LEMMA InitInv == Init => PoolInv
<1>1. Cardinality({}) = 0
  BY FS_EmptySet
<1> QED
  BY <1>1, PoolAssumption DEF PoolAssumption, Init, PoolInv, TypeOK, Apart, Counted, NoLostWakeup

-----------------------------------------------------------------------------
\* What taking or opening a connection does to the counters.
LEMMA Acquire ==
  ASSUME PoolInv, NEW t \in Thread, Depth(t) < Nested,
         TakeIdle(t) \/ CreateConnection(t)
  PROVE  /\ idle' \in Nat /\ total_created' \in Nat
         /\ holding' \in SUBSET Connections
         /\ Counted'
         /\ idle' = idle - 1 \/ (idle = 0 /\ idle' = 0)
         /\ \A u \in Thread : u # t => Depth(u)' = Depth(u)
<1> DEFINE x == <<t, Depth(t) + 1>>
<1>1. idle \in Nat /\ total_created \in Nat /\ holding \in SUBSET Connections
  BY DEF PoolInv, TypeOK, Connections
<1>2. Cardinality(holding) \in Nat
  BY <1>1, ConnectionSets
<1>3. \/ holding' = holding \cup {x} /\ up
      \/ holding' = holding /\ ~ up
  BY DEF TakeIdle, CreateConnection, Gets
<1>4. x \in Connections
  BY DepthType, PoolAssumption DEF Connections, PoolAssumption
<1>5. \A u \in Thread : u # t => Depth(u)' = Depth(u)
  <2> SUFFICES ASSUME NEW u \in Thread, u # t, NEW n \in 1 .. Nested
               PROVE  <<u, n>> \in holding' <=> <<u, n>> \in holding
    BY SameDepth
  <2>q. QED BY <1>3
<1> HIDE DEF x
<1>6. holding' \in SUBSET Connections
  BY <1>1, <1>3, <1>4
<1>7. /\ Cardinality(holding') \in Nat
      /\ Cardinality(holding') <= IF up THEN Cardinality(holding) + 1 ELSE Cardinality(holding)
  <2>1. Cardinality(holding') \in Nat
    BY <1>6, ConnectionSets
  <2>2. CASE holding' = holding \cup {x} /\ up
    BY <1>1, <1>2, <2>1, <2>2, ConnectionSets, FS_AddElement
  <2>3. CASE holding' = holding /\ ~ up
    <3>1. Cardinality(holding') = Cardinality(holding)
      BY <2>3
    <3>q. QED BY <1>2, <2>3, <3>1
  <2>q. QED BY <1>3, <2>2, <2>3
<1>8. CASE TakeIdle(t)
  <2>1. idle > 0 /\ idle' = idle - 1 /\ total_created' = total_created
    BY <1>8 DEF TakeIdle
  <2>2. idle + Cardinality(holding) <= total_created /\ total_created <= Size
    BY DEF PoolInv, Counted
  <2>3. Cardinality(holding') <= Cardinality(holding) + 1
    BY <1>2, <1>7
  <2>4. Counted'
    BY <1>1, <1>2, <1>7, <2>1, <2>2, <2>3 DEF Counted
  <2>q. QED BY <1>1, <1>5, <1>6, <2>1, <2>4
<1>9. CASE CreateConnection(t)
  <2>1. /\ idle = 0 /\ idle' = idle /\ total_created < Size
        /\ total_created' = IF up THEN total_created + 1 ELSE total_created
    BY <1>9 DEF CreateConnection, Created
  <2>2. idle + Cardinality(holding) <= total_created /\ Size \in Nat
    BY PoolAssumption DEF PoolInv, Counted, PoolAssumption
  <2>3. Counted'
    <3>1. CASE up
      BY <1>1, <1>2, <1>7, <2>1, <2>2, <3>1 DEF Counted
    <3>2. CASE ~ up
      BY <1>1, <1>2, <1>7, <2>1, <2>2, <3>2 DEF Counted
    <3>q. QED BY <3>1, <3>2
  <2>q. QED BY <1>1, <1>5, <1>6, <2>1, <2>3
<1>q. QED BY <1>8, <1>9

\* A thread in GetConnection that finds nothing available joins the waiting ones.
LEMMA WaitInv ==
  ASSUME PoolInv, NEW t \in Thread, t \notin waiting, Depth(t) < Nested, ~ Available,
         waiting' = waiting \cup {t}, woken' = woken \ {t},
         UNCHANGED <<idle, total_created, holding, up, outages>>
  PROVE  PoolInv'
<1>1. idle = 0 /\ woken' \in SUBSET Thread
  BY DEF PoolInv, TypeOK, Available
<1>2. Cardinality(woken') \in Nat
  BY <1>1, ThreadSets
<1>3. NoLostWakeup'
  BY <1>1, <1>2 DEF NoLostWakeup
<1>4. Apart'
  <2>1. \A u : Depth(u)' = Depth(u)
    BY SameDepth
  <2>q. QED BY <2>1 DEF PoolInv, Apart
<1>5. TypeOK' /\ Counted'
  BY <1>1 DEF PoolInv, TypeOK, Counted
<1>q. QED BY <1>3, <1>4, <1>5 DEF PoolInv

\* One that gets a connection, or an error, leaves GetConnection.
LEMMA GetInv ==
  ASSUME PoolInv, NEW t \in Thread, t \notin waiting, Depth(t) < Nested, t \in woken \/ UNCHANGED woken,
         TakeIdle(t) \/ CreateConnection(t), woken' = woken \ {t}, UNCHANGED <<waiting, up, outages>>
  PROVE  PoolInv'
<1>1. /\ idle' \in Nat /\ total_created' \in Nat
      /\ holding' \in SUBSET Connections
      /\ Counted'
      /\ idle' = idle - 1 \/ (idle = 0 /\ idle' = 0)
      /\ \A u \in Thread : u # t => Depth(u)' = Depth(u)
  BY Acquire
<1>2. /\ idle \in Nat /\ woken \in SUBSET Thread /\ waiting \in SUBSET Thread /\ woken' \in SUBSET Thread
      /\ up \in BOOLEAN /\ outages \in Nat
  BY DEF PoolInv, TypeOK
<1>3. Cardinality(woken) \in Nat /\ Cardinality(woken') \in Nat /\ Cardinality(woken') >= Cardinality(woken) - 1
  <2>1. Cardinality(woken) \in Nat /\ Cardinality(woken') \in Nat
    BY <1>2, ThreadSets
  <2>2. CASE t \in woken
    <3>1. Cardinality(woken \ {t}) = Cardinality(woken) - 1
      BY <1>2, <2>2, Quits
    <3>q. QED BY <2>1, <3>1
  <2>3. CASE woken' = woken
    <3>1. Cardinality(woken') = Cardinality(woken)
      BY <2>3
    <3>q. QED BY <2>1, <3>1
  <2>q. QED BY <2>2, <2>3
<1>4. NoLostWakeup'
  <2>1. waiting # {} => idle <= Cardinality(woken)
    BY DEF PoolInv, NoLostWakeup
  <2>2. waiting # {} => idle' <= Cardinality(woken')
    BY <1>1, <1>2, <1>3, <2>1
  <2>q. QED BY <2>2 DEF NoLostWakeup
<1>5. Apart'
  BY <1>1, <1>2 DEF PoolInv, Apart
<1>q. QED BY <1>1, <1>2, <1>4, <1>5 DEF PoolInv, TypeOK, Connections

\* GetConnection.
LEMMA CallInv ==
  ASSUME PoolInv, NEW t \in Thread, Call(t)
  PROVE  PoolInv'
<1>1. /\ t \notin waiting /\ t \notin woken /\ Depth(t) < Nested
      /\ woken' = woken /\ woken' = woken \ {t} /\ UNCHANGED <<up, outages>>
  BY DEF Call, Free
<1>2. CASE ~ Available /\ waiting' = waiting \cup {t} /\ UNCHANGED <<idle, total_created, holding>>
  BY <1>1, <1>2, WaitInv
<1>3. CASE (TakeIdle(t) \/ CreateConnection(t)) /\ UNCHANGED waiting
  BY <1>1, <1>3, GetInv
<1>q. QED BY <1>2, <1>3 DEF Call

\* A thread that waited in GetConnection goes on.
LEMMA ResumeInv ==
  ASSUME PoolInv, NEW t \in Thread, Resume(t)
  PROVE  PoolInv'
<1>1. /\ t \in woken /\ t \notin waiting /\ Depth(t) < Nested
      /\ woken' = woken \ {t} /\ UNCHANGED <<up, outages>>
  BY DEF Resume, PoolInv, Apart
<1>2. CASE ~ Available /\ waiting' = waiting \cup {t} /\ UNCHANGED <<idle, total_created, holding>>
  BY <1>1, <1>2, WaitInv
<1>3. CASE (TakeIdle(t) \/ CreateConnection(t)) /\ UNCHANGED waiting
  BY <1>1, <1>3, GetInv
<1>q. QED BY <1>2, <1>3 DEF Resume

\* The deleter of a connection.
LEMMA ReturnInv ==
  ASSUME PoolInv, NEW t \in Thread, ReturnConnection(t)
  PROVE  PoolInv'
<1> DEFINE x == <<t, Depth(t)>>
<1>1. /\ t \notin waiting \cup woken /\ x \in holding /\ holding' = holding \ {x}
      /\ idle' = idle + 1 /\ UNCHANGED <<total_created, up, outages>>
  BY DEF ReturnConnection, Free
<1>2. /\ idle \in Nat /\ total_created \in Nat /\ holding \in SUBSET Connections
      /\ woken \in SUBSET Thread /\ waiting \in SUBSET Thread
  BY DEF PoolInv, TypeOK, Connections
<1>3. \A u \in Thread : u # t => Depth(u)' = Depth(u)
  <2> SUFFICES ASSUME NEW u \in Thread, u # t, NEW n \in 1 .. Nested
               PROVE  <<u, n>> \in holding' <=> <<u, n>> \in holding
    BY SameDepth
  <2>q. QED BY <1>1
<1> HIDE DEF x
<1>4. Cardinality(holding) \in Nat /\ Cardinality(holding') = Cardinality(holding) - 1
  BY <1>1, <1>2, ConnectionSets, FS_RemoveElement
<1>5. Counted'
  <2>1. idle + Cardinality(holding) <= total_created /\ total_created <= Size
    BY DEF PoolInv, Counted
  <2>2. idle' + Cardinality(holding') <= total_created' /\ total_created' <= Size
    BY <1>1, <1>2, <1>4, <2>1
  <2>q. QED BY <2>2 DEF Counted
<1>6. waiting' \in SUBSET Thread /\ woken' \in SUBSET Thread => TypeOK'
  BY <1>1, <1>2 DEF PoolInv, TypeOK, Connections
<1>7. CASE waiting = {} /\ UNCHANGED <<waiting, woken>>
  <2>1. NoLostWakeup' /\ Apart'
    BY <1>1, <1>2, <1>3, <1>7 DEF NoLostWakeup, PoolInv, Apart
  <2>q. QED BY <1>2, <1>5, <1>6, <1>7, <2>1 DEF PoolInv
<1>8. ASSUME NEW w \in waiting, waiting' = waiting \ {w}, woken' = woken \cup {w}
      PROVE  PoolInv'
  <2>1. Cardinality(woken) \in Nat /\ Cardinality(woken') = Cardinality(woken) + 1
    BY <1>2, <1>8, ThreadSets, Joins DEF PoolInv, Apart
  <2>2. NoLostWakeup'
    BY <1>1, <1>2, <1>8, <2>1 DEF PoolInv, NoLostWakeup
  <2>3. Apart' /\ waiting' \in SUBSET Thread /\ woken' \in SUBSET Thread
    BY <1>1, <1>2, <1>3, <1>8 DEF PoolInv, Apart
  <2>q. QED BY <1>5, <1>6, <2>2, <2>3 DEF PoolInv
<1>q. QED BY <1>7, <1>8 DEF ReturnConnection, NotifyOne

-----------------------------------------------------------------------------
\* Every step keeps the invariant.
LEMMA NextInv == PoolInv /\ [Next]_vars => PoolInv'
<1> SUFFICES ASSUME PoolInv, [Next]_vars PROVE PoolInv'
  OBVIOUS
<1>1. ASSUME NEW t \in Thread, Use(t) PROVE PoolInv'
  BY <1>1, CallInv, ResumeInv, ReturnInv DEF Use
<1>2. CASE DatabaseDown \/ DatabaseUp
  <2>1. /\ idle' = idle /\ total_created' = total_created
        /\ waiting' = waiting /\ woken' = woken /\ holding' = holding
    BY <1>2, Zenon DEF DatabaseDown, DatabaseUp
  <2>2. outages' \in Nat
    BY <1>2, SMT DEF PoolInv, TypeOK, DatabaseDown, DatabaseUp
  <2>3. up' \in BOOLEAN
    BY <1>2, Zenon DEF DatabaseDown, DatabaseUp
  <2> QED
    BY <2>1, <2>2, <2>3, Zenon DEF PoolInv, TypeOK, Apart, Depth, Counted, NoLostWakeup
<1>3. CASE UNCHANGED vars
  BY <1>3, Zenon DEF PoolInv, TypeOK, Apart, Depth, Counted, NoLostWakeup, vars
<1> QED
  BY <1>1, <1>2, <1>3 DEF Next

\* GetConnection and ReturnConnection keep the types of the pool's counters and sets.
THEOREM PoolTypes == Spec => []TypeOK
<1>1. PoolInv => TypeOK
  BY DEF PoolInv
<1> QED
  BY <1>1, InitInv, NextInv, PTL DEF Spec

\* GetConnection never has more than pool_size connections open.
THEOREM NeverTooMany == Spec => []AtMostSize
<1>1. PoolInv => AtMostSize
  <2> SUFFICES ASSUME PoolInv PROVE AtMostSize
    OBVIOUS
  <2>1. Cardinality(holding) \in Nat
    BY ConnectionSets DEF PoolInv, TypeOK, Connections
  <2> QED
    BY <2>1, PoolAssumption DEF PoolInv, TypeOK, Counted, AtMostSize, PoolAssumption
<1> QED
  BY <1>1, InitInv, NextInv, PTL DEF Spec

\* The notify_one of ReturnConnection is enough: no connection stays idle while
\* every thread in GetConnection sleeps.
THEOREM WakeupsSuffice == Spec => []NoLostWakeup
<1>1. PoolInv => NoLostWakeup
  BY DEF PoolInv
<1> QED
  BY <1>1, InitInv, NextInv, PTL DEF Spec

-----------------------------------------------------------------------------
(***************************************************************************)
(* The thread pool.                                                        *)
(***************************************************************************)
\* How many tasks have left the queue.
Taken == submitted - Len(tasks)

TaskTypes ==
  /\ submitted \in Nat /\ submitted <= MaxTasks
  /\ tasks \in Seq(Nat) /\ Len(tasks) <= submitted
  /\ running \in BOOLEAN /\ dtor \in {"none", "stop", "join", "done"}
  /\ asleep \in SUBSET Thread /\ roused \in SUBSET Thread /\ exited \in SUBSET Thread
  /\ notifying \in SUBSET Submitter
  /\ task \in [Thread -> Nat] /\ done \in [1 .. MaxTasks -> Nat]

\* The queue holds the last tasks submitted, in order.
InOrder == \A j \in 1 .. Len(tasks) : tasks[j] = Taken + j

\* A worker executes a task that has left the queue, and nobody else does.
OneWorker ==
  /\ \A w \in Thread : task[w] <= Taken
  /\ \A v, w \in Thread : task[v] # 0 /\ task[v] = task[w] => v = w

\* A task that has left the queue was executed once, or is being executed.
Counts ==
  \A i \in 1 .. MaxTasks :
    /\ i > Taken => done[i] = 0
    /\ i <= Taken => done[i] = IF \E w \in Thread : task[w] = i THEN 0 ELSE 1

\* Workers leave an empty queue to which nothing is added any more.
Leaving ==
  /\ running = (dtor = "none")
  /\ exited # {} => dtor # "none" /\ tasks = <<>>
  /\ \A w \in exited : task[w] = 0
  /\ dtor = "done" => exited = Thread

TasksInv == TaskTypes /\ InOrder /\ OneWorker /\ Counts /\ Leaving /\ asleep \cap roused = {} /\ NoTaskAsleep

\* Sets of submitters are finite.
LEMMA SubmitterSets ==
  ASSUME NEW S \in SUBSET Submitter
  PROVE  IsFiniteSet(S) /\ Cardinality(S) \in Nat
BY FS_Subset, FS_CardinalityType, TasksAssumption DEF TasksAssumption

\* ThreadPool counts with the Cardinality of its own instance.
LEMMA SameCount == \A S : Tasks!Cardinality(S) = Cardinality(S)
BY DEF Tasks!Cardinality, Cardinality

\* The property in the state of the process, before and after a step.
LEMMA Awake ==
  /\ NoTaskAsleep <=> (asleep # {} => Len(tasks) <= Cardinality(roused) + Cardinality(notifying))
  /\ NoTaskAsleep' <=> (asleep' # {} => Len(tasks') <= Cardinality(roused') + Cardinality(notifying'))
BY SameCount DEF NoTaskAsleep, Tasks!NoLostWakeup

\* At the start of the process.
LEMMA TasksInitOK == Tasks!Init => TasksInv
<1> SUFFICES ASSUME Tasks!Init PROVE TasksInv
  OBVIOUS
<1>1. /\ tasks = <<>> /\ running = TRUE /\ asleep = {} /\ roused = {} /\ exited = {} /\ notifying = {}
      /\ task = [w \in Thread |-> 0] /\ submitted = 0 /\ done = [i \in 1 .. MaxTasks |-> 0] /\ dtor = "none"
  BY DEF Tasks!Init
<1>2. Len(tasks) = 0 /\ tasks \in Seq(Nat) /\ Taken = 0
  <2>1. Len(tasks) = 0
    BY <1>1
  <2>2. tasks \in Seq(Nat)
    BY <1>1
  <2>3. submitted - Len(tasks) = 0 - 0
    BY <1>1, <2>1, Zenon
  <2>4. 0 - 0 = 0
    OBVIOUS
  <2>q. QED BY <2>1, <2>2, <2>3, <2>4 DEF Taken
<1>3. TaskTypes
  BY <1>1, <1>2, TasksAssumption DEF TaskTypes, TasksAssumption
<1>4. InOrder /\ OneWorker
  BY <1>1, <1>2 DEF InOrder, OneWorker
<1>5. Counts
  BY <1>1, <1>2 DEF Counts
<1>6. Leaving /\ NoTaskAsleep
  BY <1>1 DEF Leaving, NoTaskAsleep, Tasks!NoLostWakeup
<1>q. QED BY <1>1, <1>3, <1>4, <1>5, <1>6 DEF TasksInv

\* Submit under the mutex.
LEMMA SubmitInv == ASSUME TasksInv, NEW s \in Submitter, Tasks!Submit(s) PROVE TasksInv'
<1>1. /\ s \notin notifying /\ submitted < MaxTasks /\ running = TRUE
      /\ submitted' = submitted + 1 /\ tasks' = Append(tasks, submitted + 1) /\ notifying' = notifying \cup {s}
      /\ UNCHANGED <<running, asleep, roused, task, exited, done, dtor>>
  BY DEF Tasks!Submit, TasksInv, TaskTypes
<1>2. TaskTypes /\ MaxTasks \in Nat
  BY TasksAssumption DEF TasksInv, TasksAssumption
<1>3. /\ Len(tasks') = Len(tasks) + 1 /\ tasks' \in Seq(Nat) /\ Len(tasks) \in Nat
      /\ \A j \in 1 .. Len(tasks) : tasks'[j] = tasks[j]
      /\ tasks'[Len(tasks) + 1] = submitted + 1
  BY <1>1, <1>2 DEF TaskTypes
<1>4. Taken' = Taken /\ Taken \in Nat
  BY <1>1, <1>2, <1>3 DEF Taken, TaskTypes
<1>5. TaskTypes'
  BY <1>1, <1>2, <1>3 DEF TaskTypes
<1>6. InOrder'
  <2> SUFFICES ASSUME NEW j \in 1 .. (Len(tasks) + 1) PROVE tasks'[j] = Taken + j
    BY <1>3, <1>4 DEF InOrder
  <2>1. CASE j \in 1 .. Len(tasks)
    BY <2>1, <1>3 DEF TasksInv, InOrder
  <2>2. CASE j = Len(tasks) + 1
    BY <2>2, <1>2, <1>3 DEF Taken, TaskTypes
  <2>q. QED BY <2>1, <2>2, <1>3
<1>7. OneWorker' /\ Counts'
  BY <1>1, <1>4 DEF TasksInv, OneWorker, Counts
<1>8. Leaving'
  BY <1>1 DEF TasksInv, Leaving
<1>9. NoTaskAsleep'
  <2>1. Cardinality(notifying') = Cardinality(notifying) + 1 /\ Cardinality(notifying) \in Nat
    BY <1>1, <1>2, SubmitterSets, FS_AddElement DEF TaskTypes
  <2>2. Cardinality(roused) \in Nat
    BY <1>2, ThreadSets DEF TaskTypes
  <2>3. asleep # {} => Len(tasks) <= Cardinality(roused) + Cardinality(notifying)
    BY Awake DEF TasksInv
  <2>4. UNCHANGED <<asleep, roused>> /\ Len(tasks') = Len(tasks) + 1 /\ Len(tasks) \in Nat
    BY <1>1, <1>3
  <2>q. QED BY <2>1, <2>2, <2>3, <2>4, Awake
<1>q. QED BY <1>1, <1>5, <1>6, <1>7, <1>8, <1>9 DEF TasksInv

\* The notification of Submit comes after its unlock.
LEMMA NotifyOneInv == ASSUME TasksInv, NEW s \in Submitter, Tasks!NotifyOne(s) PROVE TasksInv'
<1>1. /\ s \in notifying /\ notifying' = notifying \ {s}
      /\ UNCHANGED <<tasks, running, task, exited, submitted, done, dtor>>
  BY DEF Tasks!NotifyOne
<1>2. TaskTypes
  BY DEF TasksInv
<1>3. Taken' = Taken
  BY <1>1 DEF Taken
<1>4. InOrder' /\ OneWorker' /\ Counts' /\ Leaving'
  BY <1>1, <1>3 DEF TasksInv, InOrder, OneWorker, Counts, Leaving
<1>5. CASE asleep = {} /\ UNCHANGED <<asleep, roused>>
  <2>1. NoTaskAsleep'
    BY <1>5, Awake
  <2>q. QED BY <1>1, <1>2, <1>4, <1>5, <2>1 DEF TasksInv, TaskTypes
<1>6. ASSUME NEW w \in asleep, asleep' = asleep \ {w}, roused' = roused \cup {w}
      PROVE  TasksInv'
  <2>1. /\ Cardinality(notifying') = Cardinality(notifying) - 1 /\ Cardinality(notifying) \in Nat
    BY <1>1, <1>2, SubmitterSets, FS_RemoveElement DEF TaskTypes
  <2>2. w \in Thread /\ w \notin roused
    BY <1>2, <1>6 DEF TaskTypes, TasksInv
  <2>3. Cardinality(roused') = Cardinality(roused) + 1 /\ Cardinality(roused) \in Nat
    BY <1>2, <1>6, <2>2, ThreadSets, Joins DEF TaskTypes
  <2>4. NoTaskAsleep'
    <3>1. asleep # {} => Len(tasks) <= Cardinality(roused) + Cardinality(notifying)
      BY Awake DEF TasksInv
    <3>2. tasks' = tasks /\ Len(tasks) \in Nat /\ asleep # {}
      BY <1>1, <1>2, <1>6 DEF TaskTypes
    <3>q. QED BY <2>1, <2>3, <3>1, <3>2, Awake
  <2>5. TaskTypes' /\ asleep' \cap roused' = {}
    BY <1>1, <1>2, <1>6, <2>2 DEF TaskTypes, TasksInv
  <2>q. QED BY <1>4, <2>4, <2>5 DEF TasksInv
<1>q. QED BY <1>5, <1>6 DEF Tasks!NotifyOne, Tasks!Notified

\* A worker takes the first task.
LEMMA TakeInv ==
  ASSUME TasksInv, NEW w \in Thread, w \notin asleep \cup exited, task[w] = 0, roused' = roused \ {w},
         tasks # <<>>, task' = [task EXCEPT ![w] = Head(tasks)], tasks' = Tail(tasks),
         UNCHANGED <<asleep, exited, running, notifying, submitted, done, dtor>>
  PROVE  TasksInv'
<1>1. TaskTypes /\ MaxTasks \in Nat
  BY TasksAssumption DEF TasksInv, TasksAssumption
<1>2. /\ Len(tasks) \in Nat /\ Len(tasks) >= 1 /\ Len(tasks') = Len(tasks) - 1 /\ tasks' \in Seq(Nat)
      /\ Head(tasks) = tasks[1] /\ \A j \in 1 .. (Len(tasks) - 1) : tasks'[j] = tasks[j + 1]
  BY <1>1 DEF TaskTypes
<1>3. Taken \in Nat /\ Taken' = Taken + 1 /\ Taken + 1 <= MaxTasks
  BY <1>1, <1>2 DEF Taken, TaskTypes
<1>4. Head(tasks) = Taken + 1
  BY <1>2 DEF TasksInv, InOrder
<1>5. \A v \in Thread : task'[v] = IF v = w THEN Taken + 1 ELSE task[v]
  BY <1>1, <1>4 DEF TaskTypes
<1>6. TaskTypes'
  <2>1. task' \in [Thread -> Nat]
    BY <1>1, <1>3, <1>4 DEF TaskTypes
  <2>q. QED BY <1>1, <1>2, <2>1 DEF TaskTypes
<1>7. InOrder'
  <2> SUFFICES ASSUME NEW j \in 1 .. (Len(tasks) - 1) PROVE tasks'[j] = Taken + 1 + j
    BY <1>2, <1>3 DEF InOrder
  <2>1. tasks[j + 1] = Taken + (j + 1)
    BY <1>2 DEF TasksInv, InOrder
  <2>q. QED BY <1>2, <1>3, <2>1
<1> DEFINE n == Taken
<1>8. \A v \in Thread : task[v] \in Nat /\ task[v] <= n
  BY <1>1 DEF TasksInv, OneWorker, TaskTypes
<1>9. OneWorker'
  <2>1. \A v, u \in Thread : task[v] # 0 /\ task[v] = task[u] => v = u
    BY DEF TasksInv, OneWorker
  <2>2. n \in Nat /\ Taken' = n + 1 /\ \A v \in Thread : task'[v] = IF v = w THEN n + 1 ELSE task[v]
    BY <1>3, <1>5
  <2> HIDE DEF n
  <2>3. \A v \in Thread : task'[v] <= n + 1
    BY <1>8, <2>2
  <2>4. ASSUME NEW v \in Thread, NEW u \in Thread, task'[v] # 0, task'[v] = task'[u] PROVE v = u
    BY <1>8, <2>1, <2>2, <2>4
  <2>q. QED BY <2>2, <2>3, <2>4 DEF OneWorker
<1>10. Counts'
  <2>1. n \in Nat /\ Taken' = n + 1 /\ (\A v \in Thread : task'[v] = IF v = w THEN n + 1 ELSE task[v])
    BY <1>3, <1>5
  <2>2. ASSUME NEW i \in 1 .. MaxTasks
        PROVE  /\ i > n => done[i] = 0
               /\ i <= n => done[i] = IF \E v \in Thread : task[v] = i THEN 0 ELSE 1
    BY DEF TasksInv, Counts
  <2> HIDE DEF n
  <2>3. ASSUME NEW i \in 1 .. MaxTasks
        PROVE  /\ i > n + 1 => done[i] = 0
               /\ i <= n + 1 => done[i] = IF \E v \in Thread : task'[v] = i THEN 0 ELSE 1
    <3>1. CASE i > n + 1
      BY <3>1, <2>1, <2>2
    <3>2. CASE i = n + 1
      BY <3>2, <2>1, <2>2
    <3>3. CASE i <= n
      <4>1. i # n + 1 /\ i # 0 /\ i <= n + 1 /\ ~ (i > n + 1)
        BY <3>3, <2>1
      <4>2. (\E v \in Thread : task'[v] = i) <=> (\E v \in Thread : task[v] = i)
        BY <2>1, <4>1
      <4>q. QED BY <2>2, <3>3, <4>1, <4>2
    <3>q. QED BY <3>1, <3>2, <3>3, <2>1
  <2>q. QED BY <2>1, <2>3 DEF Counts
<1>11. Leaving'
  BY <1>1, <1>2 DEF TasksInv, Leaving, TaskTypes
<1>12. NoTaskAsleep'
  <2>1. /\ Cardinality(roused) \in Nat /\ Cardinality(notifying) \in Nat
        /\ Cardinality(roused') >= Cardinality(roused) - 1 /\ Cardinality(roused') \in Nat
    <3>1. roused \in SUBSET Thread /\ notifying \in SUBSET Submitter /\ roused' \in SUBSET Thread
      BY <1>1 DEF TaskTypes
    <3>2. Cardinality(roused) \in Nat /\ Cardinality(notifying) \in Nat /\ Cardinality(roused') \in Nat
      BY <3>1, ThreadSets, SubmitterSets
    <3>3. CASE w \in roused
      <4>1. Cardinality(roused \ {w}) = Cardinality(roused) - 1
        BY <3>1, <3>3, Quits
      <4>q. QED BY <3>2, <4>1
    <3>4. CASE w \notin roused
      <4>1. roused' = roused
        BY <3>1, <3>4
      <4>2. Cardinality(roused') = Cardinality(roused)
        BY <4>1
      <4>3. Cardinality(roused) >= Cardinality(roused) - 1
        BY <3>2
      <4>q. QED BY <3>2, <4>2, <4>3
    <3>q. QED BY <3>2, <3>3, <3>4
  <2>2. asleep # {} => Len(tasks) <= Cardinality(roused) + Cardinality(notifying)
    BY Awake DEF TasksInv
  <2>q. QED BY <1>2, <2>1, <2>2, Awake
<1>q. QED BY <1>6, <1>7, <1>9, <1>10, <1>11, <1>12 DEF TasksInv

\* WorkerLoop under the mutex.
LEMMA LookInv == ASSUME TasksInv, NEW w \in Thread, Tasks!Look(w) PROVE TasksInv'
<1>1. /\ w \notin asleep \cup exited /\ task[w] = 0 /\ roused' = roused \ {w}
      /\ UNCHANGED <<running, notifying, submitted, done, dtor>>
  BY DEF Tasks!Look
<1>2. TaskTypes /\ Len(tasks) \in Nat
  BY DEF TasksInv, TaskTypes
<1>3. Cardinality(notifying) \in Nat /\ Cardinality(roused') \in Nat
  <2>1. roused' \in SUBSET Thread
    BY <1>1, <1>2 DEF TaskTypes
  <2>q. QED BY <1>2, <2>1, ThreadSets, SubmitterSets DEF TaskTypes
<1>4. CASE ~ Tasks!MayGoOn /\ asleep' = asleep \cup {w} /\ UNCHANGED <<tasks, task, exited>>
  <2>1. tasks = <<>> /\ Len(tasks) = 0
    BY <1>4 DEF Tasks!MayGoOn
  <2>2. Taken' = Taken
    BY <1>1, <1>4 DEF Taken
  <2>3. InOrder' /\ OneWorker' /\ Counts' /\ Leaving'
    BY <1>1, <1>4, <2>2 DEF TasksInv, InOrder, OneWorker, Counts, Leaving
  <2>4. NoTaskAsleep'
    <3>1. Len(tasks') = 0 /\ roused' \in SUBSET Thread /\ notifying' = notifying
      BY <1>1, <1>2, <1>4, <2>1 DEF TaskTypes
    <3>2. 0 <= Cardinality(roused') + Cardinality(notifying')
      BY <1>3, <3>1
    <3>q. QED BY <3>1, <3>2, Awake
  <2>5. TaskTypes' /\ asleep' \cap roused' = {}
    BY <1>1, <1>2, <1>4 DEF TaskTypes, TasksInv
  <2>q. QED BY <2>3, <2>4, <2>5 DEF TasksInv
<1>5. CASE Tasks!Leaves /\ exited' = exited \cup {w} /\ UNCHANGED <<tasks, task, asleep>>
  <2>1. tasks = <<>> /\ Len(tasks) = 0 /\ running # TRUE
    BY <1>5 DEF Tasks!Leaves
  <2>2. Taken' = Taken
    BY <1>1, <1>5 DEF Taken
  <2>3. InOrder' /\ OneWorker' /\ Counts'
    BY <1>1, <1>5, <2>2 DEF TasksInv, InOrder, OneWorker, Counts
  <2>4. NoTaskAsleep'
    BY <1>1, <1>3, <1>5, <2>1, Awake
  <2>5. TaskTypes' /\ asleep' \cap roused' = {}
    BY <1>1, <1>2, <1>5 DEF TaskTypes, TasksInv
  <2>6. Leaving'
    <3>1. dtor # "none"
      BY <2>1 DEF TasksInv, Leaving
    <3>q. QED BY <1>1, <1>2, <1>5, <2>1, <3>1 DEF TasksInv, Leaving, TaskTypes
  <2>q. QED BY <2>3, <2>4, <2>5, <2>6 DEF TasksInv
<1>6. CASE /\ Tasks!MayGoOn /\ ~ Tasks!Leaves
           /\ task' = [task EXCEPT ![w] = Head(tasks)] /\ tasks' = Tail(tasks) /\ UNCHANGED <<asleep, exited>>
  <2>1. tasks # <<>>
    BY <1>6 DEF Tasks!MayGoOn, Tasks!Leaves
  <2>q. QED BY <1>1, <1>6, <2>1, TakeInv
<1>q. QED BY <1>4, <1>5, <1>6 DEF Tasks!Look

\* A task ends.
LEMMA ExecuteInv == ASSUME TasksInv, NEW w \in Thread, Tasks!Execute(w) PROVE TasksInv'
<1>1. /\ task[w] # 0 /\ done' = [done EXCEPT ![task[w]] = done[task[w]] + 1] /\ task' = [task EXCEPT ![w] = 0]
      /\ UNCHANGED <<tasks, running, asleep, roused, exited, notifying, submitted, dtor>>
  BY DEF Tasks!Execute
<1> DEFINE k == task[w]
           n == Taken
<1>2. TaskTypes /\ MaxTasks \in Nat
  BY TasksAssumption DEF TasksInv, TasksAssumption
<1>3. n \in Nat /\ n <= MaxTasks /\ Taken' = n
  BY <1>1, <1>2 DEF Taken, TaskTypes
<1>4. k \in 1 .. MaxTasks /\ k <= n /\ k # 0
  <2>1. k \in Nat /\ k <= n
    BY <1>2 DEF TaskTypes, TasksInv, OneWorker
  <2> HIDE DEF k, n
  <2>q. QED BY <1>1, <1>2, <1>3, <2>1 DEF k
<1>5. done' = [done EXCEPT ![k] = done[k] + 1] /\ task' = [task EXCEPT ![w] = 0] /\ task[w] = k
  BY <1>1
<1>6. \A v \in Thread : task[v] = k => v = w
  BY <1>4 DEF TasksInv, OneWorker
<1>7. \A i \in 1 .. MaxTasks : /\ i > n => done[i] = 0
                               /\ i <= n => done[i] = IF \E v \in Thread : task[v] = i THEN 0 ELSE 1
  BY DEF TasksInv, Counts
<1>8. \A v \in Thread : task[v] \in Nat /\ task[v] <= n
  BY <1>2 DEF TaskTypes, TasksInv, OneWorker
<1>9. \A v, u \in Thread : task[v] # 0 /\ task[v] = task[u] => v = u
  BY DEF TasksInv, OneWorker
<1>10. InOrder' /\ asleep' \cap roused' = {} /\ NoTaskAsleep'
  BY <1>1, <1>3 DEF TasksInv, InOrder, NoTaskAsleep, Tasks!NoLostWakeup
<1> HIDE DEF k, n
<1>11. TaskTypes'
  <2>1. done[k] \in Nat /\ done[k] + 1 \in Nat
    BY <1>2, <1>4 DEF TaskTypes
  <2>2. done' \in [1 .. MaxTasks -> Nat] /\ task' \in [Thread -> Nat]
    BY <1>2, <1>5, <2>1 DEF TaskTypes
  <2>q. QED BY <1>1, <1>2, <2>2 DEF TaskTypes
<1>12. \A v \in Thread : task'[v] = IF v = w THEN 0 ELSE task[v]
  BY <1>2, <1>5 DEF TaskTypes
<1>13. \A i \in 1 .. MaxTasks : done'[i] = IF i = k THEN done[k] + 1 ELSE done[i]
  BY <1>2, <1>4, <1>5 DEF TaskTypes
<1>14. OneWorker'
  <2>1. \A v \in Thread : task'[v] <= n
    BY <1>3, <1>8, <1>12
  <2>2. \A v, u \in Thread : task'[v] # 0 /\ task'[v] = task'[u] => v = u
    BY <1>9, <1>12
  <2>q. QED BY <1>3, <2>1, <2>2 DEF OneWorker
<1>15. Counts'
  <2>1. ASSUME NEW i \in 1 .. MaxTasks
        PROVE  /\ i > n => done'[i] = 0
               /\ i <= n => done'[i] = IF \E v \in Thread : task'[v] = i THEN 0 ELSE 1
    <3>1. CASE i = k
      <4>1. done[k] = 0
        BY <1>4, <1>5, <1>7
      <4>2. done'[k] = 1
        BY <1>4, <1>13, <4>1
      <4>3. ~ \E v \in Thread : task'[v] = k
        BY <1>4, <1>6, <1>12
      <4>4. ~ (k > n)
        BY <1>3, <1>4
      <4>q. QED BY <3>1, <4>2, <4>3, <4>4
    <3>2. CASE i # k
      <4>1. done'[i] = done[i]
        BY <3>2, <1>13
      <4>2. (\E v \in Thread : task'[v] = i) <=> (\E v \in Thread : task[v] = i)
        BY <3>2, <1>5, <1>12
      <4>q. QED BY <1>7, <4>1, <4>2
    <3>q. QED BY <3>1, <3>2
  <2>q. QED BY <1>3, <2>1 DEF Counts
<1>16. Leaving'
  <2>1. \A v \in exited : task'[v] = 0
    BY <1>2, <1>12 DEF TasksInv, Leaving, TaskTypes
  <2>q. QED BY <1>1, <2>1 DEF TasksInv, Leaving
<1>q. QED BY <1>10, <1>11, <1>14, <1>15, <1>16 DEF TasksInv

\* The destructor.
LEMMA DestructorInv == ASSUME TasksInv, Tasks!Stop \/ Tasks!NotifyAll \/ Tasks!Join PROVE TasksInv'
<1>1. UNCHANGED <<tasks, task, exited, notifying, submitted, done>>
  BY DEF Tasks!Stop, Tasks!NotifyAll, Tasks!Join
<1>2. TaskTypes
  BY DEF TasksInv
<1>3. Taken' = Taken
  BY <1>1 DEF Taken
<1>4. InOrder' /\ OneWorker' /\ Counts'
  BY <1>1, <1>3 DEF TasksInv, InOrder, OneWorker, Counts
<1>5. CASE Tasks!Stop
  <2>1. running' = FALSE /\ dtor = "none" /\ dtor' = "stop" /\ UNCHANGED <<asleep, roused>>
    BY <1>5 DEF Tasks!Stop
  <2>2. TaskTypes' /\ Leaving' /\ asleep' \cap roused' = {} /\ NoTaskAsleep'
    BY <1>1, <1>2, <2>1 DEF TasksInv, TaskTypes, Leaving, NoTaskAsleep, Tasks!NoLostWakeup
  <2>q. QED BY <1>4, <2>2 DEF TasksInv
<1>6. CASE Tasks!NotifyAll
  <2>1. asleep' = {} /\ roused' = roused \cup asleep /\ dtor = "stop" /\ dtor' = "join" /\ UNCHANGED running
    BY <1>6 DEF Tasks!NotifyAll
  <2>2. TaskTypes' /\ Leaving' /\ asleep' \cap roused' = {} /\ NoTaskAsleep'
    BY <1>1, <1>2, <2>1 DEF TasksInv, TaskTypes, Leaving, NoTaskAsleep, Tasks!NoLostWakeup
  <2>q. QED BY <1>4, <2>2 DEF TasksInv
<1>7. CASE Tasks!Join
  <2>1. exited = Thread /\ dtor = "join" /\ dtor' = "done" /\ UNCHANGED <<running, asleep, roused>>
    BY <1>7 DEF Tasks!Join
  <2>2. TaskTypes' /\ Leaving' /\ asleep' \cap roused' = {} /\ NoTaskAsleep'
    BY <1>1, <1>2, <2>1 DEF TasksInv, TaskTypes, Leaving, NoTaskAsleep, Tasks!NoLostWakeup
  <2>q. QED BY <1>4, <2>2 DEF TasksInv
<1>q. QED BY <1>5, <1>6, <1>7

\* Every step of the thread pool.
LEMMA TasksNextInv == TasksInv /\ [Tasks!Next]_taskVars => TasksInv'
<1> SUFFICES ASSUME TasksInv, [Tasks!Next]_taskVars PROVE TasksInv'
  OBVIOUS
<1>1. CASE Tasks!Next
  BY <1>1, DestructorInv, SubmitInv, NotifyOneInv, LookInv, ExecuteInv DEF Tasks!Next
<1>2. CASE UNCHANGED taskVars
  <2>1. UNCHANGED <<tasks, running, asleep, roused, task, exited, notifying, submitted, done, dtor>>
    BY <1>2 DEF taskVars
  <2>2. Taken' = Taken
    BY <2>1 DEF Taken
  <2>3. TaskTypes' /\ InOrder' /\ OneWorker' /\ Counts' /\ Leaving' /\ asleep' \cap roused' = {} /\ NoTaskAsleep'
    BY <2>1, <2>2 DEF TasksInv, TaskTypes, InOrder, OneWorker, Counts, Leaving, NoTaskAsleep, Tasks!NoLostWakeup
  <2>q. QED BY <2>3 DEF TasksInv
<1>q. QED BY <1>1, <1>2

-----------------------------------------------------------------------------
(***************************************************************************)
(* The process.                                                            *)
(***************************************************************************)
\* The workers of a process use both pools as they are meant to be used: its steps are
\* steps of the connection pool and of the thread pool, those of the handler included that
\* asks for a second connection while it holds one (FileDAO::ConfirmUploadChunk).
THEOREM ProcessUsesPools == ProcessSpec => Spec /\ Tasks!Spec
<1>1. ProcessInit => Init /\ Tasks!Init
  BY DEF ProcessInit
<1>2. [ProcessNext]_processVars => [Next]_vars /\ [Tasks!Next]_Tasks!vars
  <2> SUFFICES ASSUME [ProcessNext]_processVars PROVE [Next]_vars /\ [Tasks!Next]_taskVars
    BY DEF taskVars, Tasks!vars
  <2>1. CASE (DatabaseDown \/ DatabaseUp) /\ UNCHANGED <<taskVars, rest>>
    BY <2>1 DEF Next
  <2>2. ASSUME NEW t \in Thread, Handle(t) PROVE [Next]_vars /\ [Tasks!Next]_taskVars
    <3>1. CASE Ask(t) \/ Continue(t)
      BY <3>1 DEF Ask, Continue, Got, Over, Use, Next, Tasks!Next
    <3>2. CASE Reread(t)
      BY <3>2 DEF Reread, Use, Next
    <3>3. CASE Return(t)
      BY <3>3 DEF Return, Over, Use, Next, Tasks!Next
    <3>q. QED BY <2>2, <3>1, <3>2, <3>3 DEF Handle
  <2>3. ASSUME NEW t \in Thread, Take(t) PROVE [Next]_vars /\ [Tasks!Next]_taskVars
    BY <2>3 DEF Take, Tasks!Next
  <2>4. ASSUME NEW s \in Submitter, Tasks!Submit(s) \/ Tasks!NotifyOne(s), UNCHANGED <<vars, rest>>
        PROVE  [Next]_vars /\ [Tasks!Next]_taskVars
    BY <2>4 DEF Tasks!Next
  <2>5. CASE (Tasks!Stop \/ Tasks!NotifyAll \/ Tasks!Join) /\ UNCHANGED <<vars, rest>>
    BY <2>5 DEF Tasks!Next
  <2>6. CASE UNCHANGED processVars
    BY <2>6 DEF processVars
  <2>q. QED BY <2>1, <2>2, <2>3, <2>4, <2>5, <2>6 DEF ProcessNext
<1>q. QED BY <1>1, <1>2, PTL DEF ProcessSpec, Spec, Tasks!Spec

\* What a process may rely on: at most pool_size connections, and no wakeup lost.
THEOREM ProcessKeepsPool == ProcessSpec => [](AtMostSize /\ NoLostWakeup)
  BY ProcessUsesPools, NeverTooMany, WakeupsSuffice, PTL

\* The inductive invariant of ThreadPool: tasks leave the queue in order, each for one
\* worker, and workers leave only an empty queue.
THEOREM TasksInvariant == ProcessSpec => []TasksInv
<1>1. TasksInv /\ [Tasks!Next]_Tasks!vars => TasksInv'
  BY TasksNextInv DEF taskVars, Tasks!vars
<1>q. QED BY <1>1, TasksInitOK, ProcessUsesPools, PTL DEF Tasks!Spec

\* Submit notifies one worker after its unlock, and that is enough: while a worker sleeps,
\* there is a notification for every queued task.
THEOREM NoTaskForgotten == ProcessSpec => []NoTaskAsleep
  BY TasksInvariant, PTL DEF TasksInv

\* ~ThreadPool joins workers that have drained the queue: every accepted task was executed,
\* and executed once.
THEOREM DestructorDrains == ProcessSpec => []DrainedAtEnd
<1>1. TasksInv => DrainedAtEnd
  <2> SUFFICES ASSUME TasksInv, dtor = "done", NEW i \in 1 .. submitted PROVE done[i] = 1
    BY DEF DrainedAtEnd, Tasks!DrainedAtEnd
  <2>1. exited = Thread /\ tasks = <<>> /\ \A w \in Thread : task[w] = 0
    BY TasksAssumption DEF TasksInv, Leaving, TasksAssumption
  <2>2. Taken = submitted /\ submitted \in Nat /\ submitted <= MaxTasks /\ MaxTasks \in Nat
    BY <2>1, TasksAssumption DEF Taken, TasksInv, TaskTypes, TasksAssumption
  <2>3. i \in 1 .. MaxTasks /\ i <= Taken /\ i # 0
    BY <2>2
  <2>4. ~ \E w \in Thread : task[w] = i
    BY <2>1, <2>3
  <2>q. QED BY <2>3, <2>4 DEF TasksInv, Counts
<1>q. QED BY <1>1, TasksInvariant, PTL
=============================================================================
