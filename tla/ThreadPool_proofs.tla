--------------------------- MODULE ThreadPool_proofs ---------------------------
(***************************************************************************)
(* Proofs about ThreadPool, for any number of clients, workers and items.  *)
(*                                                                         *)
(* NoWorkerLeft is inductive together with the types.  WorkersServe needs  *)
(* to know what the queue, the owner and the threads' states are like      *)
(* until the queue is disabled for the first time (StillServing).          *)
(* CountersTell needs to know where every item is (Placed) and what each   *)
(* of the two counters counts on its own (Counts).                         *)
(***************************************************************************)
EXTENDS ThreadPool, FiniteSetTheorems, TLAPS

(* A worker that was not created yet has no thread and no Task; a Task that *)
(* did not get into the list is not in it.                                 *)
NotCreated ==
  /\ \A w \in Workers : w > created => worker[w] = "none" /\ w \notin Range(m_tasks)
  /\ owner \in {"grow", "idle", "disable"} => unlisted = 0
  /\ unlisted \notin Range(m_tasks)

StillServing ==
  ~disabled =>
    /\ enabled
    /\ owner \in {"grow", "idle", "disable"} \/ unlisted # 0
    /\ \A w \in Range(m_tasks) : /\ worker[w] \in {"created", "loop", "get", "run"}
                                 /\ m_state[w] \in {"STARTING", "RUNNING"}

IInv == TypeOK /\ NotCreated /\ NoWorkerLeft /\ StillServing

-----------------------------------------------------------------------------
(* What Append, Head and Tail do to the elements of a sequence. *)

LEMMA RangeAppend ==
  ASSUME NEW S, NEW s \in Seq(S), NEW e \in S
  PROVE  /\ Append(s, e) \in Seq(S) /\ Len(Append(s, e)) = Len(s) + 1
         /\ Range(Append(s, e)) = Range(s) \cup {e}
<1>1. /\ Append(s, e) \in Seq(S) /\ Len(Append(s, e)) = Len(s) + 1
      /\ DOMAIN s = 1..Len(s) /\ DOMAIN Append(s, e) = 1..(Len(s) + 1) /\ Len(s) \in Nat
  OBVIOUS
<1>2. /\ \A i \in 1..Len(s) : Append(s, e)[i] = s[i]
      /\ Append(s, e)[Len(s) + 1] = e
  OBVIOUS
<1>3. 1..(Len(s) + 1) = 1..Len(s) \cup {Len(s) + 1}
  BY <1>1
<1>4. \A x \in Range(Append(s, e)) : x \in Range(s) \cup {e}
  BY <1>1, <1>2, <1>3 DEF Range
<1>5. \A x \in Range(s) \cup {e} : x \in Range(Append(s, e))
  BY <1>1, <1>2, <1>3 DEF Range
<1> QED
  BY <1>1, <1>4, <1>5

LEMMA RangeTail ==
  ASSUME NEW S, NEW s \in Seq(S), s # <<>>
  PROVE  /\ Tail(s) \in Seq(S) /\ Len(Tail(s)) = Len(s) - 1
         /\ Head(s) \in S
         /\ Range(s) = Range(Tail(s)) \cup {Head(s)}
<1>1. /\ Tail(s) \in Seq(S) /\ Len(Tail(s)) = Len(s) - 1 /\ Head(s) \in S
      /\ Head(s) = s[1] /\ Len(s) \in Nat \ {0}
      /\ DOMAIN s = 1..Len(s) /\ DOMAIN Tail(s) = 1..(Len(s) - 1)
  OBVIOUS
<1>2. \A i \in 1..(Len(s) - 1) : Tail(s)[i] = s[i + 1]
  OBVIOUS
<1>3. ASSUME NEW i \in 1..Len(s)
      PROVE  s[i] \in Range(Tail(s)) \cup {Head(s)}
  <2>1. CASE i = 1
    BY <2>1, <1>1
  <2>2. CASE i # 1
    <3>1. i - 1 \in 1..(Len(s) - 1) /\ (i - 1) + 1 = i
      BY <2>2, <1>1
    <3>2. Tail(s)[i - 1] = s[i]
      BY <3>1, <1>2
    <3> QED
      BY <3>1, <3>2, <1>1 DEF Range
  <2> QED
    BY <2>1, <2>2
<1>4. ASSUME NEW i \in 1..(Len(s) - 1)
      PROVE  Tail(s)[i] \in Range(s)
  <2>1. i + 1 \in 1..Len(s) /\ Tail(s)[i] = s[i + 1]
    BY <1>1, <1>2
  <2> QED
    BY <2>1, <1>1 DEF Range
<1>5. Head(s) \in Range(s)
  BY <1>1 DEF Range
<1>6. \A x \in Range(s) : x \in Range(Tail(s)) \cup {Head(s)}
  BY <1>1, <1>3 DEF Range
<1>7. \A x \in Range(Tail(s)) : x \in Range(s)
  BY <1>1, <1>4 DEF Range
<1> QED
  BY <1>1, <1>5, <1>6, <1>7

-----------------------------------------------------------------------------
LEMMA Initially == Init => IInv
<1> SUFFICES ASSUME Init PROVE IInv
  OBVIOUS
<1> USE PoolAssumption DEF Init, Workers, Items
<1>1. /\ m_state \in [Workers -> {"READY"}] /\ worker \in [Workers -> {"none"}]
      /\ item \in [Workers -> {0}] /\ client \in [Clients -> {"idle"}]
      /\ fate \in [Items -> {"none"}]
  BY Zenon
<1>2. Range(m_tasks) = {}
  BY DEF Range
<1>3. TypeOK
  <2>1. m_queue \in Seq(Items) /\ m_tasks \in Seq(Workers) /\ Len(m_queue) = 0
    OBVIOUS
  <2>2. /\ m_state \in [Workers -> {"READY", "STARTING", "RUNNING", "STOPPING", "STOPPED"}]
        /\ worker \in [Workers -> Live \cup {"none", "ended", "joined"}]
        /\ client \in [Clients -> {"idle", "count"}]
        /\ fate \in [Items -> {"none", "queued", "running", "done", "threw", "cleared", "refused"}]
    BY <1>1
  <2>3. 0 \in 0..MAX_ITEMS /\ item \in [Workers -> 0..MAX_ITEMS]
    BY <1>1
  <2>4. \A w \in Workers : (item[w] # 0) = (worker[w] = "run")
    BY <1>1
  <2>5. created \in 0..MAX_WORKERS /\ toCreate \in 0..(MAX_WORKERS - created)
        /\ executed \in 0..MAX_ITEMS /\ m_inputCounter \in Nat /\ m_outputCounter \in Nat
        /\ Len(m_queue) <= executed
    BY <2>1
  <2> QED
    BY <2>1, <2>2, <2>3, <2>4, <2>5 DEF TypeOK
<1>4. NotCreated /\ NoWorkerLeft /\ StillServing
  BY <1>1, <1>2 DEF NotCreated, NoWorkerLeft, StillServing, Live
<1> QED
  BY <1>3, <1>4 DEF IInv

-----------------------------------------------------------------------------
LEMMA Preserved == IInv /\ [Next]_vars => IInv'
<1> SUFFICES ASSUME IInv, [Next]_vars PROVE IInv'
  OBVIOUS
<1> USE PoolAssumption DEF IInv, TypeOK, NotCreated, NoWorkerLeft, StillServing, Live,
    Workers, Items, queueVars, workerVars, clientVars, ownerVars, history, Step, Usable, Destroys
<1>1. CASE IncreaseCapacity
  BY <1>1 DEF IncreaseCapacity
<1>2. CASE Stop
  BY <1>2 DEF Stop
<1>3. CASE Destructor
  BY <1>3 DEF Destructor
<1>4. CASE CreateTask
  <2>1. created' \in Workers /\ created' = created + 1 /\ worker[created'] = "none"
    BY <1>4 DEF CreateTask, TaskStarts
  <2>2. /\ m_tasks' \in Seq(Workers)
        /\ Range(m_tasks') = Range(m_tasks) \cup {created'}
    <3>1. m_tasks' = Append(m_tasks, created') /\ m_tasks \in Seq(Workers)
      BY <1>4 DEF CreateTask
    <3> HIDE DEF Workers, TypeOK
    <3> QED
      BY <3>1, <2>1, RangeAppend
  <2>3. TypeOK'
    BY <1>4, <2>1, <2>2 DEF CreateTask, TaskStarts
  <2>4. NotCreated' /\ NoWorkerLeft' /\ StillServing'
    BY <1>4, <2>1, <2>2 DEF CreateTask, TaskStarts
  <2> QED
    BY <2>3, <2>4
<1>4a. CASE CreateTaskUnlisted
  <2>1. created' \in Workers /\ created' = created + 1 /\ worker[created'] = "none"
    BY <1>4a DEF CreateTaskUnlisted, TaskStarts
  <2>2. created' \notin Range(m_tasks) /\ m_tasks' = m_tasks /\ unlisted' = created'
    BY <1>4a, <2>1 DEF CreateTaskUnlisted
  <2>3. TypeOK'
    BY <1>4a, <2>1, <2>2 DEF CreateTaskUnlisted, TaskStarts
  <2>4. NotCreated' /\ NoWorkerLeft' /\ StillServing'
    BY <1>4a, <2>1, <2>2 DEF CreateTaskUnlisted, TaskStarts
  <2> QED
    BY <2>3, <2>4
<1>5. CASE CreateTaskFails
  BY <1>5 DEF CreateTaskFails, AfterFailure
<1>6. CASE Created
  BY <1>6 DEF Created
<1>7. CASE StopDisable
  BY <1>7 DEF StopDisable
<1>8. CASE TaskStopTest
  BY <1>8 DEF TaskStopTest
<1>9. CASE TaskStopWrite
  BY <1>9 DEF TaskStopWrite, Doomed
<1>10. CASE TaskJoin
  <2>1. owner = "join" /\ Destroys
    BY <1>10 DEF TaskJoin
  <2>2. CASE unlisted # 0
    <3>1. /\ worker[unlisted] = "ended" /\ worker' = [worker EXCEPT ![unlisted] = "joined"]
          /\ m_state' = [m_state EXCEPT ![unlisted] = "READY"]
          /\ m_tasks' = m_tasks /\ unlisted' = 0 /\ owner' \in {"disable", "idle"}
          /\ UNCHANGED <<queueVars, item, m_outputCounter, clientVars, toCreate, phase, created, history>>
      BY <1>10, <2>2 DEF TaskJoin, Doomed, Destroyed, AfterFailure
    <3>2. unlisted \in Workers /\ unlisted \notin Range(m_tasks) /\ 0 \notin Range(m_tasks)
      <4>1. m_tasks \in Seq(Workers) /\ 0 \notin Workers /\ unlisted \in Workers
        BY <2>2
      <4> HIDE DEF Workers
      <4> QED
        BY <4>1 DEF Range
    <3>3. TypeOK'
      BY SMTT(30), <3>1, <3>2
    <3>4. NotCreated' /\ NoWorkerLeft'
      BY SMTT(30), <3>1, <3>2
    <3>5. StillServing'
      BY SMTT(30), <3>1, <3>2
    <3> QED
      BY <3>3, <3>4, <3>5
  <2>3. CASE unlisted = 0
    <3>1. /\ Tail(m_tasks) \in Seq(Workers) /\ Head(m_tasks) \in Workers
          /\ Range(m_tasks) = Range(Tail(m_tasks)) \cup {Head(m_tasks)}
      BY <2>1, <2>3, RangeTail
    <3> QED
      BY <1>10, <2>1, <2>3, <3>1 DEF TaskJoin, Doomed, Destroyed
  <2> QED
    BY <2>2, <2>3
<1>11. CASE Stopped
  BY <1>11 DEF Stopped
<1>12. ASSUME NEW w \in Workers, WorkerStarts(w) PROVE IInv'
  BY SMTT(30), <1>12 DEF WorkerStarts
<1>13. ASSUME NEW w \in Workers, WorkerTests(w) PROVE IInv'
  BY SMTT(30), <1>13 DEF WorkerTests
<1>14. ASSUME NEW w \in Workers, WorkerGets(w) PROVE IInv'
  <2>1. /\ Tail(m_queue) \in Seq(Items) /\ Head(m_queue) \in Items
        /\ Len(Tail(m_queue)) = Len(m_queue) - 1 /\ Len(m_queue) \in Nat
    BY SMTT(30), <1>14, RangeTail DEF WorkerGets
  <2>2. TypeOK'
    <3>1. m_queue' \in Seq(Items) /\ Len(m_queue') <= executed'
      BY <1>14, <2>1 DEF WorkerGets
    <3>2. item' \in [Workers -> 0..MAX_ITEMS] /\ worker' \in [Workers -> Live \cup {"none", "ended", "joined"}]
          /\ \A v \in Workers : (item'[v] # 0) = (worker'[v] = "run")
      <4>1. item' = [item EXCEPT ![w] = Head(m_queue)] /\ worker' = [worker EXCEPT ![w] = "run"]
        BY <1>14 DEF WorkerGets
      <4>2. Head(m_queue) \in 0..MAX_ITEMS /\ Head(m_queue) # 0
        BY <2>1
      <4>3. item' \in [Workers -> 0..MAX_ITEMS]
        BY <4>1, <4>2
      <4>4. worker' \in [Workers -> Live \cup {"none", "ended", "joined"}]
        BY <4>1
      <4>5. ASSUME NEW v \in Workers
            PROVE  (item'[v] # 0) = (worker'[v] = "run")
        <5>1. CASE v = w
          BY <5>1, <4>1, <4>2
        <5>2. CASE v # w
          BY <5>2, <4>1
        <5> QED
          BY <5>1, <5>2
      <4> QED
        BY <4>3, <4>4, <4>5
    <3>3. fate' \in [Items -> {"none", "queued", "running", "done", "threw", "cleared", "refused"}]
      BY <1>14, <2>1 DEF WorkerGets
    <3> QED
      BY <1>14, <3>1, <3>2, <3>3 DEF WorkerGets
  <2>3. /\ worker[w] = "get" /\ worker' = [worker EXCEPT ![w] = "run"]
        /\ UNCHANGED <<created, m_tasks, unlisted, m_state, owner, enabled, disabled>>
    BY <1>14 DEF WorkerGets
  <2>4. /\ worker \in [Workers -> Live \cup {"none", "ended", "joined"}]
        /\ NotCreated /\ NoWorkerLeft /\ StillServing
    OBVIOUS
  <2>5. NotCreated' /\ NoWorkerLeft' /\ StillServing'
    <3> HIDE DEF IInv, TypeOK
    <3>1. NotCreated'
      BY <2>3, <2>4
    <3>2. NoWorkerLeft'
      BY <2>3, <2>4
    <3>3. StillServing'
      BY <2>3, <2>4
    <3> QED
      BY <3>1, <3>2, <3>3
  <2> QED
    BY <2>2, <2>5
<1>15. ASSUME NEW w \in Workers, WorkerRefused(w) PROVE IInv'
  BY SMTT(30), <1>15 DEF WorkerRefused
<1>16. ASSUME NEW w \in Workers, WorkerRuns(w) PROVE IInv'
  BY SMTT(30), <1>16 DEF WorkerRuns
<1>17. ASSUME NEW w \in Workers, WorkerThrows(w) PROVE IInv'
  BY SMTT(30), <1>17 DEF WorkerThrows
<1>18. ASSUME NEW w \in Workers, WorkerStops(w) PROVE IInv'
  BY SMTT(30), <1>18 DEF WorkerStops
<1>19. ASSUME NEW w \in Workers, WorkerEnds(w) PROVE IInv'
  BY SMTT(30), <1>19 DEF WorkerEnds
<1>20. ASSUME NEW c \in Clients, ExecutePut(c) PROVE IInv'
  <2>1. executed' \in Items /\ executed' = executed + 1
    BY <1>20 DEF ExecutePut
  <2>2. /\ Append(m_queue, executed') \in Seq(Items)
        /\ Len(Append(m_queue, executed')) = Len(m_queue) + 1
    BY <2>1, RangeAppend
  <2>3. m_queue' \in Seq(Items) /\ Len(m_queue') <= executed'
    <3>1. m_queue' = IF enabled THEN Append(m_queue, executed') ELSE m_queue
      BY <1>20 DEF ExecutePut
    <3>2. m_queue \in Seq(Items) /\ Len(m_queue) \in Nat /\ Len(m_queue) <= executed
          /\ executed \in Nat
      OBVIOUS
    <3> HIDE DEF IInv, TypeOK
    <3>3. CASE enabled
      BY <3>1, <3>2, <3>3, <2>1, <2>2
    <3>4. CASE ~enabled
      BY <3>1, <3>2, <3>4, <2>1
    <3> QED
      BY <3>3, <3>4
  <2>4. fate' \in [Items -> {"none", "queued", "running", "done", "threw", "cleared", "refused"}]
    BY <1>20, <2>1 DEF ExecutePut
  <2>5. TypeOK'
    BY SMTT(30), <1>20, <2>1, <2>3, <2>4 DEF ExecutePut
  <2>6. NotCreated' /\ NoWorkerLeft' /\ StillServing'
    BY <1>20 DEF ExecutePut
  <2> QED
    BY <2>5, <2>6
<1>21. ASSUME NEW c \in Clients, Clear(c) PROVE IInv'
  BY <1>21 DEF Clear
<1>22. ASSUME NEW c \in Clients, Disable(c) PROVE IInv'
  BY <1>22 DEF Disable
<1>23. ASSUME NEW c \in Clients, Enable(c) PROVE IInv'
  BY <1>23 DEF Enable
<1>24. ASSUME NEW c \in Clients, ExecuteCount(c) PROVE IInv'
  BY <1>24 DEF ExecuteCount
<1>25. CASE UNCHANGED vars
  BY <1>25 DEF vars
<1> QED
  BY <1>1, <1>2, <1>3, <1>4, <1>4a, <1>5, <1>6, <1>7, <1>8, <1>9, <1>10, <1>11, <1>12, <1>13, <1>14, <1>15, <1>16, <1>17, <1>18, <1>19, <1>20, <1>21, <1>22, <1>23, <1>24, <1>25
     DEF Next, OwnerStep, WorkerStep, ClientCall, Rests

-----------------------------------------------------------------------------
(* The queue, the Tasks and their threads keep their types, whoever calls  *)
(* what: a worker has an item in hand exactly while it runs it, and stop() *)
(* destroys no Task that is not in the list.                               *)
THEOREM TypeCorrect == Spec => []TypeOK
<1>1. IInv => TypeOK
  BY DEF IInv
<1> QED
  BY <1>1, Initially, Preserved, PTL DEF Spec

(* stop(), ~ThreadPoolT and the constructor that throws leave no thread    *)
(* behind that could still touch the queue or the counters.                *)
THEOREM NoWorkerIsLeft == Spec => []NoWorkerLeft
<1>1. IInv => NoWorkerLeft
  BY DEF IInv
<1> QED
  BY <1>1, Initially, Preserved, PTL DEF Spec

(* Until the queue is disabled for the first time, the pool has as many    *)
(* serving threads as Tasks, whatever the items throw.                     *)
THEOREM AllWorkersServe == Spec => []WorkersServe
<1>1. IInv => WorkersServe
  BY DEF IInv, StillServing, WorkersServe
<1> QED
  BY <1>1, Initially, Preserved, PTL DEF Spec
-----------------------------------------------------------------------------
(* An item is nowhere until it is put; then it is in the queue, once, or   *)
(* in the hand of one worker, or done with.                                *)
Placed ==
  /\ \A i \in Items : fate[i] = "none" <=> i > executed
  /\ \A i \in Items : fate[i] = "queued" <=> i \in Range(m_queue)
  /\ \A j, k \in 1..Len(m_queue) : m_queue[j] = m_queue[k] => j = k
  /\ \A w \in Workers : item[w] # 0 => fate[item[w]] = "running"
  /\ \A v, w \in Workers : item[v] = item[w] /\ item[v] # 0 => v = w
  /\ \A i \in Items : fate[i] = "running" => \E w \in Workers : item[w] = i

Calling == {c \in Clients : client[c] = "count"}
With(S) == {i \in Items : fate[i] \in S}

(* m_inputCounter lags behind by the calls that have put and not counted;  *)
(* m_outputCounter does not lag.                                           *)
Counts ==
  /\ m_inputCounter + Cardinality(Calling) = executed
  /\ m_outputCounter = Cardinality(With({"done"}))

LEMMA PlacedAndCounted == Init => Placed /\ Counts
<1> SUFFICES ASSUME Init PROVE Placed /\ Counts
  OBVIOUS
<1> USE PoolAssumption DEF Init, Items, Workers
<1>1. Range(m_queue) = {} /\ Len(m_queue) = 0
  BY DEF Range
<1>2. Placed
  BY <1>1 DEF Placed
<1>3. Calling = {} /\ With({"done"}) = {}
  BY DEF Calling, With
<1>4. m_inputCounter = 0 /\ m_outputCounter = 0 /\ executed = 0
  OBVIOUS
<1> HIDE DEF Init
<1> QED
  BY <1>2, <1>3, <1>4, FS_EmptySet DEF Counts

(* Where items are changes as they are put, taken, finished and cleared.   *)
LEMMA PlacedPreserved ==
  ASSUME IInv, Placed, [Next]_vars
  PROVE  Placed'
<1> USE PoolAssumption DEF IInv, Placed
<1> DEFINE placing == <<fate, m_queue, item, executed>>
<1>1. ASSUME UNCHANGED placing PROVE Placed'
  BY <1>1
<1>2. /\ m_queue \in Seq(Items) /\ Len(m_queue) \in Nat /\ executed \in Nat
      /\ item \in [Workers -> 0..MAX_ITEMS] /\ 0 \notin Items /\ Items \subseteq Nat
      /\ fate \in [Items -> {"none", "queued", "running", "done", "threw", "cleared", "refused"}]
      /\ \A w \in Workers : (item[w] # 0) = (worker[w] = "run")
      /\ \A w \in Workers : item[w] # 0 => item[w] \in Items
  BY DEF TypeOK, Items
<1>3. \A x : x \in Range(m_queue) <=> \E j \in 1..Len(m_queue) : x = m_queue[j]
  BY <1>2 DEF Range
<1>4. ASSUME NEW w \in Workers, WorkerGets(w) PROVE Placed'
  <2> DEFINE first == Head(m_queue)
  <2>1. /\ m_queue # <<>> /\ m_queue' = Tail(m_queue)
        /\ item' = [item EXCEPT ![w] = first] /\ fate' = [fate EXCEPT ![first] = "running"]
        /\ executed' = executed /\ item[w] = 0
    <3>1. worker[w] = "get" /\ executed' = executed
      BY <1>4 DEF WorkerGets, Step, clientVars
    <3> QED
      BY <1>2, <1>4, <3>1 DEF WorkerGets
  <2>2. /\ first \in Items /\ first = m_queue[1] /\ Len(m_queue) > 0
        /\ Len(m_queue') = Len(m_queue) - 1
        /\ \A j \in 1..Len(m_queue') : m_queue'[j] = m_queue[j + 1]
        /\ Range(m_queue) = Range(m_queue') \cup {first}
    BY <1>2, <2>1, RangeTail
  <2>3. \A j, k \in 1..Len(m_queue') : m_queue'[j] = m_queue'[k] => j = k
    BY <1>2, <2>2
  <2>4. first \notin Range(m_queue')
    <3>1. m_queue' \in Seq(Items)
      BY <1>2, <2>1, <2>2, RangeTail
    <3>2. ASSUME NEW j \in 1..Len(m_queue'), m_queue'[j] = first PROVE FALSE
      BY <1>2, <2>2, <3>2
    <3> QED
      BY <3>1, <3>2 DEF Range
  <2>5. fate[first] = "queued"
    BY <2>2
  <2> HIDE DEF Placed, first
  <2>6. (\A i \in Items : fate[i] = "none" <=> i > executed)'
    BY <1>2, <2>1, <2>2, <2>5 DEF Placed
  <2>7. (\A i \in Items : fate[i] = "queued" <=> i \in Range(m_queue))'
    BY <1>2, <2>1, <2>2, <2>4, <2>5 DEF Placed
  <2>8. (\A v \in Workers : item[v] # 0 => fate[item[v]] = "running")'
    BY <1>2, <2>1, <2>2, <2>5 DEF Placed
  <2>9. (\A u, v \in Workers : item[v] = item[u] /\ item[v] # 0 => v = u)'
    <3>1. \A v \in Workers : item[v] # first
      BY <1>2, <2>2, <2>5 DEF Placed
    <3> QED
      BY <1>2, <2>1, <3>1 DEF Placed
  <2>10. (\A i \in Items : fate[i] = "running" => \E v \in Workers : item[v] = i)'
    <3>1. ASSUME NEW i \in Items, fate'[i] = "running" PROVE \E v \in Workers : item'[v] = i
      <4>1. CASE i = first
        BY <1>2, <2>1, <4>1
      <4>2. CASE i # first
        <5>1. PICK v \in Workers : item[v] = i
          BY <1>2, <2>1, <2>2, <3>1, <4>2 DEF Placed
        <5>2. v # w
          BY <1>2, <2>1, <5>1
        <5> QED
          BY <1>2, <2>1, <5>1, <5>2
      <4> QED
        BY <4>1, <4>2
    <3> QED
      BY <3>1
  <2> QED
    BY <2>3, <2>6, <2>7, <2>8, <2>9, <2>10 DEF Placed
<1>5. ASSUME NEW w \in Workers, WorkerRuns(w) \/ WorkerThrows(w) PROVE Placed'
  <2>1. /\ item[w] # 0 /\ item' = [item EXCEPT ![w] = 0]
        /\ fate' = [fate EXCEPT ![item[w]] = "done"] \/ fate' = [fate EXCEPT ![item[w]] = "threw"]
        /\ m_queue' = m_queue /\ executed' = executed
    BY <1>2, <1>5 DEF WorkerRuns, WorkerThrows, Step, queueVars, clientVars
  <2>2. item[w] \in Items /\ fate[item[w]] = "running"
    BY <1>2, <2>1
  <2>3. \A v \in Workers : v # w => item[v] # item[w]
    BY <2>1
  <2>4. \A i \in Items : i # item[w] => fate'[i] = fate[i]
    BY <1>2, <2>1
  <2>5. fate'[item[w]] \in {"done", "threw"}
    BY <1>2, <2>1, <2>2
  <2>6. \A v \in Workers : item'[v] = IF v = w THEN 0 ELSE item[v]
    BY <1>2, <2>1
  <2>7. Range(m_queue)' = Range(m_queue)
    BY <2>1
  <2> HIDE DEF Placed
  <2> QED
    BY <1>2, <2>1, <2>2, <2>3, <2>4, <2>5, <2>6, <2>7 DEF Placed
<1>6. ASSUME NEW c \in Clients, ExecutePut(c) PROVE Placed'
  <2>1. /\ executed' = executed + 1 /\ executed' \in Items /\ item' = item
        /\ m_queue' = IF enabled THEN Append(m_queue, executed') ELSE m_queue
        /\ fate' = [fate EXCEPT ![executed'] = IF enabled THEN "queued" ELSE "refused"]
    BY <1>2, <1>6 DEF ExecutePut, TypeOK, Items, workerVars
  <2>2. fate[executed'] = "none"
    BY <1>2, <2>1
  <2>3. executed' \notin Range(m_queue)
    BY <2>1, <2>2
  <2>4. Range(m_queue') = IF enabled THEN Range(m_queue) \cup {executed'} ELSE Range(m_queue)
    <3>1. m_queue \in Seq(Items) /\ executed' \in Items
      BY <1>2, <2>1
    <3> HIDE DEF Items, IInv, Placed
    <3>2. Range(Append(m_queue, executed')) = Range(m_queue) \cup {executed'}
      BY <3>1, RangeAppend
    <3> QED
      BY <2>1, <3>2
  <2>5. \A j, k \in 1..Len(m_queue') : m_queue'[j] = m_queue'[k] => j = k
    <3>1. CASE ~enabled
      BY <2>1, <3>1
    <3>2. CASE enabled
      <4>1. /\ Len(m_queue') = Len(m_queue) + 1
            /\ \A j \in 1..Len(m_queue) : m_queue'[j] = m_queue[j]
            /\ m_queue'[Len(m_queue) + 1] = executed'
        BY <1>2, <2>1, <3>2
      <4>2. \A j \in 1..Len(m_queue) : m_queue[j] # executed'
        BY <1>3, <2>3
      <4> QED
        BY <1>2, <4>1, <4>2
    <3> QED
      BY <3>1, <3>2
  <2>6. \A i \in Items : fate'[i] = IF i = executed' THEN (IF enabled THEN "queued" ELSE "refused") ELSE fate[i]
    BY <1>2, <2>1
  <2> HIDE DEF Placed
  <2>7. (\A i \in Items : fate[i] = "none" <=> i > executed)'
    BY <1>2, <2>1, <2>6 DEF Placed
  <2>8. (\A i \in Items : fate[i] = "queued" <=> i \in Range(m_queue))'
    BY <1>2, <2>1, <2>2, <2>4, <2>6 DEF Placed
  <2>9. \A i \in Items : fate'[i] = "running" <=> fate[i] = "running"
    BY <2>1, <2>2, <2>6
  <2> QED
    BY <1>2, <2>1, <2>5, <2>7, <2>8, <2>9 DEF Placed
<1>7. ASSUME NEW c \in Clients, Clear(c) PROVE Placed'
  <2>1. /\ m_queue' = <<>> /\ item' = item /\ executed' = executed
        /\ fate' = [i \in Items |-> IF i \in Range(m_queue) THEN "cleared" ELSE fate[i]]
    BY <1>7 DEF Clear, workerVars, clientVars
  <2>2. Range(m_queue') = {} /\ Len(m_queue') = 0
    BY <2>1 DEF Range
  <2>3. \A i \in Items : fate'[i] = IF fate[i] = "queued" THEN "cleared" ELSE fate[i]
    BY <2>1
  <2> HIDE DEF Placed
  <2> QED
    BY <1>2, <2>1, <2>2, <2>3 DEF Placed
<1>8. CASE IncreaseCapacity \/ Stop \/ Destructor \/ OwnerStep
  BY <1>1, <1>8 DEF IncreaseCapacity, Stop, Destructor, OwnerStep, CreateTask, CreateTaskUnlisted, TaskStarts, CreateTaskFails, Created,
     StopDisable, TaskStopTest, TaskStopWrite, TaskJoin, Stopped, queueVars, workerVars, clientVars, history
<1>9. ASSUME NEW w \in Workers,
             WorkerStarts(w) \/ WorkerTests(w) \/ WorkerRefused(w) \/ WorkerStops(w) \/ WorkerEnds(w)
      PROVE  Placed'
  BY <1>1, <1>9 DEF WorkerStarts, WorkerTests, WorkerRefused, WorkerStops, WorkerEnds, queueVars, clientVars, history
<1>10. ASSUME NEW c \in Clients, Disable(c) \/ Enable(c) \/ ExecuteCount(c) PROVE Placed'
  BY <1>1, <1>10 DEF Disable, Enable, ExecuteCount, queueVars, workerVars, clientVars, history
<1>11. CASE UNCHANGED vars
  BY <1>1, <1>11 DEF vars, queueVars, workerVars, clientVars, history
<1> QED
  BY <1>4, <1>5, <1>6, <1>7, <1>8, <1>9, <1>10, <1>11 DEF Next, WorkerStep, ClientCall, Rests

(* Each counter moves with what it counts.                                 *)
LEMMA CountsPreserved ==
  ASSUME IInv, Placed, Counts, [Next]_vars
  PROVE  Counts'
<1>1. /\ IsFiniteSet(Items) /\ IsFiniteSet(Clients)
      /\ m_inputCounter \in Nat /\ m_outputCounter \in Nat /\ executed \in Nat
      /\ client \in [Clients -> {"idle", "count"}]
      /\ fate \in [Items -> {"none", "queued", "running", "done", "threw", "cleared", "refused"}]
  <2>1. IsFiniteSet(Items) /\ IsFiniteSet(Clients)
    BY PoolAssumption, FS_Interval DEF Items
  <2> QED
    BY <2>1, PoolAssumption DEF IInv, TypeOK
<1>2. /\ \A i \in Items : fate[i] = "none" <=> i > executed
      /\ \A i \in Items : fate[i] = "queued" <=> i \in Range(m_queue)
  BY DEF Placed
<1> DEFINE counting == <<m_inputCounter, m_outputCounter, executed, client, fate>>
           done == With({"done"})
<1>3. ASSUME UNCHANGED counting PROVE Counts'
  BY <1>3 DEF Counts, Calling, With
<1>4. Cardinality(Calling) \in Nat
  BY <1>1, FS_Subset, FS_CardinalityType DEF Calling
<1>5. Cardinality(done) \in Nat /\ IsFiniteSet(done) /\ IsFiniteSet(Calling)
  BY <1>1, FS_Subset, FS_CardinalityType DEF With, Calling
<1>6. ASSUME NEW c \in Clients, client[c] = "idle", client' = [client EXCEPT ![c] = "count"]
      PROVE  Cardinality(Calling') = Cardinality(Calling) + 1
  <2>1. Calling' = Calling \cup {c} /\ c \notin Calling
    BY <1>1, <1>6 DEF Calling
  <2> QED
    BY <1>5, <2>1, FS_AddElement
<1>7. ASSUME NEW i \in Items, NEW v, fate[i] # "done", v # "done", fate' = [fate EXCEPT ![i] = v]
      PROVE  done' = done
  BY <1>1, <1>7 DEF With
<1>8. ASSUME NEW c \in Clients, ExecutePut(c) PROVE Counts'
  <2> DEFINE v == IF enabled THEN "queued" ELSE "refused"
  <2>1. /\ client[c] = "idle" /\ client' = [client EXCEPT ![c] = "count"]
        /\ executed' = executed + 1 /\ executed' \in Items
        /\ fate' = [fate EXCEPT ![executed'] = v]
        /\ m_inputCounter' = m_inputCounter /\ m_outputCounter' = m_outputCounter
    BY <1>1, <1>8, PoolAssumption DEF ExecutePut, Usable, Items, workerVars
  <2>2. fate[executed'] # "done"
    BY <1>1, <1>2, <2>1
  <2>3. done' = done
    <3>1. v # "done"
      OBVIOUS
    <3> HIDE DEF v, done
    <3> QED
      BY <1>7, <2>1, <2>2, <3>1
  <2>4. Cardinality(Calling') = Cardinality(Calling) + 1
    BY <1>6, <2>1
  <2> QED
    BY <1>1, <1>4, <2>1, <2>3, <2>4 DEF Counts
<1>9. ASSUME NEW c \in Clients, ExecuteCount(c) PROVE Counts'
  <2>1. /\ client[c] = "count" /\ client' = [client EXCEPT ![c] = "idle"]
        /\ m_inputCounter' = m_inputCounter + 1
        /\ UNCHANGED <<executed, fate, m_outputCounter>>
    BY <1>9 DEF ExecuteCount, workerVars, history
  <2>2. Cardinality(Calling') = Cardinality(Calling) - 1
    <3>1. Calling' = Calling \ {c} /\ c \in Calling
      BY <1>1, <2>1 DEF Calling
    <3> QED
      BY <1>5, <3>1, FS_RemoveElement
  <2>3. done' = done
    BY <2>1 DEF With
  <2> QED
    BY <1>1, <1>4, <2>1, <2>2, <2>3 DEF Counts
<1>10. ASSUME NEW w \in Workers, WorkerGets(w) \/ WorkerRuns(w) \/ WorkerThrows(w) PROVE Counts'
  <2>1. /\ UNCHANGED <<client, executed, m_inputCounter>>
        /\ Calling' = Calling
    BY <1>10 DEF WorkerGets, WorkerRuns, WorkerThrows, clientVars, Calling
  <2>2. CASE WorkerGets(w)
    <3>1. /\ Head(m_queue) \in Range(m_queue) /\ Head(m_queue) \in Items
          /\ fate' = [fate EXCEPT ![Head(m_queue)] = "running"] /\ m_outputCounter' = m_outputCounter
      BY <2>2, RangeTail DEF WorkerGets, IInv, TypeOK
    <3>2. done' = done
      <4>1. fate[Head(m_queue)] # "done"
        BY <1>2, <3>1
      <4> HIDE DEF done
      <4> QED
        BY <1>7, <3>1, <4>1
    <3> QED
      BY <2>1, <3>1, <3>2 DEF Counts
  <2>3. CASE WorkerRuns(w) \/ WorkerThrows(w)
    <3>1. item[w] # 0 /\ item[w] \in Items /\ fate[item[w]] = "running"
      BY <2>3 DEF WorkerRuns, WorkerThrows, Step, IInv, TypeOK, Placed, Items
    <3>2. CASE WorkerRuns(w)
      <4>1. fate' = [fate EXCEPT ![item[w]] = "done"] /\ m_outputCounter' = m_outputCounter + 1
        BY <3>2 DEF WorkerRuns
      <4>2. Cardinality(done') = Cardinality(done) + 1
        <5>1. done' = done \cup {item[w]} /\ item[w] \notin done
          BY <1>1, <3>1, <4>1 DEF With
        <5> QED
          BY <1>5, <5>1, FS_AddElement
      <4> QED
        BY <2>1, <4>1, <4>2 DEF Counts
    <3>3. CASE WorkerThrows(w)
      <4>1. fate' = [fate EXCEPT ![item[w]] = "threw"] /\ m_outputCounter' = m_outputCounter
        BY <3>3 DEF WorkerThrows
      <4>2. done' = done
        <5> HIDE DEF done
        <5> QED
          BY <1>7, <3>1, <4>1
      <4> QED
        BY <2>1, <4>1, <4>2 DEF Counts
    <3> QED
      BY <2>3, <3>2, <3>3
  <2> QED
    BY <1>10, <2>2, <2>3
<1>11. ASSUME NEW c \in Clients, Clear(c) PROVE Counts'
  <2>1. /\ UNCHANGED <<client, executed, m_inputCounter, m_outputCounter>>
        /\ fate' = [i \in Items |-> IF i \in Range(m_queue) THEN "cleared" ELSE fate[i]]
    BY <1>11 DEF Clear, clientVars, workerVars
  <2>2. done' = done
    BY <1>2, <2>1 DEF With
  <2> QED
    BY <2>1, <2>2 DEF Counts, Calling
<1>12. CASE IncreaseCapacity \/ Stop \/ Destructor \/ OwnerStep
  BY <1>3, <1>12 DEF IncreaseCapacity, Stop, Destructor, OwnerStep, CreateTask, CreateTaskUnlisted, TaskStarts, CreateTaskFails, Created,
     StopDisable, TaskStopTest, TaskStopWrite, TaskJoin, Stopped, queueVars, workerVars, clientVars, history
<1>13. ASSUME NEW w \in Workers,
              WorkerStarts(w) \/ WorkerTests(w) \/ WorkerRefused(w) \/ WorkerStops(w) \/ WorkerEnds(w)
       PROVE  Counts'
  BY <1>3, <1>13 DEF WorkerStarts, WorkerTests, WorkerRefused, WorkerStops, WorkerEnds, clientVars, history
<1>14. ASSUME NEW c \in Clients, Disable(c) \/ Enable(c) PROVE Counts'
  BY <1>3, <1>14 DEF Disable, Enable, workerVars, clientVars
<1>15. CASE UNCHANGED vars
  BY <1>3, <1>15 DEF vars, workerVars, clientVars, history
<1> QED
  BY <1>8, <1>9, <1>10, <1>11, <1>12, <1>13, <1>14, <1>15 DEF Next, WorkerStep, ClientCall, Rests

(* The queue holds as many items as are queued, as it holds none twice.    *)
LEMMA QueueLength ==
  ASSUME TypeOK, Placed
  PROVE  Len(m_queue) = Cardinality(With({"queued"}))
<1>1. m_queue \in Seq(Items) /\ Len(m_queue) \in Nat /\ DOMAIN m_queue = 1..Len(m_queue)
  BY DEF TypeOK
<1>2. With({"queued"}) = Range(m_queue)
  <2>1. Range(m_queue) \subseteq Items
    BY <1>1 DEF Range
  <2> QED
    BY <2>1 DEF Placed, With
<1>3. m_queue \in Bijection(1..Len(m_queue), Range(m_queue))
  BY <1>1 DEF Placed, Bijection, Injection, IsInjective, Surjection, Range
<1>4. ExistsBijection(1..Len(m_queue), Range(m_queue))
  BY <1>3 DEF ExistsBijection
<1> QED
  BY <1>1, <1>2, <1>4, FS_CountingElements

(* When nothing is in progress, every item put is in the queue, counted as *)
(* done, or accounted for.                                                 *)
LEMMA CountersAddUp ==
  ASSUME IInv, Placed, Counts
  PROVE  CountersTell
<1> SUFFICES ASSUME \A c \in Clients : client[c] = "idle", \A w \in Workers : worker[w] # "run"
             PROVE  m_inputCounter - m_outputCounter - Len(m_queue)
                      = Cardinality(With({"threw", "cleared", "refused"}))
  BY DEF CountersTell, With
<1> DEFINE queued == With({"queued"})
           done == With({"done"})
           lost == With({"threw", "cleared", "refused"})
<1>1. m_inputCounter \in Nat /\ executed \in Nat /\ executed <= MAX_ITEMS
  BY PoolAssumption DEF IInv, TypeOK
<1>2. m_inputCounter = executed
  <2>1. Calling = {}
    BY DEF Calling
  <2> QED
    BY <1>1, <2>1, FS_EmptySet DEF Counts
<1>3. \A i \in Items : fate[i] # "running"
  <2>1. \A w \in Workers : item[w] = 0
    BY DEF IInv, TypeOK
  <2> QED
    BY <2>1 DEF Placed, Items
<1>4. 1..executed = (queued \cup done) \cup lost
  <2>1. \A i \in Items : i <= executed <=> fate[i] # "none"
    BY <1>1 DEF Placed, Items
  <2>2. 1..executed = {i \in Items : i <= executed}
    BY <1>1, PoolAssumption DEF Items
  <2>3. \A i \in Items : fate[i] \in {"none", "queued", "running", "done", "threw", "cleared", "refused"}
    BY DEF IInv, TypeOK
  <2> QED
    BY <1>3, <2>1, <2>2, <2>3 DEF With
<1>5. queued \cap done = {} /\ (queued \cup done) \cap lost = {}
  BY DEF With
<1>6. IsFiniteSet(queued) /\ IsFiniteSet(done) /\ IsFiniteSet(lost)
  <2>1. IsFiniteSet(Items)
    BY FS_Interval, PoolAssumption DEF Items
  <2> QED
    BY <2>1, FS_Subset DEF With
<1>7. Cardinality(queued) \in Nat /\ Cardinality(done) \in Nat /\ Cardinality(lost) \in Nat
  BY <1>6, FS_CardinalityType
<1>8. Cardinality(1..executed) = executed
  BY <1>1, FS_Interval
<1> HIDE DEF queued, done, lost
<1>9. /\ IsFiniteSet(queued \cup done)
      /\ Cardinality(queued \cup done) = Cardinality(queued) + Cardinality(done)
  <2>1. Cardinality(queued \cup done) = Cardinality(queued) + Cardinality(done) - Cardinality({})
        /\ IsFiniteSet(queued \cup done)
    BY <1>5, <1>6, FS_Union
  <2> QED
    BY <1>7, <2>1, FS_EmptySet
<1>10. Cardinality((queued \cup done) \cup lost) = Cardinality(queued) + Cardinality(done) + Cardinality(lost)
  <2>1. Cardinality((queued \cup done) \cup lost)
          = Cardinality(queued \cup done) + Cardinality(lost) - Cardinality({})
    BY <1>5, <1>6, <1>9, FS_Union
  <2> QED
    BY <1>7, <1>9, <2>1, FS_EmptySet
<1>11. executed = Cardinality(queued) + Cardinality(done) + Cardinality(lost)
  BY <1>4, <1>8, <1>10
<1>12. m_outputCounter = Cardinality(done) /\ Len(m_queue) = Cardinality(queued)
  BY QueueLength DEF Counts, IInv, queued, done
<1> QED
  BY <1>1, <1>2, <1>7, <1>11, <1>12 DEF lost

(* Whoever reads m_inputCounter, m_outputCounter and queueSize() while no  *)
(* call and no item is in progress can tell how many items were lost.      *)
THEOREM CountersTellTheLost == Spec => []CountersTell
<1>1. Init => IInv /\ Placed /\ Counts
  BY Initially, PlacedAndCounted
<1>2. IInv /\ Placed /\ Counts /\ [Next]_vars => IInv' /\ Placed' /\ Counts'
  BY Preserved, PlacedPreserved, CountsPreserved
<1>3. IInv /\ Placed /\ Counts => CountersTell
  BY CountersAddUp
<1> QED
  BY <1>1, <1>2, <1>3, PTL DEF Spec

=============================================================================
