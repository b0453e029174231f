------------------------------ MODULE ThreadPool ------------------------------
(***************************************************************************)
(* Class template ThreadPoolT (src/code/ThreadPool.hpp, ThreadPool.cpp): a *)
(* list of Tasks, each a Thread that takes items from one work queue and   *)
(* runs them.  An owner constructs the pool, grows it, stops it and        *)
(* destroys it; clients execute items and clear, disable and enable the    *)
(* queue.  The life cycle of a worker is that of module Thread, with one   *)
(* caller and one run.                                                     *)
(*                                                                         *)
(* WorkQueue is not in the repository.  What the pool relies on: put       *)
(* refuses when the queue is disabled; get blocks while the queue is empty *)
(* and enabled and returns false when it is disabled.  Whether a disabled  *)
(* queue first hands out what it still holds is left open.                 *)
(***************************************************************************)
EXTENDS Integers, Sequences, FiniteSets, Functions

CONSTANTS
  Clients,      \* threads that execute, clear, disable and enable
  MAX_WORKERS,  \* bound: Tasks created in all
  MAX_ITEMS     \* bound: calls of execute

ASSUME PoolAssumption == MAX_WORKERS \in Nat /\ MAX_ITEMS \in Nat /\ IsFiniteSet(Clients)

Workers == 1..MAX_WORKERS
Items   == 1..MAX_ITEMS

VARIABLES
  m_queue,          \* the items in the queue, oldest first
  enabled,          \* whether the queue is enabled
  m_tasks,          \* the list of the workers' Tasks
  unlisted,         \* a Task that did not get into the list, 0 if none
  m_state,          \* workers: Thread::m_state
  worker,           \* workers: what the thread is about to do
  item,             \* workers: the item in hand, 0 if none
  m_inputCounter, m_outputCounter,
  client,           \* what each client is about to do
  owner,            \* what the owner is about to do
  toCreate,         \* what is left of increaseCapacity's argument
  phase,            \* "constructor", "alive", "destructor"
  created,          \* number of Tasks created, which numbers them
  executed,         \* number of items put, which numbers them
  fate,             \* history: what became of each item
  disabled,         \* history: the queue was disabled at some time
  reenabled         \* history: the queue was enabled while Tasks were destroyed

queueVars  == <<m_queue, enabled>>
workerVars == <<m_state, worker, item, m_outputCounter>>
clientVars == <<client, executed, m_inputCounter>>
ownerVars  == <<m_tasks, unlisted, owner, toCreate, phase, created>>
history    == <<fate, disabled, reenabled>>
vars == <<queueVars, workerVars, clientVars, ownerVars, history>>

(* The constructor begins, with any capacity within the bound. *)
Init ==
  /\ m_queue = <<>> /\ enabled = TRUE
  /\ m_tasks = <<>> /\ unlisted = 0 /\ created = 0
  /\ m_state = [w \in Workers |-> "READY"]
  /\ worker = [w \in Workers |-> "none"]
  /\ item = [w \in Workers |-> 0]
  /\ m_inputCounter = 0 /\ m_outputCounter = 0
  /\ client = [c \in Clients |-> "idle"]
  /\ owner = "grow" /\ toCreate \in 0..MAX_WORKERS /\ phase = "constructor"
  /\ executed = 0
  /\ fate = [i \in Items |-> "none"]
  /\ disabled = FALSE /\ reenabled = FALSE

-----------------------------------------------------------------------------
(* void increaseCapacity(uint32 capacity), from the constructor or later. *)

IncreaseCapacity ==
  /\ owner = "idle"
  /\ owner' = "grow"
  /\ toCreate' \in 1..(MAX_WORKERS - created)
  /\ UNCHANGED <<queueVars, workerVars, clientVars, m_tasks, unlisted, phase, created, history>>

(* new Task: start() creates its thread. *)
TaskStarts ==
  /\ owner = "grow" /\ toCreate > 0
  /\ created' = created + 1
  /\ m_state' = [m_state EXCEPT ![created'] = "STARTING"]
  /\ worker' = [worker EXCEPT ![created'] = "created"]
  /\ UNCHANGED <<queueVars, item, m_outputCounter, clientVars, phase, history>>

(* The shared_ptr and the element of the list get their memory; push_back. *)
CreateTask ==
  /\ TaskStarts
  /\ toCreate' = toCreate - 1
  /\ m_tasks' = Append(m_tasks, created')
  /\ UNCHANGED <<unlisted, owner>>

(* One of the two does not: the Task, whose thread is there by now, is     *)
(* destroyed before the exception leaves increaseCapacity.                 *)
CreateTaskUnlisted ==
  /\ TaskStarts
  /\ toCreate' = 0
  /\ unlisted' = created'
  /\ owner' = "clear"
  /\ UNCHANGED m_tasks

(* Defect: the constructor throws without the stop(). *)
AfterFailureForgetting == IF phase = "constructor" THEN "clear" ELSE "idle"

(* What an exception leads to: the constructor stops the pool and          *)
(* rethrows, increaseCapacity leaves the Tasks it has created.             *)
AfterFailure == IF phase = "constructor" THEN "disable" ELSE "idle"

(* There is no memory for the Task, or the thread cannot be created. *)
CreateTaskFails ==
  /\ owner = "grow" /\ toCreate > 0
  /\ toCreate' = 0
  /\ owner' = AfterFailure
  /\ UNCHANGED <<queueVars, workerVars, clientVars, m_tasks, unlisted, phase, created, history>>

Created ==
  /\ owner = "grow" /\ toCreate = 0
  /\ owner' = "idle"
  /\ phase' = "alive"
  /\ UNCHANGED <<queueVars, workerVars, clientVars, m_tasks, unlisted, toCreate, created, history>>

-----------------------------------------------------------------------------
(* void stop(), also called by the destructor: m_queue.disable(), and      *)
(* m_tasks.clear(), which destroys one Task after the other.               *)

Stop ==
  /\ owner = "idle"
  /\ owner' = "disable"
  /\ reenabled' = FALSE
  /\ UNCHANGED <<queueVars, workerVars, clientVars, m_tasks, unlisted, toCreate, phase, created,
                 fate, disabled>>

(* No client is in a call of the pool or begins one. *)
Destructor ==
  /\ owner = "idle"
  /\ \A c \in Clients : client[c] = "idle"
  /\ owner' = "disable"
  /\ phase' = "destructor"
  /\ reenabled' = FALSE
  /\ UNCHANGED <<queueVars, workerVars, clientVars, m_tasks, unlisted, toCreate, created,
                 fate, disabled>>

StopDisable ==
  /\ owner = "disable"
  /\ owner' = "clear"
  /\ enabled' = FALSE
  /\ disabled' = TRUE
  /\ UNCHANGED <<m_queue, workerVars, clientVars, m_tasks, unlisted, toCreate, phase, created,
                 fate, reenabled>>

(* ~Task of the Task that is not in the list, or of the first one that is: *)
(* Thread::stop(), a test and then an assignment.                          *)
Doomed == IF unlisted # 0 THEN unlisted ELSE Head(m_tasks)
Destroys == unlisted # 0 \/ m_tasks # <<>>

TaskStopTest ==
  /\ owner = "clear" /\ Destroys
  /\ owner' = IF m_state[Doomed] \in {"STARTING", "RUNNING"} THEN "write" ELSE "join"
  /\ UNCHANGED <<queueVars, workerVars, clientVars, m_tasks, unlisted, toCreate, phase, created, history>>

TaskStopWrite ==
  /\ owner = "write"
  /\ owner' = "join"
  /\ m_state' = [m_state EXCEPT ![Doomed] = "STOPPING"]
  /\ UNCHANGED <<queueVars, worker, item, m_outputCounter, clientVars,
                 m_tasks, unlisted, toCreate, phase, created, history>>

(* The Task is gone, and the next follows or the exception goes on. *)
Destroyed ==
  /\ owner' = IF unlisted # 0 THEN AfterFailure ELSE "clear"
  /\ m_tasks' = IF unlisted # 0 THEN m_tasks ELSE Tail(m_tasks)
  /\ unlisted' = 0

(* Defect: the Task is destroyed while its thread runs. *)
TaskNotJoined ==
  /\ owner = "join"
  /\ Destroyed
  /\ UNCHANGED <<queueVars, workerVars, clientVars, toCreate, phase, created, history>>

(* Thread::join() *)
TaskJoin ==
  /\ owner = "join"
  /\ worker[Doomed] = "ended"
  /\ worker' = [worker EXCEPT ![Doomed] = "joined"]
  /\ m_state' = [m_state EXCEPT ![Doomed] = "READY"]
  /\ Destroyed
  /\ UNCHANGED <<queueVars, item, m_outputCounter, clientVars, toCreate, phase, created, history>>

Stopped ==
  /\ owner = "clear" /\ ~Destroys
  /\ owner' = IF phase = "alive" THEN "idle" ELSE "gone"
  /\ UNCHANGED <<queueVars, workerVars, clientVars, m_tasks, unlisted, toCreate, phase, created, history>>

-----------------------------------------------------------------------------
(* The workers: Thread::run and ThreadPoolT::onProcess. *)

Step(w, here, there) == worker[w] = here /\ worker' = [worker EXCEPT ![w] = there]

WorkerStarts(w) ==
  /\ Step(w, "created", "loop")
  /\ m_state' = [m_state EXCEPT ![w] = IF @ = "STARTING" THEN "RUNNING" ELSE @]
  /\ UNCHANGED <<queueVars, item, m_outputCounter, clientVars, ownerVars, history>>

WorkerTests(w) ==
  /\ Step(w, "loop", IF m_state[w] # "STOPPING" THEN "get" ELSE "stop")
  /\ UNCHANGED <<queueVars, m_state, item, m_outputCounter, clientVars, ownerVars, history>>

(* Defect: the queue is asked twice. *)
WorkerGetsTwice(w) ==
  /\ m_queue # <<>>
  /\ Step(w, "get", "run")
  /\ item' = [item EXCEPT ![w] = Head(m_queue)]
  /\ m_queue' = SubSeq(m_queue, 3, Len(m_queue))
  /\ fate' = [fate EXCEPT ![Head(m_queue)] = "running"]
  /\ UNCHANGED <<enabled, m_state, m_outputCounter, clientVars, ownerVars, disabled, reenabled>>

(* m_queue.get(item): an item, *)
WorkerGets(w) ==
  /\ m_queue # <<>>
  /\ Step(w, "get", "run")
  /\ item' = [item EXCEPT ![w] = Head(m_queue)]
  /\ m_queue' = Tail(m_queue)
  /\ fate' = [fate EXCEPT ![Head(m_queue)] = "running"]
  /\ UNCHANGED <<enabled, m_state, m_outputCounter, clientVars, ownerVars, disabled, reenabled>>

(* or false, and onProcess returns STOP. *)
WorkerRefused(w) ==
  /\ ~enabled
  /\ Step(w, "get", "stop")
  /\ UNCHANGED <<queueVars, m_state, item, m_outputCounter, clientVars, ownerVars, history>>

(* item() returns and is counted. *)
WorkerRuns(w) ==
  /\ Step(w, "run", "loop")
  /\ m_outputCounter' = m_outputCounter + 1
  /\ fate' = [fate EXCEPT ![item[w]] = "done"]
  /\ item' = [item EXCEPT ![w] = 0]
  /\ UNCHANGED <<queueVars, m_state, clientVars, ownerVars, disabled, reenabled>>

(* Defect: the exception ends the thread. *)
WorkerDies(w) ==
  /\ Step(w, "run", "stop")
  /\ fate' = [fate EXCEPT ![item[w]] = "threw"]
  /\ item' = [item EXCEPT ![w] = 0]
  /\ UNCHANGED <<queueVars, m_state, m_outputCounter, clientVars, ownerVars, disabled, reenabled>>

(* Defect: what threw is counted as well. *)
WorkerCountsAll(w) ==
  /\ Step(w, "run", "loop")
  /\ m_outputCounter' = m_outputCounter + 1
  /\ fate' = [fate EXCEPT ![item[w]] = "threw"]
  /\ item' = [item EXCEPT ![w] = 0]
  /\ UNCHANGED <<queueVars, m_state, clientVars, ownerVars, disabled, reenabled>>

(* item() throws: squashed, not counted. *)
WorkerThrows(w) ==
  /\ Step(w, "run", "loop")
  /\ fate' = [fate EXCEPT ![item[w]] = "threw"]
  /\ item' = [item EXCEPT ![w] = 0]
  /\ UNCHANGED <<queueVars, m_state, m_outputCounter, clientVars, ownerVars, disabled, reenabled>>

WorkerStops(w) ==
  /\ Step(w, "stop", "leave")
  /\ m_state' = [m_state EXCEPT ![w] = "STOPPING"]
  /\ UNCHANGED <<queueVars, item, m_outputCounter, clientVars, ownerVars, history>>

WorkerEnds(w) ==
  /\ Step(w, "leave", "ended")
  /\ m_state' = [m_state EXCEPT ![w] = "STOPPED"]
  /\ UNCHANGED <<queueVars, item, m_outputCounter, clientVars, ownerVars, history>>

-----------------------------------------------------------------------------
(* The clients. *)

Usable(c) == client[c] = "idle" /\ phase = "alive"

(* bool execute(f): the put, and the count whatever it returned. *)
ExecutePut(c) ==
  /\ Usable(c)
  /\ executed < MAX_ITEMS
  /\ client' = [client EXCEPT ![c] = "count"]
  /\ executed' = executed + 1
  /\ m_queue' = IF enabled THEN Append(m_queue, executed') ELSE m_queue
  /\ fate' = [fate EXCEPT ![executed'] = IF enabled THEN "queued" ELSE "refused"]
  /\ UNCHANGED <<enabled, workerVars, m_inputCounter, ownerVars, disabled, reenabled>>

ExecuteCount(c) ==
  /\ client[c] = "count"
  /\ client' = [client EXCEPT ![c] = "idle"]
  /\ m_inputCounter' = m_inputCounter + 1
  /\ UNCHANGED <<queueVars, workerVars, executed, ownerVars, history>>

(* void clear() *)
Clear(c) ==
  /\ Usable(c)
  /\ m_queue' = <<>>
  /\ fate' = [i \in Items |-> IF i \in Range(m_queue) THEN "cleared" ELSE fate[i]]
  /\ UNCHANGED <<enabled, workerVars, clientVars, ownerVars, disabled, reenabled>>

(* void disable() *)
Disable(c) ==
  /\ Usable(c)
  /\ enabled' = FALSE
  /\ disabled' = TRUE
  /\ UNCHANGED <<m_queue, workerVars, clientVars, ownerVars, fate, reenabled>>

(* void enable() *)
Enable(c) ==
  /\ Usable(c)
  /\ enabled' = TRUE
  /\ reenabled' = (reenabled \/ owner \in {"clear", "write", "join"})
  /\ UNCHANGED <<m_queue, workerVars, clientVars, ownerVars, fate, disabled>>

-----------------------------------------------------------------------------
WorkerStep(w) ==
  \/ WorkerStarts(w) \/ WorkerTests(w) \/ WorkerGets(w) \/ WorkerRefused(w)
  \/ WorkerRuns(w) \/ WorkerThrows(w) \/ WorkerStops(w) \/ WorkerEnds(w)

OwnerStep ==
  \/ CreateTask \/ CreateTaskUnlisted \/ CreateTaskFails \/ Created
  \/ StopDisable \/ TaskStopTest \/ TaskStopWrite \/ TaskJoin \/ Stopped

ClientCall(c) == ExecutePut(c) \/ Clear(c) \/ Disable(c) \/ Enable(c)

(* The program may stop when the pool is gone, and where the owner joins a *)
(* thread that waits in get() for an item or the end of the queue.         *)
Waits == owner = "join" /\ worker[Doomed] = "get" /\ enabled /\ m_queue = <<>>
Rests == (owner = "gone" \/ Waits) /\ UNCHANGED vars

Next ==
  \/ IncreaseCapacity \/ Stop \/ Destructor \/ OwnerStep
  \/ \E w \in Workers : WorkerStep(w)
  \/ \E c \in Clients : ClientCall(c) \/ ExecuteCount(c)
  \/ Rests

(* Threads that can run do run, items end, a call that was begun goes on;  *)
(* nobody has to call anything.                                            *)
Fairness ==
  /\ \A w \in Workers : WF_vars(WorkerStep(w))
  /\ \A c \in Clients : WF_vars(ExecuteCount(c))
  /\ WF_vars(OwnerStep)

Spec == Init /\ [][Next]_vars /\ Fairness

-----------------------------------------------------------------------------
Live == {"created", "loop", "get", "run", "stop", "leave"}

TypeOK ==
  /\ m_queue \in Seq(Items) /\ Len(m_queue) <= executed
  /\ enabled \in BOOLEAN /\ disabled \in BOOLEAN /\ reenabled \in BOOLEAN
  /\ m_tasks \in Seq(Workers)
  /\ m_state \in [Workers -> {"READY", "STARTING", "RUNNING", "STOPPING", "STOPPED"}]
  /\ worker \in [Workers -> Live \cup {"none", "ended", "joined"}]
  /\ item \in [Workers -> 0..MAX_ITEMS]
  /\ \A w \in Workers : (item[w] # 0) = (worker[w] = "run")
  /\ client \in [Clients -> {"idle", "count"}]
  /\ owner \in {"grow", "idle", "disable", "clear", "write", "join", "gone"}
  /\ unlisted \in 0..MAX_WORKERS
  /\ owner \in {"write", "join"} => Destroys
  /\ phase \in {"constructor", "alive", "destructor"}
  /\ created \in 0..MAX_WORKERS /\ toCreate \in 0..(MAX_WORKERS - created)
  /\ executed \in 0..MAX_ITEMS
  /\ m_inputCounter \in Nat /\ m_outputCounter \in Nat
  /\ fate \in [Items -> {"none", "queued", "running", "done", "threw", "cleared", "refused"}]

(* ThreadPool.cpp:35-40, 80, 102-132.  Every thread that may still touch   *)
(* the queue, the counters or its Task belongs to a Task in the list, or   *)
(* to the one that could not be put there and is being destroyed: stop(),  *)
(* the destructor and the calls that throw leave no thread behind.         *)
NoWorkerLeft == \A w \in Workers : worker[w] \in Live => w \in Range(m_tasks) \cup {unlisted}

(* ThreadPool.cpp:105, 120-129.  No item, whatever it throws, costs the    *)
(* pool a worker: until the queue is disabled for the first time, as many  *)
(* threads serve it as size() says.                                        *)
WorkersServe ==
  ~disabled => \A w \in Range(m_tasks) : worker[w] \in {"created", "loop", "get", "run"}

(* What a reader of queueSize() and of the two counters may conclude when  *)
(* no call and no item is in progress: the items that are missing threw,   *)
(* were cleared, or were refused, although m_inputCounter counts an item   *)
(* when a worker may already have run it.                                  *)
CountersTell ==
  (\A c \in Clients : client[c] = "idle") /\ (\A w \in Workers : worker[w] # "run") =>
    m_inputCounter - m_outputCounter - Len(m_queue)
      = Cardinality({i \in Items : fate[i] \in {"threw", "cleared", "refused"}})

(* ThreadPool.cpp:19: "need to disable the work item queue otherwise       *)
(* threads can't shutdown".  stop(), the destructor and a call that cannot *)
(* create all its Tasks return, however the workers are placed.  They wait *)
(* for ever only for a worker that waits itself, in get() of a queue that  *)
(* is empty and enabled; which takes a client that enables the queue       *)
(* before all workers have seen it disabled, or a Task that is destroyed   *)
(* for want of memory when its thread has already got there: nothing has   *)
(* disabled the queue by then (ThreadPool.cpp:80).                         *)
Waited == Waits /\ (reenabled \/ unlisted # 0)
StopReturns ==
  owner \in {"disable", "clear", "write", "join"} ~> (owner \in {"idle", "gone"} \/ Waited)

(* An item that execute() accepted is run or cleared as long as a worker   *)
(* is left.                                                                *)
Served ==
  \A i \in Items :
    fate[i] = "queued" ~>
      (fate[i] \in {"done", "threw", "cleared"} \/ \A w \in Workers : worker[w] \notin Live)
=============================================================================
