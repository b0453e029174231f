-------------------------------- MODULE Thread --------------------------------
(***************************************************************************)
(* Class Thread (src/code/Thread.cpp) as its owners use it: an owner that  *)
(* starts, stops, joins, restarts and finally destroys it (Task::~Task and *)
(* then ~Thread), other threads that call stop(), and the threads that     *)
(* start() creates, one for each run, with the callbacks of the derived    *)
(* class.                                                                  *)
(*                                                                         *)
(* m_state is atomic, but stop() reads it and then writes it: anything may *)
(* happen in between.  A pthread_join with an id that names no joinable    *)
(* thread is undefined; the owner is then "undefined" and nothing follows. *)
(***************************************************************************)
EXTENDS Integers, FiniteSets

CONSTANTS
  Owner,       \* the thread that starts, joins and destroys
  Stoppers,    \* other threads that call stop()
  MAX_STARTS   \* bound: number of calls of start()

ASSUME ThreadAssumption == MAX_STARTS \in Nat /\ Owner \notin Stoppers

Callers == Stoppers \cup {Owner}
Runs    == 1..MAX_STARTS

VARIABLES
  m_state,     \* Thread::m_state
  m_id,        \* the run whose thread m_id names, 0 before the first
  run,         \* what the thread of each run is about to do
  caller,      \* what each caller is about to do
  starts,      \* number of start() calls that got past the test
  destroying,  \* whether the owner is in the destructors
  asked,       \* history: a stop() has taken effect since the last start()
  readIn,      \* history: the run in which a stop() read the state
  late         \* history: a stop() wrote when the run it had read was over

threadVars == <<m_state, m_id, run, caller, starts, destroying, asked, readIn, late>>

ThreadInit ==
  /\ m_state = "READY"
  /\ m_id = 0
  /\ run = [r \in Runs |-> "none"]
  /\ caller = [c \in Callers |-> "idle"]
  /\ starts = 0
  /\ destroying = FALSE
  /\ asked = FALSE
  /\ readIn = [c \in Callers |-> 0]
  /\ late = FALSE

Turns(c, here, there) == caller[c] = here /\ caller' = [caller EXCEPT ![c] = there]
Step(r, here, there) == run[r] = here /\ run' = [run EXCEPT ![r] = there]

-----------------------------------------------------------------------------
(* void start() *)

StartTest ==
  /\ starts < MAX_STARTS
  /\ ~destroying
  /\ m_state = "READY"
  /\ Turns(Owner, "idle", "start")
  /\ UNCHANGED <<m_state, m_id, run, starts, destroying, asked, readIn, late>>

StartSet ==
  /\ Turns(Owner, "start", "create")
  /\ m_state' = "STARTING"
  /\ starts' = starts + 1
  /\ asked' = FALSE
  /\ UNCHANGED <<m_id, run, destroying, readIn, late>>

StartCreate ==
  /\ Turns(Owner, "create", "idle")
  /\ run' = [run EXCEPT ![starts] = "created"]
  /\ m_id' = starts
  /\ UNCHANGED <<m_state, starts, destroying, asked, readIn, late>>

(* pthread_create fails: start() throws. *)
StartFails ==
  /\ Turns(Owner, "create", "idle")
  /\ m_state' = "READY"
  /\ UNCHANGED <<m_id, run, starts, destroying, asked, readIn, late>>

(* void stop(), called by anybody until the destructors run *)

(* Defect: a thread that is still starting is not stopped. *)
StoppableOnlyRunning == {"RUNNING"}

Stoppable == {"STARTING", "RUNNING"}

(* What follows stop(): a destructor goes on with join(). *)
AfterStop == IF destroying THEN "join" ELSE "idle"

StopTest(c) ==
  /\ caller[c] = (IF c = Owner /\ destroying THEN "stop" ELSE "idle")
  /\ c # Owner => ~destroying
  /\ IF m_state \in Stoppable
     THEN /\ caller' = [caller EXCEPT ![c] = "write"]
          /\ readIn' = [readIn EXCEPT ![c] = starts]
     ELSE /\ caller' = [caller EXCEPT ![c] = AfterStop]
          /\ UNCHANGED readIn
  /\ UNCHANGED <<m_state, m_id, run, starts, destroying, asked, late>>

StopWrite(c) ==
  /\ Turns(c, "write", AfterStop)
  /\ m_state' = "STOPPING"
  /\ asked' = TRUE
  /\ late' = (late \/ m_state = "READY" \/ readIn[c] # starts)
  /\ UNCHANGED <<m_id, run, starts, destroying, readIn>>

(* void join() *)

JoinTest ==
  /\ caller[Owner] = (IF destroying THEN "join" ELSE "idle")
  /\ caller' = [caller EXCEPT ![Owner] =
              IF m_state # "READY" THEN "joining"
              ELSE IF destroying THEN "destroyed" ELSE "idle"]
  /\ UNCHANGED <<m_state, m_id, run, starts, destroying, asked, readIn, late>>

(* Defect: the thread is not waited for. *)
JoinDetached ==
  /\ Turns(Owner, "joining", "joined")
  /\ UNCHANGED <<m_state, m_id, run, starts, destroying, asked, readIn, late>>

(* The thread that m_id names, if it names one, has ended. *)
JoinWait ==
  /\ Turns(Owner, "joining", "joined")
  /\ m_id # 0
  /\ Step(m_id, "ended", "joined")
  /\ UNCHANGED <<m_state, m_id, starts, destroying, asked, readIn, late>>

JoinUndefined ==
  /\ Turns(Owner, "joining", "undefined")
  /\ IF m_id = 0 THEN TRUE ELSE run[m_id] = "joined"
  /\ UNCHANGED <<m_state, m_id, run, starts, destroying, asked, readIn, late>>

(* Defect: m_state is left as it is. *)
JoinNotReady ==
  /\ Turns(Owner, "joined", IF destroying THEN "join" ELSE "idle")
  /\ UNCHANGED <<m_state, m_id, run, starts, destroying, asked, readIn, late>>

(* The next test of m_state is that of ~Thread. *)
JoinReady ==
  /\ Turns(Owner, "joined", IF destroying THEN "join" ELSE "idle")
  /\ m_state' = "READY"
  /\ UNCHANGED <<m_id, run, starts, destroying, asked, readIn, late>>

(* ~Task.  Nobody may be inside a call of the object, or begin one, then. *)
Destruct ==
  /\ \A c \in Callers : caller[c] = "idle"
  /\ ~destroying
  /\ destroying' = TRUE
  /\ caller' = [caller EXCEPT ![Owner] = "stop"]
  /\ UNCHANGED <<m_state, m_id, run, starts, asked, readIn, late>>

-----------------------------------------------------------------------------
(* static void * run(void *pvThread) *)

Rest == <<m_id, caller, starts, destroying, readIn, late>>

(* Defect: an assignment, which forgets a stop() made so far. *)
RunStartedAssigning(r) ==
  /\ Step(r, "created", "loop")
  /\ m_state' = "RUNNING"
  /\ UNCHANGED <<Rest, asked>>

(* onThreadStart() returns; compare_exchange keeps a stop() made so far.   *)
RunStarted(r) ==
  /\ Step(r, "created", "loop")
  /\ m_state' = IF m_state = "STARTING" THEN "RUNNING" ELSE m_state
  /\ UNCHANGED <<Rest, asked>>

(* onThreadStart() throws: onThreadStop() is not called. *)
RunNotStarted(r) ==
  /\ Step(r, "created", "leave")
  /\ UNCHANGED <<Rest, asked, m_state>>

RunTest(r) ==
  /\ Step(r, "loop", IF m_state # "STOPPING" THEN "process" ELSE "stop")
  /\ UNCHANGED <<Rest, asked, m_state>>

(* onProcess() returns CONTINUE; or it returns STOP, or it throws.         *)
RunContinue(r) ==
  /\ Step(r, "process", "loop")
  /\ UNCHANGED <<Rest, asked, m_state>>

RunBreak(r) ==
  /\ Step(r, "process", "stop")
  /\ UNCHANGED <<Rest, asked, m_state>>

(* The callbacks may call stop() themselves. *)
RunStopsItself(r) ==
  /\ run[r] \in {"created", "process"}
  /\ m_state \in Stoppable
  /\ m_state' = "STOPPING"
  /\ asked' = TRUE
  /\ UNCHANGED <<Rest, run>>

(* Defect: TS_STOPPED is announced before onThreadStop(). *)
RunStoppingEarly(r) ==
  /\ Step(r, "stop", "onThreadStop")
  /\ m_state' = "STOPPED"
  /\ UNCHANGED <<Rest, asked>>

RunStopping(r) ==
  /\ Step(r, "stop", "onThreadStop")
  /\ m_state' = "STOPPING"
  /\ UNCHANGED <<Rest, asked>>

(* onThreadStop() returns or throws. *)
RunStop(r) ==
  /\ Step(r, "onThreadStop", "leave")
  /\ UNCHANGED <<Rest, asked, m_state>>

RunStopped(r) ==
  /\ Step(r, "leave", "ended")
  /\ m_state' = "STOPPED"
  /\ UNCHANGED <<Rest, asked>>

-----------------------------------------------------------------------------
RunStep(r) ==
  \/ RunStarted(r) \/ RunNotStarted(r) \/ RunTest(r) \/ RunContinue(r) \/ RunBreak(r)
  \/ RunStopping(r) \/ RunStop(r) \/ RunStopped(r)

OwnerStep ==
  \/ StartSet \/ StartCreate \/ StartFails \/ JoinWait \/ JoinUndefined \/ JoinReady
  \/ destroying /\ (StopTest(Owner) \/ JoinTest)

Over == caller[Owner] \in {"destroyed", "undefined"}

ThreadNext ==
  \/ /\ ~Over
     /\ \/ StartTest \/ OwnerStep \/ Destruct \/ JoinTest
        \/ \E c \in Callers : StopTest(c) \/ StopWrite(c)
        \/ \E r \in Runs : RunStep(r) \/ RunStopsItself(r)
  \/ Over /\ UNCHANGED threadVars

(* Threads run, callbacks return, and a call that was begun goes on; nobody *)
(* has to call anything.                                                    *)
ThreadFairness ==
  /\ WF_threadVars(~Over /\ OwnerStep)
  /\ \A c \in Callers : WF_threadVars(~Over /\ StopWrite(c))
  /\ \A r \in Runs : WF_threadVars(~Over /\ RunStep(r))

ThreadSpec == ThreadInit /\ [][ThreadNext]_threadVars /\ ThreadFairness

-----------------------------------------------------------------------------
Live == {"created", "loop", "process", "stop", "onThreadStop", "leave"}

ThreadTypeOK ==
  /\ m_state \in {"READY", "STARTING", "RUNNING", "STOPPING", "STOPPED"}
  /\ m_id \in 0..starts
  /\ run \in [Runs -> Live \cup {"none", "ended", "joined"}]
  /\ caller \in [Callers -> {"idle", "start", "create", "stop", "write", "join", "joining",
                         "joined", "destroyed", "undefined"}]
  /\ starts \in 0..MAX_STARTS
  /\ readIn \in [Callers -> 0..starts]
  /\ destroying \in BOOLEAN /\ asked \in BOOLEAN /\ late \in BOOLEAN

(* Thread.hpp:136-143.  In TS_READY, the state in which start() is allowed *)
(* and the destructors return at once, no thread of an earlier run is      *)
(* alive, whatever stop() calls were late; nor is there ever more than one.*)
ReadyMeansEnded ==
  /\ m_state = "READY" => \A r \in Runs : run[r] \in {"none", "joined"}
  /\ \A r \in Runs : run[r] \in Live => r = starts

(* A join() never waits for a thread that was joined before or was never   *)
(* created, unless a stop() that had read the state of an earlier run      *)
(* wrote TS_STOPPING after that run had been joined.                       *)
JoinsOnlyItsThread == caller[Owner] = "undefined" => late

(* The state that others see and act on says how far the run has come.     *)
StateTellsProgress ==
  ~late =>
    /\ m_state = "STOPPED" => run[starts] \in {"ended", "joined"}
    /\ m_state = "STARTING" => run[starts] \in {"none", "created", "leave"}
    /\ m_state = "RUNNING"  => run[starts] \in {"loop", "process", "stop"}

(* Thread.hpp:129, 175-184.  Once a stop() has taken effect, also one that *)
(* is made before the thread has run at all, no onProcess() begins until   *)
(* the thread is started again.                                            *)
NoProcessAfterStop ==
  [][asked /\ asked' => \A r \in Runs : run'[r] = "process" => run[r] = "process"]_threadVars

(* Thread.hpp:129.  A stop() that takes effect ends the thread. *)
StopEndsThread ==
  \A r \in Runs : (asked /\ starts = r /\ run[r] \in Live) ~> (run[r] \notin Live \/ Over)

(* The destructors return, or had to join a thread that is not there. *)
DestroyReturns == destroying ~> Over

(* Thread.hpp:126-127: "No action will be taken if the thread has not yet  *)
(* been started, or if the thread has already been stopped."               *)
StoppedStaysStopped ==
  [][(m_state \in {"READY", "STOPPED"}) => m_state' # "STOPPING"]_threadVars
=============================================================================
