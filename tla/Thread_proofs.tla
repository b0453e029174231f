----------------------------- MODULE Thread_proofs -----------------------------
(***************************************************************************)
(* Proofs about Thread, for any number of stoppers and of runs.            *)
(*                                                                         *)
(* ReadyMeansEnded and JoinsOnlyItsThread are not inductive: whether a     *)
(* join finds its thread depends on where the owner is between the test of *)
(* m_state, pthread_create, pthread_join and the assignment of TS_READY.   *)
(* The conjuncts of IInv below say what holds at each of these places.     *)
(***************************************************************************)
EXTENDS Thread, TLAPS

(* The states of a run that has no thread (any more). *)
Gone == {"none", "joined"}

(* Only the thread of the last start() can exist and not be joined. *)
OnlyTheLast ==
  \A r \in Runs : /\ r < starts => run[r] \in Gone
                  /\ r > starts => run[r] = "none"

(* m_id names it. *)
IdIsCurrent == \A r \in Runs : r = starts /\ run[r] # "none" => m_id = r

(* It is not there where the owner is about to make one or has joined it,  *)
(* and in TS_READY.                                                        *)
NotThere ==
  \A r \in Runs :
    /\ caller[Owner] \in {"start", "joined"} => run[r] \in Gone
    /\ caller[Owner] = "create" => r < starts \/ run[r] = "none"
    /\ m_state = "READY" => run[r] \in Gone

(* starts counts within its bound, and names a run once there is one. *)
StartsCounts ==
  /\ caller[Owner] = "start" => starts < MAX_STARTS
  /\ caller[Owner] = "create" => starts \in Runs

(* Only the owner makes it TS_READY, and it is busy. *)
BusyNotReady == caller[Owner] \in {"create", "joining"} => m_state # "READY"

(* It is there in every other state, unless a stop() was late. *)
There ==
  ~late /\ m_state # "READY" /\ caller[Owner] \notin {"start", "create", "joined"} =>
    starts \in Runs /\ run[starts] \in Live \cup {"ended"}

(* A stop() that has taken effect is not forgotten. *)
StopKept ==
  asked =>
    /\ caller[Owner] = "create" => m_state = "STOPPING"
    /\ \A r \in Runs : r = starts /\ run[r] \in {"created", "loop", "process"}
                         => m_state = "STOPPING"

IInv ==
  /\ ThreadTypeOK /\ OnlyTheLast /\ IdIsCurrent /\ NotThere /\ StartsCounts
  /\ BusyNotReady /\ There /\ StopKept /\ JoinsOnlyItsThread

LEMMA Initially == ThreadInit => IInv
<1> SUFFICES ASSUME ThreadInit PROVE IInv
  OBVIOUS
<1> USE ThreadAssumption DEF ThreadInit, Runs, Callers
<1>1. ThreadTypeOK
  <2>1. run \in [Runs -> {"none"}] /\ caller \in [Callers -> {"idle"}]
        /\ readIn \in [Callers -> {0}]
    BY Zenon
  <2>2. run \in [Runs -> Live \cup {"none", "ended", "joined"}]
    BY <2>1 DEF Live
  <2>3. caller \in [Callers -> {"idle", "start", "create", "stop", "write", "join",
                            "joining", "joined", "destroyed", "undefined"}]
    BY <2>1
  <2>4. readIn \in [Callers -> 0..starts]
    BY <2>1
  <2>5. m_id \in 0..starts /\ starts \in 0..MAX_STARTS
    BY SMT
  <2>6. m_state = "READY" /\ destroying = FALSE /\ asked = FALSE /\ late = FALSE
    BY Zenon
  <2> HIDE DEF ThreadInit
  <2> QED
    BY <2>2, <2>3, <2>4, <2>5, <2>6 DEF ThreadTypeOK
<1>2. OnlyTheLast
  BY DEF OnlyTheLast, Gone
<1>3. IdIsCurrent
  BY DEF IdIsCurrent
<1>4. NotThere
  BY DEF NotThere, Gone
<1>5. StartsCounts
  BY DEF StartsCounts
<1>6. BusyNotReady
  BY DEF BusyNotReady
<1>7. There
  BY DEF There
<1>8. StopKept
  BY DEF StopKept
<1>9. JoinsOnlyItsThread
  BY DEF JoinsOnlyItsThread
<1> QED
  BY <1>1, <1>2, <1>3, <1>4, <1>5, <1>6, <1>7, <1>8, <1>9 DEF IInv

LEMMA Preserved == IInv /\ [ThreadNext]_threadVars => IInv'
<1> SUFFICES ASSUME IInv, [ThreadNext]_threadVars PROVE IInv'
  OBVIOUS
<1> USE ThreadAssumption DEF IInv, ThreadTypeOK, OnlyTheLast, IdIsCurrent, NotThere,
    StartsCounts, BusyNotReady, There, StopKept, JoinsOnlyItsThread,
    Runs, Callers, Live, Gone, Turns, Step, Rest
<1>1. CASE StartTest
  BY <1>1 DEF StartTest
<1>2. CASE StartSet
  <2>1. ThreadTypeOK'
    <3>1. starts \in 0..MAX_STARTS /\ starts < MAX_STARTS
      BY <1>2 DEF StartSet
    <3>2. starts' \in 0..MAX_STARTS /\ m_id' \in 0..starts'
      BY <1>2, <3>1 DEF StartSet
    <3>3. \A n \in 0..starts : n \in 0..starts'
      BY <1>2, <3>1 DEF StartSet
    <3>4. readIn' = readIn /\ readIn \in [Callers -> 0..starts]
      BY <1>2 DEF StartSet
    <3>5. readIn' \in [Callers -> 0..starts']
      BY <3>3, <3>4
    <3>6. caller' \in [Callers -> {"idle", "start", "create", "stop", "write", "join",
                               "joining", "joined", "destroyed", "undefined"}]
      BY <1>2 DEF StartSet
    <3> QED
      BY <1>2, <3>2, <3>5, <3>6 DEF StartSet
  <2>2. OnlyTheLast'
    BY <1>2 DEF StartSet
  <2>3. IdIsCurrent'
    BY <1>2 DEF StartSet
  <2>4. NotThere'
    BY <1>2 DEF StartSet
  <2>5. StartsCounts'
    BY <1>2 DEF StartSet
  <2>6. BusyNotReady'
    BY <1>2 DEF StartSet
  <2>7. There'
    BY <1>2 DEF StartSet
  <2>8. StopKept'
    BY <1>2 DEF StartSet
  <2>9. JoinsOnlyItsThread'
    BY <1>2 DEF StartSet
  <2> QED
    BY <2>1, <2>2, <2>3, <2>4, <2>5, <2>6, <2>7, <2>8, <2>9
<1>3. CASE StartCreate
  <2>1. ThreadTypeOK'
    BY <1>3 DEF StartCreate
  <2>2. OnlyTheLast'
    BY <1>3 DEF StartCreate
  <2>3. IdIsCurrent'
    BY <1>3 DEF StartCreate
  <2>4. NotThere'
    BY <1>3 DEF StartCreate
  <2>5. StartsCounts'
    BY <1>3 DEF StartCreate
  <2>6. BusyNotReady'
    BY <1>3 DEF StartCreate
  <2>7. There'
    BY <1>3 DEF StartCreate
  <2>8. StopKept'
    BY <1>3 DEF StartCreate
  <2>9. JoinsOnlyItsThread'
    BY <1>3 DEF StartCreate
  <2> QED
    BY <2>1, <2>2, <2>3, <2>4, <2>5, <2>6, <2>7, <2>8, <2>9
<1>4. CASE StartFails
  BY <1>4 DEF StartFails
<1>5. CASE Destruct
  BY <1>5 DEF Destruct
<1>6. CASE JoinTest
  BY <1>6 DEF JoinTest
<1>7. CASE JoinWait
  BY <1>7 DEF JoinWait
<1>8. CASE JoinUndefined
  BY <1>8 DEF JoinUndefined
<1>9. CASE JoinReady
  BY <1>9 DEF JoinReady
<1>10. ASSUME NEW c \in Callers, StopTest(c) PROVE IInv'
  BY <1>10 DEF StopTest, Stoppable, AfterStop
<1>11. ASSUME NEW c \in Callers, StopWrite(c) PROVE IInv'
  BY <1>11 DEF StopWrite, AfterStop
<1>12. ASSUME NEW r \in Runs, RunStarted(r) PROVE IInv'
  BY <1>12 DEF RunStarted, Stoppable
<1>13. ASSUME NEW r \in Runs, RunNotStarted(r) PROVE IInv'
  BY <1>13 DEF RunNotStarted, Stoppable
<1>14. ASSUME NEW r \in Runs, RunTest(r) PROVE IInv'
  BY <1>14 DEF RunTest, Stoppable
<1>15. ASSUME NEW r \in Runs, RunContinue(r) PROVE IInv'
  BY <1>15 DEF RunContinue, Stoppable
<1>16. ASSUME NEW r \in Runs, RunBreak(r) PROVE IInv'
  BY <1>16 DEF RunBreak, Stoppable
<1>17. ASSUME NEW r \in Runs, RunStopsItself(r) PROVE IInv'
  BY <1>17 DEF RunStopsItself, Stoppable
<1>18. ASSUME NEW r \in Runs, RunStopping(r) PROVE IInv'
  BY <1>18 DEF RunStopping, Stoppable
<1>19. ASSUME NEW r \in Runs, RunStop(r) PROVE IInv'
  BY <1>19 DEF RunStop, Stoppable
<1>20. ASSUME NEW r \in Runs, RunStopped(r) PROVE IInv'
  BY <1>20 DEF RunStopped, Stoppable
<1>21. CASE UNCHANGED threadVars
  BY <1>21 DEF threadVars
<1> QED
  BY <1>1, <1>2, <1>3, <1>4, <1>5, <1>6, <1>7, <1>8, <1>9, <1>10, <1>11, <1>12, <1>13,
     <1>14, <1>15, <1>16, <1>17, <1>18, <1>19, <1>20, <1>21
     DEF ThreadNext, OwnerStep, RunStep

(* IInv holds in every state. *)
LEMMA Invariant == ThreadSpec => []IInv
  BY Initially, Preserved, PTL DEF ThreadSpec

(* Every state of the specification has its type. *)
THEOREM TypeCorrect == ThreadSpec => []ThreadTypeOK
<1>1. IInv => ThreadTypeOK
  BY DEF IInv
<1> QED
  BY Invariant, <1>1, PTL

(* In TS_READY no earlier run has a thread left, and there is never more   *)
(* than one thread: Thread::start, join and ~Thread rely on it.            *)
THEOREM NeverTwoThreads == ThreadSpec => []ReadyMeansEnded
<1>1. IInv => ReadyMeansEnded
  <2> SUFFICES ASSUME IInv PROVE ReadyMeansEnded
    OBVIOUS
  <2>1. m_state = "READY" => \A r \in Runs : run[r] \in {"none", "joined"}
    BY DEF IInv, NotThere, Gone
  <2>2. ASSUME NEW r \in Runs, run[r] \in Live PROVE r = starts
    <3>1. ~(r < starts) /\ ~(r > starts)
      BY <2>2 DEF IInv, OnlyTheLast, Gone, Live
    <3>2. r \in Nat /\ starts \in Nat
      BY ThreadAssumption DEF IInv, ThreadTypeOK, Runs
    <3> QED
      BY <3>1, <3>2
  <2> QED
    BY <2>1, <2>2 DEF ReadyMeansEnded
<1> QED
  BY Invariant, <1>1, PTL

(* No join() of Thread joins anything but the thread of the current run,   *)
(* as long as no stop() outlives the run that it was meant for.            *)
THEOREM JoinsAreSafe == ThreadSpec => []JoinsOnlyItsThread
<1>1. IInv => JoinsOnlyItsThread
  BY DEF IInv
<1> QED
  BY Invariant, <1>1, PTL

(* After a stop() that has taken effect no onProcess() begins before the   *)
(* next start(): the compare_exchange of Thread::run does not undo it.     *)
THEOREM StopIsHonoured == ThreadSpec => NoProcessAfterStop
<1> DEFINE A == asked /\ asked' =>
                  \A r \in Runs : run'[r] = "process" => run[r] = "process"
<1>1. IInv /\ [ThreadNext]_threadVars => [A]_threadVars
  <2> SUFFICES ASSUME IInv, ThreadNext, asked,
                      NEW r \in Runs, run'[r] = "process", run[r] # "process"
               PROVE  FALSE
    BY DEF A
  <2> USE DEF IInv, ThreadTypeOK, Live
  <2>1. RunTest(r) /\ run[r] = "loop"
    BY DEF ThreadNext, OwnerStep, RunStep, StartTest, StartSet, StartCreate, StartFails, Destruct,
       JoinTest, JoinWait, JoinUndefined, JoinReady, StopTest, StopWrite, RunStarted,
       RunNotStarted, RunTest, RunContinue, RunBreak, RunStopsItself, RunStopping, RunStop,
       RunStopped, Rest, Turns, Step, threadVars
  <2>2. r = starts
    <3>1. ~(r < starts) /\ ~(r > starts)
      BY <2>1 DEF OnlyTheLast, Gone
    <3>2. r \in Nat /\ starts \in Nat
      BY ThreadAssumption DEF Runs
    <3> QED
      BY <3>1, <3>2
  <2>3. m_state = "STOPPING"
    BY <2>1, <2>2 DEF StopKept
  <2> QED
    BY <2>1, <2>3 DEF RunTest, Step
<1> QED
  BY Initially, Preserved, <1>1, PTL DEF ThreadSpec, NoProcessAfterStop

-----------------------------------------------------------------------------
(* StateTellsProgress is inductive once it is known that a thread which is *)
(* not TS_READY was started at least once.                                 *)
StartedOnce == ~late /\ m_state # "READY" => starts \in Runs

LEMMA ProgressPreserved ==
  ASSUME IInv, StartedOnce, StateTellsProgress, [ThreadNext]_threadVars
  PROVE  StartedOnce' /\ StateTellsProgress'
<1> USE ThreadAssumption DEF IInv, ThreadTypeOK, OnlyTheLast, IdIsCurrent, NotThere,
    StartsCounts, StartedOnce, StateTellsProgress, Runs, Callers, Live, Gone, Turns, Step, Rest
<1> DEFINE Progress == StartedOnce /\ StateTellsProgress
<1>1. ASSUME UNCHANGED <<late, m_state, starts, run>> PROVE Progress'
  BY <1>1
<1>2. CASE StartTest \/ Destruct \/ JoinTest \/ JoinUndefined
             \/ \E c \in Callers : StopTest(c)
  BY <1>1, <1>2 DEF StartTest, Destruct, JoinTest, JoinUndefined, StopTest
<1>3. CASE StartSet
  <2>1. starts' \in Runs /\ m_state' = "STARTING" /\ run' = run
    BY <1>3 DEF StartSet
  <2>2. run[starts'] = "none"
    BY <2>1, <1>3 DEF StartSet
  <2> QED
    BY <2>1, <2>2
<1>4. CASE StartCreate
  BY <1>4 DEF StartCreate
<1>5. CASE StartFails \/ JoinReady
  BY <1>5 DEF StartFails, JoinReady
<1>6. CASE JoinWait
  <2>1. m_id \in Runs /\ run[m_id] = "ended"
    BY <1>6 DEF JoinWait
  <2>2. m_id = starts
    BY <2>1
  <2> QED
    BY <1>6, <2>1, <2>2 DEF JoinWait
<1>7. ASSUME NEW c \in Callers, StopWrite(c) PROVE Progress'
  BY <1>7 DEF StopWrite
<1>8. ASSUME NEW r \in Runs, RunStep(r) \/ RunStopsItself(r) PROVE Progress'
  <2>1. run[r] \in Live
    BY <1>8 DEF RunStep, RunStarted, RunNotStarted, RunTest, RunContinue, RunBreak, RunStopsItself,
                RunStopping, RunStop, RunStopped
  <2>2. r = starts
    BY <2>1
  <2>3. CASE RunStarted(r)
    BY <2>2, <2>3 DEF RunStarted
  <2>4. CASE RunNotStarted(r) \/ RunStop(r)
    BY <2>2, <2>4 DEF RunNotStarted, RunStop
  <2>5. CASE RunTest(r) \/ RunContinue(r) \/ RunBreak(r)
    BY <2>2, <2>5 DEF RunTest, RunContinue, RunBreak
  <2>6. CASE RunStopsItself(r) \/ RunStopping(r)
    BY <2>2, <2>6 DEF RunStopsItself, RunStopping
  <2>7. CASE RunStopped(r)
    BY <2>2, <2>7 DEF RunStopped
  <2> QED
    BY <1>8, <2>3, <2>4, <2>5, <2>6, <2>7 DEF RunStep
<1>9. CASE UNCHANGED threadVars
  BY <1>1, <1>9 DEF threadVars
<1> QED
  BY <1>2, <1>3, <1>4, <1>5, <1>6, <1>7, <1>8, <1>9 DEF ThreadNext, OwnerStep

(* m_state, which other threads read and act on, tells how far the run has *)
(* come, unless a stop() that was late has written it.                     *)
THEOREM StateIsTrue == ThreadSpec => []StateTellsProgress
<1>1. ThreadInit => StartedOnce /\ StateTellsProgress
  BY DEF ThreadInit, StartedOnce, StateTellsProgress
<1>2. IInv /\ StartedOnce /\ StateTellsProgress /\ [ThreadNext]_threadVars => StartedOnce' /\ StateTellsProgress'
  BY ProgressPreserved
<1> QED
  BY <1>1, <1>2, Invariant, PTL DEF ThreadSpec
=============================================================================
