-------------------------------- MODULE Latch --------------------------------
(***************************************************************************)
(* Class Latch (src/code/Latch.cpp) on top of Condition (Condition.cpp):   *)
(* threads attempt() the latch, for ever, not at all, or for a number of   *)
(* milliseconds; other threads open(), close() and reset() it.             *)
(*                                                                         *)
(* m_unlatched is atomic and is read and written without m_mutex.  Inside  *)
(* the mutex there are only the wait and the notify, and the test after    *)
(* the wait, so that each critical section is a single step here and the   *)
(* mutex itself needs no variable.                                         *)
(*                                                                         *)
(* Condition::wait hands its milliseconds to pthread_cond_timedwait, which *)
(* takes a time of day: the variable clock is that time of day.  A wait on *)
(* a condition variable may also end for no reason.                        *)
(***************************************************************************)
EXTENDS Integers

CONSTANTS
  Waiters,     \* threads that call attempt()
  Openers,     \* threads that call open(), close() and reset()
  Timeouts,    \* the arguments of attempt(), in milliseconds
  NOW,         \* milliseconds since 1970 when the program starts
  MAX_CLOCK    \* bound of the clock

WAIT_FOREVER == -1
NO_WAIT      == 0

(* A time of day is later than any uint32 of milliseconds after 1970. *)
ASSUME LatchAssumption ==
  /\ Timeouts \subseteq Int
  /\ NOW \in Nat /\ MAX_CLOCK \in Nat
  /\ \A t \in Timeouts : t < NOW
  /\ Waiters \cap Openers = {}

VARIABLES
  m_unlatched, \* whether the latch is open
  pc,          \* what each thread is about to do
  timeout,     \* waiters: the argument of the attempt()
  success,     \* waiters: what the last attempt() returned
  clock,       \* the time of day
  began,       \* history: when a waiter began to wait
  missed       \* history: whether the latch was open when it did

vars == <<m_unlatched, pc, timeout, success, clock, began, missed>>

Init ==
  /\ m_unlatched = FALSE
  /\ pc = [t \in Waiters \cup Openers |-> "idle"]
  /\ timeout = [w \in Waiters |-> NO_WAIT]
  /\ success = [w \in Waiters |-> FALSE]
  /\ clock = NOW
  /\ began = [w \in Waiters |-> NOW]
  /\ missed = [w \in Waiters |-> FALSE]

Go(t, here, there) == pc[t] = here /\ pc' = [pc EXCEPT ![t] = there]

Return(w, value) == success' = [success EXCEPT ![w] = value]

-----------------------------------------------------------------------------
(* bool attempt(int32 timeout) *)

(* The latch is open, or the caller will not wait. *)
AttemptAtOnce(w) ==
  /\ pc[w] = "idle"
  /\ \E t \in Timeouts :
       /\ m_unlatched \/ t = NO_WAIT
       /\ timeout' = [timeout EXCEPT ![w] = t]
  /\ Return(w, m_unlatched)
  /\ UNCHANGED <<m_unlatched, pc, clock, began, missed>>

AttemptClosed(w) ==
  /\ ~m_unlatched
  /\ Go(w, "idle", "lock")
  /\ \E t \in Timeouts \ {NO_WAIT} : timeout' = [timeout EXCEPT ![w] = t]
  /\ UNCHANGED <<m_unlatched, success, clock, began, missed>>

(* synchronized(m_mutex): the wait begins, without another test. *)
AttemptWait(w) ==
  /\ Go(w, "lock", "waiting")
  /\ began' = [began EXCEPT ![w] = clock]
  /\ missed' = [missed EXCEPT ![w] = m_unlatched]
  /\ UNCHANGED <<m_unlatched, timeout, success, clock>>

(* Condition::wait: the milliseconds are passed on as the time of day at   *)
(* which to give up.                                                       *)
GiveUpTime(w) == timeout[w]

WaitTimesOut(w) ==
  /\ timeout[w] > 0
  /\ clock >= GiveUpTime(w)
  /\ Go(w, "waiting", "timedout")
  /\ UNCHANGED <<m_unlatched, timeout, success, clock, began, missed>>

WaitEndsItself(w) ==
  /\ Go(w, "waiting", "woken")
  /\ UNCHANGED <<m_unlatched, timeout, success, clock, began, missed>>

(* The test after the wait, whatever ended it. *)
AttemptReturns(w) ==
  /\ pc[w] \in {"woken", "timedout"}
  /\ pc' = [pc EXCEPT ![w] = "idle"]
  /\ Return(w, m_unlatched)
  /\ UNCHANGED <<m_unlatched, timeout, clock, began, missed>>

-----------------------------------------------------------------------------
(* void open(), void reset(): the flag, then notifyAll under the mutex. *)

(* Defect: nobody is notified. *)
OpenSilently(o) ==
  /\ pc[o] = "idle"
  /\ m_unlatched' = TRUE
  /\ UNCHANGED <<pc, timeout, success, clock, began, missed>>

(* Defect: notify() instead of notifyAll(). *)
NotifyOne(o) ==
  /\ pc[o] = "notify"
  /\ LET waiting == {w \in Waiters : pc[w] = "waiting"} IN
     \/ waiting = {} /\ Go(o, "notify", "idle")
     \/ \E w \in waiting : pc' = [pc EXCEPT ![o] = "idle", ![w] = "woken"]
  /\ UNCHANGED <<m_unlatched, timeout, success, clock, began, missed>>

Open(o) ==
  /\ Go(o, "idle", "notify")
  /\ m_unlatched' = TRUE
  /\ UNCHANGED <<timeout, success, clock, began, missed>>

Reset(o) ==
  /\ Go(o, "idle", "notify")
  /\ m_unlatched' = FALSE
  /\ UNCHANGED <<timeout, success, clock, began, missed>>

NotifyAll(o) ==
  /\ pc[o] = "notify"
  /\ pc' = [t \in Waiters \cup Openers |->
              IF t = o THEN "idle" ELSE IF pc[t] = "waiting" THEN "woken" ELSE pc[t]]
  /\ UNCHANGED <<m_unlatched, timeout, success, clock, began, missed>>

(* void close() *)
Close(o) ==
  /\ pc[o] = "idle"
  /\ m_unlatched' = FALSE
  /\ UNCHANGED <<pc, timeout, success, clock, began, missed>>

Tick ==
  /\ clock < MAX_CLOCK
  /\ clock' = clock + 1
  /\ UNCHANGED <<m_unlatched, pc, timeout, success, began, missed>>

Next ==
  \/ \E w \in Waiters :
       \/ AttemptAtOnce(w) \/ AttemptClosed(w) \/ AttemptWait(w)
       \/ WaitTimesOut(w) \/ WaitEndsItself(w) \/ AttemptReturns(w)
  \/ \E o \in Openers : Open(o) \/ Reset(o) \/ NotifyAll(o) \/ Close(o)
  \/ Tick

(* Calls that were begun go on; nobody has to call, and a wait need not    *)
(* end by itself.                                                          *)
Fairness ==
  /\ \A w \in Waiters : WF_vars(AttemptWait(w)) /\ WF_vars(AttemptReturns(w))
  /\ \A w \in Waiters : WF_vars(WaitTimesOut(w))
  /\ \A o \in Openers : WF_vars(NotifyAll(o))

Spec == Init /\ [][Next]_vars /\ Fairness

-----------------------------------------------------------------------------
TypeOK ==
  /\ m_unlatched \in BOOLEAN
  /\ DOMAIN pc = Waiters \cup Openers
  /\ \A w \in Waiters : pc[w] \in {"idle", "lock", "waiting", "woken", "timedout"}
  /\ \A o \in Openers : pc[o] \in {"idle", "notify"}
  /\ timeout \in [Waiters -> Timeouts \cup {NO_WAIT}]
  /\ success \in [Waiters -> BOOLEAN]
  /\ clock \in Nat /\ NOW <= clock
  /\ began \in [Waiters -> NOW..clock]
  /\ missed \in [Waiters -> BOOLEAN]

(* A thread waits at an open latch only while the open() that opened it    *)
(* has yet to notify, or if the latch opened after the thread had found it *)
(* closed and before it began to wait: attempt() does not test again       *)
(* inside the mutex, and this is the only way to lose a wakeup.            *)
WaitsOnlyIfMissed ==
  \A w \in Waiters :
    pc[w] = "waiting" /\ m_unlatched => missed[w] \/ \E o \in Openers : pc[o] = "notify"

(* Every other thread that waits at an open latch returns, even if the     *)
(* latch is closed or reset before it gets the mutex.                      *)
OpenReleases ==
  \A w \in Waiters :
    (pc[w] = "waiting" /\ m_unlatched /\ ~missed[w]) ~> pc[w] = "idle"

(* Condition.hpp:41, 45: "Wait on a mutex for a maximum of millis          *)
(* milliseconds ... @return false if timed out".                           *)
TimesOutInTime ==
  \A w \in Waiters : pc[w] = "timedout" => clock >= began[w] + timeout[w]
=============================================================================
