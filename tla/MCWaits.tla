-------------------------------- MODULE MCWaits --------------------------------
(***************************************************************************)
(* Threads and what they wait at, one of them in every execution: a        *)
(* Thread, whose owner and two more call stop(), over two runs, so that a  *)
(* stop() can span a join and a restart; a Latch, with two threads at it   *)
(* and two that open, close and reset it; or locks of every kind, with two *)
(* threads in blocks inside each other.  A time of day is a small number   *)
(* here, yet later than the longest timeout.                               *)
(***************************************************************************)
EXTENDS Thread, Latch, Locks

CONSTANTS s1, s2, w1, w2, o1, o2, t1, t2, mutex, other, plain, shared

MCStoppers == {s1, s2}

MCWaiters  == {w1, w2}
MCOpeners  == {o1, o2}
MCTimeouts == {WAIT_FOREVER, NO_WAIT, 2}

MCThreads == {t1, t2}
MCLocks   == {mutex, other, plain, shared}
MCKind    == [l \in MCLocks |-> CASE l = mutex -> "checked" [] l = other -> "recursive"
                                 [] l = plain -> "unchecked" [] l = shared -> "rw"]

VARIABLE used   \* "thread", "latch" or "locks"

all == <<used, threadVars, vars, lockVars>>

MCInit == used \in {"thread", "latch", "locks"} /\ ThreadInit /\ Init /\ LocksInit
ThreadMoves == used = "thread" /\ ThreadNext /\ UNCHANGED <<used, vars, lockVars>>
LatchMoves  == used = "latch" /\ Next /\ UNCHANGED <<used, threadVars, lockVars>>
LocksMove   == used = "locks" /\ LocksNext /\ UNCHANGED <<used, threadVars, vars>>
MayStop     == used \in {"latch", "locks"} /\ UNCHANGED all
MCNext == ThreadMoves \/ LatchMoves \/ LocksMove \/ MayStop

(* What is not used never gets to a step that fairness is about. *)
MCSpec == MCInit /\ [][MCNext]_all /\ ThreadFairness /\ Fairness /\ LocksFairness
=============================================================================
