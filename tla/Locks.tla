--------------------------------- MODULE Locks ---------------------------------
(***************************************************************************)
(* Mutex, ReadWriteMutex and the ScopedLock (src/code/Mutex.cpp,           *)
(* ReadWriteMutex.cpp, ScopedLock.hpp, Details.hpp): threads enter blocks  *)
(* that hold a lock, one inside the other, and leave them at their end, by *)
(* break or by an exception, with or without an unlock() before.           *)
(*                                                                         *)
(* A timed lock that has waited for 60 seconds logs that and waits again:  *)
(* nothing else changes, so that it is one wait here.  What the pthread    *)
(* calls answer is what POSIX and glibc say.                               *)
(***************************************************************************)
EXTENDS Naturals, Sequences, FiniteSets

CONSTANTS
  Threads,
  Locks,
  Kind,        \* of each lock: "checked", "unchecked", "recursive" or "rw"
  MAX_DEPTH,   \* bound: blocks inside each other
  MAX_BLOCKS   \* bound: blocks that a thread enters

VARIABLES
  holds,    \* how often each thread holds each lock alone
  reads,    \* how often each thread holds it with other readers
  scopes,   \* the ScopedLocks of each thread, the innermost last
  wanted,   \* the lock that the constructor of a ScopedLock waits for
  state,    \* "runs", "locks" or "unwinds"
  entered   \* how many blocks each thread has entered

lockVars == <<holds, reads, scopes, wanted, state, entered>>

Modes(l) == IF Kind[l] = "rw" THEN {"read", "write"} ELSE {"lock"}
Nothing  == [lock |-> "none", mode |-> "none"]

LocksInit ==
  /\ holds = [l \in Locks |-> [t \in Threads |-> 0]]
  /\ reads = [l \in Locks |-> [t \in Threads |-> 0]]
  /\ scopes = [t \in Threads |-> <<>>]
  /\ wanted = [t \in Threads |-> Nothing]
  /\ state = [t \in Threads |-> "runs"]
  /\ entered = [t \in Threads |-> 0]

Moves(t, from, to) == state[t] = from /\ state' = [state EXCEPT ![t] = to]

-----------------------------------------------------------------------------
(* The lock functions of pthread. *)

(* Defect: the mutex is of a type that does not check. *)
WouldDeadlockNever(t, l) == FALSE

(* EDEADLK: an error-checking mutex that the thread has, or a read-write   *)
(* lock that it has for writing.  One that it has for reading is not       *)
(* noticed.                                                                *)
WouldDeadlock(t, l) == Kind[l] \in {"checked", "rw"} /\ holds[l][t] > 0

(* The threads that have to unlock first, perhaps the one that waits. *)
Blockers(t, l, mode) ==
  {u \in Threads : \/ holds[l][u] > 0 /\ ~(u = t /\ Kind[l] = "recursive")
                   \/ mode # "read" /\ reads[l][u] > 0}

Take(t, l, mode) ==
  IF mode = "read" THEN reads' = [reads EXCEPT ![l][t] = @ + 1] /\ UNCHANGED holds
                   ELSE holds' = [holds EXCEPT ![l][t] = @ + 1] /\ UNCHANGED reads

(* EPERM: the mutex is not the thread's.  Nobody is told for an unchecked  *)
(* mutex or a read-write lock.                                             *)
NotOwned(t, l) == Kind[l] \in {"checked", "recursive"} /\ holds[l][t] = 0

GiveBack(t, l, mode) ==
  IF mode = "read" THEN reads' = [reads EXCEPT ![l][t] = @ - 1] /\ UNCHANGED holds
                   ELSE holds' = [holds EXCEPT ![l][t] = @ - 1] /\ UNCHANGED reads

-----------------------------------------------------------------------------
(* explicit ScopedLock(const Lockable& lockable, ...) *)
Enter(t) ==
  /\ Moves(t, "runs", "locks")
  /\ Len(scopes[t]) < MAX_DEPTH /\ entered[t] < MAX_BLOCKS
  /\ entered' = [entered EXCEPT ![t] = @ + 1]
  /\ \E l \in Locks : \E mode \in Modes(l) : wanted' = [wanted EXCEPT ![t] = [lock |-> l, mode |-> mode]]
  /\ UNCHANGED <<holds, reads, scopes>>

Acquire(t) ==
  LET l == wanted[t].lock
      mode == wanted[t].mode IN
  /\ Moves(t, "locks", "runs")
  /\ ~WouldDeadlock(t, l) /\ Blockers(t, l, mode) = {}
  /\ Take(t, l, mode)
  /\ scopes' = [scopes EXCEPT ![t] = Append(@, [lock |-> l, mode |-> mode, m_bLocked |-> TRUE])]
  /\ wanted' = [wanted EXCEPT ![t] = Nothing]
  /\ UNCHANGED entered

(* throw("Deadlock detected ..."): there is no ScopedLock to destroy. *)
LockThrows(t) ==
  /\ Moves(t, "locks", "unwinds")
  /\ WouldDeadlock(t, wanted[t].lock)
  /\ wanted' = [wanted EXCEPT ![t] = Nothing]
  /\ UNCHANGED <<holds, reads, scopes, entered>>

-----------------------------------------------------------------------------
Inner(t) == scopes[t][Len(scopes[t])]
Without(s) == SubSeq(s, 1, Len(s) - 1)

(* void unlock(), as Logger::flush calls it before the end of its block.   *)
Unlock(t) ==
  /\ state[t] = "runs" /\ scopes[t] # <<>> /\ Inner(t).m_bLocked
  /\ GiveBack(t, Inner(t).lock, Inner(t).mode)
  /\ scopes' = [scopes EXCEPT ![t][Len(scopes[t])].m_bLocked = FALSE]
  /\ UNCHANGED <<wanted, state, entered>>

(* A second call is found out by the mutex, not by m_bLocked.  (Where the  *)
(* mutex does not find out, the caller unlocks what it does not have.)     *)
UnlockThrows(t) ==
  /\ Moves(t, "runs", "unwinds")
  /\ scopes[t] # <<>> /\ ~Inner(t).m_bLocked /\ NotOwned(t, Inner(t).lock)
  /\ UNCHANGED <<holds, reads, scopes, wanted, entered>>

(* Defect: the block's end unlocks, but not the destructor. *)
DestroyForgetting(t) ==
  /\ UNCHANGED <<holds, reads>>
  /\ scopes' = [scopes EXCEPT ![t] = Without(@)]

(* virtual ~ScopedLock(), which may not throw; the end of a synchronized   *)
(* block calls unlock() just before.                                       *)
Destroy(t) ==
  /\ IF Inner(t).m_bLocked
     THEN GiveBack(t, Inner(t).lock, Inner(t).mode)
     ELSE UNCHANGED <<holds, reads>>
  /\ scopes' = [scopes EXCEPT ![t] = Without(@)]

Leave(t) ==
  /\ state[t] = "runs" /\ scopes[t] # <<>>
  /\ Destroy(t)
  /\ UNCHANGED <<wanted, state, entered>>

(* The code in a block throws. *)
BlockThrows(t) ==
  /\ scopes[t] # <<>> /\ Moves(t, "runs", "unwinds")
  /\ UNCHANGED <<holds, reads, scopes, wanted, entered>>

(* An exception leaves every block, and is caught outside. *)
Unwind(t) ==
  /\ state[t] = "unwinds" /\ scopes[t] # <<>>
  /\ Destroy(t)
  /\ UNCHANGED <<wanted, state, entered>>

Caught(t) ==
  /\ scopes[t] = <<>> /\ Moves(t, "unwinds", "runs")
  /\ UNCHANGED <<holds, reads, scopes, wanted, entered>>

LocksNext ==
  \E t \in Threads :
    \/ Enter(t) \/ Acquire(t) \/ LockThrows(t) \/ Unlock(t) \/ UnlockThrows(t)
    \/ Leave(t) \/ BlockThrows(t) \/ Unwind(t) \/ Caught(t)

(* A mutex that is free is given to somebody who waits, and no block goes  *)
(* on for ever.                                                            *)
LocksFairness ==
  \A t \in Threads : /\ WF_lockVars(Acquire(t)) /\ WF_lockVars(LockThrows(t))
                     /\ WF_lockVars(Leave(t)) /\ WF_lockVars(Unwind(t))

LocksSpec == LocksInit /\ [][LocksNext]_lockVars /\ LocksFairness

-----------------------------------------------------------------------------
Locked(t, l, modes) ==
  {i \in DOMAIN scopes[t] : /\ scopes[t][i].lock = l /\ scopes[t][i].mode \in modes
                            /\ scopes[t][i].m_bLocked}

(* A thread has a lock as often as ScopedLocks of blocks it is in say so,  *)
(* and has none outside, on whatever path it left them; nobody else has    *)
(* one that it has for itself.  So no destructor unlocks what is not the   *)
(* thread's, which would throw and end the program.                        *)
LocksMatchBlocks ==
  \A l \in Locks, t \in Threads :
    /\ holds[l][t] = Cardinality(Locked(t, l, {"lock", "write"}))
    /\ reads[l][t] = Cardinality(Locked(t, l, {"read"}))
    /\ \A u \in Threads \ {t} : holds[l][t] > 0 => holds[l][u] = 0 /\ reads[l][u] = 0

(* The threads of a cycle wait for each other.  A thread waits for itself  *)
(* only at an unchecked mutex, or to write what it reads.                  *)
Waits(t) == state[t] = "locks"
WaitsFor(t, u) ==
  /\ u \in Blockers(t, wanted[t].lock, wanted[t].mode)
  /\ u = t => Kind[wanted[t].lock] = "unchecked" \/ (wanted[t].mode = "write" /\ reads[wanted[t].lock][t] > 0)
InCycle(t) ==
  \E S \in SUBSET {u \in Threads : Waits(u)} : t \in S /\ \A u \in S : \E v \in S : WaitsFor(u, v)

(* Every lock() returns or throws, unless threads wait for each other in a *)
(* cycle: Mutex.hpp:29, "so we get an exception instead of deadlocking",   *)
(* is so for a thread that waits for itself, and read-write locks that are *)
(* upgraded are left out even there.                                       *)
WaitsEnd == \A t \in Threads : Waits(t) ~> ~Waits(t) \/ InCycle(t)
=============================================================================
