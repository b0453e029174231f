------------------------------ MODULE Waits_proofs ------------------------------
(***************************************************************************)
(* Proofs about the classes at which threads wait: about Latch, for any    *)
(* number of threads, any timeouts and any clock, and about Locks, for any *)
(* number of threads and locks, of blocks and of blocks inside each other. *)
(*                                                                         *)
(* WaitsOnlyIfMissed is inductive once the types are known, and so is      *)
(* LocksMatchBlocks: the types of holds and reads say that nobody unlocks  *)
(* what he does not have.                                                  *)
(***************************************************************************)
EXTENDS Latch, Locks, FiniteSetTheorems, SequenceTheorems, TLAPS

-----------------------------------------------------------------------------
(* Latch *)

LatchInv == TypeOK /\ WaitsOnlyIfMissed

LEMMA LatchInitially == Init => LatchInv
<1> SUFFICES ASSUME Init PROVE LatchInv
  OBVIOUS
<1> USE LatchAssumption DEF Init
<1>1. TypeOK
  <2>1. timeout \in [Waiters -> {NO_WAIT}] /\ success \in [Waiters -> {FALSE}]
        /\ began \in [Waiters -> {NOW}] /\ missed \in [Waiters -> {FALSE}]
    BY Zenon
  <2>2. timeout \in [Waiters -> Timeouts \cup {NO_WAIT}]
    BY <2>1
  <2>3. success \in [Waiters -> BOOLEAN] /\ missed \in [Waiters -> BOOLEAN]
    BY <2>1
  <2>4. clock \in Nat /\ NOW <= clock /\ began \in [Waiters -> NOW..clock]
    BY <2>1
  <2>5. DOMAIN pc = Waiters \cup Openers
        /\ \A t \in Waiters \cup Openers : pc[t] = "idle"
    BY Zenon
  <2>6. m_unlatched \in BOOLEAN
    BY Zenon
  <2> QED
    BY <2>2, <2>3, <2>4, <2>5, <2>6 DEF TypeOK
<1>2. WaitsOnlyIfMissed
  BY DEF WaitsOnlyIfMissed
<1> QED
  BY <1>1, <1>2 DEF LatchInv

LEMMA LatchPreserved == LatchInv /\ [Next]_vars => LatchInv'
<1> SUFFICES ASSUME LatchInv, [Next]_vars PROVE LatchInv'
  OBVIOUS
<1> USE LatchAssumption DEF LatchInv, TypeOK, WaitsOnlyIfMissed, Go, Return
<1>1. ASSUME NEW w \in Waiters, AttemptAtOnce(w) PROVE LatchInv'
  BY <1>1 DEF AttemptAtOnce
<1>2. ASSUME NEW w \in Waiters, AttemptClosed(w) PROVE LatchInv'
  BY <1>2 DEF AttemptClosed
<1>3. ASSUME NEW w \in Waiters, AttemptWait(w) PROVE LatchInv'
  BY <1>3 DEF AttemptWait
<1>4. ASSUME NEW w \in Waiters, WaitTimesOut(w) PROVE LatchInv'
  BY <1>4 DEF WaitTimesOut
<1>5. ASSUME NEW w \in Waiters, WaitEndsItself(w) PROVE LatchInv'
  BY <1>5 DEF WaitEndsItself
<1>6. ASSUME NEW w \in Waiters, AttemptReturns(w) PROVE LatchInv'
  BY <1>6 DEF AttemptReturns
<1>7. ASSUME NEW o \in Openers, Open(o) PROVE LatchInv'
  BY <1>7 DEF Open
<1>8. ASSUME NEW o \in Openers, Reset(o) PROVE LatchInv'
  BY <1>8 DEF Reset
<1>9. ASSUME NEW o \in Openers, NotifyAll(o) PROVE LatchInv'
  BY <1>9 DEF NotifyAll
<1>10. ASSUME NEW o \in Openers, Close(o) PROVE LatchInv'
  BY <1>10 DEF Close
<1>11. CASE Tick
  BY <1>11 DEF Tick
<1>12. CASE UNCHANGED vars
  BY <1>12 DEF vars
<1> QED
  BY <1>1, <1>2, <1>3, <1>4, <1>5, <1>6, <1>7, <1>8, <1>9, <1>10, <1>11, <1>12 DEF Next

LEMMA LatchInvariant == Spec => []LatchInv
  BY LatchInitially, LatchPreserved, PTL DEF Spec

(* Every state of the specification has its type. *)
THEOREM LatchTypeCorrect == Spec => []TypeOK
<1>1. LatchInv => TypeOK
  BY DEF LatchInv
<1> QED
  BY LatchInvariant, <1>1, PTL

(* The only thread that can be left waiting at an open latch is one that   *)
(* began to wait after the latch had been opened: Latch::attempt loses no  *)
(* other wakeup.                                                           *)
THEOREM OnlyLateWaitersAreMissed == Spec => []WaitsOnlyIfMissed
<1>1. LatchInv => WaitsOnlyIfMissed
  BY DEF LatchInv
<1> QED
  BY LatchInvariant, <1>1, PTL

-----------------------------------------------------------------------------
(* Locks *)

ScopedLocks == [lock : Locks, mode : {"lock", "read", "write"}, m_bLocked : BOOLEAN]

LocksTypeOK ==
  /\ holds \in [Locks -> [Threads -> Nat]]
  /\ reads \in [Locks -> [Threads -> Nat]]
  /\ scopes \in [Threads -> Seq(ScopedLocks)]
  /\ state \in [Threads -> {"runs", "locks", "unwinds"}]
  /\ wanted \in [Threads -> [lock : Locks \cup {"none"}, mode : {"lock", "read", "write", "none"}]]
  /\ \A t \in Threads : state[t] = "locks" =>
       /\ wanted[t].lock \in Locks
       /\ wanted[t].mode \in {"lock", "read", "write"}

LocksInv == LocksTypeOK /\ LocksMatchBlocks

-----------------------------------------------------------------------------
(* The ScopedLocks in s that have l. *)
LockedIn(s, l, modes) == {i \in 1..Len(s) : s[i].lock = l /\ s[i].mode \in modes /\ s[i].m_bLocked}

Alone == {"lock", "write"}

LEMMA LockedFinite ==
  ASSUME NEW s \in Seq(ScopedLocks), NEW l, NEW modes
  PROVE  IsFiniteSet(LockedIn(s, l, modes)) /\ Cardinality(LockedIn(s, l, modes)) \in Nat
<1>1. IsFiniteSet(1..Len(s))
  BY FS_Interval
<1> QED
  BY <1>1, FS_Subset, FS_CardinalityType DEF LockedIn

(* A ScopedLock more counts for its lock and mode. *)
LEMMA LockedAppend ==
  ASSUME NEW s \in Seq(ScopedLocks), NEW e \in ScopedLocks, e.m_bLocked, NEW l, NEW modes
  PROVE  Cardinality(LockedIn(Append(s, e), l, modes))
           = Cardinality(LockedIn(s, l, modes)) + (IF e.lock = l /\ e.mode \in modes THEN 1 ELSE 0)
<1> DEFINE n == Len(s) + 1
<1>1. /\ Len(s) \in Nat /\ Len(Append(s, e)) = n /\ Append(s, e)[n] = e
      /\ \A i \in 1..Len(s) : Append(s, e)[i] = s[i]
  OBVIOUS
<1>2. n \notin LockedIn(s, l, modes)
  BY <1>1 DEF LockedIn
<1>3. 1..n = 1..Len(s) \cup {n}
  BY <1>1
<1>4. CASE e.lock = l /\ e.mode \in modes
  <2>1. LockedIn(Append(s, e), l, modes) = LockedIn(s, l, modes) \cup {n}
    BY <1>1, <1>3, <1>4 DEF LockedIn
  <2>2. Cardinality(LockedIn(Append(s, e), l, modes)) = Cardinality(LockedIn(s, l, modes)) + 1
    <3>1. IsFiniteSet(LockedIn(s, l, modes))
      BY LockedFinite
    <3> HIDE DEF n
    <3> QED
      BY <1>2, <2>1, <3>1, FS_AddElement
  <2> QED
    BY <1>4, <2>2
<1>5. CASE ~(e.lock = l /\ e.mode \in modes)
  <2>1. LockedIn(Append(s, e), l, modes) = LockedIn(s, l, modes)
    BY <1>1, <1>3, <1>5 DEF LockedIn
  <2> QED
    BY <1>5, <2>1, LockedFinite
<1> QED
  BY <1>4, <1>5

(* The innermost ScopedLock counts no more, destroyed or unlocked. *)
LEMMA LockedWithout ==
  ASSUME NEW s \in Seq(ScopedLocks), s # <<>>, NEW l, NEW modes
  PROVE  /\ Without(s) \in Seq(ScopedLocks)
         /\ LockedIn(Without(s), l, modes) = LockedIn(s, l, modes) \ {Len(s)}
<1>1. /\ Len(s) \in Nat /\ Len(s) > 0 /\ Without(s) \in Seq(ScopedLocks) /\ Len(Without(s)) = Len(s) - 1
      /\ \A i \in 1..(Len(s) - 1) : Without(s)[i] = s[i]
  <2>1. Len(s) \in Nat /\ Len(s) > 0 /\ \A i \in 1..(Len(s) - 1) : s[i] \in ScopedLocks
    OBVIOUS
  <2>2. /\ SubSeq(s, 1, Len(s) - 1) \in Seq(ScopedLocks)
        /\ Len(SubSeq(s, 1, Len(s) - 1)) = IF 1 <= Len(s) - 1 THEN Len(s) - 1 ELSE 0
        /\ \A i \in 1..(Len(s) - 1) : SubSeq(s, 1, Len(s) - 1)[i] = s[i]
    BY <2>1, SubSeqProperties
  <2>3. Without(s) = SubSeq(s, 1, Len(s) - 1)
    BY Zenon DEF Without
  <2>4. \A n \in Nat : n > 0 => (IF 1 <= n - 1 THEN n - 1 ELSE 0) = n - 1
    OBVIOUS
  <2> QED
    BY <2>1, <2>2, <2>3, <2>4, Zenon
<1>2. 1..(Len(s) - 1) = 1..Len(s) \ {Len(s)}
  BY <1>1
<1> QED
  BY <1>1, <1>2 DEF LockedIn

LEMMA FunctionIsSeq ==
  ASSUME NEW S, NEW n \in Nat, NEW f \in [1..n -> S]
  PROVE  f \in Seq(S) /\ Len(f) = n
OBVIOUS

(* The last element of a sequence, replaced. *)
LEMMA ReplaceLast ==
  ASSUME NEW S, NEW s \in Seq(S), s # <<>>, NEW e \in S
  PROVE  /\ [s EXCEPT ![Len(s)] = e] \in Seq(S)
         /\ Len([s EXCEPT ![Len(s)] = e]) = Len(s)
         /\ [s EXCEPT ![Len(s)] = e][Len(s)] = e
         /\ \A i \in 1..Len(s) : i # Len(s) => [s EXCEPT ![Len(s)] = e][i] = s[i]
<1>1. \A n \in Nat : n > 0 => \A f \in [1..n -> S] :
        /\ [f EXCEPT ![n] = e] \in [1..n -> S]
        /\ [f EXCEPT ![n] = e][n] = e
        /\ \A i \in 1..n : i # n => [f EXCEPT ![n] = e][i] = f[i]
  OBVIOUS
<1>2. Len(s) \in Nat /\ Len(s) > 0 /\ s \in [1..Len(s) -> S]
  OBVIOUS
<1> DEFINE after == [s EXCEPT ![Len(s)] = e]
<1>3. /\ after \in [1..Len(s) -> S] /\ after[Len(s)] = e
      /\ \A i \in 1..Len(s) : i # Len(s) => after[i] = s[i]
  BY <1>1, <1>2, Zenon
<1>4. after \in Seq(S) /\ Len(after) = Len(s)
  <2> HIDE DEF after
  <2> QED
    BY <1>2, <1>3, FunctionIsSeq, Zenon
<1> QED
  BY <1>3, <1>4, Zenon

LEMMA LockedUnset ==
  ASSUME NEW s \in Seq(ScopedLocks), s # <<>>, NEW l, NEW modes
  PROVE  /\ [s EXCEPT ![Len(s)].m_bLocked = FALSE] \in Seq(ScopedLocks)
         /\ LockedIn([s EXCEPT ![Len(s)].m_bLocked = FALSE], l, modes) = LockedIn(s, l, modes) \ {Len(s)}
<1> DEFINE last == [s[Len(s)] EXCEPT !.m_bLocked = FALSE]
           after == [s EXCEPT ![Len(s)] = last]
<1>1. Len(s) \in Nat /\ Len(s) > 0 /\ s[Len(s)] \in ScopedLocks
  OBVIOUS
<1>2. last \in ScopedLocks /\ ~last.m_bLocked
  BY <1>1 DEF ScopedLocks
<1>3. /\ after \in Seq(ScopedLocks) /\ Len(after) = Len(s) /\ after[Len(s)] = last
      /\ \A i \in 1..Len(s) : i # Len(s) => after[i] = s[i]
  <2>1. \A e \in ScopedLocks :
          /\ [s EXCEPT ![Len(s)] = e] \in Seq(ScopedLocks) /\ Len([s EXCEPT ![Len(s)] = e]) = Len(s)
          /\ [s EXCEPT ![Len(s)] = e][Len(s)] = e
          /\ \A i \in 1..Len(s) : i # Len(s) => [s EXCEPT ![Len(s)] = e][i] = s[i]
    BY ReplaceLast
  <2> HIDE DEF last
  <2> QED
    BY <1>2, <2>1, Zenon
<1>4. [s EXCEPT ![Len(s)].m_bLocked = FALSE] = after
  OBVIOUS
<1> HIDE DEF after, last
<1>5. LockedIn(after, l, modes) = LockedIn(s, l, modes) \ {Len(s)}
  BY <1>1, <1>2, <1>3 DEF LockedIn
<1> QED
  BY <1>3, <1>4, <1>5

(* However it is left out, the innermost ScopedLock counts one less. *)
CountsLess(s, rest) ==
  \A l \in Locks : \A modes \in {Alone, {"read"}} :
    Cardinality(LockedIn(rest, l, modes))
      = IF s[Len(s)].m_bLocked /\ s[Len(s)].lock = l /\ s[Len(s)].mode \in modes
        THEN Cardinality(LockedIn(s, l, modes)) - 1 ELSE Cardinality(LockedIn(s, l, modes))

LEMMA LockedLess ==
  ASSUME NEW s \in Seq(ScopedLocks), s # <<>>, NEW rest,
         \A l, modes : LockedIn(rest, l, modes) = LockedIn(s, l, modes) \ {Len(s)}
  PROVE  CountsLess(s, rest)
<1> SUFFICES ASSUME NEW l \in Locks, NEW modes \in {Alone, {"read"}}
             PROVE  Cardinality(LockedIn(rest, l, modes))
                      = IF s[Len(s)].m_bLocked /\ s[Len(s)].lock = l /\ s[Len(s)].mode \in modes
                        THEN Cardinality(LockedIn(s, l, modes)) - 1 ELSE Cardinality(LockedIn(s, l, modes))
  BY DEF CountsLess
<1>1. Len(s) \in 1..Len(s)
  OBVIOUS
<1>2. IsFiniteSet(LockedIn(s, l, modes))
  BY LockedFinite
<1>3. LockedIn(rest, l, modes) = LockedIn(s, l, modes) \ {Len(s)}
  OBVIOUS
<1>4. Len(s) \in LockedIn(s, l, modes)
        <=> s[Len(s)].m_bLocked /\ s[Len(s)].lock = l /\ s[Len(s)].mode \in modes
  BY <1>1, Zenon DEF LockedIn
<1>5. CASE Len(s) \in LockedIn(s, l, modes)
  <2>1. Cardinality(LockedIn(rest, l, modes)) = Cardinality(LockedIn(s, l, modes)) - 1
    BY <1>2, <1>3, <1>5, FS_RemoveElement
  <2> QED
    BY <1>4, <1>5, <2>1, Zenon
<1>6. CASE Len(s) \notin LockedIn(s, l, modes)
  <2>1. LockedIn(rest, l, modes) = LockedIn(s, l, modes)
    BY <1>3, <1>6
  <2> QED
    BY <1>4, <1>6, <2>1, Zenon
<1> QED
  BY <1>5, <1>6

-----------------------------------------------------------------------------
(* The invariant, with the ScopedLocks counted. *)

Counted ==
  \A l \in Locks, t \in Threads :
    /\ holds[l][t] = Cardinality(LockedIn(scopes[t], l, Alone))
    /\ reads[l][t] = Cardinality(LockedIn(scopes[t], l, {"read"}))

Excluded ==
  \A l \in Locks, t \in Threads : \A u \in Threads \ {t} :
    holds[l][t] > 0 => holds[l][u] = 0 /\ reads[l][u] = 0

LEMMA MatchIsCount ==
  /\ scopes \in [Threads -> Seq(ScopedLocks)] => (LocksMatchBlocks <=> Counted /\ Excluded)
  /\ scopes' \in [Threads -> Seq(ScopedLocks)] => (LocksMatchBlocks' <=> Counted' /\ Excluded')
<1>1. ASSUME NEW s \in Seq(ScopedLocks), NEW l, NEW modes
      PROVE  {i \in DOMAIN s : s[i].lock = l /\ s[i].mode \in modes /\ s[i].m_bLocked} = LockedIn(s, l, modes)
  <2>1. DOMAIN s = 1..Len(s)
    OBVIOUS
  <2> QED
    BY <2>1 DEF LockedIn
<1>2. ASSUME scopes \in [Threads -> Seq(ScopedLocks)]
      PROVE  LocksMatchBlocks <=> Counted /\ Excluded
  <2>1. \A t \in Threads : scopes[t] \in Seq(ScopedLocks)
    BY <1>2
  <2>2. ASSUME NEW t \in Threads, NEW l, NEW modes
        PROVE  Locked(t, l, modes) = LockedIn(scopes[t], l, modes)
    BY <1>1, <2>1 DEF Locked
  <2> QED
    BY <2>2 DEF LocksMatchBlocks, Counted, Excluded, Alone
<1>3. ASSUME scopes' \in [Threads -> Seq(ScopedLocks)]
      PROVE  LocksMatchBlocks' <=> Counted' /\ Excluded'
  <2>1. \A t \in Threads : scopes'[t] \in Seq(ScopedLocks)
    BY <1>3
  <2>2. ASSUME NEW t \in Threads, NEW l, NEW modes
        PROVE  Locked(t, l, modes)' = LockedIn(scopes'[t], l, modes)
    BY <1>1, <2>1 DEF Locked
  <2> QED
    BY <2>2 DEF LocksMatchBlocks, Counted, Excluded, Alone
<1> QED
  BY <1>2, <1>3

(* The innermost ScopedLock gives its lock back, if it has it, and counts  *)
(* no more: unlock(), the end of a block, an exception that leaves it.     *)
LEMMA GivesBack ==
  ASSUME LocksInv, NEW t \in Threads, scopes[t] # <<>>,
         NEW rest \in Seq(ScopedLocks), scopes' = [scopes EXCEPT ![t] = rest],
         CountsLess(scopes[t], rest),
         IF Inner(t).m_bLocked THEN GiveBack(t, Inner(t).lock, Inner(t).mode)
                               ELSE UNCHANGED <<holds, reads>>,
         UNCHANGED <<wanted, state>>
  PROVE  LocksInv'
<1> DEFINE e == Inner(t)
<1>1. /\ e \in ScopedLocks /\ scopes[t] \in Seq(ScopedLocks)
      /\ holds \in [Locks -> [Threads -> Nat]] /\ reads \in [Locks -> [Threads -> Nat]]
  BY DEF LocksInv, LocksTypeOK, Inner
<1>2. Counted /\ Excluded
  BY MatchIsCount DEF LocksInv, LocksTypeOK
<1>3. /\ holds' \in [Locks -> [Threads -> Int]] /\ reads' \in [Locks -> [Threads -> Int]]
      /\ \A l \in Locks, u \in Threads :
           /\ holds'[l][u] = IF u = t /\ e.m_bLocked /\ e.lock = l /\ e.mode \in Alone
                             THEN holds[l][u] - 1 ELSE holds[l][u]
           /\ reads'[l][u] = IF u = t /\ e.m_bLocked /\ e.lock = l /\ e.mode \in {"read"}
                             THEN reads[l][u] - 1 ELSE reads[l][u]
  <2> HIDE DEF e
  <2>1. e.lock \in Locks /\ e.mode \in Alone \cup {"read"} /\ "read" \notin Alone
    BY <1>1 DEF ScopedLocks, Alone
  <2>2. CASE ~e.m_bLocked
    BY <1>1, <2>2 DEF e
  <2>3. CASE e.m_bLocked /\ e.mode = "read"
    <3>1. holds' = holds /\ reads' = [reads EXCEPT ![e.lock][t] = @ - 1]
      BY <2>3 DEF GiveBack, e
    <3> QED
      BY <1>1, <2>1, <2>3, <3>1
  <2>4. CASE e.m_bLocked /\ e.mode # "read"
    <3>1. reads' = reads /\ holds' = [holds EXCEPT ![e.lock][t] = @ - 1]
      BY <2>4 DEF GiveBack, e
    <3>2. e.mode \in Alone
      BY <2>1, <2>4
    <3> QED
      BY <1>1, <2>1, <2>4, <3>1, <3>2
  <2> QED
    BY <2>2, <2>3, <2>4
<1>4. ASSUME NEW l \in Locks
      PROVE  /\ holds'[l][t] = Cardinality(LockedIn(rest, l, Alone))
             /\ reads'[l][t] = Cardinality(LockedIn(rest, l, {"read"}))
  <2>1. ASSUME NEW modes \in {Alone, {"read"}}
        PROVE  Cardinality(LockedIn(rest, l, modes))
                 = IF e.m_bLocked /\ e.lock = l /\ e.mode \in modes
                   THEN Cardinality(LockedIn(scopes[t], l, modes)) - 1
                   ELSE Cardinality(LockedIn(scopes[t], l, modes))
    BY Zenon DEF CountsLess, Inner
  <2>2. /\ holds[l][t] = Cardinality(LockedIn(scopes[t], l, Alone))
        /\ reads[l][t] = Cardinality(LockedIn(scopes[t], l, {"read"}))
    BY <1>2 DEF Counted
  <2>3. /\ holds'[l][t] = IF e.m_bLocked /\ e.lock = l /\ e.mode \in Alone
                          THEN holds[l][t] - 1 ELSE holds[l][t]
        /\ reads'[l][t] = IF e.m_bLocked /\ e.lock = l /\ e.mode \in {"read"}
                          THEN reads[l][t] - 1 ELSE reads[l][t]
    BY <1>3
  <2>4. Alone \in {Alone, {"read"}} /\ {"read"} \in {Alone, {"read"}}
    OBVIOUS
  <2> HIDE DEF e
  <2> QED
    BY <2>1, <2>2, <2>3, <2>4, Zenon
<1>5. ASSUME NEW u \in Threads, u # t
      PROVE  /\ scopes'[u] = scopes[u]
             /\ \A l \in Locks : holds'[l][u] = holds[l][u] /\ reads'[l][u] = reads[l][u]
  BY <1>1, <1>3, <1>5 DEF LocksInv, LocksTypeOK
<1>6. scopes' \in [Threads -> Seq(ScopedLocks)] /\ scopes'[t] = rest
  BY DEF LocksInv, LocksTypeOK
<1>7. Counted'
  BY <1>2, <1>4, <1>5, <1>6 DEF Counted
<1>8. ASSUME NEW l \in Locks, NEW u \in Threads
      PROVE  /\ holds'[l][u] \in Nat /\ holds'[l][u] <= holds[l][u]
             /\ reads'[l][u] \in Nat /\ reads'[l][u] <= reads[l][u]
  <2>1. CASE u = t
    <3>1. holds'[l][t] \in Nat /\ reads'[l][t] \in Nat
      BY <1>4, LockedFinite
    <3>2. holds[l][t] \in Nat /\ reads[l][t] \in Nat
      BY <1>1
    <3>3. holds'[l][t] \in {holds[l][t] - 1, holds[l][t]} /\ reads'[l][t] \in {reads[l][t] - 1, reads[l][t]}
      BY <1>3, Zenon
    <3> QED
      BY <2>1, <3>1, <3>2, <3>3
  <2>2. CASE u # t
    BY <1>1, <1>5, <2>2
  <2> QED
    BY <2>1, <2>2
<1>9. Excluded'
  <2>1. SUFFICES ASSUME NEW l \in Locks, NEW v \in Threads, NEW u \in Threads \ {v}, holds'[l][v] > 0
                 PROVE  holds'[l][u] = 0 /\ reads'[l][u] = 0
    BY DEF Excluded
  <2>2. holds[l][v] > 0
    BY <1>1, <1>8, <2>1
  <2>3. holds[l][u] = 0 /\ reads[l][u] = 0
    BY <1>2, <2>2 DEF Excluded
  <2> QED
    BY <1>8, <2>3
<1>10. LocksTypeOK'
  <2>1. holds' \in [Locks -> [Threads -> Nat]] /\ reads' \in [Locks -> [Threads -> Nat]]
    BY <1>3, <1>8
  <2> QED
    BY <1>6, <2>1 DEF LocksInv, LocksTypeOK
<1> QED
  BY <1>6, <1>7, <1>9, <1>10, MatchIsCount DEF LocksInv

(* A thread gets a lock only when nobody else is in its way. *)
LEMMA AcquirePreserves ==
  ASSUME LocksInv, NEW t \in Threads, Acquire(t)
  PROVE  LocksInv'
<1> DEFINE lk == wanted[t].lock
           md == wanted[t].mode
           e  == [lock |-> lk, mode |-> md, m_bLocked |-> TRUE]
           rest == Append(scopes[t], e)
<1>1. /\ holds \in [Locks -> [Threads -> Nat]] /\ reads \in [Locks -> [Threads -> Nat]]
      /\ scopes \in [Threads -> Seq(ScopedLocks)] /\ scopes[t] \in Seq(ScopedLocks)
  BY DEF LocksInv, LocksTypeOK
<1>2. lk \in Locks /\ md \in {"lock", "read", "write"}
  BY DEF LocksInv, LocksTypeOK, Acquire, Moves
<1>3. Counted /\ Excluded
  BY MatchIsCount DEF LocksInv, LocksTypeOK
<1>4. /\ e \in ScopedLocks /\ e.m_bLocked /\ e.lock = lk /\ e.mode = md
      /\ rest \in Seq(ScopedLocks)
  <2>1. e \in ScopedLocks /\ e.m_bLocked /\ e.lock = lk /\ e.mode = md
    BY <1>2 DEF ScopedLocks
  <2> HIDE DEF e
  <2> QED
    BY <1>1, <2>1
<1>5. scopes' \in [Threads -> Seq(ScopedLocks)] /\ scopes'[t] = rest
      /\ \A u \in Threads : u # t => scopes'[u] = scopes[u]
  <2>1. scopes' = [scopes EXCEPT ![t] = rest]
    BY DEF Acquire
  <2> HIDE DEF rest
  <2> QED
    BY <1>1, <1>4, <2>1
<1>6. /\ holds' \in [Locks -> [Threads -> Nat]] /\ reads' \in [Locks -> [Threads -> Nat]]
      /\ \A l \in Locks, u \in Threads :
           /\ holds'[l][u] = holds[l][u] + (IF u = t /\ l = lk /\ md # "read" THEN 1 ELSE 0)
           /\ reads'[l][u] = reads[l][u] + (IF u = t /\ l = lk /\ md = "read" THEN 1 ELSE 0)
  <2>1. Take(t, lk, md)
    BY DEF Acquire
  <2> HIDE DEF lk, md
  <2>2. CASE md = "read"
    <3>1. reads' = [reads EXCEPT ![lk][t] = @ + 1] /\ holds' = holds
      BY <2>1, <2>2 DEF Take
    <3> QED
      BY <1>1, <1>2, <2>2, <3>1
  <2>3. CASE md # "read"
    <3>1. holds' = [holds EXCEPT ![lk][t] = @ + 1] /\ reads' = reads
      BY <2>1, <2>3 DEF Take
    <3> QED
      BY <1>1, <1>2, <2>3, <3>1
  <2> QED
    BY <2>2, <2>3
<1>7. Counted'
  <2>1. ASSUME NEW l \in Locks
        PROVE  /\ holds'[l][t] = Cardinality(LockedIn(rest, l, Alone))
               /\ reads'[l][t] = Cardinality(LockedIn(rest, l, {"read"}))
    <3>1. ASSUME NEW modes
          PROVE  Cardinality(LockedIn(rest, l, modes))
                   = Cardinality(LockedIn(scopes[t], l, modes)) + (IF lk = l /\ md \in modes THEN 1 ELSE 0)
      <4>1. Cardinality(LockedIn(rest, l, modes))
              = Cardinality(LockedIn(scopes[t], l, modes)) + (IF e.lock = l /\ e.mode \in modes THEN 1 ELSE 0)
        <5>1. \A x \in ScopedLocks : x.m_bLocked =>
                Cardinality(LockedIn(Append(scopes[t], x), l, modes))
                  = Cardinality(LockedIn(scopes[t], l, modes)) + (IF x.lock = l /\ x.mode \in modes THEN 1 ELSE 0)
          BY <1>1, LockedAppend
        <5> HIDE DEF e
        <5> QED
          BY <1>4, <5>1
      <4> QED
        BY <4>1
    <3>2. /\ holds[l][t] = Cardinality(LockedIn(scopes[t], l, Alone))
          /\ reads[l][t] = Cardinality(LockedIn(scopes[t], l, {"read"}))
      BY <1>3 DEF Counted
    <3>3. (md # "read" <=> md \in Alone) /\ (md = "read" <=> md \in {"read"})
      BY <1>2 DEF Alone
    <3> HIDE DEF lk, md, rest
    <3> QED
      BY <1>6, <3>1, <3>2, <3>3
  <2>2. ASSUME NEW l \in Locks, NEW u \in Threads, u # t
        PROVE  holds'[l][u] = holds[l][u] /\ reads'[l][u] = reads[l][u]
    <3> HIDE DEF lk, md
    <3> QED
      BY <1>1, <1>6, <2>2
  <2> HIDE DEF rest
  <2> QED
    BY <1>3, <1>5, <2>1, <2>2 DEF Counted
<1>8. Excluded'
  <2>1. \A u \in Threads : /\ holds[lk][u] > 0 => u = t
                           /\ md # "read" /\ reads[lk][u] > 0 => FALSE
    BY DEF Acquire, Blockers
  <2> HIDE DEF lk, md
  <2>2. SUFFICES ASSUME NEW l \in Locks, NEW v \in Threads, NEW u \in Threads \ {v}, holds'[l][v] > 0
                 PROVE  holds'[l][u] = 0 /\ reads'[l][u] = 0
    BY DEF Excluded
  <2>3. /\ holds[l][v] \in Nat /\ holds[l][u] \in Nat /\ reads[l][v] \in Nat /\ reads[l][u] \in Nat
        /\ holds[l][v] > 0 => holds[l][u] = 0 /\ reads[l][u] = 0
    BY <1>1, <1>3 DEF Excluded
  <2>4. CASE l # lk
    BY <1>6, <2>2, <2>3, <2>4
  <2>5. CASE l = lk /\ md = "read"
    <3>1. holds'[l][v] = holds[l][v] /\ holds'[l][u] = holds[l][u]
      BY <1>6, <2>3, <2>5
    <3>2. holds[l][v] > 0 /\ v = t /\ u # t
      BY <2>1, <2>2, <2>5, <3>1
    <3> QED
      BY <1>6, <2>3, <3>2
  <2>6. CASE l = lk /\ md # "read"
    <3>1. reads[l][u] = 0 /\ reads'[l][u] = reads[l][u]
      BY <1>6, <2>1, <2>3, <2>6
    <3>2. v = t
      BY <1>6, <2>1, <2>2, <2>3, <2>6
    <3>3. holds[l][u] = 0
      BY <2>1, <2>3, <2>6, <3>2
    <3> QED
      BY <1>6, <2>3, <3>1, <3>2, <3>3
  <2> QED
    BY <2>4, <2>5, <2>6
<1>9. LocksTypeOK'
  <2>1. /\ state' = [state EXCEPT ![t] = "runs"] /\ wanted' = [wanted EXCEPT ![t] = Nothing]
        /\ state \in [Threads -> {"runs", "locks", "unwinds"}]
        /\ wanted \in [Threads -> [lock : Locks \cup {"none"}, mode : {"lock", "read", "write", "none"}]]
    BY DEF Acquire, Moves, LocksInv, LocksTypeOK
  <2>2. Nothing \in [lock : Locks \cup {"none"}, mode : {"lock", "read", "write", "none"}]
    BY DEF Nothing
  <2>3. /\ state' \in [Threads -> {"runs", "locks", "unwinds"}]
        /\ wanted' \in [Threads -> [lock : Locks \cup {"none"}, mode : {"lock", "read", "write", "none"}]]
        /\ \A u \in Threads : state'[u] = "locks" => state[u] = "locks" /\ wanted'[u] = wanted[u]
    BY <2>1, <2>2
  <2> QED
    BY <1>5, <1>6, <2>3 DEF LocksInv, LocksTypeOK
<1> QED
  BY <1>5, <1>7, <1>8, <1>9, MatchIsCount DEF LocksInv

(* What a thread does besides locking and unlocking. *)
LEMMA OnlyMoves ==
  ASSUME LocksInv, UNCHANGED <<holds, reads, scopes>>, LocksTypeOK'
  PROVE  LocksInv'
<1>1. holds' = holds /\ reads' = reads /\ scopes' = scopes
  OBVIOUS
<1>2. scopes \in [Threads -> Seq(ScopedLocks)] /\ Counted /\ Excluded
  BY MatchIsCount DEF LocksInv, LocksTypeOK
<1>3. Counted' /\ Excluded'
  BY <1>1, <1>2 DEF Counted, Excluded
<1> QED
  BY <1>1, <1>2, <1>3, MatchIsCount DEF LocksInv

LEMMA LocksInitially == LocksInit => LocksInv
<1> SUFFICES ASSUME LocksInit PROVE LocksInv
  OBVIOUS
<1>1. LocksTypeOK
  BY DEF LocksInit, LocksTypeOK, Nothing
<1>2. \A t \in Threads, l \in Locks, modes \in {Alone, {"read"}} : Cardinality(LockedIn(scopes[t], l, modes)) = 0
  <2>1. \A t \in Threads, l \in Locks, modes \in {Alone, {"read"}} : LockedIn(scopes[t], l, modes) = {}
    BY DEF LocksInit, LockedIn
  <2> QED
    BY <2>1, FS_EmptySet
<1>3. Counted /\ Excluded
  BY <1>2 DEF LocksInit, Counted, Excluded
<1> QED
  BY <1>1, <1>3, MatchIsCount DEF LocksInv, LocksTypeOK

LEMMA LocksPreserved == LocksInv /\ [LocksNext]_lockVars => LocksInv'
<1> SUFFICES ASSUME LocksInv, [LocksNext]_lockVars PROVE LocksInv'
  OBVIOUS
<1>1. CASE UNCHANGED lockVars
  BY <1>1, OnlyMoves DEF lockVars, LocksInv, LocksTypeOK
<1>2. CASE LocksNext
  <2>1. PICK t \in Threads :
          \/ Enter(t) \/ Acquire(t) \/ LockThrows(t) \/ Unlock(t) \/ UnlockThrows(t)
          \/ Leave(t) \/ BlockThrows(t) \/ Unwind(t) \/ Caught(t)
    BY <1>2 DEF LocksNext
  <2>2. CASE Enter(t)
    <3>1. PICK l \in Locks, mode \in {"lock", "read", "write"} :
            wanted' = [wanted EXCEPT ![t] = [lock |-> l, mode |-> mode]]
      BY <2>2 DEF Enter, Modes
    <3>2. LocksTypeOK'
      BY <2>2, <3>1 DEF Enter, Moves, LocksInv, LocksTypeOK
    <3> QED
      BY <2>2, <3>2, OnlyMoves DEF Enter
  <2>3. CASE Acquire(t)
    BY <2>3, AcquirePreserves
  <2>4. CASE LockThrows(t)
    <3>1. LocksTypeOK'
      BY <2>4 DEF LockThrows, Moves, LocksInv, LocksTypeOK, Nothing
    <3> QED
      BY <2>4, <3>1, OnlyMoves DEF LockThrows
  <2>5. CASE Unlock(t)
    <3>1. scopes[t] \in Seq(ScopedLocks) /\ scopes[t] # <<>> /\ Inner(t).m_bLocked
      BY <2>5 DEF Unlock, LocksInv, LocksTypeOK
    <3> DEFINE rest == [scopes[t] EXCEPT ![Len(scopes[t])].m_bLocked = FALSE]
    <3>2. scopes' = [scopes EXCEPT ![t] = rest]
      BY <2>5 DEF Unlock
    <3>3 rest \in Seq(ScopedLocks) /\ CountsLess(scopes[t], rest)
      <4>1. \A l, modes : /\ rest \in Seq(ScopedLocks)
                          /\ LockedIn(rest, l, modes) = LockedIn(scopes[t], l, modes) \ {Len(scopes[t])}
        BY <3>1, LockedUnset, Zenon
      <4> HIDE DEF rest
      <4> QED
        BY <3>1, <4>1, LockedLess, Zenon
    <3> HIDE DEF rest
    <3> QED
      BY <2>5, <3>1, <3>2, <3>3, GivesBack, Zenon DEF Unlock
  <2>6. CASE UnlockThrows(t)
    <3>1. LocksTypeOK'
      BY <2>6 DEF UnlockThrows, Moves, LocksInv, LocksTypeOK
    <3> QED
      BY <2>6, <3>1, OnlyMoves DEF UnlockThrows
  <2>7. CASE Leave(t) \/ Unwind(t)
    <3>1. scopes[t] \in Seq(ScopedLocks) /\ scopes[t] # <<>>
      BY <2>7 DEF Leave, Unwind, LocksInv, LocksTypeOK
    <3> DEFINE rest == Without(scopes[t])
    <3>2 rest \in Seq(ScopedLocks) /\ CountsLess(scopes[t], rest)
      <4>1. \A l, modes : /\ rest \in Seq(ScopedLocks)
                          /\ LockedIn(rest, l, modes) = LockedIn(scopes[t], l, modes) \ {Len(scopes[t])}
        BY <3>1, LockedWithout, Zenon
      <4> HIDE DEF rest
      <4> QED
        BY <3>1, <4>1, LockedLess, Zenon
    <3>3. /\ scopes' = [scopes EXCEPT ![t] = rest]
          /\ IF Inner(t).m_bLocked THEN GiveBack(t, Inner(t).lock, Inner(t).mode)
                                   ELSE UNCHANGED <<holds, reads>>
          /\ UNCHANGED <<wanted, state>>
      BY <2>7, Zenon DEF Leave, Unwind, Destroy
    <3> HIDE DEF rest
    <3> QED
      BY <3>1, <3>2, <3>3, GivesBack, Zenon
  <2>8. CASE BlockThrows(t)
    <3>1. LocksTypeOK'
      BY <2>8 DEF BlockThrows, Moves, LocksInv, LocksTypeOK
    <3> QED
      BY <2>8, <3>1, OnlyMoves DEF BlockThrows
  <2>9. CASE Caught(t)
    <3>1. LocksTypeOK'
      BY <2>9 DEF Caught, Moves, LocksInv, LocksTypeOK
    <3> QED
      BY <2>9, <3>1, OnlyMoves DEF Caught
  <2> QED
    BY <2>1, <2>2, <2>3, <2>4, <2>5, <2>6, <2>7, <2>8, <2>9
<1> QED
  BY <1>1, <1>2

LEMMA LocksInvariant == LocksSpec => []LocksInv
<1>1. LocksInv /\ [LocksNext]_lockVars => LocksInv'
  BY LocksPreserved
<1>2. LocksInit => LocksInv
  BY LocksInitially
<1> QED
  BY <1>1, <1>2, PTL DEF LocksSpec

-----------------------------------------------------------------------------
(* No count of holders falls below zero: no destructor of a ScopedLock and *)
(* no unlock() of one that has its lock (ScopedLock.hpp) unlocks what the  *)
(* thread does not have.                                                   *)
THEOREM LocksTypeCorrect == LocksSpec => []LocksTypeOK
BY LocksInvariant, PTL DEF LocksInv

(* A thread has a lock exactly as often as ScopedLocks of the blocks it is *)
(* in say so, however it left the others, and nobody else has one that it  *)
(* has for itself: on every path through ScopedLock.hpp's constructor,     *)
(* unlock() and destructor, for any number of threads and locks.           *)
THEOREM LocksMatch == LocksSpec => []LocksMatchBlocks
BY LocksInvariant, PTL DEF LocksInv
=============================================================================
