------------------------------ MODULE ProducerHash ------------------------------
(***************************************************************************)
(* src/code/concurrentqueue.hpp: get_or_add_implicit_producer, by which a  *)
(* thread that enqueues finds its own producer, under its id, in a chain   *)
(* of hash tables without a lock; the first table is the newest.  A thread *)
(* that is found in an older one adds itself to the newest.  This build    *)
(* does not notice when threads end (MOODYCAMEL_CPP11_THREAD_LOCAL_SUPPORTED *)
(* is not defined), so that nothing is ever taken out of a table.          *)
(***************************************************************************)
EXTENDS Integers, Sequences, FiniteSets

CONSTANTS Threads,
          hash_thread_id,                        \* thread -> natural number
          INITIAL_IMPLICIT_PRODUCER_HASH_SIZE,
          Calls,                                 \* thread -> bound: its calls
          Failures,                              \* bound: allocations that fail
          NOBODY                                 \* invalid_thread_id

ASSUME HashAssumption ==
  /\ IsFiniteSet(Threads) /\ NOBODY \notin Threads
  /\ hash_thread_id \in [Threads -> Nat]
  /\ INITIAL_IMPLICIT_PRODUCER_HASH_SIZE \in Nat /\ INITIAL_IMPLICIT_PRODUCER_HASH_SIZE >= 1

VARIABLES tables,        \* the oldest first; the last one is implicitProducerHash
          implicitProducerHashCount,
          resizing,      \* implicitProducerHashResizeInProgress
          producerCount, \* producers made; they are numbered
          finder,        \* per thread: where it is, and its local variables
          failures,
          answers        \* history: what the calls of a thread have returned

hashing == <<tables, implicitProducerHashCount, resizing, producerCount, finder, failures, answers>>

NoProducer == 0
Table(capacity) == [i \in 0..(capacity - 1) |-> [key |-> NOBODY, value |-> NoProducer]]
Capacity(n) == Cardinality(DOMAIN tables[n])
Newest == Len(tables)

Outside == [pc |-> "idle", main |-> 0, table |-> 0, index |-> 0, value |-> NoProducer,
            newCount |-> 0, newCapacity |-> 0]

HashInit ==
  /\ tables = <<Table(INITIAL_IMPLICIT_PRODUCER_HASH_SIZE)>>
  /\ implicitProducerHashCount = 0
  /\ resizing = FALSE
  /\ producerCount = 0
  /\ finder = [t \in Threads |-> Outside]
  /\ failures = 0
  /\ answers = [t \in Threads |-> <<>>]

FinderAt(t, pc) == finder[t].pc = pc
FinderGoes(t, r) == finder' = [finder EXCEPT ![t] = r]
Returns(t, producer) ==
  FinderGoes(t, Outside) /\ answers' = [answers EXCEPT ![t] = Append(@, producer)]

-----------------------------------------------------------------------------
(* The id is looked for in the newest table and then in the older ones.    *)
(* Defect: the older ones are left out.                                    *)
NextTableNone(n) == 0
NextTable(n) == n - 1

Call(t) ==
  /\ FinderAt(t, "idle") /\ Len(answers[t]) < Calls[t]
  /\ FinderGoes(t, [Outside EXCEPT !.pc = "probe", !.main = Newest, !.table = Newest, !.index = hash_thread_id[t]])
  /\ UNCHANGED <<tables, implicitProducerHashCount, resizing, producerCount, failures, answers>>

Slot(t) == finder[t].index % Capacity(finder[t].table)
Probed(t) == tables[finder[t].table][Slot(t)]

Found(t) ==
  /\ FinderAt(t, "probe") /\ Probed(t).key = t
  /\ IF finder[t].table = finder[t].main
     THEN Returns(t, Probed(t).value)
     ELSE /\ FinderGoes(t, [finder[t] EXCEPT !.pc = "insert", !.value = Probed(t).value,
                                      !.table = finder[t].main, !.index = hash_thread_id[t]])
          /\ UNCHANGED answers
  /\ UNCHANGED <<tables, implicitProducerHashCount, resizing, producerCount, failures>>

ProbeOn(t) ==
  /\ FinderAt(t, "probe") /\ Probed(t).key \notin {t, NOBODY}
  /\ FinderGoes(t, [finder[t] EXCEPT !.index = Slot(t) + 1])
  /\ UNCHANGED <<tables, implicitProducerHashCount, resizing, producerCount, failures, answers>>

NotHere(t) ==
  /\ FinderAt(t, "probe") /\ Probed(t).key = NOBODY
  /\ FinderGoes(t, IF NextTable(finder[t].table) = 0
            THEN [finder[t] EXCEPT !.pc = "count", !.table = 0, !.index = 0]
            ELSE [finder[t] EXCEPT !.table = NextTable(@), !.index = hash_thread_id[t]])
  /\ UNCHANGED <<tables, implicitProducerHashCount, resizing, producerCount, failures, answers>>

-----------------------------------------------------------------------------
(* The thread is new. *)
CountIn(t) ==
  /\ FinderAt(t, "count")
  /\ implicitProducerHashCount' = implicitProducerHashCount + 1
  /\ FinderGoes(t, [finder[t] EXCEPT !.pc = "room", !.newCount = implicitProducerHashCount + 1])
  /\ UNCHANGED <<tables, resizing, producerCount, failures, answers>>

(* Half full: who gets the flag makes a table. *)
HalfFull(t) == finder[t].newCount >= Capacity(finder[t].main) \div 2
GetFlag(t) ==
  /\ FinderAt(t, "room") /\ HalfFull(t) /\ ~resizing
  /\ resizing' = TRUE
  /\ FinderGoes(t, [finder[t] EXCEPT !.pc = "grow", !.main = Newest, !.newCapacity = 2 * Capacity(Newest)])
  /\ UNCHANGED <<tables, implicitProducerHashCount, producerCount, failures, answers>>

TooSmall(t) == finder[t].newCount >= finder[t].newCapacity \div 2
DoubleAgain(t) ==
  /\ FinderAt(t, "grow") /\ TooSmall(t)
  /\ FinderGoes(t, [finder[t] EXCEPT !.newCapacity = 2 * @])
  /\ UNCHANGED <<tables, implicitProducerHashCount, resizing, producerCount, failures, answers>>

Grow(t) ==
  /\ FinderAt(t, "grow") /\ ~TooSmall(t)
  /\ tables' = Append(tables, Table(finder[t].newCapacity))
  /\ FinderGoes(t, [finder[t] EXCEPT !.pc = "clear", !.main = Newest + 1, !.newCapacity = 0])
  /\ UNCHANGED <<implicitProducerHashCount, resizing, producerCount, failures, answers>>

(* Also when there was no memory, which the caller is told. *)
Clear(t) ==
  /\ FinderAt(t, "clear") \/ FinderAt(t, "abandon")
  /\ resizing' = FALSE
  /\ IF FinderAt(t, "abandon") THEN Returns(t, NoProducer)
     ELSE FinderGoes(t, [finder[t] EXCEPT !.pc = "enter"]) /\ UNCHANGED answers
  /\ UNCHANGED <<tables, implicitProducerHashCount, producerCount, failures>>

(* Less than three quarters full: the thread is added; otherwise someone   *)
(* else makes a table, which is waited for.                                *)
HasRoom(t) ==
  LET c == Capacity(finder[t].main) IN finder[t].newCount < c \div 2 + c \div 4

Flagged(t) == FinderAt(t, "room") /\ (HalfFull(t) => resizing)
Enter(t) ==
  /\ FinderAt(t, "enter") \/ Flagged(t)
  /\ IF HasRoom(t)
     THEN /\ producerCount' = producerCount + 1
          /\ FinderGoes(t, [finder[t] EXCEPT !.pc = "insert", !.value = producerCount + 1, !.newCount = 0,
                                      !.table = finder[t].main, !.index = hash_thread_id[t]])
     ELSE /\ FinderGoes(t, [finder[t] EXCEPT !.pc = "room", !.main = Newest])
          /\ UNCHANGED producerCount
  /\ UNCHANGED <<tables, implicitProducerHashCount, resizing, failures, answers>>

(* No memory for the table or for the producer. *)
AllocationFails(t) ==
  /\ \/ FinderAt(t, "grow") /\ ~TooSmall(t)
     \/ (FinderAt(t, "enter") \/ Flagged(t)) /\ HasRoom(t)
  /\ failures < Failures
  /\ failures' = failures + 1
  /\ implicitProducerHashCount' = implicitProducerHashCount - 1
  /\ IF FinderAt(t, "grow") THEN FinderGoes(t, [finder[t] EXCEPT !.pc = "abandon", !.newCapacity = 0]) /\ UNCHANGED answers
     ELSE Returns(t, NoProducer)
  /\ UNCHANGED <<tables, resizing, producerCount>>

(* An empty slot is taken by compare-and-swap; who loses it goes on.       *)
Insert(t) ==
  /\ FinderAt(t, "insert")
  /\ IF Probed(t).key = NOBODY
     THEN /\ tables' = [tables EXCEPT ![finder[t].table][Slot(t)] = [key |-> t, value |-> finder[t].value]]
          /\ Returns(t, finder[t].value)
     ELSE /\ FinderGoes(t, [finder[t] EXCEPT !.index = Slot(t) + 1])
          /\ UNCHANGED <<tables, answers>>
  /\ UNCHANGED <<implicitProducerHashCount, resizing, producerCount, failures>>

-----------------------------------------------------------------------------
HashStep(t) == \/ Call(t) \/ Found(t) \/ ProbeOn(t) \/ NotHere(t)
           \/ CountIn(t) \/ GetFlag(t) \/ DoubleAgain(t) \/ Grow(t) \/ Clear(t) \/ AllocationFails(t)
           \/ Enter(t) \/ Insert(t)
HashNext == \E t \in Threads : HashStep(t)
HashSpec == HashInit /\ [][HashNext]_hashing

-----------------------------------------------------------------------------
(* A thread gets the same producer from every call that does not fail, and *)
(* no other thread gets it: an enqueue by two threads into one producer    *)
(* would be a race.  Every table keeps an empty slot, or a search would    *)
(* not end, and the count is that of the threads that have a producer or   *)
(* are getting one.                                                        *)
Answered(t) == {answers[t][i] : i \in DOMAIN answers[t]} \ {NoProducer}
OwnProducer ==
  /\ \A t \in Threads : Cardinality(Answered(t)) <= 1
  /\ \A t, u \in Threads : t # u => Answered(t) \cap Answered(u) = {}
  /\ \A n \in DOMAIN tables : \E i \in DOMAIN tables[n] : tables[n][i].key = NOBODY
  /\ (\A t \in Threads : FinderAt(t, "idle")) =>
       implicitProducerHashCount = Cardinality({t \in Threads : Answered(t) # {}})
=============================================================================
