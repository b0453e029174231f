# TLA+ specifications and proofs for mlnotes

The repository holds notes (`src/*.md`) and, in `src/code`, a C++ base library:
threads and thread pools, locks, latches, a logger, a ring buffer, times and
decimals; the two kinds of lock-free queue and the decimal arithmetic it rests
on are part of it, and two test programs use it. This directory models the
parts in which several threads meet, or in which arithmetic on indices, digits
or calendars decides what comes out, checks them with TLC and proves theorems
about them with TLAPS.

Contents

1. The system
2. Modules
3. Runs, bounds and fairness
4. What the runs found
5. Proofs
6. Not modelled
7. Plan

## 1. The system

| Component | State | Operations | Interacts with |
|---|---|---|---|
| `CircularBuffer<T>` | array of `MAX_SIZE + 1` cells, `m_begin`, `m_end`, `m_size` | `write`, `read`, `peek`, `skip` | `Logger` stores its messages in one, under its own mutex |
| `Logger` | byte buffer, mutex, condition, files per group, `m_counter`, settings and levels per group | two `write`s, `flush`, `onProcess`, `startLoggingThread`, `~Logger`, level functions | is a `Thread`; writers are any threads; `notify` for CRIT messages |
| `Thread`, `Task` | atomic `m_state`, `m_id`; three functions | `start`, `stop`, `join`, destructors, the thread function `run` with its callbacks | base of `Logger`; the workers of `ThreadPool` |
| `Latch`, `Condition` | atomic `m_unlatched`; a pthread condition | `attempt`, `open`, `close`, `reset`; `wait`, `wait(millis)`, `notify`, `notifyAll` | `InterruptibleSleep`, `Logger` |
| `Mutex`, `ReadWriteMutex`, `ScopedLock` | pthread locks; `m_bLocked` | lock, unlock, `synchronized` blocks | everything above |
| `ThreadPool` | list of `Task`s, queue, two counters | `execute`, `stop`, `clear`, `enable`, `disable`, `increaseCapacity` | workers take from an external `WorkQueue` |
| `ConcurrentQueue` (`concurrentqueue.hpp`) | per producer: indices, blocks, an index of the blocks; a free list of blocks; a hash of producers | `enqueue`, `try_dequeue`, one by one or in bulk, with a token or without | the stores of `ReasoningStore` |
| `ReaderWriterQueue` (`readerwriterqueue.h`) | a circle of ring-shaped blocks | `enqueue`, `try_enqueue`, `try_dequeue`, `peek`, `pop` | one thread that puts, one that takes |
| `ReasoningStore` (`test_decimal.cpp`) | thread-local buffers in front of shared stores, reference counts | allocate, share, free | `ConcurrentQueue` |
| `decNumber`, `decContext` | a coefficient in units of three digits, an exponent, flags; a context with a sticky status | General Decimal Arithmetic | `DecimalDecNumber` |
| `DecimalDecNumber` | a `decNumber` and a mutable context of its own | arithmetic, relations, rounding to places, text, integers | `decNumber` |
| `Time` | microseconds since 1970 | arithmetic, rounding, differences, formatting and parsing | the calendar of the Apache Portable Runtime |
| `InterruptibleSleep`, `Semaphore`, `ThreadPoolReactor`, `StringBuilder`, `StringTools`, `Format`, ... | | | see section 6 |

What is hard here:

* *Interleaving.* `Thread::stop` tests an atomic state and assigns it in a
  second step; `Latch::attempt` tests its flag outside the mutex in which it
  then waits; `Logger` moves one message in several buffer calls and releases
  the mutex between two of them. The queues have no lock at all: a consumer
  claims items before it knows that there are any, looks blocks up in an index
  that is being replaced, and gives blocks back while others still look at them.
* *Ordering and lost wakeups.* `Logger` notifies after it has unlocked, and
  nobody may be waiting; the two threads of a `ReaderWriterQueue` each keep a
  copy of the other's index that may be old.
* *Shutdown.* The destructors of `Logger` and `Task` stop a thread that may be
  starting, running, stopping or ended, join it, and (the logger) drain what it
  left behind. A lock has to be given back on every path out of a block.
* *Failure.* `operator new`, `malloc` and `pthread_create` may fail half way
  through an operation; callbacks throw; an object's flags outlive the call
  that raised them.
* *Boundaries.* Ring buffers, indices that wrap, blocks of few items; numbers
  around half a unit in the last place, the largest and the smallest exponent;
  the ends of days, weeks and summer time.
* *Time.* `Condition::wait(millis)` passes a relative time to a function that
  takes an absolute one; a text that shows no date is read with today's.

What makes each component correct: a buffer and a queue hand out what was put,
in order, once; no block, node or object has two owners and none is forgotten;
the logger prints what it accepted whole, once, in order, and all of it before
it is gone; a thread that was told to stop begins no further work, ends, and is
joined once; a latch that opens releases those who wait at it; a thread has the
locks of the blocks it is in and no others; an arithmetic result is the exact
one rounded once; what is written as text is read back.

`PROJECT.json` lists every hazard of this kind at its line, with the properties
that cover it or the reason why none does.

## 2. Modules

| Module | Models | Role |
|---|---|---|
| `BoundedFifo` | the promise of `CircularBuffer` | abstract specification: a queue of at most `MAX_SIZE` elements |
| `CircularBuffer`, proved about in `Values_proofs` | `CircularBuffer.hpp` | the array, the three indices, copies in two parts; refines `BoundedFifo` |
| `Logger`, `_proofs` | `Logger.cpp`, with the parts of `Thread` and `Condition` it uses | writers, logging thread and destructor on one buffer |
| `Thread`, `_proofs` | `Thread.cpp`, the destructors of `Task` | owner, concurrent stoppers, one thread per run |
| `ThreadPool`, `_proofs` | `ThreadPool.cpp`, `ThreadPool.hpp`, constructor and destructor of `Task` | owner, clients and workers around one work queue |
| `Latch`, proved about in `Waits_proofs` | `Latch.cpp`, `Condition.cpp` | attempts against open, close and reset, the clock |
| `Locks`, proved about in `Waits_proofs` | `Mutex.cpp`, `ReadWriteMutex.cpp`, `ScopedLock.hpp`, `Details.hpp` | threads in blocks that hold locks of every type |
| `ProducerBase` | `concurrentqueue.hpp`, the dequeue both kinds of producer share | claims, overcommits and indices that wrap |
| `ImplicitQueue`, `ExplicitQueue` | the two kinds of producer | extend `ProducerBase` with blocks and the index of the blocks |
| `FreeList`, proved about in `ConcurrentQueue_proofs` | `FreeList` of `concurrentqueue.hpp` | the stack of blocks, with counted references |
| `ProducerHash`, proved about in `ConcurrentQueue_proofs` | `get_or_add_implicit_producer` | a chain of hash tables that grows while threads add themselves |
| `Fifo` | the promise of the queues | abstract specification: an unbounded queue of numbered items |
| `ReaderWriterQueue`, `_proofs` | `readerwriterqueue.h` | refines `Fifo` |
| `ReasoningStore`, `_proofs` | `test_decimal.cpp` | threads that recycle networks, nodes and appenders |
| `DecNumber` | `decNumber.cpp`: what every operation ends in | cutting a coefficient, residue, rounding, overflow, subnormals, NaNs |
| `DecArith` | the internal operations | add, multiply, divide, quantize, compare |
| `DecOperations` | the public functions | on top of `DecArith` |
| `DecUnits` | the routines on arrays of units, and the conversions to and from them | carries and divisions by estimates, shifts, rotations, products, single digits, BCD |
| `DecText` | `decToString`, `decNumberFromString` | texts as records of what they say |
| `DecReference` | | each operation as an exact value rounded once: the definition that the others are compared with |
| `DecSession`, `DecLaws` | `decContext.cpp` | calls with one context, one after the other; the properties |
| `DecimalDecNumber`, `DecimalSession` | `DecimalDecNumber.cpp` | the class, and calls on one object that collects flags; its properties |
| `Time`, `TimeSession`, proved about in `Values_proofs` | `Time.cpp` | the class, and calls on one object while the clock goes on; its properties |
| `MCLogger`, `MCThreadPool`; `MCThread` and `MCLatch` (counterexamples only) | | constants of the runs of one component |
| `MCValues`, `MCWaits`, `MCQueues`, `MCDecimal` | | several components, one of them in every execution |

Variables carry the names of the members they stand for; `pc`, or a variable
named for the thread (`caller`, `owner`, `worker`), says what each thread is about
to do, and one action is what a thread does between two points
at which another thread can see or change the shared state. Variables marked
*history* in the modules do not exist in the code and no guard reads them.
Operators under a comment that begins with *Defect*, or that names one, are not
part of `Next`; they are the faulty variants against which the properties were
tried.

**CircularBuffer.** Each public call is one action, since the class has no
locking of its own. `Write` is refused or copies in one or two pieces, as
`write` decides by comparing `m_end` with `m_begin` and the count with the cells
left. `read` is a peek followed by a skip, as in the code; `skip` of everything
resets the indices. `call` records the operation and its argument in both
modules: the refinement has to give each call what the queue gives to that same
call. A store past the array makes the domain of `m_buffer` grow and a load from
an unset or foreign cell yields `Garbage`, so that neither can go unnoticed.

**Logger.** The buffer is the queue that `CircularBuffer` implements. A message
is one header unit and one unit per fraction of text that the properties tell
apart; nothing in the buffer marks where a message begins, so a reader that
arrives inside a text takes text for a header (`"undefined"`). `write(format)`
is `WriteFormat` (one buffer call); `write(string)` is `WriteHeader` and
`WriteText`; `flush` is `FlushLock`, `FlushHeader`, `FlushText`, `FlushFile`,
then `FlushPrint` or, for a text above `LOGMSG_SIZE`, `FlushRelock` and
`FlushRest` first, until there is no data, and at the end `SyncFiles`. `operator
new` may throw (`WriteThrows`, `FlushThrows`): the logging thread swallows that
and goes on, the destructor does not and the program terminates. The log
location is always `<stdout>` at this commit (`getDefaultLocation`), so that
opening, rolling and linking of files do not happen. The logging thread is
`Thread::run` around `Logger::onProcess`; the timed wait may end at any moment.

**Thread.** `StartTest`/`StartSet`/`StartCreate` and `StopTest`/`StopWrite` are
separate steps, because in the code they are separate accesses to `m_state`.
Every call of `start` has its run; `run[r]` is where the thread of run `r` is.
A `pthread_join` with an id that names no joinable thread is undefined in POSIX:
the owner becomes `"undefined"` and the behaviour ends there. The callbacks may
return, throw, or call `stop` themselves.

**ThreadPool.** The owner constructs the pool Task by Task (each creation may
fail), grows it, stops it and destroys it. A creation can fail before the
thread exists, or after `new Task` has started it, when there is no memory for
what `push_back` needs (`ThreadPool.cpp:80`): the Task is then `unlisted` and is
destroyed while the queue is still enabled. `Task::~Task` is the three steps
`TaskStopTest`, `TaskStopWrite` and `TaskJoin`, one Task after the other. A
worker is the thread of module `Thread` with `ThreadPoolT::onProcess` as its
callback. Clients call `execute` (the put and the count are two steps), `clear`,
`disable` and `enable` at any time until the destructor runs. `WorkQueue` is not
in the repository: it is modelled by what the pool relies on, and whether a
disabled queue first hands out what it still holds is left open. `m_tasks` has
no lock, so that only the owner may grow or stop the pool.

**Latch.** The flag is tested before the mutex is taken, as in `attempt`; the
wait may end by notification, by timeout or for no reason, and the flag decides
what `attempt` returns. `clock` is the time of day that
`pthread_cond_timedwait` compares with.

**Locks.** `scopes[t]` are the ScopedLocks of a thread, the innermost last, each
with its `m_bLocked`. A constructor waits (`Enter`, then `Acquire` or
`LockThrows`); the end of a block, a break and an exception destroy the
innermost one (`Leave`, `Unwind`), and a block may have called `unlock()`
before. A timed lock that has waited for 60 seconds logs that and waits again,
which changes nothing: it is one wait. What pthread answers for the types of
mutex (`EDEADLK`, `EPERM`, or nothing) is written as POSIX and glibc have it.

**The queues of ConcurrentQueue.** One thread puts and several take. A consumer
is `Dequeue`, `LoadOvercommit`, the claim, the second look at the tail and the
giving back, one action per atomic access; then it looks up the block of its
index, moves the items out and marks the slots empty. What it reads may be old
by then. `INDICES` is the number of values of `index_t`. An
implicit producer's block index is a ring of entries that is replaced by a
larger one; an explicit producer's blocks form a circle in which a block that is
empty is used again. Calls that may allocate and calls that may not
(`"CanAlloc"`, `"CannotAlloc"`) are told apart, and the number of blocks that
can be had is bounded, so that allocation fails. A constructor may already find
no memory for its block index and goes on without: an explicit producer tries
again with its first block, an implicit one reads a null pointer with its first
item (`Undefined`), and its behaviour ends there. `FreeList` and `ProducerHash`
have one action per atomic access too. Memory fences are taken to do what their
comments say: the interleavings are those of a sequentially consistent memory.

**ReaderWriterQueue.** The writer's steps are one per store that the reader
sees, and the other way round; `localFront` and `localTail` are the copies that
either keeps of the other's index. `Queue!Spec` has the same items under a
mapping that reads them off the blocks, and `InOrder` says what a call returns.

**ReasoningStore.** An object is a number. Each thread has for each kind a
buffer that it takes in bulk and an index into it, and a buffer of freed
objects; a store is the queue of ConcurrentQueue. The index after a refill, the
`fetch_sub(0)` and the sizes with which buffers go back are those of the code.
A read at index -1 is undefined, and nothing happens after it. `freeBnet` takes
its full buffer apart in steps, one for each entry of a network (`FreeNode`), one
for the test at the end of `freeNodes` (`NodesFreed`), one for each node of a full
buffer (`FreeAppenders`) and one for each bulk enqueue, which may fail. What
clients do is a plan per thread: which nodes, shared nodes and appenders a
network gets. That the arrays have room, and that a 16-bit count does not wrap
(`REFCNT_MAX`), is up to them in the code too.

**decNumber.** A coefficient is a natural number in all modules but `DecUnits`,
where it is an array of units of three digits, as in the code: `UseUnits` picks
arrays of up to three units, and `DigitsAgree` compares what each routine makes of
them with the numbers. A multiplication is one of numbers in `DecArith` and goes unit
by unit in `DecUnits`.
`DecNumber` follows the code from the residue through `decFinalize`; `DecArith`
has every branch of the five internal operations, with the places at which the
length of a unit matters; a session (`DecSession`) calls a function with any
operands and keeps the status. `DecLaws` compares each result and its flags
with `DecReference`, which knows nothing of residues and units.

**DecimalDecNumber.** An object is its number and the flags its context has
collected. Rounding goes through a text, as in the code, and so do conversions;
the widths of buffers, the digits of the precision and those of an `int64` are
constants.

**Time.** A time is whole seconds and the microseconds past them, since TLC's
integers are short. A text is the list of values that it shows, and the place of
one that is not what the format asks for. `Format` and `Parse` have every format
of the class; what a text does not show comes from the clock. The local zone has
a summer time.

## 3. Runs, bounds and fairness

| Run | Properties | What it shows |
|---|---|---|
| `values` | `ImplementsFifo`, `ReadsBack`, `UnitsOfTime`, `OneOwner`, `NothingElseLost` | every call on a ring buffer does what the queue does; a time is read back from its text, and its units agree; no recycled object has two owners, one that is handed out is empty though nothing empties it then, and none is lost but where the code gives it up |
| `logger` | `Framing`, `PrintedAsWritten`, `DestructorDrains` | the stream stays framed, messages are printed whole, once and in order, and the destructor leaves nothing behind |
| `logger_live` | `Delivered`, `FlushedEventually` | a message is printed and flushed whatever the order of notify, timeout, stop and destruction |
| `logger_crit` | `CritNeverLost` (violated) | see section 4 |
| `thread_stop` | `StoppedStaysStopped` (violated) | see section 4 |
| `waits` | `ReadyMeansEnded`, `JoinsOnlyItsThread`, `StateTellsProgress`, `NoProcessAfterStop`, `StopEndsThread`, `DestroyReturns`, `WaitsOnlyIfMissed`, `OpenReleases`, `LocksMatchBlocks`, `WaitsEnd` | the life cycle of a `Thread` over two runs with two concurrent stoppers; which waits an `open` ends, and the one it misses; locks are given back on every path, and a lock is waited for without end only in a cycle of threads |
| `latch_time` | `TimesOutInTime` (violated) | see section 4 |
| `round` | `RoundsToUnit` (violated) | see section 4 |
| `thread_pool` | `NoWorkerLeft`, `WorkersServe`, `CountersTell`, `StopReturns`, `Served` | no thread is left behind, none is lost to an item that throws, the counters add up when nothing is in progress, stop returns, accepted items are served |
| `queues` | `KeepsItems`, `NodesKept`, `OwnProducer`, `ImplementsFifo` | no item is lost, doubled or early, in either kind of producer (the explicit one without bulk calls that fail half way, for which see `queues_bulk`); no block is lost or handed out twice; no two threads share a producer; the single-producer queue is first-in first-out |
| `queues_bulk` | `TakenInOrder` (violated) | see section 4 |
| `decimal` | `TypeOK`, `SumsRounded`, `QuotientsRounded`, `QuantizedExactly`, `OrderAgrees`, `TextRoundTrip`, `PowerClose`, `DigitsAgree`, `RoundsToPlaces`, `ComparesWithin`, `IntegersExact` | every function gives what one exact rounding gives, the routines on units compute what the numbers give, and an object rounds, compares and converts as its header says |

Bounds, and why they are enough:

* `values`: a buffer of capacity 3 (4 cells), two values, writes of every length
  up to 4 whose two ends differ, and all counts up to 4: every position of begin
  and end, every wrap, the full and the empty buffer and every refusal occur
  (the theorem covers every capacity). Sessions of two calls on a `Time` and one
  more to write and to read it, from eleven times around the epoch, a leap day,
  the turn of the year and the changes of summer time (the theorems cover every
  time, zone and number of calls). Two threads build at most
  four networks of two nodes with up to three appenders, or of a shared node, with
  buffers of two networks, two nodes and four appenders, and stores that begin
  with two, two and none: each buffer of freed objects becomes full while the
  other thread allocates, a refill finds one object, stores run empty, and every
  bulk enqueue may fail (the theorems cover every size and every plan).
* `logger`: two writers, three messages in all of three kinds (short and CRIT,
  cut by `write(format)`, stored whole by `write(string)` and read in two
  pieces), a buffer of 5 units. A large message takes 4 of them, so the buffer
  fills, refuses, and is drained while a writer is in the middle.
  `SLEEPS_TO_FLUSH = 2` instead of 20: rounds with and without a flush.
  `logger_live` takes two messages, since temporal checking needs the whole
  state graph; two are enough for one message to be written while the thread is
  on its way into its wait, or stopping, after another.
* `waits`: two runs of a `Thread`, so that a `stop` can span a join and a
  restart, and two stoppers besides the owner, so that two of them can be late.
  Two attempts and two openers; timeouts for ever, none, and 2 ms; the time of
  day is later than any timeout, as it is in reality. Two threads, a lock of
  each type, two blocks inside each other: two locks in two orders, a lock taken
  twice and a read lock that is upgraded.
* `thread_pool`: two clients, two workers, two items. One worker can be anywhere
  in its life while the other is joined; an item can be run before it is
  counted; a constructor can fail with one worker waiting in `get`, which may be
  that of the Task that did not get into the list.
* `queues`: two consumers (alike, and exchanged by symmetry), blocks of two
  items, an index of 16 values that begins three before its end (and, for the
  explicit queue, at 0 too), a first block index of two entries: indices wrap,
  the block index grows while a consumer is in the old one, a block is used
  again, a bulk call of the implicit producer fails half way. One of the
  explicit producer gets the blocks it asks for here, and fails half way in
  `queues_bulk`. Three users of two nodes (two to collide and one to reuse).
  Three threads, two of which collide in a hash table of two that has to grow,
  one of which comes back, and one allocation that fails. A `ReaderWriterQueue`
  of one and of several blocks, five items.
* `decimal`: a precision of 2 and exponents from -2 to 3, in all eight rounding
  modes, clamped and not, after calls that left flags: operands of one to three
  digits then reach every tie, overflow, underflow and subnormal result. The
  routines on units are given twelve coefficients of one, two and three units,
  in all pairs, among them those at which a carry, a borrow or a leading zero
  crosses from one unit to the next, and shifts and rotations by 0 to 9 digits.
  For an object, a precision of 3, a buffer of 14 characters and an `int32` and
  an `int64` of two digits, so that every limit is within reach: numbers on both
  sides of either end of the integers, and texts that fill the buffer to the
  last character. One call of decNumber is enough, as its only memory is the
  status, with which sessions begin in several ways; two of an object.

The classes of a run like `values` have nothing to do with each other: each
execution picks one of them, and the others rest.

Fairness is weak fairness of the steps a running thread takes: a thread that can
run does, a mutex that stays free is taken, a call that was begun goes on, a
block is left, a timed wait ends, callbacks return. Nobody is obliged to log, to
start or destroy the logger, to call `stop`, to open a latch or to enter a
block, and the wakeup of a condition variable for no reason is never relied
upon. The queues have no liveness property: their operations are loops that
another thread's success may repeat, and that is all they promise.

`Next` of `Logger`, `Thread` and `ThreadPool` ends with a stuttering step once
the object is destroyed or the behaviour undefined, so that deadlock checking
stays on for everything before that: a state in which nobody can move would be
reported. That the destructors return is a property of its own
(`DestroyReturns`, `StopReturns`). The runs of the other modules stop where
their bounds end, or, in `waits`, where threads wait for each other, which
`WaitsEnd` speaks about: deadlock is not checked there.

Some properties carry an exception that is a fact about the code rather than a
weakening, and say that this is the *only* case. `Framing` excepts the case in
which memory for the rest of a large message could not be had: the message's
tail then stays in the buffer and is taken for a header, which the run reaches
(`TailLost`). `JoinsOnlyItsThread` and `StateTellsProgress` except the
executions with a late `stop`. `WaitsOnlyIfMissed` and `OpenReleases` except the
`open` that comes between an attempt's test and its wait. `WaitsEnd` excepts
cycles of threads, a thread that waits for itself at an unchecked mutex, and one
that reads and wants to write. `StopReturns` excepts an `enable` that comes
after `stop` has disabled the queue, and a Task that could not be put into the
list and whose worker waits in `get()` already. `UnitsOfTime` says of `round`
that it goes back to where the unit begins on the clock that the zone has at the
time itself; what the documentation says is `RoundsToUnit`. `WorkersServe` and
`Served` except the workers that a `disable` has ended. `NothingElseLost`
excepts what the code gives up by itself, `KeepsItems` a destructor of an empty
explicit queue and an implicit one that got no block index, and the properties
of the decimals the cases named above each of them. The next section says what
these cases are.

## 4. What the runs found

Five runs end in a counterexample to what a comment of the repository says:

* **A refused CRIT message is lost.** `Logger.cpp:298` says "make sure we don't
  lose CRIT messages", but the only thing that would keep one is `syslog`, which
  `getDefaultSyslogEnabled` (`Logger.cpp:112`) switches off. In
  `logger_crit` one large message leaves no room, and a CRIT message is refused
  before the logging thread comes.
* **`stop` can overwrite `TS_STOPPED` and `TS_READY`.** `Thread.hpp:126`: "No
  action will be taken if the thread has not yet been started, or if the thread
  has already been stopped". The test and the assignment are two steps;
  `thread_stop` shows the thread ending in between. After an overwritten
  `TS_READY` the next join is passed an id that names no thread.
* **Timed waits time out at once.** `Condition.hpp:41` promises a wait of up to
  `millis` milliseconds; `Condition.cpp:82` builds an absolute time shortly
  after 1 January 1970. `latch_time` shows an attempt timing out without having
  waited. The logging thread, which means to sleep 200 ms, polls.
* **A failed bulk call spoils the block index of an explicit producer.**
  `concurrentqueue.hpp:1657` says "guaranteed to be room"; after an
  `enqueue_bulk` that may not allocate has failed (line 1902) there is none.
  `queues_bulk` shows a consumer that takes the wrong items.
* **`round` misses the beginning of some local days and weeks.** `Time.hpp:220` gives
  "DAY: = 10/03/2006 00:00:00.000". `Time.cpp:679-711` takes the time apart with the
  offset that the zone has at the time itself, and puts it together with the same
  one: `round` shows a time of the day on which summer time began rounded to 23:00
  of the day before. The times of the other end of summer time land an hour late.

Other behaviour that the models have because the code has it, and that the
exceptions of the properties name:

* `ThreadPool`: `new Task` starts its thread (`ThreadPool.cpp:80`) before the
  control block and the list node are allocated. If there is no memory for these,
  the Task is destroyed at once, and its destructor waits for a worker that waits
  in `get()` of a queue that nobody has disabled.
* `ConcurrentQueue`: nobody looks at what `new_block_index()` returns to the
  constructor of an implicit producer (line 2212); without memory its first item
  dereferences a null pointer (`Undefined`). The destructor of an explicit
  producer does not find the block that was taken from in part if nothing is
  left in it (line 1590), and destroys what was taken from it once more.
* `ReasoningStore`: a refill of n objects sets the index to n - 2, so that entry
  0 is never handed out and a refill of one leads to a read at index -1;
  `fetch_sub(0)` never counts down, so that a shared node is never freed; a
  buffer that goes back forgets the nodes beyond `TLS_NODE_BUF_SIZE`.
* `Locks`: `Mutex.hpp:29` has "an exception instead of deadlocking" for a thread
  that waits for itself at a checked mutex. Threads that wait for each other are
  warned about and go on waiting, and a thread that reads and wants to write
  waits for itself. `unlock()` does not test `m_bLocked`; a second call throws
  if the mutex notices.
* `decNumber`: `decNumberToIntegralExact` takes the flags of earlier calls for
  its own and makes a NaN of 2.5 after an old invalid operation; a negative
  power whose inverse overflows gives 1; quantize of nines at the largest
  exponent gives an infinity with Overflow; a power that overflows gives an
  infinity in every rounding mode; `decNumberScaleB` does not shorten a long
  operand, and the remainder of a zero is not fitted to the context.
* `DecimalDecNumber`: a text that is as long as its buffer is let through
  (`DecimalDecNumber.cpp:670`) and its NUL is written one past the end (714), as it
  is for 1E+253 in the 256 characters of the class (`Overrunning`); `toInt32` and
  `toInt64` cut off the fraction, so that -1.25 gives -1, where
  `DecimalDecNumber.hpp:97` and a comment at `DecimalDecNumber.cpp:908` speak of
  `floor`; `setValue` means to clear the flags and clears none (line
  194), and `toInt32` throws for ever once any call on the object has left an
  error (line 839), which a comparison of two infinities does; numbers within a
  threshold are equal, so that equality is not transitive; rounding away from
  zero gives 0 for a number whose first digit is beyond the first place lost; a
  number that the class shows with an E is cut before it is rounded, and a large
  one is shown as NaN; a value is rounded to 18 digits by
  `toDecimalComponents` without a word.
* `Time`: a text that shows no time of day is read with the present one (so
  that `MAX_TIME` depends on when the program starts), one that shows no date
  with today's, and a local time with today's offset from Greenwich, wrong by an
  hour across a change of summer time; `YYYYMMDDTHHMMSS` is written and cannot
  be read; an `OFFSET` of a hundred days or more is written and refused; the
  name of a zone is not checked; a negative duration does not come back.

## 5. Proofs

Everything below holds for every value of the constants, under the named
assumptions of the modules (`BufferAssumption`, `LoggerAssumption`,
`ThreadAssumption`, `PoolAssumption`, `LatchAssumption`, `FreeListAssumption`,
`HashAssumption`, `QueueAssumption`, `StoreAssumption`, `TimeAssumption`).
They say no more than that counts are sizes of arrays that exist, that bounds
are naturals, that different threads are different, and that there are finitely
many of them (and at least one, who makes the nodes of a free list).
`QueueAssumption` also says that `ceilToPow2` gives a number that is large enough
and that blocks have at least two slots, as the constructor asserts; that sizes
are powers of two is not needed. `StoreAssumption` says that the array of a
network or of a node is no longer than the buffer its entries are collected in
(32 to 4096 and 8 to 16384 in the code), without which the test of one bit of a
length would miss a full buffer. Most properties are not inductive; what is
proved to be is the invariant `IInv` of the module (`HashInv` for `ProducerHash`),
which TLC checked on the constants of the runs before. `TimeAssumption` says that
whatever the clock shows has a date in the modelled calendar, from 1970 to 2037,
in either zone; the other times of a session may be any.

* `Values_proofs`: for `CircularBuffer`, `TypeCorrect`, `IndicesAlwaysAgree` and
  `Refinement` (`Spec => Fifo!Spec`). The invariant is `TypeOK`, `IndicesAgree`
  and `SlotsHoldElements` (the cells between begin and end hold elements, not
  `Garbage`), without which a read could not be shown to return elements. The
  refinement maps the queue to `Contents`, the cells from `m_begin` on around
  the array; one lemma per operation shows what it does to `Contents`, and the
  arithmetic of `%` is done once, in lemmas of its own.

  For `Time`, `UnitsOfTimeHolds` and `ReadsBackHolds`, for any zone with any changes
  of summer time, any clock, any times, durations and numbers of units. The
  invariant `TimeIInv` says that the object is a `Time` (its microseconds are
  normalised), that the clock shows one of its instants, and that a text that
  waits to be read was made by `Format` from a time that has a date, or is a
  duration (`Written`). What a session knows is little; the proof is in lemmas
  about the operations. `PlusIs`, `NegatedIs` and `MinusIs` say when a second is
  carried or borrowed. `YearDaysIs`, `YearExists`, `MonthExists` and `ExpIs` say
  that the calendar has a year, a month and a day for every instant it covers, and
  that putting them together again gives that instant: this is what makes
  `RoundIs` true of a week that begins in another month or year. It speaks of the
  whole units (`WholeUnits`) on the clock with the offset of the time itself, which
  is where the code lands (`RoundLands`); that this need not be where the unit
  begins in the zone is what the run `round` shows. `DiffIs` says
  what a difference cut towards zero means for either sign. For the texts, every
  format of a date is a date, a time of day and a rest (`FormatIs`), so that three
  questions decide what it shows (`ShownIs`). A scan of what was printed leaves in
  each field what was meant, or what was there before (`ScannedIs`), and so
  `ScanDate` takes the day and the time of day from the text or from the clock
  (`DateIs`). `ElapsedRead` and `OffsetRead` do the same for durations, and
  `SpoiltIs` shows that each format notices a text that is too short or has a
  value that is none, but for a zone.
* `Logger_proofs`: `FramingHolds`, `PrintedHolds`, `DrainsHolds`, for any number
  of writers, messages and kinds of message and any size of buffer. Nothing in
  the buffer says where a message begins, so that what `Framing` says follows
  only from the whole history of the buffer. `IInv` says who owns `m_mutex` at
  each place (`MutexHeld`), that no two messages have the same number
  (`Numbered`), that a text still fits after its header was written
  (`TextFits`), that the destructor flushes only when there is no logging thread
  any more (`OneFlusher`), which message a flusher has in hand and what it has
  read of it (`Hand`), and that from there on the buffer is framed by the
  messages accepted (`StreamFramed`). The lost tail of a large message is what is
  read next, and takes the behaviour to its undefined end (`TailIsNext`). Most of
  the proof is about sequences: what `Put` and `Take` do to a framed stream.
* `Thread_proofs`: `TypeCorrect`, `NeverTwoThreads`, `JoinsAreSafe`,
  `StopIsHonoured`, `StateIsTrue`. Whether a join finds its thread depends on
  where the owner is between its test and `pthread_join`. `IInv` says for each
  of these places what holds: only the last run can have a thread and `m_id`
  names it (`OnlyTheLast`, `IdIsCurrent`), it is absent where the owner is about
  to create it or has joined it (`NotThere`), present in every state but
  `TS_READY` unless a stop was late (`There`), and a stop that took effect is
  kept until the thread sees it (`StopKept`). `StateTellsProgress` is inductive
  once it is known that a Thread not in `TS_READY` was started (`StartedOnce`).
* `ThreadPool_proofs`: `TypeCorrect`, `NoWorkerIsLeft`, `AllWorkersServe`,
  `CountersTellTheLost`. What was not created has no thread (`NotCreated`), a
  Task that did not get into the list has its thread until it is destroyed, and
  until the queue is disabled for the first time it is enabled, the owner is not
  inside `m_tasks.clear()`, and every Task's thread is starting or running
  (`StillServing`); two lemmas say what `Append`, `Head` and `Tail` do to the
  elements of the list. For the counters it has to be known where every item is
  (`Placed`) and what each counter counts on its own (`Counts`): the items that
  were put, less the clients between the put and the count, and the items that
  are done. Then it is arithmetic of cardinalities.
* `Waits_proofs`: for `Latch`, `LatchTypeCorrect` and
  `OnlyLateWaitersAreMissed`, inductive once the types are known. For `Locks`,
  `LocksTypeCorrect` and `LocksMatch`, for any number of threads and locks and
  any depth of blocks. `LocksMatchBlocks` is inductive together with the types,
  of which those of `holds` and `reads` say that nobody unlocks what he does not
  have. What a lock counts for a thread is a cardinality, that of the thread's
  blocks that hold it, which changes by one with each block entered or left.
* `ConcurrentQueue_proofs`: for `FreeList`, `TypeCorrect` and `NoNodeIsLost`,
  for any number of threads and nodes. The list is the least set that has the
  head and with each node its next one (`Listed`), so that six lemmas about
  least closed sets take the place of an induction along it. `IInv` says of
  every node that at most one thread has it, or carries it to the list or away,
  and then it is not on the list (`OnePlace`); that its count is the number of
  threads that look at it plus one for the list (`CountIsRight`); that the bit
  is set where nobody has the node, and then someone looks at it who will see
  the bit, and where a thread is about to link it, but not once it counts as
  listed (`BitIsRight`). Then what a thread read as the next node still is
  (`NextIsRight`): a next pointer is only written where the count is zero. That
  is the absence of the ABA problem.

  For `ProducerHash`, `OwnProducerHolds`, for any number of threads, every hash of
  their ids and every first size of the table. `HashInv` says that there is a
  producer for each thread that has one (`own`) and a number for each thread that
  is counted, the count it had when it came (`rank`). Every entry names the
  producer of its thread and lies where a search finds it: the slots from the
  thread's hash to the entry are taken (`EntryOK`). A search knows that the
  thread is not in the slots passed or in newer tables (`Probing`), so that one
  that comes to an empty slot in the oldest table has shown that the thread is
  new. That every table keeps an empty slot is the hardest part: the count goes
  down when an allocation fails, so that a thread with a small count may come
  after one with a large one, and a thread is copied into newer tables without
  being counted again. What holds is that no more than x threads have a rank up
  to x (`RanksOK`), that the ranks of the threads in a table are below three
  quarters of its size, and that no table is smaller than an older one
  (`NotSmaller`, for which only one thread may be making a table, `OneResizer`).
  Were there no empty slot, two slots would have the same thread.

* `ReaderWriterQueue_proofs`: `ItemsComeInOrder` and `QueueIsFifo` (`PairSpec =>
  ImplementsFifo`), for any sizes of queues and of blocks, any number of blocks
  that can be allocated and any number of items. `InOrder` speaks of the next
  call only; what makes it true is spread over all blocks. `IInv` says that
  there is an order of the blocks that is the circle from the front block on
  (`Circle`), that exactly the blocks up to the last one with items have items,
  the front block excepted, which may be empty (`Filled`), which item is the
  first of each block (`Numbered`), and so what every slot holds (`Holds`); that
  each thread's copy of the other's index lags behind (`ShadowsLag`); and what
  each thread may rely on between two of its steps (`WriterKnows`,
  `ReaderKnows`): there is room behind the tail, or the next block is empty and
  not the reader's; there is an item, or the writer has left the front block,
  and left it empty. When a block is added or given up, the order and the first
  items change with it: the proof of that step names the new ones. For the
  refinement, `ContentsAre` shows that the items joined from block to block are
  those after the last one taken up to the last one put; each step then puts
  one, takes one, or does neither. The induction along the blocks is one over a
  set of numbers that has no least element outside it (`AllNumbers`).

* `ReasoningStore_proofs`: `TypeCorrect`, `OneOwnerHolds`, `NothingElseLostHolds`
  and `FreedFitsHolds`, for any number of threads, any sizes
  of buffers, stores and arrays, any number of networks and any plans. The objects
  of a kind lie in sequences: the store, what is left of each thread's buffer,
  what each thread has collected, and what uses them. `IInv` says that no object
  occurs twice in the table of these sequences (`Distinct`) and that every object
  occurs in it unless the code gave it up (`Kept`). Nodes may be in several
  networks: the count of a node is never below the number of its users, and one
  that is not in use has none and the count 1 (`Counted`); since the count never
  goes down, a node with the count 1 that a network gives back is in no other.
  `Placed` says what fits: which part of a buffer is still to be handed out, how
  much each thread has collected at each place in `freeBnet`, and that a buffer
  that goes back is full: `enqueue_bulk` takes `TLS_BNET_BUF_SIZE` entries whatever
  there is. `Emptied` says up to which entry the buffer being
  taken apart is empty, from which follows that what goes back to a store, and so
  what comes out of it, is (`HandedOutEmpty`, which is part of `OneOwner`). Most of the
  proof is a theory of tables without a state: to move a sequence's end to another
  sequence, to bring in a new object or to drop some keeps objects apart, and
  changes the set of them by what it says. `TableReads` ties it to the state, and
  there is one lemma for each action.

The types, and `FreedFits`, are proved and not model-checked again, except the
types of the decimals.

Only model-checked: all liveness properties, which are out of the prover's
reach; the queues of producers (`KeepsItems`), whose invariant would have to
relate the claims of consumers that overtake each other to a circle of blocks
that grows between them, modulo the width of an index; and the decimals.
The modules of the decimals have recursive operators, which the prover does not
take, and what a recursion over digits or units returns needs an induction that
is out of its reach.

## 6. Not modelled

* `decNumber`: the square root, `exp`, `ln`, `log10` and powers that are not
  integers, which work with more digits than TLC's integers hold; multiplication
  by chunks of nine digits in 64 bits (`FASTMUL`, `decNumber.cpp:4945`), for the same
  reason; `SetBCD` into a number of another length; allocation of
  long intermediate numbers and its failure; traps (a signal); exponents that
  wrap at 31 bits; `decNumberShow` and the checks of debug builds. The logical
  operations, copies, `class`, `SameQuantum`, `Trim`, `logb`, `reduce` and the
  functions of the context are actions, but no property says more of their results
  than that they are well formed.
* `DecimalDecNumber`: what rests on these, the conversion to double, output.
* `ConcurrentQueue`: moving and swapping of queues, elements whose constructors
  or assignments throw, the choice among producers by a consumer, the reuse of
  producers after a thread has ended (this build does not notice the end of a
  thread), weak memory. `BlockingReaderWriterQueue` and its semaphore.
* `Logger`: levels and settings, `setProgramName`, file rolling and links (not
  reached at this commit), `closeLogFiles` (never called). What a text says once
  it was cut is left open, since the code formats it from a consumed `va_list`.
* `CircularBuffer`: copy construction and assignment; nothing copies one.
* `Mutex`: process-shared locks, failures of initialisation, a double unlock
  that the lock does not notice (an unchecked mutex, a recursive one that an
  outer block still holds, a read-write lock), which is undefined or takes the
  outer block's lock away.
* `InterruptibleSleep`: three calls of `Condition` without any state; its timed
  wait ends at once (`latch_time`), so that nothing is left to state.
* `ThreadPoolReactor`: nothing instantiates it, and the headers it includes are
  not in the repository.
* `Semaphore`, `ThreadLocal`, `atomic32`, `gettid`, `common`: thin layers over
  single operations of the hardware or the system.
* `StringBuilder`, `StringTools`, `Format`: functions on text without state or
  with one caller, of which a unit test reaches every case.
* `bntest.cpp`: a benchmark of classes that are not in the repository.

## 7. Plan

The models cover what the repository has of concurrency and of arithmetic that
can be checked. What is left, the most important first:

1. A proof of `KeepsItems`, of the implicit queue first: the claims of consumers
   that overtake each other, an index of blocks that is replaced under them, and,
   for the explicit queue, a circle of blocks that grows between them.
2. The refinement of an abstract log by `Logger`, of which `PrintedAsWritten` is
   the larger part.
3. The rest of `Logger`: settings and levels (a settings object created while
   the group's level changes has the level of its group).
