\* A thread with two concurrent stoppers; attempts of every kind against open,
\* close and reset; blocks with locks.
CONSTANTS
  s1 = s1
  s2 = s2
  Owner = Owner
  Stoppers <- MCStoppers
  MAX_STARTS = 2
  w1 = w1
  w2 = w2
  o1 = o1
  o2 = o2
  t1 = t1
  t2 = t2
  mutex = mutex
  other = other
  plain = plain
  shared = shared
  Waiters <- MCWaiters
  Openers <- MCOpeners
  Timeouts <- MCTimeouts
  Threads <- MCThreads
  Locks <- MCLocks
  Kind <- MCKind
  MAX_DEPTH = 2
  MAX_BLOCKS = 2
  NOW = 10
  MAX_CLOCK = 11
SPECIFICATION MCSpec
INVARIANTS WaitsOnlyIfMissed LocksMatchBlocks ReadyMeansEnded JoinsOnlyItsThread StateTellsProgress
PROPERTIES OpenReleases WaitsEnd NoProcessAfterStop StopEndsThread DestroyReturns
