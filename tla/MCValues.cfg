\* Every operation sequence on a buffer of capacity 3; sessions with a Time;
\* networks that two threads build, share nodes of, and free.
CONSTANTS
  e1 = e1
  e2 = e2
  unset = unset
  t1 = t1
  t2 = t2
  Elem <- MCElem
  Garbage = unset
  MAX_SIZE = 3
  UINT32 = 16
  Writes <- MCWrites
  Counts <- MCCounts
  Threads <- MCThreads
  TLS_BUF_SIZE <- MCTaken
  INIT_BUF_SIZE <- MCInitial
  NODES_PER_BNET = 2
  APPENDERS_PER_NODE = 3
  REFCNT_MAX = 65535
  MAX_NETWORKS = 4
  Plans <- MCPlans
  STANDARD = 36000
  Summers <- MCSummers
  Instants <- MCInstants
  Starts <- MCStarts
  Spans <- MCSpans
  Deltas <- MCDeltas
  Offsets <- MCOffsets
  MAX_CALLS = 2
SPECIFICATION MCSpec
INVARIANTS ReadsBack UnitsOfTime OneOwner NothingElseLost
PROPERTY ImplementsFifo
CHECK_DEADLOCK FALSE
