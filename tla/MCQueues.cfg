\* Each part, with calls that may allocate and calls that may not.
CONSTANTS
  c1 = c1
  c2 = c2
  Users = {u1, u2, u3}
  Nodes = {n1, n2}
  NULL = 0
  Sizes = {1, 4}
  MAX_BLOCK_SIZE = 2
  MAX_BLOCKS = 5
  Puts = 5
  Threads = {1, 2, 3}
  hash_thread_id <- HashOfThread
  Calls <- CallsOfThread
  INITIAL_IMPLICIT_PRODUCER_HASH_SIZE = 2
  Failures = 1
  NOBODY = 0
  Parts = {"implicit", "explicit", "list", "hash", "pair"}
  CreatedBlocks = {2, 3}
  Allocating = {1, 3}
  NotAllocating = {1}
  ItemsOfQueue = 4
SYMMETRY Symmetry
SPECIFICATION Spec
CHECK_DEADLOCK FALSE
INVARIANTS KeepsItems NodesKept OwnProducer
PROPERTY ImplementsFifo
