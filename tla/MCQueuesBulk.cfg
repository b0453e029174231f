\* Calls that put several items and may not allocate.
CONSTANTS
  c1 = c1
  c2 = c2
  Users = {u1, u2, u3}
  Nodes = {n1, n2}
  NULL = 0
  Sizes = {1, 4}
  MAX_BLOCK_SIZE = 2
  MAX_BLOCKS = 5
  Puts = 5
  Threads = {1, 2, 3}
  hash_thread_id <- HashOfThread
  Calls <- CallsOfThread
  INITIAL_IMPLICIT_PRODUCER_HASH_SIZE = 2
  Failures = 1
  NOBODY = 0
  Parts = {"explicit"}
  CreatedBlocks = {2, 3, 4}
  Allocating = {1}
  NotAllocating = {3}
  ItemsOfQueue = 6
SPECIFICATION Spec
CHECK_DEADLOCK FALSE
INVARIANT TakenInOrder
