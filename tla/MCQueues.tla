------------------------------- MODULE MCQueues -------------------------------
(***************************************************************************)
(* The parts of concurrentqueue.hpp and readerwriterqueue.h, one of them   *)
(* in every execution: the others stay where they begin.  The queue of a   *)
(* producer is implicit or explicit.                                       *)
(***************************************************************************)
EXTENDS Integers, Sequences, TLC, FreeList, ProducerHash, ReaderWriterQueue

CONSTANTS c1, c2,
          Parts, CreatedBlocks, Allocating, NotAllocating, ItemsOfQueue

VARIABLES part,
  (* ProducerBase, and what its two kinds have both *)
  tailIndex, headIndex, dequeueOptimisticCount, dequeueOvercommit, consumer, producerPut, latest,
  blockIndex, producerTailBlock, element, unused, producer,
  (* ImplicitQueue, ExplicitQueue *)
  entries, dequeued, freeBlocks, pr_blockIndexSlotsUsed, pr_blockIndexFront, nextBlock, emptyFlags

base == <<tailIndex, headIndex, dequeueOptimisticCount, dequeueOvercommit, consumer, producerPut, latest,
          blockIndex, producerTailBlock, element, unused, producer>>
implicitOnly == <<entries, dequeued, freeBlocks>>
explicitOnly == <<pr_blockIndexSlotsUsed, pr_blockIndexFront, nextBlock, emptyFlags>>

-----------------------------------------------------------------------------
(* An index has 16 values, a block 2 slots and the index of the blocks at  *)
(* first 2 entries; the implicit queue begins where the indices are about  *)
(* to wrap, the explicit queue there or at 0.  Consumers are alike.         *)
Consumers == {c1, c2}
Symmetry == Permutations(Consumers)
INDICES == 16
BLOCK_SIZE == 2
Pooled == {1}
Created == CreatedBlocks
Takes == {2}
Items == ItemsOfQueue

Implicit == INSTANCE ImplicitQueue WITH
  IMPLICIT_INITIAL_INDEX_SIZE <- 2, Starts <- {13}, Puts <- {1, 3},
  tailBlock <- producerTailBlock, put <- producerPut
Explicit == INSTANCE ExplicitQueue WITH
  EXPLICIT_INITIAL_INDEX_SIZE <- 2, Starts <- {0, 13},
  tailBlock <- producerTailBlock, put <- producerPut,
  Offers <- ({"CanAlloc"} \X Allocating) \cup ({"CannotAlloc"} \X NotAllocating)

(* Two of three threads collide in a table of two, which has to grow; one  *)
(* allocation fails.                                                       *)
HashOfThread == [t \in Threads |-> IF t = 2 THEN 3 ELSE 2]
CallsOfThread == [t \in Threads |-> IF t = 1 THEN 2 ELSE 1]

-----------------------------------------------------------------------------
NoImplicit == entries = NULL /\ dequeued = NULL /\ freeBlocks = NULL
NoExplicit == pr_blockIndexSlotsUsed = NULL /\ pr_blockIndexFront = NULL /\ nextBlock = NULL /\ emptyFlags = NULL
NoBase ==
  /\ tailIndex = NULL /\ headIndex = NULL /\ dequeueOptimisticCount = NULL /\ dequeueOvercommit = NULL
  /\ consumer = NULL /\ producerPut = NULL /\ latest = NULL
  /\ blockIndex = NULL /\ producerTailBlock = NULL /\ element = NULL /\ unused = NULL /\ producer = NULL

Init ==
  /\ part \in Parts
  /\ IF part = "implicit" THEN Implicit!Init /\ NoExplicit
     ELSE IF part = "explicit" THEN Explicit!Init /\ NoImplicit
     ELSE NoBase /\ NoImplicit /\ NoExplicit
  /\ ListInit /\ HashInit /\ PairInit
  /\ part # "pair" => Len(blocks) = 1

ImplicitMoves == part = "implicit" /\ Implicit!Next /\ UNCHANGED <<part, explicitOnly, freelist, hashing, spsc>>
ExplicitMoves == part = "explicit" /\ Explicit!Next /\ UNCHANGED <<part, implicitOnly, freelist, hashing, spsc>>
ListMoves == part = "list" /\ ListNext /\ UNCHANGED <<part, base, implicitOnly, explicitOnly, hashing, spsc>>
HashMoves == part = "hash" /\ HashNext /\ UNCHANGED <<part, base, implicitOnly, explicitOnly, freelist, spsc>>
PairMoves == part = "pair" /\ PairNext /\ UNCHANGED <<part, base, implicitOnly, explicitOnly, freelist, hashing>>

Next == ImplicitMoves \/ ExplicitMoves \/ ListMoves \/ HashMoves \/ PairMoves
Spec == Init /\ [][Next]_<<part, base, implicitOnly, explicitOnly, freelist, hashing, spsc>>

-----------------------------------------------------------------------------
(* The items of a producer, of either kind: none is taken twice, none is   *)
(* lost and none is taken before it was put.  For an explicit producer     *)
(* this needs calls of several items not to fail half way: MCQueues.cfg    *)
(* gives those that it makes the blocks they ask for, and MCQueuesBulk.cfg *)
(* shows what happens otherwise (TakenInOrder).                            *)
KeepsItems ==
  /\ part = "implicit" => Implicit!ImplicitKeepsItems
  /\ part = "explicit" => Explicit!ExplicitKeepsItems

(* Every item that leaves an explicit queue is the next one put, whatever  *)
(* calls failed before: the code does not keep to it.                      *)
TakenInOrder == part = "explicit" => Explicit!TakenInOrder
=============================================================================
