------------------------------ MODULE ExplicitQueue ------------------------------
(***************************************************************************)
(* src/code/concurrentqueue.hpp: the queue of one explicit producer, which *)
(* is used through a ProducerToken.  Its blocks form a circle; the one     *)
(* after the tail block is used again when it is empty, otherwise a new    *)
(* one is linked in.  The block index is an array used as a ring, which    *)
(* is copied into one of twice the size when a new block has no room.      *)
(***************************************************************************)
EXTENDS ProducerBase

CONSTANTS EXPLICIT_INITIAL_INDEX_SIZE,
          Pooled, Created,   \* blocks of the initial pool; bound: blocks create() can make
          Starts,            \* where the queue is when the model begins
          Offers,            \* bound: the calls made, <<allocation mode, how many items>>
          Items              \* bound: items put

VARIABLES blockIndex,   \* the arrays made so far, of which the last is the current one
          pr_blockIndexSlotsUsed, pr_blockIndexFront,
          nextBlock,    \* the circle
          tailBlock,
          element,      \* block -> what its slots hold
          emptyFlags,   \* block -> its slots that are empty
          unused,       \* blocks never requisitioned
          producer

storage  == <<blockIndex, pr_blockIndexSlotsUsed, pr_blockIndexFront, nextBlock, tailBlock,
              element, emptyFlags, unused>>
explicit == <<counters, consumer, put, latest, storage, producer>>

Blocks == Pooled \cup Created
AllSlots == 0..(BLOCK_SIZE - 1)
is_empty(b) == emptyFlags[b] = AllSlots
Current == blockIndex[Len(blockIndex)]

NoEnqueue == [pc |-> "idle", mode |-> "CanAlloc", count |-> 0, begun |-> 0,
              startBlock |-> NULL, firstAllocatedBlock |-> NULL, oldFront |-> 0, oldSlotsUsed |-> 0]

(* A queue that has just been made, without an array if there was no       *)
(* memory for it, or one whose items were taken before more were put, so   *)
(* that it has used its only block again and again.                        *)
Started(start) ==
  LET size == EXPLICIT_INITIAL_INDEX_SIZE
      begun == (start + BLOCK_SIZE - 1) \div BLOCK_SIZE
      used == begun > 0
      last == Base(Minus(start, 1))
      ago(i) == (begun - 1 - i) % size
  IN /\ Unclaimed(start)
     /\ pr_blockIndexSlotsUsed = IF used THEN 1 ELSE 0
     /\ pr_blockIndexFront = begun % size
     /\ \/ blockIndex = <<[size |-> size, front |-> (begun - 1) % size,
                           entries |-> [i \in 0..(size - 1) |->
                                          [base |-> IF used THEN Minus(last, BLOCK_SIZE * ago(i)) ELSE 0,
                                           block |-> IF used THEN 1 ELSE NULL]]]>>
        \/ ~used /\ blockIndex = <<>>
     /\ tailBlock = IF used THEN 1 ELSE NULL
     /\ nextBlock = [b \in Blocks |-> IF used /\ b = 1 THEN 1 ELSE NULL]
     /\ emptyFlags = [b \in Blocks |-> IF used /\ b = 1 THEN 0..InBlock(Minus(start, 1)) ELSE {}]
     /\ unused = IF used THEN Blocks \ {1} ELSE Blocks

Init ==
  /\ \E start \in Starts : Started(start)
  /\ element = [b \in Blocks |-> [i \in AllSlots |-> NULL]]
  /\ producer = NoEnqueue

-----------------------------------------------------------------------------
(* enqueue (of one item) and enqueue_bulk.  A call first gets the blocks   *)
(* that it will need and writes their entries, which no one sees yet.      *)
ProducerAt(pc) == producer.pc = pc

Enqueue(mode, count) ==
  /\ ProducerAt("idle") /\ put + count <= Items
  /\ producer' = [pc |-> IF BlocksNeeded(count) = 0 THEN "construct" ELSE "reuse",
                  mode |-> mode, count |-> count, begun |-> 0,
                  startBlock |-> tailBlock, firstAllocatedBlock |-> NULL,
                  oldFront |-> pr_blockIndexFront, oldSlotsUsed |-> pr_blockIndexSlotsUsed]
  /\ UNCHANGED <<counters, consumer, put, latest, storage>>

(* Block b is the next one: its entry, and the tail block. *)
Begins(b, pc) ==
  /\ blockIndex' = [blockIndex EXCEPT ![Len(blockIndex)].entries[pr_blockIndexFront] =
                      [base |-> BaseOf(producer.begun + 1), block |-> b]]
  /\ pr_blockIndexFront' = (pr_blockIndexFront + 1) % Current.size
  /\ tailBlock' = b
  /\ producer' = [producer EXCEPT
       !.begun = @ + 1,
       !.firstAllocatedBlock = IF @ = NULL THEN b ELSE @,
       !.pc = IF producer.begun + 1 = BlocksNeeded(producer.count) THEN "reset" ELSE pc]

(* Defect: the block ahead is used again without a look at it. *)
CanReuseUnasked == tailBlock # NULL /\ nextBlock[tailBlock] # producer.firstAllocatedBlock
CanReuse == /\ tailBlock # NULL /\ nextBlock[tailBlock] # producer.firstAllocatedBlock
            /\ is_empty(nextBlock[tailBlock])

Reuse ==
  /\ ProducerAt("reuse") /\ CanReuse
  /\ Begins(nextBlock[tailBlock], "reuse")
  /\ UNCHANGED <<counters, consumer, put, latest, pr_blockIndexSlotsUsed, nextBlock, element, emptyFlags, unused>>

(* No block ahead is empty any more. *)
AllocatesNow == ProducerAt("new") \/ (ProducerAt("reuse") /\ ~CanReuse)
Full == TailMeetsHead(BaseOf(producer.begun + 1))
IndexFull == blockIndex # <<>> => pr_blockIndexSlotsUsed = Current.size
Available == IF unused \cap Pooled # {} THEN unused \cap Pooled
             ELSE IF producer.mode = "CanAlloc" THEN unused ELSE {}

(* new_block_index: the entries in use, from the oldest on.  *)
CopiedFrom(i) == Current.entries[(pr_blockIndexFront - pr_blockIndexSlotsUsed + i) % Current.size]

NewBlockIndex ==
  LET used == pr_blockIndexSlotsUsed
      size == IF blockIndex = <<>> THEN EXPLICIT_INITIAL_INDEX_SIZE ELSE 2 * Current.size
  IN /\ AllocatesNow /\ ~Full /\ IndexFull /\ producer.mode = "CanAlloc"
     /\ blockIndex' = Append(blockIndex,
          [size |-> size, front |-> producer.oldSlotsUsed - 1,
           entries |-> [i \in 0..(size - 1) |-> IF i < used THEN CopiedFrom(i) ELSE [base |-> 0, block |-> NULL]]])
     /\ pr_blockIndexFront' = used
     /\ producer' = [producer EXCEPT !.pc = "new", !.oldFront = producer.oldSlotsUsed]
     /\ UNCHANGED <<counters, consumer, put, latest, pr_blockIndexSlotsUsed, nextBlock, tailBlock, element,
                    emptyFlags, unused>>

(* requisition_block; blocks are alike. *)
NewBlock ==
  LET b == CHOOSE least \in Available : \A other \in Available : least <= other IN
  /\ AllocatesNow /\ ~Full /\ ~IndexFull /\ Available # {}
  /\ unused' = unused \ {b}
  /\ emptyFlags' = [emptyFlags EXCEPT ![b] = AllSlots]
  /\ nextBlock' = IF tailBlock = NULL THEN [nextBlock EXCEPT ![b] = b]
                  ELSE [nextBlock EXCEPT ![b] = nextBlock[tailBlock], ![tailBlock] = b]
  /\ pr_blockIndexSlotsUsed' = pr_blockIndexSlotsUsed + 1
  /\ Begins(b, "new")
  /\ UNCHANGED <<counters, consumer, put, latest, element>>

(* The changes are undone, but the new blocks stay in the circle.  A call  *)
(* of one item for whose array there is no memory ends as one that may not *)
(* allocate.                                                               *)
Fails ==
  /\ AllocatesNow
  /\ Full \/ IF IndexFull THEN producer.mode = "CannotAlloc" ELSE Available = {}
  /\ pr_blockIndexFront' = producer.oldFront
  /\ pr_blockIndexSlotsUsed' = producer.oldSlotsUsed
  /\ tailBlock' = IF producer.startBlock = NULL THEN producer.firstAllocatedBlock ELSE producer.startBlock
  /\ producer' = NoEnqueue
  /\ UNCHANGED <<counters, consumer, put, latest, blockIndex, nextBlock, element, emptyFlags, unused>>

(* The blocks from the first one allocated on, and before them the one     *)
(* that was being filled.                                                  *)
Walk(b, count) == LET at[i \in 1..count] == IF i = 1 THEN b ELSE nextBlock[at[i - 1]] IN at
NewChain == Walk(producer.firstAllocatedBlock, producer.begun)
Chain == IF InBlock(tailIndex) = 0 THEN NewChain ELSE <<producer.startBlock>> \o NewChain

(* All the blocks are there: none of them is empty any more, and the front *)
(* of the index shows their entries.                                       *)
ResetEmpty ==
  /\ ProducerAt("reset")
  /\ emptyFlags' = [b \in Blocks |-> IF \E i \in DOMAIN NewChain : NewChain[i] = b THEN {} ELSE emptyFlags[b]]
  /\ blockIndex' = [blockIndex EXCEPT ![Len(blockIndex)].front = (pr_blockIndexFront - 1) % Current.size]
  /\ producer' = [producer EXCEPT !.pc = "construct"]
  /\ UNCHANGED <<counters, consumer, put, latest, pr_blockIndexSlotsUsed, pr_blockIndexFront, nextBlock,
                 tailBlock, element, unused>>

Construct ==
  /\ ProducerAt("construct")
  /\ element' = Constructed(element, Chain, producer.count)
  /\ producer' = [NoEnqueue EXCEPT !.pc = "publish", !.count = producer.count]
  /\ UNCHANGED <<counters, consumer, put, latest, blockIndex, pr_blockIndexSlotsUsed, pr_blockIndexFront,
                 nextBlock, tailBlock, emptyFlags, unused>>

Publish ==
  /\ ProducerAt("publish")
  /\ tailIndex' = Plus(tailIndex, producer.count)
  /\ put' = put + producer.count
  /\ producer' = NoEnqueue
  /\ UNCHANGED <<headIndex, dequeueOptimisticCount, dequeueOvercommit, consumer, latest, storage>>

-----------------------------------------------------------------------------
(* dequeue and dequeue_bulk, once the indices are taken: the current array *)
(* of entries, then its front and the base there.                          *)
FindIndex(c) ==
  /\ At(c, "ring")
  /\ Set(c, [consumer[c] EXCEPT !.pc = "find", !.ring = Len(blockIndex)])
  /\ UNCHANGED <<counters, put, latest, storage, producer>>

Index(c) == blockIndex[consumer[c].ring]
FindEntry(c) ==
  LET front == Index(c).front
      headBase == Index(c).entries[front].base
  IN /\ At(c, "find")
     /\ Set(c, [consumer[c] EXCEPT !.pc = "move",
                                   !.at = (front + Offset(consumer[c].index, headBase)) % Index(c).size])
     /\ UNCHANGED <<counters, put, latest, storage, producer>>

Block(c) == Index(c).entries[consumer[c].at].block
Move(c) ==
  /\ At(c, "move")
  /\ element' = [element EXCEPT ![Block(c)] = [i \in AllSlots |-> IF i \in Slots(c) THEN NULL ELSE @[i]]]
  /\ Moved(c, element[Block(c)])
  /\ UNCHANGED <<counters, put, latest, blockIndex, pr_blockIndexSlotsUsed, pr_blockIndexFront, nextBlock,
                 tailBlock, emptyFlags, unused, producer>>

SetEmpty(c) ==
  /\ At(c, "empty")
  /\ emptyFlags' = [emptyFlags EXCEPT ![Block(c)] = @ \cup Slots(c)]
  /\ Onwards(c, Index(c).size)
  /\ UNCHANGED <<counters, put, blockIndex, pr_blockIndexSlotsUsed, pr_blockIndexFront, nextBlock,
                 tailBlock, element, unused, producer>>

-----------------------------------------------------------------------------
Produce == \/ \E offer \in Offers : Enqueue(offer[1], offer[2])
           \/ Reuse \/ NewBlockIndex \/ NewBlock \/ Fails \/ ResetEmpty \/ Construct \/ Publish
Consume(c) == \/ Claiming(c) /\ UNCHANGED <<storage, producer>>
              \/ FindIndex(c) \/ FindEntry(c) \/ Move(c) \/ SetEmpty(c)

Next == Produce \/ \E c \in Consumers : Consume(c)
Spec == Init /\ [][Next]_explicit

-----------------------------------------------------------------------------
BlockOf(i) ==
  LET front == Current.front
  IN Current.entries[(front + Offset(i, Current.entries[front].base)) % Current.size].block

(* The destructor finds the block that was taken from in part: it begins   *)
(* with the oldest entry and goes on while the block ends before the head. *)
Oldest(i) == Current.entries[(pr_blockIndexFront - pr_blockIndexSlotsUsed + i) % Current.size]
HalfDequeued ==
  IF Waiting = 0 \/ InBlock(headIndex) = 0 THEN NULL
  ELSE Oldest(CHOOSE i \in 0..(Current.size - 1) :
                /\ ~circular_less_than(Plus(Oldest(i).base, BLOCK_SIZE), headIndex)
                /\ \A j \in 0..(i - 1) : circular_less_than(Plus(Oldest(j).base, BLOCK_SIZE), headIndex)).block

(* It destroys the items of every block of the circle that is not empty,   *)
(* up to the tail in the tail block.                                       *)
Destroyed(b) ==
  LET from == IF b = HalfDequeued THEN InBlock(headIndex) ELSE 0
      to == IF b = tailBlock THEN InBlock(Minus(tailIndex, 1)) ELSE BLOCK_SIZE - 1
  IN IF tailBlock = NULL \/ b \in unused \/ is_empty(b) THEN {} ELSE from..to

DestroysTheRest == \A b \in Blocks : Destroyed(b) = {i \in AllSlots : element[b][i] # NULL}

(* Unless a call that puts several items has failed after its first new    *)
(* block (for then items come out of order, and the runs that check this   *)
(* offer no such call), no item comes twice, is lost, or comes before it   *)
(* was put.  When all have returned, an item that is left is found through *)
(* the index, and the items left are what the destructor destroys (if      *)
(* there are any: if the last item was taken from the middle of a block,   *)
(* the destructor does not find that block, and destroys what was taken    *)
(* from it once more).                                                     *)
ExplicitKeepsItems ==
  /\ TakenInOrder
  /\ Resting /\ ProducerAt("idle") =>
       /\ ClaimsSettled
       /\ \A k \in 1..Waiting : LET i == Plus(headIndex, k - 1)
                                IN element[BlockOf(i)][InBlock(i)] = put - Waiting + k
       /\ Waiting > 0 => DestroysTheRest
=============================================================================
