------------------------------ MODULE ImplicitQueue ------------------------------
(***************************************************************************)
(* src/code/concurrentqueue.hpp: the queue of one implicit producer, which *)
(* belongs to a thread.  Items live in blocks; a ring of entries, the      *)
(* block index, tells the block of an index.  When it is too small a new   *)
(* ring takes over the old ring's entries.  Who takes the last item of a   *)
(* block puts the block on the free list (FreeList).                       *)
(***************************************************************************)
EXTENDS ProducerBase

CONSTANTS IMPLICIT_INITIAL_INDEX_SIZE,
          Pooled, Created,   \* blocks of the initial pool; bound: blocks create() can make
          Starts,            \* where the queue is when the model begins
          Puts,              \* how many items a call puts: enqueue puts one, or enqueue_bulk
          Items              \* bound: items put

VARIABLES blockIndex,   \* the rings made so far, of which the last is the current one
          entries,      \* the entries of the rings
          tailBlock,
          element,      \* block -> what its slots hold
          dequeued,     \* block -> elementsCompletelyDequeued
          freeBlocks,   \* on the free list
          unused,       \* never requisitioned
          producer

storage  == <<blockIndex, entries, tailBlock, element, dequeued, freeBlocks, unused>>
implicit == <<counters, consumer, put, latest, storage, producer>>

Blocks == Pooled \cup Created

INVALID_BLOCK_BASE == 1
Fresh(count) == [i \in 1..count |-> [key |-> INVALID_BLOCK_BASE, value |-> NULL]]
Current == blockIndex[Len(blockIndex)]
EntryFor(ring, index) ==
  (ring.tail + Offset(index, entries[ring.index[ring.tail]].key)) % ring.capacity

NoEnqueue == [pc |-> "idle", mode |-> "CanAlloc", count |-> 0, made |-> <<>>]

(* A queue that has just been made, or one that was used and is empty; its *)
(* last block may be used in part.                                         *)
Started(start) ==
  LET size == IMPLICIT_INITIAL_INDEX_SIZE
      partly == InBlock(start) # 0
      key(i) == Minus(Base(Minus(start, 1)), BLOCK_SIZE * (size - i))
  IN /\ Unclaimed(start)
     /\ blockIndex = <<[capacity |-> size, tail |-> size - 1, index |-> [i \in 0..(size - 1) |-> i + 1]]>>
     /\ entries = IF start = 0 THEN Fresh(size)
                  ELSE [i \in 1..size |-> [key |-> key(i), value |-> IF partly /\ i = size THEN 1 ELSE NULL]]
     /\ tailBlock = IF partly THEN 1 ELSE NULL
     /\ dequeued = [b \in Blocks |-> IF partly /\ b = 1 THEN InBlock(start) ELSE 0]
     /\ unused = IF partly THEN Blocks \ {1} ELSE Blocks

(* One whose constructor got no memory for the ring, and took no notice.   *)
StartedWithout ==
  /\ Unclaimed(0)
  /\ blockIndex = <<>> /\ entries = <<>>
  /\ tailBlock = NULL
  /\ dequeued = [b \in Blocks |-> 0]
  /\ unused = Blocks

Init ==
  /\ (\E start \in Starts : Started(start)) \/ StartedWithout
  /\ element = [b \in Blocks |-> [i \in 0..(BLOCK_SIZE - 1) |-> NULL]]
  /\ freeBlocks = {}
  /\ producer = NoEnqueue

-----------------------------------------------------------------------------
(* enqueue (of one item) and enqueue_bulk.  A call first gets the blocks   *)
(* that it will need, each with its entry.                                 *)
ProducerAt(pc) == producer.pc = pc
ProducerGoes(pc) == producer' = [producer EXCEPT !.pc = pc]
EnqueueReturns == producer' = NoEnqueue

NextBase == BaseOf(Len(producer.made) + 1)

Enqueue(mode, count) ==
  /\ ProducerAt("idle") /\ put + count <= Items
  /\ producer' = [pc |-> IF BlocksNeeded(count) = 0 THEN "construct" ELSE "entry",
                  mode |-> mode, count |-> count, made |-> <<>>]
  /\ UNCHANGED <<counters, consumer, put, latest, storage>>

Full == TailMeetsHead(NextBase)

(* Without a ring the first item is undefined: a null pointer is read.     *)
Undefined ==
  /\ ProducerAt("entry") /\ blockIndex = <<>>
  /\ ProducerGoes("undefined")
  /\ UNCHANGED <<counters, consumer, put, latest, storage>>

(* An entry after the last one is taken if it holds no block.  *)
NextEntry == Current.index[(Current.tail + 1) % Current.capacity]
TakesEntry(e) == e.key = INVALID_BLOCK_BASE \/ e.value = NULL

InsertEntry ==
  /\ ProducerAt("entry") /\ blockIndex # <<>> /\ ~Full
  /\ TakesEntry(entries[NextEntry])
  /\ entries' = [entries EXCEPT ![NextEntry].key = NextBase]
  /\ blockIndex' = [blockIndex EXCEPT ![Len(blockIndex)].tail = (@ + 1) % Current.capacity]
  /\ ProducerGoes("block")
  /\ UNCHANGED <<counters, consumer, put, latest, tailBlock, element, dequeued, freeBlocks, unused>>

(* new_block_index: twice the capacity, the old entries from the oldest    *)
(* on, then new ones.  Defect: the old entries stay where they are.        *)
RotatedNot(i) == Current.index[i % Current.capacity]
Rotated(i) == Current.index[(Current.tail + 1 + i) % Current.capacity]

NewBlockIndex ==
  LET old == Current.capacity
      index == [i \in 0..(2 * old - 1) |-> IF i < old THEN Rotated(i) ELSE Len(entries) + i - old + 1]
  IN /\ ProducerAt("entry") /\ blockIndex # <<>> /\ ~Full
     /\ ~TakesEntry(entries[NextEntry]) /\ producer.mode = "CanAlloc"
     /\ blockIndex' = Append(blockIndex, [capacity |-> 2 * old, tail |-> old - 1, index |-> index])
     /\ entries' = entries \o Fresh(old)
     /\ UNCHANGED <<counters, consumer, put, latest, tailBlock, element, dequeued, freeBlocks, unused, producer>>

(* requisition_block: from the initial pool, from the free list, or made.  *)
(* Blocks are alike, so that it does not matter which one it is.           *)
Available == IF unused \cap Pooled # {} THEN unused \cap Pooled
             ELSE IF freeBlocks # {} THEN freeBlocks
             ELSE IF producer.mode = "CanAlloc" THEN unused ELSE {}

GetBlock ==
  /\ ProducerAt("block")
  /\ Available # {}
  /\ LET b == CHOOSE least \in Available : \A other \in Available : least <= other IN
       /\ freeBlocks' = freeBlocks \ {b} /\ unused' = unused \ {b}
       /\ dequeued' = [dequeued EXCEPT ![b] = 0]
       /\ entries' = [entries EXCEPT ![Current.index[Current.tail]].value = b]
       /\ producer' = [producer EXCEPT !.made = Append(@, b),
                                       !.pc = IF Len(producer.made) + 1 = BlocksNeeded(producer.count) THEN "construct" ELSE "entry"]
  /\ UNCHANGED <<counters, consumer, put, latest, blockIndex, tailBlock, element>>

(* No entry, no ring or no block: the entries inserted go, and the blocks  *)
(* go to the free list.  There may be no memory for a ring at any time.    *)
Fails ==
  LET inserted == Len(producer.made) + IF ProducerAt("block") THEN 1 ELSE 0
      entry(i) == Current.index[(Current.tail - i) % Current.capacity]
  IN /\ blockIndex # <<>>
     /\ \/ ProducerAt("block") /\ Available = {}
        \/ ProducerAt("entry") /\ (Full \/ ~TakesEntry(entries[NextEntry]))
     /\ entries' = [e \in DOMAIN entries |->
                      IF \E i \in 0..(inserted - 1) : e = entry(i)
                      THEN [entries[e] EXCEPT !.value = NULL] ELSE entries[e]]
     /\ blockIndex' = [blockIndex EXCEPT ![Len(blockIndex)].tail = (@ - inserted) % Current.capacity]
     /\ freeBlocks' = freeBlocks \cup {producer.made[i] : i \in DOMAIN producer.made}
     /\ EnqueueReturns
     /\ UNCHANGED <<counters, consumer, put, latest, tailBlock, element, dequeued, unused>>

(* The items are constructed, one block after the other; then the tail     *)
(* shows them all.                                                         *)
Chain == IF InBlock(tailIndex) = 0 THEN producer.made ELSE <<tailBlock>> \o producer.made
Construct ==
  /\ ProducerAt("construct")
  /\ element' = Constructed(element, Chain, producer.count)
  /\ tailBlock' = Chain[Len(Chain)]
  /\ producer' = [producer EXCEPT !.pc = "publish", !.mode = "CanAlloc", !.made = <<>>]
  /\ UNCHANGED <<counters, consumer, put, latest, blockIndex, entries, dequeued, freeBlocks, unused>>

Publish ==
  /\ ProducerAt("publish")
  /\ tailIndex' = Plus(tailIndex, producer.count)
  /\ put' = put + producer.count
  /\ EnqueueReturns
  /\ UNCHANGED <<headIndex, dequeueOptimisticCount, dequeueOvercommit, consumer, latest, storage>>

-----------------------------------------------------------------------------
(* dequeue and dequeue_bulk, once the indices are taken. *)
(* get_block_index_index_for_index: the current ring, then its tail and    *)
(* the key there, from which the entry is so many blocks away.             *)
FindRing(c) ==
  /\ At(c, "ring")
  /\ Set(c, [consumer[c] EXCEPT !.pc = "find", !.ring = Len(blockIndex)])
  /\ UNCHANGED <<counters, put, latest, storage, producer>>

FindEntry(c) ==
  /\ At(c, "find")
  /\ Set(c, [consumer[c] EXCEPT !.pc = "move",
                                !.at = EntryFor(blockIndex[consumer[c].ring], consumer[c].index)])
  /\ UNCHANGED <<counters, put, latest, storage, producer>>

Ring(c)  == blockIndex[consumer[c].ring]
Entry(c) == Ring(c).index[consumer[c].at]
Block(c) == entries[Entry(c)].value

Move(c) ==
  /\ At(c, "move")
  /\ element' = [element EXCEPT ![Block(c)] = [i \in DOMAIN @ |-> IF i \in Slots(c) THEN NULL ELSE @[i]]]
  /\ Moved(c, element[Block(c)])
  /\ UNCHANGED <<counters, put, latest, blockIndex, entries, tailBlock, dequeued, freeBlocks, unused, producer>>

(* set_empty, set_many_empty. *)
SetEmpty(c) ==
  LET b == Block(c)
      all == dequeued[b] + Here(c)
  IN /\ At(c, "empty")
     /\ dequeued' = [dequeued EXCEPT ![b] = all]
     /\ IF all = BLOCK_SIZE THEN Goes(c, "free") /\ UNCHANGED latest
        ELSE Onwards(c, Ring(c).capacity)
     /\ UNCHANGED <<counters, put, blockIndex, entries, tailBlock, element, freeBlocks, unused, producer>>

(* The entry gives the block up before it goes to the free list.  *)
FreeBlock(c) ==
  /\ At(c, "free")
  /\ entries' = [entries EXCEPT ![Entry(c)].value = NULL]
  /\ freeBlocks' = freeBlocks \cup {Block(c)}
  /\ Onwards(c, Ring(c).capacity)
  /\ UNCHANGED <<counters, put, blockIndex, tailBlock, element, dequeued, unused, producer>>

-----------------------------------------------------------------------------
Produce == \/ \E mode \in {"CanAlloc", "CannotAlloc"}, count \in Puts : Enqueue(mode, count)
           \/ Undefined \/ InsertEntry \/ NewBlockIndex \/ GetBlock \/ Fails \/ Construct \/ Publish
Consume(c) == \/ Claiming(c) /\ UNCHANGED <<storage, producer>>
              \/ FindRing(c) \/ FindEntry(c) \/ Move(c) \/ SetEmpty(c) \/ FreeBlock(c)

Next == Produce \/ \E c \in Consumers : Consume(c)
Spec == Init /\ [][Next]_implicit

-----------------------------------------------------------------------------
BlockOf(i) == entries[Current.index[EntryFor(Current, i)]].value

(* How often the destructor destroys a block: when it goes on to the next  *)
(* one while it destroys the items left, and the tail block at the end.    *)
TimesDestroyed(b) ==
  Cardinality({k \in 1..(Waiting - 1) : /\ InBlock(Plus(headIndex, k)) = 0
                                         /\ BlockOf(Plus(headIndex, k - 1)) = b})
  + IF tailBlock = b /\ (Waiting > 0 \/ InBlock(tailIndex) # 0) THEN 1 ELSE 0

(* Whatever calls there have been, also of several items that failed half  *)
(* way, no item comes twice, is lost, or comes before it was put, as long  *)
(* as the constructor got its ring.  When all have returned, an item that  *)
(* is left is found through the ring, and a block that is not free holds   *)
(* such an item or is being filled; the destructor destroys these blocks,  *)
(* each once.                                                              *)
ImplicitKeepsItems ==
  /\ TakenInOrder
  /\ Resting /\ ProducerAt("idle") =>
       /\ ClaimsSettled
       /\ \A k \in 1..Waiting : LET i == Plus(headIndex, k - 1)
                                IN element[BlockOf(i)][InBlock(i)] = put - Waiting + k
       /\ \A b \in Blocks : TimesDestroyed(b) = IF b \in freeBlocks \cup unused THEN 0 ELSE 1
=============================================================================
