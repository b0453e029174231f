---------------------------- MODULE ReaderWriterQueue ----------------------------
(***************************************************************************)
(* src/code/readerwriterqueue.h: a queue for one producer and one consumer *)
(* without a lock.  Blocks form a circle, each a ring with a slot to       *)
(* spare; the producer writes at tailBlock, the consumer reads at          *)
(* frontBlock.  Every load of what the other thread writes, and every      *)
(* store the other one loads, is a step of its own.  The fences make the   *)
(* memory sequentially consistent for the two, which is assumed here.      *)
(***************************************************************************)
EXTENDS Integers, Sequences, FiniteSets

CONSTANTS Sizes,            \* the maxSize a queue is made with
          MAX_BLOCK_SIZE,
          MAX_BLOCKS,       \* bound: the allocation after these fails
          Puts              \* bound: items put

VARIABLES blocks, frontBlock, tailBlock, largestBlockSize,
          writer,   \* the producer: where it is, and its local variables
          reader,   \* the consumer
          put       \* history: items put by calls that have returned

spsc == <<blocks, frontBlock, tailBlock, largestBlockSize, writer, reader, put>>

None == 0
ceilToPow2(x) == CHOOSE p \in {2^i : i \in 0..x} : p >= x /\ (p = 1 \/ p \div 2 < x)

ASSUME QueueAssumption ==
  /\ MAX_BLOCK_SIZE \in Nat /\ MAX_BLOCK_SIZE >= 2
  /\ MAX_BLOCKS \in Nat /\ Puts \in Nat
  /\ \A maxSize \in Sizes :
       /\ maxSize \in Nat /\ maxSize > 0
       /\ ceilToPow2(maxSize + 1) \in Nat /\ ceilToPow2(maxSize + 1) > maxSize

make_block(size, next) ==
  [front |-> 0, localTail |-> 0, tail |-> 0, localFront |-> 0, next |-> next,
   data |-> [i \in 0..(size - 1) |-> None]]
Size(b)     == Cardinality(DOMAIN blocks[b].data)
After(b, i) == (i + 1) % Size(b)

(* Several blocks are made for more than two blocks hold. *)
FirstBlocks(maxSize) ==
  LET size == ceilToPow2(maxSize + 1)
      count == (maxSize + MAX_BLOCK_SIZE * 2 - 3) \div (MAX_BLOCK_SIZE - 1)
  IN IF size > MAX_BLOCK_SIZE * 2
     THEN [b \in 1..count |-> make_block(MAX_BLOCK_SIZE, IF b = count THEN 1 ELSE b + 1)]
     ELSE <<make_block(size, 1)>>

PairInit ==
  /\ \E maxSize \in Sizes : blocks = FirstBlocks(maxSize)
  /\ largestBlockSize = Cardinality(DOMAIN blocks[1].data)
  /\ frontBlock = 1 /\ tailBlock = 1
  /\ writer = [pc |-> "idle", mode |-> "CanAlloc", item |-> 1]
  /\ reader = [pc |-> "idle", op |-> "try_dequeue", got |-> None, started |-> 0, taken |-> 0]
  /\ put = 0

-----------------------------------------------------------------------------
(* inner_enqueue, by try_enqueue (CannotAlloc) or enqueue. *)
WriterGoes(pc) == writer' = [writer EXCEPT !.pc = pc]
Construct(b) ==
  blocks' = [blocks EXCEPT ![b].data[blocks[b].tail] = writer.item]

Enqueue(mode) ==
  /\ writer.pc = "idle" /\ writer.item <= Puts
  /\ writer' = [writer EXCEPT !.pc = "room", !.mode = mode]
  /\ UNCHANGED <<blocks, frontBlock, tailBlock, largestBlockSize, reader, put>>

(* Room by the shadow of front, or by front, whose shadow is renewed. *)
Room ==
  LET b == blocks[tailBlock]
      next == After(tailBlock, b.tail)
  IN /\ writer.pc = "room"
     /\ IF next # b.localFront
        THEN WriterGoes("construct") /\ UNCHANGED blocks
        ELSE /\ blocks' = [blocks EXCEPT ![tailBlock].localFront = b.front]
             /\ WriterGoes(IF next # b.front THEN "construct" ELSE "full")
     /\ UNCHANGED <<frontBlock, tailBlock, largestBlockSize, reader, put>>

ConstructHere ==
  /\ writer.pc = "construct"
  /\ Construct(tailBlock)
  /\ WriterGoes("publish")
  /\ UNCHANGED <<frontBlock, tailBlock, largestBlockSize, reader, put>>

EnqueueReturns(done) ==
  /\ writer' = [writer EXCEPT !.pc = "idle", !.item = IF done THEN @ + 1 ELSE @]
  /\ put' = IF done THEN writer.item ELSE put

Publish ==
  /\ writer.pc = "publish"
  /\ blocks' = [blocks EXCEPT ![tailBlock].tail = After(tailBlock, blocks[tailBlock].tail)]
  /\ EnqueueReturns(TRUE)
  /\ UNCHANGED <<frontBlock, tailBlock, largestBlockSize, reader>>

(* The next block may be taken unless the consumer reads there. *)
(* Defect: the block of the consumer is taken, which has room.  *)
NextIsFreeAlways == TRUE
NextIsFree == blocks[tailBlock].next # frontBlock

Full ==
  /\ writer.pc = "full"
  /\ IF NextIsFree THEN WriterGoes("next") /\ UNCHANGED put
     ELSE IF writer.mode = "CanAlloc" THEN WriterGoes("alloc") /\ UNCHANGED put
     ELSE EnqueueReturns(FALSE)
  /\ UNCHANGED <<blocks, frontBlock, tailBlock, largestBlockSize, reader>>

ConstructNext ==
  LET b == blocks[tailBlock].next IN
  /\ writer.pc = "next"
  /\ blocks' = [blocks EXCEPT ![b].localFront = blocks[b].front,
                              ![b].data[blocks[b].tail] = writer.item]
  /\ WriterGoes("publishNext")
  /\ UNCHANGED <<frontBlock, tailBlock, largestBlockSize, reader, put>>

PublishNext ==
  LET b == blocks[tailBlock].next IN
  /\ writer.pc = "publishNext"
  /\ blocks' = [blocks EXCEPT ![b].tail = After(b, blocks[b].tail)]
  /\ WriterGoes("advance")
  /\ UNCHANGED <<frontBlock, tailBlock, largestBlockSize, reader, put>>

(* A new block comes with its first item, and is linked before it is the   *)
(* tail block.  Blocks double until they are MAX_BLOCK_SIZE.               *)
Alloc ==
  LET size == IF largestBlockSize >= MAX_BLOCK_SIZE THEN largestBlockSize ELSE 2 * largestBlockSize
      fresh == [make_block(size, blocks[tailBlock].next)
                  EXCEPT !.data[0] = writer.item, !.tail = 1, !.localTail = 1]
  IN /\ writer.pc = "alloc" /\ Len(blocks) < MAX_BLOCKS
     /\ blocks' = [Append(blocks, fresh) EXCEPT ![tailBlock].next = Len(blocks) + 1]
     /\ largestBlockSize' = size
     /\ WriterGoes("advance")
     /\ UNCHANGED <<frontBlock, tailBlock, reader, put>>

AllocFails ==
  /\ writer.pc = "alloc" /\ Len(blocks) = MAX_BLOCKS
  /\ EnqueueReturns(FALSE)
  /\ UNCHANGED <<blocks, frontBlock, tailBlock, largestBlockSize, reader>>

Advance ==
  /\ writer.pc = "advance"
  /\ tailBlock' = blocks[tailBlock].next
  /\ EnqueueReturns(TRUE)
  /\ UNCHANGED <<blocks, frontBlock, largestBlockSize, reader>>

-----------------------------------------------------------------------------
(* try_dequeue and pop take the first item, peek looks at it.  They get an *)
(* item, or None if the queue appeared empty.                              *)
ReaderGoes(pc) == reader' = [reader EXCEPT !.pc = pc]
NotEmpty(b) == blocks[b].front # blocks[b].tail

Dequeue(op) ==
  /\ reader.pc = "idle"
  /\ reader' = [reader EXCEPT !.pc = "look", !.op = op, !.started = put]
  /\ UNCHANGED <<blocks, frontBlock, tailBlock, largestBlockSize, writer, put>>

(* The shadow of tail first; then tail itself, whose shadow is renewed. *)
Look ==
  LET b == blocks[frontBlock] IN
  /\ reader.pc = "look"
  /\ IF b.front # b.localTail THEN ReaderGoes("take") /\ UNCHANGED blocks
     ELSE /\ blocks' = [blocks EXCEPT ![frontBlock].localTail = b.tail]
          /\ ReaderGoes(IF NotEmpty(frontBlock) THEN "take" ELSE "ahead")
  /\ UNCHANGED <<frontBlock, tailBlock, largestBlockSize, writer, put>>

DequeueReturnsNothing == reader' = [reader EXCEPT !.pc = "idle", !.got = None]
Ahead ==
  /\ reader.pc = "ahead"
  /\ IF frontBlock # tailBlock THEN ReaderGoes("again") ELSE DequeueReturnsNothing
  /\ UNCHANGED <<blocks, frontBlock, tailBlock, largestBlockSize, writer, put>>

(* The producer may have filled the front block before it went on: the     *)
(* front block is looked at again.  Defect: it is not.                     *)
StillEmptyUnasked == TRUE
StillEmpty == ~NotEmpty(frontBlock)

Again ==
  /\ reader.pc = "again"
  /\ blocks' = [blocks EXCEPT ![frontBlock].localTail = blocks[frontBlock].tail]
  /\ ReaderGoes(IF StillEmpty THEN "next" ELSE "take")
  /\ UNCHANGED <<frontBlock, tailBlock, largestBlockSize, writer, put>>

(* The item is moved out, then front moves on. *)
DequeueReturns(item) ==
  reader' = [reader EXCEPT !.pc = "idle", !.got = item,
                           !.taken = IF reader.op = "peek" THEN @ ELSE item]

Take ==
  LET item == blocks[frontBlock].data[blocks[frontBlock].front] IN
  /\ reader.pc = "take"
  /\ IF reader.op = "peek" THEN DequeueReturns(item) /\ UNCHANGED blocks
     ELSE /\ blocks' = [blocks EXCEPT ![frontBlock].data[blocks[frontBlock].front] = None]
          /\ reader' = [reader EXCEPT !.pc = "front", !.got = item]
  /\ UNCHANGED <<frontBlock, tailBlock, largestBlockSize, writer, put>>

Front ==
  /\ reader.pc = "front"
  /\ blocks' = [blocks EXCEPT ![frontBlock].front = After(frontBlock, blocks[frontBlock].front)]
  /\ DequeueReturns(reader.got)
  /\ UNCHANGED <<frontBlock, tailBlock, largestBlockSize, writer, put>>

(* To the next block, which is given up to the producer by the store to    *)
(* frontBlock.  A peek stays where it is.                                  *)
NextBlock ==
  LET b == blocks[frontBlock].next IN
  /\ reader.pc = "next"
  /\ IF reader.op = "peek"
     THEN DequeueReturns(blocks[b].data[blocks[b].front]) /\ UNCHANGED <<blocks, frontBlock>>
     ELSE /\ blocks' = [blocks EXCEPT ![b].localTail = blocks[b].tail]
          /\ frontBlock' = b
          /\ ReaderGoes("take")
  /\ UNCHANGED <<tailBlock, largestBlockSize, writer, put>>

-----------------------------------------------------------------------------
Write == \/ \E mode \in {"CanAlloc", "CannotAlloc"} : Enqueue(mode)
         \/ Room \/ ConstructHere \/ Publish
         \/ Full \/ ConstructNext \/ PublishNext \/ Alloc \/ AllocFails \/ Advance
Read  == \/ \E op \in {"try_dequeue", "peek"} : Dequeue(op)
         \/ Look \/ Ahead \/ Again \/ Take \/ Front \/ NextBlock

PairNext == Write \/ Read
PairSpec == PairInit /\ [][PairNext]_spsc

-----------------------------------------------------------------------------
Extended == INSTANCE SequencesExt

(* The items of a block in order, of the blocks from frontBlock on, and    *)
(* their number, as size_approx adds it up when no one else is at work.    *)
InBlock(b) == [i \in 1..((blocks[b].tail - blocks[b].front) % Size(b)) |->
                 blocks[b].data[(blocks[b].front + i - 1) % Size(b)]]
BlockAt[i \in 0..Len(blocks)] == IF i = 0 THEN frontBlock ELSE blocks[BlockAt[i - 1]].next
Contents == Extended!FlattenSeq([i \in 1..Len(blocks) |-> InBlock(BlockAt[i - 1])])
size_approx == Len(Contents)

(* Items come in the order they were put, none twice and none left out; no *)
(* slot is read before its item is constructed or after it was moved out;  *)
(* a queue that is reported empty was so when the call began, or later.    *)
InOrder ==
  /\ reader.pc = "idle" /\ reader.got # None =>
       reader.got = reader.taken + IF reader.op = "peek" THEN 1 ELSE 0
  /\ reader.pc = "idle" /\ reader.got = None => reader.taken >= reader.started
  /\ reader.pc = "front" => reader.got = reader.taken + 1

(* An item is in the queue as soon as a tail or a link says so, and is no  *)
(* longer in it once it is moved out.                                      *)
Held == IF reader.pc = "front" THEN Tail(Contents) ELSE Contents
Number == IF writer.pc = "advance" THEN writer.item ELSE writer.item - 1
Queue == INSTANCE Fifo WITH items <- Held, number <- Number

(* The queue is a first-in first-out queue, whatever the two threads load  *)
(* and store in between, and what it tells its consumer is so.             *)
ImplementsFifo == Queue!Spec /\ [][InOrder']_spsc
=============================================================================
