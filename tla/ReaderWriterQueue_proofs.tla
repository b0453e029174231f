-------------------------- MODULE ReaderWriterQueue_proofs --------------------------
(***************************************************************************)
(* Proofs about ReaderWriterQueue, for any sizes of queues and of blocks   *)
(* and any number of items.                                                *)
(*                                                                         *)
(* The invariant says in which order the blocks of the circle come after   *)
(* the front block, which of them have items, which item is the first of   *)
(* each, and so what every slot holds; that each thread's copy of the      *)
(* other's index errs on the safe side; and what each thread may rely on   *)
(* between two of its steps.  The items in the queue follow from it, and   *)
(* so each step is one of Fifo, or one that Fifo does not see.             *)
(***************************************************************************)
EXTENDS ReaderWriterQueue, FiniteSetTheorems, SequenceTheorems, WellFoundedInduction, TLAPS

Blocks == 1..Len(blocks)

(* A block of s slots. *)
BlockOf(s) == [front : 0..(s - 1), localTail : 0..(s - 1), tail : 0..(s - 1), localFront : 0..(s - 1),
               next : Nat, data : [0..(s - 1) -> Nat]]

Writers ==
  [pc : {"idle", "room", "construct", "publish", "full", "next", "publishNext", "alloc", "advance"},
   mode : {"CanAlloc", "CannotAlloc"}, item : Nat]
Readers ==
  [pc : {"idle", "look", "ahead", "again", "take", "front", "next"},
   op : {"try_dequeue", "peek"}, got : Nat, started : Nat, taken : Nat]

Typed ==
  /\ Len(blocks) \in Nat /\ blocks = [b \in Blocks |-> blocks[b]]
  /\ \A b \in Blocks : /\ Size(b) \in Nat /\ Size(b) >= 2
                       /\ blocks[b] \in BlockOf(Size(b))
                       /\ blocks[b].next \in Blocks
  /\ frontBlock \in Blocks /\ tailBlock \in Blocks
  /\ largestBlockSize \in Nat /\ largestBlockSize >= 2
  /\ writer \in Writers /\ reader \in Readers
  /\ put \in Nat /\ writer.item = put + 1

(* From slot x of s on to slot y, and the slot n places after x. *)
Dist(x, y, s) == IF x <= y THEN y - x ELSE y - x + s
Step(x, n, s) == IF x + n < s THEN x + n ELSE x + n - s

Count(b) == Dist(blocks[b].front, blocks[b].tail, Size(b))

(* The blocks in the order of the circle. *)
Circle(rank) ==
  /\ rank \in [Blocks -> 0..(Len(blocks) - 1)]
  /\ \A b, c \in Blocks : rank[b] = rank[c] => b = c
  /\ rank[frontBlock] = 0
  /\ \A b \in Blocks : rank[blocks[b].next] = IF rank[b] = Len(blocks) - 1 THEN 0 ELSE rank[b] + 1

(* The last block that has items; those after it, up to the front block,   *)
(* are empty.  Between the front block and it no block is.                 *)
LastBlock == IF writer.pc = "advance" THEN blocks[tailBlock].next ELSE tailBlock
Filled(rank) ==
  \A b \in Blocks : IF rank[b] > rank[LastBlock] THEN Count(b) = 0
                    ELSE rank[b] > 0 => Count(b) > 0

(* The items of block b are first[b], first[b] + 1, and so on. *)
Numbered(rank, first) ==
  /\ first \in [Blocks -> Nat]
  /\ first[frontBlock] = reader.taken + 1
  /\ \A b \in Blocks : rank[b] < rank[LastBlock] => first[blocks[b].next] = first[b] + Count(b)
  /\ first[LastBlock] + Count(LastBlock) = Number + 1

(* The reader has moved out the first item before front moves on. *)
Holds(rank, first) ==
  \A b \in Blocks : rank[b] <= rank[LastBlock] =>
    \A j \in 0..(Count(b) - 1) :
      blocks[b].data[Step(blocks[b].front, j, Size(b))]
        = IF b = frontBlock /\ j = 0 /\ reader.pc = "front" THEN None ELSE first[b] + j

Ring(rank, first) == Circle(rank) /\ Filled(rank) /\ Numbered(rank, first) /\ Holds(rank, first)

(* The shadows lag behind: the reader sees no more items than there are,   *)
(* the writer no more room.                                                *)
ShadowsLag ==
  \A b \in Blocks :
    /\ Dist(blocks[b].front, blocks[b].localTail, Size(b)) <= Count(b)
    /\ Count(b) <= Dist(blocks[b].localFront, blocks[b].tail, Size(b))

(* What the writer knows: there is a slot behind the tail, or the next     *)
(* block is empty and not the reader's.                                    *)
WriterKnows ==
  LET t == blocks[tailBlock]
      n == blocks[t.next] IN
  /\ writer.pc \in {"construct", "publish"} => After(tailBlock, t.tail) # t.localFront
  /\ writer.pc = "publish" => t.data[t.tail] = writer.item
  /\ writer.pc \in {"next", "publishNext", "advance"} => t.next # frontBlock
  /\ writer.pc = "publishNext" => n.data[n.tail] = writer.item /\ n.localFront = n.front
  /\ writer.pc = "advance" => Count(t.next) = 1
  /\ writer.pc # "idle" => writer.item <= Puts

(* What the reader knows: the front block has an item, or the writer has   *)
(* left the front block, and left it empty.                                *)
ReaderKnows ==
  /\ reader.started <= put
  /\ reader.pc \in {"take", "front"} => blocks[frontBlock].front # blocks[frontBlock].localTail
  /\ reader.pc \in {"again", "next"} => frontBlock # tailBlock
  /\ reader.pc = "next" => Count(frontBlock) = 0
  /\ reader.pc = "ahead" /\ frontBlock = tailBlock => reader.taken >= reader.started
  /\ reader.pc = "front" => reader.op # "peek"

HasRing == \E rank, first : Ring(rank, first)

IInv == Typed /\ ShadowsLag /\ WriterKnows /\ ReaderKnows /\ InOrder /\ HasRing

-----------------------------------------------------------------------------
(* Slots *)

LEMMA ModBelowTwice ==
  ASSUME NEW c \in Nat, c > 0, NEW x \in Nat, x < 2 * c
  PROVE  x % c = IF x < c THEN x ELSE x - c
<1>1. CASE x < c
  BY <1>1, SMT
<1>2. CASE x >= c
  BY <1>2, SMT
<1> QED
  BY <1>1, <1>2

(* Distances and steps in a ring of s slots. *)
LEMMA DistIs ==
  ASSUME NEW s \in Nat, NEW x \in 0..(s - 1), NEW y \in 0..(s - 1)
  PROVE  Dist(x, y, s) \in 0..(s - 1) /\ (y - x) % s = Dist(x, y, s)
<1>1. CASE x <= y
  BY <1>1, ModBelowTwice DEF Dist
<1>2. CASE x > y
  <2>1. y - x < 0 /\ y - x >= -s
    BY <1>2
  <2>2. (y - x) % s = y - x + s
    BY <2>1, SMT
  <2> QED
    BY <1>2, <2>2 DEF Dist
<1> QED
  BY <1>1, <1>2

LEMMA StepIs ==
  ASSUME NEW s \in Nat, NEW x \in 0..(s - 1), NEW n \in 0..(s - 1)
  PROVE  Step(x, n, s) \in 0..(s - 1) /\ (x + n) % s = Step(x, n, s)
BY ModBelowTwice DEF Step

LEMMA NextIs ==
  ASSUME NEW s \in Nat, s >= 2, NEW x \in 0..(s - 1)
  PROVE  (x + 1) % s = IF x = s - 1 THEN 0 ELSE x + 1
BY ModBelowTwice

(* A block with s slots has the size s. *)
LEMMA SizeIs ==
  ASSUME NEW b, NEW s \in Nat, DOMAIN blocks[b].data = 0..(s - 1)
  PROVE  Size(b) = s
<1>1. Cardinality(0..(s - 1)) = s
  BY FS_Interval
<1> QED
  BY <1>1 DEF Size

(* What is to be known of a block. *)
LEMMA Block ==
  ASSUME Typed, NEW b \in Blocks
  PROVE  /\ Size(b) \in Nat /\ Size(b) >= 2
         /\ blocks[b] \in BlockOf(Size(b))
         /\ blocks[b].next \in Blocks
         /\ blocks[b].front \in 0..(Size(b) - 1) /\ blocks[b].tail \in 0..(Size(b) - 1)
         /\ blocks[b].localFront \in 0..(Size(b) - 1) /\ blocks[b].localTail \in 0..(Size(b) - 1)
         /\ blocks[b].data \in [0..(Size(b) - 1) -> Nat]
         /\ Count(b) \in 0..(Size(b) - 1)
         /\ \A i \in 0..(Size(b) - 1) : /\ After(b, i) = IF i = Size(b) - 1 THEN 0 ELSE i + 1
                                       /\ After(b, i) \in 0..(Size(b) - 1)
<1>1. /\ Size(b) \in Nat /\ Size(b) >= 2 /\ blocks[b] \in BlockOf(Size(b))
      /\ blocks[b].next \in Blocks
  BY DEF Typed
<1>2. /\ blocks[b].front \in 0..(Size(b) - 1) /\ blocks[b].tail \in 0..(Size(b) - 1)
      /\ blocks[b].localFront \in 0..(Size(b) - 1) /\ blocks[b].localTail \in 0..(Size(b) - 1)
      /\ blocks[b].data \in [0..(Size(b) - 1) -> Nat]
  BY <1>1 DEF BlockOf
<1>3. Count(b) \in 0..(Size(b) - 1)
  <2>1. PICK s, x, y : s = Size(b) /\ x = blocks[b].front /\ y = blocks[b].tail
    OBVIOUS
  <2>2. s \in Nat /\ x \in 0..(s - 1) /\ y \in 0..(s - 1)
    BY <1>1, <1>2, <2>1
  <2>3. Dist(x, y, s) \in 0..(s - 1)
    BY <2>2 DEF Dist
  <2> QED
    BY <2>1, <2>3 DEF Count
<1>4. ASSUME NEW i \in 0..(Size(b) - 1)
      PROVE  /\ After(b, i) = IF i = Size(b) - 1 THEN 0 ELSE i + 1
             /\ After(b, i) \in 0..(Size(b) - 1)
  <2>1. PICK s \in Nat : s = Size(b) /\ s >= 2 /\ i \in 0..(s - 1)
    BY <1>1
  <2>2. (i + 1) % s = IF i = s - 1 THEN 0 ELSE i + 1
    BY <2>1, NextIs
  <2>3. After(b, i) = IF i = Size(b) - 1 THEN 0 ELSE i + 1
    BY <2>1, <2>2 DEF After
  <2> QED
    BY <1>1, <2>3
<1> QED
  BY <1>1, <1>2, <1>3, <1>4

(* A store to one block. *)
LEMMA Updated ==
  ASSUME Typed, NEW b \in Blocks, NEW r \in BlockOf(Size(b)), r.next = blocks[b].next,
         blocks' = [blocks EXCEPT ![b] = r]
  PROVE  /\ Len(blocks') = Len(blocks) /\ Blocks' = Blocks
         /\ blocks' = [c \in Blocks |-> blocks'[c]]
         /\ blocks'[b] = r /\ Size(b)' = Size(b)
         /\ \A c \in Blocks : blocks'[c].next = blocks[c].next /\ Size(c)' = Size(c)
         /\ \A c \in Blocks : c # b => blocks'[c] = blocks[c] /\ Count(c)' = Count(c)
         /\ \A c \in Blocks : blocks'[c] \in BlockOf(Size(c))
<1> DEFINE S == {blocks[c] : c \in Blocks} \cup {r}
<1>1. blocks \in Seq(S)
  <2>1. blocks \in [1..Len(blocks) -> S] /\ Len(blocks) \in Nat
    BY DEF Typed, Blocks
  <2> QED
    BY <2>1, SeqDef
<1>2. /\ Len(blocks') = Len(blocks)
      /\ \A c \in Blocks : blocks'[c] = IF c = b THEN r ELSE blocks[c]
  BY <1>1, ExceptSeq DEF Blocks
<1>3. Blocks' = Blocks /\ blocks' = [c \in Blocks |-> blocks'[c]]
  BY <1>2 DEF Blocks, Typed
<1>4. Size(b)' = Size(b)
  <2>1. DOMAIN r.data = DOMAIN blocks[b].data
    BY Block DEF BlockOf
  <2> QED
    BY <1>2, <2>1 DEF Size
<1>5. \A c \in Blocks : c # b => blocks'[c] = blocks[c] /\ Size(c)' = Size(c)
  BY <1>2 DEF Size
<1>6. \A c \in Blocks : c # b => Count(c)' = Count(c)
  BY <1>5 DEF Count
<1>7. \A c \in Blocks : blocks'[c] \in BlockOf(Size(c))
  BY <1>2, Block
<1> QED
  BY <1>2, <1>3, <1>4, <1>5, <1>6, <1>7

-----------------------------------------------------------------------------
(* What a step leaves as it was. *)

LEMMA TypedThreads ==
  ASSUME Typed
  PROVE  /\ writer \in Writers /\ writer.item \in Nat /\ reader \in Readers
         /\ reader.taken \in Nat /\ reader.got \in Nat /\ reader.started \in Nat
         /\ put \in Nat /\ writer.item = put + 1
BY DEF Typed, Writers, Readers

LEMMA LastIsBlock ==
  ASSUME Typed
  PROVE  LastBlock \in Blocks /\ Number \in Nat
<1>1. LastBlock \in Blocks
  BY Block DEF LastBlock, Typed
<1>2. Number \in Nat
  BY DEF Number, Typed
<1> QED
  BY <1>1, <1>2

(* The next block, unless it is the front block, comes next in the circle. *)
LEMMA NextRank ==
  ASSUME Typed, NEW rank, Circle(rank), NEW c \in Blocks
  PROVE  /\ rank[c] \in Nat /\ rank[c] < Len(blocks) /\ Len(blocks) \in Nat
         /\ rank[c] = 0 => c = frontBlock
         /\ blocks[c].next # frontBlock => rank[blocks[c].next] = rank[c] + 1
         /\ blocks[c].next = frontBlock => rank[c] = Len(blocks) - 1
<1>1. /\ Len(blocks) \in Nat /\ frontBlock \in Blocks /\ blocks[c].next \in Blocks
  BY Block DEF Typed
<1>2. rank[c] \in 0..(Len(blocks) - 1) /\ rank[frontBlock] = 0
  BY DEF Circle
<1>3. rank[blocks[c].next] = IF rank[c] = Len(blocks) - 1 THEN 0 ELSE rank[c] + 1
  BY DEF Circle
<1>4. \A d \in Blocks : rank[d] = 0 => d = frontBlock
  BY <1>1, <1>2 DEF Circle
<1> QED
  BY <1>1, <1>2, <1>3, <1>4

(* No store to a block. *)
LEMMA Quiet ==
  ASSUME blocks' = blocks
  PROVE  /\ Len(blocks') = Len(blocks) /\ Blocks' = Blocks
         /\ \A c \in Blocks : Size(c)' = Size(c) /\ Count(c)' = Count(c)
BY DEF Blocks, Size, Count

LEMMA CircleStays ==
  ASSUME Typed, NEW rank, Circle(rank),
         Len(blocks') = Len(blocks), frontBlock' = frontBlock,
         \A c \in Blocks : blocks'[c].next = blocks[c].next
  PROVE  Circle(rank)'
<1>1. Blocks' = Blocks
  BY DEF Blocks
<1> QED
  BY <1>1 DEF Circle

(* No item comes or goes. *)
LEMMA RingStays ==
  ASSUME Typed, NEW rank, NEW first, Ring(rank, first),
         Len(blocks') = Len(blocks), frontBlock' = frontBlock,
         \A c \in Blocks : /\ Size(c)' = Size(c) /\ blocks'[c].next = blocks[c].next
                           /\ blocks'[c].front = blocks[c].front /\ blocks'[c].tail = blocks[c].tail,
         \A c \in Blocks : \A j \in 0..(Count(c) - 1) :
           blocks'[c].data[Step(blocks[c].front, j, Size(c))] = blocks[c].data[Step(blocks[c].front, j, Size(c))],
         LastBlock' = LastBlock, Number' = Number, reader'.taken = reader.taken,
         reader'.pc = "front" <=> reader.pc = "front"
  PROVE  Ring(rank, first)'
<1>1. Blocks' = Blocks
  BY DEF Blocks
<1>2. \A c \in Blocks : Count(c)' = Count(c)
  BY DEF Count
<1>3. LastBlock \in Blocks /\ frontBlock \in Blocks /\ \A c \in Blocks : blocks[c].next \in Blocks
  BY LastIsBlock, Block DEF Typed
<1>4. Circle(rank)'
  BY CircleStays DEF Ring
<1>5. Filled(rank)'
  BY <1>1, <1>2, <1>3 DEF Ring, Filled
<1>6. Numbered(rank, first)'
  BY <1>1, <1>2, <1>3 DEF Ring, Numbered
<1>7. Holds(rank, first)'
  BY <1>1, <1>2, <1>3 DEF Ring, Holds
<1> QED
  BY <1>4, <1>5, <1>6, <1>7 DEF Ring

(* A step of the writer does not disturb the reader. *)
LEMMA ReaderStillKnows ==
  ASSUME Typed, ReaderKnows, InOrder,
         frontBlock' = frontBlock, reader' = reader, put' \in Nat, put' >= put,
         blocks'[frontBlock].front = blocks[frontBlock].front,
         blocks'[frontBlock].localTail = blocks[frontBlock].localTail,
         tailBlock' = frontBlock => tailBlock = frontBlock,
         tailBlock # frontBlock => Count(frontBlock)' = Count(frontBlock)
  PROVE  ReaderKnows' /\ InOrder'
<1>1. InOrder'
  BY DEF InOrder
<1>2. reader.started <= put'
  BY TypedThreads DEF ReaderKnows
<1>3. ReaderKnows'
  BY <1>2 DEF ReaderKnows
<1> QED
  BY <1>1, <1>3

(* A step of the reader does not disturb the writer. *)
LEMMA WriterStillKnows ==
  ASSUME Typed, WriterKnows,
         writer' = writer, tailBlock' = tailBlock,
         \A c \in Blocks : /\ Size(c)' = Size(c) /\ blocks'[c].next = blocks[c].next
                           /\ blocks'[c].tail = blocks[c].tail
                           /\ blocks'[c].localFront = blocks[c].localFront
                           /\ blocks'[c].data[blocks[c].tail] = blocks[c].data[blocks[c].tail]
                           /\ c # frontBlock => blocks'[c].front = blocks[c].front,
         writer.pc \in {"next", "publishNext", "advance"} => blocks[tailBlock].next # frontBlock'
  PROVE  WriterKnows'
<1>1. /\ tailBlock \in Blocks
      /\ blocks[tailBlock].next \in Blocks
  BY Block DEF Typed
<1>2. blocks[tailBlock].next # frontBlock => Count(blocks[tailBlock].next)' = Count(blocks[tailBlock].next)
  BY <1>1 DEF Count
<1>3. writer.pc \in {"construct", "publish"} =>
        After(tailBlock, blocks[tailBlock].tail)' # blocks'[tailBlock].localFront
  BY <1>1 DEF After, WriterKnows
<1> QED
  BY <1>1, <1>2, <1>3 DEF WriterKnows

(* Without a store to a block no shadow falls behind and no type changes,  *)
(* and the ring stays if no item comes or goes.                            *)
LEMMA QuietKeeps ==
  ASSUME IInv, blocks' = blocks, frontBlock' = frontBlock, largestBlockSize' = largestBlockSize,
         tailBlock' \in Blocks,
         LastBlock' = LastBlock, Number' = Number, reader'.taken = reader.taken,
         reader'.pc = "front" <=> reader.pc = "front"
  PROVE  /\ blocks' = [b \in Blocks' |-> blocks'[b]] /\ Len(blocks') \in Nat
         /\ \A b \in Blocks' : /\ Size(b)' \in Nat /\ Size(b)' >= 2
                               /\ blocks'[b] \in BlockOf(Size(b)') /\ blocks'[b].next \in Blocks'
         /\ frontBlock' \in Blocks' /\ tailBlock' \in Blocks'
         /\ largestBlockSize' \in Nat /\ largestBlockSize' >= 2
         /\ ShadowsLag' /\ HasRing'
<1>1. /\ Len(blocks') = Len(blocks) /\ Blocks' = Blocks
      /\ \A c \in Blocks : Size(c)' = Size(c) /\ Count(c)' = Count(c)
  BY Quiet
<1>2. ShadowsLag'
  BY <1>1 DEF IInv, ShadowsLag
<1>3. PICK rank, first : Ring(rank, first)
  BY DEF IInv, HasRing
<1>4. Ring(rank, first)'
  BY <1>1, <1>3, RingStays DEF IInv
<1>5. HasRing'
  BY <1>4 DEF HasRing
<1> QED
  BY <1>1, <1>2, <1>5 DEF IInv, Typed

LEMMA EnqueueKeeps ==
  ASSUME IInv, NEW mode \in {"CanAlloc", "CannotAlloc"}, Enqueue(mode)
  PROVE  IInv'
<1>1. /\ writer' = [writer EXCEPT !.pc = "room", !.mode = mode] /\ writer.pc = "idle"
      /\ writer.item <= Puts /\ blocks' = blocks
      /\ UNCHANGED <<frontBlock, tailBlock, largestBlockSize, reader, put>>
  BY DEF Enqueue
<1>2. /\ writer'.pc = "room" /\ writer'.item = writer.item
  BY <1>1 DEF IInv, Typed
<1>3. LastBlock' = LastBlock /\ Number' = Number /\ tailBlock' \in Blocks
  BY <1>1, <1>2 DEF LastBlock, Number, IInv, Typed
<1>4. ShadowsLag' /\ HasRing'
  BY <1>1, <1>3, QuietKeeps
<1>5. Typed'
  <2>1. writer' \in Writers
    BY <1>1, <1>2, TypedThreads DEF IInv, Writers
  <2> QED
    BY <1>1, <1>2, <1>3, <2>1, QuietKeeps DEF IInv, Typed
<1>6. WriterKnows'
  BY <1>1, <1>2 DEF WriterKnows
<1>7. ReaderKnows' /\ InOrder'
  BY <1>1, Quiet, ReaderStillKnows DEF IInv, Typed
<1> QED
  BY <1>4, <1>5, <1>6, <1>7 DEF IInv

LEMMA FullKeeps ==
  ASSUME IInv, Full
  PROVE  IInv'
<1>1. /\ writer.pc = "full" /\ blocks' = blocks
      /\ UNCHANGED <<frontBlock, tailBlock, largestBlockSize, reader>>
  BY DEF Full
<1>2. /\ writer'.pc \in {"next", "alloc", "idle"}
      /\ writer'.item = writer.item /\ put' = put
      /\ writer' = [writer EXCEPT !.pc = writer'.pc]
      /\ writer'.pc = "next" => NextIsFree
  BY TypedThreads DEF Full, WriterGoes, EnqueueReturns, IInv, Writers
<1>3. LastBlock' = LastBlock /\ Number' = Number /\ tailBlock' \in Blocks
  BY <1>1, <1>2 DEF LastBlock, Number, IInv, Typed
<1>4. ShadowsLag' /\ HasRing'
  BY <1>1, <1>3, QuietKeeps
<1>5. Typed'
  <2>1. writer' \in Writers
    BY <1>1, <1>2, TypedThreads DEF IInv, Writers
  <2> QED
    BY <1>1, <1>2, <1>3, <2>1, QuietKeeps DEF IInv, Typed
<1>6. WriterKnows'
  BY <1>1, <1>2 DEF WriterKnows, NextIsFree, IInv
<1>7. ReaderKnows' /\ InOrder'
  BY <1>1, <1>2, Quiet, ReaderStillKnows DEF IInv, Typed
<1> QED
  BY <1>4, <1>5, <1>6, <1>7 DEF IInv

LEMMA AllocFailsKeeps ==
  ASSUME IInv, AllocFails
  PROVE  IInv'
<1>1. /\ writer.pc = "alloc" /\ blocks' = blocks
      /\ UNCHANGED <<frontBlock, tailBlock, largestBlockSize, reader>>
  BY DEF AllocFails
<1>2. /\ writer'.pc = "idle" /\ writer'.item = writer.item /\ put' = put
      /\ writer' = [writer EXCEPT !.pc = writer'.pc]
  BY TypedThreads DEF AllocFails, EnqueueReturns, IInv, Writers
<1>3. LastBlock' = LastBlock /\ Number' = Number /\ tailBlock' \in Blocks
  BY <1>1, <1>2 DEF LastBlock, Number, IInv, Typed
<1>4. ShadowsLag' /\ HasRing'
  BY <1>1, <1>3, QuietKeeps
<1>5. Typed'
  <2>1. writer' \in Writers
    BY <1>1, <1>2, TypedThreads DEF IInv, Writers
  <2> QED
    BY <1>1, <1>2, <1>3, <2>1, QuietKeeps DEF IInv, Typed
<1>6. WriterKnows'
  BY <1>1, <1>2 DEF WriterKnows
<1>7. ReaderKnows' /\ InOrder'
  BY <1>1, <1>2, Quiet, ReaderStillKnows DEF IInv, Typed
<1> QED
  BY <1>4, <1>5, <1>6, <1>7 DEF IInv

(* The block that has the last item becomes the tail block. *)
LEMMA AdvanceKeeps ==
  ASSUME IInv, Advance
  PROVE  IInv'
<1>1. /\ writer.pc = "advance" /\ blocks' = blocks /\ tailBlock' = blocks[tailBlock].next
      /\ UNCHANGED <<frontBlock, largestBlockSize, reader>>
  BY DEF Advance
<1>2. /\ writer'.pc = "idle" /\ writer'.item = writer.item + 1 /\ put' = writer.item
      /\ writer'.mode = writer.mode
      /\ writer' = [writer EXCEPT !.pc = "idle", !.item = writer.item + 1]
  BY TypedThreads DEF Advance, EnqueueReturns, IInv, Writers
<1>3. LastBlock' = LastBlock /\ Number' = Number /\ tailBlock' \in Blocks
  BY <1>1, <1>2, Block DEF LastBlock, Number, IInv, Typed
<1>4. ShadowsLag' /\ HasRing'
  BY <1>1, <1>3, QuietKeeps
<1>5. Typed'
  <2>1. writer' \in Writers
    <3>1. PICK n \in Nat : n = writer.item + 1
      BY TypedThreads DEF IInv
    <3>2. writer' = [writer EXCEPT !.pc = "idle", !.item = n] /\ writer \in Writers
      BY <1>2, <3>1, TypedThreads DEF IInv
    <3> QED
      BY <3>2 DEF Writers
  <2>2. put' \in Nat /\ writer'.item = put' + 1
    BY <1>2 DEF IInv, Typed
  <2> QED
    BY <1>1, <1>3, <2>1, <2>2, QuietKeeps DEF IInv, Typed
<1>6. WriterKnows'
  BY <1>2 DEF WriterKnows
<1>7. ReaderKnows' /\ InOrder'
  <2>1. tailBlock' # frontBlock
    BY <1>1 DEF WriterKnows, IInv
  <2>2. put' \in Nat /\ put' >= put
    BY <1>2 DEF IInv, Typed
  <2> QED
    BY <1>1, <2>1, <2>2, Quiet, ReaderStillKnows DEF IInv, Typed
<1> QED
  BY <1>4, <1>5, <1>6, <1>7 DEF IInv

-----------------------------------------------------------------------------
(* Arithmetic of a block of s slots, whose indices are front f, tail t and *)
(* their shadows l, the localTail, and k, the localFront.                  *)

(* The slot at the tail has no item. *)
LEMMA TailIsFree ==
  ASSUME NEW s \in Nat, NEW f \in 0..(s - 1), NEW t \in 0..(s - 1), NEW j \in 0..(Dist(f, t, s) - 1)
  PROVE  Step(f, j, s) # t /\ Step(f, j, s) \in 0..(s - 1) /\ j \in 0..(s - 1)
<1>1. j \in 0..(s - 1) /\ j < Dist(f, t, s)
  BY DEF Dist
<1>2. Step(f, j, s) # t /\ Step(f, j, s) \in 0..(s - 1)
  BY <1>1 DEF Dist, Step
<1> QED
  BY <1>1, <1>2

(* The tail moves on to a slot that is not the shadow of front. *)
LEMMA TailMoves ==
  ASSUME NEW s \in Nat, s >= 2, NEW f \in 0..(s - 1), NEW t \in 0..(s - 1), NEW k \in 0..(s - 1),
         Dist(f, t, s) <= Dist(k, t, s),
         NEW u, u = (IF t = s - 1 THEN 0 ELSE t + 1), u # k
  PROVE  /\ Dist(f, u, s) = Dist(f, t, s) + 1
         /\ Dist(f, u, s) <= Dist(k, u, s)
         /\ Step(f, Dist(f, t, s), s) = t
BY DEF Dist, Step

(* The front moves on from a slot that is not the shadow of tail. *)
LEMMA FrontMoves ==
  ASSUME NEW s \in Nat, s >= 2, NEW f \in 0..(s - 1), NEW t \in 0..(s - 1),
         NEW l \in 0..(s - 1), NEW k \in 0..(s - 1),
         Dist(f, l, s) <= Dist(f, t, s), Dist(f, t, s) <= Dist(k, t, s), f # l,
         NEW g, g = IF f = s - 1 THEN 0 ELSE f + 1
  PROVE  /\ Dist(g, t, s) = Dist(f, t, s) - 1
         /\ Dist(g, l, s) <= Dist(g, t, s)
         /\ Dist(g, t, s) <= Dist(k, t, s)
         /\ \A j \in 0..(Dist(g, t, s) - 1) : j + 1 \in 0..(Dist(f, t, s) - 1) /\ Step(g, j, s) = Step(f, j + 1, s)
         /\ Step(f, 0, s) = f /\ Dist(f, t, s) > 0
<1>1. /\ Dist(g, t, s) = Dist(f, t, s) - 1 /\ Dist(f, t, s) > 0 /\ Step(f, 0, s) = f
      /\ Dist(g, l, s) <= Dist(g, t, s) /\ Dist(g, t, s) <= Dist(k, t, s)
  BY DEF Dist, Step
<1>2. ASSUME NEW j \in 0..(Dist(g, t, s) - 1)
      PROVE  j + 1 \in 0..(Dist(f, t, s) - 1) /\ Step(g, j, s) = Step(f, j + 1, s)
  <2>1. Dist(f, t, s) \in 0..(s - 1)
    BY DistIs
  <2>2. j \in Nat /\ j + 1 < Dist(f, t, s) /\ j + 1 < s
    BY <1>1, <2>1
  <2>3. Step(g, j, s) = Step(f, j + 1, s)
    BY <2>2 DEF Step
  <2> QED
    BY <2>1, <2>2, <2>3
<1> QED
  BY <1>1, <1>2

-----------------------------------------------------------------------------
(* Stores to one block. *)

LEMMA StoreTypes ==
  ASSUME Typed, NEW b \in Blocks, NEW r \in BlockOf(Size(b)), r.next = blocks[b].next,
         blocks' = [blocks EXCEPT ![b] = r],
         frontBlock' \in Blocks, tailBlock' = tailBlock, largestBlockSize' = largestBlockSize,
         writer' \in Writers, reader' \in Readers, put' \in Nat, writer'.item = put' + 1
  PROVE  Typed'
<1>1. /\ Len(blocks') = Len(blocks) /\ Blocks' = Blocks
      /\ blocks' = [c \in Blocks |-> blocks'[c]]
      /\ \A c \in Blocks : /\ blocks'[c].next = blocks[c].next /\ Size(c)' = Size(c)
                           /\ blocks'[c] \in BlockOf(Size(c))
  BY Updated
<1>2. \A c \in Blocks' : /\ Size(c)' \in Nat /\ Size(c)' >= 2
                         /\ blocks'[c] \in BlockOf(Size(c)')
                         /\ blocks'[c].next \in Blocks'
  <2>1. \A c \in Blocks : Size(c) \in Nat /\ Size(c) >= 2 /\ blocks[c].next \in Blocks
    BY Block
  <2> QED
    BY <1>1, <2>1
<1> QED
  BY <1>1, <1>2 DEF Typed

LEMMA StoreShadows ==
  ASSUME Typed, ShadowsLag, NEW b \in Blocks, NEW r \in BlockOf(Size(b)), r.next = blocks[b].next,
         blocks' = [blocks EXCEPT ![b] = r],
         Dist(r.front, r.localTail, Size(b)) <= Dist(r.front, r.tail, Size(b)),
         Dist(r.front, r.tail, Size(b)) <= Dist(r.localFront, r.tail, Size(b))
  PROVE  ShadowsLag'
<1>1. /\ Blocks' = Blocks /\ blocks'[b] = r
      /\ \A c \in Blocks : Size(c)' = Size(c)
      /\ \A c \in Blocks : c # b => blocks'[c] = blocks[c] /\ Count(c)' = Count(c)
  BY Updated
<1>2. Count(b)' = Dist(r.front, r.tail, Size(b))
  BY <1>1 DEF Count
<1> QED
  BY <1>1, <1>2 DEF ShadowsLag

(* A store that moves no index but a shadow, and no item. *)
LEMMA StoreStays ==
  ASSUME IInv, NEW b \in Blocks, NEW r \in BlockOf(Size(b)), r.next = blocks[b].next,
         blocks' = [blocks EXCEPT ![b] = r],
         r.front = blocks[b].front, r.tail = blocks[b].tail,
         \A i \in 0..(Size(b) - 1) : i # r.tail => r.data[i] = blocks[b].data[i],
         frontBlock' = frontBlock,
         LastBlock' = LastBlock, Number' = Number, reader'.taken = reader.taken,
         reader'.pc = "front" <=> reader.pc = "front"
  PROVE  HasRing'
<1>1. PICK rank, first : Ring(rank, first)
  BY DEF IInv, HasRing
<1>2. /\ Len(blocks') = Len(blocks) /\ blocks'[b] = r
      /\ \A c \in Blocks : blocks'[c].next = blocks[c].next /\ Size(c)' = Size(c)
      /\ \A c \in Blocks : c # b => blocks'[c] = blocks[c]
  BY Updated DEF IInv
<1>3. ASSUME NEW c \in Blocks, NEW j \in 0..(Count(c) - 1)
      PROVE  blocks'[c].data[Step(blocks[c].front, j, Size(c))] = blocks[c].data[Step(blocks[c].front, j, Size(c))]
  <2>1. CASE c # b
    BY <1>2, <2>1
  <2>2. CASE c = b
    <3>1. /\ Size(b) \in Nat /\ blocks[b].front \in 0..(Size(b) - 1) /\ blocks[b].tail \in 0..(Size(b) - 1)
          /\ j \in 0..(Dist(blocks[b].front, blocks[b].tail, Size(b)) - 1)
      BY <2>2, Block DEF IInv, Count
    <3>2. /\ Step(blocks[b].front, j, Size(b)) # blocks[b].tail
          /\ Step(blocks[b].front, j, Size(b)) \in 0..(Size(b) - 1)
      BY <3>1, TailIsFree
    <3> QED
      BY <1>2, <2>2, <3>2
  <2> QED
    BY <2>1, <2>2
<1>4. \A c \in Blocks : blocks'[c].front = blocks[c].front /\ blocks'[c].tail = blocks[c].tail
  BY <1>2
<1>5. Ring(rank, first)'
  BY <1>1, <1>2, <1>3, <1>4, RingStays DEF IInv
<1> QED
  BY <1>5 DEF HasRing

(* A store to a field of a block. *)
LEMMA LocalFrontSet ==
  ASSUME NEW s, NEW q \in BlockOf(s), NEW x \in 0..(s - 1)
  PROVE  LET r == [q EXCEPT !.localFront = x] IN
         /\ r \in BlockOf(s) /\ r.next = q.next /\ r.localFront = x
         /\ r.front = q.front /\ r.localTail = q.localTail /\ r.tail = q.tail /\ r.data = q.data
BY DEF BlockOf

LEMMA LocalTailSet ==
  ASSUME NEW s, NEW q \in BlockOf(s), NEW x \in 0..(s - 1)
  PROVE  LET r == [q EXCEPT !.localTail = x] IN
         /\ r \in BlockOf(s) /\ r.next = q.next /\ r.localTail = x
         /\ r.front = q.front /\ r.tail = q.tail /\ r.localFront = q.localFront /\ r.data = q.data
BY DEF BlockOf

LEMMA TailSet ==
  ASSUME NEW s, NEW q \in BlockOf(s), NEW x \in 0..(s - 1)
  PROVE  LET r == [q EXCEPT !.tail = x] IN
         /\ r \in BlockOf(s) /\ r.next = q.next /\ r.tail = x
         /\ r.front = q.front /\ r.localTail = q.localTail /\ r.localFront = q.localFront /\ r.data = q.data
BY DEF BlockOf

LEMMA FrontSet ==
  ASSUME NEW s, NEW q \in BlockOf(s), NEW x \in 0..(s - 1)
  PROVE  LET r == [q EXCEPT !.front = x] IN
         /\ r \in BlockOf(s) /\ r.next = q.next /\ r.front = x
         /\ r.localTail = q.localTail /\ r.tail = q.tail /\ r.localFront = q.localFront /\ r.data = q.data
BY DEF BlockOf

LEMMA DataSet ==
  ASSUME NEW s, NEW q \in BlockOf(s), NEW i \in 0..(s - 1), NEW x \in Nat
  PROVE  LET r == [q EXCEPT !.data[i] = x] IN
         /\ r \in BlockOf(s) /\ r.next = q.next
         /\ r.front = q.front /\ r.localTail = q.localTail /\ r.tail = q.tail /\ r.localFront = q.localFront
         /\ r.data[i] = x /\ \A j \in 0..(s - 1) : j # i => r.data[j] = q.data[j]
BY DEF BlockOf

LEMMA ShadowIs ==
  ASSUME Typed, ShadowsLag, NEW b \in Blocks
  PROVE  /\ Dist(blocks[b].front, blocks[b].localTail, Size(b)) \in Nat
         /\ Dist(blocks[b].front, blocks[b].localTail, Size(b)) <= Count(b)
         /\ blocks[b].front # blocks[b].localTail => Count(b) > 0
<1>1. PICK s, f, l :
        /\ s = Size(b) /\ f = blocks[b].front /\ l = blocks[b].localTail
        /\ s \in Nat /\ f \in 0..(s - 1) /\ l \in 0..(s - 1)
  BY Block
<1>2. Dist(f, l, s) <= Count(b) /\ Count(b) \in Nat
  BY <1>1, Block DEF ShadowsLag
<1>3. Dist(f, l, s) \in Nat /\ (f # l => Dist(f, l, s) > 0)
  BY <1>1 DEF Dist
<1> QED
  BY <1>1, <1>2, <1>3

(* There is an item if the shadow says so. *)
LEMMA FrontHasItem ==
  ASSUME Typed, ShadowsLag, ReaderKnows
  PROVE  reader.pc \in {"take", "front"} => Count(frontBlock) > 0
BY ShadowIs DEF ReaderKnows, Typed

LEMMA RoomKeeps ==
  ASSUME IInv, Room
  PROVE  IInv'
<1>0. PICK b \in Blocks : b = tailBlock
  BY DEF IInv, Typed
<1> DEFINE r == [blocks[b] EXCEPT !.localFront = blocks[b].front]
<1>1. /\ writer.pc = "room" /\ writer.item <= Puts
      /\ UNCHANGED <<frontBlock, tailBlock, largestBlockSize, reader, put>>
  BY DEF Room, IInv, WriterKnows
<1>2. /\ writer'.pc \in {"construct", "full"} /\ writer'.item = writer.item
      /\ writer' = [writer EXCEPT !.pc = writer'.pc] /\ writer' \in Writers
  BY TypedThreads DEF Room, WriterGoes, IInv, Writers
<1>3. \/ /\ blocks' = blocks
         /\ writer'.pc = "construct" => After(b, blocks[b].tail) # blocks[b].localFront
      \/ /\ blocks' = [blocks EXCEPT ![b] = r]
         /\ writer'.pc = "construct" => After(b, blocks[b].tail) # blocks[b].front
  BY <1>0, TypedThreads DEF Room, WriterGoes, IInv, Writers
<1>4. LastBlock' = LastBlock /\ Number' = Number /\ tailBlock' \in Blocks
  <2>1. LastBlock' = LastBlock /\ Number' = Number
    BY <1>1, <1>2 DEF LastBlock, Number
  <2> QED
    BY <1>1, <2>1 DEF IInv, Typed
<1>5. CASE /\ blocks' = blocks
           /\ writer'.pc = "construct" => After(b, blocks[b].tail) # blocks[b].localFront
  <2>1. ShadowsLag' /\ HasRing'
    BY <1>1, <1>4, <1>5, QuietKeeps
  <2>2. Typed'
    BY <1>1, <1>2, <1>4, <1>5, QuietKeeps DEF IInv, Typed
  <2>3. WriterKnows'
    <3>1. writer'.pc = "construct" => After(tailBlock, blocks[tailBlock].tail)' # blocks'[tailBlock'].localFront
      BY <1>0, <1>1, <1>5 DEF After, Size
    <3> QED
      BY <1>1, <1>2, <3>1 DEF WriterKnows
  <2>4. ReaderKnows' /\ InOrder'
    BY <1>1, <1>5, Quiet, ReaderStillKnows DEF IInv, Typed
  <2> QED
    BY <2>1, <2>2, <2>3, <2>4 DEF IInv
<1>6. CASE /\ blocks' = [blocks EXCEPT ![b] = r]
           /\ writer'.pc = "construct" => After(b, blocks[b].tail) # blocks[b].front
  <2>1. b \in Blocks /\ r \in BlockOf(Size(b)) /\ r.next = blocks[b].next
    BY Block, LocalFrontSet DEF IInv
  <2>2. /\ r.front = blocks[b].front /\ r.tail = blocks[b].tail /\ r.data = blocks[b].data
        /\ r.localFront = blocks[b].front /\ r.localTail = blocks[b].localTail
    BY Block, LocalFrontSet DEF IInv
  <2>3. HasRing'
    BY <1>1, <1>2, <1>4, <1>6, <2>1, <2>2, StoreStays
  <2>4. Typed'
    BY <1>1, <1>2, <1>6, <2>1, TypedThreads, StoreTypes DEF IInv, Typed
  <2>5. ShadowsLag'
    <3>1. /\ Dist(r.front, r.localTail, Size(b)) <= Dist(r.front, r.tail, Size(b))
          /\ Dist(r.front, r.tail, Size(b)) <= Dist(r.localFront, r.tail, Size(b))
      BY <2>1, <2>2, Block DEF IInv, ShadowsLag, Count
    <3> QED
      BY <1>6, <2>1, <3>1, StoreShadows DEF IInv
  <2>6. blocks'[b] = r /\ Size(b)' = Size(b) /\ \A c \in Blocks : c # b => blocks'[c] = blocks[c] /\ Count(c)' = Count(c)
    BY <1>6, <2>1, Updated DEF IInv
  <2>7. WriterKnows'
    <3>1. writer'.pc = "construct" => After(tailBlock, blocks[tailBlock].tail)' # blocks'[tailBlock'].localFront
      <4>1. blocks'[tailBlock'] = r /\ Size(tailBlock)' = Size(b) /\ tailBlock' = tailBlock
        BY <1>0, <1>1, <2>6
      <4>2. After(tailBlock, blocks[tailBlock].tail)' = After(b, blocks[b].tail)
        BY <2>2, <4>1 DEF After
      <4> QED
        BY <1>6, <2>2, <4>1, <4>2
    <3> QED
      BY <1>1, <1>2, <3>1 DEF WriterKnows
  <2>8. ReaderKnows' /\ InOrder'
    <3>1. /\ blocks'[frontBlock].front = blocks[frontBlock].front
          /\ blocks'[frontBlock].localTail = blocks[frontBlock].localTail
          /\ frontBlock # b => Count(frontBlock)' = Count(frontBlock)
      BY <1>0, <1>1, <2>2, <2>6 DEF IInv, Typed
    <3> QED
      BY <1>0, <1>1, <3>1, TypedThreads, ReaderStillKnows DEF IInv
  <2> QED
    BY <2>3, <2>4, <2>5, <2>7, <2>8 DEF IInv
<1> QED
  BY <1>3, <1>5, <1>6

LEMMA ConstructHereKeeps ==
  ASSUME IInv, ConstructHere
  PROVE  IInv'
<1>0. PICK b \in Blocks : b = tailBlock
  BY DEF IInv, Typed
<1> DEFINE r == [blocks[b] EXCEPT !.data[blocks[b].tail] = writer.item]
<1>1. /\ writer.pc = "construct" /\ writer.item <= Puts
      /\ After(b, blocks[b].tail) # blocks[b].localFront
      /\ UNCHANGED <<frontBlock, tailBlock, largestBlockSize, reader, put>>
  BY <1>0 DEF ConstructHere, IInv, WriterKnows
<1>2. /\ writer'.pc = "publish" /\ writer'.item = writer.item /\ writer' \in Writers
  BY TypedThreads DEF ConstructHere, WriterGoes, IInv, Writers
<1>3. blocks' = [blocks EXCEPT ![b] = r]
  BY <1>0 DEF ConstructHere, Construct
<1>4. /\ r \in BlockOf(Size(b)) /\ r.next = blocks[b].next
      /\ r.front = blocks[b].front /\ r.tail = blocks[b].tail
      /\ r.localFront = blocks[b].localFront /\ r.localTail = blocks[b].localTail
      /\ r.data[blocks[b].tail] = writer.item
      /\ \A i \in 0..(Size(b) - 1) : i # blocks[b].tail => r.data[i] = blocks[b].data[i]
  <2>1. PICK s, q, i, x :
          /\ s = Size(b) /\ q = blocks[b] /\ i = blocks[b].tail /\ x = writer.item /\ x \in Nat
          /\ q \in BlockOf(s) /\ i \in 0..(s - 1)
    BY Block, TypedThreads DEF IInv
  <2>2. r = [q EXCEPT !.data[i] = x]
    BY <2>1
  <2> HIDE DEF r
  <2> QED
    BY <2>1, <2>2, DataSet
<1>5. /\ r.data[r.tail] = writer.item
      /\ \A i \in 0..(Size(b) - 1) : i # r.tail => r.data[i] = blocks[b].data[i]
  BY <1>4
<1> HIDE DEF r
<1>6. LastBlock' = LastBlock /\ Number' = Number
  BY <1>1, <1>2 DEF LastBlock, Number
<1>7. HasRing'
  BY <1>1, <1>3, <1>4, <1>5, <1>6, StoreStays
<1>8. Typed'
  BY <1>1, <1>2, <1>3, <1>4, TypedThreads, StoreTypes DEF IInv, Typed
<1>9. ShadowsLag'
  <2>1. /\ Dist(r.front, r.localTail, Size(b)) <= Dist(r.front, r.tail, Size(b))
        /\ Dist(r.front, r.tail, Size(b)) <= Dist(r.localFront, r.tail, Size(b))
    BY <1>4 DEF IInv, ShadowsLag, Count
  <2> QED
    BY <1>3, <1>4, <2>1, StoreShadows DEF IInv
<1>10. blocks'[b] = r /\ Size(b)' = Size(b) /\ \A c \in Blocks : c # b => blocks'[c] = blocks[c] /\ Count(c)' = Count(c)
  BY <1>3, <1>4, Updated DEF IInv
<1>11. WriterKnows'
  <2>1. blocks'[tailBlock'] = r /\ Size(tailBlock)' = Size(b)
    BY <1>0, <1>1, <1>10
  <2>2. After(tailBlock, blocks[tailBlock].tail)' = After(b, blocks[b].tail)
    BY <1>4, <2>1 DEF After
  <2> QED
    BY <1>1, <1>2, <1>4, <1>5, <2>1, <2>2 DEF WriterKnows
<1>12. ReaderKnows' /\ InOrder'
  <2>1. /\ blocks'[frontBlock].front = blocks[frontBlock].front
        /\ blocks'[frontBlock].localTail = blocks[frontBlock].localTail
        /\ frontBlock # b => Count(frontBlock)' = Count(frontBlock)
    BY <1>1, <1>4, <1>10 DEF IInv, Typed
  <2> QED
    BY <1>0, <1>1, <2>1, TypedThreads, ReaderStillKnows DEF IInv
<1> QED
  BY <1>7, <1>8, <1>9, <1>11, <1>12 DEF IInv

(* The item is in the queue: the tail block has one more. *)
LEMMA PublishKeeps ==
  ASSUME IInv, Publish
  PROVE  IInv'
<1>0. PICK b \in Blocks : b = tailBlock
  BY DEF IInv, Typed
<1> DEFINE u == After(b, blocks[b].tail)
           r == [blocks[b] EXCEPT !.tail = u]
<1>1. /\ writer.pc = "publish" /\ u # blocks[b].localFront /\ blocks[b].data[blocks[b].tail] = writer.item
      /\ UNCHANGED <<frontBlock, tailBlock, largestBlockSize, reader>>
  BY <1>0 DEF Publish, IInv, WriterKnows
<1>2. /\ writer'.pc = "idle" /\ writer'.item = writer.item + 1 /\ writer' \in Writers
      /\ put' = writer.item /\ put' \in Nat /\ put' >= put /\ writer'.item = put' + 1
  <2>1. PICK n \in Nat : n = writer.item + 1
    BY TypedThreads DEF IInv
  <2>2. /\ writer' = [writer EXCEPT !.pc = "idle", !.item = n] /\ put' = writer.item
        /\ writer \in Writers
    BY <2>1, TypedThreads DEF Publish, EnqueueReturns, IInv, Writers
  <2>3. writer'.pc = "idle" /\ writer'.item = n /\ writer' \in Writers
    BY <2>2 DEF Writers
  <2> QED
    BY <2>1, <2>2, <2>3, TypedThreads DEF IInv
<1>3. blocks' = [blocks EXCEPT ![b] = r]
  BY <1>0 DEF Publish
<1>4. r \in BlockOf(Size(b)) /\ r.next = blocks[b].next
  BY Block, TailSet DEF IInv
<1>5. /\ r.front = blocks[b].front /\ r.tail = u
      /\ r.localFront = blocks[b].localFront /\ r.localTail = blocks[b].localTail
      /\ r.data = blocks[b].data
  BY Block, TailSet DEF IInv
<1>6. /\ Dist(r.front, u, Size(b)) = Count(b) + 1
      /\ Dist(r.front, u, Size(b)) <= Dist(r.localFront, u, Size(b))
      /\ Step(blocks[b].front, Count(b), Size(b)) = blocks[b].tail
      /\ Count(b) \in Nat
  <2>1. /\ Size(b) \in Nat /\ Size(b) >= 2
        /\ blocks[b].front \in 0..(Size(b) - 1) /\ blocks[b].tail \in 0..(Size(b) - 1)
        /\ blocks[b].localFront \in 0..(Size(b) - 1)
        /\ u = (IF blocks[b].tail = Size(b) - 1 THEN 0 ELSE blocks[b].tail + 1)
        /\ Count(b) \in Nat
    <3>1. /\ Size(b) \in Nat /\ Size(b) >= 2
          /\ blocks[b].front \in 0..(Size(b) - 1) /\ blocks[b].tail \in 0..(Size(b) - 1)
          /\ blocks[b].localFront \in 0..(Size(b) - 1)
      BY Block DEF IInv
    <3>2. Count(b) \in Nat
      <4>1. Count(b) \in 0..(Size(b) - 1)
        BY Block DEF IInv
      <4> QED
        BY <4>1
    <3>3. \A i \in 0..(Size(b) - 1) : After(b, i) = IF i = Size(b) - 1 THEN 0 ELSE i + 1
      BY Block DEF IInv
    <3> QED
      BY <3>1, <3>2, <3>3
  <2>2. Dist(blocks[b].front, blocks[b].tail, Size(b)) <= Dist(blocks[b].localFront, blocks[b].tail, Size(b))
    BY DEF IInv, ShadowsLag, Count
  <2> HIDE DEF u
  <2>3. PICK z, f, x, k : /\ z = Size(b) /\ f = blocks[b].front
                          /\ x = blocks[b].tail /\ k = blocks[b].localFront
    OBVIOUS
  <2>4. /\ z \in Nat /\ z >= 2 /\ f \in 0..(z - 1) /\ x \in 0..(z - 1) /\ k \in 0..(z - 1)
        /\ Dist(f, x, z) <= Dist(k, x, z) /\ u = (IF x = z - 1 THEN 0 ELSE x + 1) /\ u # k
    BY <1>1, <2>1, <2>2, <2>3
  <2>5. /\ Dist(f, u, z) = Dist(f, x, z) + 1
        /\ Dist(f, u, z) <= Dist(k, u, z)
        /\ Step(f, Dist(f, x, z), z) = x
    BY <2>4, TailMoves
  <2> QED
    BY <1>5, <2>1, <2>3, <2>5 DEF Count
<1> HIDE DEF u, r
<1>7. Typed'
  BY <1>1, <1>2, <1>3, <1>4, TypedThreads, StoreTypes DEF IInv, Typed
<1>8. ShadowsLag'
  <2>1. Dist(r.front, r.localTail, Size(b)) <= Count(b) /\ Dist(r.front, r.localTail, Size(b)) \in Nat
    BY <1>5, ShadowIs DEF IInv
  <2>2. /\ Dist(r.front, r.localTail, Size(b)) <= Dist(r.front, r.tail, Size(b))
        /\ Dist(r.front, r.tail, Size(b)) <= Dist(r.localFront, r.tail, Size(b))
    BY <1>5, <1>6, <2>1
  <2> QED
    BY <1>3, <1>4, <2>2, StoreShadows DEF IInv
<1>9. /\ Blocks' = Blocks /\ Len(blocks') = Len(blocks)
      /\ blocks'[b] = r /\ Size(b)' = Size(b) /\ Count(b)' = Count(b) + 1
      /\ \A c \in Blocks : blocks'[c].next = blocks[c].next /\ Size(c)' = Size(c)
      /\ \A c \in Blocks : c # b => blocks'[c] = blocks[c] /\ Count(c)' = Count(c)
  <2>1. /\ Blocks' = Blocks /\ Len(blocks') = Len(blocks)
        /\ blocks'[b] = r /\ Size(b)' = Size(b)
        /\ \A c \in Blocks : blocks'[c].next = blocks[c].next /\ Size(c)' = Size(c)
        /\ \A c \in Blocks : c # b => blocks'[c] = blocks[c] /\ Count(c)' = Count(c)
    BY <1>3, <1>4, Updated DEF IInv
  <2>2. Count(b)' = Count(b) + 1
    BY <1>5, <1>6, <2>1 DEF Count
  <2> QED
    BY <2>1, <2>2
<1>10. WriterKnows'
  BY <1>2 DEF WriterKnows
<1>11. ReaderKnows' /\ InOrder'
  <2>1. /\ blocks'[frontBlock].front = blocks[frontBlock].front
        /\ blocks'[frontBlock].localTail = blocks[frontBlock].localTail
        /\ frontBlock # b => Count(frontBlock)' = Count(frontBlock)
    BY <1>1, <1>5, <1>9 DEF IInv, Typed
  <2> QED
    BY <1>0, <1>1, <1>2, <2>1, ReaderStillKnows DEF IInv

<1>12. PICK rank, first : Ring(rank, first)
  BY DEF IInv, HasRing
<1>13. LastBlock = b /\ LastBlock' = b /\ Number = writer.item - 1 /\ Number' = writer.item
  BY <1>0, <1>1, <1>2, TypedThreads DEF LastBlock, Number, IInv
<1>14. reader.pc = "front" /\ b = frontBlock => Count(b) > 0
  BY FrontHasItem DEF IInv
<1>15. Circle(rank)'
  BY <1>1, <1>9, <1>12, CircleStays DEF IInv, Ring
<1>16. Filled(rank)'
  <2>1. ASSUME NEW c \in Blocks
        PROVE  IF rank[c] > rank[b] THEN Count(c)' = 0 ELSE rank[c] > 0 => Count(c)' > 0
    <3>1. CASE c = b
      <4>1. rank[b] \in Nat
        BY <1>12 DEF Ring, Circle, IInv, Typed
      <4> QED
        BY <1>6, <1>9, <3>1, <4>1
    <3>2. CASE c # b
      BY <1>9, <1>12, <1>13, <3>2 DEF Ring, Filled
    <3> QED
      BY <3>1, <3>2
  <2> QED
    BY <1>9, <1>13, <2>1 DEF Filled
<1>17. Numbered(rank, first)'
  <2>1. first[b] \in Nat /\ first[b] + Count(b) = writer.item
    BY <1>12, <1>13, TypedThreads DEF IInv, Ring, Numbered
  <2>2. first[b] + Count(b)' = Number' + 1
    BY <1>6, <1>9, <1>13, <2>1
  <2>3. \A c \in Blocks : rank[c] < rank[b] => c # b
    BY <1>12 DEF Ring, Circle
  <2> QED
    BY <1>1, <1>9, <1>12, <1>13, <2>2, <2>3 DEF Ring, Numbered
<1>18. Holds(rank, first)'
  <2> SUFFICES ASSUME NEW c \in Blocks, rank[c] <= rank[b], NEW j \in 0..(Count(c)' - 1)
               PROVE  blocks'[c].data[Step(blocks'[c].front, j, Size(c)')]
                        = IF c = frontBlock /\ j = 0 /\ reader.pc = "front" THEN None ELSE first[c] + j
    BY <1>1, <1>9, <1>13 DEF Holds
  <2>1. CASE c # b \/ j < Count(b)
    <3>1. j \in 0..(Count(c) - 1)
      BY <1>6, <1>9, <2>1
    <3>2. blocks[c].data[Step(blocks[c].front, j, Size(c))]
            = IF c = frontBlock /\ j = 0 /\ reader.pc = "front" THEN None ELSE first[c] + j
      BY <1>12, <1>13, <3>1 DEF Ring, Holds
    <3> QED
      BY <1>5, <1>9, <3>2
  <2>2. CASE c = b /\ j = Count(b)
    <3>1. first[b] + j = writer.item
      BY <1>12, <1>13, <2>2, TypedThreads DEF IInv, Ring, Numbered
    <3> QED
      BY <1>1, <1>5, <1>6, <1>9, <1>14, <2>2, <3>1
  <2> QED
    BY <1>6, <1>9, <2>1, <2>2
<1>19. HasRing'
  BY <1>15, <1>16, <1>17, <1>18 DEF Ring, HasRing
<1> QED
  BY <1>7, <1>8, <1>10, <1>11, <1>19 DEF IInv

LEMMA ConstructNextKeeps ==
  ASSUME IInv, ConstructNext
  PROVE  IInv'
<1>0. PICK b \in Blocks : b = blocks[tailBlock].next
  BY Block DEF IInv, Typed
<1> DEFINE r == [blocks[b] EXCEPT !.localFront = blocks[b].front, !.data[blocks[b].tail] = writer.item]
<1>1. /\ writer.pc = "next" /\ writer.item <= Puts /\ b # frontBlock
      /\ UNCHANGED <<frontBlock, tailBlock, largestBlockSize, reader, put>>
  BY <1>0 DEF ConstructNext, IInv, WriterKnows
<1>2. /\ writer'.pc = "publishNext" /\ writer'.item = writer.item /\ writer' \in Writers
  BY TypedThreads DEF ConstructNext, WriterGoes, IInv, Writers
<1>3. blocks' = [blocks EXCEPT ![b] = r]
  BY <1>0 DEF ConstructNext
<1>4. /\ r \in BlockOf(Size(b)) /\ r.next = blocks[b].next
      /\ r.front = blocks[b].front /\ r.tail = blocks[b].tail
      /\ r.localFront = blocks[b].front /\ r.localTail = blocks[b].localTail
      /\ r.data[blocks[b].tail] = writer.item
      /\ \A i \in 0..(Size(b) - 1) : i # blocks[b].tail => r.data[i] = blocks[b].data[i]
  <2>1. PICK s, q, f, i, x :
          /\ s = Size(b) /\ q = blocks[b] /\ f = q.front /\ i = q.tail /\ x = writer.item /\ x \in Nat
          /\ q \in BlockOf(s) /\ f \in 0..(s - 1) /\ i \in 0..(s - 1)
    BY Block, TypedThreads DEF IInv
  <2>2. PICK p : p = [q EXCEPT !.localFront = f]
    OBVIOUS
  <2>3. r = [p EXCEPT !.data[i] = x]
    BY <2>1, <2>2
  <2> HIDE DEF r
  <2>4. /\ p \in BlockOf(s) /\ p.next = q.next /\ p.localFront = f
        /\ p.front = q.front /\ p.localTail = q.localTail /\ p.tail = q.tail /\ p.data = q.data
    BY <2>1, <2>2, LocalFrontSet
  <2>5. /\ r \in BlockOf(s) /\ r.next = p.next
        /\ r.front = p.front /\ r.localTail = p.localTail /\ r.tail = p.tail /\ r.localFront = p.localFront
        /\ r.data[i] = x /\ \A j \in 0..(s - 1) : j # i => r.data[j] = p.data[j]
    BY <2>1, <2>3, <2>4, DataSet
  <2> QED
    BY <2>1, <2>4, <2>5
<1> HIDE DEF r
<1>5. LastBlock' = LastBlock /\ Number' = Number
  BY <1>1, <1>2 DEF LastBlock, Number
<1>6. HasRing'
  BY <1>1, <1>3, <1>4, <1>5, StoreStays
<1>7. Typed'
  BY <1>1, <1>2, <1>3, <1>4, TypedThreads, StoreTypes DEF IInv, Typed
<1>8. ShadowsLag'
  <2>1. /\ Dist(r.front, r.localTail, Size(b)) <= Dist(r.front, r.tail, Size(b))
        /\ Dist(r.front, r.tail, Size(b)) <= Dist(r.localFront, r.tail, Size(b))
    BY <1>4, Block DEF IInv, ShadowsLag, Count
  <2> QED
    BY <1>3, <1>4, <2>1, StoreShadows DEF IInv
<1>9. /\ blocks'[b] = r /\ blocks'[tailBlock].next = b
      /\ \A c \in Blocks : c # b => blocks'[c] = blocks[c] /\ Count(c)' = Count(c)
  BY <1>0, <1>3, <1>4, Updated DEF IInv, Typed
<1>10. WriterKnows'
  BY <1>1, <1>2, <1>4, <1>9 DEF WriterKnows
<1>11. ReaderKnows' /\ InOrder'
  <2>1. /\ blocks'[frontBlock].front = blocks[frontBlock].front
        /\ blocks'[frontBlock].localTail = blocks[frontBlock].localTail
        /\ Count(frontBlock)' = Count(frontBlock)
    BY <1>1, <1>9 DEF IInv, Typed
  <2> QED
    BY <1>1, <2>1, TypedThreads, ReaderStillKnows DEF IInv
<1> QED
  BY <1>6, <1>7, <1>8, <1>10, <1>11 DEF IInv

(* The item is in the queue: it is the first of the next block. *)
LEMMA PublishNextKeeps ==
  ASSUME IInv, PublishNext
  PROVE  IInv'
<1>0. PICK b \in Blocks, t \in Blocks : t = tailBlock /\ b = blocks[t].next
  BY Block DEF IInv, Typed
<1> DEFINE u == After(b, blocks[b].tail)
           r == [blocks[b] EXCEPT !.tail = u]
<1>1. /\ writer.pc = "publishNext" /\ writer.item <= Puts /\ b # frontBlock
      /\ blocks[b].data[blocks[b].tail] = writer.item /\ blocks[b].localFront = blocks[b].front
      /\ UNCHANGED <<frontBlock, tailBlock, largestBlockSize, reader, put>>
  BY <1>0 DEF PublishNext, IInv, WriterKnows
<1>2. /\ writer'.pc = "advance" /\ writer'.item = writer.item /\ writer' \in Writers
  BY TypedThreads DEF PublishNext, WriterGoes, IInv, Writers
<1>3. blocks' = [blocks EXCEPT ![b] = r]
  BY <1>0 DEF PublishNext
<1>4. /\ r \in BlockOf(Size(b)) /\ r.next = blocks[b].next
      /\ r.front = blocks[b].front /\ r.tail = u
      /\ r.localFront = blocks[b].front /\ r.localTail = blocks[b].localTail
      /\ r.data = blocks[b].data
  BY <1>1, Block, TailSet DEF IInv
<1>5. PICK rank, first : Ring(rank, first)
  BY DEF IInv, HasRing
<1>6. /\ rank[b] = rank[t] + 1 /\ rank \in [Blocks -> Nat]
      /\ \A c \in Blocks : rank[c] <= rank[b] => c = b \/ rank[c] <= rank[t]
  <2>1. \A c \in Blocks : rank[c] \in Nat
    BY <1>5, NextRank DEF IInv, Ring
  <2>2. rank[b] = rank[t] + 1
    BY <1>0, <1>1, <1>5, NextRank DEF IInv, Ring
  <2>3. \A c \in Blocks : rank[c] = rank[b] => c = b
    BY <1>5 DEF Ring, Circle
  <2>4. rank \in [Blocks -> Nat]
    BY <1>5, <2>1 DEF Ring, Circle
  <2> QED
    BY <2>1, <2>2, <2>3, <2>4
<1>7. LastBlock = t /\ LastBlock' = b /\ Number = writer.item - 1 /\ Number' = writer.item /\ writer.item \in Nat
  <2>1. blocks'[tailBlock'].next = b
    BY <1>0, <1>1, <1>3, <1>4, Updated DEF IInv
  <2> QED
    BY <1>0, <1>1, <1>2, <2>1, TypedThreads DEF LastBlock, Number, IInv
<1>8. Count(b) = 0 /\ blocks[b].front = blocks[b].tail
  <2>1. Count(b) = 0
    BY <1>5, <1>6, <1>7 DEF Ring, Filled
  <2>2. PICK s, x, y : /\ s = Size(b) /\ x = blocks[b].front /\ y = blocks[b].tail
                       /\ s \in Nat /\ x \in 0..(s - 1) /\ y \in 0..(s - 1)
    BY Block DEF IInv
  <2>3. Dist(x, y, s) = 0 => x = y
    BY <2>2 DEF Dist
  <2> QED
    BY <2>1, <2>2, <2>3 DEF Count
<1>9. Dist(r.front, u, Size(b)) = 1 /\ Step(blocks[b].front, 0, Size(b)) = blocks[b].front
  <2>1. PICK s, x : /\ s = Size(b) /\ x = blocks[b].front /\ s \in Nat /\ s >= 2 /\ x \in 0..(s - 1)
                    /\ u = IF x = s - 1 THEN 0 ELSE x + 1
    BY <1>8, Block DEF IInv
  <2>2. Dist(x, IF x = s - 1 THEN 0 ELSE x + 1, s) = 1 /\ Step(x, 0, s) = x
    BY <2>1 DEF Dist, Step
  <2> QED
    BY <1>4, <2>1, <2>2
<1> HIDE DEF u, r
<1>10. Typed'
  BY <1>1, <1>2, <1>3, <1>4, TypedThreads, StoreTypes DEF IInv, Typed
<1>11. ShadowsLag'
  <2>1. Dist(r.front, r.localTail, Size(b)) <= Count(b) /\ Dist(r.front, r.localTail, Size(b)) \in Nat
    BY <1>4, ShadowIs DEF IInv
  <2>2. /\ Dist(r.front, r.localTail, Size(b)) <= Dist(r.front, r.tail, Size(b))
        /\ Dist(r.front, r.tail, Size(b)) <= Dist(r.localFront, r.tail, Size(b))
    BY <1>4, <1>8, <1>9, <2>1
  <2> QED
    BY <1>3, <1>4, <2>2, StoreShadows DEF IInv
<1>12. /\ Blocks' = Blocks /\ Len(blocks') = Len(blocks)
       /\ blocks'[b] = r /\ Size(b)' = Size(b) /\ Count(b)' = 1
       /\ \A c \in Blocks : blocks'[c].next = blocks[c].next /\ Size(c)' = Size(c)
       /\ \A c \in Blocks : c # b => blocks'[c] = blocks[c] /\ Count(c)' = Count(c)
  <2>1. /\ Blocks' = Blocks /\ Len(blocks') = Len(blocks)
        /\ blocks'[b] = r /\ Size(b)' = Size(b)
        /\ \A c \in Blocks : blocks'[c].next = blocks[c].next /\ Size(c)' = Size(c)
        /\ \A c \in Blocks : c # b => blocks'[c] = blocks[c] /\ Count(c)' = Count(c)
    BY <1>3, <1>4, Updated DEF IInv
  <2>2. Count(b)' = 1
    BY <1>4, <1>9, <2>1 DEF Count
  <2> QED
    BY <2>1, <2>2
<1>13. WriterKnows'
  BY <1>0, <1>1, <1>2, <1>12 DEF WriterKnows
<1>14. ReaderKnows' /\ InOrder'
  <2>1. /\ blocks'[frontBlock].front = blocks[frontBlock].front
        /\ blocks'[frontBlock].localTail = blocks[frontBlock].localTail
        /\ Count(frontBlock)' = Count(frontBlock)
    BY <1>1, <1>12 DEF IInv, Typed
  <2> QED
    BY <1>1, <2>1, TypedThreads, ReaderStillKnows DEF IInv
<1>15. PICK one \in [Blocks -> Nat] : one[b] = writer.item /\ \A c \in Blocks : c # b => one[c] = first[c]
  <2>1. [first EXCEPT ![b] = writer.item] \in [Blocks -> Nat]
    BY <1>5, <1>7 DEF Ring, Numbered
  <2> QED
    BY <1>5, <2>1 DEF Ring, Numbered
<1>16. Circle(rank)'
  BY <1>1, <1>5, <1>12, CircleStays DEF IInv, Ring
<1>17. Filled(rank)'
  <2>1. ASSUME NEW c \in Blocks
        PROVE  IF rank[c] > rank[b] THEN Count(c)' = 0 ELSE rank[c] > 0 => Count(c)' > 0
    <3>1. CASE c = b
      BY <1>6, <1>12, <3>1
    <3>2. CASE c # b
      <4>1. IF rank[c] > rank[t] THEN Count(c) = 0 ELSE rank[c] > 0 => Count(c) > 0
        BY <1>5, <1>7 DEF Ring, Filled
      <4>2. Count(c)' = Count(c) /\ rank[c] \in Nat /\ rank[t] \in Nat /\ rank[b] = rank[t] + 1
        BY <1>6, <1>12, <3>2
      <4>3. rank[c] <= rank[b] => rank[c] <= rank[t]
        BY <1>6, <3>2
      <4> QED
        BY <4>1, <4>2, <4>3
    <3> QED
      BY <3>1, <3>2
  <2> QED
    BY <1>7, <1>12, <2>1 DEF Filled
<1>18. Numbered(rank, one)'
  <2>1. one[frontBlock] = reader.taken + 1
    BY <1>1, <1>5, <1>15 DEF IInv, Typed, Ring, Numbered
  <2>2. ASSUME NEW c \in Blocks, rank[c] < rank[b]
        PROVE  one[blocks[c].next] = one[c] + Count(c)
    <3>1. c # b /\ rank[c] <= rank[t] /\ rank[c] \in Nat /\ rank[t] \in Nat
      BY <1>6, <2>2
    <3>2. CASE c = t
      BY <1>0, <1>5, <1>7, <1>15, <3>1, <3>2 DEF Ring, Numbered
    <3>3. CASE c # t
      <4>1. rank[c] < rank[t]
        BY <1>5, <3>1, <3>3 DEF Ring, Circle
      <4>2. blocks[c].next # b /\ blocks[c].next \in Blocks
        <5>1. rank[blocks[c].next] <= rank[t]
          <6>1. rank[blocks[c].next] = IF rank[c] = Len(blocks) - 1 THEN 0 ELSE rank[c] + 1
            BY <1>5 DEF Ring, Circle
          <6>2. rank[t] < Len(blocks) /\ Len(blocks) \in Nat
            BY <1>5, NextRank DEF IInv, Ring
          <6> QED
            BY <3>1, <4>1, <6>1, <6>2
        <5> QED
          BY <1>6, <5>1, <3>1, Block DEF IInv
      <4>3. first[blocks[c].next] = first[c] + Count(c)
        BY <1>5, <1>7, <4>1 DEF Ring, Numbered
      <4> QED
        BY <1>15, <3>1, <4>2, <4>3
    <3> QED
      BY <3>2, <3>3
  <2>3. \A c \in Blocks : rank[c] < rank[b] => c # b
    BY <1>6
  <2>4. one[b] + Count(b)' = Number' + 1
    BY <1>7, <1>12, <1>15
  <2>5. \A c \in Blocks : rank[c] < rank[b] => one[blocks'[c].next] = one[c] + Count(c)'
    BY <1>12, <2>2, <2>3
  <2>6. LastBlock' = b /\ Blocks' = Blocks /\ frontBlock' = frontBlock /\ reader' = reader
    BY <1>1, <1>7, <1>12
  <2> QED
    BY <1>15, <2>1, <2>4, <2>5, <2>6 DEF Numbered
<1>19. Holds(rank, one)'
  <2> SUFFICES ASSUME NEW c \in Blocks, rank[c] <= rank[b], NEW j \in 0..(Count(c)' - 1)
               PROVE  blocks'[c].data[Step(blocks'[c].front, j, Size(c)')]
                        = IF c = frontBlock /\ j = 0 /\ reader.pc = "front" THEN None ELSE one[c] + j
    <3>1. LastBlock' = b /\ Blocks' = Blocks /\ frontBlock' = frontBlock /\ reader' = reader
      BY <1>1, <1>7, <1>12
    <3> QED
      BY <3>1 DEF Holds
  <2>1. CASE c # b
    <3>1. rank[c] <= rank[t]
      BY <1>6, <2>1
    <3>2. blocks'[c] = blocks[c] /\ Size(c)' = Size(c) /\ Count(c)' = Count(c) /\ one[c] = first[c]
      BY <1>12, <1>15, <2>1
    <3>3. blocks[c].data[Step(blocks[c].front, j, Size(c))]
            = IF c = frontBlock /\ j = 0 /\ reader.pc = "front" THEN None ELSE first[c] + j
      BY <1>5, <1>7, <3>1, <3>2 DEF Ring, Holds
    <3> QED
      BY <3>2, <3>3
  <2>2. CASE c = b
    <3>1. j = 0
      BY <1>12, <2>2
    <3> QED
      BY <1>1, <1>4, <1>7, <1>8, <1>9, <1>12, <1>15, <2>2, <3>1
  <2> QED
    BY <2>1, <2>2
<1>20. HasRing'
  BY <1>16, <1>17, <1>18, <1>19 DEF Ring, HasRing
<1> QED
  BY <1>10, <1>11, <1>13, <1>14, <1>20 DEF IInv

(* A block m of s slots is added behind the tail block t. *)
GrownBlock(s, t, m) ==
  /\ s \in Nat /\ s >= 2
  /\ blocks'[m] \in BlockOf(s) /\ Size(m)' = s /\ blocks'[m].next = blocks[t].next
  /\ blocks'[m].front = 0 /\ blocks'[m].localFront = 0
  /\ blocks'[m].tail = 1 /\ blocks'[m].localTail = 1 /\ blocks'[m].data[0] = writer.item
OtherBlocks(t, m) ==
  /\ t \in Blocks /\ blocks'[t].next = m
  /\ \A c \in Blocks : c # t => blocks'[c].next = blocks[c].next
  /\ \A c \in Blocks : /\ blocks'[c] \in BlockOf(Size(c)) /\ Size(c)' = Size(c)
                       /\ blocks'[c].front = blocks[c].front /\ blocks'[c].tail = blocks[c].tail
                       /\ blocks'[c].localFront = blocks[c].localFront
                       /\ blocks'[c].localTail = blocks[c].localTail
                       /\ blocks'[c].data = blocks[c].data
Grown(s, t, m) ==
  /\ t = tailBlock /\ m = Len(blocks) + 1 /\ m \in Nat /\ m \notin Blocks
  /\ Len(blocks') = m /\ Blocks' = Blocks \cup {m}
  /\ blocks' = [c \in Blocks' |-> blocks'[c]] /\ largestBlockSize' = s
  /\ GrownBlock(s, t, m) /\ OtherBlocks(t, m)

LEMMA Allocated ==
  ASSUME IInv, Alloc
  PROVE  \E s, t, m : Grown(s, t, m)
<1>1. PICK s, t, m, x, fresh :
        /\ s = (IF largestBlockSize >= MAX_BLOCK_SIZE THEN largestBlockSize ELSE 2 * largestBlockSize)
        /\ t = tailBlock /\ m = Len(blocks) + 1 /\ x = writer.item
        /\ fresh = [make_block(s, blocks[t].next) EXCEPT !.data[0] = x, !.tail = 1, !.localTail = 1]
  OBVIOUS
<1>2. /\ blocks' = [Append(blocks, fresh) EXCEPT ![t].next = m] /\ largestBlockSize' = s
  BY <1>1 DEF Alloc
<1>3. /\ t \in Blocks /\ blocks[t].next \in Blocks /\ x \in Nat
      /\ Len(blocks) \in Nat /\ m \in Nat /\ m \notin Blocks
      /\ \A c \in Blocks : blocks[c].next \in Nat
  <2>1. Len(blocks) \in Nat /\ t \in Blocks
    BY <1>1 DEF IInv, Typed
  <2>2. x \in Nat
    BY <1>1, TypedThreads DEF IInv
  <2>3. \A c \in Blocks : blocks[c].next \in Blocks
    BY Block DEF IInv
  <2>4. m \in Nat /\ m \notin Blocks /\ Blocks \subseteq Nat
    BY <1>1, <2>1 DEF Blocks
  <2> QED
    BY <2>1, <2>2, <2>3, <2>4
<1>4. s \in Nat /\ s >= 2
  <2>1. largestBlockSize \in Nat /\ largestBlockSize >= 2
    BY DEF IInv, Typed
  <2>2. 2 * largestBlockSize \in Nat /\ 2 * largestBlockSize >= 2
    BY <2>1
  <2> QED
    BY <1>1, <2>1, <2>2
<1>5. /\ fresh \in BlockOf(s) /\ fresh.next = blocks[t].next
      /\ fresh.front = 0 /\ fresh.localFront = 0 /\ fresh.tail = 1 /\ fresh.localTail = 1
      /\ fresh.data[0] = x
  <2>1. PICK q, n : n = blocks[t].next /\ n \in Nat /\ q = make_block(s, n)
    BY <1>3 DEF Blocks
  <2>2. fresh = [q EXCEPT !.data[0] = x, !.tail = 1, !.localTail = 1]
    BY <1>1, <2>1
  <2>3. /\ q \in BlockOf(s) /\ q.next = n /\ q.front = 0 /\ q.localFront = 0
    BY <1>4, <2>1 DEF make_block, BlockOf, None
  <2> QED
    <3>1. PICK p : p = [q EXCEPT !.data[0] = x]
      OBVIOUS
    <3>2. PICK o : o = [p EXCEPT !.tail = 1]
      OBVIOUS
    <3>3. fresh = [o EXCEPT !.localTail = 1]
      BY <2>2, <3>1, <3>2
    <3>4. 0 \in 0..(s - 1) /\ 1 \in 0..(s - 1)
      BY <1>4
    <3>5. /\ p \in BlockOf(s) /\ p.next = n /\ p.front = 0 /\ p.localFront = 0 /\ p.data[0] = x
      <4>1. PICK i, y : i = 0 /\ i \in 0..(s - 1) /\ y = x /\ y \in Nat
        BY <1>3, <3>4
      <4>2. p = [q EXCEPT !.data[i] = y]
        BY <3>1, <4>1
      <4> QED
        BY <2>3, <4>1, <4>2, DataSet
    <3>6. /\ o \in BlockOf(s) /\ o.next = n /\ o.front = 0 /\ o.localFront = 0 /\ o.data[0] = x /\ o.tail = 1
      BY <3>2, <3>4, <3>5, TailSet
    <3> QED
      BY <2>1, <3>3, <3>4, <3>6, LocalTailSet
<1> DEFINE S == {blocks[c] : c \in Blocks} \cup {fresh}
<1>6. blocks \in Seq(S) /\ fresh \in S
  <2>1. blocks \in [1..Len(blocks) -> S] /\ Len(blocks) \in Nat
    BY DEF IInv, Typed, Blocks
  <2> QED
    BY <2>1, SeqDef
<1>7. PICK longer : longer = Append(blocks, fresh)
  OBVIOUS
<1>8. /\ longer \in Seq(S) /\ Len(longer) = m /\ longer[m] = fresh
      /\ \A c \in Blocks : longer[c] = blocks[c]
  BY <1>1, <1>6, <1>7, AppendProperties DEF Blocks
<1>9. blocks' = [longer EXCEPT ![t] = [blocks[t] EXCEPT !.next = m]]
  BY <1>2, <1>3, <1>7, <1>8
<1> DEFINE T == S \cup {[blocks[t] EXCEPT !.next = m]}
<1>10. longer \in Seq(T) /\ t \in 1..Len(longer)
  BY <1>1, <1>3, <1>8, SeqMonotonic DEF Blocks
<1>11. /\ Len(blocks') = m /\ blocks' \in Seq(T)
       /\ \A c \in 1..m : blocks'[c] = IF c = t THEN [blocks[t] EXCEPT !.next = m] ELSE longer[c]
  BY <1>8, <1>9, <1>10, ExceptSeq
<1>12. Blocks' = Blocks \cup {m} /\ Blocks' = 1..m
  BY <1>1, <1>3, <1>11 DEF Blocks
<1>13. blocks' = [c \in Blocks' |-> blocks'[c]]
  BY <1>11, <1>12, LenProperties
<1>14. /\ blocks'[m] = fresh /\ blocks'[t] = [blocks[t] EXCEPT !.next = m]
       /\ \A c \in Blocks : c # t => blocks'[c] = blocks[c]
  BY <1>3, <1>8, <1>11, <1>12
<1>15. /\ blocks'[t] \in BlockOf(Size(t)) /\ blocks'[t].next = m
       /\ blocks'[t].front = blocks[t].front /\ blocks'[t].tail = blocks[t].tail
       /\ blocks'[t].localFront = blocks[t].localFront /\ blocks'[t].localTail = blocks[t].localTail
       /\ blocks'[t].data = blocks[t].data
  BY <1>3, <1>14, Block DEF IInv, BlockOf
<1>16. Size(m)' = s
  <2>1. DOMAIN fresh.data = 0..(s - 1)
    BY <1>5 DEF BlockOf
  <2>2. Cardinality(0..(s - 1)) = s
    BY <1>4, FS_Interval
  <2> QED
    BY <1>14, <2>1, <2>2 DEF Size
<1>17. \A c \in Blocks : /\ blocks'[c] \in BlockOf(Size(c)) /\ Size(c)' = Size(c)
                         /\ blocks'[c].front = blocks[c].front /\ blocks'[c].tail = blocks[c].tail
                         /\ blocks'[c].localFront = blocks[c].localFront
                         /\ blocks'[c].localTail = blocks[c].localTail
                         /\ blocks'[c].data = blocks[c].data
  BY <1>14, <1>15, Block DEF IInv, Size
<1>18. \A c \in Blocks : c # t => blocks'[c].next = blocks[c].next
  BY <1>14
<1> HIDE DEF S, T
<1>19. GrownBlock(s, t, m)
  BY <1>1, <1>4, <1>5, <1>14, <1>16 DEF GrownBlock
<1>20. OtherBlocks(t, m)
  BY <1>3, <1>15, <1>17, <1>18 DEF OtherBlocks
<1>21. Grown(s, t, m)
  BY <1>1, <1>2, <1>3, <1>11, <1>12, <1>13, <1>19, <1>20 DEF Grown
<1> QED
  BY <1>21

LEMMA AllocKeeps ==
  ASSUME IInv, Alloc
  PROVE  IInv'
<1>1. PICK s, t, m : Grown(s, t, m)
  BY Allocated
<1>2. /\ writer.pc = "alloc" /\ writer.item <= Puts
      /\ UNCHANGED <<frontBlock, tailBlock, reader, put>>
  BY DEF Alloc, IInv, WriterKnows
<1>3. /\ writer'.pc = "advance" /\ writer'.item = writer.item /\ writer' \in Writers
  BY TypedThreads DEF Alloc, WriterGoes, IInv, Writers
<1>4. /\ t \in Blocks /\ t = tailBlock /\ m \notin Blocks /\ m \in Nat /\ m = Len(blocks) + 1
      /\ Len(blocks') = m /\ Blocks' = Blocks \cup {m} /\ Len(blocks) \in Nat
      /\ frontBlock \in Blocks /\ \A c \in Blocks : blocks[c].next \in Blocks
      /\ blocks'[t].next = m /\ blocks'[m].next = blocks[t].next
      /\ \A c \in Blocks : c # t => blocks'[c].next = blocks[c].next
  BY <1>1, Block DEF IInv, Typed, Grown, GrownBlock, OtherBlocks
<1>5. \A c \in Blocks : Count(c)' = Count(c)
  BY <1>1 DEF Grown, OtherBlocks, Count
<1>6. /\ Count(m)' = 1 /\ s \in Nat /\ s >= 2 /\ Size(m)' = s
      /\ Dist(0, 1, s) = 1 /\ Step(0, 0, s) = 0
  <2>1. s \in Nat /\ s >= 2 /\ Size(m)' = s /\ blocks'[m].front = 0 /\ blocks'[m].tail = 1
    BY <1>1 DEF Grown, GrownBlock
  <2>2. Dist(0, 1, s) = 1 /\ Step(0, 0, s) = 0
    BY <2>1 DEF Dist, Step
  <2> QED
    BY <2>1, <2>2 DEF Count
<1>7. Typed'
  <2>1. ASSUME NEW c \in Blocks'
        PROVE  /\ Size(c)' \in Nat /\ Size(c)' >= 2
               /\ blocks'[c] \in BlockOf(Size(c)') /\ blocks'[c].next \in Blocks'
    <3>1. CASE c = m
      BY <1>1, <1>4, <1>6, <3>1 DEF Grown, GrownBlock
    <3>2. CASE c # m
      BY <1>1, <1>4, <3>2, Block DEF IInv, Grown, OtherBlocks
    <3> QED
      BY <3>1, <3>2
  <2>2. /\ Len(blocks') \in Nat /\ blocks' = [c \in Blocks' |-> blocks'[c]]
        /\ frontBlock' \in Blocks' /\ tailBlock' \in Blocks'
        /\ largestBlockSize' \in Nat /\ largestBlockSize' >= 2
    BY <1>1, <1>2, <1>4, <1>6 DEF Grown
  <2>3. writer' \in Writers /\ reader' \in Readers /\ put' \in Nat /\ writer'.item = put' + 1
    BY <1>2, <1>3, TypedThreads DEF IInv
  <2> QED
    BY <2>1, <2>2, <2>3 DEF Typed
<1>8. ShadowsLag'
  <2>1. ASSUME NEW c \in Blocks'
        PROVE  /\ Dist(blocks'[c].front, blocks'[c].localTail, Size(c)') <= Count(c)'
               /\ Count(c)' <= Dist(blocks'[c].localFront, blocks'[c].tail, Size(c)')
    <3>1. CASE c = m
      BY <1>1, <1>6, <3>1 DEF Grown, GrownBlock
    <3>2. CASE c # m
      BY <1>1, <1>4, <1>5, <3>2 DEF Grown, OtherBlocks, IInv, ShadowsLag
    <3> QED
      BY <3>1, <3>2
  <2> QED
    BY <2>1 DEF ShadowsLag
<1>9. WriterKnows'
  BY <1>2, <1>3, <1>4, <1>6 DEF WriterKnows
<1>10. ReaderKnows' /\ InOrder'
  <2>1. /\ blocks'[frontBlock].front = blocks[frontBlock].front
        /\ blocks'[frontBlock].localTail = blocks[frontBlock].localTail
        /\ Count(frontBlock)' = Count(frontBlock)
    BY <1>1, <1>2, <1>4, <1>5 DEF Grown, OtherBlocks
  <2> QED
    BY <1>2, <2>1, TypedThreads, ReaderStillKnows DEF IInv
<1>11. PICK rank, first : Ring(rank, first)
  BY DEF IInv, HasRing
<1>12. /\ rank \in [Blocks -> Nat] /\ \A c \in Blocks : rank[c] \in Nat /\ rank[c] < Len(blocks)
       /\ rank[t] \in Nat /\ rank[t] < Len(blocks)
       /\ first \in [Blocks -> Nat]
  BY <1>4, <1>11 DEF Ring, Circle, Numbered
<1>13. LastBlock = t /\ LastBlock' = m /\ Number = writer.item - 1 /\ Number' = writer.item /\ writer.item \in Nat
  BY <1>2, <1>3, <1>4, TypedThreads DEF LastBlock, Number, IInv
<1>14. PICK place \in [Blocks \cup {m} -> Nat] :
         /\ place[m] = rank[t] + 1
         /\ \A c \in Blocks : place[c] = IF rank[c] > rank[t] THEN rank[c] + 1 ELSE rank[c]
  <2> DEFINE f == [c \in Blocks \cup {m} |-> IF c = m THEN rank[t] + 1
                                             ELSE IF rank[c] > rank[t] THEN rank[c] + 1 ELSE rank[c]]
  <2>1. f \in [Blocks \cup {m} -> Nat]
    BY <1>4, <1>12
  <2> QED
    BY <1>4, <2>1
<1>15. PICK one \in [Blocks \cup {m} -> Nat] :
         one[m] = writer.item /\ \A c \in Blocks : one[c] = first[c]
  <2> DEFINE f == [c \in Blocks \cup {m} |-> IF c = m THEN writer.item ELSE first[c]]
  <2>1. f \in [Blocks \cup {m} -> Nat]
    BY <1>12, <1>13
  <2> QED
    BY <1>4, <2>1
<1>16. Circle(place)'
  <2>1. place \in [Blocks' -> 0..(Len(blocks') - 1)]
    <3>1. place[m] \in 0..(m - 1)
      BY <1>4, <1>12, <1>14
    <3>2. ASSUME NEW c \in Blocks
          PROVE  place[c] \in 0..(m - 1)
      <4>1. PICK x, k, n : /\ x = rank[c] /\ k = rank[t] /\ n = Len(blocks)
                           /\ x \in Nat /\ k \in Nat /\ x < n
        BY <1>12
      <4>2. n \in Nat /\ m = n + 1
        BY <1>4, <4>1
      <4>3. place[c] = IF x > k THEN x + 1 ELSE x
        BY <1>14, <4>1
      <4> QED
        BY <4>1, <4>2, <4>3
    <3>3. \A c \in Blocks \cup {m} : place[c] \in 0..(m - 1)
      BY <3>1, <3>2
    <3> QED
      BY <1>4, <1>14, <3>3
  <2>2. ASSUME NEW b \in Blocks \cup {m}, NEW c \in Blocks \cup {m}, place[b] = place[c]
        PROVE  b = c
    <3>1. \A d, e \in Blocks : rank[d] = rank[e] => d = e
      BY <1>11 DEF Ring, Circle
    <3>2. ASSUME NEW d \in Blocks
          PROVE  place[d] # place[m]
      <4>1. PICK x, k : x = rank[d] /\ k = rank[t] /\ x \in Nat /\ k \in Nat
        BY <1>12
      <4>2. place[d] = (IF x > k THEN x + 1 ELSE x) /\ place[m] = k + 1
        BY <1>14, <4>1
      <4> QED
        BY <4>1, <4>2
    <3>3. ASSUME NEW d \in Blocks, NEW e \in Blocks, place[d] = place[e]
          PROVE  rank[d] = rank[e]
      <4>1. PICK x, y, k : x = rank[d] /\ y = rank[e] /\ k = rank[t]
        OBVIOUS
      <4>2. x \in Nat /\ y \in Nat /\ k \in Nat
        BY <1>12, <4>1
      <4>3. (IF x > k THEN x + 1 ELSE x) = (IF y > k THEN y + 1 ELSE y)
        BY <1>14, <3>3, <4>1
      <4>4. x = y
        BY <4>2, <4>3
      <4> QED
        BY <4>1, <4>4
    <3> QED
      BY <2>2, <3>1, <3>2, <3>3
  <2>3. place[frontBlock] = 0
    BY <1>4, <1>11, <1>12, <1>14 DEF Ring, Circle
  <2>4. ASSUME NEW c \in Blocks \cup {m}
        PROVE  place[blocks'[c].next] = IF place[c] = m - 1 THEN 0 ELSE place[c] + 1
    <3>1. \A d \in Blocks : rank[blocks[d].next] = IF rank[d] = Len(blocks) - 1 THEN 0 ELSE rank[d] + 1
      BY <1>11 DEF Ring, Circle
    <3>2. CASE c = t
      <4>1. PICK k, n : k = rank[t] /\ n = Len(blocks) /\ k \in Nat /\ k < n /\ n \in Nat /\ m = n + 1
        BY <1>4, <1>12
      <4>2. place[m] = k + 1
        BY <1>14, <4>1
      <4>3. place[t] = IF rank[t] > rank[t] THEN rank[t] + 1 ELSE rank[t]
        BY <1>4, <1>14
      <4>4. place[t] = k
        BY <4>1, <4>3
      <4>5. blocks'[t].next = m
        BY <1>4
      <4> QED
        BY <3>2, <4>1, <4>2, <4>4, <4>5
    <3>3. CASE c = m
      <4>1. PICK d, k, n : d = blocks[t].next /\ d \in Blocks /\ k = rank[t] /\ n = Len(blocks)
        BY <1>4
      <4>2. blocks'[c].next = d /\ place[c] = k + 1 /\ m = n + 1 /\ k \in Nat /\ k < n /\ n \in Nat
        BY <1>4, <1>12, <1>14, <3>3, <4>1
      <4>3. rank[d] = IF k = n - 1 THEN 0 ELSE k + 1
        BY <1>4, <3>1, <4>1
      <4>4. place[d] = IF rank[d] > k THEN rank[d] + 1 ELSE rank[d]
        BY <1>14, <4>1
      <4> QED
        BY <4>2, <4>3, <4>4
    <3>4. CASE c \in Blocks /\ c # t
      <4>1. rank[c] # rank[t]
        BY <1>4, <1>11, <3>4 DEF Ring, Circle
      <4>2. PICK d, k, n, x :
              d = blocks[c].next /\ d \in Blocks /\ k = rank[t] /\ n = Len(blocks) /\ x = rank[c]
        BY <1>4, <3>4
      <4>3. /\ blocks'[c].next = d /\ m = n + 1 /\ k \in Nat /\ k < n /\ n \in Nat
            /\ x \in Nat /\ x < n /\ x # k
            /\ place[c] = IF x > k THEN x + 1 ELSE x
        BY <1>4, <1>12, <1>14, <3>4, <4>1, <4>2
      <4>4. rank[d] = IF x = n - 1 THEN 0 ELSE x + 1
        BY <3>1, <3>4, <4>2
      <4>5. place[d] = IF rank[d] > k THEN rank[d] + 1 ELSE rank[d]
        BY <1>14, <4>2
      <4> QED
        BY <4>3, <4>4, <4>5
    <3> QED
      BY <3>2, <3>3, <3>4
  <2> QED
    BY <1>2, <1>4, <2>1, <2>2, <2>3, <2>4 DEF Circle
<1>17. Filled(place)'
  <2>1. ASSUME NEW c \in Blocks \cup {m}
        PROVE  IF place[c] > place[m] THEN Count(c)' = 0 ELSE place[c] > 0 => Count(c)' > 0
    <3>1. CASE c = m
      BY <1>6, <1>14, <3>1
    <3>2. CASE c # m
      <4>1. c \in Blocks /\ rank[c] \in Nat /\ rank[t] \in Nat
        BY <1>12, <3>2
      <4>2. IF rank[c] > rank[t] THEN Count(c) = 0 ELSE rank[c] > 0 => Count(c) > 0
        BY <1>11, <1>13, <4>1 DEF Ring, Filled
      <4>3. /\ place[c] > place[m] <=> rank[c] > rank[t]
            /\ rank[c] <= rank[t] => place[c] = rank[c]
        BY <1>14, <4>1
      <4> QED
        BY <1>5, <4>1, <4>2, <4>3
    <3> QED
      BY <3>1, <3>2
  <2> QED
    BY <1>4, <1>13, <2>1 DEF Filled
<1>18. Numbered(place, one)'
  <2>1. one[frontBlock] = reader.taken + 1
    BY <1>4, <1>11, <1>15 DEF Ring, Numbered
  <2>2. ASSUME NEW c \in Blocks \cup {m}, place[c] < place[m]
        PROVE  one[blocks'[c].next] = one[c] + Count(c)'
    <3>1. c \in Blocks /\ rank[c] <= rank[t]
      <4>1. c \in Blocks
        <5>1. c # m
          BY <1>14, <2>2
        <5> QED
          BY <5>1
      <4>2. PICK x, k : x = rank[c] /\ k = rank[t] /\ x \in Nat /\ k \in Nat
        BY <1>12, <4>1
      <4>3. (IF x > k THEN x + 1 ELSE x) < k + 1
        BY <1>14, <2>2, <4>1, <4>2
      <4> QED
        BY <4>1, <4>2, <4>3
    <3>2. CASE c = t
      <4>1. first[t] + Count(t) = writer.item /\ Count(t)' = Count(t) /\ blocks'[t].next = m
        <5>1. first[t] + Count(t) = (writer.item - 1) + 1
          BY <1>11, <1>13 DEF Ring, Numbered
        <5> QED
          BY <1>4, <1>5, <1>13, <5>1
      <4> QED
        BY <1>4, <1>15, <3>2, <4>1
    <3>3. CASE c # t
      <4>1. rank[c] < rank[t]
        BY <1>4, <1>11, <1>12, <3>1, <3>3 DEF Ring, Circle
      <4>2. first[blocks[c].next] = first[c] + Count(c)
        BY <1>11, <1>13, <3>1, <4>1 DEF Ring, Numbered
      <4>3. blocks'[c].next = blocks[c].next /\ blocks[c].next \in Blocks /\ Count(c)' = Count(c)
        BY <1>4, <1>5, <3>1, <3>3
      <4> QED
        BY <1>15, <3>1, <4>2, <4>3
    <3> QED
      BY <3>2, <3>3
  <2>3. one[m] + Count(m)' = Number' + 1
    BY <1>6, <1>13, <1>15
  <2> QED
    BY <1>2, <1>4, <1>13, <1>15, <2>1, <2>2, <2>3 DEF Numbered
<1>19. Holds(place, one)'
  <2> SUFFICES ASSUME NEW c \in Blocks \cup {m}, place[c] <= place[m], NEW j \in 0..(Count(c)' - 1)
               PROVE  blocks'[c].data[Step(blocks'[c].front, j, Size(c)')]
                        = IF c = frontBlock /\ j = 0 /\ reader.pc = "front" THEN None ELSE one[c] + j
    BY <1>2, <1>4, <1>13 DEF Holds
  <2>1. CASE c = m
    <3>1. j = 0 /\ blocks'[m].front = 0 /\ blocks'[m].data[0] = writer.item
      BY <1>1, <1>6, <2>1 DEF Grown, GrownBlock
    <3> QED
      <4>1. c # frontBlock /\ Step(0, 0, s) = 0 /\ Size(c)' = s
        BY <1>4, <1>6, <2>1
      <4>2. one[c] + j = writer.item
        <5>1. one[c] = writer.item /\ writer.item \in Nat
          BY <1>13, <1>15, <2>1
        <5> QED
          BY <3>1, <5>1
      <4> QED
        BY <2>1, <3>1, <4>1, <4>2
  <2>2. CASE c # m
    <3>1. c \in Blocks /\ rank[c] <= rank[t] /\ j \in 0..(Count(c) - 1)
      <4>1. c \in Blocks
        BY <2>2
      <4>2. PICK x, k : x = rank[c] /\ k = rank[t] /\ x \in Nat /\ k \in Nat
        BY <1>12, <4>1
      <4>3. (IF x > k THEN x + 1 ELSE x) <= k + 1
        BY <1>14, <4>1, <4>2
      <4>4. x <= k
        BY <4>2, <4>3
      <4> QED
        BY <1>5, <4>1, <4>2, <4>4
    <3>2. blocks[c].data[Step(blocks[c].front, j, Size(c))]
            = IF c = frontBlock /\ j = 0 /\ reader.pc = "front" THEN None ELSE first[c] + j
      BY <1>11, <1>13, <3>1 DEF Ring, Holds
    <3> QED
      BY <1>1, <1>15, <3>1, <3>2 DEF Grown, OtherBlocks
  <2> QED
    BY <2>1, <2>2
<1>20. HasRing'
  BY <1>16, <1>17, <1>18, <1>19 DEF Ring, HasRing
<1> QED
  BY <1>7, <1>8, <1>9, <1>10, <1>20 DEF IInv

-----------------------------------------------------------------------------
(* The reader. *)

(* The first item of the front block is the next one to be taken. *)
LEMMA FirstItem ==
  ASSUME IInv, Count(frontBlock) > 0, reader.pc # "front"
  PROVE  blocks[frontBlock].data[blocks[frontBlock].front] = reader.taken + 1
<1>1. PICK rank, first : Ring(rank, first)
  BY DEF IInv, HasRing
<1>2. /\ frontBlock \in Blocks /\ rank[frontBlock] <= rank[LastBlock]
  BY <1>1, LastIsBlock DEF IInv, Typed, Ring, Circle
<1>3. PICK s, f : s = Size(frontBlock) /\ f = blocks[frontBlock].front /\ s \in Nat /\ f \in 0..(s - 1)
  BY <1>2, Block DEF IInv
<1>4. Step(f, 0, s) = f
  BY <1>3 DEF Step
<1>5. 0 \in 0..(Count(frontBlock) - 1)
  BY <1>2, Block DEF IInv
<1>6. first[frontBlock] = reader.taken + 1
  BY <1>1 DEF Ring, Numbered
<1>7. blocks[frontBlock].data[Step(f, 0, s)] = first[frontBlock] + 0
  BY <1>1, <1>2, <1>3, <1>5 DEF Ring, Holds
<1> QED
  BY <1>3, <1>4, <1>6, <1>7, TypedThreads DEF IInv

(* A queue that is empty in its only block with items is empty. *)
LEMMA EmptyIsTaken ==
  ASSUME IInv, Count(frontBlock) = 0, frontBlock = tailBlock
  PROVE  reader.taken >= reader.started
<1>1. PICK rank, first : Ring(rank, first)
  BY DEF IInv, HasRing
<1>2. /\ frontBlock \in Blocks /\ LastBlock \in Blocks /\ Typed
      /\ reader.taken \in Nat /\ reader.started \in Nat /\ reader.started <= put
      /\ put \in Nat /\ writer.item = put + 1
  BY LastIsBlock, TypedThreads DEF IInv, Typed, ReaderKnows
<1>3. first[frontBlock] = reader.taken + 1 /\ first[LastBlock] + Count(LastBlock) = Number + 1
  BY <1>1 DEF Ring, Numbered
<1>4. CASE writer.pc # "advance"
  <2>1. LastBlock = frontBlock /\ Number = put
    BY <1>2, <1>4 DEF LastBlock, Number
  <2> QED
    BY <1>2, <1>3, <2>1
<1>5. CASE writer.pc = "advance"
  <2>1. /\ LastBlock = blocks[frontBlock].next /\ Number = put + 1
        /\ LastBlock # frontBlock /\ Count(LastBlock) = 1
    BY <1>2, <1>5 DEF LastBlock, Number, IInv, WriterKnows
  <2>2. rank[LastBlock] = rank[frontBlock] + 1 /\ rank[frontBlock] \in Nat
    BY <1>1, <1>2, <2>1, NextRank DEF Ring
  <2>3. first[LastBlock] = first[frontBlock] + 0
    BY <1>1, <1>2, <2>1, <2>2 DEF Ring, Numbered
  <2> QED
    BY <1>2, <1>3, <2>1, <2>3
<1> QED
  BY <1>4, <1>5

LEMMA DequeueKeeps ==
  ASSUME IInv, NEW op \in {"try_dequeue", "peek"}, Dequeue(op)
  PROVE  IInv'
<1>1. /\ reader.pc = "idle" /\ blocks' = blocks
      /\ UNCHANGED <<frontBlock, tailBlock, largestBlockSize, writer, put>>
  BY DEF Dequeue
<1>2. /\ reader'.pc = "look" /\ reader'.taken = reader.taken /\ reader'.started = put /\ reader' \in Readers
  BY TypedThreads DEF Dequeue, IInv, Readers
<1>3. LastBlock' = LastBlock /\ Number' = Number /\ tailBlock' \in Blocks
  <2>1. LastBlock' = LastBlock /\ Number' = Number
    BY <1>1 DEF LastBlock, Number
  <2> QED
    BY <1>1, <2>1 DEF IInv, Typed
<1>4. ShadowsLag' /\ HasRing'
  BY <1>1, <1>2, <1>3, QuietKeeps
<1>5. Typed'
  BY <1>1, <1>2, <1>3, QuietKeeps DEF IInv, Typed
<1>6. WriterKnows'
  BY <1>1, Quiet, WriterStillKnows DEF IInv, WriterKnows
<1>7. ReaderKnows' /\ InOrder'
  BY <1>1, <1>2, TypedThreads DEF IInv, ReaderKnows, InOrder
<1> QED
  BY <1>4, <1>5, <1>6, <1>7 DEF IInv

LEMMA AheadKeeps ==
  ASSUME IInv, Ahead
  PROVE  IInv'
<1>1. /\ reader.pc = "ahead" /\ blocks' = blocks
      /\ UNCHANGED <<frontBlock, tailBlock, largestBlockSize, writer, put>>
  BY DEF Ahead
<1>2. /\ reader'.taken = reader.taken /\ reader'.started = reader.started /\ reader' \in Readers
      /\ \/ reader'.pc = "again" /\ frontBlock # tailBlock
         \/ reader'.pc = "idle" /\ reader'.got = None /\ frontBlock = tailBlock
  <2>1. CASE frontBlock # tailBlock
    BY <2>1, TypedThreads DEF Ahead, ReaderGoes, IInv, Readers
  <2>2. CASE frontBlock = tailBlock
    <3>1. reader' = [reader EXCEPT !.pc = "idle", !.got = 0] /\ reader \in Readers
      BY <2>2, TypedThreads DEF Ahead, DequeueReturnsNothing, None, IInv
    <3> QED
      BY <2>2, <3>1 DEF Readers, None
  <2> QED
    BY <2>1, <2>2
<1>3. LastBlock' = LastBlock /\ Number' = Number /\ tailBlock' \in Blocks
  <2>1. LastBlock' = LastBlock /\ Number' = Number
    BY <1>1 DEF LastBlock, Number
  <2> QED
    BY <1>1, <2>1 DEF IInv, Typed
<1>4. ShadowsLag' /\ HasRing'
  BY <1>1, <1>2, <1>3, QuietKeeps
<1>5. Typed'
  BY <1>1, <1>2, <1>3, QuietKeeps DEF IInv, Typed
<1>6. WriterKnows'
  BY <1>1, Quiet, WriterStillKnows DEF IInv, WriterKnows
<1>7. ReaderKnows' /\ InOrder'
  BY <1>1, <1>2 DEF IInv, ReaderKnows, InOrder
<1> QED
  BY <1>4, <1>5, <1>6, <1>7 DEF IInv

(* The shadow of tail is renewed. *)
LEMMA ShadowRenewed ==
  ASSUME IInv, NEW b \in Blocks, blocks' = [blocks EXCEPT ![b].localTail = blocks[b].tail],
         frontBlock' \in Blocks, UNCHANGED <<tailBlock, largestBlockSize, writer, put>>,
         reader' \in Readers
  PROVE  /\ Typed' /\ ShadowsLag' /\ Len(blocks') = Len(blocks) /\ Blocks' = Blocks
         /\ blocks'[b].localTail = blocks[b].tail
         /\ \A c \in Blocks : /\ Size(c)' = Size(c) /\ Count(c)' = Count(c)
                              /\ blocks'[c].next = blocks[c].next
                              /\ blocks'[c].front = blocks[c].front /\ blocks'[c].tail = blocks[c].tail
                              /\ blocks'[c].localFront = blocks[c].localFront
                              /\ blocks'[c].data = blocks[c].data
<1> DEFINE r == [blocks[b] EXCEPT !.localTail = blocks[b].tail]
<1>1. blocks' = [blocks EXCEPT ![b] = r]
  OBVIOUS
<1>2. /\ r \in BlockOf(Size(b)) /\ r.next = blocks[b].next
      /\ r.front = blocks[b].front /\ r.tail = blocks[b].tail /\ r.localTail = blocks[b].tail
      /\ r.localFront = blocks[b].localFront /\ r.data = blocks[b].data
  <2>1. PICK s, q, x : s = Size(b) /\ q = blocks[b] /\ q \in BlockOf(s) /\ x = q.tail /\ x \in 0..(s - 1)
    BY Block DEF IInv
  <2>2. r = [q EXCEPT !.localTail = x]
    BY <2>1
  <2> HIDE DEF r
  <2> QED
    BY <2>1, <2>2, LocalTailSet
<1> HIDE DEF r
<1>3. Typed'
  BY <1>1, <1>2, TypedThreads, StoreTypes DEF IInv
<1>4. /\ Dist(r.front, r.localTail, Size(b)) <= Dist(r.front, r.tail, Size(b))
      /\ Dist(r.front, r.tail, Size(b)) <= Dist(r.localFront, r.tail, Size(b))
  <2>1. Dist(r.front, r.tail, Size(b)) = Count(b) /\ Count(b) \in Nat
    BY <1>2, Block DEF IInv, Count
  <2> QED
    BY <1>2, <2>1 DEF IInv, ShadowsLag
<1>5. ShadowsLag'
  BY <1>1, <1>2, <1>4, StoreShadows DEF IInv
<1>6. /\ Len(blocks') = Len(blocks) /\ Blocks' = Blocks /\ blocks'[b] = r
      /\ \A c \in Blocks : Size(c)' = Size(c)
      /\ \A c \in Blocks : c # b => blocks'[c] = blocks[c]
  BY <1>1, <1>2, Updated DEF IInv
<1>7. \A c \in Blocks : /\ blocks'[c].next = blocks[c].next
                        /\ blocks'[c].front = blocks[c].front /\ blocks'[c].tail = blocks[c].tail
                        /\ blocks'[c].localFront = blocks[c].localFront
                        /\ blocks'[c].data = blocks[c].data
  BY <1>2, <1>6
<1>8. \A c \in Blocks : Count(c)' = Count(c)
  BY <1>6, <1>7 DEF Count
<1> QED
  BY <1>2, <1>3, <1>5, <1>6, <1>7, <1>8

LEMMA LookKeeps ==
  ASSUME IInv, Look
  PROVE  IInv'
<1>0. PICK b \in Blocks : b = frontBlock
  BY DEF IInv, Typed
<1>1. /\ reader.pc = "look" /\ UNCHANGED <<frontBlock, tailBlock, largestBlockSize, writer, put>>
  BY DEF Look
<1>2. /\ reader'.taken = reader.taken /\ reader'.started = reader.started /\ reader' \in Readers
      /\ reader'.pc \in {"take", "ahead"}
  BY TypedThreads DEF Look, ReaderGoes, IInv, Readers
<1>3. \/ blocks' = blocks /\ reader'.pc = "take" /\ blocks[b].front # blocks[b].localTail
      \/ /\ blocks' = [blocks EXCEPT ![b].localTail = blocks[b].tail]
         /\ reader'.pc = IF blocks[b].front # blocks[b].tail THEN "take" ELSE "ahead"
  BY <1>0, TypedThreads DEF Look, ReaderGoes, NotEmpty, IInv, Readers
<1>4. LastBlock' = LastBlock /\ Number' = Number /\ tailBlock' \in Blocks
  <2>1. blocks'[tailBlock].next = blocks[tailBlock].next
    <3>1. CASE blocks' = blocks
      BY <3>1
    <3>2. CASE blocks' = [blocks EXCEPT ![b].localTail = blocks[b].tail]
      BY <1>0, <1>1, <1>2, <3>2, ShadowRenewed DEF IInv, Typed
    <3> QED
      BY <1>3, <3>1, <3>2
  <2>2. LastBlock' = LastBlock
    BY <1>1, <2>1 DEF LastBlock
  <2> QED
    BY <1>1, <2>2 DEF IInv, Typed, Number
<1>5. CASE blocks' = blocks /\ reader'.pc = "take" /\ blocks[b].front # blocks[b].localTail
  <2>1. ShadowsLag' /\ HasRing'
    BY <1>1, <1>2, <1>4, <1>5, QuietKeeps
  <2>2. Typed'
    BY <1>1, <1>2, <1>4, <1>5, QuietKeeps DEF IInv, Typed
  <2>3. WriterKnows'
    BY <1>1, <1>5, Quiet, WriterStillKnows DEF IInv, WriterKnows
  <2>4. ReaderKnows' /\ InOrder'
    BY <1>0, <1>1, <1>2, <1>5 DEF IInv, ReaderKnows, InOrder
  <2> QED
    BY <2>1, <2>2, <2>3, <2>4 DEF IInv
<1>6. CASE /\ blocks' = [blocks EXCEPT ![b].localTail = blocks[b].tail]
           /\ reader'.pc = IF blocks[b].front # blocks[b].tail THEN "take" ELSE "ahead"
  <2>1. /\ Typed' /\ ShadowsLag' /\ Len(blocks') = Len(blocks)
        /\ blocks'[b].localTail = blocks[b].tail
        /\ \A c \in Blocks : /\ Size(c)' = Size(c) /\ Count(c)' = Count(c)
                             /\ blocks'[c].next = blocks[c].next
                             /\ blocks'[c].front = blocks[c].front /\ blocks'[c].tail = blocks[c].tail
                             /\ blocks'[c].localFront = blocks[c].localFront
                             /\ blocks'[c].data = blocks[c].data
    BY <1>0, <1>1, <1>2, <1>6, ShadowRenewed
  <2>2. PICK rank, first : Ring(rank, first)
    BY DEF IInv, HasRing
  <2>3. Ring(rank, first)'
    BY <1>1, <1>2, <1>4, <2>1, <2>2, RingStays DEF IInv
  <2>4. HasRing'
    BY <2>3 DEF HasRing
  <2>5. WriterKnows'
    BY <1>1, <2>1, WriterStillKnows DEF IInv, WriterKnows
  <2>6. reader'.pc = "ahead" /\ frontBlock = tailBlock => reader.taken >= reader.started
    <3>1. reader'.pc = "ahead" => blocks[frontBlock].front = blocks[frontBlock].tail
      BY <1>0, <1>6
    <3>2. blocks[frontBlock].front = blocks[frontBlock].tail => Count(frontBlock) = 0
      BY Block DEF IInv, Typed, Count, Dist
    <3> QED
      BY <3>1, <3>2, EmptyIsTaken
  <2>7. ReaderKnows' /\ InOrder'
    BY <1>0, <1>1, <1>2, <1>6, <2>1, <2>6 DEF IInv, ReaderKnows, InOrder
  <2> QED
    BY <2>1, <2>4, <2>5, <2>7 DEF IInv
<1> QED
  BY <1>3, <1>5, <1>6

LEMMA AgainKeeps ==
  ASSUME IInv, Again
  PROVE  IInv'
<1>0. PICK b \in Blocks : b = frontBlock
  BY DEF IInv, Typed
<1>1. /\ reader.pc = "again" /\ UNCHANGED <<frontBlock, tailBlock, largestBlockSize, writer, put>>
      /\ blocks' = [blocks EXCEPT ![b].localTail = blocks[b].tail]
  BY <1>0 DEF Again
<1>2. /\ reader'.taken = reader.taken /\ reader'.started = reader.started /\ reader' \in Readers
      /\ reader'.pc = IF blocks[b].front = blocks[b].tail THEN "next" ELSE "take"
  BY <1>0, TypedThreads DEF Again, ReaderGoes, StillEmpty, NotEmpty, IInv, Readers
<1>3. /\ Typed' /\ ShadowsLag' /\ Len(blocks') = Len(blocks)
      /\ blocks'[b].localTail = blocks[b].tail
      /\ \A c \in Blocks : /\ Size(c)' = Size(c) /\ Count(c)' = Count(c)
                           /\ blocks'[c].next = blocks[c].next
                           /\ blocks'[c].front = blocks[c].front /\ blocks'[c].tail = blocks[c].tail
                           /\ blocks'[c].localFront = blocks[c].localFront
                           /\ blocks'[c].data = blocks[c].data
  BY <1>0, <1>1, <1>2, ShadowRenewed
<1>4. LastBlock' = LastBlock /\ Number' = Number
  <2>1. blocks'[tailBlock].next = blocks[tailBlock].next
    BY <1>3 DEF IInv, Typed
  <2> QED
    BY <1>1, <2>1 DEF LastBlock, Number
<1>5. PICK rank, first : Ring(rank, first)
  BY DEF IInv, HasRing
<1>6. Ring(rank, first)'
  BY <1>1, <1>2, <1>3, <1>4, <1>5, RingStays DEF IInv
<1>7. HasRing'
  BY <1>6 DEF HasRing
<1>8. WriterKnows'
  BY <1>1, <1>3, WriterStillKnows DEF IInv, WriterKnows
<1>9. reader'.pc = "next" => Count(frontBlock)' = 0
  <2>1. reader'.pc = "next" => blocks[b].front = blocks[b].tail
    BY <1>2
  <2>2. blocks[b].front = blocks[b].tail => Count(b) = 0
    BY Block DEF IInv, Count, Dist
  <2>3. Count(frontBlock)' = Count(b)
    BY <1>0, <1>1, <1>3
  <2> QED
    BY <2>1, <2>2, <2>3
<1>10. ReaderKnows' /\ InOrder'
  BY <1>0, <1>1, <1>2, <1>3, <1>9 DEF IInv, ReaderKnows, InOrder
<1> QED
  BY <1>3, <1>7, <1>8, <1>10 DEF IInv

LEMMA TakeKeeps ==
  ASSUME IInv, Take
  PROVE  IInv'
<1>0. PICK b \in Blocks : b = frontBlock
  BY DEF IInv, Typed
<1>1. /\ reader.pc = "take" /\ UNCHANGED <<frontBlock, tailBlock, largestBlockSize, writer, put>>
  BY DEF Take
<1>2. /\ Count(b) > 0 /\ Count(b) \in Nat /\ blocks[b].front # blocks[b].localTail
      /\ blocks[b].data[blocks[b].front] = reader.taken + 1 /\ reader.taken + 1 \in Nat /\ reader.taken + 1 # None
  <2>1. Count(b) > 0 /\ Count(b) \in Nat /\ blocks[b].front # blocks[b].localTail
    BY <1>0, <1>1, FrontHasItem, Block DEF IInv, ReaderKnows
  <2>2. blocks[b].data[blocks[b].front] = reader.taken + 1
    BY <1>0, <1>1, <2>1, FirstItem
  <2> QED
    BY <2>1, <2>2, TypedThreads DEF IInv, None
<1>3. CASE reader.op = "peek"
  <2>1. /\ blocks' = blocks
        /\ reader' = [reader EXCEPT !.pc = "idle", !.got = reader.taken + 1, !.taken = reader.taken]
    BY <1>0, <1>2, <1>3 DEF Take, DequeueReturns
  <2>2. /\ reader'.taken = reader.taken /\ reader'.started = reader.started /\ reader'.op = reader.op
        /\ reader'.pc = "idle" /\ reader'.got = reader.taken + 1 /\ reader' \in Readers
    BY <1>2, <2>1, TypedThreads DEF IInv, Readers
  <2>3. LastBlock' = LastBlock /\ Number' = Number /\ tailBlock' \in Blocks
    BY <1>1, <2>1 DEF LastBlock, Number, IInv, Typed
  <2>4. ShadowsLag' /\ HasRing'
    BY <1>1, <2>1, <2>2, <2>3, QuietKeeps
  <2>5. Typed'
    BY <1>1, <2>1, <2>2, <2>3, QuietKeeps DEF IInv, Typed
  <2>6. WriterKnows'
    BY <1>1, <2>1, Quiet, WriterStillKnows DEF IInv, WriterKnows
  <2>7. ReaderKnows' /\ InOrder'
    BY <1>1, <1>2, <1>3, <2>2 DEF IInv, ReaderKnows, InOrder
  <2> QED
    BY <2>4, <2>5, <2>6, <2>7 DEF IInv
<1>4. CASE reader.op # "peek"
  <2> DEFINE r == [blocks[b] EXCEPT !.data[blocks[b].front] = None]
  <2>1. /\ blocks' = [blocks EXCEPT ![b] = r]
        /\ reader' = [reader EXCEPT !.pc = "front", !.got = reader.taken + 1]
    BY <1>0, <1>2, <1>4 DEF Take
  <2>2. /\ reader'.taken = reader.taken /\ reader'.started = reader.started /\ reader'.op = reader.op
        /\ reader'.pc = "front" /\ reader'.got = reader.taken + 1 /\ reader' \in Readers
    BY <1>2, <2>1, TypedThreads DEF IInv, Readers
  <2>3. PICK s, f, t : /\ s = Size(b) /\ f = blocks[b].front /\ t = blocks[b].tail
                       /\ s \in Nat /\ f \in 0..(s - 1) /\ t \in 0..(s - 1)
                       /\ Count(b) = Dist(f, t, s)
    BY Block DEF IInv, Count
  <2>4. f # t
    BY <1>2, <2>3 DEF Dist
  <2>5. /\ r \in BlockOf(s) /\ r.next = blocks[b].next
        /\ r.front = f /\ r.tail = t
        /\ r.localTail = blocks[b].localTail /\ r.localFront = blocks[b].localFront
        /\ r.data[f] = None /\ \A j \in 0..(s - 1) : j # f => r.data[j] = blocks[b].data[j]
    <3>1. PICK q, x : q = blocks[b] /\ q \in BlockOf(s) /\ x = None /\ x \in Nat
      BY <2>3, Block DEF IInv, None
    <3>2. r = [q EXCEPT !.data[f] = x]
      BY <2>3, <3>1
    <3> HIDE DEF r
    <3> QED
      BY <2>3, <3>1, <3>2, DataSet
  <2> HIDE DEF r
  <2>6. Typed'
    BY <1>0, <1>1, <2>1, <2>2, <2>3, <2>5, TypedThreads, StoreTypes DEF IInv
  <2>7. ShadowsLag'
    <3>1. /\ Dist(r.front, r.localTail, s) <= Dist(r.front, r.tail, s)
          /\ Dist(r.front, r.tail, s) <= Dist(r.localFront, r.tail, s)
      BY <2>3, <2>5 DEF IInv, ShadowsLag
    <3> QED
      BY <2>1, <2>3, <2>5, <3>1, StoreShadows DEF IInv
  <2>8. /\ Len(blocks') = Len(blocks) /\ Blocks' = Blocks /\ blocks'[b] = r /\ Size(b)' = s
        /\ \A c \in Blocks : blocks'[c].next = blocks[c].next /\ Size(c)' = Size(c)
        /\ \A c \in Blocks : c # b => blocks'[c] = blocks[c] /\ Count(c)' = Count(c)
    BY <2>1, <2>3, <2>5, Updated DEF IInv
  <2>9. Count(b)' = Count(b)
    BY <2>3, <2>5, <2>8 DEF Count
  <2>10. LastBlock' = LastBlock /\ Number' = Number
    BY <1>1, <2>8 DEF LastBlock, Number, IInv, Typed
  <2>11. WriterKnows'
    <3>1. \A c \in Blocks : /\ blocks'[c].tail = blocks[c].tail
                            /\ blocks'[c].localFront = blocks[c].localFront
                            /\ blocks'[c].data[blocks[c].tail] = blocks[c].data[blocks[c].tail]
                            /\ blocks'[c].front = blocks[c].front
      BY <2>3, <2>4, <2>5, <2>8
    <3> QED
      BY <1>1, <2>8, <3>1, WriterStillKnows DEF IInv, WriterKnows
  <2>12. ReaderKnows' /\ InOrder'
    BY <1>0, <1>1, <1>2, <1>4, <2>2, <2>3, <2>5, <2>8 DEF IInv, ReaderKnows, InOrder
  <2>13. PICK rank, first : Ring(rank, first)
    BY DEF IInv, HasRing
  <2>14. Circle(rank)'
    BY <1>1, <2>8, <2>13, CircleStays DEF IInv, Ring
  <2>15. Filled(rank)' /\ Numbered(rank, first)'
    <3>1. Blocks' = Blocks /\ \A c \in Blocks : Count(c)' = Count(c) /\ blocks'[c].next = blocks[c].next
      BY <2>8, <2>9
    <3>2. LastBlock \in Blocks
      BY LastIsBlock DEF IInv
    <3>3. Filled(rank)'
      BY <2>10, <2>13, <3>1, <3>2 DEF Ring, Filled
    <3>4. Numbered(rank, first)'
      BY <1>1, <2>2, <2>10, <2>13, <3>1, <3>2 DEF Ring, Numbered
    <3> QED
      BY <3>3, <3>4
  <2>16. Holds(rank, first)'
    <3> SUFFICES ASSUME NEW c \in Blocks, rank[c] <= rank[LastBlock], NEW j \in 0..(Count(c)' - 1)
                 PROVE  blocks'[c].data[Step(blocks'[c].front, j, Size(c)')]
                          = IF c = b /\ j = 0 THEN None ELSE first[c] + j
      BY <1>0, <1>1, <2>2, <2>8, <2>10 DEF Holds
    <3>1. CASE c # b
      BY <1>0, <1>1, <2>8, <2>13, <3>1 DEF Ring, Holds
    <3>2. CASE c = b
      <4>1. j \in 0..(s - 1) /\ j \in 0..(Count(b) - 1)
        BY <2>3, <2>9, <3>2, TailIsFree
      <4>2. Step(f, j, s) \in 0..(s - 1) /\ (Step(f, j, s) = f <=> j = 0)
        BY <2>3, <4>1 DEF Step
      <4>3. blocks[b].data[Step(f, j, s)] = first[b] + j
        BY <1>0, <1>1, <2>3, <2>13, <3>2, <4>1 DEF Ring, Holds
      <4> QED
        BY <2>5, <2>8, <3>2, <4>2, <4>3
    <3> QED
      BY <3>1, <3>2
  <2>17. HasRing'
    BY <2>13, <2>14, <2>15, <2>16 DEF Ring, HasRing
  <2> QED
    BY <2>6, <2>7, <2>11, <2>12, <2>17 DEF IInv
<1> QED
  BY <1>3, <1>4

(* The item is no longer counted; the next one is the first. *)
LEMMA FrontKeeps ==
  ASSUME IInv, Front
  PROVE  IInv'
<1>0. PICK b \in Blocks : b = frontBlock
  BY DEF IInv, Typed
<1>1. /\ reader.pc = "front" /\ UNCHANGED <<frontBlock, tailBlock, largestBlockSize, writer, put>>
      /\ reader.got = reader.taken + 1 /\ reader.op # "peek" /\ blocks[b].front # blocks[b].localTail
  BY <1>0 DEF Front, IInv, ReaderKnows, InOrder
<1>2. /\ reader'.taken = reader.taken + 1 /\ reader'.got = reader.taken + 1 /\ reader'.pc = "idle"
      /\ reader'.started = reader.started /\ reader'.op = reader.op
      /\ reader' \in Readers /\ reader.taken \in Nat /\ reader'.got # None
  <2>1. reader \in Readers /\ reader.taken \in Nat /\ reader.got \in Nat
    BY TypedThreads DEF IInv
  <2>2. reader' = [reader EXCEPT !.pc = "idle", !.got = reader.got, !.taken = reader.got]
    BY <1>1, <2>1 DEF Front, DequeueReturns
  <2>3. /\ reader'.taken = reader.got /\ reader'.got = reader.got /\ reader'.pc = "idle"
        /\ reader'.started = reader.started /\ reader'.op = reader.op /\ reader' \in Readers
    BY <2>1, <2>2 DEF Readers
  <2> QED
    BY <1>1, <2>1, <2>3 DEF None
<1> DEFINE g == After(b, blocks[b].front)
           r == [blocks[b] EXCEPT !.front = g]
<1>3. blocks' = [blocks EXCEPT ![b] = r]
  BY <1>0 DEF Front
<1>4. PICK s, f, t, l, k :
        /\ s = Size(b) /\ f = blocks[b].front /\ t = blocks[b].tail
        /\ l = blocks[b].localTail /\ k = blocks[b].localFront
        /\ s \in Nat /\ s >= 2 /\ f \in 0..(s - 1) /\ t \in 0..(s - 1) /\ l \in 0..(s - 1) /\ k \in 0..(s - 1)
        /\ g = (IF f = s - 1 THEN 0 ELSE f + 1) /\ g \in 0..(s - 1) /\ f # l
        /\ Count(b) = Dist(f, t, s) /\ Count(b) \in Nat
        /\ Dist(f, l, s) <= Dist(f, t, s) /\ Dist(f, t, s) <= Dist(k, t, s)
  <2>1. PICK s, f, t, l, k :
          /\ s = Size(b) /\ f = blocks[b].front /\ t = blocks[b].tail
          /\ l = blocks[b].localTail /\ k = blocks[b].localFront
    OBVIOUS
  <2>2. /\ s \in Nat /\ s >= 2 /\ f \in 0..(s - 1) /\ t \in 0..(s - 1) /\ l \in 0..(s - 1) /\ k \in 0..(s - 1)
        /\ g = (IF f = s - 1 THEN 0 ELSE f + 1) /\ g \in 0..(s - 1) /\ Count(b) \in Nat
    <3>1. /\ Size(b) \in Nat /\ Size(b) >= 2 /\ Count(b) \in Nat
          /\ blocks[b].front \in 0..(Size(b) - 1) /\ blocks[b].tail \in 0..(Size(b) - 1)
          /\ blocks[b].localTail \in 0..(Size(b) - 1) /\ blocks[b].localFront \in 0..(Size(b) - 1)
      BY Block DEF IInv
    <3>2. \A i \in 0..(Size(b) - 1) : /\ After(b, i) = IF i = Size(b) - 1 THEN 0 ELSE i + 1
                                     /\ After(b, i) \in 0..(Size(b) - 1)
      BY Block DEF IInv
    <3>3. /\ g = (IF blocks[b].front = Size(b) - 1 THEN 0 ELSE blocks[b].front + 1)
          /\ g \in 0..(Size(b) - 1)
      BY <3>1, <3>2
    <3> HIDE DEF g
    <3> QED
      BY <2>1, <3>1, <3>3
  <2>3. Count(b) = Dist(f, t, s)
    BY <2>1 DEF Count
  <2>4. Dist(f, l, s) <= Dist(f, t, s) /\ Dist(f, t, s) <= Dist(k, t, s)
    BY <2>1, <2>3 DEF IInv, ShadowsLag
  <2> HIDE DEF g
  <2> QED
    BY <1>1, <2>1, <2>2, <2>3, <2>4
<1>5. /\ r \in BlockOf(s) /\ r.next = blocks[b].next
      /\ r.front = g /\ r.tail = t /\ r.localTail = l /\ r.localFront = k
      /\ r.data = blocks[b].data
  <2>1. PICK q, x : q = blocks[b] /\ q \in BlockOf(s) /\ x = g /\ x \in 0..(s - 1)
    BY <1>4, Block DEF IInv
  <2>2. r = [q EXCEPT !.front = x]
    BY <2>1
  <2> HIDE DEF r, g
  <2> QED
    BY <1>4, <2>1, <2>2, FrontSet
<1> HIDE DEF r, g
<1>6. PICK h : h = g
  OBVIOUS
<1>7. /\ Dist(h, t, s) = Count(b) - 1 /\ Count(b) > 0
      /\ Dist(h, l, s) <= Dist(h, t, s) /\ Dist(h, t, s) <= Dist(k, t, s)
      /\ \A j \in 0..(Dist(h, t, s) - 1) : j + 1 \in 0..(Count(b) - 1) /\ Step(h, j, s) = Step(f, j + 1, s)
  <2>1. h = IF f = s - 1 THEN 0 ELSE f + 1
    BY <1>4, <1>6
  <2> QED
    <3>1. /\ s \in Nat /\ s >= 2 /\ f \in 0..(s - 1) /\ t \in 0..(s - 1) /\ l \in 0..(s - 1) /\ k \in 0..(s - 1)
          /\ f # l /\ Dist(f, l, s) <= Dist(f, t, s) /\ Dist(f, t, s) <= Dist(k, t, s)
      BY <1>4
    <3>2. /\ Dist(h, t, s) = Dist(f, t, s) - 1 /\ Dist(f, t, s) > 0
          /\ Dist(h, l, s) <= Dist(h, t, s) /\ Dist(h, t, s) <= Dist(k, t, s)
          /\ \A j \in 0..(Dist(h, t, s) - 1) : j + 1 \in 0..(Dist(f, t, s) - 1) /\ Step(h, j, s) = Step(f, j + 1, s)
      BY <2>1, <3>1, FrontMoves
    <3> QED
      BY <1>4, <3>2
<1>8. Typed'
  BY <1>0, <1>1, <1>2, <1>3, <1>4, <1>5, TypedThreads, StoreTypes DEF IInv
<1>9. ShadowsLag'
  BY <1>3, <1>4, <1>5, <1>6, <1>7, StoreShadows DEF IInv
<1>10. /\ Len(blocks') = Len(blocks) /\ Blocks' = Blocks /\ blocks'[b] = r /\ Size(b)' = s
       /\ \A c \in Blocks : blocks'[c].next = blocks[c].next /\ Size(c)' = Size(c)
       /\ \A c \in Blocks : c # b => blocks'[c] = blocks[c] /\ Count(c)' = Count(c)
  BY <1>3, <1>4, <1>5, Updated DEF IInv
<1>11. Count(b)' = Count(b) - 1
  BY <1>5, <1>6, <1>7, <1>10 DEF Count
<1>12. LastBlock' = LastBlock /\ Number' = Number /\ LastBlock \in Blocks /\ Number \in Nat
  BY <1>1, <1>10, LastIsBlock DEF LastBlock, Number, IInv, Typed
<1>13. WriterKnows'
  <2>1. \A c \in Blocks : /\ blocks'[c].tail = blocks[c].tail
                          /\ blocks'[c].localFront = blocks[c].localFront
                          /\ blocks'[c].data[blocks[c].tail] = blocks[c].data[blocks[c].tail]
                          /\ c # frontBlock => blocks'[c].front = blocks[c].front
    BY <1>0, <1>4, <1>5, <1>10
  <2> QED
    BY <1>1, <1>10, <2>1, WriterStillKnows DEF IInv, WriterKnows
<1>14. ReaderKnows' /\ InOrder'
  BY <1>1, <1>2 DEF IInv, ReaderKnows, InOrder
<1>15. PICK rank, first : Ring(rank, first)
  BY DEF IInv, HasRing
<1>16. /\ \A c \in Blocks : rank[c] \in Nat
       /\ rank[b] = 0 /\ first \in [Blocks -> Nat] /\ first[b] = reader.taken + 1
       /\ \A c \in Blocks : rank[c] < rank[LastBlock] => blocks[c].next # b /\ blocks[c].next \in Blocks
  <2>1. /\ \A c \in Blocks : rank[c] \in Nat
        /\ rank[b] = 0 /\ first \in [Blocks -> Nat] /\ first[b] = reader.taken + 1
    BY <1>0, <1>15, NextRank DEF IInv, Ring, Circle, Numbered
  <2>2. ASSUME NEW c \in Blocks, rank[c] < rank[LastBlock]
        PROVE  blocks[c].next # b /\ blocks[c].next \in Blocks
    <3>1. blocks[c].next = frontBlock => rank[c] = Len(blocks) - 1
      BY <1>15, NextRank DEF IInv, Ring
    <3>2. rank[LastBlock] < Len(blocks) /\ rank[LastBlock] \in Nat /\ rank[c] \in Nat /\ Len(blocks) \in Nat
      BY <1>12, <1>15, NextRank DEF IInv, Ring
    <3>3. blocks[c].next # frontBlock
      BY <2>2, <3>1, <3>2
    <3> QED
      BY <1>0, <3>3, Block DEF IInv
  <2> QED
    BY <2>1, <2>2
<1>17. PICK rest \in [Blocks -> Nat] : rest[b] = reader.taken + 2 /\ \A c \in Blocks : c # b => rest[c] = first[c]
  <2>1. [first EXCEPT ![b] = reader.taken + 2] \in [Blocks -> Nat]
    BY <1>2, <1>16
  <2> QED
    BY <1>16, <2>1
<1>18. Circle(rank)'
  BY <1>1, <1>10, <1>15, CircleStays DEF IInv, Ring
<1>19. Filled(rank)'
  <2>1. ASSUME NEW c \in Blocks
        PROVE  IF rank[c] > rank[LastBlock] THEN Count(c)' = 0 ELSE rank[c] > 0 => Count(c)' > 0
    <3>1. CASE c = b
      BY <1>12, <1>16, <3>1
    <3>2. CASE c # b
      BY <1>10, <1>15, <3>2 DEF Ring, Filled
    <3> QED
      BY <3>1, <3>2
  <2> QED
    BY <1>10, <1>12, <2>1 DEF Filled
<1>20. Numbered(rank, rest)'
  <2>1. ASSUME NEW c \in Blocks
        PROVE  rest[c] + Count(c)' = first[c] + Count(c)
    <3>1. CASE c = b
      BY <1>2, <1>4, <1>11, <1>16, <1>17, <3>1
    <3>2. CASE c # b
      BY <1>10, <1>17, <3>2
    <3> QED
      BY <3>1, <3>2
  <2>2. ASSUME NEW c \in Blocks, rank[c] < rank[LastBlock]
        PROVE  rest[blocks'[c].next] = rest[c] + Count(c)'
    <3>1. first[blocks[c].next] = first[c] + Count(c)
      BY <1>15, <2>2 DEF Ring, Numbered
    <3> QED
      BY <1>10, <1>16, <1>17, <2>1, <2>2, <3>1
  <2>3. rest[LastBlock] + Count(LastBlock)' = Number + 1
    <3>1. first[LastBlock] + Count(LastBlock) = Number + 1
      BY <1>15 DEF Ring, Numbered
    <3>2. PICK c \in Blocks : c = LastBlock
      BY <1>12
    <3>3. rest[c] + Count(c)' = Number + 1
      BY <2>1, <3>1, <3>2
    <3>4. c = LastBlock'
      BY <1>12, <3>2
    <3> QED
      BY <3>2, <3>3, <3>4 DEF Count, Size
  <2>4. rest[frontBlock'] = reader'.taken + 1
    BY <1>0, <1>1, <1>2, <1>17
  <2> QED
    BY <1>10, <1>12, <1>17, <2>2, <2>3, <2>4 DEF Numbered
<1>21. Holds(rank, rest)'
  <2> SUFFICES ASSUME NEW c \in Blocks, rank[c] <= rank[LastBlock], NEW j \in 0..(Count(c)' - 1)
               PROVE  blocks'[c].data[Step(blocks'[c].front, j, Size(c)')] = rest[c] + j
    BY <1>2, <1>10, <1>12 DEF Holds
  <2>1. CASE c # b
    BY <1>0, <1>10, <1>15, <1>17, <2>1 DEF Ring, Holds
  <2>2. CASE c = b
    <3>1. j + 1 \in 0..(Count(b) - 1) /\ Step(h, j, s) = Step(f, j + 1, s) /\ j \in Nat
      BY <1>7, <1>11, <2>2
    <3>2. blocks[b].data[Step(f, j + 1, s)] = first[b] + (j + 1)
      BY <1>4, <1>15, <2>2, <3>1 DEF Ring, Holds
    <3>3. first[b] + (j + 1) = rest[b] + j
      BY <1>2, <1>16, <1>17, <3>1
    <3> QED
      BY <1>5, <1>6, <1>10, <2>2, <3>1, <3>2, <3>3
  <2> QED
    BY <2>1, <2>2
<1>22. HasRing'
  BY <1>18, <1>19, <1>20, <1>21 DEF Ring, HasRing
<1> QED
  BY <1>8, <1>9, <1>13, <1>14, <1>22 DEF IInv

(* The writer has gone on from an empty front block: the next one has the  *)
(* next item.                                                              *)
LEMMA NextHasItem ==
  ASSUME IInv, reader.pc = "next", NEW rank, NEW first, Ring(rank, first),
         NEW b, b = blocks[frontBlock].next
  PROVE  /\ b \in Blocks /\ b # frontBlock /\ frontBlock \in Blocks
         /\ rank[b] = 1 /\ rank[frontBlock] = 0 /\ rank[LastBlock] \in Nat /\ rank[LastBlock] >= 1
         /\ Count(b) > 0 /\ Count(frontBlock) = 0 /\ first[b] = reader.taken + 1
         /\ blocks[b].data[blocks[b].front] = reader.taken + 1
<1>1. /\ frontBlock \in Blocks /\ tailBlock \in Blocks /\ LastBlock \in Blocks /\ b \in Blocks
      /\ frontBlock # tailBlock /\ Count(frontBlock) = 0
  BY LastIsBlock, Block DEF IInv, Typed, ReaderKnows
<1>2. LastBlock # frontBlock
  BY <1>1 DEF LastBlock, IInv, WriterKnows
<1>3. /\ rank[frontBlock] = 0 /\ rank[LastBlock] \in Nat /\ rank[LastBlock] # 0
      /\ rank[LastBlock] < Len(blocks) /\ Len(blocks) \in Nat
  BY <1>1, <1>2, NextRank DEF IInv, Ring, Circle
<1>4. b # frontBlock /\ rank[b] = 1
  <2>1. b = frontBlock => rank[frontBlock] = Len(blocks) - 1
    BY <1>1, NextRank DEF IInv, Ring
  <2>2. b # frontBlock
    <3>1. PICK n, x : n = Len(blocks) /\ x = rank[LastBlock] /\ n \in Nat /\ x \in Nat /\ x # 0 /\ x < n
      BY <1>3
    <3>2. n - 1 # 0
      BY <3>1
    <3> QED
      BY <1>3, <2>1, <3>1, <3>2
  <2>3. rank[b] = rank[frontBlock] + 1
    BY <1>1, <2>2, NextRank DEF IInv, Ring
  <2> QED
    BY <1>3, <2>2, <2>3
<1>5. Count(b) > 0
  BY <1>1, <1>3, <1>4 DEF Ring, Filled
<1>6. first[b] = reader.taken + 1
  <2>1. first[b] = first[frontBlock] + 0 /\ first[frontBlock] = reader.taken + 1
    BY <1>1, <1>3 DEF Ring, Numbered
  <2> QED
    BY <2>1, TypedThreads DEF IInv
<1>7. blocks[b].data[blocks[b].front] = reader.taken + 1
  <2>1. PICK s, f : s = Size(b) /\ f = blocks[b].front /\ s \in Nat /\ f \in 0..(s - 1)
    BY <1>1, Block DEF IInv
  <2>2. Step(f, 0, s) = f
    BY <2>1 DEF Step
  <2>3. 0 \in 0..(Count(b) - 1)
    BY <1>1, <1>5, Block DEF IInv
  <2>4. blocks[b].data[Step(f, 0, s)] = first[b] + 0
    BY <1>1, <1>3, <1>4, <2>1, <2>3 DEF Ring, Holds
  <2> QED
    BY <1>6, <2>1, <2>2, <2>4, TypedThreads DEF IInv
<1> QED
  BY <1>1, <1>3, <1>4, <1>5, <1>6, <1>7

LEMMA NextBlockKeeps ==
  ASSUME IInv, NextBlock
  PROVE  IInv'
<1>1. /\ reader.pc = "next" /\ UNCHANGED <<tailBlock, largestBlockSize, writer, put>>
  BY DEF NextBlock
<1>2. PICK rank, first, b, a : Ring(rank, first) /\ b = blocks[frontBlock].next /\ a = frontBlock
  BY DEF IInv, HasRing
<1>3. /\ b \in Blocks /\ b # a /\ a \in Blocks
      /\ rank[b] = 1 /\ rank[a] = 0 /\ rank[LastBlock] \in Nat /\ rank[LastBlock] >= 1
      /\ Count(b) > 0 /\ Count(a) = 0 /\ first[b] = reader.taken + 1
      /\ blocks[b].data[blocks[b].front] = reader.taken + 1
      /\ reader.taken + 1 \in Nat /\ reader.taken + 1 # None
  BY <1>1, <1>2, NextHasItem, TypedThreads DEF IInv, None
<1>4. CASE reader.op = "peek"
  <2>1. /\ blocks' = blocks /\ frontBlock' = frontBlock
        /\ reader' = [reader EXCEPT !.pc = "idle", !.got = reader.taken + 1, !.taken = reader.taken]
    BY <1>2, <1>3, <1>4 DEF NextBlock, DequeueReturns
  <2>2. /\ reader'.taken = reader.taken /\ reader'.started = reader.started /\ reader'.op = reader.op
        /\ reader'.pc = "idle" /\ reader'.got = reader.taken + 1 /\ reader' \in Readers
    BY <1>3, <2>1, TypedThreads DEF IInv, Readers
  <2>3. LastBlock' = LastBlock /\ Number' = Number /\ tailBlock' \in Blocks
    BY <1>1, <2>1 DEF LastBlock, Number, IInv, Typed
  <2>4. ShadowsLag' /\ HasRing'
    BY <1>1, <2>1, <2>2, <2>3, QuietKeeps
  <2>5. Typed'
    BY <1>1, <2>1, <2>2, <2>3, QuietKeeps DEF IInv, Typed
  <2>6. WriterKnows'
    BY <1>1, <2>1, Quiet, WriterStillKnows DEF IInv, WriterKnows
  <2>7. ReaderKnows' /\ InOrder'
    BY <1>1, <1>3, <1>4, <2>1, <2>2 DEF IInv, ReaderKnows, InOrder
  <2> QED
    BY <2>4, <2>5, <2>6, <2>7 DEF IInv
<1>5. CASE reader.op # "peek"
  <2>1. /\ blocks' = [blocks EXCEPT ![b].localTail = blocks[b].tail] /\ frontBlock' = b
        /\ reader' = [reader EXCEPT !.pc = "take"]
    BY <1>2, <1>5 DEF NextBlock, ReaderGoes
  <2>2. /\ reader'.taken = reader.taken /\ reader'.started = reader.started /\ reader'.op = reader.op
        /\ reader'.pc = "take" /\ reader' \in Readers
    BY <2>1, TypedThreads DEF IInv, Readers
  <2>3. /\ Typed' /\ ShadowsLag' /\ Len(blocks') = Len(blocks) /\ Blocks' = Blocks
        /\ blocks'[b].localTail = blocks[b].tail
        /\ \A c \in Blocks : /\ Size(c)' = Size(c) /\ Count(c)' = Count(c)
                             /\ blocks'[c].next = blocks[c].next
                             /\ blocks'[c].front = blocks[c].front /\ blocks'[c].tail = blocks[c].tail
                             /\ blocks'[c].localFront = blocks[c].localFront
                             /\ blocks'[c].data = blocks[c].data
    BY <1>1, <1>3, <2>1, <2>2, ShadowRenewed
  <2>4. LastBlock' = LastBlock /\ Number' = Number /\ LastBlock \in Blocks /\ tailBlock \in Blocks
    BY <1>1, <2>3, LastIsBlock DEF LastBlock, Number, IInv, Typed
  <2>5. WriterKnows'
    <3>1. blocks[tailBlock].next # b
      <4>1. tailBlock # a
        BY <1>1, <1>2 DEF IInv, ReaderKnows
      <4>2. rank[tailBlock] # rank[a] /\ rank[tailBlock] \in Nat
        BY <1>2, <1>3, <2>4, <4>1, NextRank DEF IInv, Ring, Circle
      <4>3. rank[blocks[tailBlock].next] = IF rank[tailBlock] = Len(blocks) - 1 THEN 0 ELSE rank[tailBlock] + 1
        BY <1>2, <2>4 DEF Ring, Circle
      <4> QED
        BY <1>3, <4>2, <4>3
    <3> QED
      BY <1>1, <2>1, <2>3, <3>1, WriterStillKnows DEF IInv
  <2>6. ReaderKnows' /\ InOrder'
    <3>1. blocks[b].front # blocks[b].tail
      <4>1. blocks[b].front = blocks[b].tail => Count(b) = 0
        <5>1. PICK x, y, z : x = blocks[b].front /\ y = blocks[b].tail /\ z = Size(b)
          OBVIOUS
        <5>2. x \in 0..(z - 1)
          BY <1>3, <5>1, Block DEF IInv
        <5>3. x = y => Dist(x, y, z) = 0
          BY <5>2 DEF Dist
        <5> QED
          BY <5>1, <5>3 DEF Count
      <4> QED
        BY <1>3, <4>1
    <3> QED
      BY <1>1, <1>3, <1>5, <2>1, <2>2, <2>3, <3>1 DEF IInv, ReaderKnows, InOrder
  <2>7. \A c \in Blocks : rank[c] \in Nat /\ rank[c] < Len(blocks) /\ (rank[c] = 0 => c = a)
    BY <1>2, NextRank DEF IInv, Ring
  <2>8. PICK place \in [Blocks -> Int] :
          \A c \in Blocks : place[c] = IF rank[c] = 0 THEN Len(blocks) - 1 ELSE rank[c] - 1
    <3> DEFINE f == [c \in Blocks |-> IF rank[c] = 0 THEN Len(blocks) - 1 ELSE rank[c] - 1]
    <3>1. Len(blocks) - 1 \in Int
      BY DEF IInv, Typed
    <3>2. \A c \in Blocks : rank[c] - 1 \in Int
      BY <2>7
    <3>3. f \in [Blocks -> Int]
      BY <3>1, <3>2
    <3> QED
      BY <3>3
  <2>9. /\ Len(blocks) \in Nat /\ Len(blocks) >= 2
        /\ \A c \in Blocks : place[c] \in 0..(Len(blocks) - 1)
        /\ \A c \in Blocks : c # a => place[c] = rank[c] - 1
        /\ place[a] = Len(blocks) - 1
    <3>1. Len(blocks) \in Nat /\ Len(blocks) >= 2
      BY <1>3, <2>7 DEF IInv, Typed
    <3>2. ASSUME NEW c \in Blocks
          PROVE  /\ place[c] \in 0..(Len(blocks) - 1)
                 /\ c # a => place[c] = rank[c] - 1
      BY <2>7, <2>8, <3>1
    <3> QED
      BY <1>3, <2>8, <3>1, <3>2
  <2>10. Circle(place)'
    <3>1. place \in [Blocks' -> 0..(Len(blocks') - 1)]
      BY <2>3, <2>8, <2>9
    <3>2. ASSUME NEW c \in Blocks, NEW d \in Blocks, place[c] = place[d]
          PROVE  c = d
      <4>1. PICK x, y, n : x = rank[c] /\ y = rank[d] /\ n = Len(blocks)
        OBVIOUS
      <4>2. x \in Nat /\ y \in Nat /\ n \in Nat /\ x < n /\ y < n
        BY <2>7, <2>9, <4>1
      <4>3. (IF x = 0 THEN n - 1 ELSE x - 1) = (IF y = 0 THEN n - 1 ELSE y - 1)
        BY <2>8, <3>2, <4>1
      <4>4. x = y
        BY <4>2, <4>3
      <4> QED
        BY <1>2, <4>1, <4>4 DEF Ring, Circle
    <3>3. place[b] = 0
      BY <1>3, <2>8
    <3>4. ASSUME NEW c \in Blocks
          PROVE  place[blocks[c].next] = IF place[c] = Len(blocks) - 1 THEN 0 ELSE place[c] + 1
      <4>1. PICK d, x, y, n : d = blocks[c].next /\ x = rank[c] /\ y = rank[d] /\ n = Len(blocks)
        OBVIOUS
      <4>2. d \in Blocks
        BY <4>1, Block DEF IInv
      <4>3. x \in Nat /\ n \in Nat /\ x < n /\ n >= 2
        BY <2>7, <2>9, <4>1
      <4>4. y = IF x = n - 1 THEN 0 ELSE x + 1
        BY <1>2, <4>1 DEF Ring, Circle
      <4>5. place[d] = (IF y = 0 THEN n - 1 ELSE y - 1) /\ place[c] = (IF x = 0 THEN n - 1 ELSE x - 1)
        BY <2>8, <4>1, <4>2
      <4>6. place[d] = IF place[c] = n - 1 THEN 0 ELSE place[c] + 1
        BY <4>3, <4>4, <4>5
      <4> QED
        BY <4>1, <4>6
    <3> QED
      BY <2>1, <2>3, <3>1, <3>2, <3>3, <3>4 DEF Circle
  <2>11. /\ LastBlock # a /\ place[LastBlock] = rank[LastBlock] - 1
         /\ rank[LastBlock] < Len(blocks)
    BY <1>3, <2>4, <2>7, <2>9
  <2>12. Filled(place)'
    <3>1. ASSUME NEW c \in Blocks
          PROVE  IF place[c] > place[LastBlock] THEN Count(c) = 0 ELSE place[c] > 0 => Count(c) > 0
      <4>1. CASE c = a
        BY <1>3, <2>9, <2>11, <4>1
      <4>2. CASE c # a
        <5>1. place[c] = rank[c] - 1 /\ rank[c] \in Nat /\ rank[c] # 0
          BY <2>7, <2>9, <4>2
        <5>2. IF rank[c] > rank[LastBlock] THEN Count(c) = 0 ELSE rank[c] > 0 => Count(c) > 0
          BY <1>2 DEF Ring, Filled
        <5> QED
          BY <1>3, <2>11, <5>1, <5>2
      <4> QED
        BY <4>1, <4>2
    <3> QED
      BY <2>3, <2>4, <3>1 DEF Filled
  <2>13. Numbered(place, first)'
    <3>1. ASSUME NEW c \in Blocks, place[c] < place[LastBlock]
          PROVE  rank[c] < rank[LastBlock]
      <4>1. c # a
        BY <1>3, <2>9, <2>11, <3>1
      <4> QED
        BY <1>3, <2>7, <2>9, <2>11, <3>1, <4>1
    <3>2. \A c \in Blocks : place[c] < place[LastBlock] => first[blocks[c].next] = first[c] + Count(c)
      BY <1>2, <3>1 DEF Ring, Numbered
    <3>3. first \in [Blocks -> Nat] /\ first[LastBlock] + Count(LastBlock) = Number + 1
      BY <1>2 DEF Ring, Numbered
    <3>4. Count(LastBlock)' = Count(LastBlock)
      <4>1. PICK c \in Blocks : c = LastBlock /\ c = LastBlock'
        BY <2>4
      <4>2. Count(c)' = Count(c)
        BY <2>3
      <4> QED
        BY <4>1, <4>2 DEF Count, Size
    <3> QED
      BY <1>3, <2>1, <2>2, <2>3, <2>4, <3>2, <3>3, <3>4 DEF Numbered
  <2>14. Holds(place, first)'
    <3> SUFFICES ASSUME NEW c \in Blocks, place[c] <= place[LastBlock], NEW j \in 0..(Count(c) - 1)
                 PROVE  blocks[c].data[Step(blocks[c].front, j, Size(c))] = first[c] + j
      BY <2>2, <2>3, <2>4 DEF Holds
    <3>1. c # a
      BY <1>3, <2>9, <2>11
    <3>2. rank[c] <= rank[LastBlock]
      BY <1>3, <2>7, <2>9, <2>11, <3>1
    <3> QED
      BY <1>1, <1>2, <3>1, <3>2 DEF Ring, Holds
  <2>15. HasRing'
    BY <2>10, <2>12, <2>13, <2>14 DEF Ring, HasRing
  <2> QED
    BY <2>3, <2>5, <2>6, <2>15 DEF IInv
<1> QED
  BY <1>4, <1>5

-----------------------------------------------------------------------------
(* The first blocks. *)

LEMMA AtLeastOne ==
  ASSUME NEW x \in Nat, NEW d \in Nat, d > 0, x >= d
  PROVE  x \div d \in Nat /\ x \div d >= 1
<1>1. PICK q \in Int : q = x \div d
  BY SMT
<1>2. d * q <= x /\ x < d * (q + 1)
  BY <1>1, SMT
<1>3. CASE q <= 0
  <2>1. d * (q + 1) <= d * 1
    BY <1>3, SMT
  <2> QED
    BY <1>2, <2>1
<1> QED
  BY <1>1, <1>3

(* Blocks of one size in a circle, in the order of their numbers. *)
LEMMA FirstCircle ==
  ASSUME PairInit
  PROVE  \E n, s : /\ n \in Nat /\ n >= 1 /\ s \in Nat /\ s >= 2
                   /\ blocks = [b \in 1..n |-> make_block(s, IF b = n THEN 1 ELSE b + 1)]
<1>1. PICK maxSize \in Sizes : blocks = FirstBlocks(maxSize)
  BY DEF PairInit
<1>2. PICK size : size = ceilToPow2(maxSize + 1)
  OBVIOUS
<1>3. /\ size \in Nat /\ size > maxSize /\ maxSize \in Nat /\ maxSize > 0
      /\ MAX_BLOCK_SIZE \in Nat /\ MAX_BLOCK_SIZE >= 2
  BY <1>2, QueueAssumption
<1>4. PICK count : count = (maxSize + MAX_BLOCK_SIZE * 2 - 3) \div (MAX_BLOCK_SIZE - 1)
  OBVIOUS
<1>5. count \in Nat /\ count >= 1
  <2>1. PICK x, d : x = maxSize + MAX_BLOCK_SIZE * 2 - 3 /\ d = MAX_BLOCK_SIZE - 1
    OBVIOUS
  <2>2. x \in Nat /\ d \in Nat /\ d > 0 /\ x >= d
    BY <1>3, <2>1
  <2> QED
    BY <1>4, <2>1, <2>2, AtLeastOne
<1>6. CASE size > MAX_BLOCK_SIZE * 2
  <2>1. blocks = [b \in 1..count |-> make_block(MAX_BLOCK_SIZE, IF b = count THEN 1 ELSE b + 1)]
    BY <1>1, <1>2, <1>4, <1>6 DEF FirstBlocks
  <2> QED
    BY <1>3, <1>5, <2>1
<1>7. CASE ~(size > MAX_BLOCK_SIZE * 2)
  <2>1. blocks = <<make_block(size, 1)>>
    BY <1>1, <1>2, <1>7 DEF FirstBlocks
  <2>2. blocks = [b \in 1..1 |-> make_block(size, 1)]
    BY <2>1
  <2>3. blocks = [b \in 1..1 |-> make_block(size, IF b = 1 THEN 1 ELSE b + 1)]
    BY <2>2
  <2>4. size >= 2
    BY <1>3
  <2> QED
    BY <1>3, <2>3, <2>4
<1> QED
  BY <1>6, <1>7

LEMMA InitIInv ==
  ASSUME PairInit
  PROVE  IInv
<1>1. PICK n, s : /\ n \in Nat /\ n >= 1 /\ s \in Nat /\ s >= 2
                  /\ blocks = [b \in 1..n |-> make_block(s, IF b = n THEN 1 ELSE b + 1)]
  BY FirstCircle
<1>2. /\ largestBlockSize = Cardinality(DOMAIN blocks[1].data) /\ frontBlock = 1 /\ tailBlock = 1
      /\ writer = [pc |-> "idle", mode |-> "CanAlloc", item |-> 1]
      /\ reader = [pc |-> "idle", op |-> "try_dequeue", got |-> None, started |-> 0, taken |-> 0]
      /\ put = 0
  BY DEF PairInit
<1>3. Len(blocks) = n /\ Blocks = 1..n
  <2> DEFINE S == {blocks[b] : b \in 1..n}
  <2>1. blocks \in [1..n -> S]
    BY <1>1
  <2> HIDE DEF S
  <2>2. blocks \in Seq(S)
    <3>1. n \in Nat
      BY <1>1
    <3> QED
      BY <2>1, <3>1, SeqDef, Zenon
  <2>3. Len(blocks) = n
    BY <1>1, <2>1, <2>2, LenProperties
  <2> QED
    BY <2>3 DEF Blocks
<1>4. ASSUME NEW b \in Blocks
      PROVE  /\ blocks[b].next = (IF b = n THEN 1 ELSE b + 1) /\ blocks[b].next \in Blocks
             /\ blocks[b].front = 0 /\ blocks[b].tail = 0 /\ blocks[b].localFront = 0 /\ blocks[b].localTail = 0
             /\ blocks[b].data = [i \in 0..(s - 1) |-> 0]
             /\ blocks[b] \in BlockOf(s) /\ Size(b) = s
             /\ Count(b) = 0 /\ Dist(0, 0, s) = 0
  <2>1. PICK x : x = (IF b = n THEN 1 ELSE b + 1) /\ x \in Blocks /\ x \in Nat
    BY <1>1, <1>3
  <2>2. blocks[b] = make_block(s, x)
    BY <1>1, <1>3, <2>1
  <2>3. /\ blocks[b].next = x
        /\ blocks[b].front = 0 /\ blocks[b].tail = 0 /\ blocks[b].localFront = 0 /\ blocks[b].localTail = 0
        /\ blocks[b].data = [i \in 0..(s - 1) |-> 0]
    BY <2>2 DEF make_block, None
  <2>4. blocks[b] \in BlockOf(s)
    <3>1. 0 \in 0..(s - 1) /\ [i \in 0..(s - 1) |-> 0] \in [0..(s - 1) -> Nat]
      BY <1>1
    <3>2. blocks[b] = [front |-> 0, localTail |-> 0, tail |-> 0, localFront |-> 0, next |-> x,
                       data |-> [i \in 0..(s - 1) |-> 0]]
      BY <2>2 DEF make_block, None
    <3> QED
      BY <2>1, <3>1, <3>2 DEF BlockOf
  <2>5. Size(b) = s
    BY <1>1, <2>3, SizeIs
  <2>6. Dist(0, 0, s) = 0
    BY <1>1 DEF Dist
  <2> QED
    BY <2>1, <2>3, <2>4, <2>5, <2>6 DEF Count
<1>5. Typed
  <2>1. largestBlockSize = s
    <3>1. 1 \in Blocks
      BY <1>1, <1>3
    <3>2. Size(1) = s
      BY <1>4, <3>1
    <3> QED
      BY <1>2, <3>2 DEF Size
  <2>2. writer \in Writers /\ reader \in Readers /\ writer.item = put + 1
    BY <1>2 DEF Writers, Readers, None
  <2>3. Len(blocks) \in Nat /\ blocks = [b \in Blocks |-> blocks[b]]
    BY <1>1, <1>3
  <2> QED
    BY <1>1, <1>2, <1>3, <1>4, <2>1, <2>2, <2>3 DEF Typed
<1>6. ShadowsLag
  BY <1>4 DEF ShadowsLag
<1>7. WriterKnows
  BY <1>2 DEF WriterKnows
<1>8. ReaderKnows /\ InOrder
  BY <1>2 DEF ReaderKnows, InOrder
<1>9. LastBlock = 1 /\ Number = 0 /\ 1 \in Blocks
  BY <1>1, <1>2, <1>3 DEF LastBlock, Number
<1>10. PICK rank \in [Blocks -> Nat] : \A b \in Blocks : rank[b] = b - 1
  <2> DEFINE f == [b \in Blocks |-> b - 1]
  <2>1. f \in [Blocks -> Nat]
    BY <1>3
  <2> QED
    BY <2>1
<1>11. PICK first \in [Blocks -> Nat] : \A b \in Blocks : first[b] = 1
  <2> DEFINE f == [b \in Blocks |-> 1]
  <2>1. f \in [Blocks -> Nat]
    OBVIOUS
  <2> QED
    BY <2>1
<1>12. Circle(rank)
  <2>1. rank \in [Blocks -> 0..(Len(blocks) - 1)]
    BY <1>1, <1>3, <1>10
  <2>2. \A b, c \in Blocks : rank[b] = rank[c] => b = c
    BY <1>1, <1>3, <1>10
  <2>3. \A b \in Blocks : rank[blocks[b].next] = IF rank[b] = Len(blocks) - 1 THEN 0 ELSE rank[b] + 1
    <3>1. ASSUME NEW b \in Blocks
          PROVE  rank[blocks[b].next] = IF rank[b] = Len(blocks) - 1 THEN 0 ELSE rank[b] + 1
      <4>1. b \in 1..n /\ blocks[b].next = (IF b = n THEN 1 ELSE b + 1)
        BY <1>3, <1>4
      <4>2. rank[b] = b - 1 /\ rank[blocks[b].next] = blocks[b].next - 1
        BY <1>4, <1>10
      <4> QED
        BY <1>1, <1>3, <4>1, <4>2
    <3> QED
      BY <3>1
  <2> QED
    BY <1>2, <1>9, <1>10, <2>1, <2>2, <2>3 DEF Circle
<1>13. Filled(rank)
  BY <1>3, <1>4, <1>9, <1>10 DEF Filled
<1>14. Numbered(rank, first)
  BY <1>2, <1>3, <1>4, <1>9, <1>10, <1>11 DEF Numbered
<1>15. Holds(rank, first)
  BY <1>4 DEF Holds
<1>16. HasRing
  BY <1>12, <1>13, <1>14, <1>15 DEF Ring, HasRing
<1> QED
  BY <1>5, <1>6, <1>7, <1>8, <1>16 DEF IInv

-----------------------------------------------------------------------------
LEMMA NextIInv == IInv /\ [PairNext]_spsc => IInv'
<1> SUFFICES ASSUME IInv, [PairNext]_spsc
             PROVE  IInv'
  OBVIOUS
<1>1. CASE Write
  <2>1. ASSUME NEW mode \in {"CanAlloc", "CannotAlloc"}, Enqueue(mode)
        PROVE  IInv'
    BY <2>1, EnqueueKeeps
  <2> QED
    BY <1>1, <2>1, RoomKeeps, ConstructHereKeeps, PublishKeeps, FullKeeps, ConstructNextKeeps,
       PublishNextKeeps, AllocKeeps, AllocFailsKeeps, AdvanceKeeps DEF Write
<1>2. CASE Read
  <2>1. ASSUME NEW op \in {"try_dequeue", "peek"}, Dequeue(op)
        PROVE  IInv'
    BY <2>1, DequeueKeeps
  <2> QED
    BY <1>2, <2>1, LookKeeps, AheadKeeps, AgainKeeps, TakeKeeps, FrontKeeps, NextBlockKeeps DEF Read
<1>3. CASE UNCHANGED spsc
  <2>1. blocks' = blocks /\ UNCHANGED <<frontBlock, tailBlock, largestBlockSize, writer, reader, put>>
    BY <1>3 DEF spsc
  <2>2. LastBlock' = LastBlock /\ Number' = Number /\ tailBlock' \in Blocks
    BY <2>1 DEF LastBlock, Number, IInv, Typed
  <2>3. ShadowsLag' /\ HasRing'
    BY <2>1, <2>2, QuietKeeps
  <2>4. Typed'
    BY <2>1, <2>2, QuietKeeps DEF IInv, Typed
  <2>5. WriterKnows'
    BY <2>1, Quiet, WriterStillKnows DEF IInv, WriterKnows
  <2>6. ReaderKnows' /\ InOrder'
    BY <2>1, Quiet, ReaderStillKnows DEF IInv, Typed
  <2> QED
    BY <2>3, <2>4, <2>5, <2>6 DEF IInv
<1> QED
  BY <1>1, <1>2, <1>3 DEF PairNext

LEMMA Invariant == PairSpec => []IInv
<1>1. PairInit => IInv
  BY InitIInv
<1> QED
  BY <1>1, NextIInv, PTL DEF PairSpec

(* Whatever the sizes, the numbers of blocks and of items, and however the *)
(* two threads interleave: an item is dequeued after the one before it, no *)
(* slot is read that has none, and a queue that is reported empty was so.  *)
THEOREM ItemsComeInOrder == PairSpec => []InOrder
<1>1. IInv => InOrder
  BY DEF IInv
<1> QED
  BY <1>1, Invariant, PTL

-----------------------------------------------------------------------------
(* Induction, for which the library's theorems take an operator: a set of  *)
(* numbers has a least one, and so a set that has 0 and the successors of  *)
(* its members has them all.                                               *)

LEMMA Least ==
  ASSUME NEW T \in SUBSET Nat, T # {}
  PROVE  \E n \in T : \A m \in T : n <= m
<1> DEFINE R == {p \in Nat \X Nat : p[1] < p[2]}
<1>1. IsWellFoundedOn(R, Nat)
  BY NatLessThanWellFounded DEF OpToRel
<1>2. \A m, n \in Nat : m < n => <<m, n>> \in R
  OBVIOUS
<1> HIDE DEF R
<1>3. PICK n \in T : \A y \in T : ~(<<y, n>> \in R)
  BY <1>1, WFMin
<1>4. \A m \in T : ~(m < n)
  BY <1>2, <1>3
<1> QED
  BY <1>4

LEMMA AllNumbers ==
  ASSUME NEW T, 0 \in T, \A i \in Nat : i \in T => i + 1 \in T
  PROVE  \A i \in Nat : i \in T
<1> SUFFICES ASSUME NEW k \in Nat, k \notin T
             PROVE  FALSE
  OBVIOUS
<1>1. PICK n \in {i \in Nat : i \notin T} : \A m \in {i \in Nat : i \notin T} : n <= m
  BY Least
<1>2. n \in Nat /\ n # 0
  BY <1>1
<1>3. n - 1 \in Nat /\ ~(n <= n - 1)
  BY <1>2
<1>4. n - 1 \in T
  BY <1>1, <1>3
<1>5. (n - 1) + 1 \in T /\ (n - 1) + 1 = n
  BY <1>2, <1>3, <1>4
<1> QED
  BY <1>1, <1>5

(* What is joined piece by piece: w[i] is the first i of the n pieces. *)
Joined(w, s, n) ==
  w = [i \in 1..n |-> w[i]] /\ w[1] = s[1] /\ \A i \in 2..n : w[i] = w[i - 1] \o s[i]

LEMMA FlattenIs ==
  ASSUME NEW n \in Nat, n > 0, NEW s, Len(s) = n, NEW w, Joined(w, s, n)
  PROVE  Extended!FlattenSeq(s) = w[n]
<1> DEFINE Joins(g) == g = [i \in 1..n |-> IF i = 1 THEN s[i] ELSE g[i - 1] \o s[i]]
           flat == CHOOSE g : Joins(g)
<1>1. Joins(w)
  <2>1. \A i \in 1..n : i = 1 \/ i \in 2..n
    OBVIOUS
  <2>2. \A i \in 1..n : w[i] = IF i = 1 THEN s[i] ELSE w[i - 1] \o s[i]
    BY <2>1 DEF Joined
  <2> QED
    BY <2>2 DEF Joined
<1>2. Joins(flat)
  <2> HIDE DEF Joins
  <2> QED
    BY <1>1
<1>3. Extended!FlattenSeq(s) = flat[n]
  BY DEF Extended!FlattenSeq
<1> HIDE DEF flat
<1>4. \A i \in 1..n : flat[i] = IF i = 1 THEN s[i] ELSE flat[i - 1] \o s[i]
  BY <1>2
<1> DEFINE T == {i \in Nat : i + 1 \in 1..n => flat[i + 1] = w[i + 1]}
<1>5. 0 \in T
  BY <1>4 DEF Joined
<1>6. ASSUME NEW i \in Nat, i \in T
      PROVE  i + 1 \in T
  <2> SUFFICES ASSUME (i + 1) + 1 \in 1..n
               PROVE  flat[(i + 1) + 1] = w[(i + 1) + 1]
    OBVIOUS
  <2>1. PICK k : k = (i + 1) + 1 /\ k \in 2..n /\ k \in 1..n /\ k # 1 /\ k - 1 = i + 1 /\ i + 1 \in 1..n
    OBVIOUS
  <2>2. flat[k - 1] = w[k - 1]
    BY <1>6, <2>1
  <2>3. flat[k] = flat[k - 1] \o s[k] /\ w[k] = w[k - 1] \o s[k]
    BY <1>4, <2>1 DEF Joined
  <2> QED
    BY <2>1, <2>2, <2>3
<1> HIDE DEF T
<1>7. \A i \in Nat : i \in T
  BY <1>5, <1>6, AllNumbers
<1>8. n - 1 \in Nat /\ (n - 1) + 1 = n
  OBVIOUS
<1>9. flat[n] = w[n]
  BY <1>7, <1>8 DEF T
<1> QED
  BY <1>3, <1>9

-----------------------------------------------------------------------------
(* The blocks from the front block on. *)

LEMMA BlockAtIs ==
  ASSUME Typed, NEW rank, Circle(rank)
  PROVE  /\ BlockAt[0] = frontBlock
         /\ \A i \in 0..(Len(blocks) - 1) : BlockAt[i] \in Blocks /\ rank[BlockAt[i]] = i
         /\ \A i \in 1..(Len(blocks) - 1) : BlockAt[i] = blocks[BlockAt[i - 1]].next
<1>1. PICK n : n = Len(blocks) /\ n \in Nat /\ n >= 1
  BY DEF Typed, Blocks
<1>2. /\ frontBlock \in Blocks /\ rank[frontBlock] = 0
      /\ \A b \in Blocks : rank[b] \in Nat /\ rank[b] < n /\ blocks[b].next \in Blocks
      /\ \A b, c \in Blocks : rank[b] = rank[c] => b = c
      /\ \A b \in Blocks : rank[blocks[b].next] = IF rank[b] = n - 1 THEN 0 ELSE rank[b] + 1
  BY <1>1, NextRank, Block DEF Typed, Circle
<1> DEFINE T == {i \in Nat : i < n => \E b \in Blocks : rank[b] = i}
<1>3. 0 \in T
  BY <1>2
<1>4. ASSUME NEW i \in Nat, i \in T
      PROVE  i + 1 \in T
  <2> SUFFICES ASSUME i + 1 < n
               PROVE  \E b \in Blocks : rank[b] = i + 1
    OBVIOUS
  <2>1. i < n /\ i # n - 1
    BY <1>1
  <2>2. PICK b \in Blocks : rank[b] = i
    BY <1>4, <2>1
  <2>3. rank[blocks[b].next] = i + 1
    BY <1>2, <2>1, <2>2
  <2> QED
    BY <1>2, <2>3
<1>5. \A i \in Nat : i \in T
  <2> HIDE DEF T
  <2> QED
    BY <1>3, <1>4, AllNumbers
<1> DEFINE At(i) == IF i = n THEN frontBlock ELSE CHOOSE b \in Blocks : rank[b] = i
           w == [i \in 0..n |-> At(i)]
           Follows(g) == g = [i \in 0..n |-> IF i = 0 THEN frontBlock ELSE blocks[g[i - 1]].next]
<1>6. \A i \in 0..(n - 1) : At(i) \in Blocks /\ rank[At(i)] = i
  <2> SUFFICES ASSUME NEW i \in 0..(n - 1)
               PROVE  At(i) \in Blocks /\ rank[At(i)] = i
    OBVIOUS
  <2>1. i \in Nat /\ i < n /\ i # n
    BY <1>1
  <2>2. \E b \in Blocks : rank[b] = i
    BY <1>5, <2>1
  <2> QED
    BY <2>1, <2>2
<1>7. At(n) = frontBlock
  OBVIOUS
<1> HIDE DEF At
<1>8. Follows(w)
  <2>1. ASSUME NEW i \in 0..n
        PROVE  At(i) = IF i = 0 THEN frontBlock ELSE blocks[w[i - 1]].next
    <3>1. CASE i = 0
      <4>1. At(0) \in Blocks /\ rank[At(0)] = 0
        BY <1>1, <1>6
      <4> QED
        BY <1>2, <3>1, <4>1
    <3>2. CASE i # 0
      <4>1. PICK k : k = i - 1 /\ k \in 0..(n - 1) /\ k \in 0..n /\ i = k + 1
        BY <1>1, <3>2
      <4>2. At(k) \in Blocks /\ rank[At(k)] = k /\ w[k] = At(k)
        BY <1>6, <4>1
      <4>3. CASE i = n
        <5>1. rank[blocks[At(k)].next] = 0
          BY <1>1, <1>2, <4>1, <4>2, <4>3
        <5> QED
          BY <1>2, <1>7, <3>2, <4>1, <4>2, <4>3, <5>1
      <4>4. CASE i # n
        <5>1. rank[blocks[At(k)].next] = i /\ i \in 0..(n - 1)
          BY <1>1, <1>2, <4>1, <4>2, <4>4
        <5>2. At(i) \in Blocks /\ rank[At(i)] = i
          BY <1>6, <5>1
        <5> QED
          BY <1>2, <3>2, <4>1, <4>2, <5>1, <5>2
      <4> QED
        BY <4>3, <4>4
    <3> QED
      BY <3>1, <3>2
  <2> QED
    BY <2>1
<1>9. Follows(BlockAt)
  <2>1. BlockAt = CHOOSE g : Follows(g)
    BY <1>1 DEF BlockAt
  <2> HIDE DEF Follows
  <2> QED
    BY <1>8, <2>1
<1>10. \A i \in 0..n : BlockAt[i] = IF i = 0 THEN frontBlock ELSE blocks[BlockAt[i - 1]].next
  BY <1>9
<1> DEFINE U == {i \in Nat : i < n => BlockAt[i] \in Blocks /\ rank[BlockAt[i]] = i}
<1> HIDE DEF T, w, Follows
<1>11. 0 \in U
  BY <1>1, <1>2, <1>10
<1>12. ASSUME NEW i \in Nat, i \in U
       PROVE  i + 1 \in U
  <2> SUFFICES ASSUME i + 1 < n
               PROVE  BlockAt[i + 1] \in Blocks /\ rank[BlockAt[i + 1]] = i + 1
    OBVIOUS
  <2>1. i < n /\ i # n - 1 /\ i + 1 \in 0..n /\ i + 1 # 0 /\ (i + 1) - 1 = i
    BY <1>1
  <2>2. BlockAt[i] \in Blocks /\ rank[BlockAt[i]] = i
    BY <1>12, <2>1
  <2>3. BlockAt[i + 1] = blocks[BlockAt[i]].next
    BY <1>10, <2>1
  <2> QED
    BY <1>2, <2>1, <2>2, <2>3
<1>13. \A i \in Nat : i \in U
  <2> HIDE DEF U
  <2> QED
    BY <1>11, <1>12, AllNumbers
<1>14. \A i \in 0..(n - 1) : BlockAt[i] \in Blocks /\ rank[BlockAt[i]] = i
  BY <1>1, <1>13
<1>15. BlockAt[0] = frontBlock /\ \A i \in 1..(n - 1) : BlockAt[i] = blocks[BlockAt[i - 1]].next
  BY <1>1, <1>10
<1> QED
  BY <1>1, <1>14, <1>15

LEMMA InBlockIs ==
  ASSUME Typed, NEW b \in Blocks
  PROVE  InBlock(b) = [i \in 1..Count(b) |-> blocks[b].data[Step(blocks[b].front, i - 1, Size(b))]]
<1>1. PICK s, f, t : s = Size(b) /\ f = blocks[b].front /\ t = blocks[b].tail
  OBVIOUS
<1>2. s \in Nat /\ f \in 0..(s - 1) /\ t \in 0..(s - 1) /\ Count(b) \in 0..(s - 1)
  BY <1>1, Block
<1>3. (t - f) % s = Dist(f, t, s) /\ Dist(f, t, s) = Count(b)
  BY <1>1, <1>2, DistIs DEF Count
<1>4. ASSUME NEW i \in 1..Count(b)
      PROVE  (f + i - 1) % s = Step(f, i - 1, s)
  <2>1. PICK k : k = i - 1 /\ k \in 0..(s - 1) /\ f + i - 1 = f + k
    BY <1>2
  <2> QED
    BY <1>2, <2>1, StepIs
<1>5. InBlock(b) = [i \in 1..((t - f) % s) |-> blocks[b].data[(f + i - 1) % s]]
  BY <1>1 DEF InBlock
<1> QED
  BY <1>1, <1>3, <1>4, <1>5

(* The item at place j of the queue, which the reader may have moved out. *)
Item(j) == IF j = 1 /\ reader.pc = "front" THEN None ELSE reader.taken + j

(* The items of a block that has items, or may have. *)
LEMMA ItemsOfBlock ==
  ASSUME IInv, NEW rank, NEW first, Ring(rank, first), NEW b \in Blocks, rank[b] <= rank[LastBlock],
         NEW d \in Nat, first[b] = reader.taken + d + 1,
         b = frontBlock \/ d > 0 \/ reader.pc # "front"
  PROVE  InBlock(b) = [i \in 1..Count(b) |-> Item(d + i)]
<1>1. reader.taken \in Nat
  BY TypedThreads DEF IInv
<1>2. Count(b) \in Nat
  BY Block DEF IInv
<1>3. b = frontBlock => d = 0
  BY <1>1 DEF Ring, Numbered
<1>4. ASSUME NEW i \in 1..Count(b)
      PROVE  blocks[b].data[Step(blocks[b].front, i - 1, Size(b))] = Item(d + i)
  <2>1. PICK j : j = i - 1 /\ j \in 0..(Count(b) - 1) /\ j \in Nat /\ (j = 0 <=> i = 1)
    BY <1>2
  <2>2. blocks[b].data[Step(blocks[b].front, j, Size(b))]
          = IF b = frontBlock /\ j = 0 /\ reader.pc = "front" THEN None ELSE first[b] + j
    BY <2>1 DEF Ring, Holds
  <2>3. reader.pc = "front" => ((b = frontBlock /\ j = 0) <=> d + i = 1)
    BY <1>3, <2>1
  <2>4. first[b] + j = reader.taken + (d + i)
    BY <1>1, <2>1
  <2> QED
    BY <2>1, <2>2, <2>3, <2>4 DEF Item
<1>5. InBlock(b) = [i \in 1..Count(b) |-> blocks[b].data[Step(blocks[b].front, i - 1, Size(b))]]
  BY InBlockIs DEF IInv
<1> QED
  BY <1>4, <1>5

(* Items up to place d, and the c items after them. *)
LEMMA ItemsJoin ==
  ASSUME reader.taken \in Nat, NEW d \in Nat, NEW c \in Nat
  PROVE  [j \in 1..d |-> Item(j)] \o [i \in 1..c |-> Item(d + i)] = [j \in 1..(d + c) |-> Item(j)]
<1> DEFINE x == [j \in 1..d |-> Item(j)]
           y == [i \in 1..c |-> Item(d + i)]
           z == [j \in 1..(d + c) |-> Item(j)]
<1>1. \A j \in Nat : Item(j) \in Nat
  BY DEF Item, None
<1>2. x \in Seq(Nat) /\ Len(x) = d
  BY <1>1
<1>3. y \in Seq(Nat) /\ Len(y) = c
  BY <1>1
<1>4. z \in Seq(Nat) /\ Len(z) = d + c
  BY <1>1
<1>5. x \o y \in Seq(Nat) /\ Len(x \o y) = d + c
  BY <1>2, <1>3, ConcatProperties
<1>6. ASSUME NEW i \in 1..(d + c)
      PROVE  (x \o y)[i] = z[i]
  <2>1. (x \o y)[i] = IF i <= d THEN x[i] ELSE y[i - d]
    <3> HIDE DEF x, y
    <3> QED
      BY <1>2, <1>3, ConcatProperties
  <2>2. CASE i <= d
    BY <2>1, <2>2
  <2>3. CASE i > d
    <3>1. i - d \in 1..c /\ d + (i - d) = i
      BY <2>3
    <3> QED
      BY <2>1, <2>3, <3>1
  <2> QED
    BY <2>2, <2>3
<1> HIDE DEF x, y, z
<1>7. x \o y = z
  BY <1>4, <1>5, <1>6, SeqEqual
<1> QED
  BY <1>7 DEF x, y, z

(* Sums of the first i of n numbers. *)
LEMMA Sums ==
  ASSUME NEW n \in Nat, n > 0, NEW c, \A i \in 1..n : c[i] \in Nat,
         NEW e, e[1] = c[1], \A i \in 2..n : e[i] = e[i - 1] + c[i]
  PROVE  \A i \in 1..n : e[i] \in Nat /\ e[i] >= c[1]
<1> DEFINE T == {i \in Nat : i + 1 \in 1..n => e[i + 1] \in Nat /\ e[i + 1] >= c[1]}
<1>1. 0 \in T
  OBVIOUS
<1>2. ASSUME NEW i \in Nat, i \in T
      PROVE  i + 1 \in T
  <2> SUFFICES ASSUME (i + 1) + 1 \in 1..n
               PROVE  e[(i + 1) + 1] \in Nat /\ e[(i + 1) + 1] >= c[1]
    OBVIOUS
  <2>1. PICK k : k = (i + 1) + 1 /\ k \in 2..n /\ k \in 1..n /\ k - 1 = i + 1 /\ i + 1 \in 1..n
    OBVIOUS
  <2>2. e[k - 1] \in Nat /\ e[k - 1] >= c[1] /\ c[k] \in Nat /\ c[1] \in Nat
    BY <1>2, <2>1
  <2>3. e[k] = e[k - 1] + c[k]
    BY <2>1
  <2> QED
    BY <2>1, <2>2, <2>3
<1> HIDE DEF T
<1>3. \A i \in Nat : i \in T
  BY <1>1, <1>2, AllNumbers
<1>4. ASSUME NEW i \in 1..n
      PROVE  e[i] \in Nat /\ e[i] >= c[1]
  <2>1. i - 1 \in Nat /\ (i - 1) + 1 = i
    OBVIOUS
  <2> QED
    BY <1>3, <2>1 DEF T
<1> QED
  BY <1>4

(* Its items are those after the last one taken, up to the last one put. *)
LEMMA ContentsAre ==
  ASSUME IInv
  PROVE  /\ Number - reader.taken \in Nat
         /\ reader.pc = "front" => Number > reader.taken
         /\ Contents = [j \in 1..(Number - reader.taken) |-> Item(j)]
<1>1. PICK rank, first : Ring(rank, first)
  BY DEF IInv, HasRing
<1>2. PICK n : n = Len(blocks) /\ n \in Nat /\ n > 0
  BY DEF IInv, Typed, Blocks
<1>3. PICK K : K = rank[LastBlock] /\ K \in Nat /\ K < n /\ LastBlock \in Blocks
  BY <1>1, <1>2, NextRank, LastIsBlock DEF IInv, Ring
<1>4. PICK at : at = [i \in 1..n |-> BlockAt[i - 1]]
  OBVIOUS
<1>5. /\ at[1] = frontBlock
      /\ \A i \in 1..n : at[i] \in Blocks /\ rank[at[i]] = i - 1
      /\ \A i \in 2..n : at[i] = blocks[at[i - 1]].next
  <2>1. /\ BlockAt[0] = frontBlock
        /\ \A i \in 0..(n - 1) : BlockAt[i] \in Blocks /\ rank[BlockAt[i]] = i
        /\ \A i \in 1..(n - 1) : BlockAt[i] = blocks[BlockAt[i - 1]].next
    BY <1>1, <1>2, BlockAtIs DEF IInv, Ring
  <2>2. at[1] = frontBlock
    BY <1>2, <1>4, <2>1
  <2>3. \A i \in 1..n : at[i] \in Blocks /\ rank[at[i]] = i - 1
    BY <1>2, <1>4, <2>1
  <2>4. ASSUME NEW i \in 2..n
        PROVE  at[i] = blocks[at[i - 1]].next
    <3>1. PICK k : k = i - 1 /\ k \in 1..(n - 1) /\ k \in 1..n
      BY <1>2
    <3>2. at[i] = BlockAt[k] /\ at[k] = BlockAt[k - 1]
      BY <1>2, <1>4, <3>1
    <3> QED
      BY <2>1, <3>1, <3>2
  <2> QED
    BY <2>2, <2>3, <2>4
<1>6. PICK c : c = [i \in 1..n |-> Count(at[i])]
  OBVIOUS
<1>7. \A i \in 1..n : c[i] = Count(at[i]) /\ c[i] \in Nat
  BY <1>5, <1>6, Block DEF IInv
<1>8. \A i \in 1..n : i - 1 > K => c[i] = 0
  BY <1>1, <1>3, <1>5, <1>7 DEF Ring, Filled
<1>9. PICK a, m : a = reader.taken /\ a \in Nat /\ m = Number - a /\ m \in Int
  BY TypedThreads, LastIsBlock DEF IInv
<1>10. PICK f : f = [i \in 1..n |-> first[at[i]]]
  OBVIOUS
<1>11. \A i \in 1..n : f[i] = first[at[i]] /\ f[i] \in Nat
  BY <1>1, <1>5, <1>10 DEF Ring, Numbered
<1>12. f[1] = a + 1
  BY <1>1, <1>2, <1>5, <1>9, <1>11 DEF Ring, Numbered
<1>13. ASSUME NEW i \in 2..n, i - 1 <= K
       PROVE  f[i] = f[i - 1] + c[i - 1]
  <2>1. PICK k : k = i - 1 /\ k \in 1..n /\ i \in 1..n /\ k - 1 < K
    BY <1>2, <1>3, <1>13
  <2>2. at[k] \in Blocks /\ at[i] = blocks[at[k]].next /\ rank[at[k]] < rank[LastBlock]
    BY <1>3, <1>5, <2>1
  <2>3. first[at[i]] = first[at[k]] + Count(at[k])
    BY <1>1, <2>2 DEF Ring, Numbered
  <2> QED
    BY <1>7, <1>11, <2>1, <2>3
<1>14. ASSUME NEW i \in 1..n, i - 1 = K
       PROVE  f[i] + c[i] = m + a + 1
  <2>1. at[i] = LastBlock
    BY <1>1, <1>3, <1>5, <1>14 DEF Ring, Circle
  <2>2. first[LastBlock] + Count(LastBlock) = Number + 1
    BY <1>1 DEF Ring, Numbered
  <2>3. Number \in Nat
    BY LastIsBlock DEF IInv
  <2> QED
    BY <1>7, <1>9, <1>11, <2>1, <2>2, <2>3
<1>15. PICK e : e = [i \in 1..n |-> IF i - 1 <= K THEN f[i] + c[i] - 1 - a ELSE m]
  OBVIOUS
<1>16. e[1] = c[1]
  <2>1. 1 \in 1..n /\ 1 - 1 <= K
    BY <1>2, <1>3
  <2>2. e[1] = f[1] + c[1] - 1 - a /\ c[1] \in Nat
    BY <1>7, <1>15, <2>1
  <2> QED
    BY <1>9, <1>12, <2>2
<1>17. ASSUME NEW i \in 2..n
       PROVE  /\ e[i] = e[i - 1] + c[i]
              /\ i - 1 <= K => f[i] = a + e[i - 1] + 1
  <2>1. PICK k : k = i - 1 /\ k \in 1..n /\ i \in 1..n /\ k - 1 \in Nat
    BY <1>2
  <2>2. /\ f[k] \in Nat /\ f[i] \in Nat /\ c[k] \in Nat /\ c[i] \in Nat
    BY <1>7, <1>11, <2>1
  <2>3. e[k] = IF k - 1 <= K THEN f[k] + c[k] - 1 - a ELSE m
    BY <1>15, <2>1
  <2>4. e[i] = IF k <= K THEN f[i] + c[i] - 1 - a ELSE m
    BY <1>15, <2>1
  <2>5. CASE k <= K
    <3>1. f[i] = f[k] + c[k] /\ k - 1 <= K
      BY <1>3, <1>13, <2>1, <2>5
    <3> QED
      BY <1>9, <2>1, <2>2, <2>3, <2>4, <2>5, <3>1
  <2>6. CASE k > K
    <3>1. c[i] = 0
      BY <1>8, <2>1, <2>6
    <3>2. k - 1 = K => f[k] + c[k] = m + a + 1
      BY <1>14, <2>1
    <3>3. e[k] = m
      <4>1. CASE k - 1 = K
        BY <1>3, <1>9, <2>2, <2>3, <3>2, <4>1
      <4>2. CASE k - 1 # K
        BY <1>3, <2>1, <2>3, <2>6, <4>2
      <4> QED
        BY <4>1, <4>2
    <3> QED
      BY <1>3, <1>9, <2>1, <2>4, <2>6, <3>1, <3>3
  <2> QED
    BY <1>3, <2>1, <2>5, <2>6
<1>18. e[n] = m
  <2>1. CASE n - 1 = K
    <3>1. f[n] + c[n] = m + a + 1 /\ f[n] \in Nat /\ c[n] \in Nat
      BY <1>2, <1>7, <1>11, <1>14, <2>1
    <3>2. n \in 1..n /\ n - 1 <= K
      BY <1>2, <1>3, <2>1
    <3>3. e[n] = f[n] + c[n] - 1 - a
      BY <1>15, <3>2
    <3> QED
      BY <1>9, <3>1, <3>3
  <2>2. CASE n - 1 # K
    BY <1>2, <1>3, <1>15, <2>2
  <2> QED
    BY <2>1, <2>2
<1>19. \A i \in 1..n : e[i] \in Nat /\ e[i] >= c[1]
  BY <1>2, <1>7, <1>16, <1>17, Sums
<1>20. reader.pc = "front" => c[1] > 0
  <2> SUFFICES ASSUME reader.pc = "front"
               PROVE  c[1] > 0
    OBVIOUS
  <2>1. blocks[frontBlock].front # blocks[frontBlock].localTail
    BY DEF IInv, ReaderKnows
  <2>2. PICK s, x, y : /\ s = Size(frontBlock) /\ x = blocks[frontBlock].front
                       /\ y = blocks[frontBlock].localTail
    OBVIOUS
  <2>3. s \in Nat /\ x \in 0..(s - 1) /\ y \in 0..(s - 1)
    BY <2>2, Block DEF IInv, Typed
  <2>4. Dist(x, y, s) <= Count(frontBlock)
    BY <2>2 DEF IInv, ShadowsLag, Typed
  <2>5. Dist(x, y, s) > 0 /\ Dist(x, y, s) \in Nat
    BY <2>1, <2>2, <2>3 DEF Dist
  <2>6. c[1] = Count(frontBlock) /\ c[1] \in Nat
    BY <1>2, <1>5, <1>7
  <2> QED
    BY <2>4, <2>5, <2>6
<1>21. PICK s : s = [i \in 1..n |-> InBlock(BlockAt[i - 1])]
  OBVIOUS
<1>22. Len(s) = n /\ \A i \in 1..n : s[i] = InBlock(at[i])
  BY <1>2, <1>4, <1>21
<1>23. s[1] = [i \in 1..c[1] |-> Item(i)]
  <2>1. /\ 1 \in 1..n /\ at[1] \in Blocks /\ rank[at[1]] <= rank[LastBlock]
        /\ first[at[1]] = reader.taken + 0 + 1
    BY <1>2, <1>3, <1>5, <1>9, <1>11, <1>12
  <2>2. InBlock(at[1]) = [i \in 1..Count(at[1]) |-> Item(0 + i)]
    BY <1>1, <1>5, <2>1, ItemsOfBlock
  <2>3. \A i \in 1..c[1] : 0 + i = i
    OBVIOUS
  <2> QED
    BY <1>7, <1>22, <2>1, <2>2, <2>3
<1>24. ASSUME NEW i \in 2..n
       PROVE  s[i] = [j \in 1..c[i] |-> Item(e[i - 1] + j)]
  <2>1. i \in 1..n /\ i - 1 \in 1..n /\ at[i] \in Blocks
    BY <1>2, <1>5
  <2>2. PICK d : d = e[i - 1] /\ d \in Nat /\ d >= c[1] /\ c[1] \in Nat
    BY <1>2, <1>7, <1>19, <2>1
  <2>3. CASE i - 1 <= K
    <3>1. first[at[i]] = reader.taken + d + 1 /\ rank[at[i]] <= rank[LastBlock]
      BY <1>3, <1>5, <1>9, <1>11, <1>17, <2>1, <2>2, <2>3
    <3>2. d > 0 \/ reader.pc # "front"
      BY <1>20, <2>2
    <3>3. PICK b \in Blocks : b = at[i]
      BY <2>1
    <3>4. first[b] = reader.taken + d + 1 /\ rank[b] <= rank[LastBlock] /\ d \in Nat
      BY <2>2, <3>1, <3>3
    <3>5. InBlock(b) = [j \in 1..Count(b) |-> Item(d + j)]
      BY <1>1, <3>2, <3>4, ItemsOfBlock
    <3> QED
      BY <1>7, <1>22, <2>1, <2>2, <3>3, <3>5
  <2>4. CASE ~(i - 1 <= K)
    <3>1. c[i] = 0 /\ Count(at[i]) = 0
      BY <1>3, <1>7, <1>8, <2>1, <2>4
    <3>2. InBlock(at[i]) = [j \in 1..Count(at[i]) |->
                              blocks[at[i]].data[Step(blocks[at[i]].front, j - 1, Size(at[i]))]]
      BY <2>1, InBlockIs DEF IInv
    <3>3. 1..0 = {}
      OBVIOUS
    <3> QED
      BY <1>22, <2>1, <3>1, <3>2, <3>3
  <2> QED
    BY <2>3, <2>4
<1>25. PICK w : w = [i \in 1..n |-> [j \in 1..e[i] |-> Item(j)]]
  OBVIOUS
<1>26. /\ w = [i \in 1..n |-> w[i]]
       /\ \A i \in 1..n : w[i] = [j \in 1..e[i] |-> Item(j)]
  BY <1>25
<1>27. w[1] = s[1]
  <2>1. 1 \in 1..n
    BY <1>2
  <2>2. w[1] = [j \in 1..e[1] |-> Item(j)]
    BY <1>26, <2>1
  <2> QED
    BY <1>16, <1>23, <2>2
<1>28. ASSUME NEW i \in 2..n
       PROVE  w[i] = w[i - 1] \o s[i]
  <2>1. PICK k : k = i - 1 /\ k \in 1..n /\ i \in 1..n
    BY <1>2
  <2>2. e[k] \in Nat /\ c[i] \in Nat /\ e[i] = e[k] + c[i]
    BY <1>7, <1>17, <1>19, <2>1
  <2>3. w[i] = [j \in 1..(e[k] + c[i]) |-> Item(j)] /\ w[k] = [j \in 1..e[k] |-> Item(j)]
    BY <1>26, <2>1, <2>2
  <2>4. s[i] = [j \in 1..c[i] |-> Item(e[k] + j)]
    BY <1>24, <2>1
  <2>5. [j \in 1..e[k] |-> Item(j)] \o [j \in 1..c[i] |-> Item(e[k] + j)]
          = [j \in 1..(e[k] + c[i]) |-> Item(j)]
    BY <1>9, <2>2, ItemsJoin
  <2> QED
    BY <2>1, <2>3, <2>4, <2>5
<1>29. Extended!FlattenSeq(s) = w[n]
  <2>1. \A i \in 2..n : w[i] = w[i - 1] \o s[i]
    BY <1>28
  <2>2. w = [i \in 1..n |-> w[i]]
    BY <1>26
  <2>3. Joined(w, s, n)
    BY <1>27, <2>1, <2>2 DEF Joined
  <2> QED
    BY <1>2, <1>22, <2>3, FlattenIs
<1>30. Contents = Extended!FlattenSeq(s)
  BY <1>2, <1>21 DEF Contents
<1>31. w[n] = [j \in 1..m |-> Item(j)]
  <2>1. n \in 1..n
    BY <1>2
  <2>2. w[n] = [j \in 1..e[n] |-> Item(j)]
    BY <1>26, <2>1
  <2> QED
    BY <1>18, <2>2
<1>32. m \in Nat /\ m >= c[1] /\ c[1] \in Nat
  BY <1>2, <1>7, <1>18, <1>19
<1>33. reader.pc = "front" => Number > reader.taken
  BY <1>9, <1>20, <1>32, LastIsBlock DEF IInv
<1> QED
  BY <1>9, <1>29, <1>30, <1>31, <1>32, <1>33

-----------------------------------------------------------------------------
(* The refinement. *)

(* The items after g, up to n. *)
Run(g, n) == [i \in 1..(n - g) |-> g + i]

LEMMA RunIs ==
  ASSUME NEW g \in Nat, NEW n \in Nat, g <= n
  PROVE  Run(g, n) \in Seq(Nat) /\ Len(Run(g, n)) = n - g
BY DEF Run

LEMMA RunGrows ==
  ASSUME NEW g \in Nat, NEW n \in Nat, g <= n
  PROVE  Run(g, n + 1) = Append(Run(g, n), n + 1)
<1>1. Run(g, n) \in Seq(Nat) /\ Len(Run(g, n)) = n - g
  BY RunIs
<1>2. Run(g, n + 1) \in Seq(Nat) /\ Len(Run(g, n + 1)) = n + 1 - g
  BY RunIs
<1>3. PICK a, r, x : a = Append(r, x) /\ r = Run(g, n) /\ x = n + 1
  OBVIOUS
<1>4. /\ a \in Seq(Nat) /\ Len(a) = Len(r) + 1
      /\ \A i \in 1..Len(r) : a[i] = r[i]
      /\ a[Len(r) + 1] = x
  <2>1. x \in Nat
    BY <1>3
  <2> QED
    BY <1>1, <1>3, <2>1, AppendProperties
<1>5. ASSUME NEW i \in 1..(n + 1 - g)
      PROVE  Run(g, n + 1)[i] = a[i]
  <2>1. CASE i \in 1..(n - g)
    BY <1>1, <1>3, <1>4, <2>1 DEF Run
  <2>2. CASE i = n - g + 1
    BY <1>1, <1>3, <1>4, <2>2 DEF Run
  <2> QED
    BY <2>1, <2>2
<1>6. Len(Run(g, n + 1)) = Len(a) /\ \A i \in 1..Len(a) : Run(g, n + 1)[i] = a[i]
  BY <1>1, <1>2, <1>3, <1>4, <1>5
<1>7. Run(g, n + 1) = a
  BY <1>2, <1>4, <1>6, SeqEqual
<1> QED
  BY <1>3, <1>7

LEMMA RunShrinks ==
  ASSUME NEW g \in Nat, NEW n \in Nat, g < n
  PROVE  Run(g, n) # <<>> /\ Run(g + 1, n) = Tail(Run(g, n))
<1>1. Run(g, n) \in Seq(Nat) /\ Len(Run(g, n)) = n - g
  BY RunIs
<1>2. Run(g + 1, n) \in Seq(Nat) /\ Len(Run(g + 1, n)) = n - (g + 1)
  BY RunIs
<1>3. Run(g, n) # <<>>
  BY <1>1
<1>4. PICK t, r : t = Tail(r) /\ r = Run(g, n)
  OBVIOUS
<1>5. /\ t \in Seq(Nat) /\ Len(t) = Len(r) - 1
      /\ \A i \in 1..Len(t) : t[i] = r[i + 1]
  BY <1>1, <1>3, <1>4, HeadTailProperties
<1>6. ASSUME NEW i \in 1..(n - (g + 1))
      PROVE  Run(g + 1, n)[i] = t[i]
  <2>1. i \in 1..Len(t) /\ i + 1 \in 1..(n - g) /\ (g + 1) + i = g + (i + 1)
    BY <1>1, <1>4, <1>5
  <2> QED
    BY <1>4, <1>5, <2>1 DEF Run
<1>7. Len(Run(g + 1, n)) = Len(t) /\ \A i \in 1..Len(t) : Run(g + 1, n)[i] = t[i]
  <2>1. Len(t) = n - (g + 1)
    BY <1>1, <1>4, <1>5
  <2> QED
    BY <1>2, <1>6, <2>1
<1>8. Run(g + 1, n) = t
  BY <1>2, <1>5, <1>7, SeqEqual
<1> QED
  BY <1>3, <1>4, <1>8

(* How many items are no longer in the queue. *)
Gone == IF reader.pc = "front" THEN reader.taken + 1 ELSE reader.taken

HeldIsRun == Gone \in Nat /\ Number \in Nat /\ Gone <= Number /\ Held = Run(Gone, Number)

LEMMA HeldIs == IInv => HeldIsRun
<1> SUFFICES ASSUME IInv
             PROVE  Gone \in Nat /\ Number \in Nat /\ Gone <= Number /\ Held = Run(Gone, Number)
  BY DEF HeldIsRun
<1>1. PICK a, n : a = reader.taken /\ n = Number /\ a \in Nat /\ n \in Nat
  BY TypedThreads, LastIsBlock DEF IInv
<1>2. /\ n - a \in Nat
      /\ reader.pc = "front" => n > a
      /\ Contents = [j \in 1..(n - a) |-> Item(j)]
  BY <1>1, ContentsAre
<1>3. CASE reader.pc # "front"
  <2>1. Contents = Run(a, n)
    BY <1>1, <1>2, <1>3 DEF Item, Run
  <2>2. Gone = a /\ Held = Contents /\ a <= n
    BY <1>1, <1>2, <1>3 DEF Held, Gone
  <2> QED
    BY <1>1, <2>1, <2>2
<1>4. CASE reader.pc = "front"
  <2>1. \A j \in 1..(n - a) : Item(j) \in Nat
    BY <1>1 DEF Item, None
  <2>2. Contents \in Seq(Nat) /\ Len(Contents) = n - a /\ Contents # <<>>
    BY <1>1, <1>2, <1>4, <2>1
  <2>3. PICK t, c : t = Tail(c) /\ c = Contents
    OBVIOUS
  <2>4. /\ t \in Seq(Nat) /\ Len(t) = Len(c) - 1
        /\ \A i \in 1..Len(t) : t[i] = c[i + 1]
    BY <2>2, <2>3, HeadTailProperties
  <2>5. a + 1 <= n
    BY <1>1, <1>2, <1>4
  <2>6. PICK r, g : r = Run(g, n) /\ g = a + 1 /\ r \in Seq(Nat) /\ Len(r) = n - g
    <3>1. a + 1 \in Nat
      BY <1>1
    <3>2. Run(a + 1, n) \in Seq(Nat) /\ Len(Run(a + 1, n)) = n - (a + 1)
      BY <1>1, <2>5, <3>1, RunIs
    <3> QED
      BY <3>2
  <2>7. ASSUME NEW i \in 1..(n - a - 1)
        PROVE  t[i] = r[i]
    <3>1. i + 1 \in 1..(n - a) /\ i + 1 # 1
      BY <1>1, <1>2
    <3>2. t[i] = a + (i + 1)
      BY <1>1, <1>2, <2>2, <2>3, <2>4, <3>1 DEF Item
    <3>3. i \in 1..(n - g) /\ r[i] = g + i
      BY <1>1, <2>6 DEF Run
    <3> QED
      <4>1. i \in Int /\ a \in Int /\ g = a + 1
        BY <1>1, <2>6
      <4>2. g + i = a + (i + 1)
        BY <4>1
      <4> QED
        BY <3>2, <3>3, <4>2
  <2>8. Len(t) = Len(r) /\ \A i \in 1..Len(t) : t[i] = r[i]
    <3>1. Len(t) = n - a - 1 /\ Len(r) = n - a - 1
      <4>1. Len(t) = (n - a) - 1
        BY <2>2, <2>3, <2>4
      <4>2. Len(r) = n - (a + 1)
        BY <2>6
      <4> QED
        BY <1>1, <4>1, <4>2
    <3> QED
      BY <2>7, <3>1
  <2>9. t = r
    BY <2>4, <2>6, <2>8, SeqEqual
  <2>10. Gone = a + 1 /\ Held = t
    BY <1>1, <1>4, <2>3 DEF Held, Gone
  <2> QED
    BY <1>1, <2>5, <2>6, <2>9, <2>10
<1> QED
  BY <1>3, <1>4

(* A step puts the next item, takes the first one, or does neither. *)
PutsOne == Number' = Number + 1 /\ Number < Puts /\ Gone' = Gone
TakesOne == Number' = Number /\ Gone' = Gone + 1
Neither == Number' = Number /\ Gone' = Gone

(* The writer puts with the store to tail, or to next. *)
LEMMA WriteMoves ==
  ASSUME IInv, Write
  PROVE  PutsOne \/ Neither
<1>1. writer \in Writers /\ writer.item \in Nat
  BY TypedThreads DEF IInv
<1>2. writer.pc # "idle" => writer.item <= Puts /\ Puts \in Nat
  BY QueueAssumption DEF IInv, WriterKnows
<1>3. reader' = reader
  BY Zenon DEF Write, Enqueue, Room, ConstructHere, Publish, Full, ConstructNext, PublishNext, Alloc,
               AllocFails, Advance
<1>4. Gone' = Gone
  BY <1>3 DEF Gone
<1>5. CASE Publish \/ PublishNext \/ Alloc
  <2>1. /\ writer.pc # "idle" /\ writer.pc # "advance"
        /\ \/ writer'.pc = "idle" /\ writer'.item = writer.item + 1
           \/ writer'.pc = "advance" /\ writer'.item = writer.item
    BY <1>1, <1>5 DEF Publish, PublishNext, Alloc, EnqueueReturns, WriterGoes, Writers
  <2>2. Number = writer.item - 1 /\ Number' = writer.item
    BY <1>1, <2>1 DEF Number
  <2> QED
    BY <1>1, <1>2, <1>4, <2>1, <2>2 DEF PutsOne
<1>6. CASE Advance
  <2>1. writer.pc = "advance" /\ writer'.pc = "idle" /\ writer'.item = writer.item + 1
    BY <1>1, <1>6 DEF Advance, EnqueueReturns, Writers
  <2> QED
    BY <1>1, <1>4, <2>1 DEF Number, Neither
<1>7. CASE \/ \E mode \in {"CanAlloc", "CannotAlloc"} : Enqueue(mode)
           \/ Room \/ ConstructHere \/ Full \/ ConstructNext \/ AllocFails
  <2>1. writer.pc # "advance" /\ writer'.pc # "advance" /\ writer'.item = writer.item
    BY <1>1, <1>7 DEF Enqueue, Room, ConstructHere, Full, ConstructNext, AllocFails, EnqueueReturns,
                      WriterGoes, Writers
  <2> QED
    BY <1>4, <2>1 DEF Number, Neither
<1> QED
  BY <1>5, <1>6, <1>7 DEF Write

(* The reader takes when the item is moved out. *)
LEMMA ReadMoves ==
  ASSUME IInv, Read
  PROVE  TakesOne \/ Neither
<1>1. reader \in Readers /\ reader.taken \in Nat
  BY TypedThreads DEF IInv
<1>2. writer' = writer
  BY DEF Read, Dequeue, Look, Ahead, Again, Take, Front, NextBlock
<1>3. Number' = Number
  BY <1>2 DEF Number
<1>4. CASE Take
  <2>1. reader.pc = "take"
    BY <1>4 DEF Take
  <2>2. CASE reader.op = "peek"
    <3>1. reader'.pc = "idle" /\ reader'.taken = reader.taken
      BY <1>1, <1>4, <2>2 DEF Take, DequeueReturns, Readers
    <3> QED
      BY <1>3, <2>1, <3>1 DEF Gone, Neither
  <2>3. CASE reader.op # "peek"
    <3>1. reader'.pc = "front" /\ reader'.taken = reader.taken
      BY <1>1, <1>4, <2>3 DEF Take, Readers
    <3> QED
      BY <1>3, <2>1, <3>1 DEF Gone, TakesOne
  <2> QED
    BY <2>2, <2>3
<1>5. CASE Front
  <2>1. reader.pc = "front"
    BY <1>5 DEF Front
  <2>2. reader.got = reader.taken + 1 /\ reader.op # "peek"
    BY <2>1 DEF IInv, InOrder, ReaderKnows
  <2>3. reader'.pc = "idle" /\ reader'.taken = reader.got
    BY <1>1, <1>5, <2>2 DEF Front, DequeueReturns, Readers
  <2> QED
    BY <1>3, <2>1, <2>2, <2>3 DEF Gone, Neither
<1>6. CASE \/ \E op \in {"try_dequeue", "peek"} : Dequeue(op)
           \/ Look \/ Ahead \/ Again \/ NextBlock
  <2>1. reader.pc # "front" /\ reader'.pc # "front"
    BY <1>1, <1>6 DEF Dequeue, Look, Ahead, Again, NextBlock, ReaderGoes, DequeueReturnsNothing,
                      DequeueReturns, Readers
  <2>2. reader'.taken = reader.taken
    BY <1>1, <1>6 DEF Dequeue, Look, Ahead, Again, NextBlock, ReaderGoes, DequeueReturnsNothing,
                      DequeueReturns, Readers
  <2> QED
    BY <1>3, <2>1, <2>2 DEF Gone, Neither
<1> QED
  BY <1>4, <1>5, <1>6 DEF Read

LEMMA Moves == IInv /\ [PairNext]_spsc => PutsOne \/ TakesOne \/ Neither
<1> SUFFICES ASSUME IInv, [PairNext]_spsc
             PROVE  PutsOne \/ TakesOne \/ Neither
  OBVIOUS
<1>1. CASE Write
  BY <1>1, WriteMoves
<1>2. CASE Read
  BY <1>2, ReadMoves
<1>3. CASE UNCHANGED spsc
  BY <1>3 DEF spsc, Neither, Number, Gone
<1> QED
  BY <1>1, <1>2, <1>3 DEF PairNext

(* The two threads, their blocks, shadows and indices implement a queue    *)
(* that is first in, first out, and every step leaves the calls in order.  *)
THEOREM QueueIsFifo == PairSpec => ImplementsFifo
<1>1. IInv => HeldIsRun
  BY HeldIs
<1>2. PairInit => Queue!Init
  <2> SUFFICES ASSUME PairInit
               PROVE  Held = <<>> /\ Number = 0
    BY DEF Queue!Init
  <2>1. Gone = 0 /\ Number = 0
    BY DEF PairInit, Gone, Number
  <2>2. Held = Run(0, 0)
    BY <1>1, <2>1, InitIInv DEF HeldIsRun
  <2>3. Run(0, 0) = <<>>
    BY DEF Run
  <2> QED
    BY <2>1, <2>2, <2>3
<1>3. HeldIsRun /\ HeldIsRun' /\ (PutsOne \/ TakesOne \/ Neither) => [Queue!Next]_<<Held, Number>>
  <2> SUFFICES ASSUME Gone \in Nat, Number \in Nat, Gone <= Number, Held = Run(Gone, Number),
                      Gone' \in Nat, Number' \in Nat, Gone' <= Number', Held' = Run(Gone', Number'),
                      PutsOne \/ TakesOne \/ Neither
               PROVE  [Queue!Next]_<<Held, Number>>
    BY DEF HeldIsRun
  <2>1. CASE PutsOne
    <3>1. Held' = Append(Held, Number + 1)
      BY <2>1, RunGrows DEF PutsOne
    <3> QED
      BY <2>1, <3>1 DEF PutsOne, Queue!Next, Queue!Put
  <2>2. CASE TakesOne
    <3>1. Gone < Number
      BY <2>2 DEF TakesOne
    <3>2. Held # <<>> /\ Held' = Tail(Held)
      BY <2>2, <3>1, RunShrinks DEF TakesOne
    <3> QED
      BY <2>2, <3>2 DEF TakesOne, Queue!Next, Queue!Take
  <2>3. CASE Neither
    BY <2>3 DEF Neither
  <2> QED
    BY <2>1, <2>2, <2>3
<1>4. IInv' => HeldIsRun'
  BY <1>1, PTL
<1>5. IInv => InOrder
  BY DEF IInv
<1>6. IInv /\ [PairNext]_spsc => IInv'
  BY NextIInv
<1>7. IInv /\ [PairNext]_spsc => [Queue!Next]_<<Held, Number>>
  BY <1>1, <1>3, <1>4, <1>6, Moves
<1>8. IInv' => InOrder'
  BY <1>5, PTL
<1>9. IInv /\ [PairNext]_spsc => [InOrder']_spsc
  BY <1>6, <1>8
<1> QED
  BY <1>2, <1>7, <1>9, Invariant, PTL DEF PairSpec, ImplementsFifo, Queue!Spec
=============================================================================
