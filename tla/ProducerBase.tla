------------------------------ MODULE ProducerBase ------------------------------
(***************************************************************************)
(* src/code/concurrentqueue.hpp: what the queues of explicit and implicit  *)
(* producers have in common.  One thread puts, any thread takes, without a *)
(* lock.  Who takes first claims a number of items optimistically, gives   *)
(* back what it claimed too much, and takes the indices of the rest; the   *)
(* items are found by the modules that extend this one.  Indices wrap.     *)
(***************************************************************************)
EXTENDS Integers, Sequences, FiniteSets

CONSTANTS Consumers,
          INDICES,      \* how many values index_t has
          BLOCK_SIZE,
          Takes,        \* how many items a call asks for: dequeue for one, or dequeue_bulk
          NULL

VARIABLES tailIndex, headIndex, dequeueOptimisticCount, dequeueOvercommit,
          consumer,     \* per thread that takes: where it is, and its local variables
          put,          \* history: items put by calls that have returned
          latest        \* history: the last of the items that calls have returned

counters == <<tailIndex, headIndex, dequeueOptimisticCount, dequeueOvercommit>>

Plus(i, n)  == (i + n) % INDICES
Minus(i, n) == (i - n) % INDICES
circular_less_than(a, b) == Minus(a, b) > INDICES \div 2
InBlock(i) == i % BLOCK_SIZE
Base(i)    == i - InBlock(i)
Least(a, b) == IF a < b THEN a ELSE b

(* The local variables of a consumer, 0 when they are not in use. *)
Idle == [pc |-> "idle", tail |-> 0, overcommit |-> 0, count |-> 0, mine |-> 0, there |-> 0,
         index |-> 0, ring |-> 0, at |-> 0, got |-> <<>>, began |-> 0]

Unclaimed(start) ==
  /\ tailIndex = start /\ headIndex = start /\ dequeueOptimisticCount = start
  /\ dequeueOvercommit = 0
  /\ consumer = [c \in Consumers |-> Idle]
  /\ put = 0 /\ latest = 0

-----------------------------------------------------------------------------
(* dequeue (of one item) and dequeue_bulk. *)
At(c, pc) == consumer[c].pc = pc
Set(c, r) == consumer' = [consumer EXCEPT ![c] = r]
Goes(c, pc) == Set(c, [consumer[c] EXCEPT !.pc = pc])

Dequeue(c, max) ==
  /\ At(c, "idle")
  /\ Set(c, [Idle EXCEPT !.pc = "overcommit", !.tail = tailIndex, !.count = max, !.began = latest])
  /\ UNCHANGED <<counters, put, latest>>

LoadOvercommit(c) ==
  /\ At(c, "overcommit")
  /\ Set(c, [consumer[c] EXCEPT !.pc = "estimate", !.overcommit = dequeueOvercommit])
  /\ UNCHANGED <<counters, put, latest>>

(* How many items there are beyond a number of claims, 0 if the claims are *)
(* ahead of the tail.                                                      *)
Beyond(claims, overcommit, tail) ==
  LET n == Minus(tail, Minus(claims, overcommit))
  IN IF circular_less_than(0, n) THEN n ELSE 0

Estimate(c) ==
  LET desired == Least(Beyond(dequeueOptimisticCount, consumer[c].overcommit, consumer[c].tail), consumer[c].count)
  IN /\ At(c, "estimate")
     /\ Set(c, IF desired = 0 THEN Idle
               ELSE [consumer[c] EXCEPT !.pc = "claim", !.tail = 0, !.count = desired])
     /\ UNCHANGED <<counters, put, latest>>

Claim(c) ==
  /\ At(c, "claim")
  /\ dequeueOptimisticCount' = Plus(dequeueOptimisticCount, consumer[c].count)
  /\ Set(c, [consumer[c] EXCEPT !.pc = "check", !.mine = dequeueOptimisticCount])
  /\ UNCHANGED <<tailIndex, headIndex, dequeueOvercommit, put, latest>>

(* The tail again, and what of the claim is there.  *)
Actual(c) == Least(Beyond(consumer[c].mine, consumer[c].overcommit, tailIndex), consumer[c].count)

Check(c) ==
  /\ At(c, "check")
  /\ Set(c, [consumer[c] EXCEPT !.pc = IF Actual(c) < consumer[c].count THEN "giveBack" ELSE "take",
                                !.count = @ - Actual(c), !.there = Actual(c),
                                !.overcommit = 0, !.mine = 0])
  /\ UNCHANGED <<counters, put, latest>>

GiveBack(c) ==
  /\ At(c, "giveBack")
  /\ dequeueOvercommit' = Plus(dequeueOvercommit, consumer[c].count)
  /\ Set(c, IF consumer[c].there = 0 THEN Idle ELSE [consumer[c] EXCEPT !.pc = "take", !.count = 0])
  /\ UNCHANGED <<tailIndex, headIndex, dequeueOptimisticCount, put, latest>>

Take(c) ==
  /\ At(c, "take")
  /\ headIndex' = Plus(headIndex, consumer[c].there)
  /\ Set(c, [consumer[c] EXCEPT !.pc = "ring", !.index = headIndex])
  /\ UNCHANGED <<tailIndex, dequeueOptimisticCount, dequeueOvercommit, put, latest>>

Claiming(c) == \/ \E max \in Takes : Dequeue(c, max)
               \/ LoadOvercommit(c) \/ Estimate(c) \/ Claim(c) \/ Check(c) \/ GiveBack(c) \/ Take(c)

-----------------------------------------------------------------------------
(* How many entries an index is away from one with a given base. *)
Signed(n)  == IF n >= INDICES \div 2 THEN n - INDICES ELSE n
Towards(n) == IF n >= 0 THEN n \div BLOCK_SIZE ELSE -((-n) \div BLOCK_SIZE)
Offset(index, base) == Towards(Signed(Minus(Base(index), base)))

(* How many of the items to take are in one block. *)
Here(c) == Least(BLOCK_SIZE - InBlock(consumer[c].index), consumer[c].there)
Slots(c) == InBlock(consumer[c].index)..(InBlock(consumer[c].index) + Here(c) - 1)

(* The items of one block are moved out. *)
Moved(c, slots) ==
  Set(c, [consumer[c] EXCEPT !.pc = "empty",
            !.got = @ \o [k \in 1..Here(c) |-> slots[InBlock(consumer[c].index) + k - 1]]])

(* After a block: the rest is in the block of the next entry. *)
Onwards(c, entryCount) ==
  LET me == consumer[c]
      done == me.there = Here(c)
  IN /\ latest' = IF done THEN me.got[Len(me.got)] ELSE latest
     /\ Set(c, IF done THEN Idle
               ELSE [me EXCEPT !.pc = "move", !.there = @ - Here(c), !.index = Plus(@, Here(c)),
                               !.at = (@ + 1) % entryCount])

-----------------------------------------------------------------------------
(* For enqueue and enqueue_bulk: how many blocks items begin, from which   *)
(* index on the n-th of them is used, and the slots of the blocks of chain *)
(* when the items are constructed, in the tail block and the new ones.     *)
BlocksNeeded(count) == (InBlock(Minus(tailIndex, 1)) + count) \div BLOCK_SIZE
BaseOf(n) == Base(Plus(tailIndex, BLOCK_SIZE - 1 + BLOCK_SIZE * (n - 1)))
Constructed(slots, chain, count) ==
  LET nth(j, i) == (j - 1) * BLOCK_SIZE + i - InBlock(tailIndex) + 1
      item(b, i) == {nth(j, i) : j \in {k \in DOMAIN chain : chain[k] = b}} \cap 1..count
  IN [b \in DOMAIN slots |-> [i \in DOMAIN slots[b] |->
        IF item(b, i) = {} THEN slots[b][i] ELSE put + CHOOSE n \in item(b, i) : TRUE]]

(* A new block is refused when the tail could come round to the head. *)
TailMeetsHead(base) == ~circular_less_than(headIndex, Plus(base, BLOCK_SIZE))

-----------------------------------------------------------------------------
Waiting == Minus(tailIndex, headIndex)
Resting == \A c \in Consumers : At(c, "idle")

(* No item is taken twice, lost, or taken before it was put: what a call   *)
(* moves out are the items of its indices, in order, all put before, and   *)
(* later than all that calls had returned when this one began.             *)
TakenInOrder ==
  \A c \in Consumers :
    LET got == consumer[c].got IN
    /\ \A k \in DOMAIN got : got[k] # NULL /\ got[k] <= put /\ got[k] > consumer[c].began
    /\ \A k \in DOMAIN got : k > 1 => got[k] = got[k - 1] + 1

(* When all calls have returned, the claims that were not given back are   *)
(* the items taken.                                                        *)
ClaimsSettled == Resting => Minus(dequeueOptimisticCount, dequeueOvercommit) = headIndex
=============================================================================
