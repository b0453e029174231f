-------------------------------- MODULE FreeList --------------------------------
(***************************************************************************)
(* src/code/concurrentqueue.hpp: FreeList, the stack of blocks that no     *)
(* producer uses, without a lock.  A node may be taken off, used and put   *)
(* back while a thread that read it as the head still looks at it; so its  *)
(* references are counted, and who brings the count to zero puts it back.  *)
(* freeListRefs is a count and the bit SHOULD_BE_ON_FREELIST.              *)
(***************************************************************************)
EXTENDS Integers, FiniteSets

CONSTANTS Users,   \* threads that call add() and try_get()
          Nodes,
          NULL

ASSUME FreeListAssumption == Users # {} /\ IsFiniteSet(Users) /\ NULL \notin Nodes

VARIABLES freeListHead, freeListNext, refs, flagged,
          user,    \* per thread: where it is, and its local variables
          owned    \* per thread: the nodes it has got, or has just created

freelist == <<freeListHead, freeListNext, refs, flagged, user, owned>>

(* Local variables that are not in use are NULL, 0 or FALSE. *)
Idle == [pc |-> "idle", head |-> NULL, next |-> NULL, node |-> NULL, count |-> 0, bit |-> FALSE]

ListInit ==
  /\ freeListHead = NULL
  /\ freeListNext = [n \in Nodes |-> NULL]
  /\ refs = [n \in Nodes |-> 0]
  /\ flagged = [n \in Nodes |-> FALSE]
  /\ user = [t \in Users |-> Idle]
  /\ owned = [t \in Users |-> IF t = CHOOSE u \in Users : TRUE THEN Nodes ELSE {}]   \* users are alike

At(t, pc) == user[t].pc = pc
Set(t, r) == user' = [user EXCEPT ![t] = r]
Goes(t, pc) == Set(t, [user[t] EXCEPT !.pc = pc])

-----------------------------------------------------------------------------
(* add: who finds no reference puts the node on the list; otherwise who    *)
(* drops the last one does.                                                *)
Add(t, n) ==
  /\ At(t, "idle") /\ n \in owned[t]
  /\ owned' = [owned EXCEPT ![t] = @ \ {n}]
  /\ flagged' = [flagged EXCEPT ![n] = TRUE]
  /\ Set(t, IF refs[n] = 0 /\ ~flagged[n]
            THEN [Idle EXCEPT !.pc = "link", !.node = n, !.next = freeListHead] ELSE Idle)
  /\ UNCHANGED <<freeListHead, freeListNext, refs>>

(* add_knowing_refcount_is_zero: the next pointer, a count of one for the  *)
(* list, then the head.                                                    *)
Link(t) ==
  /\ At(t, "link")
  /\ freeListNext' = [freeListNext EXCEPT ![user[t].node] = user[t].next]
  /\ Goes(t, "count")
  /\ UNCHANGED <<freeListHead, refs, flagged, owned>>

Count(t) ==
  /\ At(t, "count")
  /\ refs' = [refs EXCEPT ![user[t].node] = 1]
  /\ flagged' = [flagged EXCEPT ![user[t].node] = FALSE]
  /\ Goes(t, "push")
  /\ UNCHANGED <<freeListHead, freeListNext, owned>>

(* After it, a try_get goes on with the head it has read. *)
Resumed(t, head) == IF head = NULL THEN Idle ELSE [Idle EXCEPT !.pc = "refer", !.head = head]

Push(t) ==
  /\ At(t, "push")
  /\ IF freeListHead = user[t].next
     THEN freeListHead' = user[t].node /\ Set(t, Resumed(t, user[t].head))
     ELSE /\ Set(t, [user[t] EXCEPT !.pc = "unlink", !.next = freeListHead])
          /\ UNCHANGED freeListHead
  /\ UNCHANGED <<freeListNext, refs, flagged, owned>>

(* The head has changed: the list's reference goes and the bit comes back, *)
(* in one fetch_add; again if no one else has a reference.                 *)
Unlink(t) ==
  LET n == user[t].node IN
  /\ At(t, "unlink")
  /\ refs' = [refs EXCEPT ![n] = @ - 1]
  /\ flagged' = [flagged EXCEPT ![n] = TRUE]
  /\ Set(t, IF refs[n] = 1 /\ ~flagged[n] THEN [user[t] EXCEPT !.pc = "link"]
            ELSE Resumed(t, user[t].head))
  /\ UNCHANGED <<freeListHead, freeListNext, owned>>

-----------------------------------------------------------------------------
(* try_get *)
TryGet(t) ==
  /\ At(t, "idle")
  /\ Set(t, Resumed(t, freeListHead))
  /\ UNCHANGED <<freeListHead, freeListNext, refs, flagged, owned>>

(* The word of the count and the bit is read; a node without a reference   *)
(* is on its way, and the head is read again.                              *)
Refer(t) ==
  LET n == user[t].head IN
  /\ At(t, "refer")
  /\ Set(t, IF refs[n] = 0 THEN [Idle EXCEPT !.pc = "reload"]
            ELSE [user[t] EXCEPT !.pc = "acquire", !.count = refs[n], !.bit = flagged[n]])
  /\ UNCHANGED <<freeListHead, freeListNext, refs, flagged, owned>>

Reload(t) ==
  /\ At(t, "reload")
  /\ Set(t, Resumed(t, freeListHead))
  /\ UNCHANGED <<freeListHead, freeListNext, refs, flagged, owned>>

(* One reference more, if the word is still the one that was read. *)
SameWord(t) == refs[user[t].head] = user[t].count /\ flagged[user[t].head] = user[t].bit
Acquire(t) ==
  LET n == user[t].head IN
  /\ At(t, "acquire")
  /\ IF SameWord(t)
     THEN /\ refs' = [refs EXCEPT ![n] = @ + 1]
          /\ Set(t, [Idle EXCEPT !.pc = "peek", !.head = n])
     ELSE Set(t, [Idle EXCEPT !.pc = "reload"]) /\ UNCHANGED refs
  /\ UNCHANGED <<freeListHead, freeListNext, flagged, owned>>

Peek(t) ==
  /\ At(t, "peek")
  /\ Set(t, [user[t] EXCEPT !.pc = "pop", !.next = freeListNext[user[t].head]])
  /\ UNCHANGED <<freeListHead, freeListNext, refs, flagged, owned>>

(* The node comes off; or the head read is now another one's.              *)
Pop(t) ==
  /\ At(t, "pop")
  /\ IF freeListHead = user[t].head
     THEN freeListHead' = user[t].next /\ Set(t, [user[t] EXCEPT !.pc = "got", !.next = NULL])
     ELSE /\ Set(t, [Idle EXCEPT !.pc = "release", !.node = user[t].head, !.head = freeListHead])
          /\ UNCHANGED freeListHead
  /\ UNCHANGED <<freeListNext, refs, flagged, owned>>

(* Two references less: this one and the list's.                           *)
Got(t) ==
  LET n == user[t].head IN
  /\ At(t, "got")
  /\ refs' = [refs EXCEPT ![n] = @ - 2]
  /\ owned' = [owned EXCEPT ![t] = @ \cup {n}]
  /\ Set(t, Idle)
  /\ UNCHANGED <<freeListHead, freeListNext, flagged>>

(* The last reference to a node that is to be on the list puts it there.   *)
(* Defect: it leaves that to others.                                       *)
LeavesNode(t, n) == FALSE
AddsNode(t, n) == refs[n] = 1 /\ flagged[n]

Release(t) ==
  LET n == user[t].node IN
  /\ At(t, "release")
  /\ refs' = [refs EXCEPT ![n] = @ - 1]
  /\ Set(t, IF AddsNode(t, n) THEN [user[t] EXCEPT !.pc = "link", !.next = freeListHead]
            ELSE Resumed(t, user[t].head))
  /\ UNCHANGED <<freeListHead, freeListNext, flagged, owned>>

-----------------------------------------------------------------------------
Step(t) == \/ \E n \in Nodes : Add(t, n)
           \/ Link(t) \/ Count(t) \/ Push(t) \/ Unlink(t)
           \/ TryGet(t) \/ Refer(t) \/ Reload(t) \/ Acquire(t) \/ Peek(t) \/ Pop(t)
           \/ Got(t) \/ Release(t)
ListNext == \E t \in Users : Step(t)
ListSpec == ListInit /\ [][ListNext]_freelist

-----------------------------------------------------------------------------
(* The nodes that are reached from x: those in every set that has x and    *)
(* with each node its next one.  On the list are those reached from the    *)
(* head.                                                                   *)
Closed(next, S) == \A m \in S : next[m] \in S \cup {NULL}
Reach(next, x) ==
  {n \in Nodes : \A S \in SUBSET Nodes : Closed(next, S) /\ x \in S \cup {NULL} => n \in S}
Listed == Reach(freeListNext, freeListHead)

Popping(n) == \E t \in Users : At(t, "got") /\ user[t].head = n
Quiet == \A t \in Users : At(t, "idle")

(* A node is in one place: with one thread or on the list, never both, and *)
(* it is lost to neither: when no call is under way every node that has no *)
(* owner is on the list, with the list's one reference.                    *)
NodesKept ==
  /\ \A t, u \in Users : t # u => owned[t] \cap owned[u] = {}
  /\ \A t \in Users : owned[t] \cap Listed = {}
  /\ \A n \in Nodes : Popping(n) => n \notin Listed /\ ~flagged[n]
  /\ Quiet => /\ Listed \cup UNION {owned[t] : t \in Users} = Nodes
              /\ \A n \in Nodes : refs[n] = IF n \in Listed THEN 1 ELSE 0
=============================================================================
