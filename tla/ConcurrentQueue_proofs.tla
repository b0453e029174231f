-------------------------- MODULE ConcurrentQueue_proofs --------------------------
(***************************************************************************)
(* Two parts of concurrentqueue.hpp, for any number of threads.  The first *)
(* half: no node of the FreeList is lost or handed out twice, for any      *)
(* number of nodes.  The second half: a thread finds one and the same      *)
(* producer in the chain of hash tables, and nobody else finds it, for     *)
(* every hash of the threads' ids.                                         *)
(***************************************************************************)
EXTENDS FreeList, ProducerHash, FiniteSetTheorems, TLAPS

(* What a thread may hold in its local variables.  A head that is looked   *)
(* at and a node that is put back exist, and a reference is only added to  *)
(* a count that is not zero.                                               *)
Record == [pc : {"idle", "link", "count", "push", "unlink", "refer", "reload", "acquire",
                 "peek", "pop", "got", "release"},
           head : Nodes \cup {NULL}, next : Nodes \cup {NULL}, node : Nodes \cup {NULL},
           count : Nat, bit : BOOLEAN]
Sound(r) ==
  /\ r.pc \in {"refer", "acquire", "peek", "pop", "got"} => r.head \in Nodes
  /\ r.pc \in {"link", "count", "push", "unlink", "release"} => r.node \in Nodes
  /\ r.pc = "acquire" => r.count > 0

TypeOK ==
  /\ freeListHead \in Nodes \cup {NULL}
  /\ freeListNext \in [Nodes -> Nodes \cup {NULL}]
  /\ refs \in [Nodes -> Nat]
  /\ flagged \in [Nodes -> BOOLEAN]
  /\ user \in [Users -> Record]
  /\ owned \in [Users -> SUBSET Nodes]
  /\ \A t \in Users : Sound(user[t])

(* A node has no owner and is not on the list while a thread carries it    *)
(* there, or away from it.  Not yet counted: it has no reference.          *)
Uncounted(t, n) == user[t].pc \in {"link", "count"} /\ user[t].node = n
Counted(t, n) == \/ user[t].pc \in {"push", "unlink"} /\ user[t].node = n
                 \/ user[t].pc = "got" /\ user[t].head = n
Carries(t, n) == Uncounted(t, n) \/ Counted(t, n)
Has(t, n) == n \in owned[t] \/ Carries(t, n)

OnePlace(n) ==
  \A t \in Users : Has(t, n) =>
    /\ n \notin Listed
    /\ \A u \in Users : Has(u, n) => u = t
    /\ ~(n \in owned[t] /\ Carries(t, n))

(* Every reference is that of the list or of a thread that looks at the    *)
(* node; the list's comes before the node is linked and goes after.        *)
Looks(t, n) == \/ user[t].pc \in {"peek", "pop", "got"} /\ user[t].head = n
               \/ user[t].pc = "release" /\ user[t].node = n
Lookers(n) == {t \in Users : Looks(t, n)}
ListCounts(n) == n \in Listed \/ \E t \in Users : Counted(t, n)
CountIsRight(n) ==
  refs[n] = Cardinality(Lookers(n)) + IF ListCounts(n) THEN 1 ELSE 0

(* The bit says that the node has to be put on the list: it is set where   *)
(* nobody has the node, and then someone looks at it who will see that.    *)
BitIsRight(n) ==
  /\ ListCounts(n) => ~flagged[n]
  /\ \A t \in Users : n \in owned[t] => ~flagged[n]
  /\ \A t \in Users : Uncounted(t, n) => flagged[n] /\ refs[n] = 0
  /\ (n \notin Listed /\ \A t \in Users : ~Has(t, n)) => flagged[n] /\ refs[n] > 0

NodeIsRight(n) == OnePlace(n) /\ CountIsRight(n) /\ BitIsRight(n)

(* What was read as the next node still is: of a node that is looked at,   *)
(* and of one that is about to be linked.                                  *)
NextIsRight ==
  \A t \in Users :
    /\ user[t].pc = "pop" => user[t].next = freeListNext[user[t].head]
    /\ user[t].pc \in {"count", "push"} => user[t].next = freeListNext[user[t].node]

(* The list has no cycle. *)
NoCycle == \A m \in Listed : m \notin Reach(freeListNext, freeListNext[m])

IInv == TypeOK /\ (\A n \in Nodes : NodeIsRight(n)) /\ NextIsRight /\ NoCycle

-----------------------------------------------------------------------------
(* About the nodes that are reached. *)
Nexts == [Nodes -> Nodes \cup {NULL}]

(* They are themselves closed. *)
LEMMA ReachIsClosed ==
  ASSUME NEW F \in Nexts, NEW x \in Nodes \cup {NULL}
  PROVE  /\ Reach(F, x) \in SUBSET Nodes
         /\ Closed(F, Reach(F, x))
         /\ x \in Reach(F, x) \cup {NULL}
<1>1. Reach(F, x) \in SUBSET Nodes  BY DEF Reach
<1>2. Closed(F, Reach(F, x))
  <2>1. SUFFICES ASSUME NEW m \in Reach(F, x), F[m] # NULL PROVE F[m] \in Reach(F, x)
    BY DEF Closed
  <2>2. m \in Nodes /\ F[m] \in Nodes  BY <1>1, <2>1 DEF Nexts
  <2>3. ASSUME NEW S \in SUBSET Nodes, Closed(F, S), x \in S \cup {NULL} PROVE F[m] \in S
    BY <2>1, <2>3 DEF Reach, Closed
  <2> QED  BY <2>2, <2>3 DEF Reach
<1>3. x \in Reach(F, x) \cup {NULL}  BY DEF Reach
<1> QED  BY <1>1, <1>2, <1>3

(* No closed set with x has fewer nodes. *)
LEMMA ReachIsLeast ==
  ASSUME NEW F, NEW x, NEW S \in SUBSET Nodes, Closed(F, S), x \in S \cup {NULL}
  PROVE  Reach(F, x) \subseteq S
BY DEF Reach

(* From the end of the list nothing is reached. *)
LEMMA NothingFromNull ==
  ASSUME NEW F PROVE Reach(F, NULL) = {}
<1>1. Closed(F, {})  BY DEF Closed
<1> QED  BY <1>1, ReachIsLeast

(* A node is reached from itself, and then what its next one reaches is. *)
LEMMA ReachStep ==
  ASSUME NEW F \in Nexts, NEW n \in Nodes
  PROVE  Reach(F, n) = {n} \cup Reach(F, F[n])
<1>0. F[n] \in Nodes \cup {NULL}  BY DEF Nexts
<1>1. Reach(F, n) \subseteq {n} \cup Reach(F, F[n])
  <2>1. Closed(F, {n} \cup Reach(F, F[n]))  BY <1>0, ReachIsClosed DEF Closed
  <2>2. {n} \cup Reach(F, F[n]) \in SUBSET Nodes  BY <1>0, ReachIsClosed
  <2> QED  BY <2>1, <2>2, ReachIsLeast
<1>2. n \in Reach(F, n)  BY FreeListAssumption, ReachIsClosed
<1>3. Reach(F, F[n]) \subseteq Reach(F, n)
  <2>1. F[n] \in Reach(F, n) \cup {NULL}  BY <1>2, ReachIsClosed DEF Closed
  <2>2. Reach(F, n) \in SUBSET Nodes /\ Closed(F, Reach(F, n))  BY ReachIsClosed
  <2> QED  BY <2>1, <2>2, ReachIsLeast
<1> QED  BY <1>1, <1>2, <1>3

(* What is reached from a node that is reached. *)
LEMMA ReachFurther ==
  ASSUME NEW F \in Nexts, NEW x \in Nodes \cup {NULL}, NEW m \in Reach(F, x)
  PROVE  Reach(F, F[m]) \subseteq Reach(F, x)
<1>1. Reach(F, x) \in SUBSET Nodes /\ Closed(F, Reach(F, x))  BY ReachIsClosed
<1>2. F[m] \in Reach(F, x) \cup {NULL}  BY <1>1 DEF Closed
<1> QED  BY <1>1, <1>2, ReachIsLeast

(* The next node of one that is not reached may be changed. *)
LEMMA ReachElsewhere ==
  ASSUME NEW F \in Nexts, NEW x \in Nodes \cup {NULL},
         NEW n \in Nodes, n \notin Reach(F, x), NEW y \in Nodes \cup {NULL}
  PROVE  Reach([F EXCEPT ![n] = y], x) = Reach(F, x)
<1> DEFINE G == [F EXCEPT ![n] = y]
<1>1. G \in Nexts /\ \A m \in Nodes : m # n => G[m] = F[m]  BY DEF Nexts
<1> HIDE DEF G
<1>2. Reach(F, x) \in SUBSET Nodes /\ Closed(F, Reach(F, x)) /\ x \in Reach(F, x) \cup {NULL}
  BY ReachIsClosed
<1>3. Closed(G, Reach(F, x))  BY <1>1, <1>2 DEF Closed
<1>4. Reach(G, x) \subseteq Reach(F, x)  BY <1>2, <1>3, ReachIsLeast
<1>5. Reach(G, x) \in SUBSET Nodes /\ Closed(G, Reach(G, x)) /\ x \in Reach(G, x) \cup {NULL}
  BY <1>1, ReachIsClosed
<1>6. Closed(F, Reach(G, x))  BY <1>1, <1>4, <1>5 DEF Closed
<1>7. Reach(F, x) \subseteq Reach(G, x)  BY <1>5, <1>6, ReachIsLeast
<1>8. Reach(G, x) = Reach(F, x)  BY <1>4, <1>7
<1> QED  BY <1>8 DEF G

-----------------------------------------------------------------------------
(* The invariant holds when the list is made. *)
LEMMA InitIsSound == ListInit => IInv
<1> SUFFICES ASSUME ListInit PROVE IInv  OBVIOUS
<1> USE FreeListAssumption
<1>1. Listed = {}  BY NothingFromNull DEF ListInit, Listed
<1>2. \A t \in Users : user[t] = Idle  BY DEF ListInit
<1>3. \A t \in Users, n \in Nodes :
        ~Uncounted(t, n) /\ ~Counted(t, n) /\ ~Looks(t, n)
  BY <1>2 DEF Uncounted, Counted, Looks, Idle
<1>4. TypeOK
  <2>1. Idle \in Record /\ Sound(Idle)  BY DEF Idle, Record, Sound
  <2> QED  BY <1>2, <2>1 DEF ListInit, TypeOK
<1>5. \A n \in Nodes : OnePlace(n)  BY <1>1, <1>3 DEF OnePlace, Has, Carries, ListInit
<1>6. \A n \in Nodes : CountIsRight(n)
  <2>1. \A n \in Nodes : Lookers(n) = {}  BY <1>3 DEF Lookers
  <2>2. Cardinality({}) = 0  BY FS_EmptySet
  <2>3. \A n \in Nodes : ~ListCounts(n)  BY <1>1, <1>3 DEF ListCounts
  <2>4. \A n \in Nodes : refs[n] = 0  BY DEF ListInit
  <2> QED  BY <2>1, <2>2, <2>3, <2>4 DEF CountIsRight
<1>7. \A n \in Nodes : BitIsRight(n)
  <2>0. ASSUME NEW n \in Nodes PROVE \E t \in Users : n \in owned[t]
    <3>1. (CHOOSE u \in Users : TRUE) \in Users  OBVIOUS
    <3> QED  BY <3>1 DEF ListInit
  <2> QED  BY <1>1, <1>3, <2>0 DEF BitIsRight, ListCounts, Has, ListInit
<1>8. NextIsRight  BY <1>2 DEF NextIsRight, Idle
<1>9. NoCycle  BY <1>1 DEF NoCycle
<1> QED  BY <1>4, <1>5, <1>6, <1>7, <1>8, <1>9 DEF IInv, NodeIsRight

-----------------------------------------------------------------------------
(* What a step leaves alone.                                               *)
Untouched(m) ==
  /\ \A u \in Users : /\ Uncounted(u, m)' <=> Uncounted(u, m)
                      /\ Counted(u, m)' <=> Counted(u, m)
                      /\ Looks(u, m)' <=> Looks(u, m)
                      /\ m \in owned'[u] <=> m \in owned[u]
  /\ m \in Listed' <=> m \in Listed
  /\ refs'[m] = refs[m]
  /\ flagged'[m] = flagged[m]

(* A step keeps what it says of a node that the step leaves alone. *)
LEMMA UntouchedIsRight ==
  ASSUME NEW m \in Nodes, NodeIsRight(m), Untouched(m)
  PROVE  NodeIsRight(m)'
<1>1. \A u \in Users : Has(u, m)' <=> Has(u, m)  BY DEF Untouched, Has, Carries
<1>2. \A u \in Users : Carries(u, m)' <=> Carries(u, m)  BY DEF Untouched, Carries
<1>3. ListCounts(m)' <=> ListCounts(m)  BY DEF Untouched, ListCounts
<1>4. Lookers(m)' = Lookers(m)  BY DEF Untouched, Lookers
<1>5. OnePlace(m)'  BY <1>1, <1>2 DEF NodeIsRight, OnePlace, Untouched
<1>6. CountIsRight(m)'  BY <1>3, <1>4 DEF NodeIsRight, CountIsRight, Untouched
<1>7. BitIsRight(m)'  BY <1>1, <1>3 DEF NodeIsRight, BitIsRight, Untouched
<1> QED  BY <1>5, <1>6, <1>7 DEF NodeIsRight

(* The list is what the head and the next pointers make it. *)
LEMMA ListStays ==
  ASSUME UNCHANGED <<freeListHead, freeListNext>>
  PROVE  Listed' = Listed /\ (NoCycle => NoCycle')
BY DEF Listed, NoCycle

(* How many threads look at a node. *)
LEMMA CountUsers ==
  ASSUME NEW S \in SUBSET Users
  PROVE  /\ Cardinality(S) \in Nat
         /\ Cardinality(S) = 0 <=> S = {}
         /\ \A t \in Users \ S : Cardinality(S \cup {t}) = Cardinality(S) + 1
         /\ \A t \in S : Cardinality(S \ {t}) = Cardinality(S) - 1
<1>1. IsFiniteSet(S)  BY FreeListAssumption, FS_Subset
<1> QED  BY <1>1, FS_CardinalityType, FS_EmptySet, FS_AddElement, FS_RemoveElement

(* Steps that only read. *)
Wandering == {"idle", "refer", "reload", "acquire"}
LEMMA Wanders ==
  ASSUME IInv, NEW t \in Users, NEW r \in Record, Sound(r), Set(t, r),
         user[t].pc \in Wandering, r.pc \in Wandering,
         UNCHANGED <<freeListHead, freeListNext, refs, flagged, owned>>
  PROVE  IInv'
<1>1. user'[t] = r /\ \A u \in Users : u # t => user'[u] = user[u]
  BY DEF IInv, TypeOK, Set
<1>2. TypeOK'  BY <1>1 DEF IInv, TypeOK, Set
<1>3. ASSUME NEW m \in Nodes PROVE Untouched(m)
  <2>1. Listed' = Listed  BY ListStays
  <2>2. \A u \in Users : /\ Uncounted(u, m)' <=> Uncounted(u, m)
                         /\ Counted(u, m)' <=> Counted(u, m)
                         /\ Looks(u, m)' <=> Looks(u, m)
    BY <1>1 DEF Uncounted, Counted, Looks, Wandering
  <2> QED  BY <2>1, <2>2 DEF Untouched
<1>4. NextIsRight'  BY <1>1 DEF IInv, NextIsRight, Wandering
<1>5. NoCycle'  BY ListStays DEF IInv
<1> QED  BY <1>2, <1>3, <1>4, <1>5, UntouchedIsRight DEF IInv

(* Where a try_get goes on with a head that it has read. *)
LEMMA ResumedIsSound ==
  ASSUME NEW t \in Users, NEW head \in Nodes \cup {NULL}
  PROVE  /\ Resumed(t, head) \in Record
         /\ Sound(Resumed(t, head))
         /\ Resumed(t, head).pc \in {"idle", "refer"}
BY FreeListAssumption DEF Resumed, Idle, Record, Sound

(* One lemma for each action; n is the node that it is about. *)
LEMMA TryGetKeeps ==
  ASSUME IInv, NEW t \in Users, TryGet(t) \/ Reload(t)
  PROVE  IInv'
<1>1. freeListHead \in Nodes \cup {NULL}  BY DEF IInv, TypeOK
<1>2. user[t].pc \in Wandering  BY DEF TryGet, Reload, At, Wandering
<1>3. Resumed(t, freeListHead).pc \in Wandering  BY <1>1, ResumedIsSound DEF Wandering
<1> QED  BY <1>1, <1>2, <1>3, ResumedIsSound, Wanders DEF TryGet, Reload

LEMMA ReferKeeps ==
  ASSUME IInv, NEW t \in Users, Refer(t)
  PROVE  IInv'
<1> DEFINE n == user[t].head
           r == IF refs[n] = 0 THEN [Idle EXCEPT !.pc = "reload"]
                ELSE [user[t] EXCEPT !.pc = "acquire", !.count = refs[n], !.bit = flagged[n]]
<1>1. user[t] \in Record /\ user[t].pc = "refer" /\ n \in Nodes
  BY DEF IInv, TypeOK, Sound, Refer, At
<1>2. refs[n] \in Nat /\ flagged[n] \in BOOLEAN  BY <1>1 DEF IInv, TypeOK
<1>3. r \in Record /\ Sound(r) /\ r.pc \in Wandering
  <2>1. CASE refs[n] = 0
    <3>1. r = [Idle EXCEPT !.pc = "reload"]  BY <2>1
    <3> QED  BY <3>1 DEF Record, Sound, Idle, Wandering
  <2>2. CASE refs[n] # 0
    <3>1. r = [user[t] EXCEPT !.pc = "acquire", !.count = refs[n], !.bit = flagged[n]]  BY <2>2
    <3>2. refs[n] > 0  BY <2>2, <1>2
    <3> QED  BY <3>1, <3>2, <1>1, <1>2 DEF Record, Sound, Wandering
  <2> QED  BY <2>1, <2>2
<1>4. user[t].pc \in Wandering  BY <1>1 DEF Wandering
<1>5. Set(t, r)  BY DEF Refer
<1>6. UNCHANGED <<freeListHead, freeListNext, refs, flagged, owned>>  BY DEF Refer
<1> QED  BY <1>3, <1>4, <1>5, <1>6, Wanders

(* A thread begins to look at a node. *)
LEMMA OneMoreLooks ==
  ASSUME NEW n \in Nodes, NEW t \in Users, CountIsRight(n),
         ~Looks(t, n), Looks(t, n)',
         \A u \in Users : u # t => (Looks(u, n)' <=> Looks(u, n)),
         ListCounts(n)' <=> ListCounts(n), refs'[n] = refs[n] + 1
  PROVE  CountIsRight(n)'
<1>1. Lookers(n)' = Lookers(n) \cup {t} /\ t \notin Lookers(n)  BY DEF Lookers
<1>2. Lookers(n) \in SUBSET Users  BY DEF Lookers
<1>3. Cardinality(Lookers(n)') = Cardinality(Lookers(n)) + 1 /\ Cardinality(Lookers(n)) \in Nat
  BY <1>1, <1>2, CountUsers
<1> QED  BY <1>3 DEF CountIsRight

(* A thread looks at a node no longer. *)
LEMMA OneLessLooks ==
  ASSUME NEW n \in Nodes, NEW t \in Users, Looks(t, n), ~Looks(t, n)',
         \A u \in Users : u # t => (Looks(u, n)' <=> Looks(u, n))
  PROVE  /\ Cardinality(Lookers(n)') = Cardinality(Lookers(n)) - 1
         /\ Cardinality(Lookers(n)) \in Nat \ {0}
         /\ Cardinality(Lookers(n)') \in Nat
<1>1. Lookers(n)' = Lookers(n) \ {t} /\ t \in Lookers(n)  BY DEF Lookers
<1>2. Lookers(n) \in SUBSET Users /\ Lookers(n)' \in SUBSET Users  BY DEF Lookers
<1>3. Cardinality(Lookers(n)') = Cardinality(Lookers(n)) - 1  BY <1>1, <1>2, CountUsers
<1>4. Cardinality(Lookers(n)) \in Nat /\ Cardinality(Lookers(n)) # 0 /\ Cardinality(Lookers(n)') \in Nat
  BY <1>1, <1>2, CountUsers
<1> QED  BY <1>3, <1>4

(* A node that is looked at has a reference. *)
LEMMA SomeoneLooks ==
  ASSUME NEW n \in Nodes, NEW t \in Users, CountIsRight(n), Looks(t, n)
  PROVE  refs[n] > 0
<1>1. t \in Lookers(n) /\ Lookers(n) \in SUBSET Users  BY DEF Lookers
<1>2. Cardinality(Lookers(n)) \in Nat /\ Cardinality(Lookers(n)) # 0  BY <1>1, CountUsers
<1> QED  BY <1>2 DEF CountIsRight

LEMMA AcquireKeeps ==
  ASSUME IInv, NEW t \in Users, Acquire(t)
  PROVE  IInv'
<1>1. PICK n \in Nodes : n = user[t].head
  BY DEF IInv, TypeOK, Sound, Acquire, At
<1>0. user[t] \in Record /\ user[t].pc = "acquire" /\ user[t].count > 0
  BY DEF IInv, TypeOK, Sound, Acquire, At
<1>2. CASE ~SameWord(t)
  <2> DEFINE r == [Idle EXCEPT !.pc = "reload"]
  <2>1. r \in Record /\ Sound(r) /\ r.pc \in Wandering  BY DEF Record, Sound, Idle, Wandering
  <2>2. user[t].pc \in Wandering  BY <1>0, <1>1 DEF Wandering
  <2>3. Set(t, r)  BY <1>2 DEF Acquire
  <2>4. UNCHANGED <<freeListHead, freeListNext, refs, flagged, owned>>  BY <1>2 DEF Acquire
  <2> QED  BY <2>1, <2>2, <2>3, <2>4, Wanders
<1>3. CASE SameWord(t)
  <2> DEFINE r == [Idle EXCEPT !.pc = "peek", !.head = n]
  <2>1. r \in Record /\ Sound(r) /\ r.pc = "peek" /\ r.head = n  BY <1>0, <1>1 DEF Record, Sound, Idle
  <2>2. user' = [user EXCEPT ![t] = r] /\ refs' = [refs EXCEPT ![n] = @ + 1]
    BY <1>1, <1>3 DEF Acquire, Set
  <2> HIDE DEF r
  <2>3. UNCHANGED <<freeListHead, freeListNext, flagged, owned>>  BY DEF Acquire
  <2>4. user'[t] = r /\ \A u \in Users : u # t => user'[u] = user[u]
    BY <2>2 DEF IInv, TypeOK
  <2>5. refs[n] = user[t].count  BY <1>1, <1>3 DEF SameWord
  <2>6. refs'[n] = refs[n] + 1 /\ \A m \in Nodes : m # n => refs'[m] = refs[m]
    BY <1>0, <1>1, <2>2 DEF IInv, TypeOK
  <2>7. TypeOK'
    <3>1. refs[n] + 1 \in Nat  BY <1>0, <1>1 DEF IInv, TypeOK
    <3>2. refs' \in [Nodes -> Nat]  BY <3>1, <2>2 DEF IInv, TypeOK
    <3>3. user' \in [Users -> Record]  BY <2>1, <2>2 DEF IInv, TypeOK
    <3>4. \A u \in Users : Sound(user'[u])  BY <2>1, <2>4 DEF IInv, TypeOK
    <3> QED  BY <3>2, <3>3, <3>4, <2>3 DEF IInv, TypeOK
  <2>8. Listed' = Listed  BY <2>3, ListStays
  <2>9. \A m \in Nodes, u \in Users : /\ Uncounted(u, m)' <=> Uncounted(u, m)
                                      /\ Counted(u, m)' <=> Counted(u, m)
                                      /\ Looks(u, m)' <=> Looks(u, m) \/ (u = t /\ m = n)
    BY <1>0, <1>1, <2>1, <2>4 DEF Uncounted, Counted, Looks
  <2>10. \A m \in Nodes : m # n => NodeIsRight(m)'
    <3>1. \A m \in Nodes : m # n => Untouched(m)  BY <2>3, <2>6, <2>8, <2>9 DEF Untouched
    <3> QED  BY <3>1, UntouchedIsRight DEF IInv
  <2>11. NodeIsRight(n)'
    <3>0. NodeIsRight(n)  BY <1>0, <1>1 DEF IInv
    <3>1. ListCounts(n)' <=> ListCounts(n)  BY <1>0, <1>1, <2>8, <2>9 DEF ListCounts
    <3>2. ~Looks(t, n)  BY <1>0, <1>1 DEF Looks
    <3>3. CountIsRight(n)'
      BY <1>0, <1>1, <3>0, <3>1, <3>2, <2>6, <2>9, OneMoreLooks DEF NodeIsRight
    <3>4. \A u \in Users : (Has(u, n)' <=> Has(u, n)) /\ (Carries(u, n)' <=> Carries(u, n))
      BY <1>0, <1>1, <2>3, <2>9 DEF Has, Carries
    <3>5. OnePlace(n)'  BY <3>0, <3>4, <2>3, <2>8 DEF NodeIsRight, OnePlace
    <3>6. refs[n] > 0 /\ refs'[n] > 0  BY <1>0, <1>1, <2>5, <2>6 DEF IInv, TypeOK
    <3>7. BitIsRight(n)'
      BY <1>0, <1>1, <3>0, <3>1, <3>4, <3>6, <2>3, <2>8, <2>9 DEF NodeIsRight, BitIsRight
    <3> QED  BY <3>3, <3>5, <3>7 DEF NodeIsRight
  <2>12. NextIsRight'  BY <2>1, <2>3, <2>4 DEF IInv, NextIsRight
  <2>13. NoCycle'  BY <2>3, ListStays DEF IInv
  <2> QED  BY <2>7, <2>10, <2>11, <2>12, <2>13 DEF IInv
<1> QED  BY <1>2, <1>3

LEMMA PeekKeeps ==
  ASSUME IInv, NEW t \in Users, Peek(t)
  PROVE  IInv'
<1> DEFINE n == user[t].head
           r == [user[t] EXCEPT !.pc = "pop", !.next = freeListNext[n]]
<1>1. user[t] \in Record /\ user[t].pc = "peek" /\ n \in Nodes /\ freeListNext[n] \in Nodes \cup {NULL}
  BY DEF IInv, TypeOK, Sound, Peek, At
<1>2. /\ r \in Record /\ Sound(r)
      /\ r.pc = "pop" /\ r.head = n /\ r.next = freeListNext[n] /\ r.node = user[t].node
  BY <1>1 DEF Record, Sound
<1>3. user' = [user EXCEPT ![t] = r]  BY DEF Peek, Set
<1>4. UNCHANGED <<freeListHead, freeListNext, refs, flagged, owned>>  BY DEF Peek
<1> HIDE DEF r
<1>5. user'[t] = r /\ \A u \in Users : u # t => user'[u] = user[u]
  BY <1>3 DEF IInv, TypeOK
<1>6. TypeOK'
  <2>1. user' \in [Users -> Record]  BY <1>2, <1>3 DEF IInv, TypeOK
  <2>2. \A u \in Users : Sound(user'[u])  BY <1>2, <1>5 DEF IInv, TypeOK
  <2> QED  BY <2>1, <2>2, <1>4 DEF IInv, TypeOK
<1>7. \A m \in Nodes : Untouched(m)
  <2>1. Listed' = Listed  BY <1>4, ListStays
  <2>2. \A m \in Nodes, u \in Users : /\ Uncounted(u, m)' <=> Uncounted(u, m)
                                      /\ Counted(u, m)' <=> Counted(u, m)
                                      /\ Looks(u, m)' <=> Looks(u, m)
    BY <1>1, <1>2, <1>5 DEF Uncounted, Counted, Looks
  <2> QED  BY <2>1, <2>2, <1>4 DEF Untouched
<1>8. NextIsRight'  BY <1>2, <1>4, <1>5 DEF IInv, NextIsRight
<1>9. NoCycle'  BY <1>4, ListStays DEF IInv
<1> QED  BY <1>6, <1>7, <1>8, <1>9, UntouchedIsRight DEF IInv

(* What a step of t does to the local variables. *)
LEMMA UserSteps ==
  ASSUME IInv, NEW t \in Users, NEW r \in Record, Sound(r), Set(t, r)
  PROVE  /\ user'[t] = r
         /\ \A u \in Users : u # t => user'[u] = user[u]
         /\ user' \in [Users -> Record]
         /\ \A u \in Users : Sound(user'[u])
<1>1. user' = [user EXCEPT ![t] = r] /\ user \in [Users -> Record]  BY DEF IInv, TypeOK, Set
<1>2. user'[t] = r /\ \A u \in Users : u # t => user'[u] = user[u]  BY <1>1
<1>3. user' \in [Users -> Record]  BY <1>1
<1>4. \A u \in Users : Sound(user'[u])  BY <1>2 DEF IInv, TypeOK
<1> QED  BY <1>2, <1>3, <1>4

LEMMA GotKeeps ==
  ASSUME IInv, NEW t \in Users, Got(t)
  PROVE  IInv'
<1>1. PICK n \in Nodes : n = user[t].head
  BY DEF IInv, TypeOK, Sound, Got, At
<1>2. user[t].pc = "got"  BY DEF Got, At
<1>3. Idle \in Record /\ Sound(Idle) /\ Idle.pc = "idle"  BY DEF Idle, Record, Sound
<1>4. /\ user'[t] = Idle /\ user' \in [Users -> Record]
      /\ \A u \in Users : (u # t => user'[u] = user[u]) /\ Sound(user'[u])
  BY <1>3, UserSteps DEF Got
<1>5. UNCHANGED <<freeListHead, freeListNext, flagged>>  BY DEF Got
<1>6. refs' = [refs EXCEPT ![n] = refs[n] - 2] /\ owned' = [owned EXCEPT ![t] = owned[t] \cup {n}]
  BY <1>1 DEF Got
<1>7. refs'[n] = refs[n] - 2 /\ \A m \in Nodes : m # n => refs'[m] = refs[m]
  BY <1>6 DEF IInv, TypeOK
<1>8. \A m \in Nodes, u \in Users : m \in owned'[u] <=> m \in owned[u] \/ (u = t /\ m = n)
  BY <1>6 DEF IInv, TypeOK
<1>9. \A m \in Nodes, u \in Users :
        /\ Uncounted(u, m)' <=> Uncounted(u, m)
        /\ Counted(u, m)' <=> Counted(u, m) /\ ~(u = t /\ m = n)
        /\ Looks(u, m)' <=> Looks(u, m) /\ ~(u = t /\ m = n)
  BY <1>1, <1>2, <1>3, <1>4 DEF Uncounted, Counted, Looks
<1>10. Counted(t, n) /\ Looks(t, n) /\ Has(t, n)  BY <1>1, <1>2 DEF Counted, Looks, Has, Carries
<1>11. Listed' = Listed  BY <1>5, ListStays
<1>12. NodeIsRight(n)  BY DEF IInv
<1>13. n \notin Listed /\ \A u \in Users : Has(u, n) => u = t
  BY <1>10, <1>12 DEF NodeIsRight, OnePlace
<1>14. \A u \in Users : ~Carries(u, n)'
  BY <1>9, <1>10, <1>13, <1>2 DEF Carries, Uncounted, Has
<1>15. ListCounts(n) /\ ~ListCounts(n)'
  BY <1>10, <1>11, <1>13, <1>14 DEF ListCounts, Carries
<1>16. CountIsRight(n)'
  <2>1. /\ Cardinality(Lookers(n)') = Cardinality(Lookers(n)) - 1
        /\ Cardinality(Lookers(n)) \in Nat \ {0}
    BY <1>9, <1>10, OneLessLooks
  <2> QED  BY <2>1, <1>7, <1>12, <1>15 DEF NodeIsRight, CountIsRight
<1>17. refs'[n] \in Nat
  <2>1. Cardinality(Lookers(n)') \in Nat  BY <1>9, <1>10, OneLessLooks
  <2> QED  BY <2>1, <1>15, <1>16 DEF CountIsRight
<1>18. TypeOK'
  <2>1. refs' \in [Nodes -> Nat]  BY <1>6, <1>7, <1>17 DEF IInv, TypeOK
  <2>2. owned' \in [Users -> SUBSET Nodes]  BY <1>6 DEF IInv, TypeOK
  <2> QED  BY <2>1, <2>2, <1>4, <1>5 DEF IInv, TypeOK
<1>19. \A u \in Users : Has(u, n)' <=> u = t
  BY <1>8, <1>13, <1>14 DEF Has
<1>20. OnePlace(n)'  BY <1>11, <1>13, <1>14, <1>19 DEF OnePlace
<1>21. BitIsRight(n)'
  <2>1. ~flagged'[n]  BY <1>5, <1>12, <1>15 DEF NodeIsRight, BitIsRight
  <2> QED  BY <2>1, <1>14, <1>15, <1>19 DEF BitIsRight, Carries
<1>22. \A m \in Nodes : m # n => NodeIsRight(m)'
  <2>1. \A m \in Nodes : m # n => Untouched(m)  BY <1>5, <1>7, <1>8, <1>9, <1>11 DEF Untouched
  <2> QED  BY <2>1, UntouchedIsRight DEF IInv
<1>23. NextIsRight'  BY <1>3, <1>4, <1>5 DEF IInv, NextIsRight
<1>24. NoCycle'  BY <1>5, ListStays DEF IInv
<1> QED  BY <1>16, <1>18, <1>20, <1>21, <1>22, <1>23, <1>24 DEF IInv, NodeIsRight

LEMMA PopKeeps ==
  ASSUME IInv, NEW t \in Users, Pop(t)
  PROVE  IInv'
<1>1. PICK n \in Nodes : n = user[t].head
  BY DEF IInv, TypeOK, Sound, Pop, At
<1>2. user[t] \in Record /\ user[t].pc = "pop"  BY DEF IInv, TypeOK, Pop, At
<1>3. UNCHANGED <<freeListNext, refs, flagged, owned>>  BY DEF Pop
<1>4. freeListHead \in Nodes \cup {NULL}  BY DEF IInv, TypeOK
<1>5. user[t].next = freeListNext[n] /\ freeListNext[n] \in Nodes \cup {NULL}
  BY <1>1, <1>2 DEF IInv, TypeOK, NextIsRight
<1>6. CASE freeListHead # n
  <2> DEFINE r == [Idle EXCEPT !.pc = "release", !.node = n, !.head = freeListHead]
  <2>1. r \in Record /\ Sound(r) /\ r.pc = "release" /\ r.node = n
    BY <1>4 DEF Record, Sound, Idle
  <2>2. Set(t, r) /\ UNCHANGED freeListHead  BY <1>1, <1>6 DEF Pop
  <2> HIDE DEF r
  <2>3. /\ user'[t] = r /\ user' \in [Users -> Record]
        /\ \A u \in Users : (u # t => user'[u] = user[u]) /\ Sound(user'[u])
    BY <2>1, <2>2, UserSteps
  <2>4. TypeOK'  BY <2>2, <2>3, <1>3 DEF IInv, TypeOK
  <2>5. \A m \in Nodes : Untouched(m)
    <3>1. Listed' = Listed  BY <1>3, <2>2, ListStays
    <3>2. \A m \in Nodes, u \in Users : /\ Uncounted(u, m)' <=> Uncounted(u, m)
                                        /\ Counted(u, m)' <=> Counted(u, m)
                                        /\ Looks(u, m)' <=> Looks(u, m)
      BY <1>1, <1>2, <2>1, <2>3 DEF Uncounted, Counted, Looks
    <3> QED  BY <3>1, <3>2, <1>3 DEF Untouched
  <2>6. NextIsRight'  BY <2>1, <2>3, <1>3 DEF IInv, NextIsRight
  <2>7. NoCycle'  BY <2>2, <1>3, ListStays DEF IInv
  <2> QED  BY <2>4, <2>5, <2>6, <2>7, UntouchedIsRight DEF IInv
<1>7. CASE freeListHead = n
  <2> DEFINE r == [user[t] EXCEPT !.pc = "got", !.next = NULL]
  <2>1. r \in Record /\ Sound(r) /\ r.pc = "got" /\ r.head = n
    BY <1>1, <1>2 DEF Record, Sound
  <2>2. Set(t, r) /\ freeListHead' = freeListNext[n]  BY <1>1, <1>5, <1>7 DEF Pop
  <2> HIDE DEF r
  <2>3. /\ user'[t] = r /\ user' \in [Users -> Record]
        /\ \A u \in Users : (u # t => user'[u] = user[u]) /\ Sound(user'[u])
    BY <2>1, <2>2, UserSteps
  <2>4. TypeOK'  BY <2>2, <2>3, <1>3, <1>5 DEF IInv, TypeOK
  <2>5. freeListNext \in Nexts  BY DEF IInv, TypeOK, Nexts
  <2>6. n \in Listed /\ Listed' = Listed \ {n}
    <3>1. Listed = {n} \cup Reach(freeListNext, freeListNext[n])
      BY <1>7, <2>5, ReachStep DEF Listed
    <3>2. n \notin Reach(freeListNext, freeListNext[n])  BY <3>1 DEF IInv, NoCycle
    <3>3. Listed' = Reach(freeListNext, freeListNext[n])  BY <1>3, <2>2 DEF Listed
    <3> QED  BY <3>1, <3>2, <3>3
  <2>7. \A m \in Nodes, u \in Users : /\ Uncounted(u, m)' <=> Uncounted(u, m)
                                      /\ Counted(u, m)' <=> Counted(u, m) \/ (u = t /\ m = n)
                                      /\ Looks(u, m)' <=> Looks(u, m)
    BY <1>1, <1>2, <2>1, <2>3 DEF Uncounted, Counted, Looks
  <2>8. NodeIsRight(n)  BY DEF IInv
  <2>9. \A u \in Users : ~Has(u, n)  BY <2>6, <2>8 DEF NodeIsRight, OnePlace
  <2>10. \A u \in Users : /\ Has(u, n)' <=> u = t
                          /\ n \notin owned'[u] /\ ~Uncounted(u, n)'
    BY <2>7, <2>9, <1>3 DEF Has, Carries
  <2>11. OnePlace(n)'  BY <2>6, <2>10 DEF OnePlace
  <2>12. ListCounts(n) /\ ListCounts(n)'  BY <2>6, <2>7 DEF ListCounts
  <2>13. CountIsRight(n)'
    <3>1. Lookers(n)' = Lookers(n)  BY <2>7 DEF Lookers
    <3> QED  BY <3>1, <2>8, <2>12, <1>3 DEF NodeIsRight, CountIsRight
  <2>14. BitIsRight(n)'
    BY <2>8, <2>10, <2>12, <1>3 DEF NodeIsRight, BitIsRight
  <2>15. \A m \in Nodes : m # n => NodeIsRight(m)'
    <3>1. \A m \in Nodes : m # n => Untouched(m)  BY <2>6, <2>7, <1>3 DEF Untouched
    <3> QED  BY <3>1, UntouchedIsRight DEF IInv
  <2>16. NextIsRight'  BY <2>1, <2>3, <1>3 DEF IInv, NextIsRight
  <2>17. NoCycle'  BY <2>6, <1>3 DEF IInv, NoCycle
  <2> QED  BY <2>4, <2>11, <2>13, <2>14, <2>15, <2>16, <2>17 DEF IInv, NodeIsRight
<1> QED  BY <1>6, <1>7

LEMMA ReleaseKeeps ==
  ASSUME IInv, NEW t \in Users, Release(t)
  PROVE  IInv'
<1>1. PICK n \in Nodes : n = user[t].node
  BY DEF IInv, TypeOK, Sound, Release, At
<1>2. user[t] \in Record /\ user[t].pc = "release"  BY DEF IInv, TypeOK, Release, At
<1>3. UNCHANGED <<freeListHead, freeListNext, flagged, owned>>  BY DEF Release
<1>4. freeListHead \in Nodes \cup {NULL} /\ user[t].head \in Nodes \cup {NULL}
  BY <1>2 DEF IInv, TypeOK, Record
<1>5. refs' = [refs EXCEPT ![n] = refs[n] - 1]  BY <1>1 DEF Release
<1>6. refs'[n] = refs[n] - 1 /\ \A m \in Nodes : m # n => refs'[m] = refs[m]
  BY <1>5 DEF IInv, TypeOK
<1>7. NodeIsRight(n)  BY DEF IInv
<1>8. Looks(t, n) /\ \A m \in Nodes : ~Uncounted(t, m) /\ ~Counted(t, m) /\ (Looks(t, m) => m = n)
  BY <1>1, <1>2 DEF Uncounted, Counted, Looks
<1>9. Listed' = Listed  BY <1>3, ListStays
<1>10. NoCycle'  BY <1>3, ListStays DEF IInv
<1>11. PICK r \in Record :
         /\ Sound(r) /\ Set(t, r)
         /\ IF refs[n] = 1 /\ flagged[n] THEN r.pc = "link" /\ r.node = n
            ELSE r.pc \in {"idle", "refer"}
  <2>1. CASE refs[n] = 1 /\ flagged[n]
    <3> DEFINE r == [user[t] EXCEPT !.pc = "link", !.next = freeListHead]
    <3>1. r \in Record /\ Sound(r) /\ r.pc = "link" /\ r.node = n
      BY <1>1, <1>2, <1>4 DEF Record, Sound
    <3>2. Set(t, r)  BY <1>1, <2>1 DEF Release, AddsNode
    <3> HIDE DEF r
    <3> QED  BY <3>1, <3>2, <2>1
  <2>2. CASE ~(refs[n] = 1 /\ flagged[n])
    <3>1. Set(t, Resumed(t, user[t].head))  BY <1>1, <2>2 DEF Release, AddsNode
    <3> QED  BY <3>1, <2>2, <1>4, ResumedIsSound
  <2> QED  BY <2>1, <2>2
<1>12. /\ user'[t] = r /\ user' \in [Users -> Record]
       /\ \A u \in Users : (u # t => user'[u] = user[u]) /\ Sound(user'[u])
  BY <1>11, UserSteps
<1>13. \A m \in Nodes, u \in Users :
         /\ Counted(u, m)' <=> Counted(u, m)
         /\ Looks(u, m)' <=> Looks(u, m) /\ ~(u = t /\ m = n)
         /\ u # t => (Uncounted(u, m)' <=> Uncounted(u, m))
         /\ m # n => (Uncounted(u, m)' <=> Uncounted(u, m))
  BY <1>8, <1>11, <1>12 DEF Uncounted, Counted, Looks
<1>14. ListCounts(n)' <=> ListCounts(n)  BY <1>9, <1>13 DEF ListCounts
<1>15. /\ Cardinality(Lookers(n)') = Cardinality(Lookers(n)) - 1
       /\ Cardinality(Lookers(n)) \in Nat \ {0} /\ Cardinality(Lookers(n)') \in Nat
  BY <1>8, <1>13, OneLessLooks
<1>16. CountIsRight(n)'
  BY <1>6, <1>7, <1>14, <1>15 DEF NodeIsRight, CountIsRight
<1>17. refs'[n] \in Nat /\ refs[n] \in Nat \ {0}
  BY <1>7, <1>15, <1>16 DEF NodeIsRight, CountIsRight
<1>18. TypeOK'
  <2>1. refs' \in [Nodes -> Nat]  BY <1>5, <1>6, <1>17 DEF IInv, TypeOK
  <2> QED  BY <2>1, <1>3, <1>12 DEF IInv, TypeOK
<1>19. OnePlace(n)' /\ BitIsRight(n)'
  <2>1. CASE refs[n] = 1 /\ flagged[n]
    <3>1. Uncounted(t, n)'  BY <2>1, <1>11, <1>12 DEF Uncounted
    <3>2. n \notin Listed /\ \A u \in Users : ~Has(u, n)
      BY <2>1, <1>7 DEF NodeIsRight, BitIsRight, ListCounts, Has, Carries
    <3>3. \A u \in Users : /\ Has(u, n)' <=> u = t
                           /\ n \notin owned'[u]
                           /\ Uncounted(u, n)' <=> u = t
      BY <3>1, <3>2, <1>3, <1>13 DEF Has, Carries
    <3>4. ~ListCounts(n)'  BY <2>1, <1>7, <1>14 DEF NodeIsRight, BitIsRight
    <3>5. flagged'[n] /\ refs'[n] = 0  BY <2>1, <1>3, <1>6
    <3> QED  BY <3>2, <3>3, <3>4, <3>5, <1>9 DEF OnePlace, BitIsRight
  <2>2. CASE ~(refs[n] = 1 /\ flagged[n])
    <3>1. \A u \in Users : Uncounted(u, n)' <=> Uncounted(u, n)
      BY <2>2, <1>8, <1>11, <1>12, <1>13 DEF Uncounted
    <3>2. \A u \in Users : (Has(u, n)' <=> Has(u, n)) /\ (Carries(u, n)' <=> Carries(u, n))
      BY <3>1, <1>3, <1>13 DEF Has, Carries
    <3>3. OnePlace(n)'  BY <3>2, <1>3, <1>7, <1>9 DEF NodeIsRight, OnePlace
    <3>4. \A u \in Users : ~Uncounted(u, n)  BY <1>7, <1>17 DEF NodeIsRight, BitIsRight
    <3>5. (n \notin Listed /\ \A u \in Users : ~Has(u, n)) => flagged'[n] /\ refs'[n] > 0
      <4>1. (n \notin Listed /\ \A u \in Users : ~Has(u, n)) => flagged[n] /\ refs[n] > 0
        BY <1>7 DEF NodeIsRight, BitIsRight
      <4>2. flagged'[n] = flagged[n]  BY <1>3
      <4>3. refs[n] # 1 => refs'[n] > 0  BY <1>6, <1>17
      <4> QED  BY <4>1, <4>2, <4>3, <2>2
    <3>6. BitIsRight(n)'
      BY <3>1, <3>2, <3>4, <3>5, <1>3, <1>7, <1>9, <1>14 DEF NodeIsRight, BitIsRight
    <3> QED  BY <3>3, <3>6
  <2> QED  BY <2>1, <2>2
<1>20. \A m \in Nodes : m # n => NodeIsRight(m)'
  <2>1. \A m \in Nodes : m # n => Untouched(m)  BY <1>3, <1>6, <1>9, <1>13 DEF Untouched
  <2> QED  BY <2>1, UntouchedIsRight DEF IInv
<1>21. NextIsRight'  BY <1>3, <1>11, <1>12 DEF IInv, NextIsRight
<1> QED  BY <1>10, <1>16, <1>18, <1>19, <1>20, <1>21 DEF IInv, NodeIsRight

LEMMA AddKeeps ==
  ASSUME IInv, NEW t \in Users, NEW n \in Nodes, Add(t, n)
  PROVE  IInv'
<1>1. user[t] \in Record /\ user[t].pc = "idle" /\ n \in owned[t]
  BY DEF IInv, TypeOK, Add, At
<1>2. UNCHANGED <<freeListHead, freeListNext, refs>>  BY DEF Add
<1>3. freeListHead \in Nodes \cup {NULL} /\ refs[n] \in Nat  BY DEF IInv, TypeOK
<1>4. owned' = [owned EXCEPT ![t] = owned[t] \ {n}] /\ flagged' = [flagged EXCEPT ![n] = TRUE]
  BY DEF Add
<1>5. flagged'[n] = TRUE /\ \A m \in Nodes : m # n => flagged'[m] = flagged[m]
  BY <1>4 DEF IInv, TypeOK
<1>6. \A m \in Nodes, u \in Users : m \in owned'[u] <=> m \in owned[u] /\ ~(u = t /\ m = n)
  BY <1>4 DEF IInv, TypeOK
<1>7. NodeIsRight(n)  BY DEF IInv
<1>8. /\ n \notin Listed /\ ~flagged[n] /\ Has(t, n)
      /\ \A u \in Users : (Has(u, n) => u = t) /\ ~Carries(u, n) /\ n \notin owned'[u]
  BY <1>1, <1>6, <1>7 DEF NodeIsRight, OnePlace, BitIsRight, Has
<1>9. PICK r \in Record :
        /\ Sound(r) /\ Set(t, r)
        /\ IF refs[n] = 0 THEN r.pc = "link" /\ r.node = n ELSE r.pc = "idle"
  <2> DEFINE l == [Idle EXCEPT !.pc = "link", !.node = n, !.next = freeListHead]
  <2>1. l \in Record /\ Sound(l) /\ l.pc = "link" /\ l.node = n
    BY <1>3 DEF Record, Sound, Idle
  <2>2. Idle \in Record /\ Sound(Idle) /\ Idle.pc = "idle"  BY DEF Record, Sound, Idle
  <2>3. refs[n] = 0 => Set(t, l)  BY <1>8 DEF Add
  <2>4. refs[n] # 0 => Set(t, Idle)  BY DEF Add
  <2> HIDE DEF l
  <2> QED  BY <2>1, <2>2, <2>3, <2>4
<1>10. /\ user'[t] = r /\ user' \in [Users -> Record]
       /\ \A u \in Users : (u # t => user'[u] = user[u]) /\ Sound(user'[u])
  BY <1>9, UserSteps
<1>11. TypeOK'  BY <1>2, <1>4, <1>10 DEF IInv, TypeOK
<1>12. Listed' = Listed  BY <1>2, ListStays
<1>13. \A m \in Nodes, u \in Users :
         /\ Counted(u, m)' <=> Counted(u, m)
         /\ Looks(u, m)' <=> Looks(u, m)
         /\ u # t \/ m # n => (Uncounted(u, m)' <=> Uncounted(u, m))
  BY <1>1, <1>9, <1>10 DEF Uncounted, Counted, Looks
<1>14. Uncounted(t, n)' <=> refs[n] = 0  BY <1>9, <1>10 DEF Uncounted
<1>15. ListCounts(n)' <=> ListCounts(n)  BY <1>12, <1>13 DEF ListCounts
<1>16. ~ListCounts(n)  BY <1>8 DEF ListCounts, Carries
<1>17. \A u \in Users : /\ Uncounted(u, n)' <=> u = t /\ refs[n] = 0
                        /\ Carries(u, n)' <=> u = t /\ refs[n] = 0
                        /\ Has(u, n)' <=> u = t /\ refs[n] = 0
  BY <1>8, <1>13, <1>14 DEF Has, Carries
<1>18. OnePlace(n)'  BY <1>8, <1>12, <1>17 DEF OnePlace
<1>19. CountIsRight(n)'
  <2>1. Lookers(n)' = Lookers(n)  BY <1>13 DEF Lookers
  <2> QED  BY <2>1, <1>2, <1>7, <1>15 DEF NodeIsRight, CountIsRight
<1>20. BitIsRight(n)'
  <2>1. refs'[n] = refs[n]  BY <1>2
  <2> QED  BY <2>1, <1>3, <1>5, <1>8, <1>15, <1>16, <1>17 DEF BitIsRight
<1>21. \A m \in Nodes : m # n => NodeIsRight(m)'
  <2>1. \A m \in Nodes : m # n => Untouched(m)
    BY <1>2, <1>5, <1>6, <1>12, <1>13 DEF Untouched
  <2> QED  BY <2>1, UntouchedIsRight DEF IInv
<1>22. NextIsRight'  BY <1>2, <1>9, <1>10 DEF IInv, NextIsRight
<1>23. NoCycle'  BY <1>2, ListStays DEF IInv
<1> QED  BY <1>11, <1>18, <1>19, <1>20, <1>21, <1>22, <1>23 DEF IInv, NodeIsRight

LEMMA LinkKeeps ==
  ASSUME IInv, NEW t \in Users, Link(t)
  PROVE  IInv'
<1>1. PICK n \in Nodes : n = user[t].node
  BY DEF IInv, TypeOK, Sound, Link, At
<1>2. user[t] \in Record /\ user[t].pc = "link"  BY DEF IInv, TypeOK, Link, At
<1>3. UNCHANGED <<freeListHead, refs, flagged, owned>>  BY DEF Link
<1>4. PICK y \in Nodes \cup {NULL} : y = user[t].next  BY <1>2 DEF Record
<1>5. freeListNext' = [freeListNext EXCEPT ![n] = y]  BY <1>1, <1>4 DEF Link
<1>6. PICK r \in Record : /\ r.pc = "count" /\ r.node = n /\ r.next = y
                          /\ Sound(r) /\ Set(t, r)
  <2> DEFINE r == [user[t] EXCEPT !.pc = "count"]
  <2>1. r \in Record /\ Sound(r) /\ r.pc = "count" /\ r.node = n /\ r.next = y
    BY <1>1, <1>2, <1>4 DEF Record, Sound
  <2>2. Set(t, r)  BY DEF Link, Goes
  <2> HIDE DEF r
  <2> QED  BY <2>1, <2>2
<1>7. /\ user'[t] = r /\ user' \in [Users -> Record]
      /\ \A u \in Users : (u # t => user'[u] = user[u]) /\ Sound(user'[u])
  BY <1>6, UserSteps
<1>8. freeListNext \in Nexts /\ freeListHead \in Nodes \cup {NULL}  BY DEF IInv, TypeOK, Nexts
<1>9. TypeOK'  BY <1>3, <1>5, <1>7 DEF IInv, TypeOK
<1>10. NodeIsRight(n) /\ Uncounted(t, n) /\ Has(t, n)
  BY <1>1, <1>2 DEF IInv, Uncounted, Has, Carries
<1>11. n \notin Listed /\ refs[n] = 0 /\ \A u \in Users : Has(u, n) => u = t
  BY <1>10 DEF NodeIsRight, OnePlace, BitIsRight
<1>12. Listed' = Listed  BY <1>3, <1>5, <1>8, <1>11, ReachElsewhere DEF Listed
<1>13. \A m \in Nodes, u \in Users : /\ Uncounted(u, m)' <=> Uncounted(u, m)
                                     /\ Counted(u, m)' <=> Counted(u, m)
                                     /\ Looks(u, m)' <=> Looks(u, m)
  BY <1>1, <1>2, <1>6, <1>7 DEF Uncounted, Counted, Looks
<1>14. \A m \in Nodes : Untouched(m)  BY <1>3, <1>12, <1>13 DEF Untouched
<1>15. freeListNext'[n] = y /\ \A m \in Nodes : m # n => freeListNext'[m] = freeListNext[m]
  BY <1>5 DEF IInv, TypeOK
<1>16. NextIsRight'
  <2>1. ASSUME NEW u \in Users, u # t, user[u].pc = "pop"
        PROVE  user[u].next = freeListNext'[user[u].head]
    <3>1. user[u].head \in Nodes /\ user[u].next = freeListNext[user[u].head]
      BY <2>1 DEF IInv, TypeOK, Sound, NextIsRight
    <3>2. user[u].head # n
      <4>1. ~Looks(u, n)  BY <1>10, <1>11, SomeoneLooks DEF NodeIsRight
      <4> QED  BY <4>1, <2>1 DEF Looks
    <3> QED  BY <3>1, <3>2, <1>15
  <2>2. ASSUME NEW u \in Users, u # t, user[u].pc \in {"count", "push"}
        PROVE  user[u].next = freeListNext'[user[u].node]
    <3>1. user[u].node \in Nodes /\ user[u].next = freeListNext[user[u].node]
      BY <2>2 DEF IInv, TypeOK, Sound, NextIsRight
    <3>2. user[u].node # n
      <4>1. ~Has(u, n)  BY <2>2, <1>11
      <4> QED  BY <4>1, <2>2 DEF Has, Carries, Uncounted, Counted
    <3> QED  BY <3>1, <3>2, <1>15
  <2> QED  BY <2>1, <2>2, <1>6, <1>7, <1>15 DEF NextIsRight
<1>17. NoCycle'
  <2>1. ASSUME NEW m \in Listed
        PROVE  m \notin Reach(freeListNext', freeListNext'[m])
    <3>1. m \in Nodes /\ m # n  BY <1>11, <2>1 DEF Listed, Reach
    <3>2. freeListNext[m] \in Nodes \cup {NULL}  BY <3>1, <1>8 DEF Nexts
    <3>3. n \notin Reach(freeListNext, freeListNext[m])
      BY <2>1, <1>8, <1>11, ReachFurther DEF Listed
    <3>4. Reach(freeListNext', freeListNext[m]) = Reach(freeListNext, freeListNext[m])
      BY <3>2, <3>3, <1>5, <1>8, ReachElsewhere
    <3> QED  BY <2>1, <3>1, <3>4, <1>15 DEF IInv, NoCycle
  <2> QED  BY <2>1, <1>12 DEF NoCycle
<1> QED  BY <1>9, <1>14, <1>16, <1>17, UntouchedIsRight DEF IInv

LEMMA CountKeeps ==
  ASSUME IInv, NEW t \in Users, Count(t)
  PROVE  IInv'
<1>1. PICK n \in Nodes : n = user[t].node
  BY DEF IInv, TypeOK, Sound, Count, At
<1>2. user[t] \in Record /\ user[t].pc = "count"  BY DEF IInv, TypeOK, Count, At
<1>3. UNCHANGED <<freeListHead, freeListNext, owned>>  BY DEF Count
<1>4. refs' = [refs EXCEPT ![n] = 1] /\ flagged' = [flagged EXCEPT ![n] = FALSE]
  BY <1>1 DEF Count
<1>5. /\ refs'[n] = 1 /\ ~flagged'[n]
      /\ \A m \in Nodes : m # n => refs'[m] = refs[m] /\ flagged'[m] = flagged[m]
  BY <1>4 DEF IInv, TypeOK
<1>6. PICK r \in Record : /\ r.pc = "push" /\ r.node = n /\ r.next = freeListNext[n]
                          /\ Sound(r) /\ Set(t, r)
  <2> DEFINE r == [user[t] EXCEPT !.pc = "push"]
  <2>0. user[t].next = freeListNext[n]  BY <1>1, <1>2 DEF IInv, NextIsRight
  <2>1. r \in Record /\ Sound(r) /\ r.pc = "push" /\ r.node = n /\ r.next = freeListNext[n]
    BY <2>0, <1>1, <1>2 DEF Record, Sound
  <2>2. Set(t, r)  BY DEF Count, Goes
  <2> HIDE DEF r
  <2> QED  BY <2>1, <2>2
<1>7. /\ user'[t] = r /\ user' \in [Users -> Record]
      /\ \A u \in Users : (u # t => user'[u] = user[u]) /\ Sound(user'[u])
  BY <1>6, UserSteps
<1>8. TypeOK'  BY <1>3, <1>4, <1>7 DEF IInv, TypeOK
<1>9. NodeIsRight(n) /\ Uncounted(t, n) /\ Has(t, n)
  BY <1>1, <1>2 DEF IInv, Uncounted, Has, Carries
<1>10. /\ n \notin Listed /\ refs[n] = 0 /\ ~ListCounts(n)
       /\ \A u \in Users : (Has(u, n) => u = t) /\ n \notin owned[u]
  BY <1>9 DEF NodeIsRight, OnePlace, BitIsRight, Has, Carries
<1>11. Listed' = Listed  BY <1>3, ListStays
<1>12. \A m \in Nodes, u \in Users :
         /\ Uncounted(u, m)' <=> Uncounted(u, m) /\ ~(u = t /\ m = n)
         /\ Counted(u, m)' <=> Counted(u, m) \/ (u = t /\ m = n)
         /\ Looks(u, m)' <=> Looks(u, m)
  BY <1>1, <1>2, <1>6, <1>7 DEF Uncounted, Counted, Looks
<1>13. ListCounts(n)'  BY <1>12 DEF ListCounts
<1>14. \A u \in Users : /\ Has(u, n)' <=> u = t
                        /\ ~Uncounted(u, n)' /\ n \notin owned'[u]
  BY <1>3, <1>9, <1>10, <1>12 DEF Has, Carries
<1>15. OnePlace(n)'  BY <1>10, <1>11, <1>14 DEF OnePlace
<1>16. CountIsRight(n)'
  <2>1. Lookers(n)' = Lookers(n)  BY <1>12 DEF Lookers
  <2>2. Cardinality(Lookers(n)) = 0
    <3>1. Cardinality(Lookers(n)) \in Nat  BY CountUsers DEF Lookers
    <3> QED  BY <3>1, <1>9, <1>10 DEF NodeIsRight, CountIsRight
  <2> QED  BY <2>1, <2>2, <1>5, <1>13 DEF CountIsRight
<1>17. BitIsRight(n)'  BY <1>5, <1>14 DEF BitIsRight
<1>18. \A m \in Nodes : m # n => NodeIsRight(m)'
  <2>1. \A m \in Nodes : m # n => Untouched(m)  BY <1>3, <1>5, <1>11, <1>12 DEF Untouched
  <2> QED  BY <2>1, UntouchedIsRight DEF IInv
<1>19. NextIsRight'  BY <1>3, <1>6, <1>7 DEF IInv, NextIsRight
<1>20. NoCycle'  BY <1>3, ListStays DEF IInv
<1> QED  BY <1>8, <1>15, <1>16, <1>17, <1>18, <1>19, <1>20 DEF IInv, NodeIsRight

LEMMA PushKeeps ==
  ASSUME IInv, NEW t \in Users, Push(t)
  PROVE  IInv'
<1>1. PICK n \in Nodes : n = user[t].node
  BY DEF IInv, TypeOK, Sound, Push, At
<1>2. user[t] \in Record /\ user[t].pc = "push"  BY DEF IInv, TypeOK, Push, At
<1>3. UNCHANGED <<freeListNext, refs, flagged, owned>>  BY DEF Push
<1>4. freeListHead \in Nodes \cup {NULL} /\ user[t].head \in Nodes \cup {NULL}
  BY <1>2 DEF IInv, TypeOK, Record
<1>5. user[t].next = freeListNext[n]  BY <1>1, <1>2 DEF IInv, NextIsRight
<1>6. CASE freeListHead # user[t].next
  <2> DEFINE r == [user[t] EXCEPT !.pc = "unlink", !.next = freeListHead]
  <2>1. r \in Record /\ Sound(r) /\ r.pc = "unlink" /\ r.node = n
    BY <1>1, <1>2, <1>4 DEF Record, Sound
  <2>2. Set(t, r) /\ UNCHANGED freeListHead  BY <1>6 DEF Push
  <2> HIDE DEF r
  <2>3. /\ user'[t] = r /\ user' \in [Users -> Record]
        /\ \A u \in Users : (u # t => user'[u] = user[u]) /\ Sound(user'[u])
    BY <2>1, <2>2, UserSteps
  <2>4. TypeOK'  BY <2>2, <2>3, <1>3 DEF IInv, TypeOK
  <2>5. \A m \in Nodes : Untouched(m)
    <3>1. Listed' = Listed  BY <1>3, <2>2, ListStays
    <3>2. \A m \in Nodes, u \in Users : /\ Uncounted(u, m)' <=> Uncounted(u, m)
                                        /\ Counted(u, m)' <=> Counted(u, m)
                                        /\ Looks(u, m)' <=> Looks(u, m)
      BY <1>1, <1>2, <2>1, <2>3 DEF Uncounted, Counted, Looks
    <3> QED  BY <3>1, <3>2, <1>3 DEF Untouched
  <2>6. NextIsRight'  BY <2>1, <2>3, <1>3 DEF IInv, NextIsRight
  <2>7. NoCycle'  BY <2>2, <1>3, ListStays DEF IInv
  <2> QED  BY <2>4, <2>5, <2>6, <2>7, UntouchedIsRight DEF IInv
<1>7. CASE freeListHead = user[t].next
  <2>1. PICK r \in Record : r.pc \in {"idle", "refer"} /\ Sound(r) /\ Set(t, r)
    BY <1>4, <1>7, ResumedIsSound DEF Push
  <2>2. freeListHead' = n  BY <1>1, <1>7 DEF Push
  <2>3. /\ user'[t] = r /\ user' \in [Users -> Record]
        /\ \A u \in Users : (u # t => user'[u] = user[u]) /\ Sound(user'[u])
    BY <2>1, UserSteps
  <2>4. TypeOK'  BY <2>2, <2>3, <1>3 DEF IInv, TypeOK
  <2>5. freeListNext \in Nexts  BY DEF IInv, TypeOK, Nexts
  <2>6. NodeIsRight(n) /\ Counted(t, n) /\ Has(t, n)
    BY <1>1, <1>2 DEF IInv, Counted, Has, Carries
  <2>7. n \notin Listed /\ \A u \in Users : (Has(u, n) => u = t) /\ n \notin owned[u]
    BY <2>6 DEF NodeIsRight, OnePlace, Has, Carries
  <2>8. Listed' = Listed \cup {n} /\ Listed = Reach(freeListNext, freeListNext[n])
    <3>1. Listed' = Reach(freeListNext, n)  BY <1>3, <2>2 DEF Listed
    <3>2. Listed = Reach(freeListNext, freeListNext[n])  BY <1>5, <1>7 DEF Listed
    <3> QED  BY <3>1, <3>2, <2>5, ReachStep
  <2>9. \A m \in Nodes, u \in Users : /\ Uncounted(u, m)' <=> Uncounted(u, m)
                                      /\ Counted(u, m)' <=> Counted(u, m) /\ ~(u = t /\ m = n)
                                      /\ Looks(u, m)' <=> Looks(u, m)
    BY <1>1, <1>2, <2>1, <2>3 DEF Uncounted, Counted, Looks
  <2>10. ~Uncounted(t, n)  BY <1>2 DEF Uncounted
  <2>11. \A u \in Users : ~Has(u, n)'
    BY <2>7, <2>9, <2>10, <1>3 DEF Has, Carries
  <2>12. OnePlace(n)'  BY <2>11 DEF OnePlace
  <2>13. ListCounts(n) /\ ListCounts(n)'  BY <2>6, <2>8 DEF ListCounts
  <2>14. CountIsRight(n)'
    <3>1. Lookers(n)' = Lookers(n)  BY <2>9 DEF Lookers
    <3> QED  BY <3>1, <2>6, <2>13, <1>3 DEF NodeIsRight, CountIsRight
  <2>15. BitIsRight(n)'
    <3>1. ~flagged'[n]  BY <2>6, <2>13, <1>3 DEF NodeIsRight, BitIsRight
    <3> QED  BY <3>1, <2>8, <2>11 DEF BitIsRight, Has, Carries
  <2>16. \A m \in Nodes : m # n => NodeIsRight(m)'
    <3>1. \A m \in Nodes : m # n => Untouched(m)  BY <2>8, <2>9, <1>3 DEF Untouched
    <3> QED  BY <3>1, UntouchedIsRight DEF IInv
  <2>17. NextIsRight'  BY <2>1, <2>3, <1>3 DEF IInv, NextIsRight
  <2>18. NoCycle'  BY <2>7, <2>8, <1>3 DEF IInv, NoCycle
  <2> QED  BY <2>4, <2>12, <2>14, <2>15, <2>16, <2>17, <2>18 DEF IInv, NodeIsRight
<1> QED  BY <1>6, <1>7

LEMMA UnlinkKeeps ==
  ASSUME IInv, NEW t \in Users, Unlink(t)
  PROVE  IInv'
<1>1. PICK n \in Nodes : n = user[t].node
  BY DEF IInv, TypeOK, Sound, Unlink, At
<1>2. user[t] \in Record /\ user[t].pc = "unlink"  BY DEF IInv, TypeOK, Unlink, At
<1>3. UNCHANGED <<freeListHead, freeListNext, owned>>  BY DEF Unlink
<1>4. user[t].head \in Nodes \cup {NULL}  BY <1>2 DEF Record
<1>5. refs' = [refs EXCEPT ![n] = refs[n] - 1] /\ flagged' = [flagged EXCEPT ![n] = TRUE]
  BY <1>1 DEF Unlink
<1>6. /\ refs'[n] = refs[n] - 1 /\ flagged'[n] = TRUE
      /\ \A m \in Nodes : m # n => refs'[m] = refs[m] /\ flagged'[m] = flagged[m]
  BY <1>5 DEF IInv, TypeOK
<1>7. NodeIsRight(n) /\ Counted(t, n) /\ Has(t, n) /\ ~Uncounted(t, n)
  BY <1>1, <1>2 DEF IInv, Counted, Has, Carries, Uncounted
<1>8. ListCounts(n) /\ ~flagged[n]
  BY <1>7 DEF NodeIsRight, BitIsRight, ListCounts
<1>9. n \notin Listed /\ \A u \in Users : (Has(u, n) => u = t) /\ n \notin owned[u]
  BY <1>7 DEF NodeIsRight, OnePlace, Has, Carries
<1>10. PICK r \in Record :
         /\ Sound(r) /\ Set(t, r)
         /\ IF refs[n] = 1 THEN r.pc = "link" /\ r.node = n ELSE r.pc \in {"idle", "refer"}
  <2> DEFINE r == [user[t] EXCEPT !.pc = "link"]
  <2>1. r \in Record /\ Sound(r) /\ r.pc = "link" /\ r.node = n
    BY <1>1, <1>2 DEF Record, Sound
  <2>2. refs[n] = 1 => Set(t, r)  BY <1>1, <1>8 DEF Unlink
  <2>3. refs[n] # 1 => Set(t, Resumed(t, user[t].head))  BY <1>1 DEF Unlink
  <2> HIDE DEF r
  <2> QED  BY <2>1, <2>2, <2>3, <1>4, ResumedIsSound
<1>11. /\ user'[t] = r /\ user' \in [Users -> Record]
       /\ \A u \in Users : (u # t => user'[u] = user[u]) /\ Sound(user'[u])
  BY <1>10, UserSteps
<1>12. Listed' = Listed  BY <1>3, ListStays
<1>13. \A m \in Nodes, u \in Users :
         /\ Counted(u, m)' <=> Counted(u, m) /\ ~(u = t /\ m = n)
         /\ Looks(u, m)' <=> Looks(u, m)
         /\ u # t \/ m # n => (Uncounted(u, m)' <=> Uncounted(u, m))
  BY <1>1, <1>2, <1>10, <1>11 DEF Uncounted, Counted, Looks
<1>14. Uncounted(t, n)' <=> refs[n] = 1  BY <1>10, <1>11 DEF Uncounted
<1>15. \A u \in Users : /\ Uncounted(u, n)' <=> u = t /\ refs[n] = 1
                        /\ Has(u, n)' <=> u = t /\ refs[n] = 1
                        /\ n \notin owned'[u] /\ ~Counted(u, n)'
  BY <1>3, <1>9, <1>13, <1>14 DEF Has, Carries
<1>16. ~ListCounts(n)'  BY <1>9, <1>12, <1>15 DEF ListCounts
<1>17. OnePlace(n)'  BY <1>9, <1>12, <1>15 DEF OnePlace
<1>18. CountIsRight(n)' /\ refs'[n] \in Nat /\ refs[n] \in Nat
  <2>1. Lookers(n)' = Lookers(n)  BY <1>13 DEF Lookers
  <2>2. Cardinality(Lookers(n)) \in Nat  BY CountUsers DEF Lookers
  <2>3. refs[n] = Cardinality(Lookers(n)) + 1  BY <1>7, <1>8 DEF NodeIsRight, CountIsRight
  <2>4. refs'[n] = Cardinality(Lookers(n))  BY <2>2, <2>3, <1>6
  <2> QED  BY <2>1, <2>2, <2>3, <2>4, <1>16 DEF CountIsRight
<1>19. BitIsRight(n)'
  BY <1>6, <1>15, <1>16, <1>18 DEF BitIsRight
<1>20. TypeOK'
  <2>1. refs' \in [Nodes -> Nat]  BY <1>5, <1>6, <1>18 DEF IInv, TypeOK
  <2>2. flagged' \in [Nodes -> BOOLEAN]  BY <1>5 DEF IInv, TypeOK
  <2> QED  BY <2>1, <2>2, <1>3, <1>11 DEF IInv, TypeOK
<1>21. \A m \in Nodes : m # n => NodeIsRight(m)'
  <2>1. \A m \in Nodes : m # n => Untouched(m)  BY <1>3, <1>6, <1>12, <1>13 DEF Untouched
  <2> QED  BY <2>1, UntouchedIsRight DEF IInv
<1>22. NextIsRight'  BY <1>3, <1>10, <1>11 DEF IInv, NextIsRight
<1>23. NoCycle'  BY <1>3, ListStays DEF IInv
<1> QED  BY <1>17, <1>18, <1>19, <1>20, <1>21, <1>22, <1>23 DEF IInv, NodeIsRight

-----------------------------------------------------------------------------
(* A step of the rest of the program. *)
LEMMA StutterKeeps ==
  ASSUME IInv, UNCHANGED freelist
  PROVE  IInv'
<1>1. \A m \in Nodes : Untouched(m)
  BY DEF freelist, Untouched, Uncounted, Counted, Looks, Listed
<1>2. TypeOK' /\ NextIsRight'  BY DEF freelist, IInv, TypeOK, NextIsRight
<1>3. NoCycle'  BY ListStays DEF IInv, freelist
<1> QED  BY <1>1, <1>2, <1>3, UntouchedIsRight DEF IInv

(* The invariant is inductive. *)
LEMMA Inductive == ListSpec => []IInv
<1>1. ASSUME IInv, [ListNext]_freelist PROVE IInv'
  <2>1. CASE UNCHANGED freelist  BY <1>1, <2>1, StutterKeeps
  <2>2. ASSUME NEW t \in Users, Step(t) PROVE IInv'
    <3>1. ASSUME NEW n \in Nodes, Add(t, n) PROVE IInv'  BY <1>1, <3>1, AddKeeps
    <3>2. CASE Link(t)  BY <1>1, <3>2, LinkKeeps
    <3>3. CASE Count(t)  BY <1>1, <3>3, CountKeeps
    <3>4. CASE Push(t)  BY <1>1, <3>4, PushKeeps
    <3>5. CASE Unlink(t)  BY <1>1, <3>5, UnlinkKeeps
    <3>6. CASE TryGet(t) \/ Reload(t)  BY <1>1, <3>6, TryGetKeeps
    <3>7. CASE Refer(t)  BY <1>1, <3>7, ReferKeeps
    <3>8. CASE Acquire(t)  BY <1>1, <3>8, AcquireKeeps
    <3>9. CASE Peek(t)  BY <1>1, <3>9, PeekKeeps
    <3>10. CASE Pop(t)  BY <1>1, <3>10, PopKeeps
    <3>11. CASE Got(t)  BY <1>1, <3>11, GotKeeps
    <3>12. CASE Release(t)  BY <1>1, <3>12, ReleaseKeeps
    <3> QED
      BY <2>2, <3>1, <3>2, <3>3, <3>4, <3>5, <3>6, <3>7, <3>8, <3>9, <3>10, <3>11, <3>12 DEF Step
  <2> QED  BY <1>1, <2>1, <2>2 DEF ListNext
<1> QED  BY InitIsSound, <1>1, PTL DEF ListSpec

(* The variables of the free list have the values the code gives them: a   *)
(* head that a thread looks at, and a node that it puts back, exist.       *)
THEOREM TypeCorrect == ListSpec => []TypeOK
<1>1. IInv => TypeOK  BY DEF IInv
<1> QED  BY Inductive, <1>1, PTL

(* No node is handed out twice and none is lost, however many threads put  *)
(* nodes on the list and take them off, and however long a thread that     *)
(* read an old head waits before it goes on.                               *)
THEOREM NoNodeIsLost == ListSpec => []NodesKept
<1>1. ASSUME IInv PROVE NodesKept
  <2>1. \A n \in Nodes : NodeIsRight(n)  BY <1>1 DEF IInv
  <2>2. \A t \in Users : owned[t] \subseteq Nodes  BY <1>1 DEF IInv, TypeOK
  <2>3. Listed \subseteq Nodes  BY DEF Listed, Reach
  <2>4. \A t, u \in Users : t # u => owned[t] \cap owned[u] = {}
    BY <2>1, <2>2 DEF NodeIsRight, OnePlace, Has
  <2>5. \A t \in Users : owned[t] \cap Listed = {}
    BY <2>1, <2>2 DEF NodeIsRight, OnePlace, Has
  <2>6. \A n \in Nodes : Popping(n) => n \notin Listed /\ ~flagged[n]
    <3>1. ASSUME NEW n \in Nodes, NEW t \in Users, At(t, "got"), user[t].head = n
          PROVE  n \notin Listed /\ ~flagged[n]
      <4>1. Counted(t, n)  BY <3>1 DEF At, Counted
      <4> QED  BY <4>1, <2>1 DEF NodeIsRight, OnePlace, BitIsRight, ListCounts, Has, Carries
    <3> QED  BY <3>1 DEF Popping
  <2>7. ASSUME Quiet
        PROVE  /\ Listed \cup UNION {owned[t] : t \in Users} = Nodes
               /\ \A n \in Nodes : refs[n] = IF n \in Listed THEN 1 ELSE 0
    <3>1. \A n \in Nodes, t \in Users : ~Uncounted(t, n) /\ ~Counted(t, n) /\ ~Looks(t, n)
      BY <2>7 DEF Quiet, At, Uncounted, Counted, Looks
    <3>2. \A n \in Nodes : refs[n] = IF n \in Listed THEN 1 ELSE 0
      <4>1. \A n \in Nodes : Lookers(n) = {}  BY <3>1 DEF Lookers
      <4>2. \A n \in Nodes : ListCounts(n) <=> n \in Listed  BY <3>1 DEF ListCounts
      <4>3. Cardinality({}) = 0  BY FS_EmptySet
      <4> QED  BY <4>1, <4>2, <4>3, <2>1 DEF NodeIsRight, CountIsRight
    <3>3. ASSUME NEW n \in Nodes, n \notin Listed PROVE \E t \in Users : n \in owned[t]
      <4>1. ~(refs[n] > 0)  BY <3>2, <3>3
      <4>2. \E t \in Users : Has(t, n)  BY <4>1, <3>3, <2>1 DEF NodeIsRight, BitIsRight
      <4> QED  BY <4>2, <3>1 DEF Has, Carries
    <3> QED  BY <3>2, <3>3, <2>2, <2>3
  <2> QED  BY <2>4, <2>5, <2>6, <2>7 DEF NodesKept
<1> QED  BY Inductive, <1>1, PTL

-----------------------------------------------------------------------------
(***************************************************************************)
(* ProducerHash.                                                           *)
(***************************************************************************)
(* An entry of a table, a table and what a thread may hold.  A table has a *)
(* slot at least.                                                          *)
Entry == [key : Threads \cup {NOBODY}, value : Nat]
HashTable == UNION {[0..(c - 1) -> Entry] : c \in Nat \ {0}}
Finder == [pc : {"idle", "probe", "insert", "count", "room", "grow", "clear", "abandon", "enter"},
           main : Nat, table : Nat, index : Nat, value : Nat, newCount : Nat, newCapacity : Nat]

Size(X) == Cardinality(DOMAIN X)
Room(X) == Size(X) \div 2 + Size(X) \div 4
Keys(X) == {X[i].key : i \in DOMAIN X}

HashTypeOK ==
  /\ tables \in Seq(HashTable) /\ Len(tables) > 0
  /\ resizing \in BOOLEAN
  /\ producerCount \in Nat
  /\ finder \in [Threads -> Finder]
  /\ answers \in [Threads -> Seq(Nat)]

NotSmaller(T) == \A m, n \in DOMAIN T : m <= n => Size(T[m]) <= Size(T[n])

(* The slots that a search for t in table X passes before it comes to j.   *)
Before(X, t, j) ==
  LET h == hash_thread_id[t] % Size(X)
  IN  IF h <= j THEN h..(j - 1) ELSE (h..(Size(X) - 1)) \cup (0..(j - 1))
Passed(X, t, j) == \A i \in Before(X, t, j) : X[i].key # NOBODY

(* own[t] is the producer of t, if it has one, and rank[t] the count that  *)
(* t had when it came: an entry names the producer of its thread, lies     *)
(* where a search finds it, and is its thread's only one in the table.     *)
EntryOK(X, i, own, rank) ==
  LET t == X[i].key
  IN  /\ X[i].value = own[t] /\ own[t] # NoProducer /\ rank[t] < Room(X)
      /\ Passed(X, t, i)
      /\ \A j \in DOMAIN X : X[j].key = t => j = i
TableOK(X, own, rank) == \A i \in DOMAIN X : X[i].key # NOBODY => EntryOK(X, i, own, rank)

Adding == {"room", "grow", "clear", "enter"}
Resizing == {"grow", "clear", "abandon"}

Probing(t, r, T) ==
  LET X == T[r.table]
      j == r.index % Size(X)
  IN  /\ r.table \in 1..r.main /\ r.main <= Len(T)
      /\ Passed(X, t, j)
      /\ \A i \in Before(X, t, j) : X[i].key # t
      /\ \A m \in (r.table + 1)..Len(T) : t \notin Keys(T[m])
Inserting(t, r, T, producer, k) ==
  LET X == T[r.table]
  IN  /\ r.table \in 1..Len(T)
      /\ Passed(X, t, r.index % Size(X))
      /\ t \notin Keys(X)
      /\ r.value = producer /\ producer # NoProducer /\ k < Room(X)
FinderOK(t, r, T, producer, k) ==
  /\ r.pc = "probe" => Probing(t, r, T)
  /\ r.pc = "insert" => Inserting(t, r, T, producer, k)
  /\ r.pc \in Adding \cup {"count", "abandon"} => producer = NoProducer /\ r.main \in 1..Len(T)
  /\ r.pc \in Adding => k = r.newCount
  /\ r.pc = "grow" => r.main = Len(T) /\ r.newCapacity >= Size(T[Len(T)])
  /\ k # 0 <=> producer # NoProducer \/ r.pc \in Adding
  /\ producer # NoProducer => r.pc = "insert" \/ \E n \in DOMAIN T : t \in Keys(T[n])

OwnersOK(own) ==
  /\ \A t \in Threads : own[t] <= producerCount
  /\ \A t, u \in Threads : own[t] = own[u] /\ own[t] # NoProducer => t = u
  /\ \A t \in Threads : Answered(t) \subseteq {own[t]}
  /\ \A t \in Threads : own[t] # NoProducer => Answered(t) # {} \/ FinderAt(t, "insert")

(* No more than x threads came when the count was x or less. *)
RanksOK(rank, count) ==
  /\ count = Cardinality({t \in Threads : rank[t] # 0})
  /\ \A x \in Nat : Cardinality({t \in Threads : rank[t] \in 1..x}) <= x

OneResizer ==
  \A t \in Threads : finder[t].pc \in Resizing =>
    resizing /\ \A u \in Threads : finder[u].pc \in Resizing => u = t

HashGood(own, rank) ==
  /\ HashTypeOK
  /\ NotSmaller(tables)
  /\ OneResizer
  /\ OwnersOK(own)
  /\ RanksOK(rank, implicitProducerHashCount)
  /\ \A n \in DOMAIN tables : TableOK(tables[n], own, rank)
  /\ \A t \in Threads : FinderOK(t, finder[t], tables, own[t], rank[t])

HashInv == \E own, rank \in [Threads -> Nat] : HashGood(own, rank)

-----------------------------------------------------------------------------
(* About tables. *)
LEMMA SizeOfTable ==
  ASSUME NEW X \in HashTable
  PROVE  /\ Size(X) \in Nat \ {0}
         /\ DOMAIN X = 0..(Size(X) - 1)
         /\ \A i \in DOMAIN X : X[i] \in Entry
<1>1. PICK c \in Nat \ {0} : X \in [0..(c - 1) -> Entry]  BY DEF HashTable
<1>2. DOMAIN X = 0..(c - 1)  BY <1>1
<1>3. Cardinality(0..(c - 1)) = c  BY FS_Interval
<1>4. Size(X) = c  BY <1>2, <1>3 DEF Size
<1> QED  BY <1>1, <1>2, <1>4

(* The first slot that a search looks at, and the one after another. *)
LEMMA FirstSlot ==
  ASSUME NEW a \in Nat, NEW c \in Nat \ {0}
  PROVE  a % c \in 0..(c - 1)
OBVIOUS

LEMMA NextSlot ==
  ASSUME NEW c \in Nat \ {0}, NEW j \in 0..(c - 1)
  PROVE  (j + 1) % c = IF j + 1 = c THEN 0 ELSE j + 1
OBVIOUS

LEMMA RoomIsLess ==
  ASSUME NEW c \in Nat \ {0}
  PROVE  c \div 2 + c \div 4 \in Nat /\ c \div 2 + c \div 4 < c
OBVIOUS

LEMMA RoomGrows ==
  ASSUME NEW c \in Nat, NEW d \in Nat, c <= d
  PROVE  c \div 2 + c \div 4 <= d \div 2 + d \div 4
OBVIOUS

(* A new table has no thread. *)
LEMMA NewTable ==
  ASSUME NEW c \in Nat \ {0}
  PROVE  /\ Table(c) \in HashTable
         /\ Size(Table(c)) = c
         /\ \A i \in DOMAIN Table(c) : Table(c)[i].key = NOBODY
         /\ \A t \in Threads : t \notin Keys(Table(c))
<1>1. Table(c) \in [0..(c - 1) -> Entry]  BY DEF Table, Entry, NoProducer
<1>2. DOMAIN Table(c) = 0..(c - 1)  BY DEF Table
<1>3. Table(c) \in HashTable  BY <1>1 DEF HashTable
<1>4. Size(Table(c)) = c  BY <1>2, FS_Interval DEF Size
<1>5. \A i \in DOMAIN Table(c) : Table(c)[i].key = NOBODY  BY DEF Table
<1>6. \A t \in Threads : t \notin Keys(Table(c))  BY <1>5, HashAssumption DEF Keys
<1> QED  BY <1>3, <1>4, <1>5, <1>6

(* The slots before one of a table are slots of it. *)
LEMMA BeforeIsInside ==
  ASSUME NEW X \in HashTable, NEW t \in Threads, NEW j \in DOMAIN X
  PROVE  Before(X, t, j) \subseteq DOMAIN X
<1>1. PICK c \in Nat \ {0} : c = Size(X)  BY SizeOfTable
<1>2. DOMAIN X = 0..(c - 1)  BY <1>1, SizeOfTable
<1>3. PICK h \in Nat : h = hash_thread_id[t]  BY HashAssumption
<1>4. PICK m \in 0..(c - 1) : m = h % c  BY FirstSlot
<1>5. Before(X, t, j) = IF m <= j THEN m..(j - 1) ELSE (m..(c - 1)) \cup (0..(j - 1))
  BY <1>1, <1>3, <1>4 DEF Before
<1> QED  BY <1>2, <1>5

(* Nothing comes before the first slot; and before the next one is what    *)
(* comes before a slot, and the slot.                                      *)
LEMMA BeforeFirst ==
  ASSUME NEW X \in HashTable, NEW t \in Threads
  PROVE  Before(X, t, hash_thread_id[t] % Size(X)) = {}
<1>1. PICK c \in Nat \ {0} : c = Size(X)  BY SizeOfTable
<1>2. PICK h \in Nat : h = hash_thread_id[t]  BY HashAssumption
<1>3. PICK m \in 0..(c - 1) : m = h % c  BY FirstSlot
<1>4. Before(X, t, m) = IF m <= m THEN m..(m - 1) ELSE (m..(c - 1)) \cup (0..(m - 1))
  BY <1>1, <1>2, <1>3 DEF Before
<1> QED  BY <1>1, <1>2, <1>3, <1>4

LEMMA BeforeNext ==
  ASSUME NEW X \in HashTable, NEW t \in Threads, NEW j \in DOMAIN X
  PROVE  Before(X, t, (j + 1) % Size(X)) \subseteq Before(X, t, j) \cup {j}
<1>1. PICK c \in Nat \ {0} : c = Size(X)  BY SizeOfTable
<1>2. j \in 0..(c - 1)  BY <1>1, SizeOfTable
<1>3. PICK h \in Nat : h = hash_thread_id[t]  BY HashAssumption
<1>4. PICK m \in 0..(c - 1) : m = h % c  BY FirstSlot
<1>5. PICK n \in 0..(c - 1) : n = (j + 1) % c  BY <1>2, FirstSlot
<1>6. n = IF j + 1 = c THEN 0 ELSE j + 1  BY <1>2, <1>5, NextSlot
<1>7. Before(X, t, n) = IF m <= n THEN m..(n - 1) ELSE (m..(c - 1)) \cup (0..(n - 1))
  BY <1>1, <1>3, <1>4 DEF Before
<1>8. Before(X, t, j) = IF m <= j THEN m..(j - 1) ELSE (m..(c - 1)) \cup (0..(j - 1))
  BY <1>1, <1>3, <1>4 DEF Before
<1>9. Before(X, t, n) \subseteq Before(X, t, j) \cup {j}  BY <1>2, <1>6, <1>7, <1>8
<1> QED  BY <1>1, <1>5, <1>9

(* Two slots of a table are the same or one comes before the other. *)
LEMMA BeforeIsTotal ==
  ASSUME NEW X \in HashTable, NEW t \in Threads, NEW i \in DOMAIN X, NEW j \in DOMAIN X
  PROVE  i = j \/ i \in Before(X, t, j) \/ j \in Before(X, t, i)
<1>1. PICK c \in Nat \ {0} : c = Size(X)  BY SizeOfTable
<1>2. i \in 0..(c - 1) /\ j \in 0..(c - 1)  BY <1>1, SizeOfTable
<1>3. PICK h \in Nat : h = hash_thread_id[t]  BY HashAssumption
<1>4. PICK m \in 0..(c - 1) : m = h % c  BY FirstSlot
<1>5. Before(X, t, i) = IF m <= i THEN m..(i - 1) ELSE (m..(c - 1)) \cup (0..(i - 1))
  BY <1>1, <1>3, <1>4 DEF Before
<1>6. Before(X, t, j) = IF m <= j THEN m..(j - 1) ELSE (m..(c - 1)) \cup (0..(j - 1))
  BY <1>1, <1>3, <1>4 DEF Before
<1> QED  BY <1>2, <1>5, <1>6

(* A search that comes to an empty slot has found that the thread is not   *)
(* in the table.                                                           *)
LEMMA NotInTable ==
  ASSUME NEW X \in HashTable, NEW own, NEW rank, TableOK(X, own, rank),
         NEW t \in Threads, NEW j \in DOMAIN X, X[j].key = NOBODY,
         \A i \in Before(X, t, j) : X[i].key # t
  PROVE  t \notin Keys(X)
<1>1. SUFFICES ASSUME NEW i \in DOMAIN X, X[i].key = t PROVE FALSE  BY DEF Keys
<1>2. t # NOBODY  BY HashAssumption
<1>3. EntryOK(X, i, own, rank)  BY <1>1, <1>2 DEF TableOK
<1>4. Passed(X, t, i)  BY <1>1, <1>3 DEF EntryOK
<1>5. j \notin Before(X, t, i)  BY <1>4 DEF Passed
<1>6. i \notin Before(X, t, j)  BY <1>1
<1>7. i # j  BY <1>1, <1>2
<1> QED  BY <1>5, <1>6, <1>7, BeforeIsTotal

(* The table after a thread has taken a slot. *)
Taken(X, i, t, producer) == [X EXCEPT ![i] = [key |-> t, value |-> producer]]

LEMMA TakenSlot ==
  ASSUME NEW X \in HashTable, NEW i \in DOMAIN X, NEW t \in Threads, NEW v \in Nat
  PROVE  /\ Taken(X, i, t, v) \in HashTable
         /\ DOMAIN Taken(X, i, t, v) = DOMAIN X
         /\ Size(Taken(X, i, t, v)) = Size(X)
         /\ Taken(X, i, t, v)[i] = [key |-> t, value |-> v]
         /\ \A j \in DOMAIN X : j # i => Taken(X, i, t, v)[j] = X[j]
<1>1. PICK c \in Nat \ {0} : X \in [0..(c - 1) -> Entry]  BY DEF HashTable
<1>2. [key |-> t, value |-> v] \in Entry  BY DEF Entry
<1>3. Taken(X, i, t, v) \in [0..(c - 1) -> Entry]  BY <1>1, <1>2 DEF Taken
<1>4. Taken(X, i, t, v) \in HashTable  BY <1>3 DEF HashTable
<1>5. DOMAIN Taken(X, i, t, v) = DOMAIN X  BY DEF Taken
<1>6. Size(Taken(X, i, t, v)) = Size(X)  BY <1>5 DEF Size
<1>7. Taken(X, i, t, v)[i] = [key |-> t, value |-> v]  BY DEF Taken
<1>8. \A j \in DOMAIN X : j # i => Taken(X, i, t, v)[j] = X[j]  BY DEF Taken
<1> QED  BY <1>4, <1>5, <1>6, <1>7, <1>8

(* An empty slot that is taken moves no search back, and adds one thread.  *)
LEMMA TakenEmpty ==
  ASSUME NEW X \in HashTable, NEW i \in DOMAIN X, NEW t \in Threads, NEW v \in Nat,
         X[i].key = NOBODY
  PROVE  /\ \A u \in Threads, j \in DOMAIN X :
              /\ Before(Taken(X, i, t, v), u, j) = Before(X, u, j)
              /\ Passed(X, u, j) => Passed(Taken(X, i, t, v), u, j)
         /\ \A u \in Threads : u # t => (u \in Keys(Taken(X, i, t, v)) <=> u \in Keys(X))
         /\ t \in Keys(Taken(X, i, t, v))
<1> DEFINE Y == Taken(X, i, t, v)
<1>0. /\ DOMAIN Y = DOMAIN X /\ Size(Y) = Size(X) /\ Y[i] = [key |-> t, value |-> v]
      /\ \A j \in DOMAIN X : j # i => Y[j] = X[j]
  BY TakenSlot
<1> HIDE DEF Y
<1>1. /\ DOMAIN Y = DOMAIN X /\ Size(Y) = Size(X) /\ Y[i].key = t
      /\ \A j \in DOMAIN X : j # i => Y[j] = X[j]
  BY <1>0
<1>2. \A u \in Threads, j \in DOMAIN X : Before(Y, u, j) = Before(X, u, j)
  BY <1>1 DEF Before
<1>3. t # NOBODY  BY HashAssumption
<1>4. ASSUME NEW u \in Threads, NEW j \in DOMAIN X, Passed(X, u, j) PROVE Passed(Y, u, j)
  <2>1. SUFFICES ASSUME NEW k \in Before(X, u, j) PROVE Y[k].key # NOBODY
    BY <1>2 DEF Passed
  <2>2. k \in DOMAIN X  BY BeforeIsInside
  <2>3. X[k].key # NOBODY  BY <1>4 DEF Passed
  <2> QED  BY <1>1, <1>3, <2>2, <2>3
<1>5. ASSUME NEW u \in Threads, u # t PROVE u \in Keys(Y) <=> u \in Keys(X)
  <2>1. u # NOBODY  BY HashAssumption
  <2>2. \A j \in DOMAIN X : Y[j].key = u <=> X[j].key = u  BY <1>1, <1>5, <2>1
  <2> QED  BY <1>1, <2>2 DEF Keys
<1>6. t \in Keys(Y)  BY <1>1 DEF Keys
<1> QED  BY <1>2, <1>4, <1>5, <1>6 DEF Y

(* The entry is right if the search for its thread had come to the slot.   *)
LEMMA TakenIsRight ==
  ASSUME NEW X \in HashTable, NEW i \in DOMAIN X, NEW t \in Threads, NEW v \in Nat,
         X[i].key = NOBODY, NEW own, NEW rank, TableOK(X, own, rank),
         t \notin Keys(X), Passed(X, t, i),
         v = own[t], own[t] # NoProducer, rank[t] < Room(X)
  PROVE  TableOK(Taken(X, i, t, v), own, rank)
<1> DEFINE Y == Taken(X, i, t, v)
<1>0. /\ DOMAIN Y = DOMAIN X /\ Size(Y) = Size(X) /\ Y[i] = [key |-> t, value |-> v]
      /\ \A j \in DOMAIN X : j # i => Y[j] = X[j]
  BY TakenSlot
<1>2. \A u \in Threads, j \in DOMAIN X : Passed(X, u, j) => Passed(Y, u, j)
  BY TakenEmpty
<1> HIDE DEF Y
<1>1. /\ DOMAIN Y = DOMAIN X /\ Size(Y) = Size(X) /\ Y[i].key = t /\ Y[i].value = v
      /\ \A j \in DOMAIN X : j # i => Y[j] = X[j]
  BY <1>0
<1>3. Room(Y) = Room(X)  BY <1>1 DEF Room
<1>4. \A j \in DOMAIN X : X[j].key # t  BY DEF Keys
<1>5. SUFFICES ASSUME NEW j \in DOMAIN Y, Y[j].key # NOBODY PROVE EntryOK(Y, j, own, rank)
  BY DEF TableOK, Y
<1>6. CASE j = i
  <2>1. \A k \in DOMAIN Y : Y[k].key = t => k = i  BY <1>1, <1>4
  <2>2. Passed(Y, t, i)  BY <1>2
  <2> QED  BY <1>1, <1>3, <1>6, <2>1, <2>2 DEF EntryOK
<1>7. CASE j # i
  <2>1. Y[j] = X[j] /\ j \in DOMAIN X  BY <1>1, <1>5, <1>7
  <2>2. EntryOK(X, j, own, rank)  BY <1>5, <2>1 DEF TableOK
  <2>3. PICK u : u = X[j].key  OBVIOUS
  <2>4. u \in Threads  BY <1>5, <2>1, <2>3, SizeOfTable DEF Entry
  <2>5. u # t  BY <1>4, <2>1, <2>3
  <2>6. Passed(Y, u, j)  BY <1>2, <2>1, <2>2, <2>3, <2>4 DEF EntryOK
  <2>7. \A k \in DOMAIN Y : Y[k].key = u => k = j  BY <1>1, <2>2, <2>3, <2>5 DEF EntryOK
  <2>8. Y[j].value = own[u] /\ own[u] # NoProducer /\ rank[u] < Room(Y)
    BY <1>3, <2>1, <2>2, <2>3 DEF EntryOK
  <2> QED  BY <2>1, <2>3, <2>6, <2>7, <2>8 DEF EntryOK
<1> QED  BY <1>6, <1>7

(* Nor does an entry see what another thread comes to have. *)
OthersKeep(t, own, rank, own2, rank2) ==
  \A u \in Threads : u # t => own2[u] = own[u] /\ rank2[u] = rank[u]

LEMMA EntriesOfOthers ==
  ASSUME NEW X \in HashTable, NEW own, NEW rank, TableOK(X, own, rank),
         NEW t \in Threads, NEW own2, NEW rank2, t \notin Keys(X),
         OthersKeep(t, own, rank, own2, rank2)
  PROVE  TableOK(X, own2, rank2)
<1>1. SUFFICES ASSUME NEW j \in DOMAIN X, X[j].key # NOBODY PROVE EntryOK(X, j, own2, rank2)
  BY DEF TableOK
<1>2. PICK u : u = X[j].key  OBVIOUS
<1>3. u \in Threads /\ u # t  BY <1>1, <1>2, SizeOfTable DEF Entry, Keys
<1>4. EntryOK(X, j, own, rank)  BY <1>1 DEF TableOK
<1>5. own2[u] = own[u] /\ rank2[u] = rank[u]  BY <1>3 DEF OthersKeep
<1> QED  BY <1>2, <1>4, <1>5 DEF EntryOK

(* A thread that is in a table has a producer. *)
LEMMA OwnerInTable ==
  ASSUME NEW X \in HashTable, NEW own, NEW rank, TableOK(X, own, rank),
         NEW t \in Threads, t \in Keys(X)
  PROVE  own[t] # NoProducer /\ rank[t] < Room(X)
<1>1. PICK j \in DOMAIN X : X[j].key = t  BY DEF Keys
<1>2. t # NOBODY  BY HashAssumption
<1> QED  BY <1>1, <1>2 DEF TableOK, EntryOK

-----------------------------------------------------------------------------
(* About the count. *)
Came(rank, x) == {t \in Threads : rank[t] \in 1..x}
WithRank(rank) == {t \in Threads : rank[t] # 0}

LEMMA RanksRead ==
  ASSUME NEW rank \in [Threads -> Nat], NEW count
  PROVE  RanksOK(rank, count) <=>
           count = Cardinality(WithRank(rank)) /\ \A x \in Nat : Cardinality(Came(rank, x)) <= x
BY DEF RanksOK, Came, WithRank

LEMMA ManyThreads ==
  ASSUME NEW S \in SUBSET Threads
  PROVE  IsFiniteSet(S) /\ Cardinality(S) \in Nat
<1>1. IsFiniteSet(S)  BY HashAssumption, FS_Subset
<1> QED  BY <1>1, FS_CardinalityType

(* A thread comes; and one that came goes. *)
LEMMA ThreadComes ==
  ASSUME NEW rank \in [Threads -> Nat], NEW count \in Nat, RanksOK(rank, count),
         NEW t \in Threads, rank[t] = 0
  PROVE  RanksOK([rank EXCEPT ![t] = count + 1], count + 1)
<1>1. PICK rank2 : rank2 = [rank EXCEPT ![t] = count + 1]  OBVIOUS
<1>2. rank2 \in [Threads -> Nat]  BY <1>1
<1>3. rank2[t] = count + 1 /\ \A u \in Threads : u # t => rank2[u] = rank[u]  BY <1>1
<1>4. WithRank(rank2) = WithRank(rank) \cup {t}  BY <1>3 DEF WithRank
<1>5. t \notin WithRank(rank) /\ WithRank(rank) \in SUBSET Threads  BY DEF WithRank
<1>6. count = Cardinality(WithRank(rank))  BY RanksRead
<1>7. Cardinality(WithRank(rank2)) = count + 1
  BY <1>4, <1>5, <1>6, ManyThreads, FS_AddElement
<1>8. ASSUME NEW x \in Nat PROVE Cardinality(Came(rank2, x)) <= x
  <2>1. CASE count + 1 <= x
    <3>1. Came(rank2, x) \in SUBSET WithRank(rank2)  BY <1>2 DEF Came, WithRank
    <3>2. WithRank(rank2) \in SUBSET Threads  BY DEF WithRank
    <3>3. Cardinality(Came(rank2, x)) <= Cardinality(WithRank(rank2))
      BY <3>1, <3>2, ManyThreads, FS_Subset
    <3>4. Came(rank2, x) \in SUBSET Threads  BY DEF Came
    <3>5. Cardinality(Came(rank2, x)) \in Nat  BY <3>4, ManyThreads
    <3> QED  BY <1>7, <2>1, <3>3, <3>5
  <2>2. CASE ~(count + 1 <= x)
    <3>1. Came(rank2, x) = Came(rank, x)  BY <1>3, <2>2 DEF Came
    <3> QED  BY <3>1, RanksRead
  <2> QED  BY <2>1, <2>2
<1> QED  BY <1>1, <1>2, <1>7, <1>8, RanksRead

LEMMA ThreadGoes ==
  ASSUME NEW rank \in [Threads -> Nat], NEW count \in Nat, RanksOK(rank, count),
         NEW t \in Threads, rank[t] # 0
  PROVE  count - 1 \in Nat /\ RanksOK([rank EXCEPT ![t] = 0], count - 1)
<1>1. PICK rank2 : rank2 = [rank EXCEPT ![t] = 0]  OBVIOUS
<1>2. rank2 \in [Threads -> Nat]  BY <1>1
<1>3. rank2[t] = 0 /\ \A u \in Threads : u # t => rank2[u] = rank[u]  BY <1>1
<1>4. WithRank(rank2) = WithRank(rank) \ {t}  BY <1>3 DEF WithRank
<1>5. t \in WithRank(rank) /\ WithRank(rank) \in SUBSET Threads  BY DEF WithRank
<1>6. count = Cardinality(WithRank(rank))  BY RanksRead
<1>7. Cardinality(WithRank(rank2)) = count - 1
  BY <1>4, <1>5, <1>6, ManyThreads, FS_RemoveElement
<1>8. WithRank(rank2) \in SUBSET Threads  BY DEF WithRank
<1>9. count - 1 \in Nat  BY <1>7, <1>8, ManyThreads
<1>10. ASSUME NEW x \in Nat PROVE Cardinality(Came(rank2, x)) <= x
  <2>1. Came(rank2, x) \in SUBSET Came(rank, x)  BY <1>2, <1>3 DEF Came
  <2>2. Came(rank, x) \in SUBSET Threads /\ Came(rank2, x) \in SUBSET Threads  BY DEF Came
  <2>3. Cardinality(Came(rank2, x)) <= Cardinality(Came(rank, x))
    BY <2>1, <2>2, ManyThreads, FS_Subset
  <2>4. Cardinality(Came(rank, x)) \in Nat /\ Cardinality(Came(rank2, x)) \in Nat
    BY <2>2, ManyThreads
  <2>5. Cardinality(Came(rank, x)) <= x  BY RanksRead
  <2> QED  BY <2>3, <2>4, <2>5
<1> QED  BY <1>1, <1>2, <1>7, <1>9, <1>10, RanksRead

(* So every table keeps an empty slot: the threads that are in it came     *)
(* when the count was below three quarters of its size.                    *)
LEMMA EmptySlot ==
  ASSUME NEW X \in HashTable, NEW own, NEW rank \in [Threads -> Nat], TableOK(X, own, rank),
         NEW count, RanksOK(rank, count),
         \A t \in Threads : own[t] # NoProducer => rank[t] # 0
  PROVE  \E i \in DOMAIN X : X[i].key = NOBODY
<1>1. SUFFICES ASSUME \A i \in DOMAIN X : X[i].key # NOBODY PROVE FALSE  OBVIOUS
<1>2. PICK c \in Nat \ {0} : c = Size(X)  BY SizeOfTable
<1>3. PICK x \in Nat : x = Room(X) /\ x < c  BY <1>2, RoomIsLess DEF Room
<1>4. DOMAIN X = 0..(c - 1)  BY <1>2, SizeOfTable
<1>5. IsFiniteSet(DOMAIN X) /\ Cardinality(DOMAIN X) = c  BY <1>4, FS_Interval
<1>6. Came(rank, x) \in SUBSET Threads  BY DEF Came
<1>7. IsFiniteSet(Came(rank, x)) /\ Cardinality(Came(rank, x)) \in Nat  BY <1>6, ManyThreads
<1>8. Cardinality(Came(rank, x)) < c  BY <1>3, <1>7, RanksRead
<1>0. PICK f : f = [i \in DOMAIN X |-> X[i].key]  OBVIOUS
<1>9. ASSUME NEW i \in DOMAIN X PROVE X[i].key \in Came(rank, x)
  <2>1. PICK u : u = X[i].key  OBVIOUS
  <2>2. u \in Threads  BY <1>1, <2>1, SizeOfTable DEF Entry
  <2>3. EntryOK(X, i, own, rank)  BY <1>1 DEF TableOK
  <2>4. own[u] # NoProducer /\ rank[u] < x  BY <1>3, <2>1, <2>3 DEF EntryOK
  <2>5. rank[u] \in 1..x  BY <2>2, <2>4
  <2> QED  BY <2>1, <2>2, <2>5 DEF Came
<1>10. f \in [DOMAIN X -> Came(rank, x)]  BY <1>0, <1>9
<1>11. PICK i \in DOMAIN X, j \in DOMAIN X : i # j /\ f[i] = f[j]
  BY <1>5, <1>7, <1>8, <1>10, FS_PigeonHole
<1>12. X[i].key = X[j].key  BY <1>0, <1>11
<1>13. EntryOK(X, i, own, rank)  BY <1>1 DEF TableOK
<1> QED  BY <1>11, <1>12, <1>13 DEF EntryOK

-----------------------------------------------------------------------------
(* About the chain of tables, when one is added and when a slot is taken.  *)
LEMMA TablesAre ==
  ASSUME NEW T \in Seq(HashTable), NEW n \in DOMAIN T
  PROVE  T[n] \in HashTable /\ n \in 1..Len(T)
OBVIOUS

LEMMA GrownTables ==
  ASSUME NEW T \in Seq(HashTable), Len(T) > 0, NotSmaller(T),
         NEW c \in Nat \ {0}, Size(T[Len(T)]) <= c
  PROVE  LET T2 == Append(T, Table(c)) IN
         /\ T2 \in Seq(HashTable) /\ Len(T2) = Len(T) + 1
         /\ \A n \in DOMAIN T : n \in DOMAIN T2 /\ T2[n] = T[n]
         /\ T2[Len(T) + 1] = Table(c)
         /\ NotSmaller(T2)
<1>1. PICK T2 : T2 = Append(T, Table(c))  OBVIOUS
<1>2. T2 \in Seq(HashTable) /\ Len(T2) = Len(T) + 1  BY <1>1, NewTable
<1>3. \A n \in DOMAIN T : n \in DOMAIN T2 /\ T2[n] = T[n]  BY <1>1
<1>4. T2[Len(T) + 1] = Table(c)  BY <1>1
<1>5. NotSmaller(T2)
  <2>1. SUFFICES ASSUME NEW m \in DOMAIN T2, NEW n \in DOMAIN T2, m <= n
                 PROVE Size(T2[m]) <= Size(T2[n])
    BY DEF NotSmaller
  <2>2. m \in 1..(Len(T) + 1) /\ n \in 1..(Len(T) + 1)  BY <1>2
  <2>3. CASE n <= Len(T)
    <3>1. m \in DOMAIN T /\ n \in DOMAIN T  BY <2>1, <2>2, <2>3
    <3> QED  BY <1>3, <2>1, <3>1 DEF NotSmaller
  <2>4. CASE n = Len(T) + 1 /\ m <= Len(T)
    <3>1. m \in DOMAIN T /\ Len(T) \in DOMAIN T /\ m <= Len(T)  BY <2>2, <2>4
    <3>2. PICK a \in Nat : a = Size(T[m])  BY <3>1, TablesAre, SizeOfTable
    <3>3. PICK b \in Nat : b = Size(T[Len(T)])  BY <3>1, TablesAre, SizeOfTable
    <3>4. a <= b  BY <3>1, <3>2, <3>3 DEF NotSmaller
    <3>5. T2[m] = T[m] /\ Size(T2[n]) = c  BY <1>3, <1>4, <2>4, <3>1, NewTable
    <3> QED  BY <3>2, <3>3, <3>4, <3>5
  <2>5. CASE n = Len(T) + 1 /\ m = Len(T) + 1
    <3>1. Size(T2[m]) = c /\ Size(T2[n]) = c  BY <1>4, <2>5, NewTable
    <3> QED  BY <3>1
  <2> QED  BY <2>2, <2>3, <2>4, <2>5
<1> QED  BY <1>1, <1>2, <1>3, <1>4, <1>5

LEMMA GrownFinder ==
  ASSUME NEW T \in Seq(HashTable), Len(T) > 0, NEW T2 \in Seq(HashTable), Len(T2) = Len(T) + 1,
         \A n \in DOMAIN T : n \in DOMAIN T2 /\ T2[n] = T[n],
         NEW t \in Threads, t \notin Keys(T2[Len(T) + 1]),
         NEW r \in Finder, r.pc # "grow", NEW p, NEW k, FinderOK(t, r, T, p, k)
  PROVE  FinderOK(t, r, T2, p, k)
<1>1. r.pc = "probe" => Probing(t, r, T2)
  <2>1. SUFFICES ASSUME r.pc = "probe" PROVE Probing(t, r, T2)  OBVIOUS
  <2>2. Probing(t, r, T)  BY <2>1 DEF FinderOK
  <2>3. r.table \in Nat /\ r.main \in Nat  BY DEF Finder
  <2>4. r.table \in 1..r.main /\ r.main <= Len(T)  BY <2>2 DEF Probing
  <2>5. r.table \in DOMAIN T  BY <2>3, <2>4
  <2>6. T2[r.table] = T[r.table]  BY <2>5
  <2>7. r.main <= Len(T2)  BY <2>3, <2>4
  <2>8. ASSUME NEW m \in (r.table + 1)..Len(T2) PROVE t \notin Keys(T2[m])
    <3>1. CASE m = Len(T) + 1  BY <3>1
    <3>2. CASE m # Len(T) + 1
      <4>1. m \in (r.table + 1)..Len(T) /\ m \in DOMAIN T  BY <2>3, <2>5, <3>2
      <4> QED  BY <2>2, <4>1 DEF Probing
    <3> QED  BY <3>1, <3>2
  <2> QED  BY <2>2, <2>4, <2>6, <2>7, <2>8 DEF Probing
<1>2. r.pc = "insert" => Inserting(t, r, T2, p, k)
  <2>1. SUFFICES ASSUME r.pc = "insert" PROVE Inserting(t, r, T2, p, k)  OBVIOUS
  <2>2. Inserting(t, r, T, p, k)  BY <2>1 DEF FinderOK
  <2>3. r.table \in DOMAIN T  BY <2>2 DEF Inserting
  <2>4. T2[r.table] = T[r.table] /\ r.table \in 1..Len(T2)  BY <2>3
  <2> QED  BY <2>2, <2>4 DEF Inserting
<1>3. r.main \in 1..Len(T) => r.main \in 1..Len(T2)  OBVIOUS
<1>4. (\E n \in DOMAIN T : t \in Keys(T[n])) => \E n \in DOMAIN T2 : t \in Keys(T2[n])
  OBVIOUS
<1> QED  BY <1>1, <1>2, <1>3, <1>4 DEF FinderOK

TakenIn(T, n, i, t, v, T2) ==
  /\ Len(T2) = Len(T) /\ DOMAIN T2 = DOMAIN T
  /\ T2[n] = Taken(T[n], i, t, v)
  /\ \A m \in DOMAIN T : m # n => T2[m] = T[m]
  /\ \A m \in DOMAIN T : Size(T2[m]) = Size(T[m])

LEMMA TakenTables ==
  ASSUME NEW T \in Seq(HashTable), NEW n \in DOMAIN T, NEW i \in DOMAIN T[n],
         NEW t \in Threads, NEW v \in Nat, NotSmaller(T),
         NEW T2, T2 = [T EXCEPT ![n] = Taken(T[n], i, t, v)]
  PROVE  T2 \in Seq(HashTable) /\ TakenIn(T, n, i, t, v, T2) /\ NotSmaller(T2)
<1>2. T[n] \in HashTable  OBVIOUS
<1>3. Taken(T[n], i, t, v) \in HashTable /\ Size(Taken(T[n], i, t, v)) = Size(T[n])
  <2>1. PICK X \in HashTable : X = T[n]  BY <1>2
  <2>2. i \in DOMAIN X  BY <2>1
  <2>3. Taken(X, i, t, v) \in HashTable /\ Size(Taken(X, i, t, v)) = Size(X)
    BY <2>2, TakenSlot
  <2> QED  BY <2>1, <2>3
<1>4. T2 \in Seq(HashTable) /\ Len(T2) = Len(T) /\ DOMAIN T2 = DOMAIN T  BY <1>3
<1>5. T2[n] = Taken(T[n], i, t, v) /\ \A m \in DOMAIN T : m # n => T2[m] = T[m]  OBVIOUS
<1>6. \A m \in DOMAIN T : Size(T2[m]) = Size(T[m])  BY <1>3, <1>5
<1>7. NotSmaller(T2)  BY <1>4, <1>6 DEF NotSmaller
<1> QED  BY <1>4, <1>5, <1>6, <1>7 DEF TakenIn

LEMMA TakenFinder ==
  ASSUME NEW T \in Seq(HashTable), NEW T2 \in Seq(HashTable), NEW n \in DOMAIN T,
         NEW i \in DOMAIN T[n], T[n][i].key = NOBODY, NEW u \in Threads, NEW v \in Nat,
         TakenIn(T, n, i, u, v, T2),
         NEW t \in Threads, t # u,
         NEW r \in Finder, NEW p, NEW k, FinderOK(t, r, T, p, k)
  PROVE  FinderOK(t, r, T2, p, k)
<1>0. T[n] \in HashTable  OBVIOUS
<1>8. /\ Len(T2) = Len(T) /\ DOMAIN T2 = DOMAIN T
      /\ T2[n] = Taken(T[n], i, u, v)
      /\ \A m \in DOMAIN T : m # n => T2[m] = T[m]
      /\ \A m \in DOMAIN T : Size(T2[m]) = Size(T[m])
  BY DEF TakenIn
<1> USE <1>8
<1>1. ASSUME NEW m \in DOMAIN T
      PROVE /\ t \in Keys(T2[m]) <=> t \in Keys(T[m])
            /\ \A j \in DOMAIN T[m] : /\ Before(T2[m], t, j) = Before(T[m], t, j)
                                      /\ Passed(T[m], t, j) => Passed(T2[m], t, j)
  BY <1>0, TakenEmpty
<1>2. ASSUME NEW m \in DOMAIN T, NEW a \in Nat PROVE a % Size(T[m]) \in DOMAIN T[m]
  <2>1. T[m] \in HashTable  OBVIOUS
  <2>2. PICK c \in Nat \ {0} : c = Size(T[m]) /\ DOMAIN T[m] = 0..(c - 1)  BY <2>1, SizeOfTable
  <2> QED  BY <2>2, FirstSlot
<1>3. r.index \in Nat /\ r.table \in Nat /\ r.main \in Nat  BY DEF Finder
<1>4. r.pc = "probe" => Probing(t, r, T2)
  <2>1. SUFFICES ASSUME r.pc = "probe" PROVE Probing(t, r, T2)  OBVIOUS
  <2>2. Probing(t, r, T)  BY <2>1 DEF FinderOK
  <2>3. r.table \in 1..r.main /\ r.main <= Len(T)  BY <2>2 DEF Probing
  <2>4. r.table \in DOMAIN T  BY <1>3, <2>3
  <2>5. PICK X \in HashTable : X = T[r.table]  BY <2>4
  <2>6. PICK j : j = r.index % Size(X)  OBVIOUS
  <2>7. j \in DOMAIN X  BY <1>2, <1>3, <2>4, <2>5, <2>6
  <2>8. PICK Y : Y = T2[r.table]  OBVIOUS
  <2>9. Size(Y) = Size(X)  BY <2>4, <2>5, <2>8
  <2>10. Passed(Y, t, j) /\ Before(Y, t, j) = Before(X, t, j)
    BY <1>1, <2>2, <2>4, <2>5, <2>6, <2>7, <2>8 DEF Probing
  <2>11. ASSUME NEW l \in Before(X, t, j) PROVE Y[l].key # t
    <3>1. l \in DOMAIN X /\ X[l].key # t  BY <2>2, <2>5, <2>6, <2>7, BeforeIsInside DEF Probing
    <3>2. CASE r.table = n /\ l = i
      <4>1. Y[l] = [key |-> u, value |-> v]  BY <1>0, <2>8, <3>2, TakenSlot
      <4> QED  BY <4>1
    <3>3. CASE r.table = n /\ l # i
      <4>0. X = T[n] /\ X \in HashTable /\ i \in DOMAIN X /\ Y = Taken(X, i, u, v)
        BY <1>0, <2>5, <2>8, <3>3
      <4>1. Y[l] = X[l]  BY <3>1, <3>3, <4>0 DEF Taken
      <4> QED  BY <3>1, <4>1
    <3>4. CASE r.table # n
      <4>1. Y = X  BY <2>4, <2>5, <2>8, <3>4
      <4> QED  BY <3>1, <4>1
    <3> QED  BY <3>2, <3>3, <3>4
  <2>12. ASSUME NEW m \in (r.table + 1)..Len(T2) PROVE t \notin Keys(T2[m])
    <3>1. m \in (r.table + 1)..Len(T) /\ m \in DOMAIN T  BY <1>3
    <3>2. t \notin Keys(T[m])  BY <2>2, <3>1 DEF Probing
    <3> QED  BY <1>1, <3>1, <3>2
  <2> QED  BY <2>3, <2>5, <2>6, <2>8, <2>9, <2>10, <2>11, <2>12 DEF Probing
<1>5. r.pc = "insert" => Inserting(t, r, T2, p, k)
  <2>1. SUFFICES ASSUME r.pc = "insert" PROVE Inserting(t, r, T2, p, k)  OBVIOUS
  <2>2. Inserting(t, r, T, p, k)  BY <2>1 DEF FinderOK
  <2>3. r.table \in DOMAIN T /\ r.table \in 1..Len(T2)  BY <2>2 DEF Inserting
  <2>4. Size(T2[r.table]) = Size(T[r.table])  BY <2>3
  <2>5. Room(T2[r.table]) = Room(T[r.table])  BY <2>4 DEF Room
  <2>6. Passed(T2[r.table], t, r.index % Size(T2[r.table]))
    BY <1>1, <1>2, <1>3, <2>2, <2>3, <2>4 DEF Inserting
  <2>7. t \notin Keys(T2[r.table])  BY <1>1, <2>2, <2>3 DEF Inserting
  <2> QED  BY <2>2, <2>3, <2>5, <2>6, <2>7 DEF Inserting
<1>6. r.pc = "grow" => Size(T2[Len(T2)]) = Size(T[Len(T)])
  <2>1. r.pc = "grow" => r.main \in 1..Len(T) /\ r.main = Len(T)  BY DEF FinderOK, Adding
  <2> QED  BY <2>1
<1>7. (\E m \in DOMAIN T : t \in Keys(T[m])) => \E m \in DOMAIN T2 : t \in Keys(T2[m])
  BY <1>1
<1> QED  BY <1>4, <1>5, <1>6, <1>7 DEF FinderOK

-----------------------------------------------------------------------------
(* About a step of one thread. *)
LEMMA OwnersKept ==
  ASSUME NEW own \in [Threads -> Nat], OwnersOK(own), finder \in [Threads -> Finder],
         NEW t \in Threads, NEW r \in Finder, finder' = [finder EXCEPT ![t] = r],
         FinderAt(t, "insert") => r.pc = "insert",
         answers' = answers, producerCount' = producerCount
  PROVE  OwnersOK(own)'
<1>1. \A u \in Threads : Answered(u)' = Answered(u)  BY DEF Answered
<1>2. \A u \in Threads : FinderAt(u, "insert") => FinderAt(u, "insert")'  BY DEF FinderAt
<1> QED  BY <1>1, <1>2 DEF OwnersOK

(* A call returns the producer of its thread, or none. *)
LEMMA AnsweredOneMore ==
  ASSUME answers \in [Threads -> Seq(Nat)], NEW t \in Threads, NEW p \in Nat,
         answers' = [answers EXCEPT ![t] = Append(@, p)]
  PROVE  /\ answers' \in [Threads -> Seq(Nat)]
         /\ Answered(t)' = Answered(t) \cup ({p} \ {NoProducer})
         /\ \A u \in Threads : u # t => Answered(u)' = Answered(u)
<1>1. answers' \in [Threads -> Seq(Nat)]  OBVIOUS
<1>2. PICK s \in Seq(Nat) : s = answers[t]  OBVIOUS
<1>3. answers'[t] = Append(s, p)  BY <1>2
<1>4. {Append(s, p)[i] : i \in DOMAIN Append(s, p)} = {s[i] : i \in DOMAIN s} \cup {p}
  <2>1. DOMAIN Append(s, p) = 1..(Len(s) + 1) /\ DOMAIN s = 1..Len(s) /\ Len(s) \in Nat  OBVIOUS
  <2>2. Append(s, p)[Len(s) + 1] = p /\ \A i \in 1..Len(s) : Append(s, p)[i] = s[i]  OBVIOUS
  <2>3. 1..(Len(s) + 1) = 1..Len(s) \cup {Len(s) + 1}  BY <2>1
  <2> QED  BY <2>1, <2>2, <2>3
<1>5. Answered(t)' = Answered(t) \cup ({p} \ {NoProducer})
  BY <1>2, <1>3, <1>4 DEF Answered
<1>6. \A u \in Threads : u # t => Answered(u)' = Answered(u)  BY DEF Answered
<1> QED  BY <1>1, <1>5, <1>6

LEMMA OwnersAnswered ==
  ASSUME NEW own \in [Threads -> Nat], OwnersOK(own), finder \in [Threads -> Finder],
         answers \in [Threads -> Seq(Nat)],
         NEW t \in Threads, NEW r \in Finder, finder' = [finder EXCEPT ![t] = r],
         NEW p \in Nat, p = NoProducer \/ p = own[t], FinderAt(t, "insert") => p = own[t],
         answers' = [answers EXCEPT ![t] = Append(@, p)], producerCount' = producerCount
  PROVE  OwnersOK(own)' /\ answers' \in [Threads -> Seq(Nat)]
<1>1. /\ answers' \in [Threads -> Seq(Nat)]
      /\ Answered(t)' = Answered(t) \cup ({p} \ {NoProducer})
      /\ \A u \in Threads : u # t => Answered(u)' = Answered(u)
  BY AnsweredOneMore
<1>2. ASSUME NEW u \in Threads PROVE Answered(u)' \subseteq {own[u]}
  <2>1. Answered(u) \subseteq {own[u]}  BY DEF OwnersOK
  <2>2. CASE u = t
    <3>1. {p} \ {NoProducer} \subseteq {own[u]}  BY <2>2
    <3> QED  BY <1>1, <2>1, <2>2, <3>1
  <2>3. CASE u # t  BY <1>1, <2>1, <2>3
  <2> QED  BY <2>2, <2>3
<1>3. ASSUME NEW u \in Threads, own[u] # NoProducer
      PROVE Answered(u)' # {} \/ FinderAt(u, "insert")'
  <2>1. Answered(u) # {} \/ FinderAt(u, "insert")  BY <1>3 DEF OwnersOK
  <2>2. CASE u = t  BY <1>1, <1>3, <2>1, <2>2
  <2>3. CASE u # t
    <3>1. Answered(u)' = Answered(u) /\ finder'[u] = finder[u]  BY <1>1, <2>3
    <3> QED  BY <2>1, <3>1 DEF FinderAt
  <2> QED  BY <2>2, <2>3
<1> QED  BY <1>1, <1>2, <1>3 DEF OwnersOK

LEMMA ResizerKept ==
  ASSUME OneResizer, finder \in [Threads -> Finder],
         NEW t \in Threads, NEW r \in Finder, finder' = [finder EXCEPT ![t] = r],
         r.pc \in Resizing => finder[t].pc \in Resizing, resizing' = resizing
  PROVE  OneResizer'
<1>1. ASSUME NEW u \in Threads, finder'[u].pc \in Resizing PROVE finder[u].pc \in Resizing
  BY <1>1
<1> QED  BY <1>1 DEF OneResizer

LEMMA ResizerDone ==
  ASSUME OneResizer, finder \in [Threads -> Finder],
         NEW t \in Threads, NEW r \in Finder, finder' = [finder EXCEPT ![t] = r],
         finder[t].pc \in Resizing, r.pc \notin Resizing
  PROVE  OneResizer'
<1>1. ASSUME NEW u \in Threads PROVE finder'[u].pc \notin Resizing
  <2>1. CASE u = t  BY <2>1
  <2>2. CASE u # t  BY <2>2 DEF OneResizer
  <2> QED  BY <2>1, <2>2
<1> QED  BY <1>1 DEF OneResizer

LEMMA StepOfOne ==
  ASSUME NEW own \in [Threads -> Nat], NEW rank \in [Threads -> Nat], HashGood(own, rank),
         NEW t \in Threads, NEW r \in Finder, finder' = [finder EXCEPT ![t] = r],
         NEW own2 \in [Threads -> Nat], NEW rank2 \in [Threads -> Nat],
         OthersKeep(t, own, rank, own2, rank2),
         (own2 = own /\ rank2 = rank) \/ \A n \in DOMAIN tables : t \notin Keys(tables[n]),
         FinderOK(t, r, tables, own2[t], rank2[t]),
         tables' = tables, producerCount' \in Nat, resizing' \in BOOLEAN,
         answers' \in [Threads -> Seq(Nat)],
         OneResizer', OwnersOK(own2)', RanksOK(rank2, implicitProducerHashCount)'
  PROVE  HashInv'
<1>1. HashTypeOK  BY DEF HashGood
<1>2. finder' \in [Threads -> Finder]  BY <1>1 DEF HashTypeOK
<1>3. HashTypeOK'  BY <1>1, <1>2 DEF HashTypeOK
<1>4. NotSmaller(tables)'  BY DEF HashGood, NotSmaller
<1>5. ASSUME NEW n \in DOMAIN tables PROVE TableOK(tables[n], own2, rank2)
  <2>1. tables[n] \in HashTable  BY <1>1 DEF HashTypeOK
  <2>2. TableOK(tables[n], own, rank)  BY DEF HashGood
  <2>3. CASE own2 = own /\ rank2 = rank  BY <2>2, <2>3
  <2>4. CASE t \notin Keys(tables[n])
    <3>1. PICK X \in HashTable : X = tables[n]  BY <2>1
    <3>2. TableOK(X, own, rank) /\ t \notin Keys(X)  BY <2>2, <2>4, <3>1
    <3>3. TableOK(X, own2, rank2)  BY <3>2, EntriesOfOthers
    <3> QED  BY <3>1, <3>3
  <2> QED  BY <2>3, <2>4
<1>6. ASSUME NEW u \in Threads PROVE FinderOK(u, finder'[u], tables, own2[u], rank2[u])
  <2>1. CASE u = t
    <3>1. finder'[u] = r  BY <1>1, <2>1 DEF HashTypeOK
    <3> QED  BY <2>1, <3>1
  <2>2. CASE u # t
    <3>1. finder'[u] = finder[u]  BY <1>1, <2>2 DEF HashTypeOK
    <3>2. FinderOK(u, finder[u], tables, own[u], rank[u])  BY DEF HashGood
    <3> QED  BY <2>2, <3>1, <3>2 DEF OthersKeep
  <2> QED  BY <2>1, <2>2
<1>7. (\A n \in DOMAIN tables : TableOK(tables[n], own2, rank2))'  BY <1>5
<1>8. (\A u \in Threads : FinderOK(u, finder[u], tables, own2[u], rank2[u]))'  BY <1>6
<1>9. HashGood(own2, rank2)'  BY <1>3, <1>4, <1>7, <1>8 DEF HashGood
<1> QED  BY <1>9 DEF HashInv

(* What is known of the thread that moves. *)
LEMMA Mover ==
  ASSUME NEW own \in [Threads -> Nat], NEW rank \in [Threads -> Nat], HashGood(own, rank),
         NEW t \in Threads
  PROVE  /\ FinderOK(t, finder[t], tables, own[t], rank[t])
         /\ finder[t] \in Finder /\ finder \in [Threads -> Finder]
         /\ tables \in Seq(HashTable) /\ Len(tables) > 0
         /\ \A n \in DOMAIN tables : /\ tables[n] \in HashTable /\ Capacity(n) = Size(tables[n])
                                     /\ TableOK(tables[n], own, rank)
         /\ OwnersOK(own) /\ OneResizer /\ RanksOK(rank, implicitProducerHashCount)
         /\ producerCount \in Nat /\ resizing \in BOOLEAN /\ answers \in [Threads -> Seq(Nat)]
         /\ implicitProducerHashCount \in Nat
<1>1. HashTypeOK  BY DEF HashGood
<1>2. \A n \in DOMAIN tables : tables[n] \in HashTable /\ Capacity(n) = Size(tables[n])
  BY <1>1 DEF HashTypeOK, Capacity, Size
<1>3. implicitProducerHashCount = Cardinality(WithRank(rank))  BY RanksRead DEF HashGood
<1>4. implicitProducerHashCount \in Nat  BY <1>3, ManyThreads DEF WithRank
<1> QED  BY <1>1, <1>2, <1>4 DEF HashGood, HashTypeOK

(* The steps of a thread that leave everything but itself as it is. *)
LEMMA QuietStep ==
  ASSUME NEW own \in [Threads -> Nat], NEW rank \in [Threads -> Nat], HashGood(own, rank),
         NEW t \in Threads, NEW r \in Finder, finder' = [finder EXCEPT ![t] = r],
         FinderOK(t, r, tables, own[t], rank[t]),
         FinderAt(t, "insert") => r.pc = "insert",
         r.pc \in Resizing => finder[t].pc \in Resizing,
         UNCHANGED <<tables, implicitProducerHashCount, resizing, producerCount, answers>>
  PROVE  HashInv'
<1>1. OwnersOK(own)'  BY Mover, OwnersKept
<1>2. OneResizer'  BY Mover, ResizerKept
<1>3. RanksOK(rank, implicitProducerHashCount)'  BY Mover
<1>4. producerCount' \in Nat /\ resizing' \in BOOLEAN /\ answers' \in [Threads -> Seq(Nat)]
  BY Mover
<1>5. OthersKeep(t, own, rank, own, rank)  BY DEF OthersKeep
<1> QED  BY <1>1, <1>2, <1>3, <1>4, <1>5, Mover, StepOfOne

-----------------------------------------------------------------------------
(* The steps. *)
LEMMA CallStep ==
  ASSUME NEW own \in [Threads -> Nat], NEW rank \in [Threads -> Nat], HashGood(own, rank),
         NEW t \in Threads, Call(t)
  PROVE  HashInv'
<1>1. PICK r : r = [Outside EXCEPT !.pc = "probe", !.main = Newest, !.table = Newest,
                                   !.index = hash_thread_id[t]]
  OBVIOUS
<1>2. finder[t].pc = "idle" /\ finder' = [finder EXCEPT ![t] = r]
  BY <1>1 DEF Call, FinderAt, FinderGoes
<1>3. PICK n \in Nat : n = Len(tables) /\ n > 0  BY Mover
<1>4. hash_thread_id[t] \in Nat  BY HashAssumption
<1>5. /\ r.pc = "probe" /\ r.main = n /\ r.table = n /\ r.index = hash_thread_id[t]
      /\ r \in Finder
  BY <1>1, <1>3, <1>4 DEF Outside, Newest, Finder, NoProducer
<1>6. Probing(t, r, tables)
  <2>1. tables[n] \in HashTable  BY <1>3, Mover
  <2>2. Before(tables[n], t, r.index % Size(tables[n])) = {}  BY <1>5, <2>1, BeforeFirst
  <2>3. (n + 1)..Len(tables) = {}  BY <1>3
  <2> QED  BY <1>3, <1>5, <2>2, <2>3 DEF Probing, Passed
<1>7. FinderOK(t, finder[t], tables, own[t], rank[t])  BY Mover
<1>8. FinderOK(t, r, tables, own[t], rank[t])  BY <1>2, <1>5, <1>6, <1>7 DEF FinderOK, Adding
<1>9. UNCHANGED <<tables, implicitProducerHashCount, resizing, producerCount, answers>>
  BY DEF Call
<1> QED  BY <1>2, <1>5, <1>8, <1>9, QuietStep DEF FinderAt, Resizing

(* The slot that a search looks at. *)
LEMMA ProbedSlot ==
  ASSUME NEW own \in [Threads -> Nat], NEW rank \in [Threads -> Nat], HashGood(own, rank),
         NEW t \in Threads, finder[t].pc \in {"probe", "insert"}
  PROVE  /\ finder[t].table \in DOMAIN tables /\ finder[t].table \in Nat \ {0}
         /\ finder[t].table <= Len(tables)
         /\ tables[finder[t].table] \in HashTable
         /\ Slot(t) = finder[t].index % Size(tables[finder[t].table])
         /\ Slot(t) \in DOMAIN tables[finder[t].table]
         /\ Passed(tables[finder[t].table], t, Slot(t))
         /\ TableOK(tables[finder[t].table], own, rank)
<1>1. PICK f \in Finder : f = finder[t]  BY Mover
<1>2. FinderOK(t, f, tables, own[t], rank[t])  BY <1>1, Mover
<1>3. f.table \in Nat /\ f.index \in Nat /\ f.main \in Nat  BY DEF Finder
<1>4. /\ f.table \in 1..Len(tables)
      /\ Passed(tables[f.table], t, f.index % Size(tables[f.table]))
  <2>1. CASE f.pc = "probe"
    <3>1. Probing(t, f, tables)  BY <1>2, <2>1 DEF FinderOK
    <3>2. f.table \in 1..Len(tables)  BY <1>3, <3>1, Mover DEF Probing
    <3> QED  BY <3>1, <3>2 DEF Probing
  <2>2. CASE f.pc = "insert"  BY <1>2, <2>2 DEF FinderOK, Inserting
  <2> QED  BY <1>1, <2>1, <2>2
<1>5. f.table \in DOMAIN tables /\ f.table \in Nat \ {0} /\ f.table <= Len(tables)
  BY <1>3, <1>4, Mover
<1>6. PICK X \in HashTable : X = tables[f.table] /\ Capacity(f.table) = Size(X) /\ TableOK(X, own, rank)
  BY <1>5, Mover
<1>7. Slot(t) = f.index % Size(X)  BY <1>1, <1>6 DEF Slot
<1>8. PICK c \in Nat \ {0} : c = Size(X) /\ DOMAIN X = 0..(c - 1)  BY SizeOfTable
<1>9. Slot(t) \in DOMAIN X  BY <1>3, <1>7, <1>8, FirstSlot
<1> QED  BY <1>1, <1>4, <1>5, <1>6, <1>7, <1>9

LEMMA FoundStep ==
  ASSUME NEW own \in [Threads -> Nat], NEW rank \in [Threads -> Nat], HashGood(own, rank),
         NEW t \in Threads, Found(t)
  PROVE  HashInv'
<1>1. PICK f \in Finder : f = finder[t]  BY Mover
<1>2. f.pc = "probe" /\ Probed(t).key = t  BY <1>1 DEF Found, FinderAt
<1>3. PICK n \in DOMAIN tables : n = f.table /\ n \in Nat \ {0}  BY <1>1, <1>2, ProbedSlot
<1>4. PICK X \in HashTable : X = tables[n] /\ TableOK(X, own, rank)
  BY <1>1, <1>2, <1>3, ProbedSlot
<1>5. PICK j \in DOMAIN X : j = Slot(t)  BY <1>1, <1>2, <1>3, <1>4, ProbedSlot
<1>6. Probed(t) = X[j]  BY <1>1, <1>3, <1>4, <1>5 DEF Probed
<1>7. X[j].value = own[t] /\ own[t] # NoProducer /\ rank[t] < Room(X)
  <2>1. t # NOBODY /\ X[j].key = t  BY <1>2, <1>6, HashAssumption
  <2> QED  BY <1>4, <2>1 DEF TableOK, EntryOK
<1>8. t \in Keys(X)  BY <1>2, <1>6 DEF Keys
<1>9. FinderOK(t, f, tables, own[t], rank[t])  BY <1>1, Mover
<1>10. Probing(t, f, tables)  BY <1>2, <1>9 DEF FinderOK
<1>11. UNCHANGED <<tables, implicitProducerHashCount, resizing, producerCount>>  BY DEF Found
<1>12. CASE f.table = f.main
  <2>1. PICK r : r = Outside  OBVIOUS
  <2>2. r \in Finder /\ r.pc = "idle"  BY <2>1 DEF Outside, Finder, NoProducer
  <2>3. finder' = [finder EXCEPT ![t] = r] /\ answers' = [answers EXCEPT ![t] = Append(@, own[t])]
    BY <1>1, <1>6, <1>7, <1>12, <2>1 DEF Found, Returns, FinderGoes
  <2>4. FinderOK(t, r, tables, own[t], rank[t])
    BY <1>2, <1>3, <1>4, <1>7, <1>8, <1>9, <2>2 DEF FinderOK, Adding
  <2>5. OwnersOK(own)' /\ answers' \in [Threads -> Seq(Nat)]
    BY <1>11, <2>2, <2>3, Mover, OwnersAnswered
  <2>6. OneResizer'  BY <1>11, <2>2, <2>3, Mover, ResizerKept DEF Resizing
  <2>7. OthersKeep(t, own, rank, own, rank)  BY DEF OthersKeep
  <2>8. RanksOK(rank, implicitProducerHashCount)' /\ producerCount' \in Nat /\ resizing' \in BOOLEAN
    BY <1>11, Mover
  <2> QED  BY <1>11, <2>2, <2>3, <2>4, <2>5, <2>6, <2>7, <2>8, StepOfOne
<1>13. CASE f.table # f.main
  <2>1. PICK r : r = [f EXCEPT !.pc = "insert", !.value = own[t], !.table = f.main,
                               !.index = hash_thread_id[t]]
    OBVIOUS
  <2>2. hash_thread_id[t] \in Nat /\ own[t] \in Nat  BY HashAssumption
  <2>3. /\ r \in Finder /\ r.pc = "insert" /\ r.value = own[t] /\ r.table = f.main
        /\ r.index = hash_thread_id[t]
    BY <2>1, <2>2 DEF Finder
  <2>4. finder' = [finder EXCEPT ![t] = r] /\ answers' = answers
    BY <1>1, <1>6, <1>7, <1>13, <2>1 DEF Found, FinderGoes
  <2>5. PICK m \in Nat : m = f.main  BY DEF Finder
  <2>6. n <= m /\ n # m /\ m <= Len(tables) /\ m \in (n + 1)..Len(tables)
    BY <1>3, <1>10, <1>13, <2>5, Mover DEF Probing
  <2>7. m \in DOMAIN tables /\ m \in 1..Len(tables)  BY <1>3, <2>6, Mover
  <2>8. PICK Y \in HashTable : Y = tables[m]  BY <2>7, Mover
  <2>9. t \notin Keys(Y)  BY <1>3, <1>10, <2>6, <2>8 DEF Probing
  <2>10. rank[t] < Room(Y)
    <3>1. PICK c \in Nat : c = Size(X)  BY SizeOfTable
    <3>2. PICK d \in Nat : d = Size(Y)  BY SizeOfTable
    <3>3. c <= d  BY <1>4, <2>6, <2>7, <2>8, <3>1, <3>2 DEF HashGood, NotSmaller
    <3>4. PICK x, y : x = Room(X) /\ y = Room(Y)  OBVIOUS
    <3>5. x = c \div 2 + c \div 4 /\ y = d \div 2 + d \div 4  BY <3>1, <3>2, <3>4 DEF Room
    <3>6. x <= y /\ x \in Nat /\ y \in Nat  BY <3>3, <3>5, RoomGrows
    <3>7. PICK k \in Nat : k = rank[t]  OBVIOUS
    <3> QED  BY <1>7, <3>4, <3>6, <3>7
  <2>11. Passed(Y, t, r.index % Size(Y))  BY <2>3, BeforeFirst DEF Passed
  <2>12. Inserting(t, r, tables, own[t], rank[t])
    BY <1>7, <2>3, <2>5, <2>7, <2>8, <2>9, <2>10, <2>11 DEF Inserting
  <2>13. FinderOK(t, r, tables, own[t], rank[t])
    BY <1>2, <1>7, <1>9, <2>3, <2>12 DEF FinderOK, Adding
  <2> QED  BY <1>1, <1>2, <1>11, <2>3, <2>4, <2>13, QuietStep DEF FinderAt, Resizing
<1> QED  BY <1>12, <1>13

LEMMA ProbeOnStep ==
  ASSUME NEW own \in [Threads -> Nat], NEW rank \in [Threads -> Nat], HashGood(own, rank),
         NEW t \in Threads, ProbeOn(t)
  PROVE  HashInv'
<1>1. PICK f \in Finder : f = finder[t]  BY Mover
<1>2. f.pc = "probe" /\ Probed(t).key \notin {t, NOBODY}  BY <1>1 DEF ProbeOn, FinderAt
<1>3. PICK n \in DOMAIN tables : n = f.table  BY <1>1, <1>2, ProbedSlot
<1>4. PICK X \in HashTable : X = tables[n]  BY <1>3, Mover
<1>5. PICK j \in DOMAIN X : j = Slot(t)  BY <1>1, <1>2, <1>3, <1>4, ProbedSlot
<1>6. j = f.index % Size(X)  BY <1>1, <1>2, <1>3, <1>4, <1>5, ProbedSlot
<1>7. X[j].key # t /\ X[j].key # NOBODY  BY <1>1, <1>2, <1>3, <1>4, <1>5 DEF Probed
<1>8. j + 1 \in Nat  BY SizeOfTable
<1>9. PICK r : r = [f EXCEPT !.index = j + 1]  OBVIOUS
<1>10. r \in Finder /\ r.pc = "probe" /\ r.index = j + 1 /\ r.table = n /\ r.main = f.main
  BY <1>2, <1>3, <1>8, <1>9 DEF Finder
<1>11. finder' = [finder EXCEPT ![t] = r]  BY <1>1, <1>5, <1>9 DEF ProbeOn, FinderGoes
<1>12. FinderOK(t, f, tables, own[t], rank[t])  BY <1>1, Mover
<1>13. Probing(t, f, tables)  BY <1>2, <1>12 DEF FinderOK
<1>14. Probing(t, r, tables)
  <2>1. Before(X, t, (j + 1) % Size(X)) \subseteq Before(X, t, j) \cup {j}  BY BeforeNext
  <2>2. \A i \in Before(X, t, j) : X[i].key # NOBODY /\ X[i].key # t
    BY <1>3, <1>4, <1>6, <1>13 DEF Probing, Passed
  <2>3. \A i \in Before(X, t, (j + 1) % Size(X)) : X[i].key # NOBODY /\ X[i].key # t
    BY <1>7, <2>1, <2>2
  <2>4. /\ r.table \in 1..r.main /\ r.main <= Len(tables)
        /\ \A m \in (r.table + 1)..Len(tables) : t \notin Keys(tables[m])
    BY <1>3, <1>10, <1>13 DEF Probing
  <2> QED  BY <1>4, <1>10, <2>3, <2>4 DEF Probing, Passed
<1>15. FinderOK(t, r, tables, own[t], rank[t])
  BY <1>2, <1>10, <1>12, <1>14 DEF FinderOK, Adding
<1>16. UNCHANGED <<tables, implicitProducerHashCount, resizing, producerCount, answers>>
  BY DEF ProbeOn
<1> QED  BY <1>1, <1>2, <1>10, <1>11, <1>15, <1>16, QuietStep DEF FinderAt, Resizing

LEMMA NotHereStep ==
  ASSUME NEW own \in [Threads -> Nat], NEW rank \in [Threads -> Nat], HashGood(own, rank),
         NEW t \in Threads, NotHere(t)
  PROVE  HashInv'
<1>1. PICK f \in Finder : f = finder[t]  BY Mover
<1>2. f.pc = "probe" /\ Probed(t).key = NOBODY  BY <1>1 DEF NotHere, FinderAt
<1>3. PICK n \in DOMAIN tables : n = f.table /\ n \in Nat \ {0} /\ n <= Len(tables)
  BY <1>1, <1>2, ProbedSlot
<1>4. PICK X \in HashTable : X = tables[n] /\ TableOK(X, own, rank)  BY <1>3, Mover
<1>5. PICK j \in DOMAIN X : j = Slot(t)  BY <1>1, <1>2, <1>3, <1>4, ProbedSlot
<1>6. j = f.index % Size(X)  BY <1>1, <1>2, <1>3, <1>4, <1>5, ProbedSlot
<1>7. X[j].key = NOBODY  BY <1>1, <1>2, <1>3, <1>4, <1>5 DEF Probed
<1>8. FinderOK(t, f, tables, own[t], rank[t])  BY <1>1, Mover
<1>9. Probing(t, f, tables)  BY <1>2, <1>8 DEF FinderOK
<1>10. t \notin Keys(X)
  <2>1. \A i \in Before(X, t, j) : X[i].key # t  BY <1>3, <1>4, <1>6, <1>9 DEF Probing
  <2> QED  BY <1>4, <1>7, <2>1, NotInTable
<1>11. \A m \in n..Len(tables) : t \notin Keys(tables[m])
  <2>1. \A m \in (n + 1)..Len(tables) : t \notin Keys(tables[m])  BY <1>3, <1>9 DEF Probing
  <2>2. \A m \in n..Len(tables) : m = n \/ m \in (n + 1)..Len(tables)  BY <1>3, Mover
  <2> QED  BY <1>4, <1>10, <2>1, <2>2
<1>12. UNCHANGED <<tables, implicitProducerHashCount, resizing, producerCount, answers>>
  BY DEF NotHere
<1>13. PICK m \in Nat : m = f.main /\ n <= m /\ m <= Len(tables)
  BY <1>3, <1>9 DEF Probing, Finder
<1>14. CASE n = 1
  <2>1. PICK r : r = [f EXCEPT !.pc = "count", !.table = 0, !.index = 0]  OBVIOUS
  <2>2. r \in Finder /\ r.pc = "count" /\ r.main = m  BY <1>13, <2>1 DEF Finder
  <2>3. finder' = [finder EXCEPT ![t] = r]
    BY <1>1, <1>3, <1>14, <2>1 DEF NotHere, FinderGoes, NextTable
  <2>0. DOMAIN tables = 1..Len(tables)  BY Mover
  <2>4. \A i \in DOMAIN tables : t \notin Keys(tables[i])  BY <1>11, <1>14, <2>0
  <2>5. own[t] = NoProducer  BY <1>2, <1>8, <2>4 DEF FinderOK
  <2>6. FinderOK(t, r, tables, own[t], rank[t])
    BY <1>2, <1>3, <1>8, <1>13, <2>2, <2>5, Mover DEF FinderOK, Adding
  <2> QED  BY <1>1, <1>2, <1>12, <2>2, <2>3, <2>6, QuietStep DEF FinderAt, Resizing
<1>15. CASE n # 1
  <2>1. PICK k \in Nat \ {0} : k = n - 1  BY <1>3, <1>15
  <2>2. hash_thread_id[t] \in Nat  BY HashAssumption
  <2>3. PICK r : r = [f EXCEPT !.table = k, !.index = hash_thread_id[t]]  OBVIOUS
  <2>4. r \in Finder /\ r.pc = "probe" /\ r.main = m /\ r.table = k /\ r.index = hash_thread_id[t]
    BY <1>2, <1>13, <2>2, <2>3 DEF Finder
  <2>5. finder' = [finder EXCEPT ![t] = r]
    BY <1>1, <1>3, <2>1, <2>3 DEF NotHere, FinderGoes, NextTable
  <2>6. k \in DOMAIN tables /\ k \in 1..m /\ k + 1 = n  BY <1>3, <1>13, <2>1, Mover
  <2>7. PICK Y \in HashTable : Y = tables[k]  BY <2>6, Mover
  <2>8. Before(Y, t, r.index % Size(Y)) = {}  BY <2>4, BeforeFirst
  <2>9. Probing(t, r, tables)  BY <1>11, <1>13, <2>4, <2>6, <2>7, <2>8 DEF Probing, Passed
  <2>10. FinderOK(t, r, tables, own[t], rank[t])
    BY <1>2, <1>8, <2>4, <2>9 DEF FinderOK, Adding
  <2> QED  BY <1>1, <1>2, <1>12, <2>4, <2>5, <2>10, QuietStep DEF FinderAt, Resizing
<1> QED  BY <1>14, <1>15

(* A thread without a producer is in no table. *)
LEMMA NowhereYet ==
  ASSUME NEW own \in [Threads -> Nat], NEW rank \in [Threads -> Nat], HashGood(own, rank),
         NEW t \in Threads, own[t] = NoProducer
  PROVE  \A n \in DOMAIN tables : t \notin Keys(tables[n])
<1>1. SUFFICES ASSUME NEW n \in DOMAIN tables, t \in Keys(tables[n]) PROVE FALSE  OBVIOUS
<1>2. PICK X \in HashTable : X = tables[n] /\ TableOK(X, own, rank)  BY Mover
<1> QED  BY <1>1, <1>2, OwnerInTable

LEMMA CountInStep ==
  ASSUME NEW own \in [Threads -> Nat], NEW rank \in [Threads -> Nat], HashGood(own, rank),
         NEW t \in Threads, CountIn(t)
  PROVE  HashInv'
<1>1. PICK f \in Finder : f = finder[t]  BY Mover
<1>2. f.pc = "count"  BY <1>1 DEF CountIn, FinderAt
<1>3. PICK n \in Nat : n = implicitProducerHashCount  BY Mover
<1>4. PICK r : r = [f EXCEPT !.pc = "room", !.newCount = n + 1]  OBVIOUS
<1>5. r \in Finder /\ r.pc = "room" /\ r.newCount = n + 1 /\ r.main = f.main
  <2>1. PICK k \in Nat : k = n + 1  OBVIOUS
  <2>2. r \in Finder /\ r.pc = "room" /\ r.newCount = k /\ r.main = f.main
    BY <1>4, <2>1 DEF Finder
  <2> QED  BY <2>1, <2>2
<1>6. finder' = [finder EXCEPT ![t] = r] /\ implicitProducerHashCount' = n + 1
  BY <1>1, <1>3, <1>4 DEF CountIn, FinderGoes
<1>7. UNCHANGED <<tables, resizing, producerCount, answers>>  BY DEF CountIn
<1>8. FinderOK(t, f, tables, own[t], rank[t])  BY <1>1, Mover
<1>9. own[t] = NoProducer /\ rank[t] = 0  BY <1>2, <1>8 DEF FinderOK, Adding
<1>10. PICK rank2 : rank2 = [rank EXCEPT ![t] = n + 1]  OBVIOUS
<1>11. rank2 \in [Threads -> Nat] /\ rank2[t] = n + 1  BY <1>10
<1>12. OthersKeep(t, own, rank, own, rank2)  BY <1>10 DEF OthersKeep
<1>13. RanksOK(rank2, n + 1)
  <2>1. RanksOK(rank, n)  BY <1>3, Mover
  <2> QED  BY <1>9, <1>10, <2>1, ThreadComes
<1>14. FinderOK(t, r, tables, own[t], rank2[t])
  BY <1>2, <1>5, <1>8, <1>9, <1>11 DEF FinderOK, Adding
<1>15. \A m \in DOMAIN tables : t \notin Keys(tables[m])  BY <1>9, NowhereYet
<1>16. OwnersOK(own)'  BY <1>1, <1>2, <1>5, <1>6, <1>7, Mover, OwnersKept DEF FinderAt
<1>17. OneResizer'  BY <1>5, <1>6, <1>7, Mover, ResizerKept DEF Resizing
<1>18. /\ RanksOK(rank2, implicitProducerHashCount)'
       /\ producerCount' \in Nat /\ resizing' \in BOOLEAN /\ answers' \in [Threads -> Seq(Nat)]
  BY <1>6, <1>7, <1>13, Mover
<1> QED  BY <1>5, <1>6, <1>7, <1>11, <1>12, <1>14, <1>15, <1>16, <1>17, <1>18, StepOfOne

LEMMA GetFlagStep ==
  ASSUME NEW own \in [Threads -> Nat], NEW rank \in [Threads -> Nat], HashGood(own, rank),
         NEW t \in Threads, GetFlag(t)
  PROVE  HashInv'
<1>1. PICK f \in Finder : f = finder[t]  BY Mover
<1>2. f.pc = "room" /\ ~resizing  BY <1>1 DEF GetFlag, FinderAt
<1>3. PICK n \in Nat : n = Len(tables) /\ n > 0  BY Mover
<1>4. n \in DOMAIN tables /\ Newest = n  BY <1>3, Mover DEF Newest
<1>5. PICK c \in Nat \ {0} : c = Size(tables[n]) /\ c = Capacity(Newest)
  BY <1>4, Mover, SizeOfTable
<1>6. PICK r : r = [f EXCEPT !.pc = "grow", !.main = n, !.newCapacity = 2 * c]  OBVIOUS
<1>7. /\ r \in Finder /\ r.pc = "grow" /\ r.main = n /\ r.newCapacity = 2 * c
      /\ r.newCount = f.newCount
  <2>1. PICK d \in Nat : d = 2 * c  OBVIOUS
  <2>2. /\ r \in Finder /\ r.pc = "grow" /\ r.main = n /\ r.newCapacity = d
        /\ r.newCount = f.newCount
    BY <1>6, <2>1 DEF Finder
  <2> QED  BY <2>1, <2>2
<1>8. finder' = [finder EXCEPT ![t] = r] /\ resizing' = TRUE
  BY <1>1, <1>4, <1>5, <1>6 DEF GetFlag, FinderGoes
<1>9. UNCHANGED <<tables, implicitProducerHashCount, producerCount, answers>>  BY DEF GetFlag
<1>10. FinderOK(t, f, tables, own[t], rank[t])  BY <1>1, Mover
<1>11. 2 * c >= c  OBVIOUS
<1>12. FinderOK(t, r, tables, own[t], rank[t])
  BY <1>2, <1>3, <1>5, <1>7, <1>10, <1>11 DEF FinderOK, Adding
<1>13. OneResizer'
  <2>1. \A u \in Threads : finder[u].pc \notin Resizing  BY <1>2, Mover DEF OneResizer
  <2>2. ASSUME NEW u \in Threads, u # t PROVE finder'[u].pc \notin Resizing
    BY <1>8, <2>1, <2>2
  <2> QED  BY <1>8, <2>2 DEF OneResizer
<1>14. OwnersOK(own)'  BY <1>1, <1>2, <1>7, <1>8, <1>9, Mover, OwnersKept DEF FinderAt
<1>15. OthersKeep(t, own, rank, own, rank)  BY DEF OthersKeep
<1>16. /\ RanksOK(rank, implicitProducerHashCount)'
       /\ producerCount' \in Nat /\ resizing' \in BOOLEAN /\ answers' \in [Threads -> Seq(Nat)]
  BY <1>8, <1>9, Mover
<1> QED  BY <1>7, <1>8, <1>9, <1>12, <1>13, <1>14, <1>15, <1>16, StepOfOne

LEMMA DoubleAgainStep ==
  ASSUME NEW own \in [Threads -> Nat], NEW rank \in [Threads -> Nat], HashGood(own, rank),
         NEW t \in Threads, DoubleAgain(t)
  PROVE  HashInv'
<1>1. PICK f \in Finder : f = finder[t]  BY Mover
<1>2. f.pc = "grow"  BY <1>1 DEF DoubleAgain, FinderAt
<1>3. PICK c \in Nat : c = f.newCapacity  BY DEF Finder
<1>4. PICK r : r = [f EXCEPT !.newCapacity = 2 * c]  OBVIOUS
<1>5. /\ r \in Finder /\ r.pc = "grow" /\ r.newCapacity = 2 * c
      /\ r.main = f.main /\ r.newCount = f.newCount
  BY <1>2, <1>4 DEF Finder
<1>6. finder' = [finder EXCEPT ![t] = r]  BY <1>1, <1>3, <1>4 DEF DoubleAgain, FinderGoes
<1>7. UNCHANGED <<tables, implicitProducerHashCount, resizing, producerCount, answers>>
  BY DEF DoubleAgain
<1>8. FinderOK(t, f, tables, own[t], rank[t])  BY <1>1, Mover
<1>9. r.newCapacity >= Size(tables[Len(tables)])
  <2>1. Len(tables) \in DOMAIN tables  BY Mover
  <2>2. PICK d \in Nat : d = Size(tables[Len(tables)])  BY <2>1, Mover, SizeOfTable
  <2>3. c >= d  BY <1>2, <1>3, <1>8, <2>2 DEF FinderOK
  <2>4. 2 * c >= d  BY <2>3
  <2> QED  BY <1>5, <2>2, <2>4
<1>10. FinderOK(t, r, tables, own[t], rank[t])
  BY <1>2, <1>5, <1>8, <1>9 DEF FinderOK, Adding
<1> QED  BY <1>1, <1>2, <1>5, <1>6, <1>7, <1>10, QuietStep DEF FinderAt, Resizing

LEMMA GrowStep ==
  ASSUME NEW own \in [Threads -> Nat], NEW rank \in [Threads -> Nat], HashGood(own, rank),
         NEW t \in Threads, Grow(t)
  PROVE  HashInv'
<1>1. PICK f \in Finder : f = finder[t]  BY Mover
<1>2. f.pc = "grow"  BY <1>1 DEF Grow, FinderAt
<1>3. PICK T \in Seq(HashTable) : T = tables /\ Len(T) > 0  BY Mover
<1>4. PICK n \in Nat \ {0} : n = Len(T) /\ n \in DOMAIN T  BY <1>3
<1>5. FinderOK(t, f, T, own[t], rank[t])  BY <1>1, <1>3, Mover
<1>6. PICK c \in Nat \ {0} : c = f.newCapacity /\ Size(T[n]) <= c
  <2>1. PICK c \in Nat : c = f.newCapacity  BY DEF Finder
  <2>2. PICK d \in Nat \ {0} : d = Size(T[n])  BY <1>3, <1>4, Mover, SizeOfTable
  <2>3. c >= d  BY <1>2, <1>4, <1>5, <2>1, <2>2 DEF FinderOK
  <2> QED  BY <2>1, <2>2, <2>3
<1>7. PICK T2 : T2 = Append(T, Table(c))  OBVIOUS
<1>8. /\ T2 \in Seq(HashTable) /\ Len(T2) = n + 1
      /\ \A m \in DOMAIN T : m \in DOMAIN T2 /\ T2[m] = T[m]
      /\ T2[n + 1] = Table(c)
      /\ NotSmaller(T2)
  <2>1. NotSmaller(T) /\ Len(T) > 0 /\ Size(T[Len(T)]) <= c  BY <1>3, <1>4, <1>6 DEF HashGood
  <2> QED  BY <1>4, <1>7, <2>1, GrownTables
<1>9. tables' = T2  BY <1>1, <1>3, <1>6, <1>7 DEF Grow
<1>10. PICK r : r = [f EXCEPT !.pc = "clear", !.main = n + 1, !.newCapacity = 0]  OBVIOUS
<1>11. r \in Finder /\ r.pc = "clear" /\ r.main = n + 1 /\ r.newCount = f.newCount
  <2>1. PICK k \in Nat : k = n + 1  OBVIOUS
  <2>2. r \in Finder /\ r.pc = "clear" /\ r.main = k /\ r.newCount = f.newCount
    BY <1>10, <2>1 DEF Finder
  <2> QED  BY <2>1, <2>2
<1>12. finder' = [finder EXCEPT ![t] = r]
  BY <1>1, <1>3, <1>4, <1>10 DEF Grow, FinderGoes, Newest
<1>13. UNCHANGED <<implicitProducerHashCount, resizing, producerCount, answers>>  BY DEF Grow
<1>14. \A u \in Threads : u \notin Keys(T2[n + 1])  BY <1>8, NewTable
<1>15. FinderOK(t, r, T2, own[t], rank[t])
  <2>1. n + 1 \in 1..(n + 1)  OBVIOUS
  <2>2. own[t] = NoProducer /\ rank[t] = f.newCount /\ rank[t] # 0
    BY <1>2, <1>5 DEF FinderOK, Adding
  <2> QED  BY <1>8, <1>11, <2>1, <2>2 DEF FinderOK, Adding
<1>16. ASSUME NEW u \in Threads PROVE FinderOK(u, finder'[u], T2, own[u], rank[u])
  <2>1. CASE u = t  BY <1>12, <1>15, <2>1, Mover
  <2>2. CASE u # t
    <3>1. PICK g \in Finder : g = finder[u] /\ g = finder'[u]  BY <1>12, <2>2, Mover
    <3>2. FinderOK(u, g, T, own[u], rank[u])  BY <1>3, <3>1, Mover
    <3>3. g.pc # "grow"  BY <1>1, <1>2, <2>2, <3>1, Mover DEF OneResizer, Resizing
    <3>4. u \notin Keys(T2[Len(T) + 1]) /\ Len(T) > 0 /\ Len(T2) = Len(T) + 1
      BY <1>4, <1>8, <1>14
    <3>5. FinderOK(u, g, T2, own[u], rank[u])  BY <1>8, <3>2, <3>3, <3>4, GrownFinder
    <3> QED  BY <3>1, <3>5
  <2> QED  BY <2>1, <2>2
<1>17. ASSUME NEW m \in DOMAIN T2 PROVE TableOK(T2[m], own, rank)
  <2>1. m \in DOMAIN T \/ m = n + 1  BY <1>4, <1>8
  <2>2. CASE m \in DOMAIN T
    <3>1. TableOK(T[m], own, rank)  BY <1>3, <2>2, Mover
    <3> QED  BY <1>8, <2>2, <3>1
  <2>3. CASE m = n + 1  BY <1>8, <2>3, NewTable DEF TableOK
  <2> QED  BY <2>1, <2>2, <2>3
<1>18. HashTypeOK'
  <2>1. finder' \in [Threads -> Finder]  BY <1>11, <1>12, Mover
  <2>2. Len(T2) > 0  BY <1>8
  <2> QED  BY <1>8, <1>9, <1>13, <2>1, <2>2, Mover DEF HashTypeOK
<1>19. OneResizer'  BY <1>1, <1>2, <1>11, <1>12, <1>13, Mover, ResizerKept DEF Resizing
<1>20. OwnersOK(own)'
  BY <1>1, <1>2, <1>11, <1>12, <1>13, Mover, OwnersKept DEF FinderAt
<1>21. RanksOK(rank, implicitProducerHashCount)'  BY <1>13, Mover
<1>22. (\A m \in DOMAIN tables : TableOK(tables[m], own, rank))'  BY <1>9, <1>17
<1>23. (\A u \in Threads : FinderOK(u, finder[u], tables, own[u], rank[u]))'  BY <1>9, <1>16
<1>24. NotSmaller(tables)'  BY <1>8, <1>9
<1>25. HashGood(own, rank)'  BY <1>18, <1>19, <1>20, <1>21, <1>22, <1>23, <1>24 DEF HashGood
<1> QED  BY <1>25 DEF HashInv

LEMMA ClearStep ==
  ASSUME NEW own \in [Threads -> Nat], NEW rank \in [Threads -> Nat], HashGood(own, rank),
         NEW t \in Threads, Clear(t)
  PROVE  HashInv'
<1>1. PICK f \in Finder : f = finder[t]  BY Mover
<1>2. f.pc \in {"clear", "abandon"}  BY <1>1 DEF Clear, FinderAt
<1>3. FinderOK(t, f, tables, own[t], rank[t])  BY <1>1, Mover
<1>4. UNCHANGED <<tables, implicitProducerHashCount, producerCount>> /\ resizing' = FALSE
  BY DEF Clear
<1>5. OthersKeep(t, own, rank, own, rank)  BY DEF OthersKeep
<1>6. /\ RanksOK(rank, implicitProducerHashCount)'
      /\ producerCount' \in Nat /\ resizing' \in BOOLEAN
  BY <1>4, Mover
<1>7. CASE f.pc = "clear"
  <2>1. PICK r : r = [f EXCEPT !.pc = "enter"]  OBVIOUS
  <2>2. r \in Finder /\ r.pc = "enter" /\ r.main = f.main /\ r.newCount = f.newCount
    BY <2>1 DEF Finder
  <2>3. finder' = [finder EXCEPT ![t] = r] /\ answers' = answers
    BY <1>1, <1>7, <2>1 DEF Clear, FinderAt, FinderGoes
  <2>4. FinderOK(t, r, tables, own[t], rank[t])
    BY <1>3, <1>7, <2>2 DEF FinderOK, Adding
  <2>5. OneResizer'  BY <1>1, <1>7, <2>2, <2>3, Mover, ResizerDone DEF Resizing
  <2>6. OwnersOK(own)'  BY <1>1, <1>4, <1>7, <2>2, <2>3, Mover, OwnersKept DEF FinderAt
  <2>7. answers' \in [Threads -> Seq(Nat)]  BY <2>3, Mover
  <2> QED  BY <1>4, <1>5, <1>6, <2>2, <2>3, <2>4, <2>5, <2>6, <2>7, StepOfOne
<1>8. CASE f.pc = "abandon"
  <2>1. PICK r : r = Outside  OBVIOUS
  <2>2. r \in Finder /\ r.pc = "idle"  BY <2>1 DEF Outside, Finder, NoProducer
  <2>3. finder' = [finder EXCEPT ![t] = r] /\ answers' = [answers EXCEPT ![t] = Append(@, NoProducer)]
    BY <1>1, <1>8, <2>1 DEF Clear, FinderAt, Returns, FinderGoes
  <2>4. FinderOK(t, r, tables, own[t], rank[t])
    BY <1>3, <1>8, <2>2 DEF FinderOK, Adding
  <2>5. OneResizer'  BY <1>1, <1>8, <2>2, <2>3, Mover, ResizerDone DEF Resizing
  <2>6. NoProducer \in Nat  BY DEF NoProducer
  <2>7. ~FinderAt(t, "insert")  BY <1>1, <1>8 DEF FinderAt
  <2>8. OwnersOK(own)' /\ answers' \in [Threads -> Seq(Nat)]
    BY <1>4, <2>2, <2>3, <2>6, <2>7, Mover, OwnersAnswered
  <2> QED  BY <1>4, <1>5, <1>6, <2>2, <2>3, <2>4, <2>5, <2>8, StepOfOne
<1> QED  BY <1>2, <1>7, <1>8

(* A new producer is nobody's yet. *)
LEMMA OwnersAdded ==
  ASSUME NEW own \in [Threads -> Nat], OwnersOK(own), finder \in [Threads -> Finder],
         producerCount \in Nat, NEW t \in Threads, own[t] = NoProducer,
         NEW r \in Finder, r.pc = "insert", finder' = [finder EXCEPT ![t] = r],
         NEW own2, own2 = [own EXCEPT ![t] = producerCount + 1],
         answers' = answers, producerCount' = producerCount + 1
  PROVE  OwnersOK(own2)'
<1>1. PICK n \in Nat : n = producerCount  OBVIOUS
<1>2. own2[t] = n + 1 /\ \A u \in Threads : u # t => own2[u] = own[u]  BY <1>1
<1>3. \A u \in Threads : own[u] \in Nat /\ own[u] <= n  BY <1>1 DEF OwnersOK
<1>4. \A u \in Threads : own2[u] <= n + 1  BY <1>2, <1>3
<1>5. ASSUME NEW u \in Threads, NEW v \in Threads, own2[u] = own2[v], own2[u] # NoProducer
      PROVE u = v
  <2>1. CASE u # t /\ v # t  BY <1>2, <1>5, <2>1 DEF OwnersOK
  <2>2. CASE u = t /\ v # t  BY <1>2, <1>3, <1>5, <2>2
  <2>3. CASE u # t /\ v = t  BY <1>2, <1>3, <1>5, <2>3
  <2> QED  BY <2>1, <2>2, <2>3
<1>6. \A u \in Threads : Answered(u)' = Answered(u)  BY DEF Answered
<1>7. ASSUME NEW u \in Threads PROVE Answered(u)' \subseteq {own2[u]}
  <2>1. Answered(u) \subseteq {own[u]} /\ NoProducer \notin Answered(u)
    BY DEF OwnersOK, Answered
  <2>2. CASE u = t
    <3>1. Answered(u) = {}  BY <2>1, <2>2
    <3> QED  BY <1>6, <3>1
  <2>3. CASE u # t  BY <1>2, <1>6, <2>1, <2>3
  <2> QED  BY <2>2, <2>3
<1>8. ASSUME NEW u \in Threads, own2[u] # NoProducer
      PROVE Answered(u)' # {} \/ FinderAt(u, "insert")'
  <2>1. CASE u = t  BY <2>1 DEF FinderAt
  <2>2. CASE u # t
    <3>1. Answered(u) # {} \/ FinderAt(u, "insert")  BY <1>2, <1>8, <2>2 DEF OwnersOK
    <3>2. finder'[u] = finder[u]  BY <2>2
    <3> QED  BY <1>6, <3>1, <3>2 DEF FinderAt
  <2> QED  BY <2>1, <2>2
<1> QED  BY <1>1, <1>4, <1>5, <1>7, <1>8 DEF OwnersOK

LEMMA EnterStep ==
  ASSUME NEW own \in [Threads -> Nat], NEW rank \in [Threads -> Nat], HashGood(own, rank),
         NEW t \in Threads, Enter(t)
  PROVE  HashInv'
<1>1. PICK f \in Finder : f = finder[t]  BY Mover
<1>2. f.pc \in {"enter", "room"}  BY <1>1 DEF Enter, Flagged, FinderAt
<1>3. FinderOK(t, f, tables, own[t], rank[t])  BY <1>1, Mover
<1>4. UNCHANGED <<tables, implicitProducerHashCount, resizing, answers>>  BY DEF Enter
<1>5. own[t] = NoProducer /\ rank[t] = f.newCount /\ rank[t] # 0 /\ f.main \in 1..Len(tables)
  BY <1>2, <1>3 DEF FinderOK, Adding
<1>6. PICK m \in DOMAIN tables : m = f.main /\ m \in 1..Len(tables) /\ m \in Nat
  BY <1>5, Mover
<1>7. PICK X \in HashTable : X = tables[m] /\ Capacity(m) = Size(X)  BY <1>6, Mover
<1>8. CASE HasRoom(t)
  <2>1. rank[t] < Room(X)  BY <1>1, <1>5, <1>6, <1>7, <1>8 DEF HasRoom, Room
  <2>2. PICK p \in Nat \ {0} : p = producerCount + 1  BY Mover
  <2>3. hash_thread_id[t] \in Nat  BY HashAssumption
  <2>4. PICK r : r = [f EXCEPT !.pc = "insert", !.value = p, !.newCount = 0, !.table = m,
                               !.index = hash_thread_id[t]]
    OBVIOUS
  <2>5. r \in Finder /\ r.pc = "insert" /\ r.value = p /\ r.table = m /\ r.index = hash_thread_id[t]
    BY <1>6, <2>3, <2>4 DEF Finder
  <2>6. finder' = [finder EXCEPT ![t] = r] /\ producerCount' = producerCount + 1
    BY <1>1, <1>6, <1>8, <2>2, <2>4 DEF Enter, FinderGoes
  <2>7. PICK own2 : own2 = [own EXCEPT ![t] = producerCount + 1]  OBVIOUS
  <2>8. own2 \in [Threads -> Nat] /\ own2[t] = p  BY <2>2, <2>7
  <2>9. OthersKeep(t, own, rank, own2, rank)  BY <2>7 DEF OthersKeep
  <2>10. \A n \in DOMAIN tables : t \notin Keys(tables[n])  BY <1>5, NowhereYet
  <2>11. Inserting(t, r, tables, own2[t], rank[t])
    <3>1. Passed(X, t, r.index % Size(X))  BY <2>5, BeforeFirst DEF Passed
    <3>2. t \notin Keys(X)  BY <1>7, <2>10
    <3>3. p # NoProducer  BY DEF NoProducer
    <3> QED  BY <1>6, <1>7, <2>1, <2>5, <2>8, <3>1, <3>2, <3>3 DEF Inserting
  <2>12. p # NoProducer  BY DEF NoProducer
  <2>13. FinderOK(t, r, tables, own2[t], rank[t])
    BY <1>5, <2>5, <2>8, <2>11, <2>12 DEF FinderOK, Adding
  <2>14. OwnersOK(own2)'  BY <1>4, <1>5, <2>5, <2>6, <2>7, Mover, OwnersAdded
  <2>15. OneResizer'  BY <1>4, <2>5, <2>6, Mover, ResizerKept DEF Resizing
  <2>16. /\ RanksOK(rank, implicitProducerHashCount)'
         /\ producerCount' \in Nat /\ resizing' \in BOOLEAN /\ answers' \in [Threads -> Seq(Nat)]
    BY <1>4, <2>2, <2>6, Mover
  <2> QED  BY <1>4, <2>5, <2>6, <2>8, <2>9, <2>10, <2>13, <2>14, <2>15, <2>16, StepOfOne
<1>9. CASE ~HasRoom(t)
  <2>1. PICK n \in Nat : n = Len(tables) /\ n \in 1..Len(tables)  BY Mover
  <2>2. PICK r : r = [f EXCEPT !.pc = "room", !.main = n]  OBVIOUS
  <2>3. r \in Finder /\ r.pc = "room" /\ r.main = n /\ r.newCount = f.newCount
    BY <2>2 DEF Finder
  <2>4. finder' = [finder EXCEPT ![t] = r] /\ producerCount' = producerCount
    BY <1>1, <1>9, <2>1, <2>2 DEF Enter, FinderGoes, Newest
  <2>5. FinderOK(t, r, tables, own[t], rank[t])
    BY <1>5, <2>1, <2>3 DEF FinderOK, Adding
  <2>6. finder[t].pc # "insert"  BY <1>1, <1>2
  <2> QED  BY <1>4, <2>3, <2>4, <2>5, <2>6, QuietStep DEF FinderAt, Resizing
<1> QED  BY <1>8, <1>9

LEMMA AllocationFailsStep ==
  ASSUME NEW own \in [Threads -> Nat], NEW rank \in [Threads -> Nat], HashGood(own, rank),
         NEW t \in Threads, AllocationFails(t)
  PROVE  HashInv'
<1>1. PICK f \in Finder : f = finder[t]  BY Mover
<1>2. f.pc \in {"grow", "enter", "room"}  BY <1>1 DEF AllocationFails, Flagged, FinderAt
<1>3. FinderOK(t, f, tables, own[t], rank[t])  BY <1>1, Mover
<1>4. UNCHANGED <<tables, resizing, producerCount>>  BY DEF AllocationFails
<1>5. own[t] = NoProducer /\ rank[t] # 0 /\ f.main \in 1..Len(tables)
  BY <1>2, <1>3 DEF FinderOK, Adding
<1>6. PICK n \in Nat : n = implicitProducerHashCount  BY Mover
<1>7. implicitProducerHashCount' = n - 1  BY <1>6 DEF AllocationFails
<1>8. PICK rank2 : rank2 = [rank EXCEPT ![t] = 0]  OBVIOUS
<1>9. rank2 \in [Threads -> Nat] /\ rank2[t] = 0  BY <1>8
<1>10. RanksOK(rank2, n - 1)
  <2>1. RanksOK(rank, n)  BY <1>6, Mover
  <2> QED  BY <1>5, <1>8, <2>1, ThreadGoes
<1>11. OthersKeep(t, own, rank, own, rank2)  BY <1>8 DEF OthersKeep
<1>12. \A m \in DOMAIN tables : t \notin Keys(tables[m])  BY <1>5, NowhereYet
<1>13. /\ RanksOK(rank2, implicitProducerHashCount)'
       /\ producerCount' \in Nat /\ resizing' \in BOOLEAN
  BY <1>4, <1>7, <1>10, Mover
<1>14. CASE f.pc = "grow"
  <2>1. PICK r : r = [f EXCEPT !.pc = "abandon", !.newCapacity = 0]  OBVIOUS
  <2>2. r \in Finder /\ r.pc = "abandon" /\ r.main = f.main  BY <2>1 DEF Finder
  <2>3. finder' = [finder EXCEPT ![t] = r] /\ answers' = answers
    BY <1>1, <1>14, <2>1 DEF AllocationFails, FinderAt, FinderGoes
  <2>4. FinderOK(t, r, tables, own[t], rank2[t])
    BY <1>5, <1>9, <2>2 DEF FinderOK, Adding
  <2>5. OneResizer'  BY <1>1, <1>4, <1>14, <2>2, <2>3, Mover, ResizerKept DEF Resizing
  <2>6. OwnersOK(own)'  BY <1>1, <1>4, <1>14, <2>2, <2>3, Mover, OwnersKept DEF FinderAt
  <2>7. answers' \in [Threads -> Seq(Nat)]  BY <2>3, Mover
  <2> QED  BY <1>4, <1>9, <1>11, <1>12, <1>13, <2>2, <2>3, <2>4, <2>5, <2>6, <2>7, StepOfOne
<1>15. CASE f.pc # "grow"
  <2>1. PICK r : r = Outside  OBVIOUS
  <2>2. r \in Finder /\ r.pc = "idle"  BY <2>1 DEF Outside, Finder, NoProducer
  <2>3. finder' = [finder EXCEPT ![t] = r] /\ answers' = [answers EXCEPT ![t] = Append(@, NoProducer)]
    BY <1>1, <1>15, <2>1 DEF AllocationFails, FinderAt, Returns, FinderGoes
  <2>4. FinderOK(t, r, tables, own[t], rank2[t])
    BY <1>5, <1>9, <2>2 DEF FinderOK, Adding
  <2>5. OneResizer'  BY <1>4, <2>2, <2>3, Mover, ResizerKept DEF Resizing
  <2>6. NoProducer \in Nat  BY DEF NoProducer
  <2>7. ~FinderAt(t, "insert")  BY <1>1, <1>2 DEF FinderAt
  <2>8. OwnersOK(own)' /\ answers' \in [Threads -> Seq(Nat)]
    BY <1>4, <2>2, <2>3, <2>6, <2>7, Mover, OwnersAnswered
  <2> QED  BY <1>4, <1>9, <1>11, <1>12, <1>13, <2>2, <2>3, <2>4, <2>5, <2>8, StepOfOne
<1> QED  BY <1>14, <1>15

LEMMA InsertStep ==
  ASSUME NEW own \in [Threads -> Nat], NEW rank \in [Threads -> Nat], HashGood(own, rank),
         NEW t \in Threads, Insert(t)
  PROVE  HashInv'
<1>1. PICK f \in Finder : f = finder[t]  BY Mover
<1>2. f.pc = "insert"  BY <1>1 DEF Insert, FinderAt
<1>3. PICK T \in Seq(HashTable) : T = tables  BY Mover
<1>4. PICK n \in DOMAIN T : n = f.table /\ n \in 1..Len(T)  BY <1>1, <1>2, <1>3, ProbedSlot
<1>5. PICK X \in HashTable : X = T[n] /\ TableOK(X, own, rank)  BY <1>3, Mover
<1>6. PICK j \in DOMAIN X : j = Slot(t) /\ j = f.index % Size(X) /\ Passed(X, t, j)
  BY <1>1, <1>2, <1>3, <1>4, <1>5, ProbedSlot
<1>7. Probed(t) = X[j]  BY <1>1, <1>3, <1>4, <1>5, <1>6 DEF Probed
<1>8. FinderOK(t, f, T, own[t], rank[t])  BY <1>1, <1>3, Mover
<1>9. Inserting(t, f, T, own[t], rank[t])  BY <1>2, <1>8 DEF FinderOK
<1>10. t \notin Keys(X) /\ f.value = own[t] /\ own[t] # NoProducer /\ rank[t] < Room(X)
  BY <1>4, <1>5, <1>9 DEF Inserting
<1>11. UNCHANGED <<implicitProducerHashCount, resizing, producerCount>>  BY DEF Insert
<1>12. CASE X[j].key = NOBODY
  <2>1. PICK v \in Nat : v = own[t] /\ v = f.value  BY <1>10
  <2>2. PICK T2 : T2 = [T EXCEPT ![n] = Taken(X, j, t, v)]  OBVIOUS
  <2>3. tables' = T2
    <3>1. tables' = [tables EXCEPT ![n][j] = [key |-> t, value |-> v]]
      BY <1>1, <1>4, <1>6, <1>7, <1>12, <2>1 DEF Insert
    <3> QED  BY <1>3, <1>5, <2>2, <3>1 DEF Taken
  <2>4. PICK r : r = Outside  OBVIOUS
  <2>5. r \in Finder /\ r.pc = "idle"  BY <2>4 DEF Outside, Finder, NoProducer
  <2>6. finder' = [finder EXCEPT ![t] = r] /\ answers' = [answers EXCEPT ![t] = Append(@, v)]
    BY <1>1, <1>7, <1>12, <2>1, <2>4 DEF Insert, Returns, FinderGoes
  <2>7. NotSmaller(T) /\ j \in DOMAIN T[n]  BY <1>3, <1>5 DEF HashGood
  <2>8. T2 \in Seq(HashTable) /\ TakenIn(T, n, j, t, v, T2) /\ NotSmaller(T2)
    <3>1. T2 = [T EXCEPT ![n] = Taken(T[n], j, t, v)]  BY <1>5, <2>2
    <3> QED  BY <2>7, <3>1, TakenTables
  <2>9. /\ Len(T2) = Len(T) /\ DOMAIN T2 = DOMAIN T
         /\ T2[n] = Taken(X, j, t, v)
         /\ \A m \in DOMAIN T : m # n => T2[m] = T[m]
    BY <1>5, <2>8 DEF TakenIn
  <2>10. t \in Keys(T2[n])
    <3>1. t \in Keys(Taken(X, j, t, v))  BY <1>12, TakenEmpty
    <3> QED  BY <2>9, <3>1
  <2>11. TableOK(T2[n], own, rank)
    <3>1. TableOK(Taken(X, j, t, v), own, rank)
      BY <1>5, <1>6, <1>10, <1>12, <2>1, TakenIsRight
    <3> QED  BY <2>9, <3>1
  <2>12. FinderOK(t, r, T2, own[t], rank[t])
    BY <1>2, <1>8, <1>10, <2>5, <2>9, <2>10 DEF FinderOK, Adding
  <2>13. ASSUME NEW u \in Threads PROVE FinderOK(u, finder'[u], T2, own[u], rank[u])
    <3>1. CASE u = t  BY <2>6, <2>12, <3>1, Mover
    <3>2. CASE u # t
      <4>1. PICK g \in Finder : g = finder[u] /\ g = finder'[u]  BY <2>6, <3>2, Mover
      <4>2. FinderOK(u, g, T, own[u], rank[u])  BY <1>3, <4>1, Mover
      <4>3. T[n][j].key = NOBODY  BY <1>5, <1>12
      <4>4. FinderOK(u, g, T2, own[u], rank[u])
        BY <2>7, <2>8, <3>2, <4>2, <4>3, TakenFinder
      <4> QED  BY <4>1, <4>4
    <3> QED  BY <3>1, <3>2
  <2>14. ASSUME NEW m \in DOMAIN T2 PROVE TableOK(T2[m], own, rank)
    <3>1. CASE m = n  BY <2>11, <3>1
    <3>2. CASE m # n
      <4>1. TableOK(T[m], own, rank)  BY <1>3, <2>9, Mover
      <4> QED  BY <2>9, <3>2, <4>1
    <3> QED  BY <3>1, <3>2
  <2>15. OwnersOK(own)' /\ answers' \in [Threads -> Seq(Nat)]
    BY <1>11, <2>1, <2>5, <2>6, Mover, OwnersAnswered
  <2>16. HashTypeOK'
    <3>1. finder' \in [Threads -> Finder]  BY <2>5, <2>6, Mover
    <3>2. Len(T2) > 0  BY <1>3, <2>9, Mover
    <3> QED  BY <1>11, <2>3, <2>8, <2>15, <3>1, <3>2, Mover DEF HashTypeOK
  <2>17. OneResizer'  BY <1>11, <2>5, <2>6, Mover, ResizerKept DEF Resizing
  <2>18. RanksOK(rank, implicitProducerHashCount)'  BY <1>11, Mover
  <2>19. (\A m \in DOMAIN tables : TableOK(tables[m], own, rank))'  BY <2>3, <2>14
  <2>20. (\A u \in Threads : FinderOK(u, finder[u], tables, own[u], rank[u]))'
    BY <2>3, <2>13
  <2>21. NotSmaller(tables)'  BY <2>3, <2>8
  <2>22. HashGood(own, rank)'
    BY <2>15, <2>16, <2>17, <2>18, <2>19, <2>20, <2>21 DEF HashGood
  <2> QED  BY <2>22 DEF HashInv
<1>13. CASE X[j].key # NOBODY
  <2>1. j + 1 \in Nat  BY SizeOfTable
  <2>2. PICK r : r = [f EXCEPT !.index = j + 1]  OBVIOUS
  <2>3. r \in Finder /\ r.pc = "insert" /\ r.index = j + 1 /\ r.table = n /\ r.value = f.value
    BY <1>2, <1>4, <2>1, <2>2 DEF Finder
  <2>4. finder' = [finder EXCEPT ![t] = r] /\ UNCHANGED <<tables, answers>>
    BY <1>1, <1>6, <1>7, <1>13, <2>2 DEF Insert, FinderGoes
  <2>5. Inserting(t, r, tables, own[t], rank[t])
    <3>1. Before(X, t, (j + 1) % Size(X)) \subseteq Before(X, t, j) \cup {j}  BY BeforeNext
    <3>2. \A i \in Before(X, t, (j + 1) % Size(X)) : X[i].key # NOBODY
      BY <1>6, <1>13, <3>1 DEF Passed
    <3> QED  BY <1>3, <1>4, <1>5, <1>10, <2>3, <3>2 DEF Inserting, Passed
  <2>6. FinderOK(t, r, tables, own[t], rank[t])
    BY <1>2, <1>3, <1>8, <2>3, <2>5 DEF FinderOK, Adding
  <2> QED  BY <1>11, <2>3, <2>4, <2>6, QuietStep DEF Resizing
<1> QED  BY <1>12, <1>13

-----------------------------------------------------------------------------
LEMMA HashStarts == HashInit => HashInv
<1>1. SUFFICES ASSUME HashInit PROVE HashInv  OBVIOUS
<1>2. PICK c \in Nat \ {0} : c = INITIAL_IMPLICIT_PRODUCER_HASH_SIZE  BY HashAssumption
<1>3. PICK none : none = [t \in Threads |-> 0]  OBVIOUS
<1>4. none \in [Threads -> Nat] /\ \A t \in Threads : none[t] = 0  BY <1>3
<1>5. tables = <<Table(c)>>  BY <1>1, <1>2 DEF HashInit
<1>6. /\ Table(c) \in HashTable
      /\ \A i \in DOMAIN Table(c) : Table(c)[i].key = NOBODY
  BY NewTable
<1>7. tables \in Seq(HashTable) /\ Len(tables) = 1 /\ tables[1] = Table(c)  BY <1>5, <1>6
<1>8. DOMAIN tables = {1}  BY <1>5
<1>9. Outside \in Finder /\ Outside.pc = "idle"  BY DEF Outside, Finder, NoProducer
<1>10. \A t \in Threads : finder[t] = Outside  BY <1>1 DEF HashInit
<1>11. HashTypeOK
  <2>1. finder \in [Threads -> Finder]  BY <1>1, <1>9 DEF HashInit
  <2>2. answers \in [Threads -> Seq(Nat)]  BY <1>1 DEF HashInit
  <2>3. resizing \in BOOLEAN /\ producerCount \in Nat  BY <1>1 DEF HashInit
  <2>4. Len(tables) > 0  BY <1>7
  <2> QED  BY <1>7, <2>1, <2>2, <2>3, <2>4 DEF HashTypeOK
<1>12. NotSmaller(tables)
  <2>1. PICK k \in Nat : k = Size(tables[1])  BY <1>6, <1>7, SizeOfTable
  <2> QED  BY <1>8, <2>1 DEF NotSmaller
<1>13. OneResizer  BY <1>9, <1>10 DEF OneResizer, Resizing
<1>14. OwnersOK(none)
  <2>1. \A t \in Threads : Answered(t) = {}  BY <1>1 DEF HashInit, Answered
  <2>2. producerCount = 0  BY <1>1 DEF HashInit
  <2> QED  BY <1>4, <2>1, <2>2 DEF OwnersOK, NoProducer
<1>15. RanksOK(none, implicitProducerHashCount)
  <2>1. WithRank(none) = {} /\ \A x \in Nat : Came(none, x) = {}  BY <1>4 DEF WithRank, Came
  <2>2. implicitProducerHashCount = 0  BY <1>1 DEF HashInit
  <2>3. Cardinality({}) = 0  BY FS_EmptySet
  <2>4. \A x \in Nat : Cardinality(Came(none, x)) <= x  BY <2>1, <2>3
  <2> QED  BY <1>4, <2>1, <2>2, <2>3, <2>4, RanksRead
<1>16. \A n \in DOMAIN tables : TableOK(tables[n], none, none)
  BY <1>6, <1>7, <1>8 DEF TableOK
<1>17. \A t \in Threads : FinderOK(t, finder[t], tables, none[t], none[t])
  BY <1>4, <1>9, <1>10 DEF FinderOK, Adding, NoProducer
<1>18. HashGood(none, none)
  BY <1>11, <1>12, <1>13, <1>14, <1>15, <1>16, <1>17 DEF HashGood
<1> QED  BY <1>4, <1>18 DEF HashInv

LEMMA HashSteps == HashInv /\ [HashNext]_hashing => HashInv'
<1>1. SUFFICES ASSUME HashInv, [HashNext]_hashing PROVE HashInv'  OBVIOUS
<1>2. PICK own \in [Threads -> Nat], rank \in [Threads -> Nat] : HashGood(own, rank)
  BY <1>1 DEF HashInv
<1>3. ASSUME NEW t \in Threads, HashStep(t) PROVE HashInv'
  <2>1. CASE Call(t)  BY <1>2, <2>1, CallStep
  <2>2. CASE Found(t)  BY <1>2, <2>2, FoundStep
  <2>3. CASE ProbeOn(t)  BY <1>2, <2>3, ProbeOnStep
  <2>4. CASE NotHere(t)  BY <1>2, <2>4, NotHereStep
  <2>5. CASE CountIn(t)  BY <1>2, <2>5, CountInStep
  <2>6. CASE GetFlag(t)  BY <1>2, <2>6, GetFlagStep
  <2>7. CASE DoubleAgain(t)  BY <1>2, <2>7, DoubleAgainStep
  <2>8. CASE Grow(t)  BY <1>2, <2>8, GrowStep
  <2>9. CASE Clear(t)  BY <1>2, <2>9, ClearStep
  <2>10. CASE AllocationFails(t)  BY <1>2, <2>10, AllocationFailsStep
  <2>11. CASE Enter(t)  BY <1>2, <2>11, EnterStep
  <2>12. CASE Insert(t)  BY <1>2, <2>12, InsertStep
  <2> QED  BY <1>3, <2>1, <2>2, <2>3, <2>4, <2>5, <2>6, <2>7, <2>8, <2>9, <2>10, <2>11, <2>12
           DEF HashStep
<1>4. CASE UNCHANGED hashing
  <2>1. /\ tables' = tables /\ implicitProducerHashCount' = implicitProducerHashCount
        /\ resizing' = resizing /\ producerCount' = producerCount
        /\ finder' = finder /\ answers' = answers
    BY <1>4 DEF hashing
  <2>2. HashTypeOK'  BY <1>2, <2>1 DEF HashGood, HashTypeOK
  <2>3. OneResizer'  BY <1>2, <2>1 DEF HashGood, OneResizer
  <2>4. OwnersOK(own)'
    <3>1. OwnersOK(own)  BY <1>2 DEF HashGood
    <3>2. \A t \in Threads : Answered(t)' = Answered(t)  BY <2>1 DEF Answered
    <3> QED  BY <2>1, <3>1, <3>2 DEF OwnersOK, FinderAt
  <2>5. (\A n \in DOMAIN tables : TableOK(tables[n], own, rank))'  BY <1>2, <2>1 DEF HashGood
  <2>6. (\A t \in Threads : FinderOK(t, finder[t], tables, own[t], rank[t]))'
    BY <1>2, <2>1 DEF HashGood
  <2>7. RanksOK(rank, implicitProducerHashCount)' /\ NotSmaller(tables)'
    BY <1>2, <2>1 DEF HashGood
  <2>8. HashGood(own, rank)'  BY <2>2, <2>3, <2>4, <2>5, <2>6, <2>7 DEF HashGood
  <2> QED  BY <2>8 DEF HashInv
<1> QED  BY <1>1, <1>3, <1>4 DEF HashNext

LEMMA HashPromises == HashInv => OwnProducer
<1>1. SUFFICES ASSUME HashInv PROVE OwnProducer  OBVIOUS
<1>2. PICK own \in [Threads -> Nat], rank \in [Threads -> Nat] : HashGood(own, rank)
  BY <1>1 DEF HashInv
<1>3. OwnersOK(own)  BY <1>2 DEF HashGood
<1>4. \A t \in Threads : Answered(t) \subseteq {own[t]} /\ NoProducer \notin Answered(t)
  BY <1>3 DEF OwnersOK, Answered
<1>5. ASSUME NEW t \in Threads PROVE Cardinality(Answered(t)) <= 1
  <2>1. IsFiniteSet({own[t]}) /\ Cardinality({own[t]}) = 1  BY FS_Singleton
  <2>2. Answered(t) \in SUBSET {own[t]}  BY <1>4
  <2> QED  BY <2>1, <2>2, FS_Subset
<1>6. ASSUME NEW t \in Threads, NEW u \in Threads, t # u
      PROVE Answered(t) \cap Answered(u) = {}
  BY <1>3, <1>4, <1>6 DEF OwnersOK
<1>7. ASSUME NEW t \in Threads
      PROVE  rank[t] # 0 <=> own[t] # NoProducer \/ finder[t].pc \in Adding
  BY <1>2, Mover DEF FinderOK
<1>8. ASSUME NEW n \in DOMAIN tables PROVE \E i \in DOMAIN tables[n] : tables[n][i].key = NOBODY
  <2>1. PICK X \in HashTable : X = tables[n] /\ TableOK(X, own, rank)
    BY <1>2 DEF HashGood, HashTypeOK
  <2>2. RanksOK(rank, implicitProducerHashCount)  BY <1>2 DEF HashGood
  <2>3. \A t \in Threads : own[t] # NoProducer => rank[t] # 0  BY <1>7
  <2>4. \E i \in DOMAIN X : X[i].key = NOBODY  BY <2>1, <2>2, <2>3, EmptySlot
  <2> QED  BY <2>1, <2>4
<1>9. ASSUME \A t \in Threads : FinderAt(t, "idle")
      PROVE  implicitProducerHashCount = Cardinality({t \in Threads : Answered(t) # {}})
  <2>1. ASSUME NEW t \in Threads PROVE rank[t] # 0 <=> Answered(t) # {}
    <3>1. finder[t].pc = "idle"  BY <1>9 DEF FinderAt
    <3>2. rank[t] # 0 <=> own[t] # NoProducer  BY <1>7, <3>1 DEF Adding
    <3>3. own[t] # NoProducer => Answered(t) # {}  BY <1>3, <3>1 DEF OwnersOK, FinderAt
    <3>4. Answered(t) # {} => own[t] # NoProducer  BY <1>4
    <3> QED  BY <3>2, <3>3, <3>4
  <2>2. WithRank(rank) = {t \in Threads : Answered(t) # {}}  BY <2>1 DEF WithRank
  <2>3. implicitProducerHashCount = Cardinality(WithRank(rank))
    BY <1>2, RanksRead DEF HashGood
  <2> QED  BY <2>2, <2>3
<1> QED  BY <1>5, <1>6, <1>8, <1>9 DEF OwnProducer

(* For every number of threads and every hash of their ids: a thread gets  *)
(* the same producer from every call that does not fail, and no other      *)
(* thread gets it; every table keeps an empty slot; and the count is that  *)
(* of the threads that have a producer.                                    *)
THEOREM OwnProducerHolds == HashSpec => []OwnProducer
<1>1. HashInit => HashInv  BY HashStarts
<1>2. HashInv /\ [HashNext]_hashing => HashInv'  BY HashSteps
<1>3. HashInv => OwnProducer  BY HashPromises
<1> QED  BY <1>1, <1>2, <1>3, PTL DEF HashSpec
=============================================================================
