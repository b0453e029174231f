---------------------------- MODULE ReasoningStore ----------------------------
(***************************************************************************)
(* Class ReasoningStore (src/code/test_decimal.cpp): networks, their nodes *)
(* and the nodes' appenders are recycled.  Every thread takes objects in   *)
(* bulk from a store that all threads share, hands them out from a buffer  *)
(* of its own, and collects what is freed in another buffer until it can   *)
(* go back in bulk.  A node may be shared by several networks; refcnt says *)
(* by how many.                                                            *)
(*                                                                         *)
(* A store is the queue of ConcurrentQueue.  An object is the number it    *)
(* got when it was created; 1..made[k] are the objects of kind k.          *)
(***************************************************************************)
EXTENDS Integers, SequencesExt

CONSTANTS
  Threads,
  TLS_BUF_SIZE,        \* objects that a thread takes and returns at a time
  INIT_BUF_SIZE,       \* objects in each store at the start
  NODES_PER_BNET, APPENDERS_PER_NODE,  \* lengths of the arrays
  REFCNT_MAX,          \* the largest count of a node: that of a uint16_t
  Plans,               \* how each thread builds a network: a sequence of "node",
                       \* "share" and "appender"
  MAX_NETWORKS         \* bound of the networks that all threads build

Kinds == {"bnet", "node", "appender"}

(* What a thread collects in one call never fills a buffer twice: the code *)
(* tests the bit TLS_BUF_SIZE of the length, which is then to test whether *)
(* the length has reached it.                                              *)
ASSUME StoreAssumption ==
  /\ TLS_BUF_SIZE \in [Kinds -> Nat \ {0}] /\ INIT_BUF_SIZE \in [Kinds -> Nat]
  /\ NODES_PER_BNET \in 0..TLS_BUF_SIZE["node"]
  /\ APPENDERS_PER_NODE \in 0..TLS_BUF_SIZE["appender"]
  /\ REFCNT_MAX \in Nat \ {0}
  /\ Plans \in [Threads -> SUBSET Seq({"node", "share", "appender"})]

VARIABLES
  store,     \* of each kind: the objects anybody can take
  made,      \* of each kind: how many objects there are
  buffer,    \* of each thread and kind: what it took last
  index,     \* the entry, from 0, that it hands out next
  freed,     \* what it has collected to return
  refcnt,    \* of each node
  appenders, \* of each node
  nodes,     \* of each network
  held,      \* the networks each thread is using, in the order it made them
  pc,        \* where each thread is in freeBnet
  at,        \* the entry of the buffer of networks and of nodes it is at
  plan,      \* what each thread has yet to add to its newest network
  built,     \* how many networks were begun
  lost       \* history: objects that the code gives up, by what it does

local  == <<buffer, index, freed>>
things == <<refcnt, appenders, nodes, held>>
svars  == <<store, made, local, things, pc, at, plan, built, lost>>

(* static void init(): called before main() *)
StoreInit ==
  /\ store = [k \in Kinds |-> [i \in 1..INIT_BUF_SIZE[k] |-> i]]
  /\ made = INIT_BUF_SIZE
  /\ buffer = [t \in Threads |-> [k \in Kinds |-> <<>>]]
  /\ index = [t \in Threads |-> [k \in Kinds |-> 0]]
  /\ freed = [t \in Threads |-> [k \in Kinds |-> <<>>]]
  /\ refcnt = [n \in 1..made["node"] |-> 1]
  /\ appenders = [n \in 1..made["node"] |-> <<>>]
  /\ nodes = [b \in 1..made["bnet"] |-> <<>>]
  /\ held = [t \in Threads |-> <<>>]
  /\ pc = [t \in Threads |-> "idle"]
  /\ at = [t \in Threads |-> [k \in {"bnet", "node"} |-> 0]]
  /\ plan = [t \in Threads |-> <<>>]
  /\ built = 0
  /\ lost = [k \in Kinds |-> {}]

(* After a call that is undefined the program does nothing more. *)
Idle(t) == pc[t] = "idle" /\ \A u \in Threads : pc[u] # "undefined"

Begins(t) ==
  /\ Idle(t) /\ plan[t] = <<>> /\ built < MAX_NETWORKS
  /\ built' = built + 1
  /\ plan' \in {[plan EXCEPT ![t] = p] : p \in Plans[t]}

Adds(t, what) ==
  /\ Idle(t) /\ plan[t] # <<>> /\ Head(plan[t]) = what
  /\ plan' = [plan EXCEPT ![t] = Tail(@)]
  /\ UNCHANGED built

-----------------------------------------------------------------------------
(* static ... allocBnet(), allocNode(), allocAppender(): the object x. *)

FromBuffer(t, k, x) ==
  /\ index[t][k] > 0
  /\ x = buffer[t][k][index[t][k] + 1]
  /\ index' = [index EXCEPT ![t][k] = @ - 1]
  /\ UNCHANGED <<store, made, buffer, lost>>

(* The last entry is handed out at once.  The next calls go down to 1: the *)
(* entry 0 is never handed out.                                            *)
AfterRefill(n) == n - 2

FromStore(t, k, x) ==
  LET n == Min({TLS_BUF_SIZE[k], Len(store[k])}) IN
  /\ index[t][k] = 0 /\ n > 0
  /\ x = store[k][n]
  /\ buffer' = [buffer EXCEPT ![t][k] = SubSeq(store[k], 1, n)]
  /\ index' = [index EXCEPT ![t][k] = AfterRefill(n)]
  /\ store' = [store EXCEPT ![k] = SubSeq(@, n + 1, Len(@))]
  /\ lost' = [lost EXCEPT ![k] = @ \cup ({store[k][1]} \ {x})]
  /\ UNCHANGED made

FromArena(t, k, x) ==
  /\ index[t][k] = 0 /\ store[k] = <<>>
  /\ x = made[k] + 1
  /\ made' = [made EXCEPT ![k] = x]
  /\ UNCHANGED <<store, buffer, index, lost>>

Alloc(t, k, x) ==
  /\ FromBuffer(t, k, x) \/ FromStore(t, k, x) \/ FromArena(t, k, x)
  /\ UNCHANGED <<freed, pc, at>>

(* After a refill of one object the index is -1, and the next call reads   *)
(* before the buffer.                                                      *)
AllocUndefined(t, k) ==
  /\ index[t][k] < 0
  /\ CASE k = "bnet"     -> Begins(t)
       [] k = "node"     -> Adds(t, "node")
       [] k = "appender" -> Adds(t, "appender")
  /\ pc' = [pc EXCEPT ![t] = "undefined"]
  /\ UNCHANGED <<store, made, local, things, at, lost>>

-----------------------------------------------------------------------------
(* What a client does with them: it adds nodes to its newest network and   *)
(* appenders to the newest node of it.  The code checks neither the arrays *)
(* nor the counts: that they have room is up to the client.                *)
With(f, x, value) == [y \in DOMAIN f \cup {x} |-> IF y = x THEN value ELSE f[y]]

AllocBnet(t) ==
  /\ Begins(t)
  /\ \E x \in 1..made["bnet"] + 1 :
       /\ Alloc(t, "bnet", x)
       /\ held' = [held EXCEPT ![t] = Append(@, x)]
       /\ nodes' = IF x \in DOMAIN nodes THEN nodes ELSE With(nodes, x, <<>>)
  /\ UNCHANGED <<refcnt, appenders>>

Newest(t) == Last(held[t])

AllocNode(t) ==
  /\ Adds(t, "node") /\ Len(nodes[Newest(t)]) < NODES_PER_BNET
  /\ \E x \in 1..made["node"] + 1 :
       /\ Alloc(t, "node", x)
       /\ nodes' = [nodes EXCEPT ![Newest(t)] = Append(@, x)]
       /\ IF x \in DOMAIN refcnt
          THEN UNCHANGED <<refcnt, appenders>>
          ELSE refcnt' = With(refcnt, x, 1) /\ appenders' = With(appenders, x, <<>>)
  /\ UNCHANGED held

(* copyNodeReasoning, of a node of another network that is in use *)
ShareNode(t) ==
  /\ Adds(t, "share") /\ Len(nodes[Newest(t)]) < NODES_PER_BNET
  /\ \E u \in Threads : \E i \in DOMAIN held[u] : \E j \in DOMAIN nodes[held[u][i]] :
       LET n == nodes[held[u][i]][j] IN
       /\ n \notin ToSet(nodes[Newest(t)]) /\ refcnt[n] < REFCNT_MAX
       /\ refcnt' = [refcnt EXCEPT ![n] = @ + 1]
       /\ nodes' = [nodes EXCEPT ![Newest(t)] = Append(@, n)]
  /\ UNCHANGED <<store, made, local, appenders, held, pc, at, lost>>

AllocAppender(t) ==
  /\ Adds(t, "appender")
  /\ nodes[Newest(t)] # <<>>
  /\ LET n == Last(nodes[Newest(t)]) IN
     /\ refcnt[n] = 1 /\ Len(appenders[n]) < APPENDERS_PER_NODE
     /\ \E x \in 1..made["appender"] + 1 :
          /\ Alloc(t, "appender", x)
          /\ appenders' = [appenders EXCEPT ![n] = Append(@, x)]
  /\ UNCHANGED <<refcnt, nodes, held>>

-----------------------------------------------------------------------------
(* static void freeBnet(BnetReasoning ...): one step for each node and for *)
(* each network that is taken apart when a buffer is full.                 *)

Full(k, buf) == Len(buf) >= TLS_BUF_SIZE[k]

(* enqueue_bulk, which fails without memory and is not tried again; the    *)
(* rest of the buffer is dropped.                                          *)
Return(k, back, rest) ==
  \/ /\ store' = [store EXCEPT ![k] = @ \o back]
     /\ lost' = [lost EXCEPT ![k] = @ \cup ToSet(rest)]
  \/ /\ lost' = [lost EXCEPT ![k] = @ \cup ToSet(back \o rest)]
     /\ UNCHANGED store

FreeBnet(t) ==
  /\ Idle(t) /\ plan[t] = <<>>
  /\ \E i \in DOMAIN held[t] :
       LET buf == Append(freed[t]["bnet"], held[t][i]) IN
       /\ held' = [held EXCEPT ![t] = RemoveAt(@, i)]
       /\ freed' = [freed EXCEPT ![t]["bnet"] = buf]
       /\ IF Full("bnet", buf)
          THEN pc' = [pc EXCEPT ![t] = "bnets"] /\ at' = [at EXCEPT ![t]["bnet"] = 1]
          ELSE UNCHANGED <<pc, at>>
  /\ UNCHANGED <<store, made, buffer, index, refcnt, appenders, nodes, plan, built, lost>>

(* Defect: a node is collected whoever else has it. *)
AloneUnasked(n) == TRUE

(* refcnt.fetch_sub(0) == 1: the counter stays as it is. *)
Alone(n) == refcnt[n] = 1

(* freeNodes(bnet->nodes, bnet->size), one entry.  bnet->size = 0 comes    *)
(* after the last, but no one else reads a network that is being freed: an *)
(* entry that the loop has passed is no longer one of the network.         *)
FreeNode(t) ==
  LET b == freed[t]["bnet"][at[t]["bnet"]]
      n == Head(nodes[b]) IN
  /\ pc[t] = "bnets" /\ at[t]["bnet"] <= Len(freed[t]["bnet"])
  /\ nodes[b] # <<>>
  /\ nodes' = [nodes EXCEPT ![b] = Tail(@)]
  /\ freed' = IF Alone(n) THEN [freed EXCEPT ![t]["node"] = Append(@, n)] ELSE freed
  /\ UNCHANGED <<store, made, buffer, index, refcnt, appenders, held, pc, at, plan, built, lost>>

(* Defect: the loop over the buffer leaves out its first node. *)
FirstNodeSkipped == 2

FirstNode == 1

(* The end of freeNodes, unless the buffer is full. *)
NodesFreed(t) ==
  /\ pc[t] = "bnets" /\ at[t]["bnet"] <= Len(freed[t]["bnet"])
  /\ nodes[freed[t]["bnet"][at[t]["bnet"]]] = <<>>
  /\ IF Full("node", freed[t]["node"])
     THEN pc' = [pc EXCEPT ![t] = "nodes"] /\ at' = [at EXCEPT ![t]["node"] = FirstNode]
     ELSE at' = [at EXCEPT ![t]["bnet"] = @ + 1] /\ UNCHANGED pc
  /\ UNCHANGED <<store, made, local, things, plan, built, lost>>

(* Defect: only as many as a full buffer holds. *)
AppendersBackFull(buf) == SubSeq(buf, 1, TLS_BUF_SIZE["appender"])

(* enqueue_bulk of all that the buffer holds *)
AppendersBack(buf) == buf

(* freeAppenders(node->appenders, node->size); node->size = 0 *)
FreeAppenders(t) ==
  LET n == freed[t]["node"][at[t]["node"]]
      buf == freed[t]["appender"] \o appenders[n] IN
  /\ pc[t] = "nodes" /\ at[t]["node"] <= Len(freed[t]["node"])
  /\ appenders' = [appenders EXCEPT ![n] = <<>>]
  /\ IF Full("appender", buf)
     THEN Return("appender", AppendersBack(buf), <<>>) /\ freed' = [freed EXCEPT ![t]["appender"] = <<>>]
     ELSE freed' = [freed EXCEPT ![t]["appender"] = buf] /\ UNCHANGED <<store, lost>>
  /\ at' = [at EXCEPT ![t]["node"] = @ + 1]
  /\ UNCHANGED <<made, buffer, index, refcnt, nodes, held, pc, plan, built>>

(* nodeStore.enqueue_bulk: TLS_NODE_BUF_SIZE of them, whatever the buffer  *)
(* holds.                                                                  *)
ReturnNodes(t) ==
  /\ pc[t] = "nodes" /\ at[t]["node"] > Len(freed[t]["node"])
  /\ LET count == TLS_BUF_SIZE["node"] IN
     Return("node", SubSeq(freed[t]["node"], 1, count),
                    SubSeq(freed[t]["node"], count + 1, Len(freed[t]["node"])))
  /\ freed' = [freed EXCEPT ![t]["node"] = <<>>]
  /\ pc' = [pc EXCEPT ![t] = "bnets"]
  /\ at' = [at EXCEPT ![t]["node"] = 0, ![t]["bnet"] = @ + 1]
  /\ UNCHANGED <<made, buffer, index, things, plan, built>>

ReturnBnets(t) ==
  /\ pc[t] = "bnets" /\ at[t]["bnet"] > Len(freed[t]["bnet"])
  /\ Return("bnet", SubSeq(freed[t]["bnet"], 1, TLS_BUF_SIZE["bnet"]), <<>>)
  /\ freed' = [freed EXCEPT ![t]["bnet"] = <<>>]
  /\ pc' = [pc EXCEPT ![t] = "idle"]
  /\ at' = [at EXCEPT ![t]["bnet"] = 0]
  /\ UNCHANGED <<made, buffer, index, things, plan, built>>

StoreNext ==
  \E t \in Threads :
    \/ AllocBnet(t) \/ AllocNode(t) \/ ShareNode(t) \/ AllocAppender(t)
    \/ \E k \in Kinds : AllocUndefined(t, k)
    \/ FreeBnet(t) \/ FreeNode(t) \/ NodesFreed(t) \/ FreeAppenders(t) \/ ReturnNodes(t) \/ ReturnBnets(t)

StoreSpec == StoreInit /\ [][StoreNext]_svars

-----------------------------------------------------------------------------
Positions(seq, x) == {i \in DOMAIN seq : seq[i] = x}

(* The places in which object x of kind k is to be had, or will be again. *)
Available(k, x) ==
  ({"store"} \X {0} \X Positions(store[k], x)) \cup
  (UNION {{"buffer"} \X {t} \X {i \in 1..index[t][k] : buffer[t][k][i + 1] = x} : t \in Threads}) \cup
  (UNION {{"freed"} \X {t} \X Positions(freed[t][k], x) : t \in Threads})

(* The places in which it is in use. *)
Users(k, x) ==
  CASE k = "bnet"     -> UNION {{t} \X Positions(held[t], x) : t \in Threads}
    [] k = "node"     -> UNION {{b} \X Positions(nodes[b], x) : b \in DOMAIN nodes}
    [] k = "appender" -> UNION {{n} \X Positions(appenders[n], x) : n \in DOMAIN appenders}

UsersAllowed(k, x) == IF k = "node" THEN refcnt[x] ELSE 1

(* What a thread can be handed by allocBnet, allocNode or allocAppender. *)
Ready(k, x) ==
  \/ x \in ToSet(store[k])
  \/ \E t \in Threads : \E i \in 1..index[t][k] : buffer[t][k][i + 1] = x

(* A network or a node that a thread can be handed has size 0: allocBnet   *)
(* and allocNode do not set it.                                            *)
HandedOutEmpty ==
  /\ \A b \in DOMAIN nodes : Ready("bnet", b) => nodes[b] = <<>>
  /\ \A n \in DOMAIN appenders : Ready("node", n) => appenders[n] = <<>>

(* What is in use is nowhere available, and what is available is so in one *)
(* place: no object gets to two owners at once, a node with several users  *)
(* being counted, and none comes out of a store while it is still used or  *)
(* with what it held for its last owner.                                   *)
OneOwner ==
  /\ HandedOutEmpty
  /\ \A k \in Kinds : \A x \in 1..made[k] :
       LET available == Cardinality(Available(k, x))
           users     == Cardinality(Users(k, x)) IN
       /\ available + users <= 1 \/ (available = 0 /\ users <= UsersAllowed(k, x))
       /\ k = "node" /\ available > 0 => refcnt[x] = 1

(* An object that is neither available nor in use is one that the code     *)
(* gives up: the first of a refill, a node beyond TLS_NODE_BUF_SIZE when   *)
(* the buffer goes back, what a failed enqueue_bulk did not take, or a     *)
(* node that was shared, whose count never comes down.                     *)
NothingElseLost ==
  \A k \in Kinds : \A x \in 1..made[k] :
    Available(k, x) = {} /\ Users(k, x) = {} => x \in lost[k] \/ (k = "node" /\ refcnt[x] > 1)

(* The buffers of freed objects are vectors of a fixed length: what is     *)
(* collected, and what freeAppenders is about to add, fits.                *)
FreedFits ==
  \A t \in Threads :
    /\ Len(freed[t]["bnet"]) <= TLS_BUF_SIZE["bnet"]
    /\ Len(freed[t]["node"]) <= TLS_BUF_SIZE["node"] + NODES_PER_BNET
    /\ \A n \in DOMAIN appenders :
         Len(freed[t]["appender"]) + Len(appenders[n]) <= TLS_BUF_SIZE["appender"] + APPENDERS_PER_NODE
=============================================================================
