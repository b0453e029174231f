-------------------------------- MODULE MCValues -------------------------------
(***************************************************************************)
(* The classes of which other classes keep objects, one of them in every   *)
(* execution: a CircularBuffer, a Time, and the ReasoningStore with its    *)
(* threads.                                                                *)
(*                                                                         *)
(* A buffer of capacity 3 (4 cells), two element values, writes of every   *)
(* length up to 4 whose two ends differ, and every count up to 4: one more *)
(* than fits, so that every refusal, every wrap and the full and the empty *)
(* buffer occur.                                                           *)
(***************************************************************************)
EXTENDS CircularBuffer, ReasoningStore, TimeSession

CONSTANTS e1, e2, unset, t1, t2

MCElem   == {e1, e2}
MCWrites ==
  { <<>>, <<e1>>, <<e2>>, <<e1, e2>>, <<e2, e1>>, <<e1, e2, e2>>, <<e2, e1, e1>>,
    <<e1, e2, e1, e2>> }
MCCounts == 0..4

(* A store with buffers of two networks, of two nodes and of four          *)
(* appenders.  Thread t1 builds networks of two nodes with three and two   *)
(* appenders, so that the buffers of what is freed overflow and a refill   *)
(* can find one appender; t2 shares a node of another network.             *)
Sizes(bnet, node, appender) == [bnet |-> bnet, node |-> node, appender |-> appender]
NodeWith(count) == <<"node">> \o [i \in 1..count |-> "appender"]
MCThreads == {t1, t2}
MCTaken   == Sizes(2, 2, 4)
MCInitial == Sizes(2, 2, 0)
MCPlans   == [t \in MCThreads |-> IF t = t1 THEN {NodeWith(3) \o NodeWith(2)} ELSE {<<"share">>}]

(* The local zone is ten hours east of Greenwich, eleven from the 25th of  *)
(* September 2004 until the 26th of March 2005.  The clock shows 1970, a   *)
(* leap day and both changes.                                              *)
OfPairs(pairs) == {[sec |-> p[1], usec |-> p[2]] : p \in pairs}
MCSummers  == {<<1096128000, 1111852800>>}
MCInstants == OfPairs({<<0, 0>>, <<951825600, 7000>>, <<1096127999, 999999>>, <<1096128000, 1>>,
                       <<1111852800, 0>>})
MCStarts   == OfPairs({<<0, 0>>, <<1, 500000>>, <<-2, 500000>>, <<200000, 1>>, <<951782399, 999999>>,
                       <<1104537600, 1000>>, <<1096128000, 20>>, <<8640000, 0>>, <<-36000, 0>>,
                       <<34130, 123456>>, <<-1, 890000>>})
MCSpans    == OfPairs({<<1, 500000>>, <<-2, 500000>>, <<200000, 1>>, <<8640000, 0>>, <<34130, 123456>>})
MCDeltas   == {-1, 1, 59, 31}
MCOffsets  == {-300, 0, 630}

VARIABLE used  \* "buffer", "time" or "store"

NoTime == /\ time = MIN_TIME /\ now = MIN_TIME /\ calls = MAX_CALLS
          /\ text = NoText /\ answer = NoAnswer

MCInit == /\ used \in {"buffer", "time", "store"}
          /\ Init /\ StoreInit
          /\ IF used = "time" THEN TimeInit ELSE NoTime
BufferNext == used = "buffer" /\ Next /\ UNCHANGED <<used, timeVars, svars>>
Session    == used = "time" /\ TimeNext /\ UNCHANGED <<used, vars, svars>>
Recycling  == used = "store" /\ StoreNext /\ UNCHANGED <<used, vars, timeVars>>
MCNext == BufferNext \/ Session \/ Recycling
MCSpec == MCInit /\ [][MCNext]_<<used, vars, timeVars, svars>>
=============================================================================
