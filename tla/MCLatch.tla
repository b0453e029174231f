------------------------------- MODULE MCLatch --------------------------------
(***************************************************************************)
(* Two threads at the latch and two that open, close and reset it.  A time *)
(* of day is a small number here, yet later than the longest timeout.      *)
(***************************************************************************)
EXTENDS Latch

CONSTANTS w1, w2, o1, o2

MCWaiters  == {w1, w2}
MCOpeners  == {o1, o2}
MCTimeouts == {WAIT_FOREVER, NO_WAIT, 2}
=============================================================================
