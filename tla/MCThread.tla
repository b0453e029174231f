------------------------------- MODULE MCThread -------------------------------
(***************************************************************************)
(* The owner and two more threads that call stop(), over two runs, so that *)
(* a stop() can span a join and a restart.                                 *)
(***************************************************************************)
EXTENDS Thread

CONSTANTS s1, s2

MCStoppers == {s1, s2}
=============================================================================
