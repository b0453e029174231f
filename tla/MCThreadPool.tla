----------------------------- MODULE MCThreadPool -----------------------------
(***************************************************************************)
(* Two clients, up to two workers and two items: a worker can be in any    *)
(* place of its life while another is joined, an item can be run before it *)
(* is counted, and the queue can be disabled and enabled at any time.      *)
(***************************************************************************)
EXTENDS ThreadPool

CONSTANTS c1, c2

MCClients == {c1, c2}
=============================================================================
