---------------------------------- MODULE Fifo ----------------------------------
(***************************************************************************)
(* What the queues of this repository promise to one who puts and one who  *)
(* takes: what was put first is taken first, once.  Items are numbered in  *)
(* the order they are put.                                                 *)
(***************************************************************************)
EXTENDS Naturals, Sequences

CONSTANT Puts   \* bound: how many items are put
VARIABLES items, number

Init == items = <<>> /\ number = 0

Put  == /\ number < Puts
        /\ number' = number + 1
        /\ items' = Append(items, number + 1)
Take == /\ items # <<>>
        /\ items' = Tail(items)
        /\ UNCHANGED number

Next == Put \/ Take
Spec == Init /\ [][Next]_<<items, number>>
=============================================================================
