----------------------------- MODULE BoundedFifo -----------------------------
(***************************************************************************)
(* What class CircularBuffer promises its callers (the comments of         *)
(* CircularBuffer.hpp): a first-in first-out store of at most MAX_SIZE      *)
(* elements.  A write stores all of its elements or none; a read or a peek *)
(* returns exactly the elements asked for or none; a skip forgets as many  *)
(* elements as there are, up to the number asked for.  No index, no        *)
(* wrap-around and no memory cell is visible here: CircularBuffer is shown *)
(* to implement this module.                                               *)
(***************************************************************************)
EXTENDS Integers, Sequences

CONSTANTS
  Elem,        \* the values of the element type T
  MAX_SIZE,    \* the capacity given to the constructor
  Writes,      \* the sequences that callers pass to write
  Counts       \* the counts that callers pass to read, skip and peek

E_NOSPACE == -1
E_NODATA  == -2

VARIABLES
  queue,       \* the stored elements, oldest first
  call,        \* the last call and its argument
  result,      \* what it returned
  copied       \* what the last read or peek copied to its caller

fifoVars == <<queue, call, result, copied>>

Init ==
  /\ queue = <<>>
  /\ call = <<>>
  /\ result = 0
  /\ copied = <<>>

Fits(pt) == Len(queue) + Len(pt) <= MAX_SIZE

Write(pt) ==
  \/ /\ Fits(pt)
     /\ queue' = queue \o pt
     /\ result' = Len(pt)
     /\ UNCHANGED copied
  \/ /\ ~Fits(pt)
     /\ result' = E_NOSPACE
     /\ UNCHANGED <<queue, copied>>

(* The first count elements, and what is left when they are gone. *)
Front(count) == [i \in 1..count |-> queue[i]]
Rest(count)  == [i \in 1..(Len(queue) - count) |-> queue[i + count]]

Refuse(count) ==
  /\ count > Len(queue)
  /\ result' = E_NODATA
  /\ UNCHANGED <<queue, copied>>

Peek(count) ==
  \/ Refuse(count)
  \/ /\ count <= Len(queue)
     /\ copied' = Front(count)
     /\ result' = count
     /\ UNCHANGED queue

Read(count) ==
  \/ Refuse(count)
  \/ /\ count <= Len(queue)
     /\ copied' = Front(count)
     /\ queue' = Rest(count)
     /\ result' = count

Skip(count) ==
  /\ UNCHANGED copied
  /\ \/ /\ count <= Len(queue)
        /\ queue' = Rest(count)
        /\ result' = count
     \/ /\ count > Len(queue)
        /\ queue' = <<>>
        /\ result' = Len(queue)

(* Which call it was, so that what a caller gets depends on what it asked. *)
Call(operation, argument) == call' = <<operation, argument>>

Next ==
  \/ \E pt \in Writes : Write(pt) /\ Call("write", pt)
  \/ \E count \in Counts :
       \/ Read(count) /\ Call("read", count)
       \/ Skip(count) /\ Call("skip", count)
       \/ Peek(count) /\ Call("peek", count)

Spec == Init /\ [][Next]_fifoVars
=============================================================================
