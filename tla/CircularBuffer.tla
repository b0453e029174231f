---------------------------- MODULE CircularBuffer ----------------------------
(***************************************************************************)
(* Class template CircularBuffer<T> (src/code/CircularBuffer.hpp) as it is *)
(* programmed: an array of CAPACITY = MAX_SIZE + 1 cells, the index of the *)
(* oldest element, the index of the next free cell, and a count, all       *)
(* uint32.  The index arithmetic, the two-part copies around the end of    *)
(* the array and the early returns are those of the code.                  *)
(*                                                                         *)
(* Memory.  new T[] leaves the cells unset, which is the value Garbage.    *)
(* A copy that runs past the array is undefined in C++: here a store       *)
(* outside the array makes DOMAIN m_buffer grow (TypeOK then fails) and a  *)
(* load from outside yields Garbage, so neither can go unnoticed.          *)
(***************************************************************************)
EXTENDS Integers, Sequences

CONSTANTS
  Elem,        \* the values of the element type T
  Garbage,     \* what an unset or foreign memory cell holds
  MAX_SIZE,    \* the capacity given to the constructor
  UINT32,      \* the number of values of a uint32
  Writes,      \* the sequences that callers pass to write
  Counts       \* the counts that callers pass to read, skip and peek

CAPACITY == (MAX_SIZE + 1) % UINT32

E_NOSPACE == -1
E_NODATA  == -2

(* The callers' part: a count is the size of an array that exists, so that *)
(* m_size + count and cap + 1 do not wrap around.                          *)
ASSUME BufferAssumption ==
  /\ MAX_SIZE \in Nat /\ UINT32 \in Nat
  /\ MAX_SIZE + 1 < UINT32
  /\ Garbage \notin Elem
  /\ Writes \subseteq Seq(Elem)
  /\ \A pt \in Writes : MAX_SIZE + Len(pt) < UINT32
  /\ Counts \subseteq 0..(UINT32 - 1)
  /\ \A count \in Counts : MAX_SIZE + count < UINT32

VARIABLES
  m_begin,     \* index of the oldest element
  m_end,       \* index of the next free cell
  m_size,      \* number of elements stored
  m_buffer,    \* the array: cell index -> value
  call,        \* history: the last call and its argument
  result,      \* what it returned
  copied       \* what the last read or peek copied to its caller

vars == <<m_begin, m_end, m_size, m_buffer, call, result, copied>>

Init ==
  /\ m_begin = 0
  /\ m_end = 0
  /\ m_size = 0
  /\ m_buffer = [i \in 0..(CAPACITY - 1) |-> Garbage]
  /\ call = <<>>
  /\ result = 0
  /\ copied = <<>>

-----------------------------------------------------------------------------
(* std::copy to and from the array. *)

(* The array after n elements of pt, from position from, went to cell at. *)
Stored(buffer, at, pt, from, n) ==
  [i \in DOMAIN buffer \cup at..(at + n - 1) |->
     IF i \in at..(at + n - 1) THEN pt[from + (i - at)] ELSE buffer[i]]

(* The value found at index i. *)
Cell(i) == IF i \in DOMAIN m_buffer THEN m_buffer[i] ELSE Garbage

(* The n values found from index at on. *)
Loaded(at, n) == [i \in 1..n |-> Cell(at + i - 1)]

-----------------------------------------------------------------------------
(* int32 write(const T *pt, uint32 count) *)

NewSize(count) == (m_size + count) % UINT32

WriteRefused(pt) ==
  /\ NewSize(Len(pt)) > MAX_SIZE
  /\ result' = E_NOSPACE
  /\ UNCHANGED <<m_begin, m_end, m_size, m_buffer, copied>>

(* There is room in one piece: up to m_begin, or up to the array's end. *)
WriteStraight(pt) ==
  LET count == Len(pt) IN
  /\ NewSize(count) <= MAX_SIZE
  /\ m_end < m_begin \/ count <= CAPACITY - m_end
  /\ m_buffer' = Stored(m_buffer, m_end, pt, 1, count)
  /\ m_end' = (m_end + count) % CAPACITY
  /\ m_size' = NewSize(count)
  /\ result' = count
  /\ UNCHANGED <<m_begin, copied>>

(* Defect: the second copy starts at pt instead of pt + onright. *)
WriteWrappedFromStart(pt) ==
  LET onright == CAPACITY - m_end IN
  /\ NewSize(Len(pt)) <= MAX_SIZE
  /\ ~(m_end < m_begin \/ Len(pt) <= onright)
  /\ m_buffer' = Stored(Stored(m_buffer, m_end, pt, 1, onright),
                        0, pt, 1, Len(pt) - onright)
  /\ m_end' = Len(pt) - onright
  /\ m_size' = NewSize(Len(pt))
  /\ result' = Len(pt)
  /\ UNCHANGED <<m_begin, copied>>

(* The first onright elements go to the array's end, the rest to cell 0. *)
WriteWrapped(pt) ==
  LET count   == Len(pt)
      onright == CAPACITY - m_end
  IN
  /\ NewSize(count) <= MAX_SIZE
  /\ ~(m_end < m_begin \/ count <= onright)
  /\ m_buffer' = Stored(Stored(m_buffer, m_end, pt, 1, onright),
                        0, pt, onright + 1, count - onright)
  /\ m_end' = count - onright
  /\ m_size' = NewSize(count)
  /\ result' = count
  /\ UNCHANGED <<m_begin, copied>>

Write(pt) == WriteRefused(pt) \/ WriteStraight(pt) \/ WriteWrapped(pt)

-----------------------------------------------------------------------------
(* int32 peek(T *pt, uint32 count) const *)

(* What peek copies out when count elements are stored. *)
Peeked(count) ==
  LET onright == CAPACITY - m_begin IN
  IF m_begin < m_end \/ count <= onright
  THEN Loaded(m_begin, count)
  ELSE Loaded(m_begin, onright) \o Loaded(0, count - onright)

NoData(count) ==
  /\ count > m_size
  /\ result' = E_NODATA
  /\ UNCHANGED <<m_begin, m_end, m_size, m_buffer, copied>>

Peek(count) ==
  \/ NoData(count)
  \/ /\ count <= m_size
     /\ copied' = Peeked(count)
     /\ result' = count
     /\ UNCHANGED <<m_begin, m_end, m_size, m_buffer>>

(* int32 skip(uint32 count): the indices, the count and the return value. *)
SkipAll(count) ==
  /\ m_size <= count
  /\ m_begin' = 0
  /\ m_end' = 0
  /\ m_size' = 0
  /\ result' = m_size

SkipSome(count) ==
  /\ m_size > count
  /\ m_begin' = (m_begin + count) % CAPACITY
  /\ m_size' = m_size - count
  /\ result' = count
  /\ UNCHANGED m_end

SkipCount(count) == SkipAll(count) \/ SkipSome(count)

Skip(count) == SkipCount(count) /\ UNCHANGED <<m_buffer, copied>>

(* int32 read(T *pt, uint32 count): a peek, and the skip if it succeeded. *)
Read(count) ==
  \/ NoData(count)
  \/ /\ count <= m_size
     /\ copied' = Peeked(count)
     /\ SkipCount(count)
     /\ UNCHANGED m_buffer

(* Which call it was, so that what a caller gets depends on what it asked. *)
Call(operation, argument) == call' = <<operation, argument>>

Next ==
  \/ \E pt \in Writes : Write(pt) /\ Call("write", pt)
  \/ \E count \in Counts :
       \/ Read(count) /\ Call("read", count)
       \/ Skip(count) /\ Call("skip", count)
       \/ Peek(count) /\ Call("peek", count)

Spec == Init /\ [][Next]_vars

-----------------------------------------------------------------------------
(* Types.  No index leaves the array, no copy of write ran past it, and    *)
(* everything handed to a reader was an element and never an unset cell.   *)
TypeOK ==
  /\ m_begin \in 0..MAX_SIZE
  /\ m_end \in 0..MAX_SIZE
  /\ m_size \in 0..MAX_SIZE
  /\ m_buffer \in [0..MAX_SIZE -> Elem \cup {Garbage}]
  /\ result \in Int
  /\ copied \in Seq(Elem)

(* The three numbers agree: walking m_size cells from m_begin, around the  *)
(* end of the array, leads to m_end.  The code keeps them separately and   *)
(* chooses between its copies by comparing m_begin with m_end only.        *)
IndicesAgree == m_end = (m_begin + m_size) % CAPACITY

(* The index of the i-th stored element, and the elements, oldest first. *)
Slot(i) == (m_begin + i - 1) % CAPACITY

Contents == [i \in 1..m_size |-> m_buffer[Slot(i)]]

(* The circular buffer implements the bounded first-in first-out store:    *)
(* every call stores, returns and forgets what the store does, whichever   *)
(* way the elements lie around the end of the array.                       *)
Fifo == INSTANCE BoundedFifo WITH queue <- Contents

ImplementsFifo == Fifo!Spec
=============================================================================
