------------------------------ MODULE Values_proofs ------------------------------
(***************************************************************************)
(* The values that other classes keep.                                     *)
(*                                                                         *)
(* CircularBuffer.  For every element type, capacity, width of a uint32    *)
(* and set of calls: the indices always agree, no copy leaves the array,   *)
(* and every operation does what the bounded first-in first-out store      *)
(* does.  TypeOK and IndicesAgree are made inductive by one more fact: the *)
(* slots of the stored elements hold elements, so that what a peek loads   *)
(* is never an unset cell.                                                 *)
(*                                                                         *)
(* Time.  For every clock, zone and set of calls: the arithmetic agrees    *)
(* with itself and with the calendar, and what is written is read back.    *)
(* The lemmas say what each operation computes: Plus and Minus, the        *)
(* calendar from 1970 to 2037, Round, Add and Diff, and a scan of each     *)
(* kind of format.                                                         *)
(***************************************************************************)
EXTENDS CircularBuffer, TimeSession, SequenceTheorems, TLAPS

(* Division by c of a number below 2c, which is all the code ever divides. *)
LEMMA ModBelowTwice ==
  ASSUME NEW c \in Nat, c > 0, NEW x \in Nat, x < 2 * c
  PROVE  x % c = IF x < c THEN x ELSE x - c
<1>1. CASE x < c
  BY <1>1, SMT
<1>2. CASE x >= c
  BY <1>2, SMT
<1> QED
  BY <1>1, <1>2

LEMMA CapacityValue == MAX_SIZE \in Nat /\ CAPACITY = MAX_SIZE + 1
<1>1. MAX_SIZE + 1 < UINT32 /\ MAX_SIZE \in Nat /\ UINT32 \in Nat
  BY BufferAssumption
<1> QED
  BY <1>1, ModBelowTwice DEF CAPACITY

(* The slot that lies n cells after index i, around the end of the array.  *)
LEMMA Around ==
  ASSUME NEW i \in 0..MAX_SIZE, NEW n \in 0..(MAX_SIZE + 1)
  PROVE  (i + n) % CAPACITY = IF i + n <= MAX_SIZE THEN i + n ELSE i + n - (MAX_SIZE + 1)
<1>1. /\ i + n \in Nat /\ MAX_SIZE + 1 \in Nat /\ MAX_SIZE + 1 > 0
      /\ i + n < 2 * (MAX_SIZE + 1)
  BY CapacityValue
<1> QED
  BY <1>1, ModBelowTwice, CapacityValue

(* A call whose elements fit does not wrap the count around. *)
LEMMA CountFits ==
  ASSUME NEW pt \in Writes, m_size \in 0..MAX_SIZE
  PROVE  /\ pt \in Seq(Elem) /\ Len(pt) \in Nat
         /\ NewSize(Len(pt)) = m_size + Len(pt)
<1>1. pt \in Seq(Elem) /\ Len(pt) \in Nat
  BY BufferAssumption
<1>2. /\ MAX_SIZE + Len(pt) < UINT32 /\ MAX_SIZE \in Nat /\ UINT32 \in Nat
  BY BufferAssumption
<1>3. m_size + Len(pt) \in Nat /\ m_size + Len(pt) < UINT32
  BY <1>1, <1>2
<1> QED
  BY <1>1, <1>2, <1>3, ModBelowTwice DEF NewSize

-----------------------------------------------------------------------------
(* The inductive invariant. *)

SlotsHoldElements == \A i \in 1..m_size : m_buffer[Slot(i)] \in Elem

IInv == TypeOK /\ IndicesAgree /\ SlotsHoldElements

LEMMA InitIInv == Init => IInv
<1> SUFFICES ASSUME Init PROVE IInv
  OBVIOUS
<1>1. TypeOK
  BY CapacityValue DEF Init, TypeOK
<1>2. IndicesAgree
  BY Around, CapacityValue DEF Init, IndicesAgree
<1>3. SlotsHoldElements
  BY DEF Init, SlotsHoldElements
<1> QED
  BY <1>1, <1>2, <1>3 DEF IInv

(* Where the slots of the stored elements lie. *)
LEMMA SlotValue ==
  ASSUME TypeOK, NEW i \in 1..(MAX_SIZE + 1)
  PROVE  Slot(i) = IF m_begin + i - 1 <= MAX_SIZE THEN m_begin + i - 1
                                                 ELSE m_begin + i - 1 - (MAX_SIZE + 1)
<1>1. MAX_SIZE \in Nat /\ m_begin \in 0..MAX_SIZE /\ i - 1 \in 0..(MAX_SIZE + 1)
  BY CapacityValue DEF TypeOK
<1>2. (m_begin + (i - 1)) % CAPACITY
        = IF m_begin + (i - 1) <= MAX_SIZE THEN m_begin + (i - 1)
          ELSE m_begin + (i - 1) - (MAX_SIZE + 1)
  BY <1>1, Around
<1>3. m_begin + (i - 1) = m_begin + i - 1
  BY <1>1
<1> QED
  BY <1>2, <1>3 DEF Slot

-----------------------------------------------------------------------------
(* write *)

(* A copy of n elements to cell at that ends inside the array: the array   *)
(* keeps its shape.                                                         *)
LEMMA StoredType ==
  ASSUME NEW V, NEW buffer \in [0..MAX_SIZE -> V], NEW at \in Nat, NEW n \in Nat,
         at + n <= MAX_SIZE + 1,
         NEW pt, NEW from \in Nat,
         \A j \in from..(from + n - 1) : pt[j] \in V
  PROVE  Stored(buffer, at, pt, from, n) \in [0..MAX_SIZE -> V]
<1>1. DOMAIN buffer \cup at..(at + n - 1) = 0..MAX_SIZE
  BY CapacityValue
<1>2. ASSUME NEW i \in at..(at + n - 1)
      PROVE  from + (i - at) \in from..(from + n - 1)
  BY CapacityValue
<1> QED
  BY <1>1, <1>2 DEF Stored

WriteFacts(pt) ==
  /\ m_size + Len(pt) <= MAX_SIZE
  /\ m_size' = m_size + Len(pt)
  /\ m_end' \in 0..MAX_SIZE
  /\ m_end' = (m_begin + m_size + Len(pt)) % CAPACITY
  /\ m_buffer' \in [0..MAX_SIZE -> Elem \cup {Garbage}]
  /\ \A i \in 1..(m_size + Len(pt)) :
       m_buffer'[Slot(i)] = IF i <= m_size THEN m_buffer[Slot(i)] ELSE pt[i - m_size]

LEMMA WriteStraightFacts ==
  ASSUME IInv, NEW pt \in Writes, WriteStraight(pt)
  PROVE  WriteFacts(pt)
<1> DEFINE n == Len(pt)
<1>1. /\ pt \in Seq(Elem) /\ n \in Nat /\ NewSize(n) = m_size + n
      /\ \A j \in 1..n : pt[j] \in Elem
  BY CountFits DEF IInv, TypeOK
<1>2. /\ MAX_SIZE \in Nat /\ CAPACITY = MAX_SIZE + 1
      /\ m_begin \in 0..MAX_SIZE /\ m_end \in 0..MAX_SIZE /\ m_size \in 0..MAX_SIZE
      /\ m_buffer \in [0..MAX_SIZE -> Elem \cup {Garbage}]
  BY CapacityValue DEF IInv, TypeOK
<1>3. m_size + n <= MAX_SIZE /\ m_size' = m_size + n
  BY <1>1 DEF WriteStraight
<1>4. m_end = IF m_begin + m_size <= MAX_SIZE THEN m_begin + m_size
              ELSE m_begin + m_size - (MAX_SIZE + 1)
  BY <1>2, Around DEF IInv, IndicesAgree
<1>5. m_end + n <= MAX_SIZE + 1
  BY <1>1, <1>2, <1>3, <1>4 DEF WriteStraight
<1>6. /\ m_buffer' \in [0..MAX_SIZE -> Elem \cup {Garbage}]
      /\ \A i \in 0..MAX_SIZE :
           m_buffer'[i] = IF i \in m_end..(m_end + n - 1) THEN pt[1 + (i - m_end)]
                          ELSE m_buffer[i]
  <2>1. m_buffer' = Stored(m_buffer, m_end, pt, 1, n)
    BY DEF WriteStraight
  <2>2. \A j \in 1..(1 + n - 1) : pt[j] \in Elem \cup {Garbage}
    BY <1>1
  <2>3. m_end \in Nat
    BY <1>2
  <2> QED
    <3>1. m_buffer' \in [0..MAX_SIZE -> Elem \cup {Garbage}]
      BY <2>1, <2>2, <2>3, <1>1, <1>2, <1>5, StoredType
    <3> QED
      BY <3>1, <2>1, <2>3, <1>2 DEF Stored
<1>7. m_end' \in 0..MAX_SIZE /\ m_end' = (m_begin + m_size + n) % CAPACITY
  <2>1. n \in 0..(MAX_SIZE + 1) /\ m_size + n \in 0..(MAX_SIZE + 1)
    BY <1>1, <1>2, <1>3
  <2>2. (m_end + n) % CAPACITY
          = IF m_end + n <= MAX_SIZE THEN m_end + n ELSE m_end + n - (MAX_SIZE + 1)
    BY <2>1, <1>2, Around
  <2>3. (m_begin + (m_size + n)) % CAPACITY
          = IF m_begin + (m_size + n) <= MAX_SIZE THEN m_begin + (m_size + n)
            ELSE m_begin + (m_size + n) - (MAX_SIZE + 1)
    BY <2>1, <1>2, Around
  <2>4. m_begin + (m_size + n) = m_begin + m_size + n
    BY <1>1, <1>2
  <2>5. m_end' = (m_end + n) % CAPACITY
    BY DEF WriteStraight
  <2>6. CASE m_begin + m_size <= MAX_SIZE
    BY <2>2, <2>3, <2>4, <2>5, <2>6, <1>1, <1>2, <1>3, <1>4, <1>5
  <2>7. CASE m_begin + m_size > MAX_SIZE
    BY <2>2, <2>3, <2>4, <2>5, <2>7, <1>1, <1>2, <1>3, <1>4, <1>5
  <2> QED
    BY <2>6, <2>7, <1>2
<1>8. ASSUME NEW i \in 1..(m_size + n)
      PROVE  m_buffer'[Slot(i)] = IF i <= m_size THEN m_buffer[Slot(i)] ELSE pt[i - m_size]
  <2>1. Slot(i) = IF m_begin + i - 1 <= MAX_SIZE THEN m_begin + i - 1
                  ELSE m_begin + i - 1 - (MAX_SIZE + 1)
    BY <1>1, <1>2, <1>3, SlotValue DEF IInv
  <2>2. Slot(i) \in 0..MAX_SIZE
    BY <2>1, <1>1, <1>2, <1>3
  <2>3. CASE i <= m_size
    <3>1. Slot(i) \notin m_end..(m_end + n - 1)
      BY <2>1, <2>3, <1>1, <1>2, <1>3, <1>4, <1>5 DEF WriteStraight
    <3> QED
      BY <3>1, <2>2, <2>3, <1>6
  <2>4. CASE i > m_size
    <3>1. Slot(i) = m_end + (i - m_size - 1)
      BY <2>1, <2>4, <1>1, <1>2, <1>3, <1>4, <1>5
    <3>2. Slot(i) \in m_end..(m_end + n - 1) /\ 1 + (Slot(i) - m_end) = i - m_size
      BY <3>1, <2>4, <1>1, <1>2, <1>3
    <3> QED
      BY <3>2, <2>2, <2>4, <1>6, <1>2
  <2> QED
    BY <2>3, <2>4, <1>1, <1>2
<1> QED
  BY <1>3, <1>6, <1>7, <1>8 DEF WriteFacts

LEMMA WriteWrappedFacts ==
  ASSUME IInv, NEW pt \in Writes, WriteWrapped(pt)
  PROVE  WriteFacts(pt)
<1> DEFINE n == Len(pt)
           right == CAPACITY - m_end
           left == n - right
           from == right + 1
           once == Stored(m_buffer, m_end, pt, 1, right)
<1>1. /\ pt \in Seq(Elem) /\ n \in Nat /\ NewSize(n) = m_size + n
      /\ \A j \in 1..n : pt[j] \in Elem
  BY CountFits DEF IInv, TypeOK
<1>2. /\ MAX_SIZE \in Nat /\ CAPACITY = MAX_SIZE + 1
      /\ m_begin \in 0..MAX_SIZE /\ m_end \in 0..MAX_SIZE /\ m_size \in 0..MAX_SIZE
      /\ m_buffer \in [0..MAX_SIZE -> Elem \cup {Garbage}]
  BY CapacityValue DEF IInv, TypeOK
<1>3. /\ m_size + n <= MAX_SIZE /\ m_size' = m_size + n
      /\ m_begin <= m_end /\ right < n /\ m_end' = n - right
  BY <1>1, <1>2 DEF WriteWrapped
<1>4. m_end = m_begin + m_size
  <2>1. m_end = IF m_begin + m_size <= MAX_SIZE THEN m_begin + m_size
                ELSE m_begin + m_size - (MAX_SIZE + 1)
    BY <1>2, Around DEF IInv, IndicesAgree
  <2> QED
    BY <2>1, <1>2, <1>3
<1>5. /\ right = MAX_SIZE + 1 - m_end /\ right \in Nat /\ right >= 1
      /\ n - right \in Nat /\ n - right <= m_begin
  BY <1>1, <1>2, <1>3, <1>4
<1> HIDE DEF n, right, left, from, once
<1>6. /\ once \in [0..MAX_SIZE -> Elem \cup {Garbage}]
      /\ \A i \in 0..MAX_SIZE :
           once[i] = IF i \in m_end..(m_end + right - 1) THEN pt[1 + (i - m_end)]
                     ELSE m_buffer[i]
  <2>1. ASSUME NEW j \in 1..(1 + right - 1)
        PROVE  pt[j] \in Elem \cup {Garbage}
    BY <1>1, <1>3, <1>5
  <2>2. m_end \in Nat /\ m_end + right <= MAX_SIZE + 1 /\ right \in Nat /\ 1 \in Nat
    BY <1>2, <1>5
  <2>3. once = Stored(m_buffer, m_end, pt, 1, right)
    BY DEF once
  <2>4. m_buffer \in [0..MAX_SIZE -> Elem \cup {Garbage}]
    BY <1>2
  <2> QED
    <3>1. once \in [0..MAX_SIZE -> Elem \cup {Garbage}]
      BY <2>1, <2>2, <2>3, <2>4, StoredType
    <3> QED
      BY <3>1, <2>2, <2>3, <2>4 DEF Stored
<1>7. /\ m_buffer' \in [0..MAX_SIZE -> Elem \cup {Garbage}]
      /\ \A i \in 0..MAX_SIZE :
           m_buffer'[i] = IF i \in 0..(0 + left - 1) THEN pt[from + (i - 0)]
                          ELSE once[i]
  <2>1. m_buffer' = Stored(once, 0, pt, from, left)
    BY DEF WriteWrapped, n, right, once, left, from
  <2>2. ASSUME NEW j \in from..(from + left - 1)
        PROVE  pt[j] \in Elem \cup {Garbage}
    <3>1. j \in 1..n
      BY <1>1, <1>3, <1>5 DEF left, from
    <3> QED
      BY <3>1, <1>1
  <2>3. 0 \in Nat /\ from \in Nat /\ left \in Nat /\ 0 + left <= MAX_SIZE + 1
    BY <1>2, <1>5 DEF left, from
  <2> QED
    <3>1. m_buffer' \in [0..MAX_SIZE -> Elem \cup {Garbage}]
      BY <2>1, <2>2, <2>3, <1>6, StoredType
    <3> QED
      BY <3>1, <2>1, <2>3, <1>6 DEF Stored
<1>8. m_end' \in 0..MAX_SIZE /\ m_end' = (m_begin + m_size + n) % CAPACITY
  <2>1. m_size + n \in 0..(MAX_SIZE + 1)
    BY <1>1, <1>2, <1>3
  <2>2. (m_begin + (m_size + n)) % CAPACITY
          = IF m_begin + (m_size + n) <= MAX_SIZE THEN m_begin + (m_size + n)
            ELSE m_begin + (m_size + n) - (MAX_SIZE + 1)
    BY <2>1, <1>2, Around
  <2>3. m_begin + (m_size + n) = m_begin + m_size + n
    BY <1>1, <1>2
  <2> QED
    BY <2>2, <2>3, <1>1, <1>2, <1>3, <1>4, <1>5
<1>9. ASSUME NEW i \in 1..(m_size + n)
      PROVE  m_buffer'[Slot(i)] = IF i <= m_size THEN m_buffer[Slot(i)] ELSE pt[i - m_size]
  <2>1. Slot(i) = IF m_begin + i - 1 <= MAX_SIZE THEN m_begin + i - 1
                  ELSE m_begin + i - 1 - (MAX_SIZE + 1)
    BY <1>1, <1>2, <1>3, SlotValue DEF IInv
  <2>2. Slot(i) \in 0..MAX_SIZE /\ i \in Int
    BY <2>1, <1>1, <1>2, <1>3
  <2>3. CASE i <= m_size
    <3>1. /\ Slot(i) \notin m_end..(m_end + right - 1)
          /\ Slot(i) \notin 0..(0 + left - 1)
      BY <2>1, <2>3, <1>1, <1>2, <1>3, <1>4, <1>5 DEF left, from
    <3> QED
      BY <3>1, <2>2, <2>3, <1>6, <1>7
  <2>4. CASE i > m_size /\ i - m_size <= right
    <3>1. /\ Slot(i) \in m_end..(m_end + right - 1)
          /\ Slot(i) \notin 0..(0 + left - 1)
          /\ 1 + (Slot(i) - m_end) = i - m_size
      BY <2>1, <2>4, <1>1, <1>2, <1>3, <1>4, <1>5 DEF left, from
    <3> QED
      BY <3>1, <2>2, <2>4, <1>6, <1>7, <1>2
  <2>5. CASE i - m_size > right
    <3>1. /\ Slot(i) \in 0..(0 + left - 1)
          /\ from + (Slot(i) - 0) = i - m_size
          /\ i > m_size
      BY <2>1, <2>5, <1>1, <1>2, <1>3, <1>4, <1>5 DEF left, from
    <3> QED
      BY <3>1, <2>2, <1>7, <1>2
  <2> QED
    BY <2>2, <2>3, <2>4, <2>5, <1>2, <1>5
<1> QED
  BY <1>3, <1>7, <1>8, <1>9 DEF WriteFacts, n

-----------------------------------------------------------------------------
(* Sequences as functions on 1..n. *)

LEMMA FunctionIsSeq ==
  ASSUME NEW S, NEW n \in Nat, NEW f \in [1..n -> S]
  PROVE  f \in Seq(S) /\ Len(f) = n /\ DOMAIN f = 1..n
OBVIOUS

LEMMA ConcatIs ==
  ASSUME NEW S, NEW s \in Seq(S), NEW t \in Seq(S), NEW f \in Seq(S),
         Len(f) = Len(s) + Len(t),
         \A i \in 1..Len(s) : f[i] = s[i],
         \A i \in 1..Len(t) : f[i + Len(s)] = t[i]
  PROVE  f = s \o t
<1>1. /\ s \o t \in Seq(S) /\ Len(s \o t) = Len(s) + Len(t)
      /\ \A i \in 1..(Len(s) + Len(t)) :
            (s \o t)[i] = IF i <= Len(s) THEN s[i] ELSE t[i - Len(s)]
  BY ConcatProperties
<1>2. ASSUME NEW i \in 1..Len(f)
      PROVE  f[i] = (s \o t)[i]
  <2>1. CASE i <= Len(s)
    BY <1>1, <2>1
  <2>2. CASE i > Len(s)
    <3>1. i - Len(s) \in 1..Len(t) /\ (i - Len(s)) + Len(s) = i
      BY <2>2
    <3>2. f[i] = t[i - Len(s)]
      BY <3>1
    <3> QED
      BY <3>2, <2>2, <1>1
  <2> QED
    BY <2>1, <2>2
<1> QED
  BY <1>1, <1>2, SeqEqual

(* The elements stored, as a sequence. *)
LEMMA ContentsSeq ==
  ASSUME IInv
  PROVE  /\ Contents \in Seq(Elem)
         /\ Len(Contents) = m_size /\ m_size \in Nat
         /\ DOMAIN Contents = 1..m_size
         /\ \A i \in 1..m_size : Contents[i] = m_buffer[Slot(i)] /\ Contents[i] \in Elem
<1>1. m_size \in Nat
  BY CapacityValue DEF IInv, TypeOK
<1>2. \A i \in 1..m_size : m_buffer[Slot(i)] \in Elem
  BY DEF IInv, SlotsHoldElements
<1> QED
  BY <1>1, <1>2 DEF Contents

LEMMA WriteStep ==
  ASSUME IInv, NEW pt \in Writes, WriteFacts(pt),
         m_begin' = m_begin, copied' = copied, result' = Len(pt)
  PROVE  /\ IInv'
         /\ Contents' = Contents \o pt
<1>1. pt \in Seq(Elem) /\ Len(pt) \in Nat /\ \A j \in 1..Len(pt) : pt[j] \in Elem
  BY CountFits DEF IInv, TypeOK
<1>2. m_size \in Nat /\ MAX_SIZE \in Nat
  BY CapacityValue DEF IInv, TypeOK
<1>3. \A i : Slot(i)' = Slot(i)
  BY DEF Slot
<1>4. TypeOK'
  BY <1>1, <1>2 DEF WriteFacts, IInv, TypeOK
<1>5. IndicesAgree'
  <2>1. m_begin + (m_size + Len(pt)) = m_begin + m_size + Len(pt)
    BY <1>1, <1>2 DEF IInv, TypeOK
  <2> QED
    BY <2>1 DEF WriteFacts, IndicesAgree
<1>6. ASSUME NEW i \in 1..(m_size + Len(pt))
      PROVE  /\ m_buffer'[Slot(i)] = IF i <= m_size THEN m_buffer[Slot(i)] ELSE pt[i - m_size]
             /\ m_buffer'[Slot(i)] \in Elem
  <2>1. m_buffer'[Slot(i)] = IF i <= m_size THEN m_buffer[Slot(i)] ELSE pt[i - m_size]
    BY DEF WriteFacts
  <2>2. CASE i <= m_size
    BY <2>1, <2>2, <1>2 DEF IInv, SlotsHoldElements
  <2>3. CASE i > m_size
    <3>1. i - m_size \in 1..Len(pt)
      BY <2>3, <1>1, <1>2
    <3> QED
      BY <2>1, <2>3, <3>1, <1>1, <1>2
  <2> QED
    BY <2>1, <2>2, <2>3, <1>2
<1>7. m_size' = m_size + Len(pt)
  BY DEF WriteFacts
<1>8. SlotsHoldElements'
  BY <1>3, <1>6, <1>7 DEF SlotsHoldElements
<1>9. IInv'
  BY <1>4, <1>5, <1>8 DEF IInv
<1>10. Contents' = Contents \o pt
  <2>1. /\ Contents' = [i \in 1..(m_size + Len(pt)) |-> m_buffer'[Slot(i)]]
        /\ m_size + Len(pt) \in Nat
    BY <1>1, <1>2, <1>3, <1>7 DEF Contents
  <2>2. Contents' \in Seq(Elem) /\ Len(Contents') = m_size + Len(pt)
    <3>1. Contents' \in [1..(m_size + Len(pt)) -> Elem]
      BY <2>1, <1>6
    <3> QED
      BY <2>1, <3>1, FunctionIsSeq
  <2>3. /\ Contents \in Seq(Elem) /\ Len(Contents) = m_size
        /\ \A i \in 1..m_size : Contents[i] = m_buffer[Slot(i)]
    BY ContentsSeq
  <2>4. \A i \in 1..m_size : Contents'[i] = Contents[i]
    BY <2>1, <2>3, <1>1, <1>2, <1>6
  <2>5. ASSUME NEW i \in 1..Len(pt)
        PROVE  Contents'[i + m_size] = pt[i]
    <3>1. i + m_size \in 1..(m_size + Len(pt)) /\ i + m_size > m_size
          /\ (i + m_size) - m_size = i
      BY <1>1, <1>2
    <3> QED
      BY <3>1, <2>1, <1>2, <1>6
  <2> QED
    BY <2>2, <2>3, <2>4, <2>5, <1>1, ConcatIs
<1> QED
  BY <1>9, <1>10

-----------------------------------------------------------------------------
(* peek and skip *)

LEMMA PeekedValue ==
  ASSUME IInv, NEW count \in Nat, count <= m_size
  PROVE  /\ Peeked(count) = [i \in 1..count |-> Contents[i]]
         /\ Peeked(count) \in Seq(Elem)
<1> DEFINE right == CAPACITY - m_begin
<1>1. /\ MAX_SIZE \in Nat /\ CAPACITY = MAX_SIZE + 1
      /\ m_begin \in 0..MAX_SIZE /\ m_end \in 0..MAX_SIZE /\ m_size \in 0..MAX_SIZE
      /\ DOMAIN m_buffer = 0..MAX_SIZE
  BY CapacityValue DEF IInv, TypeOK
<1>2. m_end = IF m_begin + m_size <= MAX_SIZE THEN m_begin + m_size
              ELSE m_begin + m_size - (MAX_SIZE + 1)
  BY <1>1, Around DEF IInv, IndicesAgree
<1>3. \A i \in 1..count :
        /\ Contents[i] = m_buffer[Slot(i)] /\ Contents[i] \in Elem
        /\ Slot(i) = IF m_begin + i - 1 <= MAX_SIZE THEN m_begin + i - 1
                     ELSE m_begin + i - 1 - (MAX_SIZE + 1)
  BY <1>1, ContentsSeq, SlotValue DEF IInv
<1>4. CASE m_begin < m_end \/ count <= right
  <2>1. m_begin + count <= MAX_SIZE + 1
    BY <1>1, <1>2, <1>4
  <2>2. ASSUME NEW i \in 1..count
        PROVE  Cell(m_begin + i - 1) = Contents[i]
    <3>1. Slot(i) = m_begin + i - 1 /\ Slot(i) \in 0..MAX_SIZE
      BY <2>1, <1>1, <1>3
    <3> QED
      BY <3>1, <1>1, <1>3 DEF Cell
  <2>3. Peeked(count) = [i \in 1..count |-> Cell(m_begin + i - 1)]
    BY <1>4 DEF Peeked, Loaded
  <2>4. Peeked(count) = [i \in 1..count |-> Contents[i]]
    BY <2>2, <2>3
  <2>5. Peeked(count) \in [1..count -> Elem]
    BY <2>4, <1>3
  <2> QED
    BY <2>4, <2>5, FunctionIsSeq
<1>5. CASE ~(m_begin < m_end \/ count <= right)
  <2> DEFINE left == count - right
             first == Loaded(m_begin, right)
             second == Loaded(0, left)
  <2>1. /\ right \in Nat /\ left \in Nat /\ right = MAX_SIZE + 1 - m_begin
        /\ right + left = count
    BY <1>1, <1>5
  <2>2. Peeked(count) = first \o second
    BY <1>5 DEF Peeked
  <2> HIDE DEF right, left
  <2>3. ASSUME NEW i \in 1..right
        PROVE  Cell(m_begin + i - 1) = Contents[i] /\ Contents[i] \in Elem
    <3>1. i \in 1..count /\ Slot(i) = m_begin + i - 1 /\ m_begin + i - 1 \in 0..MAX_SIZE
      BY <2>1, <1>1, <1>3
    <3> QED
      BY <3>1, <1>1, <1>3 DEF Cell
  <2>4. ASSUME NEW i \in 1..left
        PROVE  Cell(0 + i - 1) = Contents[i + right] /\ Contents[i + right] \in Elem
    <3>1. i + right \in 1..count /\ 0 + i - 1 = i - 1 /\ i - 1 \in 0..MAX_SIZE
      BY <2>1, <1>1
    <3>2. Slot(i + right) = i - 1
      BY <3>1, <2>1, <1>1, <1>3
    <3> QED
      BY <3>1, <3>2, <1>1, <1>3 DEF Cell
  <2>5. first = [i \in 1..right |-> Contents[i]] /\ first \in [1..right -> Elem]
    BY <2>3 DEF Loaded
  <2>6. second = [i \in 1..left |-> Contents[i + right]] /\ second \in [1..left -> Elem]
    BY <2>4 DEF Loaded
  <2> HIDE DEF first, second
  <2>7. /\ first \in Seq(Elem) /\ Len(first) = right
        /\ second \in Seq(Elem) /\ Len(second) = left
    BY ZenonT(40), <2>1, <2>5, <2>6, FunctionIsSeq
  <2> DEFINE all == [i \in 1..count |-> Contents[i]]
  <2>8. all \in Seq(Elem) /\ Len(all) = count
    <3>1. all \in [1..count -> Elem]
      BY <1>3
    <3> QED
      BY <3>1, FunctionIsSeq
  <2>9. \A i \in 1..right : all[i] = first[i]
    BY <2>1, <2>5
  <2>10. \A i \in 1..left : all[i + right] = second[i]
    BY <2>1, <2>6
  <2>11. all = first \o second
    <3> HIDE DEF all
    <3>1. Len(all) = Len(first) + Len(second)
      BY <2>1, <2>7, <2>8
    <3>2. /\ \A i \in 1..Len(first) : all[i] = first[i]
          /\ \A i \in 1..Len(second) : all[i + Len(first)] = second[i]
      BY <2>7, <2>9, <2>10
    <3> QED
      BY <2>7, <2>8, <3>1, <3>2, ConcatIs
  <2> QED
    BY <2>2, <2>8, <2>11
<1> QED
  BY <1>4, <1>5

(* A skip of count elements, all of them or some. *)
LEMMA SkipStep ==
  ASSUME IInv, NEW count \in Nat, SkipCount(count),
         m_buffer' = m_buffer, copied' \in Seq(Elem)
  PROVE  /\ IInv'
         /\ count <= m_size =>
              /\ Contents' = [i \in 1..(m_size - count) |-> Contents[i + count]]
              /\ result' = count
         /\ count > m_size => Contents' = <<>> /\ result' = m_size
<1>1. /\ MAX_SIZE \in Nat /\ CAPACITY = MAX_SIZE + 1
      /\ m_begin \in 0..MAX_SIZE /\ m_end \in 0..MAX_SIZE /\ m_size \in 0..MAX_SIZE
  BY CapacityValue DEF IInv, TypeOK
<1>2. CASE SkipAll(count)
  <2>1. m_begin' = 0 /\ m_end' = 0 /\ m_size' = 0 /\ result' = m_size /\ m_size <= count
    BY <1>2 DEF SkipAll
  <2>2. TypeOK'
    BY <2>1, <1>1 DEF IInv, TypeOK
  <2>3. (0 + 0) % CAPACITY = 0
    BY <1>1, Around
  <2>4. IndicesAgree' /\ SlotsHoldElements'
    BY <2>1, <2>3 DEF IndicesAgree, SlotsHoldElements
  <2>5. Contents' = <<>>
    BY <2>1 DEF Contents
  <2>6. count = m_size => [i \in 1..(m_size - count) |-> Contents[i + count]] = <<>>
    BY <1>1
  <2>7. count <= m_size => count = m_size
    BY <2>1, <1>1
  <2> QED
    BY <2>1, <2>2, <2>4, <2>5, <2>6, <2>7 DEF IInv
<1>3. CASE SkipSome(count)
  <2>1. /\ m_begin' = (m_begin + count) % CAPACITY /\ m_end' = m_end
        /\ m_size' = m_size - count /\ result' = count /\ count < m_size
    BY <1>3 DEF SkipSome
  <2>2. count \in 0..(MAX_SIZE + 1) /\ m_size - count \in 0..(MAX_SIZE + 1)
    BY <2>1, <1>1
  <2>3. m_begin' = IF m_begin + count <= MAX_SIZE THEN m_begin + count
                   ELSE m_begin + count - (MAX_SIZE + 1)
    BY <2>1, <2>2, <1>1, Around
  <2>4. m_begin' \in 0..MAX_SIZE /\ m_size' \in 0..MAX_SIZE
    BY <2>1, <2>3, <1>1
  <2>5. TypeOK'
    BY <2>1, <2>4 DEF IInv, TypeOK
  <2>6. m_end = IF m_begin + m_size <= MAX_SIZE THEN m_begin + m_size
                ELSE m_begin + m_size - (MAX_SIZE + 1)
    BY <1>1, Around DEF IInv, IndicesAgree
  <2>7. IndicesAgree'
    <3>1. (m_begin' + m_size') % CAPACITY
            = IF m_begin' + m_size' <= MAX_SIZE THEN m_begin' + m_size'
              ELSE m_begin' + m_size' - (MAX_SIZE + 1)
      BY <2>1, <2>2, <2>4, Around
    <3>2. m_end' = (m_begin' + m_size') % CAPACITY
      BY SMTT(30), <3>1, <2>1, <2>3, <2>6, <1>1
    <3> QED
      BY <3>2, CapacityValue DEF IndicesAgree
  <2>8. ASSUME NEW i \in 1..(m_size - count)
        PROVE  /\ Slot(i)' = Slot(i + count) /\ i + count \in 1..m_size
               /\ m_buffer'[Slot(i)'] = Contents[i + count]
               /\ Contents[i + count] \in Elem
    <3>1. i + count \in 1..m_size /\ i \in 1..(MAX_SIZE + 1) /\ i + count \in 1..(MAX_SIZE + 1)
      BY <1>1
    <3>2. Slot(i + count) = IF m_begin + (i + count) - 1 <= MAX_SIZE THEN m_begin + (i + count) - 1
                            ELSE m_begin + (i + count) - 1 - (MAX_SIZE + 1)
      BY <3>1, SlotValue DEF IInv
    <3>3. i - 1 \in 0..(MAX_SIZE + 1) /\ m_begin' + i - 1 = m_begin' + (i - 1)
      BY <3>1, <2>4, <1>1
    <3>4. Slot(i)' = (m_begin' + (i - 1)) % CAPACITY
      BY <3>3 DEF Slot
    <3>5. Slot(i)' = IF m_begin' + (i - 1) <= MAX_SIZE THEN m_begin' + (i - 1)
                     ELSE m_begin' + (i - 1) - (MAX_SIZE + 1)
      BY <3>3, <3>4, <2>4, Around
    <3>6. Slot(i)' = Slot(i + count)
      BY <3>1, <3>2, <3>5, <2>3, <1>1
    <3> QED
      BY <3>1, <3>6, ContentsSeq
  <2>9. SlotsHoldElements'
    BY <2>1, <2>8 DEF SlotsHoldElements
  <2>10. Contents' = [i \in 1..(m_size - count) |-> Contents[i + count]]
    BY <2>1, <2>8 DEF Contents
  <2> QED
    BY <2>1, <2>5, <2>7, <2>9, <2>10, <1>1 DEF IInv
<1> QED
  BY <1>2, <1>3 DEF SkipCount

-----------------------------------------------------------------------------
(* Every call keeps the invariant and is a call of the store. *)

LEMMA WriteRefines ==
  ASSUME IInv, NEW pt \in Writes, Write(pt)
  PROVE  IInv' /\ Fifo!Write(pt)
<1>1. /\ NewSize(Len(pt)) = m_size + Len(pt) /\ Len(Contents) = m_size
      /\ m_size + Len(pt) \in Int /\ MAX_SIZE \in Int
  BY CountFits, ContentsSeq, CapacityValue DEF IInv, TypeOK
<1>2. CASE WriteRefused(pt)
  <2>1. IInv'
    BY <1>2 DEF WriteRefused, E_NOSPACE, IInv, TypeOK, IndicesAgree, SlotsHoldElements, Slot
  <2>2. Contents' = Contents
    BY <1>2 DEF WriteRefused, Contents, Slot
  <2>3. ~Fifo!Fits(pt)
    BY <1>1, <1>2 DEF WriteRefused, Fifo!Fits
  <2> QED
    BY <2>1, <2>2, <2>3, <1>2 DEF WriteRefused, Fifo!Write, Fifo!E_NOSPACE, E_NOSPACE
<1>3. CASE WriteStraight(pt) \/ WriteWrapped(pt)
  <2>1. WriteFacts(pt)
    BY <1>3, WriteStraightFacts, WriteWrappedFacts
  <2>2. m_begin' = m_begin /\ copied' = copied /\ result' = Len(pt)
    BY <1>3 DEF WriteStraight, WriteWrapped
  <2>3. IInv' /\ Contents' = Contents \o pt
    BY <2>1, <2>2, WriteStep
  <2>4. Fifo!Fits(pt)
    BY <2>1, <1>1 DEF WriteFacts, Fifo!Fits
  <2> QED
    BY <2>2, <2>3, <2>4 DEF Fifo!Write
<1> QED
  BY <1>2, <1>3 DEF Write

LEMMA NoDataRefines ==
  ASSUME IInv, NEW count \in Nat, NoData(count)
  PROVE  IInv' /\ Fifo!Refuse(count)
<1>1. IInv'
  BY DEF NoData, E_NODATA, IInv, TypeOK, IndicesAgree, SlotsHoldElements, Slot
<1>2. Contents' = Contents
  BY DEF NoData, Contents, Slot
<1>3. count > Len(Contents)
  BY ContentsSeq DEF NoData
<1> QED
  BY <1>1, <1>2, <1>3 DEF NoData, Fifo!Refuse, Fifo!E_NODATA, E_NODATA

LEMMA PeekRefines ==
  ASSUME IInv, NEW count \in Nat, Peek(count)
  PROVE  IInv' /\ Fifo!Peek(count)
<1>1. CASE NoData(count)
  BY <1>1, NoDataRefines DEF Fifo!Peek
<1>2. CASE count <= m_size /\ copied' = Peeked(count) /\ result' = count
           /\ UNCHANGED <<m_begin, m_end, m_size, m_buffer>>
  <2>1. Peeked(count) = Fifo!Front(count) /\ copied' \in Seq(Elem)
    BY <1>2, PeekedValue DEF Fifo!Front
  <2>2. IInv'
    BY <1>2, <2>1 DEF IInv, TypeOK, IndicesAgree, SlotsHoldElements, Slot
  <2>3. Contents' = Contents /\ count <= Len(Contents)
    BY <1>2, ContentsSeq DEF Contents, Slot
  <2> QED
    BY <1>2, <2>1, <2>2, <2>3 DEF Fifo!Peek
<1> QED
  BY <1>1, <1>2 DEF Peek

LEMMA SkipRefines ==
  ASSUME IInv, NEW count \in Nat, Skip(count)
  PROVE  IInv' /\ Fifo!Skip(count)
<1>1. SkipCount(count) /\ m_buffer' = m_buffer /\ copied' = copied /\ copied \in Seq(Elem)
  BY DEF Skip, IInv, TypeOK
<1>2. Len(Contents) = m_size /\ m_size \in Nat
  BY ContentsSeq
<1>3. CASE count <= m_size
  BY <1>1, <1>2, <1>3, SkipStep DEF Fifo!Skip, Fifo!Rest
<1>4. CASE count > m_size
  BY <1>1, <1>2, <1>4, SkipStep DEF Fifo!Skip
<1> QED
  BY <1>2, <1>3, <1>4

LEMMA ReadRefines ==
  ASSUME IInv, NEW count \in Nat, Read(count)
  PROVE  IInv' /\ Fifo!Read(count)
<1>1. CASE NoData(count)
  BY <1>1, NoDataRefines DEF Fifo!Read
<1>2. CASE count <= m_size /\ copied' = Peeked(count) /\ SkipCount(count)
           /\ UNCHANGED m_buffer
  <2>1. Peeked(count) = Fifo!Front(count) /\ copied' \in Seq(Elem)
    BY <1>2, PeekedValue DEF Fifo!Front
  <2>2. /\ IInv' /\ result' = count
        /\ Contents' = [i \in 1..(m_size - count) |-> Contents[i + count]]
    BY <1>2, <2>1, SkipStep
  <2>3. Len(Contents) = m_size
    BY ContentsSeq
  <2> QED
    BY <1>2, <2>1, <2>2, <2>3 DEF Fifo!Read, Fifo!Rest
<1> QED
  BY <1>1, <1>2 DEF Read

LEMMA StepRefines ==
  ASSUME IInv, [Next]_vars
  PROVE  IInv' /\ [Fifo!Next]_(Fifo!fifoVars)
<1>1. ASSUME NEW pt \in Writes, Write(pt), Call("write", pt)
      PROVE  IInv' /\ Fifo!Next
  BY <1>1, WriteRefines DEF Call, Fifo!Next, Fifo!Call
<1>2. ASSUME NEW count \in Counts
      PROVE  /\ Read(count) /\ Call("read", count) => IInv' /\ Fifo!Next
             /\ Skip(count) /\ Call("skip", count) => IInv' /\ Fifo!Next
             /\ Peek(count) /\ Call("peek", count) => IInv' /\ Fifo!Next
  <2>1. count \in Nat
    BY BufferAssumption
  <2> QED
    BY <1>2, <2>1, ReadRefines, SkipRefines, PeekRefines DEF Call, Fifo!Next, Fifo!Call
<1>3. CASE UNCHANGED vars
  <2>1. IInv'
    BY <1>3 DEF vars, IInv, TypeOK, IndicesAgree, SlotsHoldElements, Slot
  <2>2. Contents' = Contents
    BY <1>3 DEF vars, Contents, Slot
  <2> QED
    BY <1>3, <2>1, <2>2 DEF vars, Fifo!fifoVars
<1> QED
  BY <1>1, <1>2, <1>3 DEF Next

-----------------------------------------------------------------------------
(* The indices, the count and the array keep their types whatever is       *)
(* called: no index of CircularBuffer.hpp leaves the array, and no reader  *)
(* is handed an unset cell.                                                *)
THEOREM TypeCorrect == Spec => []TypeOK
<1>1. IInv => TypeOK
  BY DEF IInv
<1>2. IInv /\ [Next]_vars => IInv'
  BY StepRefines
<1> QED
  BY <1>1, <1>2, InitIInv, PTL DEF Spec

(* m_begin, m_end and m_size, kept apart by write and skip, always agree.  *)
THEOREM IndicesAlwaysAgree == Spec => []IndicesAgree
<1>1. IInv => IndicesAgree
  BY DEF IInv
<1>2. IInv /\ [Next]_vars => IInv'
  BY StepRefines
<1> QED
  BY <1>1, <1>2, InitIInv, PTL DEF Spec

(* CircularBuffer implements the bounded first-in first-out store: what is *)
(* read or peeked is what was written, in order, once, wherever the        *)
(* elements lie around the end of the array.                               *)
THEOREM Refinement == Spec => ImplementsFifo
<1>1. Init => Fifo!Init
  BY DEF Init, Contents, Fifo!Init
<1>2. IInv /\ [Next]_vars => IInv' /\ [Fifo!Next]_(Fifo!fifoVars)
  BY StepRefines
<1> QED
  BY <1>1, <1>2, InitIInv, PTL DEF Spec, ImplementsFifo, Fifo!Spec

-----------------------------------------------------------------------------
(* Times and their arithmetic. *)

(* Quotient and remainder of a number that is close to the range. *)
LEMMA DivSmall ==
  ASSUME NEW m \in Nat, m > 0, NEW x \in Int
  PROVE  /\ x \div m \in Int /\ x % m \in 0..(m - 1)
         /\ 0 <= x /\ x < m => x \div m = 0 /\ x % m = x
         /\ m <= x /\ x < 2 * m => x \div m = 1 /\ x % m = x - m
         /\ -m < x /\ x < 0 => x \div m = -1 /\ x % m = x + m
<1>1. x \div m \in Int /\ x % m \in 0..(m - 1)
  BY SMT
<1>2. 0 <= x /\ x < m => x \div m = 0 /\ x % m = x
  BY SMT
<1>3. m <= x /\ x < 2 * m => x \div m = 1 /\ x % m = x - m
  BY SMT
<1>4. -m < x /\ x < 0 => x \div m = -1 /\ x % m = x + m
  BY SMT
<1> QED
  BY <1>1, <1>2, <1>3, <1>4

(* A second has a positive number of microseconds. *)
LEMMA MicrosIs == MICROS \in Nat /\ MICROS > 0
BY SMT DEF MICROS

(* apr_time_make carries the microseconds that are too many or too few. *)
LEMMA MakesTime ==
  ASSUME NEW s \in Int, NEW u \in Int
  PROVE  /\ apr_time_make(s, u) \in Times
         /\ apr_time_make(s, u).sec = s + u \div MICROS /\ apr_time_make(s, u).usec = u % MICROS
         /\ u \in 0..(MICROS - 1) => apr_time_make(s, u) = [sec |-> s, usec |-> u]
<1>1. /\ u \div MICROS \in Int /\ u % MICROS \in 0..(MICROS - 1)
      /\ u \in 0..(MICROS - 1) => u \div MICROS = 0 /\ u % MICROS = u
  BY DivSmall, MicrosIs
<1> QED
  BY <1>1, MicrosIs DEF apr_time_make, Times

(* What it is to be a Time. *)
LEMMA IsTime ==
  ASSUME NEW t \in Times
  PROVE  /\ t.sec \in Int /\ t.usec \in Int /\ 0 <= t.usec /\ t.usec < MICROS
         /\ t.usec \in 0..(MICROS - 1) /\ t = [sec |-> t.sec, usec |-> t.usec]
BY MicrosIs DEF Times

(* A Time is its seconds and its microseconds. *)
LEMMA SameTime ==
  ASSUME NEW t \in Times, NEW u \in Times, t.sec = u.sec, t.usec = u.usec
  PROVE  t = u
BY DEF Times

(* operator+ carries once at most, *)
LEMMA PlusIs ==
  ASSUME NEW t \in Times, NEW u \in Times
  PROVE  /\ Plus(t, u) \in Times
         /\ Plus(t, u).sec = t.sec + u.sec + (IF t.usec + u.usec < MICROS THEN 0 ELSE 1)
         /\ Plus(t, u).usec = t.usec + u.usec - (IF t.usec + u.usec < MICROS THEN 0 ELSE MICROS)
<1>1. PICK a, b, c, d, m : a = t.sec /\ b = t.usec /\ c = u.sec /\ d = u.usec /\ m = MICROS
  OBVIOUS
<1>2. a \in Int /\ b \in Int /\ 0 <= b /\ b < m /\ c \in Int /\ d \in Int /\ 0 <= d /\ d < m /\ m \in Nat /\ m > 0
  BY <1>1, IsTime, MicrosIs
<1>3. /\ (b + d) \div m = (IF b + d < m THEN 0 ELSE 1)
      /\ (b + d) % m = b + d - (IF b + d < m THEN 0 ELSE m)
  <2>1. b + d \in Int /\ 0 <= b + d /\ b + d < 2 * m
    BY <1>2
  <2> QED
    BY <1>2, <2>1, DivSmall
<1>4. a + c \in Int /\ b + d \in Int /\ Plus(t, u) = apr_time_make(a + c, b + d)
  BY <1>1, <1>2 DEF Plus
<1>5. /\ Plus(t, u) \in Times
      /\ Plus(t, u).sec = a + c + (b + d) \div m /\ Plus(t, u).usec = (b + d) % m
  BY <1>1, <1>4, MakesTime
<1> QED
  BY <1>1, <1>3, <1>5

(* the unary minus borrows a second for the microseconds, *)
LEMMA NegatedIs ==
  ASSUME NEW t \in Times
  PROVE  /\ Negated(t) \in Times
         /\ Negated(t).sec = - t.sec - (IF t.usec = 0 THEN 0 ELSE 1)
         /\ Negated(t).usec = (IF t.usec = 0 THEN 0 ELSE MICROS - t.usec)
<1>1. PICK a, b, m : a = t.sec /\ b = t.usec /\ m = MICROS
  OBVIOUS
<1>2. a \in Int /\ b \in Int /\ 0 <= b /\ b < m /\ m \in Nat /\ m > 0
  BY <1>1, IsTime, MicrosIs
<1>3. /\ (-b) \div m = (IF b = 0 THEN 0 ELSE -1)
      /\ (-b) % m = (IF b = 0 THEN 0 ELSE m - b)
  <2>1. -b \in Int /\ -m < -b /\ -b <= 0
    BY <1>2
  <2>2. CASE b = 0
    BY <1>2, <2>1, <2>2, DivSmall
  <2>3. CASE b # 0
    <3>1. -b < 0
      BY <1>2, <2>3
    <3>2. (-b) \div m = -1 /\ (-b) % m = (-b) + m
      BY <1>2, <2>1, <3>1, DivSmall
    <3> QED
      BY <1>2, <2>3, <3>2
  <2> QED
    BY <2>2, <2>3
<1>4. -a \in Int /\ -b \in Int /\ Negated(t) = apr_time_make(-a, -b)
  BY <1>1, <1>2 DEF Negated
<1>5. /\ Negated(t) \in Times
      /\ Negated(t).sec = -a + (-b) \div m /\ Negated(t).usec = (-b) % m
  BY <1>1, <1>4, MakesTime
<1>6. -a + (-b) \div m = -a - (IF b = 0 THEN 0 ELSE 1)
  BY <1>2, <1>3
<1> QED
  BY <1>1, <1>3, <1>5, <1>6

(* and operator- borrows once at most. *)
LEMMA MinusIs ==
  ASSUME NEW t \in Times, NEW u \in Times
  PROVE  /\ Minus(t, u) \in Times
         /\ Minus(t, u).sec = t.sec - u.sec - (IF t.usec < u.usec THEN 1 ELSE 0)
         /\ Minus(t, u).usec = t.usec - u.usec + (IF t.usec < u.usec THEN MICROS ELSE 0)
<1>1. Negated(u) \in Times /\ Minus(t, u) = Plus(t, Negated(u))
  BY NegatedIs DEF Minus
<1>2. PICK n \in Times : n = Negated(u)
  BY <1>1
<1>3. PICK a, b, c, d, e, f, m : /\ a = t.sec /\ b = t.usec /\ c = u.sec /\ d = u.usec
                                 /\ e = n.sec /\ f = n.usec /\ m = MICROS
  OBVIOUS
<1>4. /\ a \in Int /\ b \in Int /\ 0 <= b /\ b < m /\ c \in Int /\ d \in Int /\ 0 <= d /\ d < m
      /\ e \in Int /\ f \in Int /\ 0 <= f /\ f < m /\ m \in Nat
      /\ e = -c - (IF d = 0 THEN 0 ELSE 1) /\ f = (IF d = 0 THEN 0 ELSE m - d)
  BY <1>2, <1>3, IsTime, NegatedIs, MicrosIs
<1>5. /\ Minus(t, u) \in Times
      /\ Minus(t, u).sec = a + e + (IF b + f < m THEN 0 ELSE 1)
      /\ Minus(t, u).usec = b + f - (IF b + f < m THEN 0 ELSE m)
  BY <1>1, <1>2, <1>3, PlusIs
<1>6. /\ a + e + (IF b + f < m THEN 0 ELSE 1) = a - c - (IF b < d THEN 1 ELSE 0)
      /\ b + f - (IF b + f < m THEN 0 ELSE m) = b - d + (IF b < d THEN m ELSE 0)
  BY <1>4
<1> QED
  BY <1>3, <1>5, <1>6

(* Adding and subtracting undo each other. *)
LEMMA MinusUndoes ==
  ASSUME NEW t \in Times, NEW u \in Times
  PROVE  t = Minus(Plus(t, u), u) /\ t = Plus(Minus(t, u), u)
<1>1. PICK p \in Times : p = Plus(t, u)
  BY PlusIs
<1>2. PICK n \in Times : n = Minus(t, u)
  BY MinusIs
<1>3. PICK a, b, c, d, m : a = t.sec /\ b = t.usec /\ c = u.sec /\ d = u.usec /\ m = MICROS
  OBVIOUS
<1>4. a \in Int /\ b \in Int /\ 0 <= b /\ b < m /\ c \in Int /\ d \in Int /\ 0 <= d /\ d < m /\ m \in Nat
  BY <1>3, IsTime, MicrosIs
<1>5. /\ p.sec = a + c + (IF b + d < m THEN 0 ELSE 1)
      /\ p.usec = b + d - (IF b + d < m THEN 0 ELSE m)
  BY <1>1, <1>3, PlusIs
<1>6. /\ n.sec = a - c - (IF b < d THEN 1 ELSE 0)
      /\ n.usec = b - d + (IF b < d THEN m ELSE 0)
  BY <1>2, <1>3, MinusIs
<1>7. /\ Minus(p, u) \in Times /\ Minus(p, u).sec = p.sec - c - (IF p.usec < d THEN 1 ELSE 0)
      /\ Minus(p, u).usec = p.usec - d + (IF p.usec < d THEN m ELSE 0)
  BY <1>3, MinusIs
<1>8. /\ Plus(n, u) \in Times /\ Plus(n, u).sec = n.sec + c + (IF n.usec + d < m THEN 0 ELSE 1)
      /\ Plus(n, u).usec = n.usec + d - (IF n.usec + d < m THEN 0 ELSE m)
  BY <1>3, PlusIs
<1>9. Minus(p, u).sec = a /\ Minus(p, u).usec = b
  BY <1>4, <1>5, <1>7
<1>10. Plus(n, u).sec = a /\ Plus(n, u).usec = b
  BY <1>4, <1>6, <1>8
<1> QED
  BY <1>1, <1>2, <1>3, <1>7, <1>8, <1>9, <1>10, SameTime
-----------------------------------------------------------------------------
(* The calendar.  The lengths of the units. *)
LEMMA LengthsIs == MINUTE = 60 /\ HOUR = 3600 /\ DAY = 86400
BY SMT DEF MINUTE, HOUR, DAY

(* From 1970 to 2038 every fourth year is a leap year. *)
LEMMA YearDaysIs ==
  ASSUME NEW y \in Int, 1970 <= y, y <= 2038
  PROVE  YearDays(y) = 365 * (y - 1970) + (y - 1969) \div 4
<1>1. y - 1901 \in 69..137 /\ y - 1601 \in 369..437
  BY SMT
<1>2. CASE y < 2001
  <2>1. (y - 1901) \div 100 = 0 /\ (y - 1601) \div 400 = 0
    BY <1>1, <1>2, SMT
  <2> QED
    BY <2>1, SMT DEF YearDays
<1>3. CASE y >= 2001
  <2>1. (y - 1901) \div 100 = 1 /\ (y - 1601) \div 400 = 1
    BY <1>1, <1>3, SMT
  <2> QED
    BY <2>1, SMT DEF YearDays
<1> QED
  BY <1>2, <1>3, SMT

(* The calendar ends with the year 2037. *)
LEMMA CalendarIs == YearDays(2038) = 24837
<1>1. YearDays(2038) = 365 * (2038 - 1970) + (2038 - 1969) \div 4
  BY YearDaysIs, SMT
<1> QED
  BY <1>1, SMT

(* Every day of the calendar is in a year, *)
LEMMA YearExists ==
  ASSUME NEW day \in Int, 0 <= day, day < 24837
  PROVE  \E y \in Years : YearDays(y) <= day /\ day < YearDays(y + 1)
<1> DEFINE c == (day + 365) \div 1461
           r == (day + 365) % 1461
           q == IF r < 365 THEN 0 ELSE IF r < 730 THEN 1 ELSE IF r < 1095 THEN 2 ELSE 3
           y == 1969 + 4 * c + q
<1>1. c \in Int /\ r \in Int /\ 0 <= r /\ r < 1461 /\ day + 365 = 1461 * c + r /\ 0 <= c /\ c <= 17
  BY SMT
<1> HIDE DEF c, r
<1>2. q \in 0..3 /\ 365 * q <= r /\ (q < 3 => r < 365 * (q + 1))
  BY <1>1, SMT
<1>3. y \in 1970..2037
  BY <1>1, <1>2, SMT
<1>4. (y - 1969) \div 4 = c /\ (y + 1 - 1969) \div 4 = (IF q = 3 THEN c + 1 ELSE c)
  BY <1>1, <1>2, SMT
<1>0. y = 1969 + 4 * c + q
  OBVIOUS
<1> HIDE DEF y
<1>5. YearDays(y) = 365 * (y - 1970) + c
  BY <1>3, <1>4, YearDaysIs, SMT
<1>6. YearDays(y + 1) = 365 * (y + 1 - 1970) + (y + 1 - 1969) \div 4
  <2>1. PICK z \in Int : z = y + 1
    BY <1>3, SMT
  <2>2. 1970 <= z /\ z <= 2038
    BY <1>3, <2>1, SMT
  <2>3. YearDays(z) = 365 * (z - 1970) + (z - 1969) \div 4
    BY <2>2, YearDaysIs, SMT
  <2>4. y \in Int
    BY <1>3, SMT
  <2> QED
    BY <2>1, <2>3, <2>4, SMT
<1>7. YearDays(y) <= day /\ day < YearDays(y + 1)
  BY <1>0, <1>1, <1>2, <1>4, <1>5, <1>6, SMT
<1> QED
  BY <1>3, <1>7 DEF Years

(* and in one of its months. *)
LEMMA DaysOfIs ==
  ASSUME NEW y \in Years, NEW m \in 0..11, NEW d \in Int
  PROVE  /\ DaysOf(y, m, d) \in Int /\ DaysOf(y, m, d) = DaysOf(y, m, 1) + d - 1
         /\ DaysOf(y, 0, 1) = YearDays(y)
<1>1. MonthDays[m + 1] \in Int /\ MonthDays[0 + 1] = 0
  BY SMT DEF MonthDays
<1>2. YearDays(y) \in Int
  <2>1. y \in 1970..2038
    BY SMT DEF Years
  <2> QED
    BY <2>1, YearDaysIs, SMT
<1>3. PICK l \in {0, 1} : l = (IF m > 1 /\ IsLeap(y) THEN 1 ELSE 0)
  BY SMT
<1>4. DaysOf(y, m, d) = YearDays(y) + MonthDays[m + 1] + l + d - 1
  BY <1>3 DEF DaysOf
<1>5. DaysOf(y, m, 1) = YearDays(y) + MonthDays[m + 1] + l + 1 - 1
  BY <1>3 DEF DaysOf
<1>6. DaysOf(y, 0, 1) = YearDays(y) + 0 + 0 + 1 - 1
  BY <1>1, SMT DEF DaysOf
<1> QED
  BY <1>1, <1>2, <1>4, <1>5, <1>6, SMT

(* A day of a year is in one of its months: the last that has begun. *)
LEMMA MonthExists ==
  ASSUME NEW y \in Years, NEW day \in Int, YearDays(y) <= day
  PROVE  \E m \in 0..11 : DaysOf(y, m, 1) <= day /\ (m < 11 => day < DaysOf(y, m + 1, 1))
<1> DEFINE f(m) == DaysOf(y, m, 1)
<1>1. f(0) <= day /\ \A m \in 0..11 : f(m) \in Int
  BY DaysOfIs
<1> HIDE DEF f
<1>2. \E m \in 0..11 : f(m) <= day /\ (m < 11 => day < f(m + 1))
  <2>1. CASE \A m \in 1..11 : f(m) <= day
    BY <1>1, <2>1, SMT
  <2>2. CASE \E m \in 1..11 : day < f(m)
    <3>1. CASE day < f(1)
      BY <1>1, <3>1, SMT
    <3>2. CASE f(1) <= day /\ day < f(2)
      BY <1>1, <3>2, SMT
    <3>3. CASE f(2) <= day /\ day < f(3)
      BY <1>1, <3>3, SMT
    <3>4. CASE f(3) <= day /\ day < f(4)
      BY <1>1, <3>4, SMT
    <3>5. CASE f(4) <= day /\ day < f(5)
      BY <1>1, <3>5, SMT
    <3>6. CASE f(5) <= day /\ day < f(6)
      BY <1>1, <3>6, SMT
    <3>7. CASE f(6) <= day /\ day < f(7)
      BY <1>1, <3>7, SMT
    <3>8. CASE f(7) <= day /\ day < f(8)
      BY <1>1, <3>8, SMT
    <3>9. CASE f(8) <= day /\ day < f(9)
      BY <1>1, <3>9, SMT
    <3>10. CASE f(9) <= day /\ day < f(10)
      BY <1>1, <3>10, SMT
    <3>11. CASE f(10) <= day /\ day < f(11)
      BY <1>1, <3>11, SMT
    <3>12. CASE f(11) <= day
      BY <1>1, <3>12, SMT
    <3> QED
      BY <1>1, <3>1, <3>2, <3>3, <3>4, <3>5, <3>6, <3>7, <3>8, <3>9, <3>10, <3>11, <3>12, SMT
  <2> QED
    BY <1>1, <2>1, <2>2, SMT
<1> QED
  BY <1>2 DEF f

(* What the fields of a time are. *)
Fields == {"year", "mon", "mday", "hour", "min", "sec", "usec", "wday", "gmtoff"}

(* apr_time_exp_tz breaks an instant into the date and the time of day that an*)
(* offset shows.                                                             *)
LEMMA ExpIs ==
  ASSUME NEW t \in Times, NEW offset \in Int, InCalendar(t.sec + offset),
         NEW et, et = apr_time_exp_tz(t, offset), NEW wall, wall = t.sec + offset
  PROVE  /\ wall \in Int /\ 0 <= wall
         /\ et = [f \in Fields |-> et[f]]
         /\ et.year \in Years /\ et.mon \in 0..11 /\ et.mday \in Int
         /\ DaysOf(et.year, et.mon, et.mday) = wall \div DAY
         /\ et.hour = (wall % DAY) \div HOUR /\ et.min = (wall % HOUR) \div MINUTE
         /\ et.sec = wall % MINUTE /\ et.usec = t.usec /\ et.gmtoff = offset
         /\ et.wday = (wall \div DAY + 4) % 7
<1> DEFINE day == wall \div DAY
           year == CHOOSE y \in Years : YearDays(y) <= day /\ day < YearDays(y + 1)
           mon == CHOOSE m \in 0..11 :
                    DaysOf(year, m, 1) <= day /\ (m < 11 => day < DaysOf(year, m + 1, 1))
<1>1. wall \in Int /\ 0 <= wall /\ wall < 24837 * 86400
  BY IsTime, CalendarIs, LengthsIs, SMT DEF InCalendar
<1>2. day \in Int /\ 0 <= day /\ day < 24837
  BY <1>1, LengthsIs, SMT
<1> HIDE DEF day
<1>3. year \in Years /\ YearDays(year) <= day
  BY <1>2, YearExists
<1> HIDE DEF year
<1>4. mon \in 0..11
  BY <1>2, <1>3, MonthExists
<1> HIDE DEF mon
<1>5. /\ DaysOf(year, mon, 1) \in Int
      /\ DaysOf(year, mon, day - DaysOf(year, mon, 1) + 1)
           = DaysOf(year, mon, 1) + (day - DaysOf(year, mon, 1) + 1) - 1
  <2>1. DaysOf(year, mon, 1) \in Int
    <3>1. 1 \in Int
      OBVIOUS
    <3> QED
      BY <1>3, <1>4, <3>1, DaysOfIs
  <2>2. day - DaysOf(year, mon, 1) + 1 \in Int
    BY <1>2, <2>1
  <2> QED
    BY <1>3, <1>4, <2>1, <2>2, DaysOfIs
<1>6. DaysOf(year, mon, day - DaysOf(year, mon, 1) + 1) = day /\ day - DaysOf(year, mon, 1) + 1 \in Int
  BY <1>2, <1>5
<1>7. et = [year |-> year, mon |-> mon, mday |-> day - DaysOf(year, mon, 1) + 1,
            hour |-> (wall % DAY) \div HOUR, min |-> (wall % HOUR) \div MINUTE, sec |-> wall % MINUTE,
            usec |-> t.usec, wday |-> (day + 4) % 7, gmtoff |-> offset]
  BY Zenon DEF apr_time_exp_tz, day, year, mon
<1>8. et = [f \in Fields |-> et[f]]
  BY <1>7 DEF Fields
<1> QED
  BY <1>1, <1>3, <1>4, <1>6, <1>7, <1>8 DEF day
-----------------------------------------------------------------------------
(* Rounding and differences. *)
Lengths == {1, 60, 3600, 86400, 7 * 86400}

(* Every unit has a length. *)
LEMMA LengthIs ==
  ASSUME NEW unit \in Units
  PROVE  LengthOf(unit) \in Lengths /\ LengthOf(unit) \in Int
BY LengthsIs, SMT DEF LengthOf, Units, Lengths

(* Whole units of a number of seconds, and what is left over. *)
LEMMA QuotientIs ==
  ASSUME NEW x \in Int, NEW n \in Lengths
  PROVE  /\ n \in Nat /\ n > 0 /\ x \div n \in Int /\ (x \div n) * n \in Int /\ 0 \div n = 0
         /\ (x \div n) * n <= x /\ x < (x \div n) * n + n
         /\ x - (x \div n) * n = x % n
         /\ (x >= 0 => x \div n >= 0)
<1>1. CASE n = 1
  BY <1>1, SMT
<1>2. CASE n = 60
  BY <1>2, SMT
<1>3. CASE n = 3600
  BY <1>3, SMT
<1>4. CASE n = 86400
  BY <1>4, SMT
<1>5. CASE n = 7 * 86400
  BY <1>5, SMT
<1> QED
  BY <1>1, <1>2, <1>3, <1>4, <1>5 DEF Lengths

(* A number of seconds as days, hours, minutes and seconds. *)
LEMMA ClockIs ==
  ASSUME NEW w \in Int
  PROVE  \E d, r, h, a, m, b, e \in Int :
           /\ w \div DAY = d /\ w % DAY = r /\ r \div HOUR = h /\ w % HOUR = a
           /\ a \div MINUTE = m /\ w % MINUTE = b /\ w % 1 = 0
           /\ (d + 4) % 7 = e /\ (w - 3 * DAY) % (7 * DAY) = e * DAY + r
           /\ d * DAY + r = w /\ h * HOUR + a = r /\ m * MINUTE + b = a
           /\ 0 <= r /\ 0 <= h /\ h < 24 /\ 0 <= m /\ m < 60 /\ 0 <= b /\ b < 60 /\ (0 <= w => 0 <= d)
<1>1. PICK d \in Int, r \in Int : /\ d = w \div 86400 /\ r = w % 86400
                                  /\ w = 86400 * d + r /\ 0 <= r /\ r < 86400
  BY SMT
<1>2. PICK h \in Int, a \in Int : /\ h = r \div 3600 /\ a = r % 3600
                                  /\ r = 3600 * h + a /\ 0 <= a /\ a < 3600
  BY SMT
<1>3. PICK m \in Int, b \in Int : /\ m = a \div 60 /\ b = a % 60
                                  /\ a = 60 * m + b /\ 0 <= b /\ b < 60
  BY SMT
<1>4. w % 3600 = a
  <2>1. w = 3600 * (24 * d + h) + a
    BY <1>1, <1>2, SMT
  <2> QED
    BY <1>2, <2>1, SMT
<1>5. w % 60 = b
  <2>1. w = 60 * (60 * (24 * d + h) + m) + b
    BY <1>1, <1>2, <1>3, SMT
  <2> QED
    BY <1>3, <2>1, SMT
<1>6. PICK q \in Int, e \in Int : d = 7 * q + e + 3 /\ 0 <= e /\ e < 7
  <2>1. PICK j \in Int : j = d - 3
    BY <1>1
  <2>2. \E q \in Int, e \in Int : /\ q = j \div 7 /\ e = j % 7
                                 /\ j = 7 * q + e /\ 0 <= e /\ e < 7
    BY SMT
  <2> QED
    BY <1>1, <2>1, <2>2
<1>7. (d + 4) % 7 = e
  BY <1>6, SMT
<1>8. (w - 3 * 86400) % (7 * 86400) = 86400 * e + r
  <2>1. w - 3 * 86400 = (7 * 86400) * q + (86400 * e + r)
    BY <1>1, <1>6, SMT
  <2>2. 0 <= 86400 * e + r /\ 86400 * e + r < 7 * 86400
    BY <1>1, <1>6, SMT
  <2> QED
    BY <1>1, <1>6, <2>1, <2>2, SMT
<1>9. w % 1 = 0
  BY SMT
<1>10. d * 86400 + r = w /\ h * 3600 + a = r /\ m * 60 + b = a /\ e * 86400 + r = 86400 * e + r
  BY <1>1, <1>2, <1>3, <1>6, SMT
<1>11. w \div DAY = d /\ w % DAY = r
  BY <1>1, LengthsIs, SMT
<1>12. r \div HOUR = h /\ w % HOUR = a
  BY <1>2, <1>4, LengthsIs, SMT
<1>13. a \div MINUTE = m /\ w % MINUTE = b
  BY <1>3, <1>5, LengthsIs, SMT
<1>14. d * DAY + r = w /\ h * HOUR + a = r /\ m * MINUTE + b = a
  BY <1>10, LengthsIs, SMT
<1>15. (w - 3 * DAY) % (7 * DAY) = e * DAY + r
  BY <1>8, <1>10, LengthsIs, SMT
<1>16. 0 <= r /\ 0 <= h /\ h < 24 /\ 0 <= m /\ m < 60 /\ 0 <= b /\ b < 60 /\ (0 <= w => 0 <= d)
  BY <1>1, <1>2, <1>3, SMT
<1> WITNESS d \in Int, r \in Int, h \in Int, a \in Int, m \in Int, b \in Int, e \in Int
<1> QED
  BY <1>7, <1>9, <1>11, <1>12, <1>13, <1>14, <1>15, <1>16

Off(t, tz) == IF tz = "LOCAL" THEN GmtOff(t.sec) ELSE 0

(* What a zone shows of a time that has a date. *)
LEMMA WallIs ==
  ASSUME NEW t \in Times, HasDate(t), NEW tz \in Zones
  PROVE  /\ Off(t, tz) \in Int /\ Wall(t, tz) = t.sec + Off(t, tz) /\ InCalendar(t.sec + Off(t, tz))
         /\ apr_time_exp(t, tz) = apr_time_exp_tz(t, Off(t, tz))
<1>1. t.sec \in Int /\ STANDARD \in Int /\ GmtOff(t.sec) \in Int
  BY IsTime, LengthsIs, TimeAssumption, SMT DEF GmtOff
<1>2. t.sec + 0 = t.sec
  BY <1>1
<1> QED
  BY <1>1, <1>2 DEF Off, Wall, HasDate, apr_time_exp

TimeAt(s, gmtoff, usec) == IF s < 0 THEN Thrown ELSE Made(apr_time_make(s - gmtoff, usec))

(* A date and a time of day put together again by apr_time_exp_gmt_get. *)
LEMMA GetIs ==
  ASSUME NEW et, et.mon \in 0..11, NEW s \in Int, 
         s = DaysOf(et.year, et.mon, et.mday) * DAY + et.hour * HOUR + et.min * MINUTE + et.sec
  PROVE  apr_time_exp_gmt_get(et) = TimeAt(s, et.gmtoff, et.usec)
BY Zenon DEF apr_time_exp_gmt_get, TimeAt

(* Round goes back to where the unit began on the zone's clock of the time,  *)
(* and refuses what is before 1970.                                          *)
LEMMA RoundIs ==
  ASSUME NEW t \in Times, HasDate(t), NEW unit \in Units, NEW tz \in Zones,
         NEW past, past = Past(Wall(t, tz), unit)
  PROVE  Round(t, unit, tz) = IF Wall(t, tz) < past THEN Thrown ELSE Made(apr_time_make(t.sec - past, 0))
<1> DEFINE offset == Off(t, tz)
           wall == Wall(t, tz)
           et == apr_time_exp(t, tz)
           ed == Rounded(et, unit)
           back == IF unit = "WEEKS" THEN et.wday ELSE 0
           s == DaysOf(ed.year, ed.mon, ed.mday) * DAY + ed.hour * HOUR + ed.min * MINUTE + ed.sec
<1>1. /\ wall \in Int /\ 0 <= wall /\ offset \in Int /\ wall = t.sec + offset
      /\ et = [f \in Fields |-> et[f]]
      /\ et.year \in Years /\ et.mon \in 0..11 /\ et.mday \in Int
      /\ DaysOf(et.year, et.mon, et.mday) = wall \div DAY
      /\ et.hour = (wall % DAY) \div HOUR /\ et.min = (wall % HOUR) \div MINUTE
      /\ et.sec = wall % MINUTE /\ et.gmtoff = offset /\ et.wday = (wall \div DAY + 4) % 7
  <2>1. /\ offset \in Int /\ wall = t.sec + offset /\ InCalendar(t.sec + offset)
        /\ et = apr_time_exp_tz(t, offset)
    BY WallIs
  <2> HIDE DEF et, wall, offset
  <2> QED
    BY <2>1, ExpIs
<1> HIDE DEF et, wall, offset
<1>2. /\ ed.year = et.year /\ ed.mon = et.mon /\ ed.mday = et.mday - back
      /\ ed.hour = (IF unit \in {"WEEKS", "DAYS"} THEN 0 ELSE et.hour)
      /\ ed.min = (IF unit \in {"WEEKS", "DAYS", "HOURS"} THEN 0 ELSE et.min)
      /\ ed.sec = (IF unit # "SECONDS" THEN 0 ELSE et.sec)
      /\ ed.usec = 0 /\ ed.gmtoff = et.gmtoff
  <2>1. et.mday - 0 = et.mday
    BY <1>1
  <2> QED
    BY <1>1, <2>1 DEF Rounded, Fields
<1> HIDE DEF ed
<1>3. back \in Int /\ wall \div DAY \in Int
  BY <1>1, LengthsIs, SMT
<1>4. DaysOf(ed.year, ed.mon, ed.mday) = wall \div DAY - back
  <2>1. /\ DaysOf(et.year, et.mon, 1) \in Int
        /\ DaysOf(et.year, et.mon, et.mday) = DaysOf(et.year, et.mon, 1) + et.mday - 1
    <3>1. 1 \in Int
      OBVIOUS
    <3> QED
      BY <1>1, <3>1, DaysOfIs
  <2>2. et.mday - back \in Int
    BY <1>1, <1>3
  <2>3. DaysOf(et.year, et.mon, et.mday - back) = DaysOf(et.year, et.mon, 1) + (et.mday - back) - 1
    BY <1>1, <2>2, DaysOfIs
  <2> QED
    BY <1>1, <1>2, <1>3, <2>1, <2>3
<1>5. /\ past \in Int
      /\ (wall \div DAY - back) * 86400 + ed.hour * 3600 + ed.min * 60 + ed.sec = wall - past
  <2>0. PICK d, r, h, a, m, b, e \in Int :
          /\ wall \div DAY = d /\ wall % DAY = r /\ r \div HOUR = h /\ wall % HOUR = a
          /\ a \div MINUTE = m /\ wall % MINUTE = b /\ wall % 1 = 0
          /\ (d + 4) % 7 = e /\ (wall - 3 * DAY) % (7 * DAY) = e * DAY + r
          /\ d * DAY + r = wall /\ h * HOUR + a = r /\ m * MINUTE + b = a
    BY <1>1, ClockIs
  <2>7. d * DAY + r = wall /\ h * HOUR + a = r /\ m * MINUTE + b = a
    BY <2>0, Zenon
  <2>6. d * 86400 + r = wall /\ h * 3600 + a = r /\ m * 60 + b = a
    BY <2>7, LengthsIs, SMT
  <2>8. wall - 0 = wall
    BY <1>1
  <2>9. wall \div DAY = d
    BY <2>0, Zenon
  <2>1. CASE unit = "SECONDS"
    <3>1. past = (wall - 0) % 1 /\ back = 0
      BY <2>0, <2>1, <1>1 DEF Past, LengthOf, wall
    <3>2. past = 0
      BY <2>0, <2>8, <3>1, Zenon
    <3>3. ed.hour = h /\ ed.min = m /\ ed.sec = b
      BY <1>1, <1>2, <2>0, <2>1
    <3>4. (d - 0) * 86400 + h * 3600 + m * 60 + b = wall - (0)
      BY <1>1, <2>6, SMT
    <3>5. past = 0
      BY <3>2, LengthsIs, SMT
    <3> QED
      BY <2>9, <3>1, <3>3, <3>4, <3>5, SMT
  <2>2. CASE unit = "MINUTES"
    <3>1. past = (wall - 0) % MINUTE /\ back = 0
      BY <2>0, <2>2, <1>1 DEF Past, LengthOf, wall
    <3>2. past = b
      BY <2>0, <2>8, <3>1, Zenon
    <3>3. ed.hour = h /\ ed.min = m /\ ed.sec = 0
      BY <1>1, <1>2, <2>0, <2>2
    <3>4. (d - 0) * 86400 + h * 3600 + m * 60 + 0 = wall - (b)
      BY <1>1, <2>6, SMT
    <3>5. past = b
      BY <3>2, LengthsIs, SMT
    <3> QED
      BY <2>9, <3>1, <3>3, <3>4, <3>5, SMT
  <2>3. CASE unit = "HOURS"
    <3>1. past = (wall - 0) % HOUR /\ back = 0
      BY <2>0, <2>3, <1>1 DEF Past, LengthOf, wall
    <3>2. past = a
      BY <2>0, <2>8, <3>1, Zenon
    <3>3. ed.hour = h /\ ed.min = 0 /\ ed.sec = 0
      BY <1>1, <1>2, <2>0, <2>3
    <3>4. (d - 0) * 86400 + h * 3600 + 0 * 60 + 0 = wall - (a)
      BY <1>1, <2>6, SMT
    <3>5. past = a
      BY <3>2, LengthsIs, SMT
    <3> QED
      BY <2>9, <3>1, <3>3, <3>4, <3>5, SMT
  <2>4. CASE unit = "DAYS"
    <3>1. past = (wall - 0) % DAY /\ back = 0
      BY <2>0, <2>4, <1>1 DEF Past, LengthOf, wall
    <3>2. past = r
      BY <2>0, <2>8, <3>1, Zenon
    <3>3. ed.hour = 0 /\ ed.min = 0 /\ ed.sec = 0
      BY <1>1, <1>2, <2>0, <2>4
    <3>4. (d - 0) * 86400 + 0 * 3600 + 0 * 60 + 0 = wall - (r)
      BY <1>1, <2>6, SMT
    <3>5. past = r
      BY <3>2, LengthsIs, SMT
    <3> QED
      BY <2>9, <3>1, <3>3, <3>4, <3>5, SMT
  <2>5. CASE unit = "WEEKS"
    <3>1. past = (wall - 3 * DAY) % (7 * DAY) /\ back = e
      BY <2>0, <2>5, <1>1 DEF Past, LengthOf, wall, SUNDAY
    <3>2. past = e * DAY + r
      BY <2>0, <2>8, <3>1, Zenon
    <3>3. ed.hour = 0 /\ ed.min = 0 /\ ed.sec = 0
      BY <1>1, <1>2, <2>0, <2>5
    <3>4. (d - e) * 86400 + 0 * 3600 + 0 * 60 + 0 = wall - (e * 86400 + r)
      BY <1>1, <2>6, SMT
    <3>5. past = e * 86400 + r
      BY <3>2, LengthsIs, SMT
    <3>6. past \in Int
      BY <3>5
    <3>7. (d - e) * 86400 + ed.hour * 3600 + ed.min * 60 + ed.sec = wall - past
      BY <3>3, <3>4, <3>5, SMT
    <3>8. wall \div DAY - back = d - e
      BY <2>9, <3>1, Zenon
    <3> QED
      BY <3>6, <3>7, <3>8, SMT
  <2> QED
    BY <2>1, <2>2, <2>3, <2>4, <2>5 DEF Units
<1>8. s = wall - past
  BY <1>4, <1>5, LengthsIs, SMT
<1> HIDE DEF s
<1>6. s \in Int /\ (s < 0 <=> wall < past) /\ s - offset = t.sec - past
  <2>1. t.sec \in Int
    BY IsTime
  <2> QED
    BY <1>1, <1>5, <1>8, <2>1
<1>7. Round(t, unit, tz) = IF s < 0 THEN Thrown ELSE Made(apr_time_make(s - ed.gmtoff, ed.usec))
  <2>1. Round(t, unit, tz) = apr_time_exp_gmt_get(ed)
    BY DEF Round, ed, et
  <2> QED
    BY <1>1, <1>2, <1>6, <2>1, GetIs DEF s, TimeAt
<1> QED
  BY <1>1, <1>2, <1>6, <1>7 DEF wall

(* What is left over of a number, taken from it, leaves whole units. *)
LEMMA WholeUnits ==
  ASSUME NEW x \in Int, NEW n \in Lengths, NEW p, p = x % n
  PROVE  p \in Int /\ 0 <= p /\ p < n /\ (x - p) % n = 0
<1>1. PICK q \in Int, m \in Int : q = x \div n /\ m = q * n /\ m <= x /\ x < m + n /\ x - m = x % n
  BY QuotientIs
<1>2. m % n = 0
  <2>1. CASE n = 1
    BY <2>1, SMT
  <2>2. CASE n = 60
    <3>1. m = 60 * q
      BY <1>1, <2>2, SMT
    <3> QED
      BY <2>2, <3>1, SMT
  <2>3. CASE n = 3600
    <3>1. m = 3600 * q
      BY <1>1, <2>3, SMT
    <3> QED
      BY <2>3, <3>1, SMT
  <2>4. CASE n = 86400
    <3>1. m = 86400 * q
      BY <1>1, <2>4, SMT
    <3> QED
      BY <2>4, <3>1, SMT
  <2>5. CASE n = 7 * 86400
    <3>1. m = 604800 * q /\ n = 604800
      BY <1>1, <2>5, SMT
    <3> QED
      BY <3>1, SMT
  <2> QED
    BY <2>1, <2>2, <2>3, <2>4, <2>5 DEF Lengths
<1>3. n \in Int
  BY DEF Lengths
<1>4. p \in Int /\ x - m = p
  BY <1>1
<1>5. x - p = m /\ 0 <= p /\ p < n
  BY <1>1, <1>3, <1>4
<1>6. (x - p) % n = 0
  BY <1>2, <1>5, Zenon
<1> QED
  BY <1>4, <1>5, <1>6

(* Where the result of round() lies, on the clock of the time itself. *)
Lands(t, unit, tz, got) ==
  LET r == got.time
      changed == (Wall(r, tz) - r.sec) - (Wall(t, tz) - t.sec)
      shown == Wall(r, tz) - changed
  IN /\ got.ok <=> Wall(t, tz) >= Past(Wall(t, tz), unit)
     /\ got.ok =>
          /\ r.usec = 0
          /\ Past(shown, unit) = 0
          /\ shown <= Wall(t, tz) /\ Wall(t, tz) < shown + LengthOf(unit)

LEMMA RoundLands ==
  ASSUME NEW t \in Times, HasDate(t), NEW unit \in Units, NEW tz \in Zones
  PROVE  Lands(t, unit, tz, Round(t, unit, tz)) /\ Round(t, unit, tz).time \in Times
<1>1. PICK past : past = Past(Wall(t, tz), unit)
  OBVIOUS
<1>2. Round(t, unit, tz) = IF Wall(t, tz) < past THEN Thrown ELSE Made(apr_time_make(t.sec - past, 0))
  BY <1>1, RoundIs
<1>3. PICK wall \in Int, sec \in Int, off \in Int : wall = Wall(t, tz) /\ sec = t.sec /\ wall = sec + off
  BY WallIs, IsTime
<1>4. PICK sunday \in Int : sunday = IF unit = "WEEKS" THEN SUNDAY ELSE 0
  BY LengthsIs DEF SUNDAY
<1>5. PICK n \in Lengths : n = LengthOf(unit)
  BY LengthIs
<1>6. PICK x \in Int : x = wall - sunday
  BY <1>3, <1>4
<1>7. past = x % n
  BY <1>1, <1>3, <1>4, <1>5, <1>6 DEF Past
<1>8. past \in Int /\ 0 <= past /\ past < n /\ (x - past) % n = 0
  BY <1>7, WholeUnits, Zenon
<1>9. apr_time_make(0, 0) \in Times /\ apr_time_make(sec - past, 0) \in Times
      /\ apr_time_make(sec - past, 0).sec = sec - past /\ apr_time_make(sec - past, 0).usec = 0
  <2>1. 0 \in 0..(MICROS - 1) /\ 0 \in Int
    BY MicrosIs
  <2>2. PICK s \in Int : s = sec - past
    BY <1>3, <1>8
  <2> QED
    BY <2>1, <2>2, MakesTime
<1>10. CASE wall < past
  <2>1. Round(t, unit, tz) = Thrown /\ ~(wall >= past)
    BY <1>2, <1>3, <1>8, <1>10
  <2> QED
    BY <1>1, <1>3, <1>9, <2>1 DEF Lands, Thrown
<1>11. CASE ~(wall < past)
  <2>1. PICK r \in Times : r = apr_time_make(sec - past, 0) /\ r.sec = sec - past /\ r.usec = 0
    BY <1>9
  <2>2. Round(t, unit, tz) = Made(r) /\ wall >= past
    BY <1>2, <1>3, <1>8, <1>11, <2>1
  <2>3. PICK other \in Int : Wall(r, tz) = r.sec + other
    <3>1. GmtOff(r.sec) \in Int
      BY LengthsIs, TimeAssumption, SMT DEF GmtOff
    <3> QED
      BY <3>1 DEF Wall
  <2>4. PICK changed \in Int : changed = (Wall(r, tz) - r.sec) - (Wall(t, tz) - t.sec)
    BY <1>3, <1>8, <2>1, <2>3
  <2>5. PICK shown \in Int : shown = Wall(r, tz) - changed
    BY <1>8, <1>3, <2>1, <2>3, <2>4
  <2>6. shown = wall - past /\ shown - sunday = x - past
    <3>1. PICK later \in Int, wallLater \in Int :
            later = sec - past /\ later = r.sec /\ wallLater = later + other /\ wallLater = Wall(r, tz)
      BY <1>3, <1>8, <2>1, <2>3
    <3>2. changed = (wallLater - later) - (wall - sec) /\ shown = wallLater - changed
      BY <1>3, <2>4, <2>5, <3>1, Zenon
    <3>3. shown = wall - past
      BY <1>3, <1>8, <3>1, <3>2
    <3>4. sunday \in Int /\ x = wall - sunday /\ past \in Int
      BY <1>4, <1>6, <1>8
    <3> QED
      BY <3>3, <3>4
  <2>7. Past(shown, unit) = 0
    <3>1. Past(shown, unit) = (shown - sunday) % n
      BY <1>4, <1>5, Zenon DEF Past
    <3> QED
      BY <1>8, <2>6, <3>1, Zenon
  <2>8. n \in Int
    BY DEF Lengths
  <2>9. shown <= wall /\ wall < shown + n
    BY <1>3, <1>8, <2>6, <2>8
  <2>10. Round(t, unit, tz).time = r /\ Round(t, unit, tz).ok
    BY <2>2 DEF Made
  <2>11. Lands(t, unit, tz, Round(t, unit, tz))
    BY <1>1, <1>3, <1>5, <2>1, <2>2, <2>4, <2>5, <2>7, <2>9, <2>10, Zenon DEF Lands
  <2> QED
    BY <2>10, <2>11
<1> QED
  BY <1>10, <1>11

(* A number of units added. *)
LEMMA AddIs ==
  ASSUME NEW t \in Times, NEW unit \in Units, NEW k \in Int
  PROVE  /\ Add(t, unit, k) \in Times /\ k * LengthOf(unit) \in Int
         /\ Add(t, unit, k).sec = t.sec + k * LengthOf(unit) /\ Add(t, unit, k).usec = t.usec
<1>1. PICK n \in Int : n = k * LengthOf(unit)
  BY LengthIs
<1>2. PICK u \in Times : u = apr_time_make(n, 0) /\ u.sec = n /\ u.usec = 0
  <2>1. 0 \in 0..(MICROS - 1) /\ 0 \in Int
    BY MicrosIs
  <2> QED
    BY <1>1, <2>1, MakesTime
<1>3. /\ Plus(t, u) \in Times /\ Plus(t, u).sec = t.sec + n + 0 /\ Plus(t, u).usec = t.usec - 0
  <2>1. t.usec + 0 < MICROS /\ t.usec + 0 = t.usec
    BY IsTime
  <2>2. /\ Plus(t, u) \in Times
        /\ Plus(t, u).sec = t.sec + u.sec + (IF t.usec + u.usec < MICROS THEN 0 ELSE 1)
        /\ Plus(t, u).usec = t.usec + u.usec - (IF t.usec + u.usec < MICROS THEN 0 ELSE MICROS)
    BY PlusIs, Zenon
  <2> QED
    BY <1>1, <1>2, <2>1, <2>2, IsTime
<1>4. t.sec + n + 0 = t.sec + n /\ t.usec - 0 = t.usec
  BY <1>1, IsTime
<1> QED
  BY <1>1, <1>2, <1>3, <1>4, Zenon DEF Add

(* The difference of two Times in a unit orders them, is cut towards zero, and*)
(* leads back to within one unit.                                            *)
LEMMA DiffIs ==
  ASSUME NEW t \in Times, NEW u \in Times, NEW unit \in Units,
         NEW diff, diff = Diff(t, u, unit), NEW back, back = Add(u, unit, diff)
  PROVE  /\ Below(t, u) <=> Minus(t, u).sec < 0
         /\ t = u <=> ~Below(t, u) /\ ~Below(u, t)
         /\ ~Below(t, u) => ~Below(t, back) /\ Below(t, Add(back, unit, 1))
         /\ Diff(u, t, unit) = -diff
<1>0. PICK L : L = LengthOf(unit)
  OBVIOUS
<1>1. L \in Lengths /\ L \in Int
  BY <1>0, LengthIs, Zenon
<1>2. PICK a, b, c, d, m : a = t.sec /\ b = t.usec /\ c = u.sec /\ d = u.usec /\ m = MICROS
  OBVIOUS
<1>3. a \in Int /\ b \in Int /\ 0 <= b /\ b < m /\ c \in Int /\ d \in Int /\ 0 <= d /\ d < m /\ m \in Nat
  BY <1>2, IsTime, MicrosIs
<1>4. PICK x \in Times : /\ x = Minus(t, u) /\ x.sec = a - c - (IF b < d THEN 1 ELSE 0)
                         /\ x.usec = b - d + (IF b < d THEN m ELSE 0)
  BY <1>2, MinusIs
<1>5. PICK y \in Times : /\ y = Minus(u, t) /\ y.sec = c - a - (IF d < b THEN 1 ELSE 0)
                         /\ y.usec = d - b + (IF d < b THEN m ELSE 0)
  BY <1>2, MinusIs
<1>6. x = Negated(y) /\ y = Negated(x)
  <2>1. /\ Negated(y) \in Times /\ Negated(x) \in Times
        /\ Negated(y).sec = - y.sec - (IF y.usec = 0 THEN 0 ELSE 1)
        /\ Negated(y).usec = (IF y.usec = 0 THEN 0 ELSE m - y.usec)
        /\ Negated(x).sec = - x.sec - (IF x.usec = 0 THEN 0 ELSE 1)
        /\ Negated(x).usec = (IF x.usec = 0 THEN 0 ELSE m - x.usec)
    BY <1>2, NegatedIs
  <2>2. Negated(y).sec = x.sec /\ Negated(y).usec = x.usec
    BY <1>3, <1>4, <1>5, <2>1
  <2>3. Negated(x).sec = y.sec /\ Negated(x).usec = y.usec
    BY <1>3, <1>4, <1>5, <2>1
  <2> QED
    BY <2>1, <2>2, <2>3, SameTime
<1>7. Below(t, u) <=> x.sec < 0
  BY <1>2, <1>3, <1>4 DEF Below
<1>8. t = u <=> ~Below(t, u) /\ ~Below(u, t)
  <2>1. ~Below(t, u) /\ ~Below(u, t) => a = c /\ b = d
    BY <1>2, <1>3 DEF Below
  <2>2. a = c /\ b = d => t = u
    BY <1>2, SameTime, Zenon
  <2>3. t = u => ~Below(t, u) /\ ~Below(u, t)
    BY <1>2, <1>3 DEF Below
  <2> QED
    BY <2>1, <2>2, <2>3
<1>9. x.sec \in Int /\ y.sec \in Int /\ diff = Quot(x, L) /\ Diff(u, t, unit) = Quot(y, L)
  BY <1>0, <1>4, <1>5, IsTime DEF Diff
<1>10. /\ x.sec \div L \in Int /\ y.sec \div L \in Int /\ 0 \div L = 0
  BY <1>1, <1>9, QuotientIs, Zenon
<1>11. Diff(u, t, unit) = -diff
  <2>1. CASE x.sec >= 0 /\ y.sec >= 0
    <3>1. x.sec = 0 /\ y.sec = 0
      BY <1>3, <1>4, <1>5, <2>1
    <3> QED
      BY <1>9, <1>10, <3>1 DEF Quot
  <2>2. CASE x.sec >= 0 /\ y.sec < 0
    BY <1>6, <1>9, <1>10, <2>2 DEF Quot
  <2>3. CASE x.sec < 0 /\ y.sec >= 0
    <3>1. diff = -(y.sec \div L) /\ Diff(u, t, unit) = y.sec \div L
      BY <1>6, <1>9, <1>10, <2>3 DEF Quot
    <3> QED
      BY <1>10, <3>1
  <2>4. CASE x.sec < 0 /\ y.sec < 0
    BY <1>3, <1>4, <1>5, <2>4
  <2> QED
    BY <1>9, <2>1, <2>2, <2>3, <2>4
<1>12. ASSUME ~Below(t, u)
       PROVE  ~Below(t, back) /\ Below(t, Add(back, unit, 1))
  <2>1. x.sec >= 0
    BY <1>7, <1>9, <1>12
  <2>2. diff = x.sec \div L /\ diff \in Int
    BY <1>9, <1>10, <2>1 DEF Quot
  <2>3. PICK p \in Int : p = diff * L /\ p <= x.sec /\ x.sec < p + L
    BY <1>1, <1>9, <2>2, QuotientIs, Zenon
  <2>4. back \in Times /\ back.sec = c + p /\ back.usec = d
    BY <1>0, <1>2, <2>2, <2>3, AddIs, Zenon
  <2>5. 1 * L = L /\ 1 \in Int
    BY <1>1
  <2>6. Add(back, unit, 1).sec = c + p + L /\ Add(back, unit, 1).usec = d
    <3>1. /\ Add(back, unit, 1).sec = back.sec + 1 * LengthOf(unit)
          /\ Add(back, unit, 1).usec = back.usec
      BY <2>4, <2>5, AddIs
    <3> QED
      BY <1>0, <2>4, <2>5, <3>1, Zenon
  <2>7. ~Below(t, back)
    BY <1>2, <1>3, <1>4, <2>3, <2>4 DEF Below
  <2>8. Below(t, Add(back, unit, 1))
    <3>1. a < c + p + L \/ (a = c + p + L /\ b < d)
      BY <1>1, <1>3, <1>4, <2>3
    <3> QED
      BY <1>2, <2>6, <3>1, Zenon DEF Below
  <2> QED
    BY <2>7, <2>8
<1> QED
  BY <1>4, <1>7, <1>8, <1>11, <1>12
-----------------------------------------------------------------------------
(* The formats: a date, a time of day and what follows it, each perhaps    *)
(* missing.                                                                *)
DMY == <<"mday", "mon", "year">>
MDY == <<"mon", "mday", "year">>
HM  == <<"hour", "min">>
Dates  == {<<>>, YMD, YBD, DBY, DMY, MDY}
Clocks == {<<>>, HMS, HM}
Rests  == {<<>>, <<"usec">>, <<"msec">>, <<"GMT">>, <<"Z">>, <<"zone">>, <<"msec", "Z">>, <<"usec", "Z">>}
Names  == {"year", "mon", "month", "mday", "hour", "min", "sec", "usec", "msec", "GMT", "Z", "zone"}

(* Short sequences and their elements. *)
LEMMA TupleIs ==
  ASSUME NEW S, NEW a \in S, NEW b \in S, NEW c \in S
  PROVE  /\ <<>> \in Seq(S) /\ Range(<<>>) = {}
         /\ <<a>> \in Seq(S) /\ Range(<<a>>) = {a}
         /\ <<a, b>> \in Seq(S) /\ Range(<<a, b>>) = {a, b}
         /\ <<a, b, c>> \in Seq(S) /\ Range(<<a, b, c>>) = {a, b, c}
<1>1. /\ <<>> \in Seq(S) /\ <<a>> \in Seq(S) /\ <<a, b>> \in Seq(S) /\ <<a, b, c>> \in Seq(S)
  OBVIOUS
<1>2. Range(<<>>) = {} /\ Range(<<a>>) = {a}
  BY DEF Range
<1>3. Range(<<a, b>>) = {a, b}
  BY DEF Range
<1>4. Range(<<a, b, c>>) = {a, b, c}
  BY DEF Range
<1> QED
  BY <1>1, <1>2, <1>3, <1>4

(* The components that formats name. *)
LEMMA NamesAre ==
  /\ "year" \in Names /\ "mon" \in Names /\ "month" \in Names /\ "mday" \in Names
  /\ "hour" \in Names /\ "min" \in Names /\ "sec" \in Names /\ "usec" \in Names
  /\ "msec" \in Names /\ "GMT" \in Names /\ "Z" \in Names /\ "zone" \in Names
BY DEF Names

(* The parts a format is made of, and what each of them shows. *)
LEMMA PartsAre ==
  /\ Dates \subseteq Seq(Names) /\ Clocks \subseteq Seq(Names) /\ Rests \subseteq Seq(Names)
  /\ \A d \in Dates : d = <<>> \/ Range(d) \in {{"year", "mon", "mday"}, {"year", "month", "mday"}}
  /\ Range(HM) = {"hour", "min"} /\ Range(HMS) = {"hour", "min", "sec"} /\ Range(<<>>) = {}
  /\ \A r \in Rests : Range(r) \in {{}, {"usec"}, {"msec"}, {"GMT"}, {"Z"}, {"zone"}, {"msec", "Z"}, {"usec", "Z"}}
<1>1. /\ <<>> \in Seq(Names) /\ Range(<<>>) = {}
      /\ \A a \in Names : <<a>> \in Seq(Names) /\ Range(<<a>>) = {a}
      /\ \A a, b \in Names : <<a, b>> \in Seq(Names) /\ Range(<<a, b>>) = {a, b}
      /\ \A a, b, c \in Names : <<a, b, c>> \in Seq(Names) /\ Range(<<a, b, c>>) = {a, b, c}
  <2>1. <<>> \in Seq(Names) /\ Range(<<>>) = {}
    BY TupleIs, NamesAre
  <2>2. \A a \in Names : <<a>> \in Seq(Names) /\ Range(<<a>>) = {a}
    BY TupleIs, Zenon
  <2>3. \A a, b \in Names : <<a, b>> \in Seq(Names) /\ Range(<<a, b>>) = {a, b}
    BY TupleIs, Zenon
  <2>4. \A a, b, c \in Names : <<a, b, c>> \in Seq(Names) /\ Range(<<a, b, c>>) = {a, b, c}
    <3> TAKE a, b, c \in Names
    <3>1. <<a, b, c>> \in Seq(Names)
      OBVIOUS
    <3>2. Range(<<a, b, c>>) = {a, b, c}
      BY DEF Range
    <3> QED
      BY <3>1, <3>2
  <2> QED
    BY <2>1, <2>2, <2>3, <2>4
<1>2. /\ YMD \in Seq(Names) /\ YBD \in Seq(Names) /\ DBY \in Seq(Names) /\ DMY \in Seq(Names) /\ MDY \in Seq(Names)
      /\ HMS \in Seq(Names) /\ HM \in Seq(Names)
  BY <1>1, NamesAre, Zenon DEF YMD, YBD, DBY, DMY, MDY, HMS, HM
<1>3. /\ Range(YMD) = {"year", "mon", "mday"} /\ Range(YBD) = {"year", "month", "mday"}
      /\ Range(DBY) = {"mday", "month", "year"} /\ Range(DMY) = {"mday", "mon", "year"}
      /\ Range(MDY) = {"mon", "mday", "year"}
      /\ Range(HMS) = {"hour", "min", "sec"} /\ Range(HM) = {"hour", "min"}
  <2>1. Range(YMD) = {"year", "mon", "mday"}
    BY <1>1, NamesAre DEF YMD
  <2>2. Range(YBD) = {"year", "month", "mday"}
    BY <1>1, NamesAre DEF YBD
  <2>3. Range(DBY) = {"mday", "month", "year"}
    BY <1>1, NamesAre DEF DBY
  <2>4. Range(DMY) = {"mday", "mon", "year"}
    BY <1>1, NamesAre DEF DMY
  <2>5. Range(MDY) = {"mon", "mday", "year"}
    BY <1>1, NamesAre DEF MDY
  <2>6. Range(HMS) = {"hour", "min", "sec"}
    BY <1>1, NamesAre DEF HMS
  <2>7. Range(HM) = {"hour", "min"}
    BY <1>1, NamesAre, Zenon DEF HM
  <2> QED
    BY <2>1, <2>2, <2>3, <2>4, <2>5, <2>6, <2>7
<1>0. /\ <<"usec">> \in Seq(Names) /\ <<"msec">> \in Seq(Names) /\ <<"GMT">> \in Seq(Names)
      /\ <<"Z">> \in Seq(Names) /\ <<"zone">> \in Seq(Names)
      /\ <<"msec", "Z">> \in Seq(Names) /\ <<"usec", "Z">> \in Seq(Names)
      /\ Range(<<"usec">>) = {"usec"} /\ Range(<<"msec">>) = {"msec"} /\ Range(<<"GMT">>) = {"GMT"}
      /\ Range(<<"Z">>) = {"Z"} /\ Range(<<"zone">>) = {"zone"}
      /\ Range(<<"msec", "Z">>) = {"msec", "Z"} /\ Range(<<"usec", "Z">>) = {"usec", "Z"}
  BY <1>1, NamesAre
<1>4. Rests \subseteq Seq(Names)
  BY <1>0, <1>1, Zenon DEF Rests
<1>5. \A r \in Rests : Range(r) \in {{}, {"usec"}, {"msec"}, {"GMT"}, {"Z"}, {"zone"}, {"msec", "Z"}, {"usec", "Z"}}
  BY <1>0, <1>1, Zenon DEF Rests
<1>6. \A d \in Dates : d = <<>> \/ Range(d) \in {{"year", "mon", "mday"}, {"year", "month", "mday"}}
  <2>1. /\ {"mday", "month", "year"} = {"year", "month", "mday"} /\ {"mday", "mon", "year"} = {"year", "mon", "mday"}
        /\ {"mon", "mday", "year"} = {"year", "mon", "mday"}
    OBVIOUS
  <2> QED
    BY <1>3, <2>1, Zenon DEF Dates
<1> QED
  BY <1>1, <1>2, <1>3, <1>4, <1>5, <1>6, Zenon DEF Dates, Clocks


Splits(s) == \E d \in Dates, t \in Clocks, r \in Rests : s = d \o t \o r /\ (r # <<>> => t = HMS)

(* Every format of a date is a date, a time of day and a rest. *)
LEMMA FormatIs == \A f \in Formats \ Durations : Splits(FORMAT_STRINGS[f])
<1>1. \A s \in Seq(Names) : s \o <<>> = s /\ <<>> \o s = s
  BY ConcatEmptySeq
<1>2. /\ YMD \in Dates /\ YBD \in Dates /\ DBY \in Dates /\ DMY \in Dates /\ MDY \in Dates /\ <<>> \in Dates
      /\ HMS \in Clocks /\ HM \in Clocks /\ <<>> \in Clocks
      /\ <<>> \in Rests /\ <<"usec">> \in Rests /\ <<"msec">> \in Rests /\ <<"GMT">> \in Rests
      /\ <<"Z">> \in Rests /\ <<"zone">> \in Rests /\ <<"msec", "Z">> \in Rests /\ <<"usec", "Z">> \in Rests
  BY Zenon DEF Dates, Clocks, Rests
<1>3. \A d \in Dates, t \in Clocks : d \o t \in Seq(Names) /\ t \in Seq(Names) /\ d \in Seq(Names)
  BY PartsAre, ConcatProperties
<1>4. \A d \in Dates : Splits(d)
  <2>1. \A d \in Dates : d = d \o <<>> \o <<>>
    BY <1>1, <1>3, <1>2
  <2> QED
    BY <1>2, <2>1, Zenon DEF Splits
<1>5. \A t \in Clocks : Splits(t)
  <2>1. \A t \in Clocks : t = <<>> \o t \o <<>>
    BY <1>1, <1>3
  <2> QED
    BY <1>2, <2>1, Zenon DEF Splits
<1>6. \A d \in Dates : Splits(d \o HMS)
  <2>1. \A d \in Dates : d \o HMS = d \o HMS \o <<>>
    BY <1>1, <1>2, <1>3
  <2> QED
    BY <1>2, <2>1, Zenon DEF Splits
<1>7. \A r \in Rests : Splits(HMS \o r)
  <2>1. <<>> \o HMS = HMS
    BY <1>1, <1>2, <1>3
  <2> QED
    BY <1>2, <2>1, Zenon DEF Splits
<1>8. \A d \in Dates, r \in Rests : Splits(d \o HMS \o r)
  BY <1>2, Zenon DEF Splits
<1>9. Splits(FORMAT_STRINGS["YYYYMMMDD_HHMMSSUU"])
  BY <1>2, <1>8, Zenon DEF FORMAT_STRINGS
<1>10. Splits(FORMAT_STRINGS["YYYYMMDD_HHMMSSUU"])
  BY <1>2, <1>8, Zenon DEF FORMAT_STRINGS
<1>11. Splits(FORMAT_STRINGS["YYYYMMDD_HHMMSSMM"])
  BY <1>2, <1>8, Zenon DEF FORMAT_STRINGS
<1>12. Splits(FORMAT_STRINGS["YYYYMMDD_HHMMSSMM_WITHDASH"])
  BY <1>2, <1>8, Zenon DEF FORMAT_STRINGS
<1>13. Splits(FORMAT_STRINGS["YYYYMMMDD_HHMMSS"])
  BY <1>2, <1>6, Zenon DEF FORMAT_STRINGS
<1>14. Splits(FORMAT_STRINGS["YYYYMMDD_HHMMSS"])
  BY <1>2, <1>6, Zenon DEF FORMAT_STRINGS
<1>15. Splits(FORMAT_STRINGS["ISO_YYYYMMDDHHMMSS"])
  BY <1>2, <1>6, Zenon DEF FORMAT_STRINGS
<1>16. Splits(FORMAT_STRINGS["YYYYMMDDTHHMMSS"])
  BY <1>2, <1>6, Zenon DEF FORMAT_STRINGS
<1>17. Splits(FORMAT_STRINGS["ISO_YYYYMMDDTHHMMSS"])
  BY <1>2, <1>6, Zenon DEF FORMAT_STRINGS
<1>18. Splits(FORMAT_STRINGS["DDMMMYYYY_HHMMSS"])
  BY <1>2, <1>6, Zenon DEF FORMAT_STRINGS
<1>19. Splits(FORMAT_STRINGS["DDMMMYYYY_HHMMSS_NODASH"])
  BY <1>2, <1>6, Zenon DEF FORMAT_STRINGS
<1>20. Splits(FORMAT_STRINGS["YYYYMMMDD"])
  BY <1>2, <1>4, Zenon DEF FORMAT_STRINGS
<1>21. Splits(FORMAT_STRINGS["YYYYMMDD"])
  BY <1>2, <1>4, Zenon DEF FORMAT_STRINGS
<1>22. Splits(FORMAT_STRINGS["ISO_YYYYMMDD"])
  BY <1>2, <1>4, Zenon DEF FORMAT_STRINGS
<1>23. Splits(FORMAT_STRINGS["DDMMYYYY"])
  BY <1>2, <1>4, Zenon DEF FORMAT_STRINGS, DMY
<1>24. Splits(FORMAT_STRINGS["HHMMSSUU"])
  BY <1>2, <1>7, Zenon DEF FORMAT_STRINGS
<1>25. Splits(FORMAT_STRINGS["HHMMSSMM"])
  BY <1>2, <1>7, Zenon DEF FORMAT_STRINGS
<1>26. Splits(FORMAT_STRINGS["HHMMSS"])
  BY <1>2, <1>5, Zenon DEF FORMAT_STRINGS
<1>27. Splits(FORMAT_STRINGS["MMDDYYYY_HHMMSSMM"])
  BY <1>2, <1>8, Zenon DEF FORMAT_STRINGS, MDY
<1>28. Splits(FORMAT_STRINGS["RFC_822"])
  BY <1>2, <1>8, Zenon DEF FORMAT_STRINGS
<1>29. Splits(FORMAT_STRINGS["DDMMMYYYY"])
  BY <1>2, <1>4, Zenon DEF FORMAT_STRINGS
<1>30. Splits(FORMAT_STRINGS["ISO_8601_SEC_UTC"])
  BY <1>2, <1>8, Zenon DEF FORMAT_STRINGS
<1>31. Splits(FORMAT_STRINGS["ISO_8601_MSEC_UTC"])
  BY <1>2, <1>8, Zenon DEF FORMAT_STRINGS
<1>32. Splits(FORMAT_STRINGS["ISO_8601_USEC_UTC"])
  BY <1>2, <1>8, Zenon DEF FORMAT_STRINGS
<1>33. Splits(FORMAT_STRINGS["HHMM"])
  BY <1>2, <1>5, Zenon DEF FORMAT_STRINGS, HM
<1>34. Splits(FORMAT_STRINGS["DDMMMYYYY_HHMMSS_TZ_NODASH"])
  BY <1>2, <1>8, Zenon DEF FORMAT_STRINGS
<1>35. Formats \ Durations \subseteq {
              "YYYYMMMDD_HHMMSSUU", "YYYYMMDD_HHMMSSUU", "YYYYMMDD_HHMMSSMM",
       "YYYYMMMDD_HHMMSS", "YYYYMMDD_HHMMSS", "DDMMMYYYY_HHMMSS", "YYYYMMMDD", "YYYYMMDD",
       "DDMMYYYY", "HHMMSSUU", "HHMMSSMM", "HHMMSS", "ISO_YYYYMMDD", "ISO_YYYYMMDDHHMMSS",
       "MMDDYYYY_HHMMSSMM", "RFC_822", "DDMMMYYYY", "YYYYMMDDTHHMMSS", "ISO_YYYYMMDDTHHMMSS",
       "ISO_8601_SEC_UTC", "ISO_8601_MSEC_UTC", "ISO_8601_USEC_UTC",
       "YYYYMMDD_HHMMSSMM_WITHDASH", "HHMM", "DDMMMYYYY_HHMMSS_NODASH",
       "DDMMMYYYY_HHMMSS_TZ_NODASH"}
  BY SMT DEF Formats, FORMAT_STRINGS, Durations, Elapsed
<1> QED
  BY <1>9, <1>10, <1>11, <1>12, <1>13, <1>14, <1>15, <1>16, <1>17, <1>18, <1>19, <1>20, <1>21,
     <1>22, <1>23, <1>24, <1>25, <1>26, <1>27, <1>28, <1>29, <1>30, <1>31, <1>32, <1>33, <1>34,
     <1>35, Zenon
LEMMA ShownIs ==
  ASSUME NEW f \in Formats \ Durations
  PROVE  /\ FORMAT_STRINGS[f] \in Seq(Names)
         /\ Shows(f, "year") <=> Shows(f, "mday")
         /\ Shows(f, "year") <=> Shows(f, "mon") \/ Shows(f, "month")
         /\ ~(Shows(f, "mon") /\ Shows(f, "month"))
         /\ Shows(f, "hour") <=> Shows(f, "min")
         /\ Shows(f, "sec") => Shows(f, "hour")
         /\ Shows(f, "usec") \/ Shows(f, "msec") => Shows(f, "sec")
         /\ ~(Shows(f, "usec") /\ Shows(f, "msec"))
<1>1. PICK d \in Dates, t \in Clocks, r \in Rests :
        FORMAT_STRINGS[f] = d \o t \o r /\ (r # <<>> => t = HMS)
  BY FormatIs, Zenon DEF Splits
<1>2. d \in Seq(Names) /\ t \in Seq(Names) /\ r \in Seq(Names)
  BY PartsAre
<1>3. d \o t \in Seq(Names) /\ d \o t \o r \in Seq(Names)
  BY <1>2, ConcatProperties
<1>4. Range(d \o t \o r) = Range(d) \cup Range(t) \cup Range(r)
  <2>1. Range(d \o t) = Range(d) \cup Range(t)
    BY <1>2, RangeConcatenation
  <2>2. PICK dt \in Seq(Names) : dt = d \o t
    BY <1>3
  <2>3. Range(dt \o r) = Range(dt) \cup Range(r)
    BY <1>2, RangeConcatenation
  <2> QED
    BY <2>1, <2>2, <2>3
<1>5. \A n : Shows(f, n) <=> n \in Range(d) \/ n \in Range(t) \/ n \in Range(r)
  BY <1>1, <1>4, Zenon DEF Shows, Range
<1>6. Range(d) \in {{}, {"year", "mon", "mday"}, {"year", "month", "mday"}}
  BY PartsAre
<1>7. Range(t) \in {{}, {"hour", "min"}, {"hour", "min", "sec"}}
  BY PartsAre, Zenon DEF Clocks
<1>8. Range(r) \in {{}, {"usec"}, {"msec"}, {"GMT"}, {"Z"}, {"zone"}, {"msec", "Z"}, {"usec", "Z"}}
  BY PartsAre, Zenon
<1>9. Range(r) # {} => Range(t) = {"hour", "min", "sec"}
  BY <1>1, PartsAre, Zenon
<1> HIDE DEF Range
<1>10. PICK D, T, R : D = Range(d) /\ T = Range(t) /\ R = Range(r)
  OBVIOUS
<1>11. /\ "year" \in D <=> "mday" \in D
       /\ "year" \in D <=> "mon" \in D \/ "month" \in D
       /\ ~("mon" \in D /\ "month" \in D)
       /\ {"hour", "min", "sec", "usec", "msec"} \cap D = {}
  BY <1>6, <1>10
<1>12. /\ "hour" \in T <=> "min" \in T
       /\ "sec" \in T => "hour" \in T
       /\ {"year", "mon", "month", "mday", "usec", "msec"} \cap T = {}
  BY <1>7, <1>10
<1>13. /\ ~("usec" \in R /\ "msec" \in R)
       /\ {"year", "mon", "month", "mday", "hour", "min", "sec"} \cap R = {}
  BY <1>8, <1>10
<1>14. R # {} => "sec" \in T
  BY <1>9, <1>10
<1>15. \A n : Shows(f, n) <=> n \in D \/ n \in T \/ n \in R
  BY <1>5, <1>10, Zenon
<1> QED
  BY <1>1, <1>3, <1>11, <1>12, <1>13, <1>14, <1>15

(* What is printed of a time is read as it was, but for the microseconds   *)
(* that milliseconds do not show; what is not printed stays as it is.      *)
LEMMA ScannedIs ==
  ASSUME NEW f \in Formats \ Durations, NEW et, et = [x \in Fields |-> et[x]],
         NEW e, NEW v, \A i \in DOMAIN FORMAT_STRINGS[f] : v[i] = Printed(e, FORMAT_STRINGS[f][i]),
         NEW got, got = Scanned(f, v, et)
  PROVE  /\ got = [x \in Fields |-> got[x]]
         /\ \A n \in Names : Component(n) \in Fields /\ Shows(f, n) => got[Component(n)] = Meant(n, Printed(e, n))
         /\ \A x \in Fields : (\A n \in Names : Shows(f, n) => Component(n) # x) => got[x] = et[x]
<1> DEFINE F == FORMAT_STRINGS[f]
<1>1. \A i \in DOMAIN F : F[i] \in Names /\ Shows(f, F[i])
  <2>1. F \in Seq(Names)
    BY ShownIs
  <2>2. \A i \in DOMAIN F : F[i] \in Names
    BY <2>1
  <2> QED
    BY <2>2, Zenon DEF Shows
<1>2. \A m, n \in Names : Component(m) = Component(n) =>
        m = n \/ {m, n} = {"mon", "month"} \/ {m, n} = {"usec", "msec"}
  BY SMT DEF Component, Names
<1>3. \A i, j \in DOMAIN F : Component(F[i]) = Component(F[j]) => F[i] = F[j]
  <2> HIDE DEF F
  <2>1. TAKE i, j \in DOMAIN F
  <2>2. HAVE Component(F[i]) = Component(F[j])
  <2>3. PICK m, n \in Names : m = F[i] /\ n = F[j] /\ Shows(f, m) /\ Shows(f, n)
    BY <1>1, Zenon
  <2>4. {m, n} = {"mon", "month"} => Shows(f, "mon") /\ Shows(f, "month")
    BY <2>3
  <2>5. {m, n} = {"usec", "msec"} => Shows(f, "usec") /\ Shows(f, "msec")
    BY <2>3
  <2>6. m = n
    BY <1>2, <2>2, <2>3, <2>4, <2>5, ShownIs, Zenon
  <2> QED
    BY <2>3, <2>6
<1> HIDE DEF F
<1>4. DOMAIN et = Fields
  OBVIOUS
<1>5. got = [x \in Fields |-> 
        IF \E i \in DOMAIN F : Component(F[i]) = x
        THEN LET i == CHOOSE j \in DOMAIN F : Component(F[j]) = x IN Meant(F[i], v[i])
        ELSE et[x]]
  BY <1>4, Zenon DEF Scanned, F
<1>6. ASSUME NEW n \in Names, Component(n) \in Fields, Shows(f, n)
      PROVE  got[Component(n)] = Meant(n, Printed(e, n))
  <2>1. PICK k \in DOMAIN F : F[k] = n
    BY <1>6, Zenon DEF Shows, F
  <2>2. PICK i : i = CHOOSE j \in DOMAIN F : Component(F[j]) = Component(n)
    OBVIOUS
  <2>3. i \in DOMAIN F /\ Component(F[i]) = Component(n)
    BY <2>1, <2>2, Zenon
  <2>4. F[i] = n
    BY <1>3, <2>1, <2>3, Zenon
  <2>5. v[i] = Printed(e, n)
    BY <2>3, <2>4, Zenon DEF F
  <2>6. got[Component(n)] = Meant(F[i], v[i])
    BY <1>5, <1>6, <2>2, <2>3, Zenon
  <2> QED
    BY <2>4, <2>5, <2>6, Zenon
<1>7. ASSUME NEW x \in Fields, \A n \in Names : Shows(f, n) => Component(n) # x
      PROVE  got[x] = et[x]
  <2>1. ~\E i \in DOMAIN F : Component(F[i]) = x
    BY <1>1, <1>7, Zenon
  <2> QED
    BY <1>5, <2>1, Zenon
<1>8. got = [x \in Fields |-> got[x]]
  BY <1>5, Zenon
<1> QED
  BY <1>6, <1>7, <1>8, Zenon
LEMMA FieldsAre ==
  ASSUME NEW f \in Formats \ Durations, NEW et, et = [x \in Fields |-> et[x]],
         NEW e, e.mon \in Int, 
         NEW v, \A i \in DOMAIN FORMAT_STRINGS[f] : v[i] = Printed(e, FORMAT_STRINGS[f][i]),
         NEW got, got = Scanned(f, v, et)
  PROVE  /\ got = [x \in Fields |-> got[x]]
         /\ got.year = IF Shows(f, "year") THEN e.year ELSE et.year
         /\ got.mon = IF Shows(f, "year") THEN e.mon ELSE et.mon
         /\ got.mday = IF Shows(f, "year") THEN e.mday ELSE et.mday
         /\ got.hour = IF Shows(f, "hour") THEN e.hour ELSE et.hour
         /\ got.min = IF Shows(f, "hour") THEN e.min ELSE et.min
         /\ got.sec = IF Shows(f, "sec") THEN e.sec ELSE et.sec
         /\ got.usec = IF Shows(f, "usec") THEN e.usec
                       ELSE IF Shows(f, "msec") THEN 1000 * (e.usec \div 1000) ELSE et.usec
         /\ got.gmtoff = et.gmtoff
<1>1. /\ got = [x \in Fields |-> got[x]]
      /\ \A n \in Names : Component(n) \in Fields /\ Shows(f, n) => got[Component(n)] = Meant(n, Printed(e, n))
      /\ \A x \in Fields : (\A n \in Names : Shows(f, n) => Component(n) # x) => got[x] = et[x]
  BY ScannedIs
<1>2. \A n \in {"year", "mday", "hour", "min", "sec", "usec"} :
        /\ n \in Names /\ n \in Fields /\ Component(n) = n
        /\ Meant(n, Printed(e, n)) = e[n]
  BY SMT DEF Names, Fields, Component, Meant, Printed
<1>3. \A n \in Names : /\ Component(n) = "usec" => n = "usec" \/ n = "msec"
                       /\ Component(n) = "mon" => n = "mon" \/ n = "month"
                       /\ Component(n) \notin {"usec", "mon"} => Component(n) = n
                       /\ Component(n) # "gmtoff"
  BY SMT DEF Names, Component
<1>4. /\ "mon" \in Names /\ "month" \in Names /\ "msec" \in Names
      /\ Component("mon") = "mon" /\ Component("month") = "mon" /\ Component("msec") = "usec"
      /\ "mon" \in Fields /\ "usec" \in Fields /\ "gmtoff" \in Fields
  BY SMT DEF Names, Fields, Component
<1>5. Meant("mon", Printed(e, "mon")) = e.mon /\ Meant("month", Printed(e, "month")) = e.mon
  BY SMT DEF Meant, Printed
<1>6. Meant("msec", Printed(e, "msec")) = 1000 * (e.usec \div 1000)
  BY Zenon DEF Meant, Printed
<1>7. \A n \in {"year", "mday", "hour", "min", "sec"} : got[n] = IF Shows(f, n) THEN e[n] ELSE et[n]
  <2>1. TAKE n \in {"year", "mday", "hour", "min", "sec"}
  <2>2. n \in Names /\ n \in Fields /\ Component(n) = n /\ Meant(n, Printed(e, n)) = e[n]
    BY <1>2
  <2>3. n \notin {"usec", "mon"}
    OBVIOUS
  <2>4. CASE Shows(f, n)
    BY <1>1, <2>2, <2>4, Zenon
  <2>5. CASE ~Shows(f, n)
    <3>1. \A m \in Names : Shows(f, m) => Component(m) # n
      BY <1>3, <2>3, <2>5, Zenon
    <3> QED
      BY <1>1, <2>2, <2>5, <3>1, Zenon
  <2> QED
    BY <2>4, <2>5
<1>8. got.mon = IF Shows(f, "year") THEN e.mon ELSE et.mon
  <2>1. CASE Shows(f, "mon")
    BY <1>1, <1>4, <1>5, <2>1, ShownIs, Zenon
  <2>2. CASE Shows(f, "month")
    BY <1>1, <1>4, <1>5, <2>2, ShownIs, Zenon
  <2>3. CASE ~Shows(f, "mon") /\ ~Shows(f, "month")
    <3>1. \A m \in Names : Shows(f, m) => Component(m) # "mon"
      BY <1>3, <2>3, Zenon
    <3> QED
      BY <1>1, <1>4, <2>3, <3>1, ShownIs, Zenon
  <2> QED
    BY <2>1, <2>2, <2>3
<1>9. got.usec = IF Shows(f, "usec") THEN e.usec
                 ELSE IF Shows(f, "msec") THEN 1000 * (e.usec \div 1000) ELSE et.usec
  <2>1. CASE Shows(f, "usec")
    <3>1. "usec" \in Names /\ Component("usec") = "usec" /\ Meant("usec", Printed(e, "usec")) = e.usec
      BY <1>2
    <3> QED
      BY <1>1, <1>4, <2>1, <3>1, Zenon
  <2>2. CASE ~Shows(f, "usec") /\ Shows(f, "msec")
    <3>1. got.usec = Meant("msec", Printed(e, "msec"))
      BY <1>1, <1>4, <2>2, Zenon
    <3> QED
      BY <1>6, <2>2, <3>1
  <2>3. CASE ~Shows(f, "usec") /\ ~Shows(f, "msec")
    <3>1. \A m \in Names : Shows(f, m) => Component(m) # "usec"
      BY <1>3, <2>3, Zenon
    <3>2. got.usec = et.usec
      BY <1>1, <1>4, <3>1, Zenon
    <3> QED
      BY <2>3, <3>2, Zenon
  <2> QED
    BY <2>1, <2>2, <2>3, Zenon
<1>10. got.gmtoff = et.gmtoff
  BY <1>1, <1>3, <1>4, Zenon
<1>11. Shows(f, "year") <=> Shows(f, "mday")
  BY ShownIs
<1>12. Shows(f, "hour") <=> Shows(f, "min")
  BY ShownIs
<1>13. /\ got.year = IF Shows(f, "year") THEN e.year ELSE et.year
       /\ got.mday = IF Shows(f, "mday") THEN e.mday ELSE et.mday
       /\ got.hour = IF Shows(f, "hour") THEN e.hour ELSE et.hour
       /\ got.min = IF Shows(f, "min") THEN e.min ELSE et.min
       /\ got.sec = IF Shows(f, "sec") THEN e.sec ELSE et.sec
  BY <1>7, Zenon
<1> QED
  BY <1>1, <1>8, <1>9, <1>10, <1>11, <1>12, <1>13, Zenon

(* A date that is read, with what the clock adds to it. *)
DayOf(f, e, c, tz) == IF Shows(f, "year") THEN DaysOf(e.year, e.mon, e.mday) ELSE Wall(c, tz) \div DAY
TodOf(f, e, c, tz) ==
  IF Shows(f, "sec") THEN e.hour * HOUR + e.min * MINUTE + e.sec
  ELSE IF Shows(f, "hour") THEN e.hour * HOUR + e.min * MINUTE
  ELSE Wall(c, tz) % DAY
UsecOf(f, e, c) ==
  IF Shows(f, "usec") THEN e.usec
  ELSE IF Shows(f, "msec") THEN 1000 * (e.usec \div 1000)
  ELSE IF Shows(f, "hour") THEN 0 ELSE c.usec

(* What ScanDate reads: the day and the time of day where the format shows them,*)
(* and the clock's where it does not.                                        *)
LEMMA DateIs ==
  ASSUME NEW f \in Formats \ Durations, NEW c \in Times, HasDate(c), NEW tz \in Zones,
         NEW e, e.year \in Years, e.mon \in 0..11, e.mday \in Int,
         e.hour \in Int, e.min \in Int, e.sec \in Int,
         NEW shown, \A i \in DOMAIN FORMAT_STRINGS[f] : shown.values[i] = Printed(e, FORMAT_STRINGS[f][i]),
         NEW day, day = DayOf(f, e, c, tz), NEW tod, tod = TodOf(f, e, c, tz),
         NEW usec, usec = UsecOf(f, e, c)
  PROVE  /\ day \in Int /\ tod \in Int
         /\ ScanDate(f, shown, tz, c) = TimeAt(day * DAY + tod, Wall(c, tz) - c.sec, usec)
<1> DEFINE offset == Off(c, tz)
           wall == Wall(c, tz)
           ec == apr_time_exp(c, tz)
           et == Cleared(f, ec)
           got == Scanned(f, shown.values, et)
<1>1. /\ wall \in Int /\ offset \in Int /\ wall = c.sec + offset
      /\ ec = [x \in Fields |-> ec[x]]
      /\ ec.year \in Years /\ ec.mon \in 0..11 /\ ec.mday \in Int
      /\ DaysOf(ec.year, ec.mon, ec.mday) = wall \div DAY
      /\ ec.hour = (wall % DAY) \div HOUR /\ ec.min = (wall % HOUR) \div MINUTE
      /\ ec.sec = wall % MINUTE /\ ec.usec = c.usec /\ ec.gmtoff = offset
  <2>1. /\ offset \in Int /\ wall = c.sec + offset /\ InCalendar(c.sec + offset)
        /\ ec = apr_time_exp_tz(c, offset)
    BY WallIs
  <2> HIDE DEF ec, wall, offset
  <2> QED
    BY <2>1, ExpIs
<1> HIDE DEF ec, wall, offset
<1>2. /\ et = [x \in Fields |-> et[x]] /\ et.year = ec.year /\ et.mon = ec.mon /\ et.mday = ec.mday
      /\ et.hour = ec.hour /\ et.min = ec.min /\ et.gmtoff = ec.gmtoff
      /\ et.sec = (IF Shows(f, "hour") /\ ~Shows(f, "sec") THEN 0 ELSE ec.sec)
      /\ et.usec = (IF Shows(f, "hour") /\ ~Shows(f, "usec") /\ ~Shows(f, "msec") THEN 0 ELSE ec.usec)
  BY <1>1 DEF Cleared, Fields
<1> HIDE DEF et
<1>3. /\ got.year = IF Shows(f, "year") THEN e.year ELSE et.year
      /\ got.mon = IF Shows(f, "year") THEN e.mon ELSE et.mon
      /\ got.mday = IF Shows(f, "year") THEN e.mday ELSE et.mday
      /\ got.hour = IF Shows(f, "hour") THEN e.hour ELSE et.hour
      /\ got.min = IF Shows(f, "hour") THEN e.min ELSE et.min
      /\ got.sec = IF Shows(f, "sec") THEN e.sec ELSE et.sec
      /\ got.usec = IF Shows(f, "usec") THEN e.usec
                    ELSE IF Shows(f, "msec") THEN 1000 * (e.usec \div 1000) ELSE et.usec
      /\ got.gmtoff = et.gmtoff
  <2>1. e.mon \in Int
    OBVIOUS
  <2> QED
    BY <1>2, <2>1, FieldsAre DEF got
<1> HIDE DEF got
<1>4. PICK d, r, h, a, m, b, z \in Int :
        /\ wall \div DAY = d /\ wall % DAY = r /\ r \div HOUR = h /\ wall % HOUR = a
        /\ a \div MINUTE = m /\ wall % MINUTE = b /\ wall % 1 = 0
        /\ (d + 4) % 7 = z /\ (wall - 3 * DAY) % (7 * DAY) = z * DAY + r
        /\ d * DAY + r = wall /\ h * HOUR + a = r /\ m * MINUTE + b = a
  BY <1>1, ClockIs
<1>5. /\ ec.hour = h /\ ec.min = m /\ ec.sec = b /\ DaysOf(ec.year, ec.mon, ec.mday) = d
      /\ wall \div DAY = d /\ wall % DAY = r /\ h * HOUR + a = r /\ m * MINUTE + b = a
  BY <1>1, <1>4, Zenon
<1>6. DAY \in Int /\ HOUR \in Int /\ MINUTE \in Int
  BY LengthsIs
<1>7. day \in Int /\ got.mon \in 0..11 /\ DaysOf(got.year, got.mon, got.mday) = day
  <2>1. DaysOf(e.year, e.mon, e.mday) \in Int
    BY DaysOfIs
  <2>2. CASE Shows(f, "year")
    BY <1>3, <2>1, <2>2 DEF DayOf
  <2>3. CASE ~Shows(f, "year")
    BY <1>1, <1>2, <1>3, <1>5, <2>3 DEF wall, DayOf
  <2> QED
    BY <2>2, <2>3
<1>8. /\ tod \in Int /\ got.hour \in Int /\ got.min \in Int /\ got.sec \in Int
      /\ got.hour * HOUR + got.min * MINUTE + got.sec = tod
  <2>1. CASE Shows(f, "sec")
    <3>1. got.hour = e.hour /\ got.min = e.min /\ got.sec = e.sec
      BY <1>3, <2>1, ShownIs, Zenon
    <3> QED
      BY <2>1, <3>1, LengthsIs DEF TodOf
  <2>2. CASE ~Shows(f, "sec") /\ Shows(f, "hour")
    <3>1. got.hour = e.hour /\ got.min = e.min /\ got.sec = 0
      BY <1>2, <1>3, <2>2
    <3> QED
      BY <2>2, <3>1, LengthsIs DEF TodOf
  <2>3. CASE ~Shows(f, "sec") /\ ~Shows(f, "hour")
    <3>1. got.hour = h /\ got.min = m /\ got.sec = b
      BY <1>2, <1>3, <1>5, <2>3
    <3>2. tod = r
      BY <1>5, <2>3 DEF wall, TodOf
    <3> QED
      BY <1>5, <3>1, <3>2, LengthsIs
  <2> QED
    BY <2>1, <2>2, <2>3, ShownIs
<1>9. got.usec = usec
  <2>1. (Shows(f, "usec") \/ Shows(f, "msec")) => Shows(f, "hour")
    BY ShownIs
  <2> QED
    BY <1>1, <1>2, <1>3, <2>1 DEF UsecOf
<1>10. PICK s \in Int : /\ s = day * DAY + tod
                        /\ s = DaysOf(got.year, got.mon, got.mday) * DAY + got.hour * HOUR + got.min * MINUTE + got.sec
  <2>1. PICK n, x, y \in Int : n = day * DAY /\ x = got.hour * HOUR /\ y = got.min * MINUTE
    BY <1>6, <1>7, <1>8
  <2>2. n + x + y + got.sec = n + (x + y + got.sec)
    BY <1>8
  <2> QED
    BY <1>7, <1>8, <2>1, <2>2
<1>11. apr_time_exp_gmt_get(got) = TimeAt(s, got.gmtoff, got.usec)
  BY <1>7, <1>10, GetIs, Zenon
<1>12. got.gmtoff = wall - c.sec
  <2>1. c.sec \in Int
    BY IsTime
  <2> QED
    BY <1>1, <1>2, <1>3, <2>1
<1>13. ScanDate(f, shown, tz, c) = apr_time_exp_gmt_get(got)
  BY Zenon DEF ScanDate, got, et, ec
<1> QED
  <2>1. s = day * DAY + tod /\ wall = Wall(c, tz)
    BY <1>10 DEF wall
  <2> QED
    BY <1>7, <1>8, <1>9, <1>11, <1>12, <1>13, <2>1
(* An instant before 1970 is refused. *)
LEMMA TimeAtIs ==
  ASSUME NEW s \in Int, NEW g, NEW u
  PROVE  /\ s < 0 => TimeAt(s, g, u) = Thrown
         /\ ~(s < 0) => TimeAt(s, g, u) = Made(apr_time_make(s - g, u))
BY Zenon DEF TimeAt

-----------------------------------------------------------------------------
(* Texts of dates.  MAX_TIME is read from one, and is a Time. *)
LEMMA MaxTimeIs ==
  ASSUME NEW c \in Times, HasDate(c)
  PROVE  MAX_TIME(c) \in Times
<1> DEFINE f == "ISO_YYYYMMDD"
           shown == Text(<<2030, 1, 1>>)
           e == [year |-> 2030, mon |-> 0, mday |-> 1, hour |-> 0, min |-> 0, sec |-> 0, usec |-> 0]
<1>1. f \in Formats \ Durations /\ FORMAT_STRINGS[f] = YMD
  BY SMT DEF Formats, FORMAT_STRINGS, Durations, Elapsed
<1>2. \A i \in DOMAIN FORMAT_STRINGS[f] : shown.values[i] = Printed(e, FORMAT_STRINGS[f][i])
  <2>1. shown.values = <<2030, 1, 1>> /\ DOMAIN YMD = 1..3
        /\ YMD[1] = "year" /\ YMD[2] = "mon" /\ YMD[3] = "mday"
    BY DEF Text, YMD
  <2>2. Printed(e, "year") = 2030 /\ Printed(e, "mon") = 1 /\ Printed(e, "mday") = 1
    BY SMT DEF Printed
  <2> HIDE DEF e, shown, f
  <2>3. /\ shown.values[1] = Printed(e, YMD[1]) /\ shown.values[2] = Printed(e, YMD[2])
        /\ shown.values[3] = Printed(e, YMD[3])
    BY <2>1, <2>2, SMT
  <2> QED
    BY <1>1, <2>1, <2>3
<1>3. /\ e.year \in Years /\ e.mon \in 0..11 /\ e.mday \in Int /\ e.hour \in Int /\ e.min \in Int /\ e.sec \in Int
  BY SMT DEF Years
<1>4. "UTC" \in Zones
  BY DEF Zones
<1> HIDE DEF f, shown, e
<1>5. PICK day, tod, usec : day = DayOf(f, e, c, "UTC") /\ tod = TodOf(f, e, c, "UTC") /\ usec = UsecOf(f, e, c)
  OBVIOUS
<1>7. /\ day \in Int /\ tod \in Int
      /\ ScanDate(f, shown, "UTC", c) = TimeAt(day * DAY + tod, Wall(c, "UTC") - c.sec, usec)
  BY <1>1, <1>2, <1>3, <1>4, <1>5, DateIs
<1>8. usec \in Int
  <2>1. e.usec = 0 /\ 1000 * (0 \div 1000) = 0 /\ c.usec \in Int
    BY IsTime, SMT DEF e
  <2> QED
    BY <1>5, <2>1 DEF UsecOf
<1>9. Wall(c, "UTC") \in Int /\ c.sec \in Int
  <2>1. Off(c, "UTC") \in Int /\ Wall(c, "UTC") = c.sec + Off(c, "UTC") /\ c.sec \in Int
    BY <1>4, WallIs, IsTime
  <2> QED
    BY <2>1
<1>10. (day * DAY + tod) - (Wall(c, "UTC") - c.sec) \in Int
  BY <1>7, <1>9, LengthsIs
<1>11. apr_time_make(0, 0) \in Times /\ apr_time_make((day * DAY + tod) - (Wall(c, "UTC") - c.sec), usec) \in Times
  <2>1. 0 \in Int
    OBVIOUS
  <2> QED
    BY <1>8, <1>10, <2>1, MakesTime, Zenon
<1>12. Thrown.time \in Times /\ ScanDate(f, shown, "UTC", c).time \in Times
  <2>1. Thrown.time \in Times
    BY <1>11 DEF Thrown
  <2>2. Made(apr_time_make((day * DAY + tod) - (Wall(c, "UTC") - c.sec), usec)).time \in Times
    BY <1>11 DEF Made
  <2> QED
    <3>1. PICK s \in Int : s = day * DAY + tod
      BY <1>7, LengthsIs
    <3>2. PICK g : g = Wall(c, "UTC") - c.sec
      OBVIOUS
    <3>4. Made(apr_time_make(s - g, usec)).time \in Times
      BY <2>2, <3>1, <3>2
    <3>5. TimeAt(s, g, usec) = Thrown \/ TimeAt(s, g, usec) = Made(apr_time_make(s - g, usec))
      BY TimeAtIs, Zenon
    <3>3. TimeAt(s, g, usec).time \in Times
      BY <2>1, <3>4, <3>5, Zenon
    <3> QED
      BY <1>7, <2>1, <3>1, <3>2, <3>3
<1>13. Parse(f, shown, "UTC", c) \in {Thrown, ScanDate(f, shown, "UTC", c)}
  BY <1>1, Zenon DEF Parse, Durations
<1>14. MAX_TIME(c) = Parse(f, shown, "UTC", c).time
  BY DEF MAX_TIME, f, shown
<1> QED
  BY <1>12, <1>13, <1>14, Zenon

(* What Format shows is as long as the format. *)
LEMMA FormatShows ==
  ASSUME NEW w, NEW f \in Formats \ Durations, NEW tz, NEW shown, shown = Format(w, f, tz)
  PROVE  /\ Len(shown.values) = Len(FORMAT_STRINGS[f]) /\ Len(FORMAT_STRINGS[f]) \in Nat
         /\ shown = Text(shown.values) /\ shown.bad = 0
         /\ DOMAIN shown.values = 1..Len(FORMAT_STRINGS[f])
         /\ \A i \in DOMAIN FORMAT_STRINGS[f] : shown.values[i] = Printed(apr_time_exp(w, tz), FORMAT_STRINGS[f][i])
<1> DEFINE F == FORMAT_STRINGS[f]
           v == [i \in DOMAIN F |-> Printed(apr_time_exp(w, tz), F[i])]
<1>1. shown = Text(v)
  BY Zenon DEF Format, Durations
<1>2. F \in Seq(Names)
  BY ShownIs
<1>3. Len(F) \in Nat /\ DOMAIN F = 1..Len(F)
  <2> HIDE DEF F
  <2> QED
    BY <1>2
<1>4. DOMAIN v = 1..Len(F) /\ \A i \in DOMAIN F : v[i] = Printed(apr_time_exp(w, tz), F[i])
  BY <1>3, Zenon
<1> HIDE DEF v, F
<1>5. Len(v) = Len(F)
  BY <1>3, <1>4
<1>6. shown.values = v /\ shown.bad = 0
  BY <1>1 DEF Text
<1> QED
  BY <1>1, <1>3, <1>4, <1>5, <1>6, Zenon DEF F

(* A date that was written is read as it was, as far as the format shows it. *)
LEMMA DateRead ==
  ASSUME NEW f \in Formats \ Durations, f # "YYYYMMDDTHHMMSS", NEW tz \in Zones,
         checkTimezoneFormatConsistency(f, tz),
         NEW w \in Times, HasDate(w), NEW c \in Times, HasDate(c)
  PROVE  Parse(f, Format(w, f, tz), tz, c) = Made(ReadExpected(w, f, tz, c))
<1> DEFINE e == apr_time_exp(w, tz)
           shown == Format(w, f, tz)
           wall == Wall(w, tz)
           clock == Wall(c, tz)
<1>1. /\ wall \in Int /\ 0 <= wall
      /\ e.year \in Years /\ e.mon \in 0..11 /\ e.mday \in Int
      /\ DaysOf(e.year, e.mon, e.mday) = wall \div DAY
      /\ e.hour = (wall % DAY) \div HOUR /\ e.min = (wall % HOUR) \div MINUTE
      /\ e.sec = wall % MINUTE /\ e.usec = w.usec
  <2>1. PICK offset \in Int : /\ wall = w.sec + offset /\ InCalendar(w.sec + offset)
                              /\ e = apr_time_exp_tz(w, offset)
    BY WallIs
  <2> HIDE DEF e, wall
  <2> QED
    BY <2>1, ExpIs
<1>2. clock \in Int /\ 0 <= clock
  <2>1. PICK offset \in Int : clock = c.sec + offset /\ InCalendar(c.sec + offset)
    BY WallIs
  <2> HIDE DEF clock
  <2> QED
    BY <2>1, ExpIs
<1>0. shown = Format(w, f, tz)
  OBVIOUS
<1> HIDE DEF shown
<1>3. \A i \in DOMAIN FORMAT_STRINGS[f] : shown.values[i] = Printed(e, FORMAT_STRINGS[f][i])
  BY <1>0, FormatShows
<1>4. Parse(f, shown, tz, c) = ScanDate(f, shown, tz, c)
  <2>1. Len(shown.values) = Len(FORMAT_STRINGS[f]) /\ Len(FORMAT_STRINGS[f]) \in Nat /\ shown.bad = 0
    BY <1>0, FormatShows
  <2>2. ~Lacks(f, shown)
    BY <2>1 DEF Lacks
  <2> QED
    BY <2>1, <2>2, Zenon DEF Parse, Durations
<1> HIDE DEF e, wall, clock
<1>5. PICK d, r, h, a, m, b, z \in Int :
        /\ wall \div DAY = d /\ wall % DAY = r /\ r \div HOUR = h /\ wall % HOUR = a
        /\ a \div MINUTE = m /\ wall % MINUTE = b /\ wall % 1 = 0
        /\ (d + 4) % 7 = z /\ (wall - 3 * DAY) % (7 * DAY) = z * DAY + r
        /\ d * DAY + r = wall /\ h * HOUR + a = r /\ m * MINUTE + b = a
        /\ 0 <= r /\ 0 <= h /\ h < 24 /\ 0 <= m /\ m < 60 /\ 0 <= b /\ b < 60 /\ (0 <= wall => 0 <= d)
  BY <1>1, ClockIs
<1>6. PICK cd, cr, ch, ca, cm, cb, cz \in Int :
        /\ clock \div DAY = cd /\ clock % DAY = cr /\ cr \div HOUR = ch /\ clock % HOUR = ca
        /\ ca \div MINUTE = cm /\ clock % MINUTE = cb /\ clock % 1 = 0
        /\ (cd + 4) % 7 = cz /\ (clock - 3 * DAY) % (7 * DAY) = cz * DAY + cr
        /\ cd * DAY + cr = clock /\ ch * HOUR + ca = cr /\ cm * MINUTE + cb = ca
        /\ 0 <= cr /\ 0 <= ch /\ ch < 24 /\ 0 <= cm /\ cm < 60 /\ 0 <= cb /\ cb < 60 /\ (0 <= clock => 0 <= cd)
  BY <1>2, ClockIs
<1>7. /\ wall \div DAY = d /\ wall % DAY = r /\ wall % MINUTE = b /\ clock \div DAY = cd /\ clock % DAY = cr
      /\ e.hour = h /\ e.min = m /\ e.sec = b /\ DaysOf(e.year, e.mon, e.mday) = d
      /\ 0 <= d /\ 0 <= cd /\ 0 <= r /\ 0 <= cr
      /\ h * HOUR + a = r /\ m * MINUTE + b = a /\ 0 <= h /\ 0 <= m
  BY <1>1, <1>2, <1>5, <1>6, Zenon
<1>8. PICK day : day = IF Shows(f, "year") THEN d ELSE cd
  OBVIOUS
<1>9. PICK tod : tod = IF Shows(f, "sec") THEN r ELSE IF Shows(f, "hour") THEN r - b ELSE cr
  OBVIOUS
<1>10. PICK usec : usec = IF Shows(f, "hour") THEN w.usec - (w.usec % Grain(f)) ELSE c.usec
  OBVIOUS
<1>11. day = DayOf(f, e, c, tz)
  BY <1>7, <1>8, Zenon DEF clock, DayOf
<1>12. tod = TodOf(f, e, c, tz)
  <2>1. h * HOUR + m * MINUTE + b = r /\ h * HOUR + m * MINUTE = r - b
    BY <1>7, LengthsIs
  <2> QED
    BY <1>7, <1>9, <2>1, Zenon DEF clock, TodOf
<1>13. usec = UsecOf(f, e, c)
  <2>1. w.usec \in 0..(MICROS - 1) /\ w.usec \in Int
    BY IsTime
  <2>2. w.usec % 1 = 0 /\ w.usec - 0 = w.usec
    BY <2>1
  <2>3. 1000 * (w.usec \div 1000) = w.usec - (w.usec % 1000)
    <3>1. PICK u, v \in Int : u = w.usec \div 1000 /\ v = w.usec % 1000 /\ w.usec = 1000 * u + v
      BY <2>1
    <3> QED
      BY <3>1
  <2>4. w.usec - (w.usec % MICROS) = 0
    BY <2>1, DivSmall, MicrosIs
  <2>5. CASE Shows(f, "usec")
    <3>1. Grain(f) = 1 /\ Shows(f, "hour")
      BY <2>5, ShownIs DEF Grain
    <3> QED
      BY <1>1, <1>10, <2>2, <2>5, <3>1 DEF UsecOf
  <2>6. CASE ~Shows(f, "usec") /\ Shows(f, "msec")
    <3>1. Grain(f) = 1000 /\ Shows(f, "hour")
      BY <2>6, ShownIs DEF Grain
    <3> QED
      BY <1>1, <1>10, <2>3, <2>6, <3>1 DEF UsecOf
  <2>7. CASE ~Shows(f, "usec") /\ ~Shows(f, "msec")
    <3>1. Grain(f) = MICROS
      BY <2>7 DEF Grain
    <3> QED
      BY <1>10, <2>4, <2>7, <3>1 DEF UsecOf
  <2> QED
    BY <2>5, <2>6, <2>7
<1>14. e.hour \in Int /\ e.min \in Int /\ e.sec \in Int
  BY <1>7
<1>15. ScanDate(f, shown, tz, c) = TimeAt(day * DAY + tod, Wall(c, tz) - c.sec, usec)
  BY <1>1, <1>3, <1>11, <1>12, <1>13, <1>14, DateIs
<1>16. day * DAY + tod \in Int /\ ~(day * DAY + tod < 0)
  <2>1. day \in Int /\ 0 <= day
    BY <1>7, <1>8
  <2>2. 0 <= r - b
    BY <1>7, LengthsIs
  <2>3. tod \in Int /\ 0 <= tod
    BY <1>7, <1>9, <2>2
  <2> QED
    BY <2>1, <2>3, LengthsIs
<1>17. ReadExpected(w, f, tz, c) = apr_time_make(day * DAY + tod - (clock - c.sec), usec)
  <2>1. ReadExpected(w, f, tz, c) =
          apr_time_make((IF Shows(f, "year") THEN wall \div DAY ELSE clock \div DAY) * DAY
                        + (IF Shows(f, "sec") THEN wall % DAY
                           ELSE IF Shows(f, "hour") THEN (wall % DAY) - (wall % MINUTE) ELSE clock % DAY)
                        - (clock - c.sec),
                        IF Shows(f, "hour") THEN w.usec - (w.usec % Grain(f)) ELSE c.usec)
    BY Zenon DEF ReadExpected, wall, clock
  <2> QED
    BY <1>7, <1>8, <1>9, <1>10, <2>1, Zenon
<1>18. ScanDate(f, shown, tz, c) = Made(apr_time_make(day * DAY + tod - (clock - c.sec), usec))
  <2>1. PICK s \in Int : s = day * DAY + tod
    BY <1>16
  <2>2. PICK g : g = clock - c.sec
    OBVIOUS
  <2>3. TimeAt(s, g, usec) = Made(apr_time_make(s - g, usec))
    BY <1>16, <2>1, TimeAtIs
  <2>4. ScanDate(f, shown, tz, c) = TimeAt(s, g, usec)
    BY <1>15, <2>1, <2>2, Zenon DEF clock
  <2>5. s - g = day * DAY + tod - (clock - c.sec)
    <3>1. c.sec \in Int /\ tod \in Int /\ day \in Int
      BY <1>7, <1>8, <1>9, IsTime
    <3>2. PICK n \in Int : n = day * DAY
      BY <3>1, LengthsIs
    <3> QED
      BY <1>2, <2>1, <2>2, <3>1, <3>2
  <2> QED
    BY <2>3, <2>4, <2>5
<1> QED
  BY <1>4, <1>17, <1>18, Zenon DEF shown
-----------------------------------------------------------------------------
(* Texts of durations.  operator% of a duration that is not negative. *)
LEMMA RemIs ==
  ASSUME NEW t \in Times, 0 <= t.sec, NEW n \in Lengths
  PROVE  /\ Rem(t, n) \in Times /\ Rem(t, n).sec = t.sec % n /\ Rem(t, n).usec = t.usec
         /\ Quot(t, n) = t.sec \div n
<1>1. PICK q, p, m \in Int : /\ q = t.sec \div n /\ p = q * n /\ m = t.sec % n /\ t.sec - p = m
  <2>1. PICK x \in Int : x = t.sec
    BY IsTime
  <2>2. x \div n \in Int /\ (x \div n) * n \in Int /\ x - (x \div n) * n = x % n
    BY QuotientIs
  <2>3. x % n \in Int
    BY <2>1, <2>2
  <2> QED
    BY <2>1, <2>2, <2>3
<1>2. Quot(t, n) = q
  BY <1>1, IsTime DEF Quot
<1>3. PICK u \in Times : u = apr_time_make(p, 0) /\ u.sec = p /\ u.usec = 0
  <2>1. 0 \in 0..(MICROS - 1) /\ 0 \in Int
    BY MicrosIs
  <2> QED
    BY <1>1, <2>1, MakesTime
<1>4. /\ Minus(t, u) \in Times /\ Minus(t, u).sec = t.sec - u.sec - (IF t.usec < u.usec THEN 1 ELSE 0)
      /\ Minus(t, u).usec = t.usec - u.usec + (IF t.usec < u.usec THEN MICROS ELSE 0)
  BY MinusIs, Zenon
<1>5. Minus(t, u).sec = m /\ Minus(t, u).usec = t.usec
  BY <1>1, <1>3, <1>4, IsTime
<1>6. Rem(t, n) = Minus(t, u)
  BY <1>1, <1>2, <1>3, Zenon DEF Rem
<1> QED
  BY <1>1, <1>2, <1>4, <1>5, <1>6, Zenon

(* The formats of durations. *)
LEMMA DurationsAre ==
  /\ Durations = {"SSS_MMM", "SSS_UUU", "OFFSET"} /\ Durations \subseteq Formats
  /\ FORMAT_STRINGS["SSS_MMM"] = <<"seconds", "msec">> /\ FORMAT_STRINGS["SSS_UUU"] = <<"seconds", "usec">>
  /\ FORMAT_STRINGS["OFFSET"] = <<"days", "hours", "minutes", "seconds", "usec">>
<1>1. /\ Durations = {"SSS_MMM", "SSS_UUU", "OFFSET"}
  BY DEF Durations, Elapsed
<1>2. {"SSS_MMM", "SSS_UUU", "OFFSET"} \subseteq Formats
  BY SMT DEF Formats, FORMAT_STRINGS
<1>3. FORMAT_STRINGS["SSS_MMM"] = <<"seconds", "msec">>
  BY Zenon DEF FORMAT_STRINGS
<1>4. FORMAT_STRINGS["SSS_UUU"] = <<"seconds", "usec">>
  BY Zenon DEF FORMAT_STRINGS
<1>5. FORMAT_STRINGS["OFFSET"] = <<"days", "hours", "minutes", "seconds", "usec">>
  BY Zenon DEF FORMAT_STRINGS
<1> QED
  BY <1>1, <1>2, <1>3, <1>4, <1>5

(* What Format shows of a duration. *)
LEMMA DurationText ==
  ASSUME NEW w, NEW f \in Durations, NEW tz
  PROVE  Format(w, f, tz) = Text(IF f = "OFFSET" THEN FormatOffset(w) ELSE FormatElapsed(w, f))
BY DurationsAre DEF Format, Elapsed

(* A duration is written with as many numbers as its format has. *)
LEMMA DurationLength ==
  ASSUME NEW w, NEW f \in Durations, NEW tz, NEW v, Format(w, f, tz) = Text(v)
  PROVE  Len(v) = Len(FORMAT_STRINGS[f]) /\ Len(v) \in Nat /\ DOMAIN v = 1..Len(v)
<1>0. v = IF f = "OFFSET" THEN FormatOffset(w) ELSE FormatElapsed(w, f)
  BY DurationText DEF Text
<1>1. CASE f = "OFFSET"
  <2>1. PICK a, b, c, d, e : FormatOffset(w) = <<a, b, c, d, e>>
    BY DEF FormatOffset
  <2> QED
    BY <1>0, <1>1, <2>1, DurationsAre
<1>2. CASE f # "OFFSET"
  <2>1. PICK a, b : FormatElapsed(w, f) = <<a, b>>
    BY DEF FormatElapsed
  <2> QED
    BY <1>0, <1>2, <2>1, DurationsAre
<1> QED
  BY <1>1, <1>2

(* and Parse hands what was written to the scan of its kind. *)
LEMMA DurationScanned ==
  ASSUME NEW w, NEW f \in Durations, NEW tz, NEW c
  PROVE  Parse(f, Format(w, f, tz), tz, c) =
           IF f = "OFFSET" THEN ScanOffset(FormatOffset(w)) ELSE ScanElapsed(f, FormatElapsed(w, f))
<1>1. PICK v : v = (IF f = "OFFSET" THEN FormatOffset(w) ELSE FormatElapsed(w, f)) /\ Format(w, f, tz) = Text(v)
  BY DurationText
<1>2. Len(v) = Len(FORMAT_STRINGS[f]) /\ Len(v) \in Nat
  BY <1>1, DurationLength
<1>3. Text(v).values = v /\ Text(v).bad = 0
  BY DEF Text
<1>4. ~Lacks(f, Text(v))
  BY <1>2, <1>3 DEF Lacks
<1>5. checkTimezoneFormatConsistency(f, tz) /\ f # "YYYYMMDDTHHMMSS" /\ (f \in Elapsed <=> f # "OFFSET")
  BY DurationsAre DEF checkTimezoneFormatConsistency, AlwaysUTC, Elapsed
<1>6. Parse(f, Text(v), tz, c) = IF f = "OFFSET" THEN ScanOffset(v) ELSE ScanElapsed(f, v)
  BY <1>3, <1>4, <1>5, Zenon DEF Parse
<1> QED
  BY <1>1, <1>6

(* Seconds with a fraction are read as they were written. *)
LEMMA ElapsedRead ==
  ASSUME NEW f \in {"SSS_MMM", "SSS_UUU"}, NEW w \in Times, 0 <= w.sec
  PROVE  ScanElapsed(f, FormatElapsed(w, f)) = Made(apr_time_make(w.sec, w.usec - (w.usec % Grain(f))))
<1>1. w.sec \in Int /\ w.usec \in Int /\ 0 <= w.usec /\ ~(w.sec < 0)
  BY IsTime
<1>2. Quot(w, 1) = w.sec
  BY <1>1 DEF Quot
<1>3. Timeval(w) = [sec |-> w.sec, usec |-> w.usec]
  BY <1>1, <1>2 DEF Timeval
<1>4. CASE f = "SSS_UUU"
  <2>1. FormatElapsed(w, f) = <<w.sec, w.usec>>
    BY <1>3, <1>4 DEF FormatElapsed
  <2>2. ScanElapsed(f, <<w.sec, w.usec>>) = Made(apr_time_make(w.sec, w.usec))
    BY <1>1, <1>4 DEF ScanElapsed
  <2>3. Shows(f, "usec") /\ ~Shows(f, "msec")
    BY <1>4, DurationsAre DEF Shows
  <2>4. Grain(f) = 1
    BY <2>3 DEF Grain
  <2>5. w.usec - (w.usec % 1) = w.usec
    BY <1>1
  <2> QED
    BY <2>1, <2>2, <2>4, <2>5, Zenon
<1>5. CASE f = "SSS_MMM"
  <2>1. PICK u, v \in Int : u = w.usec \div 1000 /\ v = w.usec % 1000 /\ w.usec = 1000 * u + v /\ 0 <= u
    BY <1>1
  <2>2. FormatElapsed(w, f) = <<w.sec, u>>
    BY <1>1, <1>3, <1>5, <2>1 DEF FormatElapsed, TowardsZero
  <2>3. ScanElapsed(f, <<w.sec, u>>) = Made(apr_time_make(w.sec, 1000 * u))
    BY <1>5, <2>1 DEF ScanElapsed
  <2>4. ~Shows(f, "usec") /\ Shows(f, "msec")
    BY <1>5, DurationsAre DEF Shows
  <2>5. w.usec - (w.usec % Grain(f)) = 1000 * u
    BY <2>1, <2>4 DEF Grain
  <2> QED
    BY <2>2, <2>3, <2>5
<1> QED
  BY <1>4, <1>5

(* Days, hours, minutes and seconds are read as they were written. *)
LEMMA OffsetRead ==
  ASSUME NEW w \in Times, 0 <= w.sec, w.sec < 100 * DAY
  PROVE  ScanOffset(FormatOffset(w)) = Made(apr_time_make(w.sec, w.usec - (w.usec % Grain("OFFSET"))))
<1>1. w.sec \in Int /\ w.usec \in Int /\ 0 <= w.usec
  BY IsTime
<1>2. 1 \in Lengths /\ DAY \in Lengths /\ HOUR \in Lengths /\ MINUTE \in Lengths
  BY LengthsIs, SMT DEF Lengths
<1>3. PICK d, r, h, a, m, b, z \in Int :
        /\ w.sec \div DAY = d /\ w.sec % DAY = r /\ r \div HOUR = h /\ w.sec % HOUR = a
        /\ a \div MINUTE = m /\ w.sec % MINUTE = b /\ w.sec % 1 = 0
        /\ (d + 4) % 7 = z /\ (w.sec - 3 * DAY) % (7 * DAY) = z * DAY + r
        /\ d * DAY + r = w.sec /\ h * HOUR + a = r /\ m * MINUTE + b = a
        /\ 0 <= r /\ 0 <= h /\ h < 24 /\ 0 <= m /\ m < 60 /\ 0 <= b /\ b < 60 /\ (0 <= w.sec => 0 <= d)
  BY <1>1, ClockIs
<1>4. PICK x \in Times : x = Rem(w, DAY) /\ x.sec = r /\ x.usec = w.usec /\ Quot(w, DAY) = d
  BY <1>2, <1>3, RemIs, Zenon
<1>5. r % HOUR = a /\ a % MINUTE = b /\ 0 <= a
  <2>1. r - (r \div HOUR) * HOUR = r % HOUR /\ a - (a \div MINUTE) * MINUTE = a % MINUTE
    BY <1>2, QuotientIs
  <2>2. r - h * HOUR = a /\ a - m * MINUTE = b
    BY <1>3, LengthsIs
  <2>3. 0 <= a
    BY <1>3, LengthsIs
  <2> QED
    BY <1>3, <2>1, <2>2, <2>3, Zenon
<1>6. PICK y \in Times : y = Rem(x, HOUR) /\ y.sec = a /\ Quot(x, HOUR) = h
  <2>1. 0 <= x.sec
    BY <1>3, <1>4
  <2>2. Rem(x, HOUR) \in Times /\ Rem(x, HOUR).sec = x.sec % HOUR /\ Quot(x, HOUR) = x.sec \div HOUR
    BY <1>2, <2>1, RemIs
  <2> QED
    BY <1>3, <1>4, <1>5, <2>2, Zenon
<1>7. PICK s \in Times : s = Rem(y, MINUTE) /\ s.sec = b /\ Quot(y, MINUTE) = m
  <2>1. 0 <= y.sec
    BY <1>5, <1>6
  <2>2. Rem(y, MINUTE) \in Times /\ Rem(y, MINUTE).sec = y.sec % MINUTE /\ Quot(y, MINUTE) = y.sec \div MINUTE
    BY <1>2, <2>1, RemIs
  <2> QED
    BY <1>3, <1>5, <1>6, <2>2, Zenon
<1>8. Quot(s, 1) = b
  BY <1>3, <1>7 DEF Quot
<1>9. Timeval(w).usec = w.usec
  BY <1>1 DEF Timeval
<1>10. FormatOffset(w) = <<d, h, m, b, w.usec>>
  BY <1>4, <1>6, <1>7, <1>8, <1>9, Zenon DEF FormatOffset
<1>11. 0 <= d /\ d < 100
  BY <1>3, LengthsIs
<1>12. d * DAY + h * HOUR + m * MINUTE + b = w.sec
  BY <1>1, <1>3, LengthsIs
<1>13. PICK v : v = <<d, h, m, b, w.usec>>
  OBVIOUS
<1>14. v[1] = d /\ v[2] = h /\ v[3] = m /\ v[4] = b /\ v[5] = w.usec
  BY <1>13
<1>15. ~\E i \in 1..4 : v[i] < -9 \/ v[i] > 99
  BY <1>3, <1>11, <1>14
<1>16. ScanOffset(v) = Made(apr_time_make(v[1] * DAY + v[2] * HOUR + v[3] * MINUTE + v[4],
                                          IF v[5] < -99999 THEN TowardsZero(v[5], 10) ELSE v[5]))
  BY <1>15 DEF ScanOffset
<1>17. (IF v[5] < -99999 THEN TowardsZero(v[5], 10) ELSE v[5]) = w.usec
  BY <1>1, <1>14, SMT
<1>18. ScanOffset(v) = Made(apr_time_make(w.sec, w.usec))
  BY <1>12, <1>14, <1>16, <1>17
<1>19. Shows("OFFSET", "usec") /\ ~Shows("OFFSET", "msec")
  BY DurationsAre DEF Shows
<1>20. w.usec - (w.usec % Grain("OFFSET")) = w.usec
  <2>1. Grain("OFFSET") = 1
    BY <1>19 DEF Grain
  <2>2. w.usec - (w.usec % 1) = w.usec
    BY <1>1
  <2> QED
    BY <2>1, <2>2, Zenon
<1> QED
  BY <1>10, <1>13, <1>18, <1>20
-----------------------------------------------------------------------------
(* What is read of a text that was written. *)
Written(t) ==
  /\ t.format \in Formats /\ t.zone \in Zones /\ t.of \in Times
  /\ t.format \notin Durations => HasDate(t.of)
  /\ checkTimezoneFormatConsistency(t.format, t.zone)
  /\ t.shown = Format(t.of, t.format, t.zone)

(* Every text has a value for each component of its format. *)
LEMMA TextIs ==
  ASSUME NEW w, NEW f \in Formats, NEW tz
  PROVE  \E v : /\ Format(w, f, tz) = Text(v) /\ v \in Seq(Range(v))
                /\ Len(v) = Len(FORMAT_STRINGS[f]) /\ DOMAIN v = 1..Len(v)
<1>1. CASE f \in Durations
  <2>1. PICK v : Format(w, f, tz) = Text(v) /\ v = (IF f = "OFFSET" THEN FormatOffset(w) ELSE FormatElapsed(w, f))
    BY <1>1, DurationText
  <2>2. Len(v) = Len(FORMAT_STRINGS[f]) /\ DOMAIN v = 1..Len(v) /\ Len(v) \in Nat
    BY <1>1, <2>1, DurationLength
  <2>3. v = [i \in DOMAIN v |-> v[i]]
    <3>1. PICK a, b, c, d, e : FormatOffset(w) = <<a, b, c, d, e>>
      BY DEF FormatOffset
    <3>2. PICK g, h : FormatElapsed(w, f) = <<g, h>>
      BY DEF FormatElapsed
    <3> QED
      BY <2>1, <3>1, <3>2
  <2>4. v \in Seq(Range(v))
    BY <2>2, <2>3 DEF Range
  <2> QED
    BY <2>1, <2>2, <2>4, Zenon
<1>2. CASE f \notin Durations
  <2>1. PICK shown : shown = Format(w, f, tz)
    OBVIOUS
  <2>2. /\ Len(shown.values) = Len(FORMAT_STRINGS[f]) /\ Len(FORMAT_STRINGS[f]) \in Nat
        /\ shown = Text(shown.values) /\ DOMAIN shown.values = 1..Len(FORMAT_STRINGS[f])
    BY <1>2, <2>1, FormatShows
  <2>3. shown.values = [i \in DOMAIN shown.values |-> shown.values[i]]
    <3>1. shown = Text([i \in DOMAIN FORMAT_STRINGS[f] |-> Printed(apr_time_exp(w, tz), FORMAT_STRINGS[f][i])])
      BY <1>2, <2>1, Zenon DEF Format, Durations
    <3> QED
      BY <3>1 DEF Text
  <2>4. shown.values \in Seq(Range(shown.values))
    BY <2>2, <2>3 DEF Range
  <2> QED
    BY <2>1, <2>2, <2>4, Zenon
<1> QED
  BY <1>1, <1>2

(* A text cut short or spoilt is refused, but for its zone. *)
LEMMA SpoiltIs ==
  ASSUME NEW f \in Formats, NEW v, v \in Seq(Range(v)), Len(v) = Len(FORMAT_STRINGS[f]), NEW tz, NEW c,
         NEW x \in Spoilt(Text(v)), x # Text(v)
  PROVE  /\ ~Parse(f, x, tz, c).ok \/ IsBad(f, x, {"zone"})
         /\ f = "OFFSET" => ~IsBad(f, x, {"zone"})
<1>0. /\ Thrown.ok = FALSE /\ Text(v) = [values |-> v, bad |-> 0] /\ Len(v) \in Nat /\ DOMAIN v = 1..Len(v)
  BY DEF Thrown, Text
<1>1. CASE x = [Text(v) EXCEPT !.values = SubSeq(@, 1, Len(@) - 1)]
  <2>1. x = [values |-> SubSeq(v, 1, Len(v) - 1), bad |-> 0]
    BY <1>1 DEF Text
  <2>2. CASE Len(v) = 0
    <3>1. v = <<>> /\ SubSeq(v, 1, Len(v) - 1) = <<>>
      BY <2>2
    <3> QED
      BY <1>0, <2>1, <3>1
  <2>3. CASE Len(v) # 0
    <3>1. Len(v) - 1 \in Nat /\ 1 \in 1..(Len(v) + 1) /\ Len(v) - 1 \in 0..Len(v)
      BY <1>0, <2>3
    <3>2. Len(SubSeq(v, 1, Len(v) - 1)) = Len(v) - 1
      BY <3>1
    <3>3. Lacks(f, x) /\ x.bad = 0
      BY <1>0, <2>1, <3>2 DEF Lacks
    <3>4. Parse(f, x, tz, c) = Thrown /\ ~IsBad(f, x, {"zone"})
      BY <3>3 DEF Parse, IsBad
    <3> QED
      BY <1>0, <3>4
  <2> QED
    BY <2>2, <2>3
<1>2. CASE \E i \in DOMAIN v : x = [Text(v) EXCEPT !.bad = i]
  <2>1. PICK i \in 1..Len(v) : x = [values |-> v, bad |-> i]
    BY <1>0, <1>2
  <2>2. x.bad = i /\ x.bad # 0
    BY <1>0, <2>1
  <2>3. ~IsBad(f, x, {"zone"}) => Parse(f, x, tz, c) = Thrown
    BY <2>2, Zenon DEF Parse
  <2>4. ASSUME f = "OFFSET"
        PROVE  ~IsBad(f, x, {"zone"})
    <3>1. FORMAT_STRINGS[f] = <<"days", "hours", "minutes", "seconds", "usec">>
      BY <2>4, DurationsAre
    <3>2. i \in 1..5
      BY <2>1, <3>1
    <3>3. FORMAT_STRINGS[f][i] # "zone"
      BY <3>1, <3>2
    <3> QED
      BY <2>2, <3>3 DEF IsBad
  <2> QED
    BY <1>0, <2>3, <2>4
<1>3. Text(v).values = v
  BY DEF Text
<1> QED
  BY <1>1, <1>2, <1>3, Zenon DEF Spoilt

Reads(t, x, got, clock) ==
  LET f == t.format
      written == t.of
      spoilt == x # t.shown
  IN /\ spoilt => ~got.ok \/ IsBad(f, x, {"zone"})
     /\ ~spoilt /\ f \in Durations /\ written.sec \in 0..(100 * DAY - 1) =>
          got = Made(apr_time_make(written.sec, written.usec - (written.usec % Grain(f))))
     /\ f = "OFFSET" /\ got.ok => Quot(written, DAY) < 100
     /\ ~spoilt /\ f \notin Durations /\ f # "YYYYMMDDTHHMMSS" =>
          got = Made(ReadExpected(written, f, t.zone, clock))

(* ScanOffset takes no hundred days. *)
LEMMA OffsetOk ==
  ASSUME NEW v, ScanOffset(v).ok, v[1] \in Int
  PROVE  v[1] < 100
<1>1. SUFFICES ASSUME v[1] > 99
               PROVE  FALSE
  OBVIOUS
<1>2. ScanOffset(v) = Thrown
  BY <1>1 DEF ScanOffset
<1> QED
  BY <1>2 DEF Thrown

(* What is read, of every text that was written and of every spoilt one. *)
LEMMA ReadIs ==
  ASSUME NEW t, Written(t), NEW x \in {t.shown} \cup Spoilt(t.shown), NEW clock \in Times, HasDate(clock),
         NEW got, got = Parse(t.format, x, t.zone, clock)
  PROVE  Reads(t, x, got, clock)
<1> DEFINE f == t.format
           w == t.of
           tz == t.zone
<1>1. /\ f \in Formats /\ tz \in Zones /\ w \in Times /\ (f \notin Durations => HasDate(w))
      /\ checkTimezoneFormatConsistency(f, tz) /\ t.shown = Format(w, f, tz)
  BY DEF Written
<1> HIDE DEF f, w, tz
<1>2. x # t.shown => /\ ~got.ok \/ IsBad(f, x, {"zone"})
                     /\ f = "OFFSET" => ~IsBad(f, x, {"zone"})
  <2>1. PICK v : t.shown = Text(v) /\ v \in Seq(Range(v)) /\ Len(v) = Len(FORMAT_STRINGS[f])
    BY <1>1, TextIs
  <2>2. HAVE x # t.shown
  <2>3. x \in Spoilt(Text(v)) /\ x # Text(v) /\ got = Parse(f, x, tz, clock)
    BY <2>1, <2>2 DEF f, tz
  <2> QED
    BY <1>1, <2>1, <2>3, SpoiltIs
<1>3. ASSUME x = t.shown, f \in Durations
      PROVE  got = IF f = "OFFSET" THEN ScanOffset(FormatOffset(w)) ELSE ScanElapsed(f, FormatElapsed(w, f))
  <2>1. got = Parse(f, Format(w, f, tz), tz, clock)
    BY <1>1, <1>3, Zenon DEF f, tz
  <2> QED
    BY <1>3, <2>1, DurationScanned, Zenon
<1>4. ASSUME x = t.shown, f \in Durations, w.sec \in 0..(100 * DAY - 1)
      PROVE  got = Made(apr_time_make(w.sec, w.usec - (w.usec % Grain(f))))
  <2>1. 0 <= w.sec /\ w.sec < 100 * DAY
    <3>1. PICK m \in Int : m = 100 * DAY
      BY LengthsIs
    <3>2. w.sec \in 0..(m - 1)
      BY <1>4, <3>1, Zenon
    <3>3. 0 <= w.sec /\ w.sec < m
      BY <3>2
    <3> QED
      BY <3>1, <3>3, Zenon
  <2>2. CASE f = "OFFSET"
    BY <1>1, <1>3, <1>4, <2>1, <2>2, OffsetRead, Zenon
  <2>3. CASE f # "OFFSET"
    <3>1. f \in {"SSS_MMM", "SSS_UUU"}
      BY <1>4, <2>3, DurationsAre
    <3> QED
      BY <1>1, <1>3, <1>4, <2>1, <2>3, <3>1, ElapsedRead, Zenon
  <2> QED
    BY <2>2, <2>3
<1>5. ASSUME f = "OFFSET", got.ok
      PROVE  Quot(w, DAY) < 100
  <2>1. x = t.shown
    BY <1>2, <1>5
  <2>2. got = ScanOffset(FormatOffset(w))
    BY <1>3, <1>5, <2>1, DurationsAre
  <2>3. PICK a, b, c, d, e : FormatOffset(w) = <<a, b, c, d, e>> /\ a = Quot(w, DAY)
    BY DEF FormatOffset
  <2>4. FormatOffset(w)[1] = Quot(w, DAY)
    BY <2>3
  <2>5. Quot(w, DAY) \in Int
    <3>1. w.sec \in Int /\ Negated(w).sec \in Int /\ DAY \in Lengths
      BY <1>1, IsTime, NegatedIs, LengthsIs, SMT DEF Lengths
    <3>2. w.sec \div DAY \in Int /\ Negated(w).sec \div DAY \in Int
      BY <3>1, QuotientIs, Zenon
    <3> QED
      BY <3>2 DEF Quot
  <2> QED
    BY <1>5, <2>2, <2>4, <2>5, OffsetOk
<1>6. ASSUME x = t.shown, f \notin Durations, f # "YYYYMMDDTHHMMSS"
      PROVE  got = Made(ReadExpected(w, f, tz, clock))
  <2>1. got = Parse(f, Format(w, f, tz), tz, clock)
    BY <1>1, <1>6, Zenon DEF f, tz
  <2>2. f \in Formats \ Durations
    BY <1>1, <1>6
  <2> QED
    BY <1>1, <1>6, <2>1, <2>2, DateRead
<1> QED
  BY <1>2, <1>4, <1>5, <1>6, Zenon DEF Reads, f, w, tz

-----------------------------------------------------------------------------
(* Sessions.  The object, followed by the arguments of a call. *)
LEMMA PairIs == ASSUME NEW a, NEW b PROVE (<<a>> \o <<b>>)[1] = a /\ (<<a>> \o <<b>>)[2] = b
<1>1. <<a>> \in Seq({a, b}) /\ <<b>> \in Seq({a, b}) /\ Len(<<a>>) = 1 /\ Len(<<b>>) = 1
  OBVIOUS
<1>2. \A i \in 1..2 : (<<a>> \o <<b>>)[i] = IF i <= 1 THEN <<a>>[i] ELSE <<b>>[i - 1]
  BY <1>1, ConcatProperties
<1> QED
  BY <1>2

(* The object is a Time, the clock shows one of its instants, and a text that *)
(* waits to be read is what Format made of a Time.  Without the last, nothing *)
(* could be said of what is read.                                             *)
TimeIInv ==
  /\ time \in Times
  /\ now \in Instants
  /\ text = NoText \/ Written(text)
  /\ UnitsOfTime
  /\ ReadsBack

(* The properties are about five calls only. *)
LEMMA QuietAnswer == ASSUME answer.op \notin {"round", "compare", "plus", "minus", "read"} PROVE UnitsOfTime /\ ReadsBack
BY DEF UnitsOfTime, RoundsDown, DiffsAgree, ReadsBack

(* The clock, the objects made and the spans are Times. *)
LEMMA ConstantTimes ==
  /\ MIN_TIME \in Times /\ Instants \subseteq Times /\ \A t \in Instants : HasDate(t)
  /\ Starts \subseteq Times /\ Spans \subseteq Times /\ Deltas \subseteq Int
<1>1. 0 \in Int
  OBVIOUS
<1>2. MIN_TIME \in Times
  BY <1>1, MakesTime DEF MIN_TIME
<1> QED
  BY <1>2, TimeAssumption

(* A number of whole units. *)
LEMMA QuotInt ==
  ASSUME NEW t \in Times, NEW n \in Lengths
  PROVE  Quot(t, n) \in Int /\ Quot(t, n) * n \in Int
<1>1. PICK x, y \in Int : x = t.sec /\ y = Negated(t).sec
  BY IsTime, NegatedIs
<1>2. x \div n \in Int /\ y \div n \in Int /\ n \in Nat
  BY QuotientIs
<1>3. Quot(t, n) \in Int
  BY <1>1, <1>2 DEF Quot
<1> QED
  BY <1>2, <1>3

(* A session begins in the invariant, *)
LEMMA InitTime == TimeInit => TimeIInv
<1> SUFFICES ASSUME TimeInit PROVE TimeIInv
  OBVIOUS
<1>1. answer.op = "none"
  BY DEF TimeInit, NoAnswer
<1>2. UnitsOfTime /\ ReadsBack
  BY <1>1, QuietAnswer
<1> QED
  BY <1>2, ConstantTimes DEF TimeInit, TimeIInv

(* and every call and every tick of the clock keeps it. *)
LEMMA NextTime == TimeIInv /\ [TimeNext]_timeVars => TimeIInv'
<1> SUFFICES ASSUME TimeIInv, [TimeNext]_timeVars
             PROVE  TimeIInv'
  OBVIOUS
<1>1. /\ time \in Times /\ now \in Instants /\ now \in Times /\ HasDate(now)
      /\ text = NoText \/ Written(text)
  BY ConstantTimes DEF TimeIInv
<1>2. ASSUME NEW op, op \notin {"round", "compare", "plus", "minus", "read"}, answer'.op = op
      PROVE  UnitsOfTime' /\ ReadsBack'
  BY <1>2 DEF UnitsOfTime, RoundsDown, DiffsAgree, ReadsBack
<1>3. ASSUME NEW t \in Times, NEW op, op \notin {"round", "compare", "plus", "minus", "read"}, NEW args, Becomes(t, op, args)
      PROVE  TimeIInv'
  <2>1. time' = t /\ now' = now /\ text' = text /\ answer'.op = op
    BY <1>3 DEF Becomes, Called, Answers
  <2>2. UnitsOfTime' /\ ReadsBack'
    BY <1>2, <1>3, <2>1
  <2> QED
    BY <1>1, <2>1, <2>2 DEF TimeIInv, Written
<1>4. CASE Make
  <2>1. PICK t \in Starts \cup {now, MIN_TIME, MAX_TIME(now)} : Becomes(t, "make", <<>>)
    BY <1>4 DEF Make
  <2>2. t \in Times
    BY <1>1, ConstantTimes, MaxTimeIs
  <2> QED
    BY <1>3, <2>1, <2>2
<1>5. CASE AddUnits
  <2>1. PICK unit \in Units \ {"WEEKS"}, delta \in Deltas : Becomes(Add(time, unit, delta), "add", <<unit, delta>>)
    BY <1>5 DEF AddUnits
  <2>2. Add(time, unit, delta) \in Times
    BY <1>1, ConstantTimes, AddIs
  <2> QED
    BY <1>3, <2>1, <2>2
<1>6. CASE PlusTime
  <2>1. PICK t \in Times : Becomes(Plus(time, t), "plus", <<t>>)
    BY <1>6, ConstantTimes DEF PlusTime
  <2>2. /\ time' = Plus(time, t) /\ now' = now /\ text' = text /\ answer'.op = "plus"
        /\ answer'.args = <<time>> \o <<t>>
    BY <2>1 DEF Becomes, Called, Answers
  <2>3. answer'.args[1] = time /\ answer'.args[2] = t
    BY <2>2, PairIs
  <2>4. Plus(time, t) \in Times /\ time = Minus(Plus(time, t), t)
    BY <1>1, PlusIs, MinusUndoes
  <2>5. UnitsOfTime' /\ ReadsBack'
    BY <2>2, <2>3, <2>4 DEF UnitsOfTime, RoundsDown, DiffsAgree, ReadsBack
  <2> QED
    BY <1>1, <2>2, <2>4, <2>5 DEF TimeIInv, Written
<1>7. CASE MinusTime
  <2>1. PICK t \in Times : Becomes(Minus(time, t), "minus", <<t>>)
    BY <1>7, ConstantTimes DEF MinusTime
  <2>2. /\ time' = Minus(time, t) /\ now' = now /\ text' = text /\ answer'.op = "minus"
        /\ answer'.args = <<time>> \o <<t>>
    BY <2>1 DEF Becomes, Called, Answers
  <2>3. answer'.args[1] = time /\ answer'.args[2] = t
    BY <2>2, PairIs
  <2>4. Minus(time, t) \in Times /\ time = Plus(Minus(time, t), t)
    BY <1>1, MinusIs, MinusUndoes
  <2>5. UnitsOfTime' /\ ReadsBack'
    BY <2>2, <2>3, <2>4 DEF UnitsOfTime, RoundsDown, DiffsAgree, ReadsBack
  <2> QED
    BY <1>1, <2>2, <2>4, <2>5 DEF TimeIInv, Written
<1>8. CASE Modulo
  <2>1. PICK unit \in Units \ {"WEEKS"} : Becomes(Rem(time, LengthOf(unit)), "modulo", <<unit>>)
    BY <1>8 DEF Modulo
  <2>2. PICK n \in Int : n = Quot(time, LengthOf(unit)) * LengthOf(unit)
    BY <1>1, LengthIs, QuotInt
  <2>3. apr_time_make(n, 0) \in Times
    <3>1. 0 \in Int
      OBVIOUS
    <3> QED
      BY <3>1, MakesTime
  <2>4. Rem(time, LengthOf(unit)) \in Times
    BY <1>1, <2>2, <2>3, MinusIs DEF Rem
  <2> QED
    BY <1>3, <2>1, <2>4
<1>9. CASE RoundDown
  <2>1. PICK unit \in Units, tz \in Zones :
          /\ HasDate(time) /\ now' = now /\ text' = text
          /\ answer' = [op |-> "round", args |-> <<time, unit, tz>>, result |-> Round(time, unit, tz), now |-> now]
          /\ time' = IF Round(time, unit, tz).ok THEN Round(time, unit, tz).time ELSE time
    BY <1>9 DEF RoundDown, Called, Answers
  <2>3. Lands(time, unit, tz, Round(time, unit, tz)) /\ Round(time, unit, tz).time \in Times
    BY <1>1, <2>1, RoundLands
  <2>5. time' \in Times
    BY <1>1, <2>1, <2>3
  <2>6. /\ answer'.op = "round" /\ answer'.args[1] = time /\ answer'.args[2] = unit /\ answer'.args[3] = tz
        /\ answer'.result = Round(time, unit, tz)
    BY <2>1
  <2>7. UnitsOfTime' /\ ReadsBack'
    BY <2>3, <2>6 DEF Lands, UnitsOfTime, RoundsDown, DiffsAgree, ReadsBack
  <2> QED
    BY <1>1, <2>1, <2>5, <2>7 DEF TimeIInv, Written
<1>10. CASE Compare
  <2>1. PICK t \in Times, unit \in Units :
          /\ time' = time /\ now' = now /\ text' = text
          /\ answer' = [op |-> "compare", args |-> <<time, t, unit>>,
                        result |-> [below |-> Below(time, t), equal |-> time = t, diff |-> Diff(time, t, unit)],
                        now |-> now]
    BY <1>10, ConstantTimes DEF Compare, Called, Answers
  <2>2. PICK diff, back : diff = Diff(time, t, unit) /\ back = Add(t, unit, diff)
    OBVIOUS
  <2>3. /\ Below(time, t) <=> Minus(time, t).sec < 0
        /\ time = t <=> ~Below(time, t) /\ ~Below(t, time)
        /\ ~Below(time, t) => ~Below(time, back) /\ Below(time, Add(back, unit, 1))
        /\ Diff(t, time, unit) = -diff
    BY <1>1, <2>2, DiffIs
  <2>4. /\ answer'.op = "compare" /\ answer'.args[1] = time /\ answer'.args[2] = t /\ answer'.args[3] = unit
        /\ answer'.result.below = Below(time, t) /\ answer'.result.equal = (time = t) /\ answer'.result.diff = diff
    BY <2>1, <2>2
  <2>5. UnitsOfTime' /\ ReadsBack'
    BY <2>2, <2>3, <2>4 DEF UnitsOfTime, RoundsDown, DiffsAgree, ReadsBack
  <2> QED
    BY <1>1, <2>1, <2>5 DEF TimeIInv, Written
<1>11. CASE DayOfWeek
  <2>1. time' = time /\ now' = now /\ text' = text /\ answer'.op = "weekday"
    BY <1>11 DEF DayOfWeek, Called, Answers
  <2> QED
    BY <1>1, <1>2, <2>1 DEF TimeIInv, Written
<1>12. CASE WriteText
  <2>1. PICK f \in Formats, tz \in Zones :
          /\ checkTimezoneFormatConsistency(f, tz) /\ (f \notin Durations => HasDate(time))
          /\ text' = [format |-> f, zone |-> tz, of |-> time, shown |-> Format(time, f, tz)]
    BY <1>12 DEF WriteText
  <2>2. time' = time /\ now' = now /\ answer'.op = "none"
    BY <1>12 DEF WriteText, Called, NoAnswer
  <2>3. Written(text')
    BY <1>1, <2>1 DEF Written
  <2> QED
    BY <1>1, <1>2, <2>2, <2>3 DEF TimeIInv, Written
<1>13. CASE ReadText
  <2>1. PICK x \in {text.shown} \cup Spoilt(text.shown) :
          /\ text # NoText /\ time' = time /\ now' = now /\ text' = text
          /\ answer' = [op |-> "read", args |-> <<text, x>>, result |-> Parse(text.format, x, text.zone, now), now |-> now]
    BY <1>13 DEF ReadText, Answers
  <2>2. PICK got : got = Parse(text.format, x, text.zone, now)
    OBVIOUS
  <2>3. Reads(text, x, got, now)
    BY <1>1, <2>1, <2>2, ReadIs
  <2>4. /\ answer'.op = "read" /\ answer'.args[1] = text /\ answer'.args[2] = x
        /\ answer'.result = got /\ answer'.now = now
    BY <2>1, <2>2
  <2>5. UnitsOfTime'
    BY <2>4 DEF UnitsOfTime, RoundsDown, DiffsAgree
  <2>6. ReadsBack'
    BY <2>3, <2>4, Zenon DEF Reads, ReadsBack
  <2> QED
    BY <1>1, <2>1, <2>5, <2>6 DEF TimeIInv, Written
<1>14. CASE Tick
  <2>1. time' = time /\ now' \in Instants /\ text' = text /\ answer'.op = "none"
    BY <1>14 DEF Tick, NoAnswer
  <2> QED
    BY <1>1, <1>2, <2>1 DEF TimeIInv, Written
<1>15. CASE UNCHANGED timeVars
  BY <1>15 DEF timeVars, TimeIInv, Written, UnitsOfTime, RoundsDown, DiffsAgree, ReadsBack
<1> QED
  BY <1>4, <1>5, <1>6, <1>7, <1>8, <1>9, <1>10, <1>11, <1>12, <1>13, <1>14, <1>15 DEF TimeNext

(* In every session Round goes back, by less than the unit, to where one      *)
(* begins on the clock that the zone has at the time itself, which is not the *)
(* zone's clock at the result if it was changed in between, and fails only    *)
(* before 1970; operator< and operator==                                      *)
(* agree with diff(), which addUnits undoes to within one unit; and operator+ *)
(* and operator- undo each other, whatever they carry and borrow.             *)
THEOREM UnitsOfTimeHolds == TimeSpec => []UnitsOfTime
<1>1. TimeIInv => UnitsOfTime
  BY DEF TimeIInv
<1> QED
  BY InitTime, NextTime, <1>1, PTL DEF TimeSpec

(* In every session a text that format() made is read by Time(text, format)   *)
(* as the time it was made of, as far as the format shows it and the clock    *)
(* completes it; a text that is cut short or has a value that is none is      *)
(* refused, but for its zone.                                                 *)
THEOREM ReadsBackHolds == TimeSpec => []ReadsBack
<1>1. TimeIInv => ReadsBack
  BY DEF TimeIInv
<1> QED
  BY InitTime, NextTime, <1>1, PTL DEF TimeSpec
=============================================================================
