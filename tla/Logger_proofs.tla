----------------------------- MODULE Logger_proofs -----------------------------
(***************************************************************************)
(* Proofs about Logger, for any number of writers and messages, any kinds  *)
(* of messages and any size of the buffer and of the local buffers.        *)
(*                                                                         *)
(* The invariant says who holds m_mutex, that the logging thread and the   *)
(* destructor never flush at the same time, which message a flusher has in *)
(* hand and what it has read of it, and that the stream of units is framed *)
(* from there on; after the tail of a message was lost, the tail is what   *)
(* is read next, and nothing is after it.                                  *)
(***************************************************************************)
EXTENDS Logger, SequenceTheorems, TLAPS

Units == Messages \X Nat
Outputs == [msg : Messages \cup {NoMessage}, text : Seq(Units)]

WriterPlaces  == {"idle", "lock", "format", "string", "text", "unlock", "notify"}
FlusherPlaces == {"none", "starting", "loop", "wait", "waiting", "woken", "exited",
                  "up", "join", "destroyed", "terminated", "undefined",
                  "flush", "header", "text", "file", "relock", "rest", "print", "sync"}

Placed ==
  /\ pc \in [Writers \cup Flushers -> WriterPlaces \cup FlusherPlaces]
  /\ \A w \in Writers : pc[w] \in WriterPlaces
  /\ \A f \in Flushers : pc[f] \in FlusherPlaces

Typed ==
  /\ m_buffer \in Seq(Units) /\ accepted \in Seq(Messages) /\ output \in Seq(Outputs)
  /\ msg \in [Writers -> Messages \cup {NoMessage}]
  /\ mh \in [Flushers -> Messages \cup {NoMessage}]
  /\ logbuf \in [Flushers -> Seq(Units)]
  /\ written \in Nat /\ taken \in 0..Len(accepted)

(* Who is where only the owner of m_mutex can be, owns it. *)
MutexHeld ==
  /\ \A w \in Writers : pc[w] \in {"format", "string", "text", "unlock"} => m_mutex = w
  /\ \A f \in Flushers : pc[f] \in {"header", "text", "rest"} => m_mutex = f

(* No two messages have the same number, and one that a writer has locked  *)
(* the mutex for is not in the buffer yet.                                 *)
Writing(w) == pc[w] \in {"lock", "format", "string", "text", "unlock"}
Numbered ==
  /\ \A w \in Writers : Writing(w) => msg[w] \in Messages /\ msg[w].seq <= written
  /\ \A w, v \in Writers : w # v /\ Writing(w) /\ Writing(v) => msg[w].seq # msg[v].seq
  /\ \A i \in 1..Len(accepted) : accepted[i].seq <= written
  /\ \A w \in Writers : pc[w] \in {"lock", "format", "string"} =>
       \A i \in 1..Len(accepted) : accepted[i].seq # msg[w].seq

(* Between its two calls, the text of the message accepted last still fits. *)
TextFits ==
  \A w \in Writers : pc[w] = "text" =>
    /\ accepted # <<>> /\ msg[w] = accepted[Len(accepted)]
    /\ Fits(Size(msg[w]))

(* The destructor flushes only after the logging thread has ended, or when *)
(* there never was one.                                                    *)
OneFlusher ==
  /\ pc[Main] \in {"up", "join"} \/ pc[LogThread] \in {"none", "exited"}
  /\ pc[Main] \in {"up", "join"} /\ m_state = "READY" => pc[LogThread] = "none"

(* The message that a flusher has in hand is the one taken last, and the   *)
(* only one taken that is not in the output.                               *)
InHand(f) == pc[f] \in {"text", "file", "relock", "rest", "print"}
PieceOf(m) == IF IsLarge(m) THEN SubSeq(Text(m), 1, LOGMSG_SIZE) ELSE Text(m)
Hand ==
  /\ \A f \in Flushers : InHand(f) =>
       taken > 0 /\ mh[f] = accepted[taken] /\ Len(output) = taken - 1 /\ ~TailLost
  /\ (\A f \in Flushers : ~InHand(f)) => Len(output) = taken
  /\ \A f \in Flushers : /\ pc[f] \in {"relock", "rest"} => IsLarge(mh[f])
                         /\ pc[f] \in {"file", "relock", "rest"} => logbuf[f] = PieceOf(mh[f])
                         /\ pc[f] = "print" => logbuf[f] = Text(mh[f])

(* The message whose tail was lost is the one taken last. *)
TailIsNext ==
  /\ TailLost => taken > 0 /\ IsLarge(accepted[taken])
  /\ Undefined => TailLost

Read == IF TailLost THEN LOGMSG_SIZE ELSE TextRead
StreamFramed == ~Undefined => Framed(Stream, accepted, taken, Read)

(* The destructor's last look at the buffer finds all of it printed. *)
Drained ==
  /\ pc[Main] \in {"sync", "destroyed"} => Len(output) = drained
  /\ pc[Main] = "destroyed" => synced = drained

IInv ==
  /\ Placed /\ Typed /\ MutexHeld /\ Numbered /\ TextFits /\ OneFlusher
  /\ Hand /\ TailIsNext /\ StreamFramed /\ PrintedAsWritten /\ Drained

-----------------------------------------------------------------------------
(* Messages and frames. *)

LEMMA SizeIsNat == \A m \in Messages : Size(m) \in Nat
BY LoggerAssumption DEF Messages, Size, StoredSize, IsCut

LEMMA TextIs ==
  ASSUME NEW m \in Messages
  PROVE  /\ Text(m) \in Seq(Units) /\ Len(Text(m)) = Size(m)
         /\ \A q \in 1..Size(m) : Text(m)[q] = <<m, q>>
<1>1. Size(m) \in Nat
  BY SizeIsNat
<1>2. \A q \in 1..Size(m) : <<m, q>> \in Units
  BY <1>1 DEF Units
<1>3. Text(m) \in [1..Size(m) -> Units]
  BY <1>2 DEF Text
<1>4. Text(m) \in Seq(Units)
  BY <1>1, <1>3, SeqDef, Zenon
<1>5. DOMAIN Text(m) = 1..Size(m) /\ \A q \in 1..Size(m) : Text(m)[q] = <<m, q>>
  BY DEF Text
<1>6. Len(Text(m)) = Size(m)
  <2>1. Len(Text(m)) \in Nat /\ DOMAIN Text(m) = 1..Len(Text(m))
    BY <1>4, LenProperties
  <2> QED
    BY <1>1, <1>5, <2>1
<1> QED
  BY <1>4, <1>5, <1>6

LEMMA FrameIs ==
  ASSUME NEW m \in Messages
  PROVE  /\ Header(m) \in Seq(Units) /\ Frame(m) \in Seq(Units) /\ Len(Frame(m)) = Size(m) + 1
         /\ \A q \in 1..(Size(m) + 1) : Frame(m)[q] = <<m, q - 1>>
<1>1. Size(m) \in Nat
  BY SizeIsNat
<1>2. /\ Header(m) \in Seq(Units) /\ Len(Header(m)) = 1 /\ Header(m)[1] = <<m, 0>>
  BY DEF Header, Units
<1>3. /\ Frame(m) \in Seq(Units) /\ Len(Frame(m)) = 1 + Size(m)
      /\ \A q \in 1..(1 + Size(m)) : Frame(m)[q] = IF q <= 1 THEN Header(m)[q] ELSE Text(m)[q - 1]
  <2>1. Text(m) \in Seq(Units) /\ Len(Text(m)) = Size(m)
    BY TextIs
  <2>2. /\ Header(m) \o Text(m) \in Seq(Units)
        /\ Len(Header(m) \o Text(m)) = Len(Header(m)) + Len(Text(m))
        /\ \A q \in 1..(Len(Header(m)) + Len(Text(m))) :
             (Header(m) \o Text(m))[q] = IF q <= Len(Header(m)) THEN Header(m)[q] ELSE Text(m)[q - Len(Header(m))]
    BY <1>2, <2>1, ConcatProperties, Zenon
  <2> QED
    BY <1>2, <2>1, <2>2, Zenon DEF Frame
<1>4. ASSUME NEW q \in 1..(Size(m) + 1)
      PROVE  Frame(m)[q] = <<m, q - 1>>
  <2>1. CASE q = 1
    BY <1>1, <1>2, <1>3, <2>1
  <2>2. CASE q # 1
    <3>1. q - 1 \in 1..Size(m) /\ Frame(m)[q] = Text(m)[q - 1]
      BY <1>1, <1>3, <2>2
    <3> QED
      BY <3>1, TextIs
  <2> QED
    BY <2>1, <2>2
<1> QED
  BY <1>1, <1>2, <1>3, <1>4

LEMMA AppendIs ==
  ASSUME NEW S, NEW s \in Seq(S), NEW e \in S
  PROVE  /\ Append(s, e) \in Seq(S) /\ Len(Append(s, e)) = Len(s) + 1
         /\ Append(s, e)[Len(s) + 1] = e
         /\ \A i \in 1..Len(s) : Append(s, e)[i] = s[i]
OBVIOUS

(* What is left of a stream when d units were read. *)
Dropped(s, d) == SubSeq(s, d + 1, Len(s))

LEMMA DroppedIs ==
  ASSUME NEW s \in Seq(Units), NEW d \in Nat, d <= Len(s)
  PROVE  /\ Dropped(s, d) \in Seq(Units) /\ Len(Dropped(s, d)) = Len(s) - d
         /\ \A q \in 1..(Len(s) - d) : Dropped(s, d)[q] = s[q + d]
<1>1. Len(s) \in Nat /\ \A i \in (d + 1)..Len(s) : s[i] \in Units
  OBVIOUS
<1>2. /\ SubSeq(s, d + 1, Len(s)) \in Seq(Units)
      /\ Len(SubSeq(s, d + 1, Len(s))) = IF d + 1 <= Len(s) THEN Len(s) - (d + 1) + 1 ELSE 0
      /\ \A i \in 1..(Len(s) - (d + 1) + 1) : SubSeq(s, d + 1, Len(s))[i] = s[(d + 1) + i - 1]
  <2>1. d + 1 \in Int /\ Len(s) \in Int
    BY <1>1
  <2> QED
    BY <1>1, <2>1, SubSeqProperties
<1>3. \A n \in Nat : d <= n =>
        /\ (IF d + 1 <= n THEN n - (d + 1) + 1 ELSE 0) = n - d
        /\ n - (d + 1) + 1 = n - d
  OBVIOUS
<1>4. \A q \in 1..(Len(s) - d) : (d + 1) + q - 1 = q + d
  BY <1>1
<1> QED
  BY <1>1, <1>2, <1>3, <1>4, Zenon DEF Dropped

-----------------------------------------------------------------------------
(* The framing of a stream. *)

(* A message is accepted. *)
LEMMA FramedAppend ==
  ASSUME NEW s \in Seq(Units), NEW acc \in Seq(Messages), NEW n \in 0..Len(acc), NEW k,
         Framed(s, acc, n, k),
         NEW m \in Messages, \A i \in 1..Len(acc) : acc[i] # m
  PROVE  \A h : n = 0 \/ h = k => Framed(s \o Frame(m), Append(acc, m), n, h)
<1> DEFINE t  == s \o Frame(m)
           a  == Append(acc, m)
           L  == Len(s)
           la == Len(acc)
<1>1. /\ Size(m) \in Nat /\ L \in Nat /\ la \in Nat
      /\ t \in Seq(Units) /\ Len(t) = L + Size(m) + 1
      /\ \A q \in 1..L : t[q] = s[q]
      /\ \A q \in (L + 1)..(L + Size(m) + 1) : t[q] = <<m, q - (L + 1)>>
  <2>1. Size(m) \in Nat /\ L \in Nat /\ la \in Nat
    BY SizeIsNat
  <2>2. /\ t \in Seq(Units) /\ Len(t) = L + Len(Frame(m))
        /\ \A q \in 1..(L + Len(Frame(m))) : t[q] = IF q <= L THEN s[q] ELSE Frame(m)[q - L]
    BY FrameIs, ConcatProperties
  <2>3. /\ Len(Frame(m)) = Size(m) + 1
        /\ \A q \in 1..(Size(m) + 1) : Frame(m)[q] = <<m, q - 1>>
    BY FrameIs
  <2>4. ASSUME NEW q \in (L + 1)..(L + Size(m) + 1)
        PROVE  t[q] = <<m, q - (L + 1)>>
    <3>1. q - L \in 1..(Size(m) + 1) /\ t[q] = Frame(m)[q - L] /\ (q - L) - 1 = q - (L + 1)
      <4> HIDE DEF t
      <4> QED
        BY <2>1, <2>2, <2>3
    <3> QED
      BY <2>3, <3>1
  <2> HIDE DEF t
  <2> QED
    BY <2>1, <2>2, <2>3, <2>4
<1>2. /\ a \in Seq(Messages) /\ Len(a) = la + 1 /\ a[la + 1] = m
      /\ \A i \in 1..la : a[i] = acc[i]
      /\ Range(acc) \subseteq Range(a) /\ m \in Range(a)
      /\ \A x \in Range(acc) : x \in Messages /\ x # m
  <2>1. /\ a \in Seq(Messages) /\ Len(a) = la + 1 /\ a[la + 1] = m
        /\ \A i \in 1..la : a[i] = acc[i]
    <3>1. /\ Append(acc, m) \in Seq(Messages) /\ Len(Append(acc, m)) = Len(acc) + 1
          /\ Append(acc, m)[Len(acc) + 1] = m
          /\ \A i \in 1..Len(acc) : Append(acc, m)[i] = acc[i]
      BY AppendIs, Zenon
    <3> QED
      BY <3>1, Zenon
  <2>2. DOMAIN a = 1..(la + 1) /\ DOMAIN acc = 1..la
    BY <2>1
  <2>3. \A i \in 1..la : acc[i] \in Messages /\ acc[i] # m
    OBVIOUS
  <2> HIDE DEF a, la
  <2>4. Range(acc) = {acc[i] : i \in 1..la} /\ Range(a) = {a[i] : i \in 1..(la + 1)}
    BY <2>2, Zenon DEF Range
  <2>5. la + 1 \in 1..(la + 1) /\ \A i \in 1..la : i \in 1..(la + 1)
    BY <1>1
  <2> QED
    BY <2>1, <2>3, <2>4, <2>5
<1>3. ASSUME NEW p \in 1..L
      PROVE  InFrame(t, p, a)
  <2> DEFINE x == s[p][1]
             j == s[p][2]
             end == p + Size(x) - j
  <2>1. /\ x \in Range(acc) /\ j \in 0..Size(x)
        /\ end <= L /\ \A q \in p..end : s[q] = <<x, j + (q - p)>>
        /\ \A i \in 1..la : acc[i] = x =>
             IF i = la THEN end = L ELSE end < L /\ s[end + 1] = <<acc[i + 1], 0>>
    BY DEF Framed, InFrame
  <2>2. t[p] = s[p]
    BY <1>1
  <2>3. x \in Messages /\ x # m /\ Size(x) \in Nat /\ x \in Range(a)
    BY <1>2, <2>1, SizeIsNat
  <2>4. end <= Len(t) /\ end \in Nat /\ end >= p
    <3>1. p \in Nat /\ j \in 0..Size(x) /\ end <= L
      BY <1>1, <2>1
    <3>2. L <= Len(t)
      <4> HIDE DEF t, L
      <4> QED
        BY <1>1
    <3>3. end \in Nat /\ end >= p
      <4> HIDE DEF x, j
      <4> QED
        BY <2>3, <3>1
    <3> HIDE DEF t, L, end
    <3> QED
      BY <1>1, <3>1, <3>2, <3>3
  <2>5. ASSUME NEW q \in p..end
        PROVE  t[q] = <<x, j + (q - p)>>
    <3>1. q \in 1..L
      <4> HIDE DEF x, j, end
      <4> QED
        BY <1>1, <2>1, <2>4
    <3> QED
      BY <1>1, <2>1, <3>1
  <2>6. ASSUME NEW i \in 1..(la + 1), a[i] = x, i # la + 1
        PROVE  end < Len(t) /\ t[end + 1] = <<a[i + 1], 0>>
    <3>1. i \in 1..la /\ acc[i] = x
      BY <1>1, <1>2, <2>6
    <3>2. CASE i = la
      <4>1. end = L
        BY <2>1, <3>1, <3>2
      <4>2. L + 1 \in (L + 1)..(L + Size(m) + 1) /\ L < Len(t) /\ (L + 1) - (L + 1) = 0
        <5> HIDE DEF t
        <5> QED
          BY <1>1
      <4> HIDE DEF t, a, end, x, L, la
      <4> QED
        BY <1>1, <1>2, <3>2, <4>1, <4>2
    <3>3. CASE i # la
      <4>1. end < L /\ s[end + 1] = <<acc[i + 1], 0>>
        BY <2>1, <3>1, <3>3
      <4>2. end + 1 \in 1..L /\ i + 1 \in 1..la
        <5>1. i \in 1..la /\ end < L
          BY <3>1, <4>1
        <5> HIDE DEF end, L, la
        <5> QED
          BY <1>1, <2>4, <3>3, <5>1
      <4>3. t[end + 1] = s[end + 1] /\ a[i + 1] = acc[i + 1]
        BY <1>1, <1>2, <4>2
      <4>4. end < Len(t)
        <5> HIDE DEF t, end, L
        <5> QED
          BY <1>1, <2>4, <4>1
      <4> QED
        BY <4>1, <4>3, <4>4
    <3> QED
      BY <3>2, <3>3
  <2>7. a[la + 1] # x
    BY <1>2, <2>3
  <2> HIDE DEF t, a
  <2> QED
    BY <1>2, <2>1, <2>2, <2>3, <2>4, <2>5, <2>6, <2>7 DEF InFrame
<1>4. ASSUME NEW p \in (L + 1)..Len(t)
      PROVE  InFrame(t, p, a)
  <2> HIDE DEF t, a, L, la
  <2>1. p \in Nat /\ p - (L + 1) \in 0..Size(m) /\ t[p] = <<m, p - (L + 1)>>
    BY <1>1
  <2>2. p + Size(m) - (p - (L + 1)) = Len(t)
    BY <1>1, <2>1
  <2>3. \A q \in p..Len(t) : t[q] = <<m, (p - (L + 1)) + (q - p)>>
    <3>1. \A q \in p..Len(t) : q \in (L + 1)..(L + Size(m) + 1) /\ q - (L + 1) = (p - (L + 1)) + (q - p)
      BY <1>1, <2>1
    <3> QED
      BY <1>1, <3>1
  <2>4. \A i \in 1..(la + 1) : a[i] = m => i = la + 1
    <3>1. \A i \in 1..la : a[i] # m
      BY <1>2 DEF la
    <3> QED
      BY <1>1, <3>1
  <2>5. t[p][1] = m /\ t[p][2] = p - (L + 1)
    BY <2>1
  <2>6. Len(t) <= Len(t)
    BY <1>1
  <2> QED
    BY <1>2, <2>1, <2>2, <2>3, <2>4, <2>5, <2>6 DEF InFrame
<1>5. ASSUME NEW h, n = 0 \/ h = k
      PROVE  Continues(t, a, n, h)
  <2>1. n > 0 => h = k /\ a[n] = acc[n]
    BY <1>2, <1>5
  <2>2. n < la => a[n + 1] = acc[n + 1]
    BY <1>1, <1>2
  <2>3. s # <<>> => L >= 1 /\ t[1] = s[1]
    <3>1. s # <<>> => L >= 1
      OBVIOUS
    <3> HIDE DEF t
    <3> QED
      BY <1>1, <3>1
  <2>4. s = <<>> => L = 0 /\ t[1] = <<m, 0>>
    <3>1. s = <<>> => L = 0
      OBVIOUS
    <3> HIDE DEF t, L
    <3> QED
      BY <1>1, <3>1
  <2>5. t # <<>>
    <3> HIDE DEF t
    <3> QED
      BY <1>1
  <2>6. Continues(s, acc, n, k)
    BY DEF Framed
  <2>7. n <= la /\ n < la + 1 /\ n \in Nat /\ la \in Nat
    BY <1>1
  <2> HIDE DEF t, a, L, la
  <2> QED
    <3>1. CASE n > 0 /\ k < Size(acc[n])
      BY <2>1, <2>3, <2>5, <2>6, <3>1 DEF Continues
    <3>2. CASE ~(n > 0 /\ k < Size(acc[n])) /\ n < la
      BY <1>2, <2>1, <2>2, <2>3, <2>5, <2>6, <2>7, <3>2 DEF Continues, la
    <3>3. CASE ~(n > 0 /\ k < Size(acc[n])) /\ ~(n < la)
      <4>1. s = <<>> /\ n = la
        BY <2>6, <2>7, <3>3 DEF Continues, la
      <4>2. a[n + 1] = m
        BY <1>2, <4>1
      <4> QED
        BY <1>2, <2>1, <2>4, <2>5, <2>7, <3>3, <4>1, <4>2 DEF Continues
    <3> QED
      BY <3>1, <3>2, <3>3
<1>6. \A p \in 1..Len(t) : p \in 1..L \/ p \in (L + 1)..Len(t)
  <2> HIDE DEF t
  <2> QED
    BY <1>1
<1> HIDE DEF t, a
<1> QED
  BY <1>3, <1>4, <1>5, <1>6 DEF Framed, t, a

(* Units are read: each of the others is where it was, seen from the end.  *)
LEMMA InFrameDropped ==
  ASSUME NEW s \in Seq(Units), NEW acc \in Seq(Messages), NEW d \in Nat, d <= Len(s),
         \A p \in 1..Len(s) : InFrame(s, p, acc)
  PROVE  \A p \in 1..Len(Dropped(s, d)) : InFrame(Dropped(s, d), p, acc)
<1> DEFINE t == Dropped(s, d)
           L == Len(s)
<1>1. t \in Seq(Units) /\ Len(t) = L - d /\ (\A q \in 1..(L - d) : t[q] = s[q + d]) /\ L \in Nat
  <2>1. L \in Nat
    OBVIOUS
  <2>2. t \in Seq(Units) /\ Len(t) = L - d /\ \A q \in 1..(L - d) : t[q] = s[q + d]
    BY DroppedIs, Zenon
  <2> QED
    BY <2>1, <2>2
<1> SUFFICES ASSUME NEW p \in 1..Len(t) PROVE InFrame(t, p, acc)
  OBVIOUS
<1> DEFINE x == s[p + d][1]
           j == s[p + d][2]
           end == (p + d) + Size(x) - j
<1>2. p + d \in 1..L /\ p \in 1..(L - d) /\ t[p] = s[p + d]
  <2> HIDE DEF t, L
  <2> QED
    BY <1>1
<1>3. /\ x \in Range(acc) /\ j \in 0..Size(x)
      /\ end <= L /\ \A q \in (p + d)..end : s[q] = <<x, j + (q - (p + d))>>
      /\ \A i \in 1..Len(acc) : acc[i] = x =>
           IF i = Len(acc) THEN end = L ELSE end < L /\ s[end + 1] = <<acc[i + 1], 0>>
  BY <1>2 DEF InFrame
<1>4. Size(x) \in Nat
  <2>1. \A y \in Range(acc) : y \in Messages
    BY DEF Range
  <2> QED
    BY <1>3, <2>1, SizeIsNat
<1> DEFINE e == p + Size(x) - j
<1>5. e \in Nat /\ e = end - d /\ e >= p /\ end \in Nat
  <2> HIDE DEF x, j
  <2> QED
    BY <1>1, <1>3, <1>4
<1>6. e <= Len(t) /\ (end = L <=> e = Len(t)) /\ (end < L <=> e < Len(t))
  <2> HIDE DEF t, e, end, L
  <2> QED
    BY <1>1, <1>3, <1>5
<1>7. ASSUME NEW q \in p..e
      PROVE  t[q] = <<x, j + (q - p)>>
  <2>1. q \in 1..(L - d) /\ q + d \in (p + d)..end /\ (q + d) - (p + d) = q - p
    <3>1. p \in Nat /\ p >= 1 /\ e <= L - d
      <4> HIDE DEF t, e, end, L
      <4> QED
        BY <1>1, <1>2, <1>6
    <3> HIDE DEF t, e, end, L
    <3> QED
      BY <1>1, <1>5, <3>1
  <2> QED
    BY <1>1, <1>3, <2>1
<1>8. end < L => t[e + 1] = s[end + 1]
  <2>1. end < L => e + 1 \in 1..(L - d) /\ (e + 1) + d = end + 1
    <3> HIDE DEF t, e, end, L
    <3> QED
      BY <1>1, <1>5, <1>6
  <2> HIDE DEF t, e, end, L
  <2> QED
    BY <1>1, <2>1
<1>9. t[p][1] = x /\ t[p][2] = j
  BY <1>2
<1>10. \A i \in 1..Len(acc) : acc[i] = x =>
         IF i = Len(acc) THEN e = Len(t) ELSE e < Len(t) /\ t[e + 1] = <<acc[i + 1], 0>>
  <2> HIDE DEF t, x, j, end, e, L
  <2> QED
    BY <1>3, <1>6, <1>8
<1>11. e = p + Size(x) - j
  OBVIOUS
<1> HIDE DEF t, x, j, end, e, L
<1> QED
  BY <1>3, <1>6, <1>7, <1>9, <1>10, <1>11 DEF InFrame

(* A flusher reads d units of the text of the message taken last: they are *)
(* there.                                                                  *)
LEMMA FramedAdvance ==
  ASSUME NEW s \in Seq(Units), NEW acc \in Seq(Messages), NEW n \in 1..Len(acc),
         NEW k \in Nat, NEW d \in Nat, k + d <= Size(acc[n]),
         Framed(s, acc, n, k)
  PROVE  /\ d <= Len(s)
         /\ \A q \in 1..d : s[q] = <<acc[n], k + q>>
         /\ Framed(Dropped(s, d), acc, n, k + d)
<1> DEFINE m == acc[n]
           t == Dropped(s, d)
<1>1. m \in Messages /\ Size(m) \in Nat /\ Len(s) \in Nat /\ Len(acc) \in Nat
  <2>1. m \in Messages /\ Len(s) \in Nat /\ Len(acc) \in Nat
    OBVIOUS
  <2> QED
    BY <2>1, SizeIsNat
<1>2. \A p \in 1..Len(s) : InFrame(s, p, acc)
  BY DEF Framed
<1>3. CASE d = 0
  <2>1. t \in Seq(Units) /\ Len(t) = Len(s) /\ \A q \in 1..Len(s) : t[q] = s[q]
    <3>1. t \in Seq(Units) /\ Len(t) = Len(s) - 0 /\ \A q \in 1..(Len(s) - 0) : t[q] = s[q + 0]
      BY <1>1, <1>3, DroppedIs
    <3> HIDE DEF t
    <3> QED
      BY <1>1, <3>1
  <2>2. t = s
    <3> HIDE DEF t
    <3> QED
      BY <2>1, SeqEqual, Zenon
  <2>3. k + 0 = k
    OBVIOUS
  <2> QED
    BY <1>1, <1>3, <2>2, <2>3
<1>4. CASE d > 0
  <2>1. s # <<>> /\ s[1] = <<m, k + 1>>
    <3>1. n > 0 /\ k < Size(m)
      BY <1>1, <1>4
    <3> QED
      BY <3>1 DEF Framed, Continues
  <2>2. 1 \in 1..Len(s) /\ s[1][1] = m /\ s[1][2] = k + 1
    BY <1>1, <2>1
  <2> DEFINE end == 1 + Size(m) - (k + 1)
  <2>3. /\ end <= Len(s) /\ \A q \in 1..end : s[q] = <<m, (k + 1) + (q - 1)>>
        /\ \A i \in 1..Len(acc) : acc[i] = m =>
             IF i = Len(acc) THEN end = Len(s) ELSE end < Len(s) /\ s[end + 1] = <<acc[i + 1], 0>>
    <3>1. InFrame(s, 1, acc)
      BY <1>2, <2>2
    <3> QED
      BY <2>2, <3>1, Zenon DEF InFrame
  <2>4. end = Size(m) - k /\ d <= end /\ end \in Nat
    BY <1>1
  <2> HIDE DEF end
  <2>5. d <= Len(s) /\ \A q \in 1..end : s[q] = <<m, k + q>>
    <3>1. \A q \in 1..end : (k + 1) + (q - 1) = k + q
      BY <2>4
    <3> QED
      BY <1>1, <2>3, <2>4, <3>1
  <2>6. \A q \in 1..d : s[q] = <<m, k + q>>
    BY <2>4, <2>5
  <2>7. Len(t) = Len(s) - d /\ \A q \in 1..(Len(s) - d) : t[q] = s[q + d]
    BY <2>5, DroppedIs
  <2>8. Continues(t, acc, n, k + d)
    <3>1. CASE k + d < Size(m)
      <4>1. d + 1 \in 1..end /\ 1 \in 1..(Len(s) - d) /\ Len(t) > 0 /\ 1 + d = d + 1
        <5> HIDE DEF t, m
        <5> QED
          BY <1>1, <2>3, <2>4, <2>7, <3>1
      <4>2. t[1] = <<m, (k + d) + 1>>
        <5>1. k + (d + 1) = (k + d) + 1
          OBVIOUS
        <5> QED
          BY <2>5, <2>7, <4>1, <5>1
      <4>3. t # <<>>
        BY <4>1
      <4> HIDE DEF t
      <4> QED
        BY <3>1, <4>2, <4>3 DEF Continues
    <3>2. CASE ~(k + d < Size(m)) /\ n < Len(acc)
      <4>1. end = d /\ n # Len(acc)
        <5> HIDE DEF m
        <5> QED
          BY <1>1, <2>4, <3>2
      <4>2. d < Len(s) /\ s[d + 1] = <<acc[n + 1], 0>>
        BY <2>3, <4>1
      <4>3. 1 \in 1..(Len(s) - d) /\ Len(t) > 0 /\ 1 + d = d + 1
        <5> HIDE DEF t
        <5> QED
          BY <1>1, <2>7, <4>2
      <4>4. t # <<>> /\ t[1] = <<acc[n + 1], 0>>
        BY <2>7, <4>2, <4>3
      <4> HIDE DEF t
      <4> QED
        BY <3>2, <4>4 DEF Continues
    <3>3. CASE ~(k + d < Size(m)) /\ ~(n < Len(acc))
      <4>1. end = d /\ n = Len(acc)
        <5> HIDE DEF m
        <5> QED
          BY <1>1, <2>4, <3>3
      <4>2. Len(t) = 0 /\ t \in Seq(Units)
        <5>1. t \in Seq(Units)
          BY <2>5, DroppedIs
        <5> HIDE DEF t
        <5> QED
          BY <1>1, <2>3, <2>7, <4>1, <5>1
      <4>3. t = <<>>
        <5> HIDE DEF t
        <5> QED
          BY <4>2
      <4> HIDE DEF t
      <4> QED
        BY <3>3, <4>3 DEF Continues
    <3> QED
      BY <3>1, <3>2, <3>3
  <2>9. \A p \in 1..Len(t) : InFrame(t, p, acc)
    BY <1>2, <2>5, InFrameDropped
  <2> QED
    BY <2>5, <2>6, <2>8, <2>9 DEF Framed
<1> QED
  BY <1>3, <1>4

(* A flusher reads a header: it is that of the next message accepted, and  *)
(* if there is no data there is no such message.                           *)
LEMMA FramedHeader ==
  ASSUME NEW s \in Seq(Units), NEW acc \in Seq(Messages), NEW n \in 0..Len(acc), NEW k,
         n = 0 \/ k = Size(acc[n]),
         Framed(s, acc, n, k)
  PROVE  /\ s = <<>> => n = Len(acc)
         /\ s # <<>> => /\ n < Len(acc) /\ s[1] = <<acc[n + 1], 0>>
                        /\ Framed(Dropped(s, 1), acc, n + 1, 0)
<1>1. Len(acc) \in Nat /\ ~(n > 0 /\ k < Size(acc[n]))
  <2>1. n > 0 => Size(acc[n]) \in Nat
    BY SizeIsNat
  <2> QED
    BY <2>1
<1>2. IF n < Len(acc) THEN s # <<>> /\ s[1] = <<acc[n + 1], 0>> ELSE s = <<>>
  BY <1>1 DEF Framed, Continues
<1>3. s = <<>> => n = Len(acc)
  BY <1>1, <1>2
<1> SUFFICES ASSUME s # <<>>
             PROVE  n < Len(acc) /\ s[1] = <<acc[n + 1], 0>> /\ Framed(Dropped(s, 1), acc, n + 1, 0)
  BY <1>3
<1> DEFINE m == acc[n + 1]
           t == Dropped(s, 1)
<1>4. n < Len(acc) /\ s[1] = <<m, 0>>
  BY <1>2
<1>5. n + 1 \in 1..Len(acc) /\ m \in Messages /\ Size(m) \in Nat /\ Len(s) \in Nat /\ 1 <= Len(s)
  <2>1. n + 1 \in 1..Len(acc) /\ m \in Messages /\ Len(s) \in Nat /\ 1 <= Len(s)
    BY <1>1, <1>4
  <2> QED
    BY <2>1, SizeIsNat
<1>6. /\ t \in Seq(Units) /\ Len(t) = Len(s) - 1 /\ \A q \in 1..(Len(s) - 1) : t[q] = s[q + 1]
      /\ \A p \in 1..Len(t) : InFrame(t, p, acc)
  BY <1>5, DroppedIs, InFrameDropped DEF Framed
<1> DEFINE end == 1 + Size(m) - 0
<1>7. /\ end <= Len(s) /\ \A q \in 1..end : s[q] = <<m, 0 + (q - 1)>>
      /\ \A i \in 1..Len(acc) : acc[i] = m =>
           IF i = Len(acc) THEN end = Len(s) ELSE end < Len(s) /\ s[end + 1] = <<acc[i + 1], 0>>
  <2>1. InFrame(s, 1, acc) /\ s[1][1] = m /\ s[1][2] = 0
    BY <1>4, <1>5 DEF Framed
  <2> QED
    BY <2>1, Zenon DEF InFrame
<1>8. end = Size(m) + 1
  BY <1>5
<1> HIDE DEF end
<1>9. Continues(t, acc, n + 1, 0)
  <2>1. CASE 0 < Size(m)
    <3>1. 2 \in 1..end /\ 1 \in 1..(Len(s) - 1)
      <4> HIDE DEF m
      <4> QED
        BY <1>5, <1>7, <1>8, <2>1
    <3>2. t[1] = <<m, 0 + 1>> /\ t # <<>>
      BY <1>6, <1>7, <3>1
    <3> HIDE DEF t
    <3> QED
      BY <1>5, <2>1, <3>2 DEF Continues
  <2>2. CASE ~(0 < Size(m)) /\ n + 1 < Len(acc)
    <3>1. end = 1 /\ n + 1 # Len(acc)
      <4> HIDE DEF m
      <4> QED
        BY <1>5, <1>8, <2>2
    <3>2. 1 < Len(s) /\ s[1 + 1] = <<acc[(n + 1) + 1], 0>>
      BY <1>5, <1>7, <3>1
    <3>3. 1 \in 1..(Len(s) - 1)
      BY <1>5, <3>2
    <3>4. t[1] = <<acc[(n + 1) + 1], 0>> /\ t # <<>>
      BY <1>6, <3>2, <3>3
    <3> HIDE DEF t
    <3> QED
      BY <1>5, <2>2, <3>4 DEF Continues
  <2>3. CASE ~(0 < Size(m)) /\ ~(n + 1 < Len(acc))
    <3>1. end = 1 /\ n + 1 = Len(acc)
      <4> HIDE DEF m
      <4> QED
        BY <1>1, <1>4, <1>5, <1>8, <2>3
    <3>2. Len(t) = 0
      <4> HIDE DEF t
      <4> QED
        BY <1>5, <1>6, <1>7, <3>1
    <3>3. t = <<>>
      <4> HIDE DEF t
      <4> QED
        BY <1>6, <3>2
    <3> HIDE DEF t
    <3> QED
      BY <2>3, <3>3 DEF Continues
  <2> QED
    BY <2>1, <2>2, <2>3
<1> QED
  BY <1>4, <1>6, <1>9 DEF Framed

-----------------------------------------------------------------------------
(* The steps, and what they do to places, mutex and numbers. *)

LEMMA Threads ==
  /\ Flushers = {LogThread, Main} /\ LogThread # Main
  /\ \A f \in Flushers : f \notin Writers /\ f # NoOne
  /\ NoOne \notin Writers
BY LoggerAssumption DEF Flushers

OtherStep ==
  \/ ThreadRun \/ ThreadLoop \/ ThreadWait \/ ThreadTimeout \/ ThreadWoken \/ ThreadSync
  \/ StartLoggingThread \/ DestructorStop \/ DestructorJoin \/ DestructorClear

LEMMA StepCases ==
  ASSUME [Next]_vars
  PROVE  \/ /\ ~Over
            /\ \/ \E w \in Writers : WriteBegin(w) \/ WriterStep(w)
               \/ \E f \in Flushers : FlushStep(f)
               \/ OtherStep
         \/ UNCHANGED vars
BY Threads DEF Next, ThreadStep, DestructorStep, OtherStep

Control == Placed /\ MutexHeld /\ OneFlusher

LEMMA WriterControl ==
  ASSUME Control, NEW w \in Writers, WriteBegin(w) \/ WriterStep(w),
         \A v \in Writers : Writing(v) => msg[v] \in Messages
  PROVE  Control'
<1>1. CASE WriteBegin(w)
  BY <1>1, Threads DEF Control, WriteBegin, Go, Goto, Placed, MutexHeld, OneFlusher, WriterPlaces, FlusherPlaces, threadVars
<1>2. CASE WriteThrows(w)
  BY <1>2, Threads DEF Control, WriteThrows, Go, Goto, Placed, MutexHeld, OneFlusher, WriterPlaces, FlusherPlaces, threadVars
<1>3. CASE WriteLock(w)
  <2>1. msg[w].kind.via \in {"format", "string"}
    BY <1>3, LoggerAssumption DEF WriteLock, Go, Writing, Messages
  <2> QED
    BY <1>3, <2>1, Threads DEF Control, WriteLock, Go, Goto, Lock, Placed, MutexHeld, OneFlusher, WriterPlaces, FlusherPlaces, threadVars
<1>4. CASE WriteFormat(w)
  BY <1>4, Threads DEF Control, WriteFormat, Go, Goto, Placed, MutexHeld, OneFlusher, WriterPlaces, FlusherPlaces, threadVars
<1>5. CASE WriteHeader(w)
  BY <1>5, Threads DEF Control, WriteHeader, Goto, Placed, MutexHeld, OneFlusher, WriterPlaces, FlusherPlaces, threadVars
<1>6. CASE WriteText(w)
  BY <1>6, Threads DEF Control, WriteText, Go, Goto, Placed, MutexHeld, OneFlusher, WriterPlaces, FlusherPlaces, threadVars
<1>7. CASE WriteUnlock(w)
  BY <1>7, Threads DEF Control, WriteUnlock, Go, Goto, Unlock, Placed, MutexHeld, OneFlusher, WriterPlaces, FlusherPlaces, threadVars
<1>8. CASE WriteNotify(w)
  BY <1>8, Threads DEF Control, WriteNotify, Placed, MutexHeld, OneFlusher, WriterPlaces, FlusherPlaces, threadVars
<1> QED
  BY <1>1, <1>2, <1>3, <1>4, <1>5, <1>6, <1>7, <1>8 DEF WriterStep

LEMMA FlusherControl ==
  ASSUME Control, NEW f \in Flushers, FlushStep(f)
  PROVE  Control'
<1> USE Threads DEF Control, Goto, Go, Lock, Unlock, Placed, MutexHeld, OneFlusher, WriterPlaces, FlusherPlaces, threadVars
<1>1. CASE FlushLock(f)
  BY <1>1 DEF FlushLock
<1>2. CASE FlushHeader(f)
  <2>1. m_buffer = <<>> => pc' = [pc EXCEPT ![f] = "sync"] /\ m_mutex' = NoOne
    BY <1>2 DEF FlushHeader
  <2>2. m_buffer # <<>> => /\ pc' = [pc EXCEPT ![f] = "text"] \/ pc' = [pc EXCEPT ![f] = "undefined"]
                          /\ m_mutex' = m_mutex
    BY <1>2 DEF FlushHeader
  <2>3. pc[f] = "header" /\ m_state' = m_state
    BY <1>2 DEF FlushHeader
  <2>4. CASE m_buffer = <<>>
    BY <2>1, <2>3, <2>4
  <2>5. CASE m_buffer # <<>>
    BY <2>2, <2>3, <2>5
  <2> QED
    BY <2>4, <2>5
<1>3. CASE FlushText(f)
  <2>1. pc' = [pc EXCEPT ![f] = "sync"] \/ pc' = [pc EXCEPT ![f] = "file"]
    BY <1>3 DEF FlushText
  <2>2. pc[f] = "text" /\ m_mutex' = NoOne /\ m_state' = m_state
    BY <1>3 DEF FlushText
  <2> QED
    BY <2>1, <2>2
<1>4. CASE FlushFile(f)
  BY <1>4 DEF FlushFile
<1>5. CASE FlushThrows(f)
  BY <1>5 DEF FlushThrows
<1>6. CASE FlushRelock(f)
  BY <1>6 DEF FlushRelock
<1>7. CASE FlushRest(f)
  <2>1. pc' = [pc EXCEPT ![f] = "sync"] \/ pc' = [pc EXCEPT ![f] = "print"]
    BY <1>7 DEF FlushRest
  <2>2. pc[f] = "rest" /\ m_mutex' = NoOne /\ m_state' = m_state
    BY <1>7 DEF FlushRest
  <2> QED
    BY <2>1, <2>2
<1>8. CASE FlushPrint(f)
  BY <1>8 DEF FlushPrint
<1> QED
  BY <1>1, <1>2, <1>3, <1>4, <1>5, <1>6, <1>7, <1>8 DEF FlushStep

LEMMA OtherControl ==
  ASSUME Control, OtherStep
  PROVE  Control'
<1> USE Threads DEF Control, Goto, Go, Placed, MutexHeld, OneFlusher, WriterPlaces, FlusherPlaces, threadVars
<1>1. CASE ThreadRun
  BY <1>1 DEF ThreadRun
<1>2. CASE ThreadLoop
  BY <1>2 DEF ThreadLoop
<1>3. CASE ThreadWait
  BY <1>3 DEF ThreadWait
<1>4. CASE ThreadTimeout
  BY <1>4 DEF ThreadTimeout
<1>5. CASE ThreadWoken
  BY <1>5 DEF ThreadWoken
<1>6. CASE ThreadSync
  BY <1>6 DEF ThreadSync
<1>7. CASE StartLoggingThread
  BY <1>7 DEF StartLoggingThread
<1>8. CASE DestructorStop
  BY <1>8 DEF DestructorStop
<1>9. CASE DestructorJoin
  BY <1>9 DEF DestructorJoin
<1>10. CASE DestructorClear
  BY <1>10 DEF DestructorClear
<1> QED
  BY <1>1, <1>2, <1>3, <1>4, <1>5, <1>6, <1>7, <1>8, <1>9, <1>10 DEF OtherStep

(* What no writer does leaves the writers alone. *)
LEMMA WritersStay ==
  ASSUME Placed, OtherStep \/ \E f \in Flushers : FlushStep(f)
  PROVE  /\ \A w \in Writers : pc'[w] = pc[w]
         /\ msg' = msg /\ written' = written /\ accepted' = accepted
<1> USE Threads DEF Placed, Go, Goto, bufferVars, localVars, Forget
<1>1. CASE OtherStep
  BY <1>1 DEF OtherStep, ThreadRun, ThreadLoop, ThreadWait, ThreadTimeout, ThreadWoken, ThreadSync,
              StartLoggingThread, DestructorStop, DestructorJoin, DestructorClear
<1>2. ASSUME NEW f \in Flushers, FlushStep(f)
      PROVE  /\ \E there : pc' = [pc EXCEPT ![f] = there]
             /\ msg' = msg /\ written' = written /\ accepted' = accepted
  <2>1. CASE FlushHeader(f)
    BY <2>1 DEF FlushHeader
  <2>2. CASE FlushText(f) \/ FlushRest(f)
    BY <2>2 DEF FlushText, FlushRest
  <2>3. CASE FlushLock(f) \/ FlushFile(f) \/ FlushRelock(f)
    BY <2>3 DEF FlushLock, FlushFile, FlushRelock
  <2>4. CASE FlushThrows(f) \/ FlushPrint(f)
    BY <2>4 DEF FlushThrows, FlushPrint
  <2> QED
    BY <1>2, <2>1, <2>2, <2>3, <2>4 DEF FlushStep
<1> QED
  BY <1>1, <1>2

LEMMA NumberedStays ==
  ASSUME Numbered, \A w \in Writers : pc'[w] = pc[w], msg' = msg, written' = written, accepted' = accepted
  PROVE  Numbered'
BY DEF Numbered, Writing

LEMMA WriterNumbered ==
  ASSUME Placed, Typed, MutexHeld, Numbered, NEW w \in Writers, WriteBegin(w) \/ WriterStep(w)
  PROVE  Numbered'
<1>1. /\ \A v \in Writers : Writing(v) => msg[v] \in Messages /\ msg[v].seq <= written
      /\ \A u, v \in Writers : u # v /\ Writing(u) /\ Writing(v) => msg[u].seq # msg[v].seq
      /\ \A i \in 1..Len(accepted) : accepted[i].seq <= written
      /\ \A v \in Writers : pc[v] \in {"lock", "format", "string"} =>
           \A i \in 1..Len(accepted) : accepted[i].seq # msg[v].seq
      /\ written \in Nat /\ accepted \in Seq(Messages) /\ msg \in [Writers -> Messages \cup {NoMessage}]
      /\ \A m \in Messages : m.seq \in Nat
  <2>1. \A m \in Messages : m.seq \in Nat
    BY LoggerAssumption DEF Messages
  <2> QED
    BY <2>1 DEF Numbered, Typed
<1>2. \A there : pc' = [pc EXCEPT ![w] = there] => pc'[w] = there /\ \A v \in Writers : v # w => pc'[v] = pc[v]
  BY DEF Placed
<1>3. CASE WriteBegin(w)
  <2>1. PICK m \in Messages : m.seq = written + 1 /\ msg' = [msg EXCEPT ![w] = m]
    BY <1>3 DEF WriteBegin
  <2>2. /\ written' = written + 1 /\ accepted' = accepted
        /\ pc'[w] = "lock" /\ \A v \in Writers : v # w => pc'[v] = pc[v]
    BY <1>2, <1>3 DEF WriteBegin, Go, Goto, bufferVars
  <2>3. msg'[w] = m /\ \A v \in Writers : v # w => msg'[v] = msg[v]
    BY <1>1, <2>1
  <2>4. \A v \in Writers : v # w /\ Writing(v)' => Writing(v) /\ msg'[v] = msg[v] /\ msg[v].seq \in Nat /\ msg[v].seq <= written
    BY <1>1, <2>2, <2>3 DEF Writing
  <2>5. \A i \in 1..Len(accepted) : accepted[i].seq \in Nat /\ accepted[i].seq <= written
    BY <1>1
  <2> QED
    BY <1>1, <2>1, <2>2, <2>3, <2>4, <2>5 DEF Numbered, Writing
<1>4. CASE WriteThrows(w) \/ WriteUnlock(w) \/ WriteNotify(w)
  <2>1. /\ written' = written /\ accepted' = accepted
        /\ pc'[w] \in {"idle", "notify"} /\ \A v \in Writers : v # w => pc'[v] = pc[v] /\ msg'[v] = msg[v]
    <3>1. CASE WriteThrows(w)
      BY <1>1, <1>2, <3>1 DEF WriteThrows, Go, Goto, bufferVars
    <3>2. CASE WriteUnlock(w)
      BY <1>1, <1>2, <3>2 DEF WriteUnlock, Go, Goto, bufferVars
    <3>3. CASE WriteNotify(w)
      BY <3>3, Threads DEF WriteNotify, bufferVars, localVars, Placed
    <3> QED
      BY <1>4, <3>1, <3>2, <3>3
  <2>2. \A v \in Writers : Writing(v)' => Writing(v) /\ v # w /\ msg'[v] = msg[v]
    BY <2>1 DEF Writing
  <2>3. \A v \in Writers : pc'[v] \in {"lock", "format", "string"} => pc[v] = pc'[v] /\ msg'[v] = msg[v]
    BY <2>1
  <2>4. \A v \in Writers : Writing(v)' => msg'[v] \in Messages /\ msg'[v].seq <= written'
    BY <1>1, <2>1, <2>2
  <2>5. \A u, v \in Writers : u # v /\ Writing(u)' /\ Writing(v)' => msg'[u].seq # msg'[v].seq
    BY <1>1, <2>2
  <2>6. \A i \in 1..Len(accepted') : accepted'[i].seq <= written'
    BY <1>1, <2>1
  <2>7. \A v \in Writers : pc'[v] \in {"lock", "format", "string"} =>
          \A i \in 1..Len(accepted') : accepted'[i].seq # msg'[v].seq
    BY <1>1, <2>1, <2>3
  <2> QED
    BY <2>4, <2>5, <2>6, <2>7, Zenon DEF Numbered
<1>5. CASE WriteLock(w) \/ WriteText(w)
  <2>1. /\ written' = written /\ accepted' = accepted /\ msg' = msg
        /\ \A v \in Writers : v # w => pc'[v] = pc[v]
        /\ Writing(w) /\ (pc'[w] \in {"lock", "format", "string"} => pc[w] = "lock")
    BY <1>2, <1>5 DEF WriteLock, WriteText, Go, Goto, bufferVars, localVars, Writing
  <2> QED
    BY <1>1, <2>1 DEF Numbered, Writing
<1>6. CASE WriteFormat(w) \/ WriteHeader(w)
  <2>1. /\ written' = written /\ msg' = msg /\ pc[w] \in {"format", "string"}
        /\ pc'[w] \in {"text", "unlock"} /\ \A v \in Writers : v # w => pc'[v] = pc[v]
        /\ accepted' = accepted \/ accepted' = Append(accepted, msg[w])
    BY <1>2, <1>6 DEF WriteFormat, WriteHeader, Go, Goto, localVars, Accepted, Refused
  <2>2. msg[w] \in Messages /\ Writing(w) /\ msg[w].seq <= written
    BY <1>1, <2>1 DEF Writing
  <2>3. CASE accepted' = accepted
    BY <1>1, <2>1, <2>2, <2>3 DEF Numbered, Writing
  <2>4. CASE accepted' = Append(accepted, msg[w])
    <3>1. \A i \in 1..Len(accepted') : (i \in 1..Len(accepted) /\ accepted'[i] = accepted[i]) \/ accepted'[i] = msg[w]
      BY <1>1, <2>2, <2>4
    <3>2. \A v \in Writers : pc'[v] \in {"lock", "format", "string"} =>
            v # w /\ pc[v] \in {"lock", "format", "string"} /\ Writing(v) /\ msg[v].seq # msg[w].seq
      BY <1>1, <2>1, <2>2 DEF Writing
    <3>3. \A v \in Writers : Writing(v)' => Writing(v)
      BY <2>1 DEF Writing
    <3> QED
      BY <1>1, <2>1, <2>2, <3>1, <3>2, <3>3 DEF Numbered
  <2> QED
    BY <2>1, <2>3, <2>4
<1> QED
  BY <1>3, <1>4, <1>5, <1>6 DEF WriterStep

-----------------------------------------------------------------------------
(* Who reads, and what the stream is. *)

(* While one flusher flushes, the other one is not in the loop. *)
LEMMA Alone ==
  ASSUME OneFlusher, Placed, NEW f \in Flushers,
         pc[f] \in {"flush", "header", "text", "file", "relock", "rest", "print", "sync"}
  PROVE  \A g \in Flushers : g # f => pc[g] \in {"none", "exited", "up", "join"}
BY Threads DEF OneFlusher

ReadBy(f) ==
  IF pc[f] = "text" THEN 0
  ELSE IF pc[f] \in {"file", "relock", "rest"} /\ IsLarge(mh[f]) THEN LOGMSG_SIZE
  ELSE Size(accepted[taken])

LEMMA TextReadNow ==
  ASSUME NEW f \in Flushers, \A g \in Flushers : g # f => ~InHand(g)
  PROVE  TextRead = ReadBy(f)
<1>1. \A g \in Flushers : pc[g] \in {"text", "file", "relock", "rest"} => g = f
  BY DEF InHand
<1> QED
  BY <1>1 DEF TextRead, ReadBy

LEMMA TextReadNext ==
  ASSUME NEW f \in Flushers, \A g \in Flushers : g # f => ~InHand(g)'
  PROVE  TextRead' = ReadBy(f)'
<1>1. \A g \in Flushers : pc'[g] \in {"text", "file", "relock", "rest"} => g = f
  BY DEF InHand
<1> QED
  BY <1>1 DEF TextRead, ReadBy

LEMMA StreamNow ==
  ASSUME m_buffer \in Seq(Units), \A w \in Writers : pc[w] # "text"
  PROVE  Stream = m_buffer
<1>1. ~\E w \in Writers : pc[w] = "text"
  OBVIOUS
<1> QED
  BY <1>1, ConcatEmptySeq DEF Stream

LEMMA StreamNext ==
  ASSUME m_buffer' \in Seq(Units), \A w \in Writers : pc'[w] # "text"
  PROVE  Stream' = m_buffer'
<1>1. ~\E w \in Writers : pc'[w] = "text"
  OBVIOUS
<1>2. Stream' = m_buffer' \o <<>>
  BY <1>1 DEF Stream
<1> QED
  BY <1>2, ConcatEmptySeq

LEMMA StreamIsSeq ==
  ASSUME Typed, TextFits
  PROVE  Stream \in Seq(Units)
<1>1. CASE \E w \in Writers : pc[w] = "text"
  <2>1. accepted # <<>> /\ accepted \in Seq(Messages)
    BY <1>1 DEF TextFits, Typed
  <2>2. accepted[Len(accepted)] \in Messages
    BY <2>1
  <2>3. Text(accepted[Len(accepted)]) \in Seq(Units)
    BY <2>2, TextIs
  <2> QED
    BY <1>1, <2>3, ConcatProperties DEF Stream, Typed
<1>2. CASE ~\E w \in Writers : pc[w] = "text"
  BY <1>2, StreamNow DEF Typed
<1> QED
  BY <1>1, <1>2

LEMMA OutputBound ==
  ASSUME Placed, Typed, Hand, OneFlusher
  PROVE  Len(output) \in Nat /\ Len(output) <= taken /\ taken <= Len(accepted) /\ Len(accepted) \in Nat /\ taken \in Nat
<1>1. Len(output) \in Nat /\ taken \in 0..Len(accepted) /\ Len(accepted) \in Nat
  BY DEF Typed
<1>2. Len(output) = taken \/ Len(output) = taken - 1
  BY DEF Hand
<1> QED
  BY <1>1, <1>2

-----------------------------------------------------------------------------
(* The steps, and what they do to the messages. *)

Data == TextFits /\ Hand /\ TailIsNext /\ StreamFramed /\ PrintedAsWritten

(* What moves no message. *)
LEMMA Quiet ==
  ASSUME Data, m_buffer' = m_buffer, accepted' = accepted, taken' = taken,
         mh' = mh, logbuf' = logbuf, output' = output,
         \A f \in Flushers :
           \/ pc'[f] = pc[f]
           \/ ~InHand(f) /\ ~InHand(f)' /\ pc[f] # "undefined" /\ pc'[f] # "undefined",
         \A w \in Writers : \/ pc'[w] = pc[w] /\ msg'[w] = msg[w]
                            \/ pc[w] # "text" /\ pc'[w] # "text"
  PROVE  Data'
<1>1. TextFits'
  BY DEF Data, TextFits, Fits
<1>2. \A f \in Flushers : /\ InHand(f)' <=> InHand(f)
                          /\ InHand(f) => pc'[f] = pc[f]
                          /\ pc'[f] = "undefined" <=> pc[f] = "undefined"
  BY DEF InHand
<1>3. TailLost' = TailLost /\ (Undefined' <=> Undefined)
  BY <1>2 DEF TailLost, Undefined
<1>4. \A f \in Flushers : /\ pc'[f] = "text" <=> pc[f] = "text"
                          /\ pc'[f] \in {"file", "relock", "rest"} <=> pc[f] \in {"file", "relock", "rest"}
                          /\ pc'[f] \in {"relock", "rest"} <=> pc[f] \in {"relock", "rest"}
                          /\ pc'[f] = "print" <=> pc[f] = "print"
  BY <1>2 DEF InHand
<1>5. Hand'
  BY <1>2, <1>3, <1>4 DEF Data, Hand
<1>6. TailIsNext'
  BY <1>3 DEF Data, TailIsNext
<1>7. Read' = Read
  BY <1>3, <1>4 DEF Read, TextRead
<1>8. Stream' = Stream
  <2>1. \A w \in Writers : pc'[w] = "text" <=> pc[w] = "text"
    OBVIOUS
  <2> QED
    BY <2>1 DEF Stream
<1>9. StreamFramed'
  BY <1>3, <1>7, <1>8 DEF Data, StreamFramed
<1>10. PrintedAsWritten'
  BY DEF Data, PrintedAsWritten
<1> QED
  BY <1>1, <1>5, <1>6, <1>9, <1>10 DEF Data

(* A frame is put behind a buffer, in one piece or in two. *)
LEMMA BufferAndFrame ==
  ASSUME NEW b \in Seq(Units), NEW m \in Messages
  PROVE  /\ b \o Header(m) \in Seq(Units) /\ Len(b \o Header(m)) = Len(b) + 1
         /\ b \o Frame(m) \in Seq(Units)
         /\ (b \o Header(m)) \o Text(m) = b \o Frame(m)
         /\ b \o Text(m) \in Seq(Units)
<1>1. /\ Header(m) \in Seq(Units) /\ Len(Header(m)) = 1
      /\ Frame(m) \in Seq(Units) /\ Frame(m) = Header(m) \o Text(m)
  BY FrameIs DEF Header, Frame
<1>2. Text(m) \in Seq(Units)
  BY TextIs
<1>3. /\ b \o Header(m) \in Seq(Units) /\ Len(b \o Header(m)) = Len(b) + Len(Header(m))
      /\ b \o Frame(m) \in Seq(Units) /\ b \o Text(m) \in Seq(Units)
  BY <1>1, <1>2, ConcatProperties, Zenon
<1>4. (b \o Header(m)) \o Text(m) = b \o (Header(m) \o Text(m))
  <2> DEFINE h == Header(m)
             x == Text(m)
  <2>1. h \in Seq(Units) /\ x \in Seq(Units)
    BY <1>1, <1>2
  <2> HIDE DEF h, x
  <2>2. (b \o h) \o x = b \o (h \o x)
    BY <2>1, ConcatAssociative
  <2> QED
    BY <2>2 DEF h, x
<1> QED
  BY <1>1, <1>3, <1>4, Zenon

(* A message is accepted: its frame is in the stream, all of it. *)
LEMMA AcceptData ==
  ASSUME IInv, ~Over, NEW w \in Writers, pc[w] \in {"format", "string"},
         accepted' = Append(accepted, msg[w]),
         Fits(1 + Size(msg[w])),
         \/ /\ m_buffer' = m_buffer \o Frame(msg[w])
            /\ pc' = [pc EXCEPT ![w] = "unlock"]
         \/ /\ m_buffer' = m_buffer \o Header(msg[w])
            /\ pc' = [pc EXCEPT ![w] = "text"],
         taken' = taken, mh' = mh, msg' = msg, logbuf' = logbuf, output' = output
  PROVE  Data' /\ m_buffer' \in Seq(Units) /\ accepted' \in Seq(Messages)
<1> DEFINE m == msg[w]
<1>1. /\ m_buffer \in Seq(Units) /\ accepted \in Seq(Messages) /\ pc \in [Writers \cup Flushers -> WriterPlaces \cup FlusherPlaces]
      /\ m \in Messages /\ \A i \in 1..Len(accepted) : accepted[i] # m
  <2>1. m \in Messages /\ \A i \in 1..Len(accepted) : accepted[i].seq # m.seq
    BY DEF IInv, Numbered, Writing
  <2> QED
    BY <2>1 DEF IInv, Typed, Placed
<1> HIDE DEF m
<1>2. \A v \in Writers : pc[v] # "text"
  BY DEF IInv, MutexHeld
<1>3. /\ \A f \in Flushers : pc'[f] = pc[f]
      /\ \A v \in Writers : v # w => pc'[v] = pc[v]
      /\ pc'[w] \in {"unlock", "text"}
  BY <1>1, Threads
<1>4. /\ Len(accepted) \in Nat /\ accepted' \in Seq(Messages) /\ Len(accepted') = Len(accepted) + 1
      /\ accepted'[Len(accepted) + 1] = m /\ \A i \in 1..Len(accepted) : accepted'[i] = accepted[i]
  <2>1. accepted' = Append(accepted, m) /\ Len(accepted) \in Nat
    BY <1>1 DEF m
  <2> QED
    BY <1>1, <2>1, AppendIs
<1>5. Len(output) \in Nat /\ Len(output) <= taken /\ taken <= Len(accepted) /\ taken \in Nat
  BY OutputBound DEF IInv
<1>6. /\ Stream' = m_buffer \o Frame(m) /\ m_buffer' \in Seq(Units)
      /\ pc'[w] = "text" => Len(m_buffer') = Len(m_buffer) + 1
  <2>1. CASE m_buffer' = m_buffer \o Frame(m) /\ pc' = [pc EXCEPT ![w] = "unlock"]
    <3>1. m_buffer' \in Seq(Units)
      BY <1>1, <2>1, FrameIs, ConcatProperties
    <3>2. \A v \in Writers : pc'[v] # "text"
      BY <1>1, <1>2, <2>1
    <3> QED
      BY <2>1, <3>1, <3>2, StreamNext
  <2>2. CASE m_buffer' = m_buffer \o Header(m) /\ pc' = [pc EXCEPT ![w] = "text"]
    <3>1. /\ m_buffer \o Header(m) \in Seq(Units) /\ Len(m_buffer \o Header(m)) = Len(m_buffer) + 1
          /\ (m_buffer \o Header(m)) \o Text(m) = m_buffer \o Frame(m)
      <4>1. m_buffer \in Seq(Units) /\ m \in Messages
        BY <1>1
      <4> QED
        BY <4>1, BufferAndFrame, Zenon
    <3>2. m_buffer' \in Seq(Units) /\ Len(m_buffer') = Len(m_buffer) + 1
      BY <2>2, <3>1, Zenon
    <3>3. Stream' = (m_buffer \o Header(m)) \o Text(m)
      <4>1. pc'[w] = "text"
        BY <1>1, <2>2
      <4>2. Stream' = m_buffer' \o Text(accepted'[Len(accepted')])
        BY <4>1 DEF Stream
      <4> QED
        BY <1>4, <2>2, <4>2
    <3>4. pc'[w] = "text"
      BY <1>1, <2>2
    <3> QED
      BY <3>1, <3>2, <3>3, <3>4, Zenon
  <2> QED
    BY <2>1, <2>2 DEF m
<1>7. TailLost' = TailLost /\ Undefined' = Undefined /\ ~Undefined
  <2>1. \A i \in 1..Len(output) : i \in 1..Len(accepted)
    BY <1>5
  <2>2. TailLost' = TailLost
    BY <1>4, <2>1 DEF TailLost
  <2> QED
    BY <1>3, <2>2 DEF Undefined, Over
<1>8. taken > 0 => taken \in 1..Len(accepted) /\ accepted'[taken] = accepted[taken]
  BY <1>4, <1>5
<1>9. TextFits'
  <2>1. ASSUME pc'[w] = "text"
        PROVE  accepted' # <<>> /\ msg'[w] = accepted'[Len(accepted')] /\ Fits(Size(msg[w]))'
    <3>1. Size(m) \in Nat /\ MAX_BUFFER_SIZE \in Nat /\ Len(m_buffer) \in Nat
      BY <1>1, SizeIsNat, LoggerAssumption
    <3>2. Len(m_buffer) + (1 + Size(m)) <= MAX_BUFFER_SIZE
      BY DEF Fits, m
    <3>3. Len(m_buffer') + Size(m) <= MAX_BUFFER_SIZE
      BY <1>6, <2>1, <3>1, <3>2
    <3> QED
      BY <1>4, <3>3 DEF Fits, m
  <2>2. \A v \in Writers : v # w => pc'[v] # "text"
    BY <1>2, <1>3
  <2> QED
    BY <2>1, <2>2 DEF TextFits, Fits
<1>10. Hand'
  BY <1>3, <1>7, <1>8 DEF IInv, Hand, InHand
<1>11. TailIsNext'
  BY <1>7, <1>8 DEF IInv, TailIsNext
<1>12. StreamFramed'
  <2>1. Framed(m_buffer, accepted, taken, Read)
    <3>1. Stream = m_buffer
      BY <1>1, <1>2, StreamNow
    <3> QED
      BY <1>7, <3>1 DEF IInv, StreamFramed
  <2>2. taken = 0 \/ Read' = Read
    <3>1. ASSUME taken > 0
          PROVE  Read' = Read
      BY <1>3, <1>7, <1>8, <3>1 DEF Read, TextRead
    <3> QED
      BY <1>5, <3>1
  <2>3. Framed(m_buffer \o Frame(m), Append(accepted, m), taken, Read')
    <3>1. taken \in 0..Len(accepted)
      BY <1>4, <1>5
    <3> QED
      BY <1>1, <2>1, <2>2, <3>1, FramedAppend
  <2>4. accepted' = Append(accepted, m)
    BY DEF m
  <2> QED
    BY <1>6, <2>3, <2>4 DEF StreamFramed
<1>13. PrintedAsWritten'
  <2>1. \A i \in 1..Len(output) : i \in 1..Len(accepted)
    BY <1>5
  <2> QED
    BY <1>4, <2>1 DEF IInv, PrintedAsWritten
<1> QED
  BY <1>4, <1>6, <1>9, <1>10, <1>11, <1>12, <1>13 DEF Data

(* write(string) stores the text of the message that it accepted. *)
LEMMA WriteTextData ==
  ASSUME IInv, ~Over, NEW w \in Writers, WriteText(w)
  PROVE  Data' /\ m_buffer' \in Seq(Units)
<1> DEFINE m == msg[w]
<1>1. /\ m_buffer \in Seq(Units) /\ pc \in [Writers \cup Flushers -> WriterPlaces \cup FlusherPlaces]
      /\ pc[w] = "text" /\ pc' = [pc EXCEPT ![w] = "unlock"]
      /\ accepted' = accepted /\ taken' = taken /\ mh' = mh /\ msg' = msg /\ logbuf' = logbuf /\ output' = output
  BY DEF IInv, Typed, Placed, WriteText, Go, Goto, localVars, fileVars
<1>2. accepted # <<>> /\ accepted \in Seq(Messages) /\ m = accepted[Len(accepted)] /\ Fits(Size(m))
  BY <1>1 DEF IInv, TextFits, Typed
<1>3. m \in Messages
  BY <1>2
<1>4. m_buffer' = m_buffer \o Text(m)
  BY <1>2 DEF WriteText, Put
<1> HIDE DEF m
<1>5. m_buffer' \in Seq(Units)
  <2>1. m_buffer \o Text(m) \in Seq(Units)
    BY <1>1, <1>3, BufferAndFrame, Zenon
  <2> QED
    BY <1>4, <2>1
<1>6. \A v \in Writers : pc'[v] # "text"
  BY <1>1, Threads DEF IInv, MutexHeld
<1>7. Stream' = Stream
  <2>1. Stream = m_buffer \o Text(m)
    BY <1>1, <1>2 DEF Stream
  <2> QED
    BY <1>4, <1>5, <1>6, <2>1, StreamNext
<1>8. \A f \in Flushers : pc'[f] = pc[f]
  BY <1>1, Threads
<1>9. TailLost' = TailLost /\ (Undefined' <=> Undefined) /\ Read' = Read
  BY <1>1, <1>8 DEF TailLost, Undefined, Read, TextRead
<1>10. TextFits' /\ PrintedAsWritten'
  BY <1>1, <1>6 DEF TextFits, IInv, PrintedAsWritten
<1>11. Hand' /\ TailIsNext' /\ StreamFramed'
  BY <1>1, <1>7, <1>8, <1>9 DEF IInv, Hand, InHand, TailIsNext, StreamFramed
<1> QED
  BY <1>5, <1>10, <1>11 DEF Data
-----------------------------------------------------------------------------
(* What a flusher knows of the buffer, and what it leaves. *)

FlushPlaces == {"flush", "header", "text", "file", "relock", "rest", "print", "sync"}

LEMMA FlusherKnows ==
  ASSUME IInv, ~Over, NEW f \in Flushers, pc[f] \in FlushPlaces
  PROVE  /\ \A g \in Flushers : g # f => pc[g] \in {"none", "exited", "up", "join"}
         /\ Framed(Stream, accepted, taken, IF TailLost THEN LOGMSG_SIZE ELSE ReadBy(f))
         /\ InHand(f) => /\ taken \in 1..Len(accepted) /\ mh[f] = accepted[taken]
                         /\ mh[f] \in Messages /\ Len(output) = taken - 1 /\ ~TailLost
         /\ ~InHand(f) => Len(output) = taken
         /\ pc[f] \in {"header", "text", "rest"} => Stream = m_buffer /\ \A w \in Writers : pc[w] # "text"
<1>1. \A g \in Flushers : g # f => pc[g] \in {"none", "exited", "up", "join"}
  BY Alone DEF IInv, FlushPlaces
<1>2. \A g \in Flushers : g # f => ~InHand(g)
  BY <1>1 DEF InHand
<1>3. TextRead = ReadBy(f)
  BY <1>2, TextReadNow
<1>4. Framed(Stream, accepted, taken, IF TailLost THEN LOGMSG_SIZE ELSE ReadBy(f))
  BY <1>3 DEF IInv, StreamFramed, Over, Read
<1>5. taken \in 0..Len(accepted) /\ accepted \in Seq(Messages) /\ Len(accepted) \in Nat
  BY DEF IInv, Typed
<1>6. ASSUME InHand(f)
      PROVE  /\ taken \in 1..Len(accepted) /\ mh[f] = accepted[taken]
             /\ mh[f] \in Messages /\ Len(output) = taken - 1 /\ ~TailLost
  <2>1. taken > 0 /\ mh[f] = accepted[taken] /\ Len(output) = taken - 1 /\ ~TailLost
    BY <1>6 DEF IInv, Hand
  <2>2. taken \in 1..Len(accepted)
    BY <1>5, <2>1
  <2>3. accepted[taken] \in Messages
    BY <1>5, <2>2
  <2> QED
    BY <2>1, <2>2, <2>3
<1>7. ~InHand(f) => Len(output) = taken
  BY <1>2 DEF IInv, Hand
<1>8. pc[f] \in {"header", "text", "rest"} => Stream = m_buffer /\ \A w \in Writers : pc[w] # "text"
  <2>1. ASSUME pc[f] \in {"header", "text", "rest"}
        PROVE  \A w \in Writers : pc[w] # "text"
    BY <2>1, Threads DEF IInv, MutexHeld
  <2>2. m_buffer \in Seq(Units)
    BY DEF IInv, Typed
  <2> QED
    BY <2>1, <2>2, StreamNow
<1> QED
  BY <1>1, <1>4, <1>6, <1>7, <1>8, Zenon

LEMMA FlusherLeaves ==
  ASSUME IInv, ~Over, NEW f \in Flushers, pc[f] \in FlushPlaces,
         NEW there, pc' = [pc EXCEPT ![f] = there]
  PROVE  /\ pc'[f] = there /\ \A w \in Writers : pc'[w] = pc[w]
         /\ \A g \in Flushers : g # f => pc'[g] \in {"none", "exited", "up", "join"}
         /\ \A g \in Flushers : g # f => ~InHand(g)'
         /\ Undefined' <=> there = "undefined"
         /\ TextRead' = ReadBy(f)'
<1>1. pc'[f] = there /\ \A t \in Writers \cup Flushers : t # f => pc'[t] = pc[t]
  BY DEF IInv, Placed
<1>2. \A w \in Writers : pc'[w] = pc[w]
  BY <1>1, Threads
<1>3. \A g \in Flushers : g # f => pc'[g] \in {"none", "exited", "up", "join"}
  BY <1>1, Alone DEF IInv, FlushPlaces
<1>4. \A g \in Flushers : g # f => ~InHand(g)'
  BY <1>3 DEF InHand
<1>5. Undefined' <=> there = "undefined"
  BY <1>1, <1>3 DEF Undefined
<1>6. TextRead' = ReadBy(f)'
  BY <1>4, TextReadNext
<1> QED
  BY <1>1, <1>2, <1>3, <1>4, <1>5, <1>6

(* Of what a flusher leaves, the invariant is what follows. *)
LEMMA FlusherData ==
  ASSUME IInv, ~Over, NEW f \in Flushers, pc[f] \in FlushPlaces,
         NEW there, pc' = [pc EXCEPT ![f] = there], there # "undefined",
         accepted' = accepted, msg' = msg,
         m_buffer' \in Seq(Units), Len(m_buffer') <= Len(m_buffer),
         m_buffer' = m_buffer \/ \A w \in Writers : pc[w] # "text",
         Framed(IF m_buffer' = m_buffer THEN Stream ELSE m_buffer', accepted, taken',
                IF TailLost' THEN LOGMSG_SIZE ELSE ReadBy(f)')
  PROVE  TextFits' /\ StreamFramed'
<1>1. pc'[f] = there /\ (\A w \in Writers : pc'[w] = pc[w]) /\ TextRead' = ReadBy(f)'
  BY FlusherLeaves, Zenon
<1>2. TextFits'
  <2>1. ASSUME NEW w \in Writers, pc'[w] = "text"
        PROVE  accepted' # <<>> /\ msg'[w] = accepted'[Len(accepted')] /\ Fits(Size(msg[w]))'
    BY <1>1, <2>1 DEF IInv, TextFits, Fits
  <2>2. TextFits' <=> \A w \in Writers : pc'[w] = "text" =>
          accepted' # <<>> /\ msg'[w] = accepted'[Len(accepted')] /\ Fits(Size(msg[w]))'
    BY DEF TextFits, Fits
  <2> QED
    BY <2>1, <2>2
<1>3. Stream' = IF m_buffer' = m_buffer THEN Stream ELSE m_buffer'
  <2>1. CASE m_buffer' = m_buffer
    BY <1>1, <2>1 DEF Stream
  <2>2. CASE m_buffer' # m_buffer
    <3>1. \A w \in Writers : pc'[w] # "text"
      BY <1>1, <2>2
    <3> QED
      BY <2>2, <3>1, StreamNext
  <2> QED
    BY <2>1, <2>2
<1>4. StreamFramed'
  BY <1>1, <1>3 DEF StreamFramed, Read
<1> QED
  BY <1>2, <1>4
(* Of the rest of what a flusher leaves: nothing but its hand has changed. *)
LEMMA FlusherHand ==
  ASSUME IInv, ~Over, NEW f \in Flushers, pc[f] \in FlushPlaces,
         NEW there, pc' = [pc EXCEPT ![f] = there], there # "undefined",
         accepted' = accepted, output' = output,
         InHand(f)', taken' \in 1..Len(accepted), mh'[f] = accepted[taken'],
         Len(output) = taken' - 1, ~TailLost,
         there \in {"relock", "rest"} => IsLarge(mh'[f]),
         there \in {"file", "relock", "rest"} => logbuf'[f] = PieceOf(mh'[f]),
         there = "print" => logbuf'[f] = Text(mh'[f])
  PROVE  Hand' /\ TailIsNext' /\ PrintedAsWritten'
<1>1. /\ pc'[f] = there /\ \A g \in Flushers : g # f => pc'[g] \in {"none", "exited", "up", "join"}
      /\ \A g \in Flushers : g # f => ~InHand(g)'
      /\ Undefined' <=> there = "undefined"
  BY FlusherLeaves, Zenon
<1>2. ~TailLost'
  BY DEF TailLost
<1>3. \A g \in Flushers : InHand(g)' =>
        taken' > 0 /\ mh'[g] = accepted'[taken'] /\ Len(output') = taken' - 1 /\ ~TailLost'
  <2>1. taken' > 0
    BY DEF IInv, Typed
  <2> QED
    BY <1>1, <1>2, <2>1
<1>4. \A g \in Flushers : /\ pc'[g] \in {"relock", "rest"} => IsLarge(mh'[g])
                          /\ pc'[g] \in {"file", "relock", "rest"} => logbuf'[g] = PieceOf(mh'[g])
                          /\ pc'[g] = "print" => logbuf'[g] = Text(mh'[g])
  BY <1>1
<1>5. Hand'
  BY <1>3, <1>4 DEF Hand
<1>6. TailIsNext'
  BY <1>1, <1>2 DEF TailIsNext
<1>7. PrintedAsWritten'
  BY DEF IInv, PrintedAsWritten
<1> QED
  BY <1>5, <1>6, <1>7

(* The header: no data means that everything is taken, and what is read is *)
(* the header of the next message, unless a tail was lost.                 *)
LEMMA FlushHeaderData ==
  ASSUME IInv, ~Over, NEW f \in Flushers, FlushHeader(f)
  PROVE  /\ Data' /\ Typed'
         /\ pc'[f] = "sync" => Len(output) = Len(accepted)
<1>1. /\ pc[f] = "header" /\ accepted' = accepted /\ output' = output /\ msg' = msg
      /\ logbuf' = logbuf /\ written' = written
  BY DEF FlushHeader, fileVars
<1>2. /\ m_buffer \in Seq(Units) /\ accepted \in Seq(Messages) /\ taken \in 0..Len(accepted)
      /\ Len(accepted) \in Nat /\ mh \in [Flushers -> Messages \cup {NoMessage}]
      /\ pc \in [Writers \cup Flushers -> WriterPlaces \cup FlusherPlaces]
  BY DEF IInv, Typed, Placed
<1>3. /\ Framed(m_buffer, accepted, taken, IF TailLost THEN LOGMSG_SIZE ELSE ReadBy(f))
      /\ Len(output) = taken /\ \A w \in Writers : pc[w] # "text"
  <2>1. pc[f] \in FlushPlaces /\ ~InHand(f)
    BY <1>1 DEF FlushPlaces, InHand
  <2> QED
    BY <1>1, <2>1, FlusherKnows
<1>4. TailLost' = TailLost
  BY <1>1 DEF TailLost
<1>5. ReadBy(f) = Size(accepted[taken])
  BY <1>1 DEF ReadBy
<1>6. ASSUME TailLost
      PROVE  /\ m_buffer # <<>> /\ m_buffer[1] = <<accepted[taken], LOGMSG_SIZE + 1>>
             /\ taken > 0 /\ IsLarge(accepted[taken])
  <2>1. taken > 0 /\ IsLarge(accepted[taken])
    BY <1>6 DEF IInv, TailIsNext
  <2>2. LOGMSG_SIZE < Size(accepted[taken])
    <3>1. accepted[taken] \in Messages
      BY <1>2, <2>1
    <3> QED
      BY <2>1, <3>1, SizeIsNat, LoggerAssumption DEF IsLarge
  <2>3. Continues(m_buffer, accepted, taken, LOGMSG_SIZE)
    BY <1>3, <1>6 DEF Framed
  <2> QED
    BY <2>1, <2>2, <2>3 DEF Continues
<1>7. ASSUME ~TailLost
      PROVE  /\ m_buffer = <<>> => taken = Len(accepted)
             /\ m_buffer # <<>> => /\ taken < Len(accepted) /\ m_buffer[1] = <<accepted[taken + 1], 0>>
                                   /\ Framed(Dropped(m_buffer, 1), accepted, taken + 1, 0)
  <2>1. Framed(m_buffer, accepted, taken, Size(accepted[taken]))
    BY <1>3, <1>5, <1>7
  <2> QED
    BY <1>2, <2>1, FramedHeader
<1>8. CASE m_buffer = <<>>
  <2>1. taken = Len(accepted)
    BY <1>6, <1>7, <1>8
  <2>2. pc' = [pc EXCEPT ![f] = "sync"] /\ m_buffer' = m_buffer /\ taken' = taken /\ mh' = mh
    BY <1>8 DEF FlushHeader, Goto
  <2>3. \A w \in Writers : pc'[w] = pc[w] /\ msg'[w] = msg[w]
    BY <1>1, <1>2, <2>2, Threads
  <2>4. \A g \in Flushers :
          \/ pc'[g] = pc[g]
          \/ ~InHand(g) /\ ~InHand(g)' /\ pc[g] # "undefined" /\ pc'[g] # "undefined"
    BY <1>1, <1>2, <2>2 DEF InHand
  <2>5. Data'
    <3>1. Data
      BY DEF IInv, Data
    <3> QED
      BY <1>1, <2>2, <2>3, <2>4, <3>1, Quiet, Zenon
  <2>6. Typed'
    BY <1>1, <2>2 DEF IInv, Typed
  <2> QED
    BY <1>3, <2>1, <2>5, <2>6
<1>9. CASE m_buffer # <<>> /\ ~TailLost
  <2>1. /\ taken < Len(accepted) /\ m_buffer[1] = <<accepted[taken + 1], 0>>
        /\ Framed(Dropped(m_buffer, 1), accepted, taken + 1, 0)
    BY <1>7, <1>9
  <2>2. Head(m_buffer) = <<accepted[taken + 1], 0>>
    BY <1>2, <1>9, <2>1
  <2>3. /\ m_buffer' = Dropped(m_buffer, 1) /\ taken' = taken + 1
        /\ mh' = [mh EXCEPT ![f] = accepted[taken + 1]]
        /\ pc' = [pc EXCEPT ![f] = "text"]
    BY <1>9, <2>2 DEF FlushHeader, Take, Goto, Dropped
  <2>4. taken + 1 \in 1..Len(accepted) /\ accepted[taken + 1] \in Messages /\ 1 <= Len(m_buffer)
    BY <1>2, <1>9, <2>1
  <2>5. m_buffer' \in Seq(Units) /\ Len(m_buffer') <= Len(m_buffer) /\ m_buffer' # m_buffer
    <3>1. Dropped(m_buffer, 1) \in Seq(Units) /\ Len(Dropped(m_buffer, 1)) = Len(m_buffer) - 1
      BY <1>2, <2>4, DroppedIs
    <3>2. Len(m_buffer) \in Nat
      BY <1>2
    <3> QED
      BY <2>3, <3>1, <3>2
  <2>6. Typed'
    BY <1>1, <1>2, <2>3, <2>4, <2>5 DEF IInv, Typed
  <2>7. pc'[f] = "text" /\ mh'[f] = accepted[taken + 1] /\ InHand(f)' /\ pc[f] \in FlushPlaces
    BY <1>1, <1>2, <2>3 DEF InHand, FlushPlaces
  <2>8. TextFits' /\ StreamFramed'
    <3>1. ReadBy(f)' = 0
      BY <2>7 DEF ReadBy
    <3>2. Framed(IF m_buffer' = m_buffer THEN Stream ELSE m_buffer', accepted, taken',
                 IF TailLost' THEN LOGMSG_SIZE ELSE ReadBy(f)')
      BY <1>4, <1>9, <2>1, <2>3, <2>5, <3>1
    <3> QED
      BY <1>1, <1>3, <2>3, <2>5, <2>7, <3>2, FlusherData
  <2>9. Hand' /\ TailIsNext' /\ PrintedAsWritten'
    <3>1. taken' \in 1..Len(accepted) /\ mh'[f] = accepted[taken'] /\ Len(output) = taken' - 1
      BY <1>2, <1>3, <2>3, <2>4, <2>7
    <3> QED
      BY <1>1, <1>9, <2>3, <2>7, <3>1, FlusherHand
  <2> QED
    BY <2>6, <2>7, <2>8, <2>9 DEF Data
<1>10. CASE m_buffer # <<>> /\ TailLost
  <2>1. Head(m_buffer) = <<accepted[taken], LOGMSG_SIZE + 1>>
    BY <1>2, <1>6, <1>10
  <2>2. Head(m_buffer)[2] # 0
    BY <2>1, LoggerAssumption
  <2>3. /\ m_buffer' = Dropped(m_buffer, 1) /\ taken' = taken /\ mh' = mh
        /\ pc' = [pc EXCEPT ![f] = "undefined"]
    BY <1>10, <2>2 DEF FlushHeader, Take, Goto, Dropped
  <2>4. m_buffer' \in Seq(Units)
    <3>1. 1 <= Len(m_buffer)
      BY <1>2, <1>10
    <3> QED
      BY <1>2, <2>3, <3>1, DroppedIs
  <2>5. Typed'
    BY <1>1, <2>3, <2>4 DEF IInv, Typed
  <2>6. /\ pc'[f] = "undefined" /\ \A w \in Writers : pc'[w] = pc[w]
        /\ \A g \in Flushers : g # f => ~InHand(g)'
        /\ Undefined'
        /\ \A g \in Flushers : g # f => pc'[g] \in {"none", "exited", "up", "join"}
    <3>1. pc[f] \in FlushPlaces
      BY <1>1 DEF FlushPlaces
    <3> QED
      BY <2>3, <3>1, FlusherLeaves
  <2>7. TextFits'
    BY <1>3, <2>6 DEF TextFits
  <2>8. StreamFramed'
    BY <2>6 DEF StreamFramed
  <2>9. Hand'
    <3>1. \A g \in Flushers : ~InHand(g)'
      BY <2>6 DEF InHand
    <3>2. \A g \in Flushers : pc'[g] \notin {"file", "relock", "rest", "print"}
      BY <2>6
    <3> QED
      BY <1>1, <1>3, <2>3, <3>1, <3>2 DEF Hand
  <2>10. TailIsNext'
    BY <1>1, <1>4, <1>6, <1>10, <2>3 DEF TailIsNext
  <2>11. PrintedAsWritten'
    BY <1>1 DEF IInv, PrintedAsWritten
  <2> QED
    BY <2>5, <2>6, <2>7, <2>8, <2>9, <2>10, <2>11 DEF Data
<1> QED
  BY <1>8, <1>9, <1>10
-----------------------------------------------------------------------------
(* The pieces of a text. *)

(* The first n units of a text, read off the front of the buffer. *)
LEMMA PieceRead ==
  ASSUME NEW s \in Seq(Units), NEW m \in Messages, NEW k \in Nat, NEW n \in Nat,
         n <= Len(s), k + n <= Size(m), \A q \in 1..n : s[q] = <<m, k + q>>
  PROVE  /\ SubSeq(s, 1, n) \in Seq(Units)
         /\ SubSeq(s, 1, n) = SubSeq(Text(m), k + 1, k + n)
<1>1. /\ Text(m) \in Seq(Units) /\ Len(Text(m)) = Size(m) /\ Size(m) \in Nat /\ Len(s) \in Nat
      /\ \A q \in 1..Size(m) : Text(m)[q] = <<m, q>>
  BY TextIs, SizeIsNat
<1> DEFINE a == SubSeq(s, 1, n)
           b == SubSeq(Text(m), k + 1, k + n)
<1>2. a \in Seq(Units) /\ Len(a) = n /\ \A q \in 1..n : a[q] = s[q]
  <2>1. \A i \in 1..n : s[i] \in Units
    BY <1>1
  <2>2. /\ a \in Seq(Units) /\ Len(a) = IF 1 <= n THEN n - 1 + 1 ELSE 0
        /\ \A i \in 1..(n - 1 + 1) : a[i] = s[1 + i - 1]
    BY <1>1, <2>1, SubSeqProperties
  <2> HIDE DEF a
  <2>3. n - 1 + 1 = n /\ \A i \in 1..n : 1 + i - 1 = i
    OBVIOUS
  <2>4. (IF 1 <= n THEN n ELSE 0) = n
    OBVIOUS
  <2> QED
    BY <2>2, <2>3, <2>4
<1>3. b \in Seq(Units) /\ Len(b) = n /\ \A q \in 1..n : b[q] = <<m, k + q>>
  <2> DEFINE t == Text(m)
  <2>1. t \in Seq(Units) /\ Len(t) = Size(m)
    BY <1>1
  <2>2. \A i \in (k + 1)..(k + n) : i \in 1..Size(m)
    BY <1>1
  <2>3. \A i \in (k + 1)..(k + n) : t[i] = <<m, i>>
    BY <1>1, <2>2
  <2> HIDE DEF t
  <2>4. \A i \in (k + 1)..(k + n) : t[i] \in Units
    BY <2>1, <2>2
  <2>5. /\ SubSeq(t, k + 1, k + n) \in Seq(Units)
        /\ Len(SubSeq(t, k + 1, k + n)) = IF k + 1 <= k + n THEN (k + n) - (k + 1) + 1 ELSE 0
        /\ \A i \in 1..((k + n) - (k + 1) + 1) : SubSeq(t, k + 1, k + n)[i] = t[(k + 1) + i - 1]
    BY <1>1, <2>1, <2>4, SubSeqProperties
  <2>6. /\ (k + n) - (k + 1) + 1 = n /\ (k + 1 <= k + n <=> 1 <= n)
        /\ \A i \in 1..n : (k + 1) + i - 1 = k + i /\ k + i \in (k + 1)..(k + n)
        /\ (IF 1 <= n THEN n ELSE 0) = n
    OBVIOUS
  <2> DEFINE c == SubSeq(t, k + 1, k + n)
  <2>7. c = b
    BY DEF t
  <2>8. c \in Seq(Units) /\ Len(c) = n /\ \A i \in 1..n : c[i] = t[k + i]
    <3>1. (IF k + 1 <= k + n THEN (k + n) - (k + 1) + 1 ELSE 0) = n
      OBVIOUS
    <3> QED
      BY <2>5, <2>6, <3>1
  <2> HIDE DEF b, c
  <2> QED
    BY <2>3, <2>6, <2>7, <2>8
<1>4. a = b
  <2> HIDE DEF a, b
  <2>1. Len(a) = Len(b) /\ \A q \in 1..Len(a) : a[q] = b[q]
    BY <1>2, <1>3
  <2> QED
    BY <1>2, <1>3, <2>1, SeqEqual
<1> QED
  BY <1>2, <1>4

LEMMA WholeText ==
  ASSUME NEW m \in Messages
  PROVE  SubSeq(Text(m), 1, Size(m)) = Text(m)
<1>1. Text(m) \in Seq(Units) /\ Len(Text(m)) = Size(m) /\ Size(m) \in Nat
  BY TextIs, SizeIsNat
<1> QED
  BY <1>1, SubSeqFull

(* The two pieces of a large text make the text. *)
LEMMA PiecesMakeText ==
  ASSUME NEW m \in Messages, IsLarge(m)
  PROVE  PieceOf(m) \o SubSeq(Text(m), LOGMSG_SIZE + 1, Size(m)) = Text(m)
<1>1. /\ Text(m) \in Seq(Units) /\ Len(Text(m)) = Size(m) /\ Size(m) \in Nat
      /\ LOGMSG_SIZE \in Nat /\ LOGMSG_SIZE < Size(m)
  BY TextIs, SizeIsNat, LoggerAssumption DEF IsLarge
<1>2. SubSeq(Text(m), 1, LOGMSG_SIZE) \o SubSeq(Text(m), LOGMSG_SIZE + 1, Size(m)) = SubSeq(Text(m), 1, Size(m))
  <2> DEFINE t == Text(m)
  <2>1. t \in Seq(Units) /\ Len(t) = Size(m)
    BY <1>1
  <2> HIDE DEF t
  <2>2. 1 \in 1..(Len(t) + 1) /\ LOGMSG_SIZE \in (1 - 1)..Len(t) /\ Size(m) \in LOGMSG_SIZE..Len(t)
    BY <1>1, <2>1
  <2>3. SubSeq(t, 1, LOGMSG_SIZE) \o SubSeq(t, LOGMSG_SIZE + 1, Size(m)) = SubSeq(t, 1, Size(m))
    BY <2>1, <2>2, ConcatAdjacentSubSeq, Zenon
  <2> QED
    BY <2>3 DEF t
<1> QED
  BY <1>2, WholeText DEF PieceOf
(* A flusher that reads on in the text it has in hand finds it. *)
LEMMA FlusherReads ==
  ASSUME IInv, ~Over, NEW f \in Flushers, pc[f] \in {"text", "rest"},
         NEW n \in Nat, NEW k \in Nat, k = ReadBy(f), k + n <= Size(mh[f])
  PROVE  /\ n <= Len(m_buffer) /\ Len(Dropped(m_buffer, n)) <= Len(m_buffer)
         /\ Dropped(m_buffer, n) \in Seq(Units)
         /\ Framed(Dropped(m_buffer, n), accepted, taken, k + n)
         /\ SubSeq(m_buffer, 1, n) \in Seq(Units)
         /\ SubSeq(m_buffer, 1, n) = SubSeq(Text(mh[f]), k + 1, k + n)
<1>1. /\ Framed(m_buffer, accepted, taken, k)
      /\ taken \in 1..Len(accepted) /\ mh[f] = accepted[taken] /\ mh[f] \in Messages
  <2>1. pc[f] \in FlushPlaces /\ InHand(f) /\ pc[f] \in {"header", "text", "rest"}
    BY DEF FlushPlaces, InHand
  <2> QED
    BY <2>1, FlusherKnows
<1>2. m_buffer \in Seq(Units) /\ accepted \in Seq(Messages)
  BY DEF IInv, Typed
<1>3. /\ n <= Len(m_buffer) /\ \A q \in 1..n : m_buffer[q] = <<mh[f], k + q>>
      /\ Framed(Dropped(m_buffer, n), accepted, taken, k + n)
  BY <1>1, <1>2, FramedAdvance
<1>4. Dropped(m_buffer, n) \in Seq(Units) /\ Len(Dropped(m_buffer, n)) <= Len(m_buffer)
  <2>1. Dropped(m_buffer, n) \in Seq(Units) /\ Len(Dropped(m_buffer, n)) = Len(m_buffer) - n
    BY <1>2, <1>3, DroppedIs
  <2>2. Len(m_buffer) \in Nat
    BY <1>2
  <2> QED
    BY <2>1, <2>2
<1>5. SubSeq(m_buffer, 1, n) \in Seq(Units) /\ SubSeq(m_buffer, 1, n) = SubSeq(Text(mh[f]), k + 1, k + n)
  BY <1>1, <1>2, <1>3, PieceRead
<1> QED
  BY <1>3, <1>4, <1>5

(* Then the message in hand is the same, and more of its text was read. *)
LEMMA ReadData ==
  ASSUME IInv, ~Over, NEW f \in Flushers, pc[f] \in {"text", "rest"},
         NEW n \in Nat, NEW k \in Nat, k = ReadBy(f), k + n <= Size(mh[f]),
         NEW there \in {"file", "print"}, pc' = [pc EXCEPT ![f] = there],
         m_buffer' = SubSeq(m_buffer, n + 1, Len(m_buffer)),
         NEW text, text \in Seq(Units), logbuf' = [logbuf EXCEPT ![f] = text],
         there = "file" => text = PieceOf(mh[f]), there = "print" => text = Text(mh[f]),
         ReadBy(f)' = k + n,
         accepted' = accepted, taken' = taken, mh' = mh, msg' = msg, output' = output, written' = written
  PROVE  Data' /\ Typed'
<1>1. pc[f] \in FlushPlaces /\ InHand(f) /\ pc[f] \in {"header", "text", "rest"}
  BY DEF FlushPlaces, InHand
<1>2. /\ taken \in 1..Len(accepted) /\ mh[f] = accepted[taken] /\ Len(output) = taken - 1 /\ ~TailLost
      /\ Stream = m_buffer /\ \A w \in Writers : pc[w] # "text"
  BY <1>1, FlusherKnows
<1>3. /\ Len(m_buffer') <= Len(m_buffer) /\ m_buffer' \in Seq(Units)
      /\ Framed(m_buffer', accepted, taken, k + n)
  BY FlusherReads DEF Dropped
<1>4. pc'[f] = there /\ InHand(f)' /\ logbuf'[f] = text /\ logbuf' \in [Flushers -> Seq(Units)]
  <2>1. pc'[f] = there
    BY <1>1, FlusherLeaves
  <2>2. logbuf'[f] = text /\ logbuf' \in [Flushers -> Seq(Units)]
    BY DEF IInv, Typed
  <2> QED
    BY <2>1, <2>2 DEF InHand
<1>5. TextFits' /\ StreamFramed'
  <2>1. TailLost' = TailLost
    BY DEF TailLost
  <2>2. Framed(IF m_buffer' = m_buffer THEN Stream ELSE m_buffer', accepted, taken',
               IF TailLost' THEN LOGMSG_SIZE ELSE ReadBy(f)')
    BY <1>2, <1>3, <2>1
  <2> QED
    BY <1>1, <1>2, <1>3, <2>2, FlusherData
<1>6. Hand' /\ TailIsNext' /\ PrintedAsWritten'
  BY <1>1, <1>2, <1>4, FlusherHand
<1>7. Typed'
  BY <1>3, <1>4 DEF IInv, Typed
<1> QED
  BY <1>5, <1>6, <1>7 DEF Data

LEMMA FlushTextData ==
  ASSUME IInv, ~Over, NEW f \in Flushers, FlushText(f)
  PROVE  Data' /\ Typed' /\ pc'[f] # "sync"
<1> DEFINE m == mh[f]
           n == IF IsLarge(m) THEN LOGMSG_SIZE ELSE Size(m)
<1>1. /\ pc[f] = "text" /\ accepted' = accepted /\ taken' = taken /\ mh' = mh /\ msg' = msg
      /\ output' = output /\ written' = written
  BY DEF FlushText, fileVars
<1>2. pc[f] \in FlushPlaces /\ InHand(f)
  BY <1>1 DEF FlushPlaces, InHand
<1>3. m \in Messages /\ Size(m) \in Nat /\ LOGMSG_SIZE \in Nat /\ m = accepted[taken]
  <2>1. m \in Messages /\ m = accepted[taken]
    BY <1>2, FlusherKnows
  <2> QED
    BY <2>1, SizeIsNat, LoggerAssumption
<1>4. n \in Nat /\ 0 \in Nat /\ 0 + n <= Size(m)
  BY <1>3 DEF IsLarge
<1>5. ReadBy(f) = 0
  BY <1>1 DEF ReadBy
<1>6. /\ n <= Len(m_buffer) /\ SubSeq(m_buffer, 1, n) \in Seq(Units)
      /\ SubSeq(m_buffer, 1, n) = SubSeq(Text(m), 0 + 1, 0 + n)
  <2> HIDE DEF n
  <2> QED
    BY <1>1, <1>4, <1>5, FlusherReads, Zenon
<1>7. /\ pc' = [pc EXCEPT ![f] = "file"] /\ m_buffer' = SubSeq(m_buffer, n + 1, Len(m_buffer))
      /\ logbuf' = [logbuf EXCEPT ![f] = SubSeq(m_buffer, 1, n)]
  <2>1. ~(Len(m_buffer) < n)
    <3>1. Len(m_buffer) \in Nat
      BY DEF IInv, Typed
    <3> HIDE DEF n
    <3> QED
      BY <1>4, <1>6, <3>1
  <2> QED
    BY <2>1, Zenon DEF FlushText, Take, First, Goto
<1>8. SubSeq(m_buffer, 1, n) = PieceOf(m)
  <2>1. CASE IsLarge(m)
    BY <1>3, <1>6, <2>1 DEF PieceOf
  <2>2. CASE ~IsLarge(m)
    <3>1. SubSeq(Text(m), 1, Size(m)) = Text(m)
      BY <1>3, WholeText
    <3>2. SubSeq(m_buffer, 1, n) = SubSeq(Text(m), 1, Size(m))
      BY <1>3, <1>6, <2>2
    <3> QED
      BY <2>2, <3>1, <3>2 DEF PieceOf
  <2> QED
    BY <2>1, <2>2
<1>9. pc'[f] = "file"
  BY <1>2, <1>7, FlusherLeaves
<1>10. ReadBy(f)' = 0 + n
  BY <1>1, <1>3, <1>4, <1>9 DEF ReadBy
<1> HIDE DEF n
<1>11. Data' /\ Typed'
  <2>1. pc[f] \in {"text", "rest"} /\ "file" \in {"file", "print"} /\ "file" # "print"
    BY <1>1
  <2>2. 0 + n <= Size(mh[f]) /\ SubSeq(m_buffer, 1, n) = PieceOf(mh[f])
    BY <1>4, <1>8
  <2> QED
    BY <1>1, <1>4, <1>5, <1>6, <1>7, <1>10, <2>1, <2>2, ReadData, Zenon
<1> QED
  BY <1>9, <1>11

LEMMA FlushRestData ==
  ASSUME IInv, ~Over, NEW f \in Flushers, FlushRest(f)
  PROVE  Data' /\ Typed' /\ pc'[f] # "sync"
<1> DEFINE m == mh[f]
           n == Size(m) - LOGMSG_SIZE
<1>1. /\ pc[f] = "rest" /\ accepted' = accepted /\ taken' = taken /\ mh' = mh /\ msg' = msg
      /\ output' = output /\ written' = written
  BY DEF FlushRest, fileVars
<1>2. pc[f] \in FlushPlaces /\ InHand(f)
  BY <1>1 DEF FlushPlaces, InHand
<1>3. m \in Messages /\ Size(m) \in Nat /\ LOGMSG_SIZE \in Nat /\ m = accepted[taken]
  <2>1. m \in Messages /\ m = accepted[taken]
    BY <1>2, FlusherKnows
  <2> QED
    BY <2>1, SizeIsNat, LoggerAssumption
<1>4. IsLarge(m) /\ logbuf[f] = PieceOf(m)
  BY <1>1 DEF IInv, Hand
<1>5. n \in Nat /\ LOGMSG_SIZE + n = Size(m)
  <2>1. LOGMSG_SIZE < Size(m)
    BY <1>4 DEF IsLarge
  <2> HIDE DEF m
  <2> QED
    BY <1>3, <2>1
<1>6. ReadBy(f) = LOGMSG_SIZE
  BY <1>1, <1>4 DEF ReadBy
<1>7. /\ n <= Len(m_buffer) /\ SubSeq(m_buffer, 1, n) \in Seq(Units)
      /\ SubSeq(m_buffer, 1, n) = SubSeq(Text(m), LOGMSG_SIZE + 1, Size(m))
  <2>1. LOGMSG_SIZE + n <= Size(mh[f])
    BY <1>3, <1>5
  <2> HIDE DEF n
  <2> QED
    BY <1>1, <1>3, <1>5, <1>6, <2>1, FlusherReads
<1>8. /\ pc' = [pc EXCEPT ![f] = "print"] /\ m_buffer' = SubSeq(m_buffer, n + 1, Len(m_buffer))
      /\ logbuf' = [logbuf EXCEPT ![f] = logbuf[f] \o SubSeq(m_buffer, 1, n)]
  <2>1. ~(Len(m_buffer) < n)
    <3>1. Len(m_buffer) \in Nat
      BY DEF IInv, Typed
    <3> HIDE DEF n
    <3> QED
      BY <1>5, <1>7, <3>1
  <2> QED
    BY <2>1, Zenon DEF FlushRest, Take, First, Goto
<1>9. logbuf' = [logbuf EXCEPT ![f] = Text(m)]
  <2>1. logbuf[f] \o SubSeq(m_buffer, 1, n) = Text(m)
    BY <1>3, <1>4, <1>7, PiecesMakeText
  <2> QED
    BY <1>8, <2>1
<1>10. pc'[f] = "print"
  BY <1>2, <1>8, FlusherLeaves
<1>11. ReadBy(f)' = LOGMSG_SIZE + n
  BY <1>1, <1>3, <1>5, <1>10 DEF ReadBy
<1>12. Text(m) \in Seq(Units) /\ LOGMSG_SIZE + n <= Size(mh[f])
  BY <1>3, <1>5, TextIs
<1> HIDE DEF n
<1>13. Data' /\ Typed'
  BY <1>1, <1>3, <1>5, <1>6, <1>8, <1>9, <1>11, <1>12, ReadData DEF m
<1> QED
  BY <1>10, <1>13
(* A flusher goes on with the message that it has in hand. *)
LEMMA FlushFileRelockData ==
  ASSUME IInv, ~Over, NEW f \in Flushers, FlushFile(f) \/ FlushRelock(f)
  PROVE  Data' /\ Typed' /\ pc'[f] # "sync"
<1> DEFINE there == IF pc[f] = "relock" THEN "rest" ELSE IF IsLarge(mh[f]) THEN "relock" ELSE "print"
<1>1. /\ pc[f] \in {"file", "relock"} /\ pc' = [pc EXCEPT ![f] = there]
      /\ accepted' = accepted /\ taken' = taken /\ mh' = mh /\ msg' = msg /\ logbuf' = logbuf
      /\ output' = output /\ written' = written /\ m_buffer' = m_buffer
  BY DEF FlushFile, FlushRelock, Go, Goto, bufferVars, localVars, fileVars
<1>2. there \in {"rest", "relock", "print"} /\ there # "undefined" /\ there # "sync"
  OBVIOUS
<1>3. pc[f] \in FlushPlaces /\ InHand(f) /\ (pc[f] = "relock" => IsLarge(mh[f])) /\ logbuf[f] = PieceOf(mh[f])
  BY <1>1 DEF FlushPlaces, InHand, IInv, Hand
<1>4. /\ taken \in 1..Len(accepted) /\ mh[f] = accepted[taken] /\ Len(output) = taken - 1 /\ ~TailLost
      /\ Framed(Stream, accepted, taken, IF TailLost THEN LOGMSG_SIZE ELSE ReadBy(f))
  BY <1>3, FlusherKnows
<1>5. pc'[f] = there
  BY <1>1, <1>3, FlusherLeaves
<1>6. InHand(f)'
  BY <1>2, <1>5 DEF InHand
<1>7. ReadBy(f)' = ReadBy(f)
  BY <1>1, <1>3, <1>4, <1>5 DEF ReadBy
<1>8. there \in {"relock", "rest"} => IsLarge(mh[f])
  BY <1>3
<1>9. there = "print" => logbuf[f] = Text(mh[f])
  BY <1>3 DEF PieceOf
<1>10. m_buffer \in Seq(Units) /\ Len(m_buffer) \in Nat
  BY DEF IInv, Typed
<1> HIDE DEF there
<1>11. TextFits' /\ StreamFramed'
  <2>1. TailLost' = TailLost
    BY <1>1 DEF TailLost
  <2>2. Framed(IF m_buffer' = m_buffer THEN Stream ELSE m_buffer', accepted, taken',
               IF TailLost' THEN LOGMSG_SIZE ELSE ReadBy(f)')
    BY <1>1, <1>4, <1>7, <2>1
  <2>3. m_buffer' \in Seq(Units) /\ Len(m_buffer') <= Len(m_buffer)
    BY <1>1, <1>10
  <2> QED
    BY <1>1, <1>2, <1>3, <2>2, <2>3, FlusherData
<1>12. Hand' /\ TailIsNext' /\ PrintedAsWritten'
  BY <1>1, <1>2, <1>3, <1>4, <1>6, <1>8, <1>9, FlusherHand
<1>13. Typed'
  BY <1>1 DEF IInv, Typed
<1> QED
  BY <1>2, <1>5, <1>11, <1>12, <1>13 DEF Data

(* A flusher is done with the message: it is printed, or it is lost, and   *)
(* if it is a large one its tail with it.                                  *)
LEMMA FlusherEnds ==
  ASSUME IInv, ~Over, NEW f \in Flushers, pc[f] \in FlushPlaces, InHand(f),
         NEW there \in {"flush", "loop", "terminated"}, pc' = [pc EXCEPT ![f] = there],
         NEW o \in Outputs, output' = Append(output, o), Forget(f),
         o # Lost => o = Printed(accepted[taken], Text(accepted[taken])),
         ReadBy(f) = IF o = Lost /\ IsLarge(accepted[taken]) THEN LOGMSG_SIZE ELSE Size(accepted[taken]),
         m_buffer' = m_buffer, accepted' = accepted, taken' = taken
  PROVE  Data' /\ Typed'
<1>1. /\ taken \in 1..Len(accepted) /\ mh[f] = accepted[taken] /\ Len(output) = taken - 1 /\ ~TailLost
      /\ Framed(Stream, accepted, taken, ReadBy(f))
  BY FlusherKnows
<1>2. /\ output \in Seq(Outputs) /\ m_buffer \in Seq(Units) /\ Len(accepted) \in Nat /\ Len(m_buffer) \in Nat
      /\ mh \in [Flushers -> Messages \cup {NoMessage}] /\ logbuf \in [Flushers -> Seq(Units)]
      /\ PrintedAsWritten
  BY DEF IInv, Typed
<1>3. /\ pc'[f] = there /\ \A g \in Flushers : g # f => pc'[g] \in {"none", "exited", "up", "join"}
      /\ \A g \in Flushers : g # f => ~InHand(g)'
  BY FlusherLeaves, Zenon
<1>4. /\ output' \in Seq(Outputs) /\ Len(output') = taken /\ output'[taken] = o
      /\ \A i \in 1..(taken - 1) : output'[i] = output[i]
  <2>1. /\ output' \in Seq(Outputs) /\ Len(output') = Len(output) + 1 /\ output'[Len(output) + 1] = o
        /\ \A i \in 1..Len(output) : output'[i] = output[i]
    BY <1>2, AppendIs
  <2>2. (taken - 1) + 1 = taken
    BY <1>1
  <2> QED
    BY <1>1, <2>1, <2>2
<1>5. \A i \in 1..taken : i = taken \/ i \in 1..(taken - 1)
  BY <1>1
<1>6. TailLost' <=> o = Lost /\ IsLarge(accepted[taken])
  <2>1. \A i \in 1..(taken - 1) : ~(output[i] = Lost /\ IsLarge(accepted[i]))
    BY <1>1 DEF TailLost
  <2>2. TailLost' <=> \E i \in 1..taken : output'[i] = Lost /\ IsLarge(accepted[i])
    BY <1>4 DEF TailLost
  <2>3. taken \in 1..taken
    BY <1>1
  <2> QED
    BY <1>4, <1>5, <2>1, <2>2, <2>3
<1>7. ~InHand(f)' /\ there # "undefined"
  BY <1>3 DEF InHand
<1>8. Undefined' = FALSE
  BY <1>3, <1>7, Zenon DEF Undefined
<1>9. TextFits' /\ StreamFramed'
  <2>1. ReadBy(f)' = Size(accepted[taken])
    BY <1>3 DEF ReadBy
  <2>2. (IF TailLost' THEN LOGMSG_SIZE ELSE ReadBy(f)') = ReadBy(f)
    BY <1>6, <2>1
  <2>3. Framed(IF m_buffer' = m_buffer THEN Stream ELSE m_buffer', accepted, taken',
               IF TailLost' THEN LOGMSG_SIZE ELSE ReadBy(f)')
    BY <1>1, <2>2
  <2>4. msg' = msg /\ m_buffer' \in Seq(Units) /\ Len(m_buffer') <= Len(m_buffer)
    BY <1>2 DEF Forget
  <2> QED
    BY <1>7, <2>3, <2>4, FlusherData
<1>10. Hand'
  <2>1. \A g \in Flushers : ~InHand(g)'
    BY <1>3, <1>7
  <2>2. \A g \in Flushers : pc'[g] \notin {"file", "relock", "rest", "print"}
    BY <2>1 DEF InHand
  <2> QED
    BY <1>4, <2>1, <2>2 DEF Hand
<1>11. TailIsNext'
  <2>1. taken > 0
    BY <1>1
  <2> QED
    BY <1>6, <1>8, <2>1 DEF TailIsNext
<1>12. PrintedAsWritten'
  <2>1. ASSUME NEW i \in 1..taken, output'[i] # Lost
        PROVE  output'[i] = Printed(accepted[i], Text(accepted[i]))
    <3>1. CASE i = taken
      BY <1>4, <2>1, <3>1
    <3>2. CASE i \in 1..(taken - 1)
      <4>1. output'[i] = output[i] /\ i \in 1..Len(output)
        BY <1>1, <1>4, <3>2
      <4> QED
        BY <1>2, <2>1, <4>1 DEF PrintedAsWritten
    <3> QED
      BY <1>5, <3>1, <3>2
  <2> QED
    BY <1>4, <2>1 DEF PrintedAsWritten
<1>13. Typed'
  <2>1. mh' \in [Flushers -> Messages \cup {NoMessage}] /\ logbuf' \in [Flushers -> Seq(Units)]
    BY <1>2 DEF Forget
  <2>2. msg' = msg /\ written' = written
    BY DEF Forget
  <2> QED
    BY <1>4, <2>1, <2>2 DEF IInv, Typed
<1> QED
  BY <1>9, <1>10, <1>11, <1>12, <1>13 DEF Data

LEMMA FlushPrintThrowsData ==
  ASSUME IInv, ~Over, NEW f \in Flushers, FlushPrint(f) \/ FlushThrows(f)
  PROVE  Data' /\ Typed' /\ pc'[f] # "sync"
<1>1. /\ pc[f] \in {"print", "file"} /\ m_buffer' = m_buffer /\ accepted' = accepted /\ taken' = taken
      /\ Forget(f)
  BY DEF FlushPrint, FlushThrows, Go, bufferVars
<1>2. pc[f] \in FlushPlaces /\ InHand(f)
  BY <1>1 DEF FlushPlaces, InHand
<1>3. taken \in 1..Len(accepted) /\ mh[f] = accepted[taken] /\ mh[f] \in Messages
  BY <1>2, FlusherKnows
<1>4. CASE FlushPrint(f)
  <2>1. /\ pc[f] = "print" /\ pc' = [pc EXCEPT ![f] = "flush"]
        /\ output' = Append(output, Printed(mh[f], logbuf[f]))
    BY <1>4 DEF FlushPrint, Go, Goto
  <2>2. logbuf[f] = Text(mh[f]) /\ logbuf[f] \in Seq(Units)
    BY <2>1 DEF IInv, Hand, Typed
  <2>3. Printed(mh[f], logbuf[f]) \in Outputs
    BY <1>3, <2>2 DEF Printed, Outputs
  <2>4. Printed(mh[f], logbuf[f]) # Lost
    <3>1. NoMessage # mh[f]
      BY <1>3 DEF NoMessage, Messages
    <3> QED
      BY <3>1 DEF Printed, Lost
  <2>5. ReadBy(f) = Size(accepted[taken])
    BY <2>1 DEF ReadBy
  <2>6. Data' /\ Typed'
    <3> DEFINE o == Printed(mh[f], logbuf[f])
    <3>1. /\ o \in Outputs /\ output' = Append(output, o) /\ o # Lost
          /\ o = Printed(accepted[taken], Text(accepted[taken]))
          /\ "flush" \in {"flush", "loop", "terminated"}
      BY <1>3, <2>1, <2>2, <2>3, <2>4
    <3> HIDE DEF o
    <3> QED
      BY <1>1, <1>2, <2>1, <2>5, <3>1, FlusherEnds
  <2> QED
    BY <1>2, <2>1, <2>6, FlusherLeaves
<1>5. CASE FlushThrows(f)
  <2> DEFINE there == IF f = LogThread THEN "loop" ELSE "terminated"
  <2>1. /\ pc[f] = "file" /\ pc' = [pc EXCEPT ![f] = there]
        /\ output' = Append(output, Lost)
    BY <1>5 DEF FlushThrows, Go, Goto
  <2>2. Lost \in Outputs
    BY DEF Lost, Printed, Outputs
  <2>3. ReadBy(f) = IF IsLarge(accepted[taken]) THEN LOGMSG_SIZE ELSE Size(accepted[taken])
    BY <1>3, <2>1 DEF ReadBy
  <2>4. there \in {"flush", "loop", "terminated"} /\ there # "sync"
    OBVIOUS
  <2> HIDE DEF there
  <2>5. Data' /\ Typed'
    BY <1>1, <1>2, <2>1, <2>2, <2>3, <2>4, FlusherEnds
  <2> QED
    BY <1>2, <2>1, <2>4, <2>5, FlusherLeaves
<1> QED
  BY <1>4, <1>5
-----------------------------------------------------------------------------
(* Every step, and what it does to the messages. *)

(* Waiting for the mutex, and the life of the logging thread and of the    *)
(* destructor around flush, move no message.                               *)
LEMMA SilentData ==
  ASSUME IInv, ~Over, OtherStep \/ \E f \in Flushers : FlushLock(f)
  PROVE  Data' /\ Typed'
<1>1. pc \in [Writers \cup Flushers -> WriterPlaces \cup FlusherPlaces] /\ Data /\ Typed
  BY DEF IInv, Placed, Data
<1>2. /\ m_buffer' = m_buffer /\ accepted' = accepted /\ taken' = taken
      /\ mh' = mh /\ logbuf' = logbuf /\ output' = output /\ msg' = msg /\ written' = written
  <2>1. CASE OtherStep
    BY <2>1 DEF OtherStep, ThreadRun, ThreadLoop, ThreadWait, ThreadTimeout, ThreadWoken, ThreadSync, StartLoggingThread,
                DestructorStop, DestructorJoin, DestructorClear, bufferVars, localVars, fileVars
  <2>2. CASE \E f \in Flushers : FlushLock(f)
    BY <2>2 DEF FlushLock, bufferVars, localVars, fileVars
  <2> QED
    BY <2>1, <2>2
<1>3. /\ \A w \in Writers : pc'[w] = pc[w]
      /\ \A f \in Flushers :
           \/ pc'[f] = pc[f]
           \/ ~InHand(f) /\ ~InHand(f)' /\ pc[f] # "undefined" /\ pc'[f] # "undefined"
  <2> USE <1>1, Threads DEF Go, Goto, InHand
  <2>1. CASE ThreadRun
    BY <2>1 DEF ThreadRun
  <2>2. CASE ThreadLoop
    <3>1. /\ pc[LogThread] = "loop"
          /\ pc' = [pc EXCEPT ![LogThread] = "exited"] \/ pc' = [pc EXCEPT ![LogThread] = "wait"]
      BY <2>2 DEF ThreadLoop
    <3> QED
      BY <3>1
  <2>3. CASE ThreadWait
    BY <2>3 DEF ThreadWait
  <2>4. CASE ThreadTimeout
    BY <2>4 DEF ThreadTimeout
  <2>5. CASE ThreadWoken
    BY <2>5 DEF ThreadWoken
  <2>6. CASE ThreadSync
    BY <2>6 DEF ThreadSync
  <2>7. CASE StartLoggingThread
    BY <2>7 DEF StartLoggingThread
  <2>8. CASE DestructorStop \/ DestructorJoin \/ DestructorClear
    BY <2>8 DEF DestructorStop, DestructorJoin, DestructorClear
  <2>9. CASE \E f \in Flushers : FlushLock(f)
    BY <2>9 DEF FlushLock
  <2> QED
    BY <2>1, <2>2, <2>3, <2>4, <2>5, <2>6, <2>7, <2>8, <2>9 DEF OtherStep
<1>4. Data'
  <2>1. \A w \in Writers : pc'[w] = pc[w] /\ msg'[w] = msg[w]
    BY <1>2, <1>3
  <2> QED
    BY <1>1, <1>2, <1>3, <2>1, Quiet, Zenon
<1>5. Typed'
  BY <1>1, <1>2 DEF Typed
<1> QED
  BY <1>4, <1>5

WriterMoves(w, there) ==
  /\ pc'[w] = there /\ \A v \in Writers : v # w => pc'[v] = pc[v]
  /\ \A f \in Flushers : pc'[f] = pc[f] \/ (pc[f] = "waiting" /\ pc'[f] = "woken")

LEMMA WriterGoes ==
  ASSUME Placed, NEW w \in Writers, NEW there, pc' = [pc EXCEPT ![w] = there]
  PROVE  WriterMoves(w, there)
<1>1. pc \in [Writers \cup Flushers -> WriterPlaces \cup FlusherPlaces]
  BY DEF Placed
<1>2. pc'[w] = there /\ \A t \in Writers \cup Flushers : t # w => pc'[t] = pc[t]
  BY <1>1
<1>3. \A f \in Flushers : f # w
  BY Threads
<1> QED
  BY <1>2, <1>3, Zenon DEF WriterMoves

LEMMA WriterNotifies ==
  ASSUME Placed, NEW w \in Writers, WriteNotify(w)
  PROVE  WriterMoves(w, "idle")
<1>1. pc \in [Writers \cup Flushers -> WriterPlaces \cup FlusherPlaces]
  BY DEF Placed
<1>2. \A f \in Flushers : f \notin Writers
  BY Threads
<1>3. w # LogThread /\ LogThread \in Flushers
  BY Threads
<1>4. /\ pc'[w] = "idle" /\ pc'[LogThread] = IF pc[LogThread] = "waiting" THEN "woken" ELSE pc[LogThread]
      /\ \A t \in Writers \cup Flushers : t \notin {w, LogThread} => pc'[t] = pc[t]
  BY <1>1, <1>3 DEF WriteNotify
<1>5. \A v \in Writers : v # w => pc'[v] = pc[v]
  BY <1>2, <1>3, <1>4
<1>6. \A f \in Flushers : pc'[f] = pc[f] \/ (pc[f] = "waiting" /\ pc'[f] = "woken")
  <2>1. pc'[LogThread] = pc[LogThread] \/ (pc[LogThread] = "waiting" /\ pc'[LogThread] = "woken")
    BY <1>4
  <2> QED
    BY <1>2, <1>4, <2>1, Zenon
<1> QED
  BY <1>4, <1>5, <1>6, Zenon DEF WriterMoves

(* Nor does what a writer does outside of the buffer. *)
LEMMA WriterSilentData ==
  ASSUME IInv, ~Over, NEW w \in Writers,
         m_buffer' = m_buffer, accepted' = accepted, taken' = taken,
         mh' = mh, logbuf' = logbuf, output' = output, written' \in Nat,
         pc[w] # "text",
         NEW there \in WriterPlaces, there # "text",
         WriterMoves(w, there),
         NEW m \in Messages \cup {NoMessage}, msg' = [msg EXCEPT ![w] = m]
  PROVE  Data' /\ Typed'
<1>1. Data /\ Typed /\ msg \in [Writers -> Messages \cup {NoMessage}]
  BY DEF IInv, Data, Typed
<1>2. /\ pc'[w] = there /\ \A v \in Writers : v # w => pc'[v] = pc[v]
      /\ \A f \in Flushers : pc'[f] = pc[f] \/ (pc[f] = "waiting" /\ pc'[f] = "woken")
  BY DEF WriterMoves
<1>3. \A f \in Flushers :
        \/ pc'[f] = pc[f]
        \/ ~InHand(f) /\ ~InHand(f)' /\ pc[f] # "undefined" /\ pc'[f] # "undefined"
  BY <1>2 DEF InHand
<1>4. /\ \A v \in Writers : \/ pc'[v] = pc[v] /\ msg'[v] = msg[v]
                            \/ pc[v] # "text" /\ pc'[v] # "text"
      /\ msg' \in [Writers -> Messages \cup {NoMessage}]
  BY <1>1, <1>2
<1>5. Data'
  BY <1>1, <1>3, <1>4, Quiet, Zenon
<1>6. Typed'
  BY <1>1, <1>4 DEF Typed
<1> QED
  BY <1>5, <1>6

LEMMA WriterData ==
  ASSUME IInv, ~Over, NEW w \in Writers, WriteBegin(w) \/ WriterStep(w)
  PROVE  Data' /\ Typed'
<1>0. Placed
  BY DEF IInv
<1>1. /\ msg \in [Writers -> Messages \cup {NoMessage}] /\ written \in Nat
      /\ m_buffer \in Seq(Units) /\ accepted \in Seq(Messages)
  BY DEF IInv, Typed
<1>2. msg[w] \in Messages \cup {NoMessage} /\ msg = [msg EXCEPT ![w] = msg[w]]
  BY <1>1
<1>3. CASE WriteBegin(w)
  <2>1. PICK m \in Messages : m.seq = written + 1 /\ msg' = [msg EXCEPT ![w] = m]
    BY <1>3 DEF WriteBegin
  <2>2. /\ m_buffer' = m_buffer /\ accepted' = accepted /\ taken' = taken
        /\ mh' = mh /\ logbuf' = logbuf /\ output' = output /\ written' \in Nat
        /\ pc[w] # "text" /\ pc' = [pc EXCEPT ![w] = "lock"] /\ "lock" \in WriterPlaces
    BY <1>1, <1>3 DEF WriteBegin, Go, Goto, bufferVars, fileVars, WriterPlaces
  <2> QED
    BY <1>0, <2>1, <2>2, WriterGoes, WriterSilentData
<1>4. CASE WriteThrows(w)
  <2>1. /\ m_buffer' = m_buffer /\ accepted' = accepted /\ taken' = taken
        /\ mh' = mh /\ logbuf' = logbuf /\ output' = output /\ written' \in Nat
        /\ pc[w] # "text" /\ pc' = [pc EXCEPT ![w] = "idle"] /\ "idle" \in WriterPlaces
        /\ msg' = [msg EXCEPT ![w] = NoMessage]
    BY <1>1, <1>4 DEF WriteThrows, Go, Goto, bufferVars, fileVars, WriterPlaces
  <2> QED
    BY <1>0, <2>1, WriterGoes, WriterSilentData
<1>5. CASE WriteLock(w)
  <2>1. msg[w].kind.via \in {"format", "string"}
    BY <1>5, LoggerAssumption DEF WriteLock, Go, Writing, Messages, IInv, Numbered
  <2>2. /\ m_buffer' = m_buffer /\ accepted' = accepted /\ taken' = taken
        /\ mh' = mh /\ logbuf' = logbuf /\ output' = output /\ written' \in Nat
        /\ pc[w] # "text" /\ pc' = [pc EXCEPT ![w] = msg[w].kind.via] /\ msg' = msg
    BY <1>1, <1>5 DEF WriteLock, Go, Goto, bufferVars, fileVars, localVars
  <2>3. msg[w].kind.via \in WriterPlaces /\ msg[w].kind.via # "text"
    BY <2>1 DEF WriterPlaces
  <2> QED
    BY <1>0, <1>2, <2>2, <2>3, WriterGoes, WriterSilentData
<1>6. CASE WriteUnlock(w)
  <2> DEFINE there == IF IsCrit(msg[w]) THEN "notify" ELSE "idle"
  <2>1. /\ m_buffer' = m_buffer /\ accepted' = accepted /\ taken' = taken
        /\ mh' = mh /\ logbuf' = logbuf /\ output' = output /\ written' \in Nat
        /\ pc[w] # "text" /\ pc' = [pc EXCEPT ![w] = there]
        /\ msg' = [msg EXCEPT ![w] = NoMessage]
    BY <1>1, <1>6 DEF WriteUnlock, Go, Goto, bufferVars, fileVars
  <2>2. there \in WriterPlaces /\ there # "text"
    BY DEF WriterPlaces
  <2> HIDE DEF there
  <2> QED
    BY <1>0, <2>1, <2>2, WriterGoes, WriterSilentData
<1>7. CASE WriteNotify(w)
  <2>1. /\ m_buffer' = m_buffer /\ accepted' = accepted /\ taken' = taken
        /\ mh' = mh /\ logbuf' = logbuf /\ output' = output /\ written' \in Nat
        /\ pc[w] # "text" /\ msg' = msg /\ "idle" \in WriterPlaces
    BY <1>1, <1>7 DEF WriteNotify, bufferVars, fileVars, localVars, WriterPlaces
  <2>2. WriterMoves(w, "idle")
    BY <1>0, <1>7, WriterNotifies
  <2> QED
    BY <1>2, <2>1, <2>2, WriterSilentData
<1>8. CASE WriteText(w)
  <2>1. Data' /\ m_buffer' \in Seq(Units)
    BY <1>8, WriteTextData
  <2>2. Typed'
    BY <1>8, <2>1 DEF IInv, Typed, WriteText, fileVars, localVars
  <2> QED
    BY <2>1, <2>2
<1>9. CASE WriteFormat(w) \/ WriteHeader(w)
  <2>1. /\ pc[w] \in {"format", "string"} /\ taken' = taken /\ mh' = mh /\ msg' = msg
        /\ logbuf' = logbuf /\ output' = output /\ written' = written
    BY <1>9 DEF WriteFormat, WriteHeader, Go, localVars, fileVars
  <2>2. CASE Fits(1 + Size(msg[w]))
    <3>1. /\ accepted' = Append(accepted, msg[w])
          /\ \/ /\ m_buffer' = m_buffer \o Frame(msg[w])
                /\ pc' = [pc EXCEPT ![w] = "unlock"]
             \/ /\ m_buffer' = m_buffer \o Header(msg[w])
                /\ pc' = [pc EXCEPT ![w] = "text"]
      BY <1>9, <2>2 DEF WriteFormat, WriteHeader, Go, Goto, Put, Accepted
    <3>2. Data' /\ m_buffer' \in Seq(Units) /\ accepted' \in Seq(Messages)
      BY <2>1, <2>2, <3>1, AcceptData, Zenon
    <3>3. taken \in 0..Len(accepted) /\ Len(accepted) \in Nat /\ Len(accepted') = Len(accepted) + 1
      <4>1. msg[w] \in Messages
        BY <2>1 DEF IInv, Numbered, Writing
      <4> QED
        BY <1>1, <3>1, <4>1, AppendIs DEF IInv, Typed
    <3>4. taken' \in 0..Len(accepted')
      BY <2>1, <3>3
    <3>5. Typed'
      BY <2>1, <3>2, <3>4 DEF IInv, Typed
    <3> QED
      BY <3>2, <3>5
  <2>3. CASE ~Fits(1 + Size(msg[w]))
    <3>1. /\ m_buffer' = m_buffer /\ accepted' = accepted /\ pc' = [pc EXCEPT ![w] = "unlock"]
          /\ pc[w] # "text" /\ "unlock" \in WriterPlaces /\ written' \in Nat
      BY <1>1, <1>9, <2>1, <2>3 DEF WriteFormat, WriteHeader, Go, Goto, Refused, WriterPlaces
    <3> QED
      BY <1>0, <1>2, <2>1, <3>1, WriterGoes, WriterSilentData
  <2> QED
    BY <2>2, <2>3
<1> QED
  BY <1>3, <1>4, <1>5, <1>6, <1>7, <1>8, <1>9 DEF WriterStep
(* What the destructor found drained stays so. *)
LEMMA DrainedHolds ==
  ASSUME IInv, ~Over,
         \/ \E w \in Writers : WriteBegin(w) \/ WriterStep(w)
         \/ \E f \in Flushers : FlushStep(f)
         \/ OtherStep
  PROVE  Drained'
<1>1. /\ pc \in [Writers \cup Flushers -> WriterPlaces \cup FlusherPlaces]
      /\ pc[Main] = "sync" => Len(output) = drained
      /\ pc[Main] # "destroyed"
      /\ Main \in Flushers /\ LogThread \in Flushers /\ LogThread # Main
  BY Threads DEF IInv, Placed, Drained, Over
<1>2. CASE \E w \in Writers : WriteBegin(w) \/ WriterStep(w)
  <2>1. PICK w \in Writers : WriteBegin(w) \/ WriterStep(w)
    BY <1>2
  <2>2. w # Main /\ w # LogThread
    BY Threads
  <2>3. pc'[Main] = pc[Main] /\ output' = output /\ drained' = drained
    <3>1. CASE WriteNotify(w)
      BY <1>1, <2>2, <3>1 DEF WriteNotify, fileVars
    <3>2. CASE WriteHeader(w)
      BY <1>1, <2>2, <3>2 DEF WriteHeader, Goto, fileVars
    <3>3. CASE WriteBegin(w) \/ WriteThrows(w) \/ WriteLock(w) \/ WriteFormat(w) \/ WriteText(w) \/ WriteUnlock(w)
      BY <1>1, <2>2, <3>3 DEF WriteBegin, WriteThrows, WriteLock, WriteFormat, WriteText, WriteUnlock, Go, Goto, fileVars
    <3> QED
      BY <2>1, <3>1, <3>2, <3>3 DEF WriterStep
  <2> QED
    BY <1>1, <2>3 DEF Drained
<1>3. ASSUME NEW f \in Flushers, FlushStep(f)
      PROVE  Drained'
  <2>1. pc[f] \in FlushPlaces
    BY <1>3 DEF FlushStep, FlushLock, FlushHeader, FlushText, FlushFile, FlushThrows, FlushRelock, FlushRest, FlushPrint,
                Go, FlushPlaces
  <2>2. PICK there : pc' = [pc EXCEPT ![f] = there]
    <3>1. CASE FlushHeader(f)
      BY <3>1 DEF FlushHeader, Goto
    <3>2. CASE FlushText(f) \/ FlushRest(f)
      BY <3>2 DEF FlushText, FlushRest, Goto
    <3>3. CASE FlushLock(f) \/ FlushFile(f) \/ FlushRelock(f) \/ FlushThrows(f) \/ FlushPrint(f)
      BY <3>3 DEF FlushLock, FlushFile, FlushRelock, FlushThrows, FlushPrint, Go, Goto
    <3> QED
      BY <1>3, <3>1, <3>2, <3>3 DEF FlushStep
  <2>3. /\ pc'[f] = there
        /\ \A g \in Flushers : g # f => pc'[g] \in {"none", "exited", "up", "join"}
    BY <2>1, <2>2, FlusherLeaves
  <2>4. CASE f # Main
    BY <1>1, <2>3, <2>4 DEF Drained
  <2>5. CASE f = Main
    <3>1. CASE FlushHeader(f)
      <4>1. pc'[f] = "sync" => Len(output) = Len(accepted)
        BY <3>1, FlushHeaderData
      <4>2. output' = output /\ (pc'[f] # "sync" \/ drained' = Len(accepted))
        <5>1. CASE m_buffer = <<>>
          BY <2>5, <3>1, <5>1 DEF FlushHeader, fileVars
        <5>2. CASE m_buffer # <<>>
          BY <1>1, <3>1, <5>2 DEF FlushHeader, Goto, fileVars
        <5> QED
          BY <5>1, <5>2
      <4>3. pc'[f] # "destroyed"
        BY <1>1, <3>1 DEF FlushHeader, Goto
      <4> QED
        BY <2>5, <4>1, <4>2, <4>3 DEF Drained
    <3>2. CASE ~FlushHeader(f)
      <4>1. pc'[f] # "sync"
        <5>1. CASE FlushLock(f)
          BY <1>1, <5>1 DEF FlushLock, Go, Goto
        <5> QED
          BY <1>3, <3>2, <5>1, FlushTextData, FlushRestData, FlushFileRelockData, FlushPrintThrowsData DEF FlushStep
      <4>2. pc'[f] # "destroyed"
        <5>1. CASE FlushText(f) \/ FlushRest(f)
          BY <1>1, <5>1 DEF FlushText, FlushRest, Goto
        <5>2. CASE FlushLock(f) \/ FlushFile(f) \/ FlushRelock(f)
          BY <1>1, <5>2 DEF FlushLock, FlushFile, FlushRelock, Go, Goto
        <5>3. CASE FlushThrows(f) \/ FlushPrint(f)
          BY <1>1, <5>3 DEF FlushThrows, FlushPrint, Go, Goto
        <5> QED
          BY <1>3, <3>2, <5>1, <5>2, <5>3 DEF FlushStep
      <4> QED
        BY <2>5, <4>1, <4>2 DEF Drained
    <3> QED
      BY <3>1, <3>2
  <2> QED
    BY <2>4, <2>5
<1>4. CASE OtherStep
  <2>1. CASE ThreadRun \/ ThreadWait \/ ThreadTimeout \/ ThreadWoken \/ ThreadSync \/ StartLoggingThread
    <3>1. pc'[Main] = pc[Main] /\ output' = output /\ drained' = drained
      BY <1>1, <2>1 DEF ThreadRun, ThreadWait, ThreadTimeout, ThreadWoken, ThreadSync, StartLoggingThread, Go, Goto, fileVars
    <3> QED
      BY <1>1, <3>1 DEF Drained
  <2>2. CASE ThreadLoop
    <3>1. pc'[Main] = pc[Main] /\ output' = output /\ drained' = drained
      BY <1>1, <2>2 DEF ThreadLoop, Goto, fileVars
    <3> QED
      BY <1>1, <3>1 DEF Drained
  <2>3. CASE DestructorStop \/ DestructorJoin
    <3>1. pc'[Main] \in {"join", "flush"}
      BY <1>1, <2>3 DEF DestructorStop, DestructorJoin, Go, Goto
    <3> QED
      BY <3>1 DEF Drained
  <2>4. CASE DestructorClear
    BY <1>1, <2>4 DEF DestructorClear, Go, Goto, Drained
  <2> QED
    BY <1>4, <2>1, <2>2, <2>3, <2>4 DEF OtherStep
<1> QED
  BY <1>2, <1>3, <1>4

-----------------------------------------------------------------------------
(* The invariant. *)

LEMMA InitIInv == Init => IInv
<1> SUFFICES ASSUME Init PROVE IInv
  OBVIOUS
<1>1. /\ m_buffer = <<>> /\ accepted = <<>> /\ taken = 0 /\ output = <<>> /\ written = 0 /\ m_state = "READY"
      /\ pc = [t \in Writers \cup Flushers |-> IF t = LogThread THEN "none" ELSE IF t = Main THEN "up" ELSE "idle"]
      /\ msg = [w \in Writers |-> NoMessage] /\ mh = [f \in Flushers |-> NoMessage]
      /\ logbuf = [f \in Flushers |-> <<>>]
  BY DEF Init
<1>2. /\ \A w \in Writers : pc[w] = "idle"
      /\ pc[LogThread] = "none" /\ pc[Main] = "up"
  BY <1>1, Threads
<1>3. \A f \in Flushers : pc[f] \in {"none", "up"}
  BY <1>2, Threads
<1>4. /\ Len(accepted) = 0 /\ Len(output) = 0 /\ Len(m_buffer) = 0
  BY <1>1
<1>5. Placed
  BY <1>1, <1>2, <1>3 DEF Placed, WriterPlaces, FlusherPlaces
<1>6. Typed
  BY <1>1, <1>4 DEF Typed
<1>7. MutexHeld /\ Numbered /\ TextFits /\ OneFlusher
  BY <1>1, <1>2, <1>3, <1>4, Threads DEF MutexHeld, Numbered, Writing, TextFits, OneFlusher
<1>8. ~TailLost /\ ~Undefined
  BY <1>3, <1>4 DEF TailLost, Undefined
<1>9. Hand
  BY <1>1, <1>3, <1>4 DEF Hand, InHand
<1>10. TailIsNext /\ PrintedAsWritten /\ Drained
  BY <1>2, <1>4, <1>8 DEF TailIsNext, PrintedAsWritten, Drained
<1>11. StreamFramed
  <2>1. Stream = <<>>
    <3>1. m_buffer \in Seq(Units) /\ \A w \in Writers : pc[w] # "text"
      BY <1>1, <1>2
    <3> QED
      BY <1>1, <3>1, StreamNow
  <2>2. Continues(Stream, accepted, taken, Read) /\ Len(Stream) = 0
    BY <1>1, <1>4, <2>1 DEF Continues
  <2> QED
    BY <2>2 DEF StreamFramed, Framed
<1> QED
  BY <1>5, <1>6, <1>7, <1>9, <1>10, <1>11 DEF IInv

LEMMA Stuttered ==
  ASSUME IInv, UNCHANGED vars
  PROVE  IInv'
<1>1. /\ m_buffer' = m_buffer /\ accepted' = accepted /\ taken' = taken /\ m_mutex' = m_mutex
      /\ m_state' = m_state /\ output' = output /\ synced' = synced /\ pc' = pc
      /\ msg' = msg /\ written' = written /\ mh' = mh /\ logbuf' = logbuf /\ drained' = drained
  BY DEF vars, bufferVars, threadVars, fileVars, localVars
<1>2. Placed' /\ Typed' /\ MutexHeld' /\ Numbered' /\ OneFlusher' /\ Drained'
  BY <1>1 DEF IInv, Placed, Typed, MutexHeld, Numbered, Writing, OneFlusher, Drained
<1>3. Data'
  <2>1. Data
    BY DEF IInv, Data
  <2>2. \A f \in Flushers : pc'[f] = pc[f]
    BY <1>1
  <2>3. \A w \in Writers : pc'[w] = pc[w] /\ msg'[w] = msg[w]
    BY <1>1
  <2> QED
    BY <1>1, <2>1, <2>2, <2>3, Quiet, Zenon
<1> QED
  BY <1>2, <1>3 DEF IInv, Data

LEMMA Preserved ==
  ASSUME IInv, [Next]_vars
  PROVE  IInv'
<1>1. CASE UNCHANGED vars
  BY <1>1, Stuttered
<1>2. CASE ~Over /\ \E w \in Writers : WriteBegin(w) \/ WriterStep(w)
  <2>1. PICK w \in Writers : WriteBegin(w) \/ WriterStep(w)
    BY <1>2
  <2>2. Control'
    <3>1. Control /\ \A v \in Writers : Writing(v) => msg[v] \in Messages
      BY DEF IInv, Control, Numbered
    <3> QED
      BY <2>1, <3>1, WriterControl, Zenon
  <2>3. Numbered'
    BY <2>1, WriterNumbered DEF IInv
  <2>4. Data' /\ Typed'
    BY <1>2, <2>1, WriterData
  <2>5. Drained'
    BY <1>2, DrainedHolds
  <2> QED
    BY <2>2, <2>3, <2>4, <2>5 DEF IInv, Control, Data
<1>3. CASE ~Over /\ \E f \in Flushers : FlushStep(f)
  <2>1. PICK f \in Flushers : FlushStep(f)
    BY <1>3
  <2>2. Control'
    BY <2>1, FlusherControl DEF IInv, Control
  <2>3. Numbered'
    BY <1>3, WritersStay, NumberedStays DEF IInv
  <2>4. Data' /\ Typed'
    BY <1>3, <2>1, FlushHeaderData, FlushTextData, FlushRestData, FlushFileRelockData, FlushPrintThrowsData, SilentData
       DEF FlushStep
  <2>5. Drained'
    BY <1>3, DrainedHolds
  <2> QED
    BY <2>2, <2>3, <2>4, <2>5 DEF IInv, Control, Data
<1>4. CASE ~Over /\ OtherStep
  <2>1. Control'
    BY <1>4, OtherControl DEF IInv, Control
  <2>2. Numbered'
    BY <1>4, WritersStay, NumberedStays DEF IInv
  <2>3. Data' /\ Typed'
    BY <1>4, SilentData
  <2>4. Drained'
    BY <1>4, DrainedHolds
  <2> QED
    BY <2>1, <2>2, <2>3, <2>4 DEF IInv, Control, Data
<1> QED
  BY <1>1, <1>2, <1>3, <1>4, StepCases

LEMMA Invariant == Spec => []IInv
<1>1. IInv /\ [Next]_vars => IInv'
  BY Preserved
<1> QED
  BY <1>1, InitIInv, PTL DEF Spec

(* Whatever threads log whatever messages into whatever buffer, and        *)
(* whenever they lose the race for the mutex in the middle of a message:   *)
(* the buffer stays framed for the next read, and no text is taken for a   *)
(* header, unless a tail was lost for want of memory.                      *)
THEOREM FramingHolds == Spec => []Framing
<1>1. IInv => Framing
  <2> SUFFICES ASSUME IInv, ~TailLost PROVE ~Undefined /\ Framed(Stream, accepted, taken, TextRead)
    BY DEF Framing
  <2>1. ~Undefined
    BY DEF IInv, TailIsNext
  <2> QED
    BY <2>1 DEF IInv, StreamFramed, Read
<1> QED
  BY <1>1, Invariant, PTL

(* The file holds what was accepted, in the order of acceptance: nothing   *)
(* torn, nothing twice, nothing skipped but what threw.                    *)
THEOREM PrintedHolds == Spec => []PrintedAsWritten
<1>1. IInv => PrintedAsWritten
  BY DEF IInv
<1> QED
  BY <1>1, Invariant, PTL

(* When ~Logger is done, every message accepted before it found no more    *)
(* data has been printed and flushed to the file.                          *)
THEOREM DrainsHolds == Spec => []DestructorDrains
<1>1. IInv => DestructorDrains
  BY DEF IInv, Drained, DestructorDrains
<1> QED
  BY <1>1, Invariant, PTL
=============================================================================
