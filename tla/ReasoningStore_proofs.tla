-------------------------- MODULE ReasoningStore_proofs --------------------------
(***************************************************************************)
(* Proofs about ReasoningStore, for any number of threads, any sizes of    *)
(* buffers and arrays, any number of objects at the start and any plans.   *)
(*                                                                         *)
(* The objects of a kind lie in sequences: the store, what is left of each *)
(* thread's buffer, what each thread collects, and, of networks and        *)
(* appenders, what uses them.  A table of these sequences is Separate when *)
(* no object occurs in it twice.  Every step only moves objects within a   *)
(* table, brings in one that the table has not, or drops some: the lemmas  *)
(* on tables say so without a state.                                       *)
(***************************************************************************)
EXTENDS ReasoningStore, FiniteSetTheorems, SequenceTheorems, TLAPS

-----------------------------------------------------------------------------
(* Tables: functions to sequences. *)
Tables(C) == [C -> Seq(Nat)]

Separate(f) ==
  \A c, d \in DOMAIN f : \A i \in 1..Len(f[c]), j \in 1..Len(f[d]) :
    f[c][i] = f[d][j] => c = d /\ i = j

Objects(f) == UNION {{f[c][i] : i \in 1..Len(f[c])} : c \in DOMAIN f}

(* Table g is table f with sequence s at c. *)
With1(C, f, g, c, s) ==
  /\ g \in Tables(C)
  /\ c \in C /\ g[c] = s
  /\ \A d \in C : d # c => g[d] = f[d]

LEMMA AppendedNotEmpty ==
  ASSUME NEW s \in Seq(Nat), NEW x \in Nat
  PROVE  Append(s, x) # <<>>
<1>1. Len(Append(s, x)) = Len(s) + 1 /\ Len(s) \in Nat
  OBVIOUS
<1>2. Len(<<>>) = 0
  OBVIOUS
<1> QED
  BY <1>1, <1>2

LEMMA IsObject ==
  ASSUME NEW C, NEW f \in Tables(C), NEW c \in C, NEW i \in 1..Len(f[c])
  PROVE  f[c][i] \in Objects(f)
BY DEF Tables, Objects

LEMMA PlaceOf ==
  ASSUME NEW C, NEW f \in Tables(C), NEW x, x \in Objects(f)
  PROVE  \E c \in C : \E i \in 1..Len(f[c]) : f[c][i] = x
BY DEF Tables, Objects

LEMMA SeparateAt ==
  ASSUME NEW C, NEW f \in Tables(C), Separate(f), NEW c \in C, NEW d \in C,
         NEW i \in 1..Len(f[c]), NEW j \in 1..Len(f[d]), f[c][i] = f[d][j]
  PROVE  c = d /\ i = j
BY DEF Separate, Tables

(* An object that is not there is put at the end of a sequence. *)
LEMMA PutAtEnd ==
  ASSUME NEW C, NEW f \in Tables(C), Separate(f), NEW c \in C,
         NEW x \in Nat, x \notin Objects(f),
         NEW g, With1(C, f, g, c, Append(f[c], x))
  PROVE  g \in Tables(C) /\ Separate(g) /\ Objects(g) = Objects(f) \cup {x}
<1>1. /\ f[c] \in Seq(Nat) /\ DOMAIN f = C /\ DOMAIN g = C /\ g \in Tables(C)
      /\ \A d \in C : d # c => g[d] = f[d]
      /\ g[c] = Append(f[c], x)
  BY DEF Tables, With1
<1>2. /\ Len(f[c]) \in Nat /\ Len(g[c]) = Len(f[c]) + 1 /\ g[c][Len(f[c]) + 1] = x
      /\ \A i \in 1..Len(f[c]) : g[c][i] = f[c][i]
  BY <1>1
<1>3. g \in Tables(C)
  BY <1>1 DEF Tables
<1>4. ASSUME NEW d \in C, NEW i \in 1..Len(g[d])
      PROVE  \/ i \in 1..Len(f[d]) /\ g[d][i] = f[d][i]
             \/ d = c /\ i = Len(f[c]) + 1 /\ g[d][i] = x
  BY <1>1, <1>2
<1>5. \A d \in C : \A i \in 1..Len(f[d]) : f[d][i] # x
  BY IsObject
<1>6. Separate(g)
  BY <1>1, <1>4, <1>5 DEF Separate
<1>7. ASSUME NEW y, y \in Objects(g) PROVE y \in Objects(f) \cup {x}
  <2> PICK d \in C : \E i \in 1..Len(g[d]) : g[d][i] = y
    BY <1>3, <1>7, PlaceOf
  <2>1. PICK i \in 1..Len(g[d]) : g[d][i] = y
    BY Zenon
  <2>2. (i \in 1..Len(f[d]) /\ f[d][i] = y) \/ y = x
    BY <1>4, <2>1
  <2> QED
    BY <2>2, IsObject
<1>8. x \in Objects(g)
  <2>1. Len(f[c]) + 1 \in 1..Len(g[c]) /\ g[c][Len(f[c]) + 1] = x
    BY <1>2
  <2> QED
    BY <1>3, <2>1, IsObject
<1>9. ASSUME NEW y, y \in Objects(f) PROVE y \in Objects(g)
  <2> PICK d \in C : \E i \in 1..Len(f[d]) : f[d][i] = y
    BY <1>9, PlaceOf
  <2>1. PICK i \in 1..Len(f[d]) : f[d][i] = y
    BY Zenon
  <2>2. i \in 1..Len(g[d]) /\ g[d][i] = y
    <3>1. CASE d = c
      BY <1>2, <2>1, <3>1
    <3>2. CASE d # c
      BY <1>1, <2>1, <3>2
    <3> QED
      BY <3>1, <3>2
  <2> QED
    BY <1>3, <2>2, IsObject
<1>10. Objects(g) = Objects(f) \cup {x}
  BY <1>7, <1>8, <1>9
<1> QED
  BY <1>3, <1>6, <1>10

(* Sequence s has some of the entries of x, each once: m tells which. *)
Picked(x, s, m) ==
  /\ s \in Seq(Nat)
  /\ m \in [1..Len(s) -> 1..Len(x)]
  /\ \A i \in 1..Len(s) : s[i] = x[m[i]]
  /\ \A i, j \in 1..Len(s) : m[i] = m[j] => i = j

Missed(s, m, j) == \A i \in 1..Len(s) : m[i] # j

(* Table g has the objects of f but those that are gone. *)
Without(C, f, g, gone) ==
  /\ g \in Tables(C) /\ Separate(g)
  /\ Objects(f) = Objects(g) \cup gone
  /\ Objects(g) \cap gone = {}

(* A sequence is replaced by one that has some of its entries. *)
LEMMA Thinned ==
  ASSUME NEW C, NEW f \in Tables(C), Separate(f), NEW c \in C,
         NEW s, NEW m, Picked(f[c], s, m),
         NEW g, With1(C, f, g, c, s)
  PROVE  Without(C, f, g, {f[c][j] : j \in {i \in 1..Len(f[c]) : Missed(s, m, i)}})
<1>1. /\ f[c] \in Seq(Nat) /\ DOMAIN f = C /\ DOMAIN g = C /\ g \in Tables(C)
      /\ \A d \in C : d # c => g[d] = f[d]
      /\ g[c] = s
      /\ s \in Seq(Nat)
      /\ \A i \in 1..Len(s) : m[i] \in 1..Len(f[c]) /\ s[i] = f[c][m[i]]
  BY DEF Tables, With1, Picked
<1>2. Separate(g)
  <2> SUFFICES ASSUME NEW d \in C, NEW e \in C, NEW i \in 1..Len(g[d]), NEW j \in 1..Len(g[e]),
                      g[d][i] = g[e][j]
               PROVE  d = e /\ i = j
    BY <1>1 DEF Separate
  <2>1. CASE d = c /\ e = c
    <3>1. f[c][m[i]] = f[c][m[j]]
      BY <1>1, <2>1
    <3>2. m[i] \in 1..Len(f[c]) /\ m[j] \in 1..Len(f[c])
      BY <1>1, <2>1
    <3>3. m[i] = m[j]
      BY <3>1, <3>2, SeparateAt
    <3> QED
      BY <1>1, <2>1, <3>3 DEF Picked
  <2>2. CASE d = c /\ e # c
    <3>1. f[c][m[i]] = f[e][j]
      BY <1>1, <2>2
    <3> QED
      BY <1>1, <2>2, <3>1, SeparateAt
  <2>3. CASE d # c /\ e = c
    <3>1. f[d][i] = f[c][m[j]]
      BY <1>1, <2>3
    <3> QED
      BY <1>1, <2>3, <3>1, SeparateAt
  <2>4. CASE d # c /\ e # c
    BY <1>1, <2>4, SeparateAt
  <2> QED
    BY <2>1, <2>2, <2>3, <2>4
<1>3. g \in Tables(C)
  BY <1>1
<1>4. ASSUME NEW y, y \in Objects(g) PROVE y \in Objects(f)
  <2> PICK d \in C : \E i \in 1..Len(g[d]) : g[d][i] = y
    BY <1>3, <1>4, PlaceOf
  <2>1. PICK i \in 1..Len(g[d]) : g[d][i] = y
    BY Zenon
  <2>2. CASE d = c
    <3>1. m[i] \in 1..Len(f[c]) /\ f[c][m[i]] = y
      BY <1>1, <2>1, <2>2
    <3> QED
      BY <3>1, IsObject
  <2>3. CASE d # c
    <3>1. i \in 1..Len(f[d]) /\ f[d][i] = y
      BY <1>1, <2>1, <2>3
    <3> QED
      BY <3>1, IsObject
  <2> QED
    BY <2>2, <2>3
<1>5. ASSUME NEW y, y \in Objects(f)
      PROVE  \/ y \in Objects(g)
             \/ \E j \in 1..Len(f[c]) : f[c][j] = y /\ Missed(s, m, j)
  <2> PICK d \in C : \E j \in 1..Len(f[d]) : f[d][j] = y
    BY <1>5, PlaceOf
  <2>1. PICK j \in 1..Len(f[d]) : f[d][j] = y
    BY Zenon
  <2>2. CASE d # c
    <3>1. j \in 1..Len(g[d]) /\ g[d][j] = y
      BY <1>1, <2>1, <2>2
    <3> QED
      BY <1>3, <3>1, IsObject
  <2>3. ASSUME d = c, NEW i \in 1..Len(s), m[i] = j PROVE y \in Objects(g)
    <3>1. i \in 1..Len(g[c]) /\ g[c][i] = y
      BY <1>1, <2>1, <2>3
    <3> QED
      BY <1>3, <3>1, IsObject
  <2>4. (\E i \in 1..Len(s) : m[i] = j) \/ Missed(s, m, j)
    BY DEF Missed
  <2> QED
    BY <2>1, <2>2, <2>3, <2>4
<1>6. ASSUME NEW j \in 1..Len(f[c]), Missed(s, m, j), f[c][j] \in Objects(g)
      PROVE  FALSE
  <2> PICK d \in C : \E i \in 1..Len(g[d]) : g[d][i] = f[c][j]
    BY <1>3, <1>6, PlaceOf
  <2>1. PICK i \in 1..Len(g[d]) : g[d][i] = f[c][j]
    BY Zenon
  <2>2. CASE d = c
    <3>1. i \in 1..Len(s) /\ f[c][m[i]] = f[c][j] /\ m[i] \in 1..Len(f[c])
      BY <1>1, <2>1, <2>2
    <3>2. m[i] = j
      BY <3>1, SeparateAt
    <3> QED
      BY <1>6, <3>1, <3>2 DEF Missed
  <2>3. CASE d # c
    <3>1. i \in 1..Len(f[d]) /\ f[d][i] = f[c][j]
      BY <1>1, <2>1, <2>3
    <3> QED
      BY <2>3, <3>1, SeparateAt
  <2> QED
    BY <2>2, <2>3
<1> DEFINE gone == {f[c][j] : j \in {i \in 1..Len(f[c]) : Missed(s, m, i)}}
<1>7. \A y \in gone : \E j \in 1..Len(f[c]) : f[c][j] = y /\ Missed(s, m, j)
  OBVIOUS
<1>8. \A j \in 1..Len(f[c]) : Missed(s, m, j) => f[c][j] \in gone
  OBVIOUS
<1> HIDE DEF gone
<1>9. \A y : y \in gone => y \in Objects(f) /\ y \notin Objects(g)
  BY <1>6, <1>7, IsObject
<1>10. \A y : y \in Objects(f) => y \in Objects(g) \/ y \in gone
  BY <1>5, <1>8
<1>11. Objects(f) = Objects(g) \cup gone /\ Objects(g) \cap gone = {}
  BY <1>4, <1>9, <1>10
<1>12. Without(C, f, g, gone)
  BY <1>2, <1>3, <1>11 DEF Without
<1> QED
  BY <1>12 DEF gone

(* Table g is table f with sequence s at c and sequence r at d. *)
With2(C, f, g, c, s, d, r) ==
  /\ g \in Tables(C)
  /\ c \in C /\ g[c] = s
  /\ d \in C /\ g[d] = r
  /\ \A e \in C : e # c /\ e # d => g[e] = f[e]

(* Of the objects of c some stay, where m tells they were, and some, q, go *)
(* to the end of d, where k tells they were.                               *)
LEMMA Moved ==
  ASSUME NEW C, NEW f \in Tables(C), Separate(f), NEW c \in C, NEW d \in C, c # d,
         NEW s, NEW m, Picked(f[c], s, m),
         NEW q, NEW k, Picked(f[c], q, k),
         \A i \in 1..Len(s) : Missed(q, k, m[i]),
         NEW g, With2(C, f, g, c, s, d, f[d] \o q)
  PROVE  Without(C, f, g, {f[c][j] : j \in {i \in 1..Len(f[c]) : Missed(s, m, i) /\ Missed(q, k, i)}})
<1>1. /\ f[c] \in Seq(Nat) /\ f[d] \in Seq(Nat) /\ DOMAIN f = C /\ DOMAIN g = C
      /\ \A e \in C : e # c /\ e # d => g[e] = f[e]
      /\ g[c] = s /\ g[d] = f[d] \o q
      /\ s \in Seq(Nat) /\ q \in Seq(Nat)
      /\ \A i \in 1..Len(s) : m[i] \in 1..Len(f[c]) /\ s[i] = f[c][m[i]]
      /\ \A i \in 1..Len(q) : k[i] \in 1..Len(f[c]) /\ q[i] = f[c][k[i]]
  BY DEF Tables, With2, Picked
<1>2. g \in Tables(C)
  BY DEF With2
<1>3. /\ Len(f[d]) \in Nat /\ Len(q) \in Nat /\ Len(g[d]) = Len(f[d]) + Len(q)
      /\ \A i \in 1..Len(f[d]) : g[d][i] = f[d][i]
      /\ \A i \in 1..Len(q) : Len(f[d]) + i \in 1..Len(g[d]) /\ g[d][Len(f[d]) + i] = q[i]
  BY <1>1
<1> DEFINE Came(e, i, o, j) ==
             \/ e # c /\ e # d /\ o = e /\ j = i
             \/ e = c /\ o = c /\ i \in 1..Len(s) /\ j = m[i]
             \/ e = d /\ o = d /\ j = i
             \/ e = d /\ o = c /\ \E l \in 1..Len(q) : i = Len(f[d]) + l /\ j = k[l]
<1>4. ASSUME NEW e \in C, NEW i \in 1..Len(g[e])
      PROVE  \E o \in C : \E j \in 1..Len(f[o]) : Came(e, i, o, j) /\ g[e][i] = f[o][j]
  <2>1. CASE e # c /\ e # d
    BY <1>1, <2>1
  <2>2. CASE e = c
    BY <1>1, <2>2
  <2>3. CASE e = d /\ i <= Len(f[d])
    BY <1>1, <1>3, <2>3
  <2>4. CASE e = d /\ ~(i <= Len(f[d]))
    <3>1. i \in Nat /\ i > Len(f[d]) /\ i - Len(f[d]) \in 1..Len(q)
      BY <1>3, <2>4
    <3> PICK l \in 1..Len(q) : l = i - Len(f[d])
      BY <3>1
    <3>2. i = Len(f[d]) + l
      BY <1>3, <3>1
    <3>3. g[e][i] = f[c][k[l]] /\ k[l] \in 1..Len(f[c])
      BY <1>1, <1>3, <2>4, <3>2
    <3> QED
      BY <2>4, <3>2, <3>3
  <2> QED
    BY <2>1, <2>2, <2>3, <2>4
<1>5. ASSUME NEW e \in C, NEW i \in 1..Len(g[e]), NEW a \in C, NEW b \in 1..Len(g[a]),
             NEW o \in C, NEW j \in 1..Len(f[o]), Came(e, i, o, j), Came(a, b, o, j)
      PROVE  e = a /\ i = b
  <2>1. CASE o # c
    BY <1>5, <2>1
  <2>2. CASE o = c
    <3>1. \A u \in 1..Len(s), v \in 1..Len(q) : m[u] # k[v]
      BY DEF Missed
    <3>2. \A u, v \in 1..Len(s) : m[u] = m[v] => u = v
      BY DEF Picked
    <3>3. \A u, v \in 1..Len(q) : k[u] = k[v] => u = v
      BY DEF Picked
    <3> QED
      BY <1>5, <2>2, <3>1, <3>2, <3>3
  <2> QED
    BY <2>1, <2>2
<1> HIDE DEF Came
<1>6. Separate(g)
  <2> SUFFICES ASSUME NEW e \in C, NEW a \in C, NEW i \in 1..Len(g[e]), NEW b \in 1..Len(g[a]),
                      g[e][i] = g[a][b]
               PROVE  e = a /\ i = b
    BY <1>1 DEF Separate
  <2>1. PICK o \in C : \E j \in 1..Len(f[o]) : Came(e, i, o, j) /\ g[e][i] = f[o][j]
    BY <1>4
  <2>2. PICK j \in 1..Len(f[o]) : Came(e, i, o, j) /\ g[e][i] = f[o][j]
    BY <2>1
  <2>3. PICK p \in C : \E h \in 1..Len(f[p]) : Came(a, b, p, h) /\ g[a][b] = f[p][h]
    BY <1>4
  <2>4. PICK h \in 1..Len(f[p]) : Came(a, b, p, h) /\ g[a][b] = f[p][h]
    BY <2>3
  <2>5. f[o][j] = f[p][h]
    BY <2>2, <2>4
  <2>6. o = p /\ j = h
    BY <2>5, SeparateAt
  <2> QED
    BY <1>5, <2>2, <2>4, <2>6
<1>7. ASSUME NEW y, y \in Objects(g) PROVE y \in Objects(f)
  <2>1. PICK e \in C : \E i \in 1..Len(g[e]) : g[e][i] = y
    BY <1>2, <1>7, PlaceOf
  <2>2. PICK i \in 1..Len(g[e]) : g[e][i] = y
    BY <2>1
  <2>3. PICK o \in C : \E j \in 1..Len(f[o]) : f[o][j] = y
    BY <1>4, <2>2
  <2> QED
    BY <2>3, IsObject
<1>8. ASSUME NEW y, y \in Objects(f)
      PROVE  \/ y \in Objects(g)
             \/ \E j \in 1..Len(f[c]) : f[c][j] = y /\ Missed(s, m, j) /\ Missed(q, k, j)
  <2>1. PICK e \in C : \E j \in 1..Len(f[e]) : f[e][j] = y
    BY <1>8, PlaceOf
  <2>2. PICK j \in 1..Len(f[e]) : f[e][j] = y
    BY <2>1
  <2>3. CASE e # c
    <3>1. ASSUME e = d PROVE y \in Objects(g)
      <4>1. j \in 1..Len(f[d]) /\ f[d][j] = y
        BY <2>2, <3>1
      <4>2. j \in 1..Len(g[d]) /\ g[d][j] = y
        BY <1>3, <4>1
      <4> QED
        BY <1>2, <4>2, IsObject
    <3>2. ASSUME e # d PROVE y \in Objects(g)
      BY <1>1, <1>2, <2>2, <2>3, <3>2, IsObject
    <3> QED
      BY <3>1, <3>2
  <2>4. ASSUME e = c, NEW i \in 1..Len(s), m[i] = j PROVE y \in Objects(g)
    <3>1. i \in 1..Len(g[c]) /\ g[c][i] = y
      BY <1>1, <2>2, <2>4
    <3> QED
      BY <1>2, <3>1, IsObject
  <2>5. ASSUME e = c, NEW i \in 1..Len(q), k[i] = j PROVE y \in Objects(g)
    <3>1. Len(f[d]) + i \in 1..Len(g[d]) /\ g[d][Len(f[d]) + i] = y
      BY <1>1, <1>3, <2>2, <2>5
    <3> QED
      BY <1>2, <3>1, IsObject
  <2>6. \/ \E i \in 1..Len(s) : m[i] = j
        \/ \E i \in 1..Len(q) : k[i] = j
        \/ Missed(s, m, j) /\ Missed(q, k, j)
    BY DEF Missed
  <2> QED
    BY <2>2, <2>3, <2>4, <2>5, <2>6
<1>9. ASSUME NEW j \in 1..Len(f[c]), Missed(s, m, j), Missed(q, k, j), f[c][j] \in Objects(g)
      PROVE  FALSE
  <2>1. PICK e \in C : \E i \in 1..Len(g[e]) : g[e][i] = f[c][j]
    BY <1>2, <1>9, PlaceOf
  <2>2. PICK i \in 1..Len(g[e]) : g[e][i] = f[c][j]
    BY <2>1
  <2>3. PICK o \in C : \E h \in 1..Len(f[o]) : Came(e, i, o, h) /\ g[e][i] = f[o][h]
    BY <1>4
  <2>4. PICK h \in 1..Len(f[o]) : Came(e, i, o, h) /\ g[e][i] = f[o][h]
    BY <2>3
  <2>5. f[o][h] = f[c][j]
    BY <2>2, <2>4
  <2>6. o = c /\ h = j
    BY <2>5, SeparateAt
  <2>7. (\E l \in 1..Len(s) : j = m[l]) \/ \E l \in 1..Len(q) : j = k[l]
    BY <2>4, <2>6 DEF Came
  <2> QED
    BY <1>9, <2>7 DEF Missed
<1> DEFINE gone == {f[c][j] : j \in {i \in 1..Len(f[c]) : Missed(s, m, i) /\ Missed(q, k, i)}}
<1>10. \A y \in gone : \E j \in 1..Len(f[c]) : f[c][j] = y /\ Missed(s, m, j) /\ Missed(q, k, j)
  OBVIOUS
<1>11. \A j \in 1..Len(f[c]) : Missed(s, m, j) /\ Missed(q, k, j) => f[c][j] \in gone
  OBVIOUS
<1> HIDE DEF gone
<1>12. \A y : y \in gone => y \in Objects(f) /\ y \notin Objects(g)
  BY <1>9, <1>10, IsObject
<1>13. \A y : y \in Objects(f) => y \in Objects(g) \/ y \in gone
  BY <1>8, <1>11
<1>14. Objects(f) = Objects(g) \cup gone /\ Objects(g) \cap gone = {}
  BY <1>7, <1>12, <1>13
<1>15. Without(C, f, g, gone)
  BY <1>2, <1>6, <1>14 DEF Without
<1> QED
  BY <1>15 DEF gone

-----------------------------------------------------------------------------
(* What the code does to the tables. *)

LEMMA Part ==
  ASSUME NEW x \in Seq(Nat), NEW a \in Nat \ {0}, NEW z \in Nat, z <= Len(x), a <= z + 1
  PROVE  /\ SubSeq(x, a, z) \in Seq(Nat)
         /\ Len(SubSeq(x, a, z)) = z - a + 1
         /\ \A i \in 1..(z - a + 1) : SubSeq(x, a, z)[i] = x[i + a - 1]
<1>1. CASE a <= z
  BY <1>1, SubSeqProperties
<1>2. CASE a > z
  BY <1>2, SubSeqProperties
<1> QED
  BY <1>1, <1>2

LEMMA PickedPart ==
  ASSUME NEW x \in Seq(Nat), NEW a \in Nat \ {0}, NEW z \in Nat, z <= Len(x), a <= z + 1
  PROVE  /\ Len(SubSeq(x, a, z)) = z - a + 1
         /\ \E m : /\ Picked(x, SubSeq(x, a, z), m)
                   /\ \A j \in 1..Len(x) : Missed(SubSeq(x, a, z), m, j) <=> j < a \/ z < j
<1> DEFINE s == SubSeq(x, a, z)
           m == [i \in 1..(z - a + 1) |-> i + a - 1]
<1>1. /\ s \in Seq(Nat) /\ Len(s) = z - a + 1 /\ Len(s) \in Nat
      /\ \A i \in 1..Len(s) : s[i] = x[i + a - 1]
  BY Part
<1>2. /\ m \in [1..Len(s) -> 1..Len(x)]
      /\ \A i \in 1..Len(s) : m[i] = i + a - 1
  BY <1>1
<1>3. \A j \in 1..Len(x) : Missed(s, m, j) <=> j < a \/ z < j
  <2> SUFFICES ASSUME NEW j \in 1..Len(x) PROVE Missed(s, m, j) <=> j < a \/ z < j
    OBVIOUS
  <2>1. ASSUME a <= j, j <= z PROVE ~Missed(s, m, j)
    <3>1. j - a + 1 \in 1..Len(s) /\ (j - a + 1) + a - 1 = j
      BY <1>1, <2>1
    <3>2. m[j - a + 1] = j
      BY <1>2, <3>1
    <3> QED
      BY <3>1, <3>2 DEF Missed
  <2>2. ASSUME NEW i \in 1..Len(s), m[i] = j PROVE a <= j /\ j <= z
    BY <1>1, <1>2, <2>2
  <2>3. (\E i \in 1..Len(s) : m[i] = j) \/ Missed(s, m, j)
    BY DEF Missed
  <2>4. a \in Int /\ z \in Int /\ j \in Int
    OBVIOUS
  <2> HIDE DEF s, m
  <2> QED
    BY <2>1, <2>2, <2>3, <2>4
<1> HIDE DEF s, m
<1>4. Picked(x, s, m)
  <2>1. \A i \in 1..Len(s) : s[i] = x[m[i]]
    BY <1>1, <1>2
  <2>2. \A i, j \in 1..Len(s) : m[i] = m[j] => i = j
    BY <1>1, <1>2
  <2> QED
    BY <1>1, <1>2, <2>1, <2>2 DEF Picked
<1> QED
  BY <1>1, <1>3, <1>4 DEF s

(* The objects of the entries of x in set I. *)
Entries(x, I) == {x[i] : i \in I \cap 1..Len(x)}

(* Of a sequence only a part is kept. *)
LEMMA KeepPart ==
  ASSUME NEW C, NEW f \in Tables(C), Separate(f), NEW c \in C,
         NEW a \in Nat \ {0}, NEW z \in Nat, z <= Len(f[c]), a <= z + 1,
         NEW g, With1(C, f, g, c, SubSeq(f[c], a, z))
  PROVE  Without(C, f, g, Entries(f[c], Int \ a..z))
<1>1. f[c] \in Seq(Nat) /\ Len(f[c]) \in Nat
  BY DEF Tables
<1>2. \E s, m : /\ Picked(f[c], s, m) /\ With1(C, f, g, c, s)
               /\ \A j \in 1..Len(f[c]) : Missed(s, m, j) <=> j < a \/ z < j
  BY <1>1, PickedPart
<1>3. PICK s, m : /\ Picked(f[c], s, m) /\ With1(C, f, g, c, s)
                  /\ \A j \in 1..Len(f[c]) : Missed(s, m, j) <=> j < a \/ z < j
  BY <1>2
<1>4. Without(C, f, g, {f[c][j] : j \in {i \in 1..Len(f[c]) : Missed(s, m, i)}})
  BY <1>3, Thinned
<1>5. {i \in 1..Len(f[c]) : Missed(s, m, i)} = (Int \ a..z) \cap 1..Len(f[c])
  BY <1>1, <1>3
<1> QED
  BY <1>4, <1>5 DEF Entries

(* Of s the entries a..z stay, which is r then, and the entries u..v go to *)
(* the end of x, which is y then.                                          *)
Cut(s, a, z, u, v, r, x, y) ==
  /\ r = SubSeq(s, a, z) /\ y = x \o SubSeq(s, u, v)
  /\ a \in Nat \ {0} /\ z \in Nat /\ z <= Len(s) /\ a <= z + 1
  /\ u \in Nat \ {0} /\ v \in Nat /\ v <= Len(s) /\ u <= v + 1
  /\ a..z \cap u..v = {}

(* The objects of the entries that neither stay nor move. *)
Dropped(s, a, z, u, v) == Entries(s, Int \ (a..z \cup u..v))

(* Of a sequence one part is kept, and another goes to the end of another. *)
LEMMA MovePart ==
  ASSUME NEW C, NEW f \in Tables(C), Separate(f), NEW c \in C, NEW d \in C, c # d,
         NEW a \in Nat \ {0}, NEW z \in Nat, z <= Len(f[c]), a <= z + 1,
         NEW u \in Nat \ {0}, NEW v \in Nat, v <= Len(f[c]), u <= v + 1,
         a..z \cap u..v = {},
         NEW g, With2(C, f, g, c, SubSeq(f[c], a, z), d, f[d] \o SubSeq(f[c], u, v))
  PROVE  Without(C, f, g, Dropped(f[c], a, z, u, v))
<1>1. f[c] \in Seq(Nat) /\ Len(f[c]) \in Nat
  BY DEF Tables
<1>2. \E s, m, q, k : /\ Picked(f[c], s, m) /\ Picked(f[c], q, k)
                      /\ With2(C, f, g, c, s, d, f[d] \o q)
                      /\ \A j \in 1..Len(f[c]) : Missed(s, m, j) <=> j < a \/ z < j
                      /\ \A j \in 1..Len(f[c]) : Missed(q, k, j) <=> j < u \/ v < j
  <2>1. PICK m : /\ Picked(f[c], SubSeq(f[c], a, z), m)
                 /\ \A j \in 1..Len(f[c]) : Missed(SubSeq(f[c], a, z), m, j) <=> j < a \/ z < j
    BY <1>1, PickedPart
  <2>2. PICK k : /\ Picked(f[c], SubSeq(f[c], u, v), k)
                 /\ \A j \in 1..Len(f[c]) : Missed(SubSeq(f[c], u, v), k, j) <=> j < u \/ v < j
    BY <1>1, PickedPart
  <2> QED
    BY <2>1, <2>2
<1>3. PICK s, m, q, k : /\ Picked(f[c], s, m) /\ Picked(f[c], q, k)
                        /\ With2(C, f, g, c, s, d, f[d] \o q)
                        /\ \A j \in 1..Len(f[c]) : Missed(s, m, j) <=> j < a \/ z < j
                        /\ \A j \in 1..Len(f[c]) : Missed(q, k, j) <=> j < u \/ v < j
  BY <1>2
<1>4. \A i \in 1..Len(s) : Missed(q, k, m[i])
  <2> SUFFICES ASSUME NEW i \in 1..Len(s) PROVE Missed(q, k, m[i])
    OBVIOUS
  <2>1. m[i] \in 1..Len(f[c]) /\ ~Missed(s, m, m[i])
    BY <1>3 DEF Picked, Missed
  <2>2. a <= m[i] /\ m[i] <= z
    BY <1>1, <1>3, <2>1
  <2> PICK h \in Nat : h = m[i]
    BY <1>1, <2>1
  <2>3. h \in a..z
    BY <2>2
  <2>4. ASSUME u <= h, h <= v PROVE FALSE
    <3>1. h \in u..v
      BY <2>4
    <3> QED
      BY <2>3, <3>1
  <2>5. h < u \/ v < h
    BY <2>4
  <2> QED
    BY <1>3, <2>1, <2>5
<1>5. Without(C, f, g, {f[c][j] : j \in {i \in 1..Len(f[c]) : Missed(s, m, i) /\ Missed(q, k, i)}})
  <2>1. Picked(f[c], s, m) /\ Picked(f[c], q, k) /\ With2(C, f, g, c, s, d, f[d] \o q)
    BY <1>3
  <2> QED
    BY <1>4, <2>1, Moved
<1>6. {i \in 1..Len(f[c]) : Missed(s, m, i) /\ Missed(q, k, i)}
        = (Int \ (a..z \cup u..v)) \cap 1..Len(f[c])
  BY <1>1, <1>3
<1> QED
  BY <1>5, <1>6 DEF Entries, Dropped

LEMMA RemovedAt ==
  ASSUME NEW x \in Seq(Nat), NEW i \in 1..Len(x)
  PROVE  /\ RemoveAt(x, i) \in Seq(Nat)
         /\ Len(RemoveAt(x, i)) = Len(x) - 1
         /\ \A j \in 1..(Len(x) - 1) : RemoveAt(x, i)[j] = x[IF j < i THEN j ELSE j + 1]
<1> PICK n \in Nat : n = Len(x)
  OBVIOUS
<1>1. i \in Nat /\ 1 <= i /\ i <= n
  OBVIOUS
<1>2. \E p \in Seq(Nat), r \in Seq(Nat) :
        /\ RemoveAt(x, i) = p \o r
        /\ Len(p) = i - 1 /\ \A j \in 1..(i - 1) : p[j] = x[j]
        /\ Len(r) = n - i /\ \A j \in 1..(n - i) : r[j] = x[i + j]
  <2>1. /\ SubSeq(x, 1, i - 1) \in Seq(Nat) /\ Len(SubSeq(x, 1, i - 1)) = i - 1
        /\ \A j \in 1..(i - 1) : SubSeq(x, 1, i - 1)[j] = x[j]
    <3>1. /\ SubSeq(x, 1, i - 1) \in Seq(Nat)
          /\ Len(SubSeq(x, 1, i - 1)) = (i - 1) - 1 + 1
          /\ \A j \in 1..((i - 1) - 1 + 1) : SubSeq(x, 1, i - 1)[j] = x[j + 1 - 1]
      BY <1>1, Part
    <3>2. (i - 1) - 1 + 1 = i - 1 /\ \A j \in 1..(i - 1) : j + 1 - 1 = j
      BY <1>1
    <3> QED
      BY <3>1, <3>2
  <2>2. /\ SubSeq(x, i + 1, n) \in Seq(Nat) /\ Len(SubSeq(x, i + 1, n)) = n - i
        /\ \A j \in 1..(n - i) : SubSeq(x, i + 1, n)[j] = x[i + j]
    <3>1. /\ SubSeq(x, i + 1, n) \in Seq(Nat)
          /\ Len(SubSeq(x, i + 1, n)) = n - (i + 1) + 1
          /\ \A j \in 1..(n - (i + 1) + 1) : SubSeq(x, i + 1, n)[j] = x[j + (i + 1) - 1]
      BY <1>1, Part
    <3>2. n - (i + 1) + 1 = n - i /\ \A j \in 1..(n - i) : j + (i + 1) - 1 = i + j
      BY <1>1
    <3> QED
      BY <3>1, <3>2
  <2>3. RemoveAt(x, i) = SubSeq(x, 1, i - 1) \o SubSeq(x, i + 1, n)
    BY DEF RemoveAt
  <2> QED
    BY <2>1, <2>2, <2>3
<1>3. PICK p \in Seq(Nat), r \in Seq(Nat) :
        /\ RemoveAt(x, i) = p \o r
        /\ Len(p) = i - 1 /\ \A j \in 1..(i - 1) : p[j] = x[j]
        /\ Len(r) = n - i /\ \A j \in 1..(n - i) : r[j] = x[i + j]
  BY <1>2
<1>4. /\ p \o r \in Seq(Nat) /\ Len(p \o r) = (i - 1) + (n - i)
      /\ \A j \in 1..((i - 1) + (n - i)) : (p \o r)[j] = IF j <= i - 1 THEN p[j] ELSE r[j - (i - 1)]
  <2>1. /\ p \o r \in Seq(Nat) /\ Len(p \o r) = Len(p) + Len(r)
        /\ \A j \in 1..(Len(p) + Len(r)) : (p \o r)[j] = IF j <= Len(p) THEN p[j] ELSE r[j - Len(p)]
    BY ConcatProperties
  <2> QED
    BY <1>3, <2>1
<1>5. (i - 1) + (n - i) = n - 1
  BY <1>1
<1>6. ASSUME NEW j \in 1..(n - 1) PROVE (p \o r)[j] = x[IF j < i THEN j ELSE j + 1]
  <2>1. CASE j < i
    <3>1. j <= i - 1 /\ j \in 1..(i - 1) /\ j \in 1..((i - 1) + (n - i))
      BY <1>1, <1>5, <2>1
    <3> QED
      BY <1>3, <1>4, <2>1, <3>1
  <2>2. CASE ~(j < i)
    <3>0. ~(j <= i - 1) /\ j \in 1..((i - 1) + (n - i))
      BY <1>1, <1>5, <2>2
    <3>1. (p \o r)[j] = r[j - (i - 1)]
      BY <1>4, <3>0
    <3> PICK h \in Nat : h = j - (i - 1)
      BY <1>1, <2>2
    <3>2. h \in 1..(n - i) /\ i + h = j + 1
      BY <1>1, <2>2
    <3>3. r[h] = x[j + 1]
      BY <1>3, <3>2
    <3> QED
      BY <2>2, <3>1, <3>3
  <2> QED
    BY <2>1, <2>2
<1> QED
  BY <1>3, <1>4, <1>5, <1>6

LEMMA PickedRest ==
  ASSUME NEW x \in Seq(Nat), NEW i \in 1..Len(x)
  PROVE  \E m : /\ Picked(x, RemoveAt(x, i), m)
               /\ \A j \in 1..Len(x) : Missed(RemoveAt(x, i), m, j) <=> j = i
<1> PICK n \in Nat : n = Len(x)
  OBVIOUS
<1>1. i \in Nat /\ 1 <= i /\ i <= n
  OBVIOUS
<1>2. \E s \in Seq(Nat) : /\ s = RemoveAt(x, i) /\ Len(s) = n - 1
                         /\ \A j \in 1..(n - 1) : s[j] = x[IF j < i THEN j ELSE j + 1]
  BY RemovedAt
<1>3. PICK s \in Seq(Nat) : /\ s = RemoveAt(x, i) /\ Len(s) = n - 1
                           /\ \A j \in 1..(n - 1) : s[j] = x[IF j < i THEN j ELSE j + 1]
  BY <1>2
<1> PICK m : m = [j \in 1..(n - 1) |-> IF j < i THEN j ELSE j + 1]
  OBVIOUS
<1>4. /\ m \in [1..(n - 1) -> 1..n]
      /\ \A j \in 1..(n - 1) : m[j] = IF j < i THEN j ELSE j + 1
  BY <1>1
<1>5. \A j, k \in 1..(n - 1) : m[j] = m[k] => j = k
  BY <1>1, <1>4
<1>6. \A j \in 1..(n - 1) : s[j] = x[m[j]]
  BY <1>3, <1>4
<1>7. Picked(x, s, m)
  BY <1>3, <1>4, <1>5, <1>6 DEF Picked
<1>8. ASSUME NEW j \in 1..n PROVE Missed(s, m, j) <=> j = i
  <2>1. CASE j < i
    <3>1. j \in 1..(n - 1) /\ m[j] = j
      BY <1>1, <1>4, <2>1
    <3> QED
      BY <1>3, <2>1, <3>1 DEF Missed
  <2>2. CASE i < j
    <3>1. j - 1 \in 1..(n - 1) /\ ~(j - 1 < i) /\ (j - 1) + 1 = j
      BY <1>1, <2>2
    <3> PICK k \in 1..(n - 1) : k = j - 1
      BY <3>1
    <3>2. m[k] = j
      BY <1>4, <3>1
    <3>3. ~Missed(s, m, j)
      BY <1>3, <3>2 DEF Missed
    <3> QED
      BY <1>1, <2>2, <3>3
  <2>3. \A k \in 1..(n - 1) : m[k] # i
    BY <1>1, <1>4
  <2>4. j = i => Missed(s, m, j)
    BY <1>3, <2>3 DEF Missed
  <2>5. j < i \/ i < j \/ j = i
    BY <1>1
  <2> QED
    BY <2>1, <2>2, <2>4, <2>5
<1> QED
  BY <1>3, <1>7, <1>8

(* One entry is taken out. *)
LEMMA TakeOut ==
  ASSUME NEW C, NEW f \in Tables(C), Separate(f), NEW c \in C, NEW i \in 1..Len(f[c]),
         NEW g, With1(C, f, g, c, RemoveAt(f[c], i))
  PROVE  Without(C, f, g, {f[c][i]})
<1>1. f[c] \in Seq(Nat) /\ Len(f[c]) \in Nat
  BY DEF Tables
<1>2. \E s, m : Picked(f[c], s, m) /\ With1(C, f, g, c, s)
                /\ \A j \in 1..Len(f[c]) : Missed(s, m, j) <=> j = i
  BY <1>1, PickedRest
<1>3. PICK s, m : Picked(f[c], s, m) /\ With1(C, f, g, c, s)
                  /\ \A j \in 1..Len(f[c]) : Missed(s, m, j) <=> j = i
  BY <1>2
<1>4. Without(C, f, g, {f[c][j] : j \in {k \in 1..Len(f[c]) : Missed(s, m, k)}})
  BY <1>3, Thinned
<1>5. {k \in 1..Len(f[c]) : Missed(s, m, k)} = {i}
  BY <1>1, <1>3
<1> QED
  BY <1>4, <1>5

-----------------------------------------------------------------------------
(* The tables of a state.  The sequences of nodes that networks have are   *)
(* not in the one of the nodes: a node may be in several.                  *)

Slots(K) == {<<"store", 0>>} \cup ({"buffer", "freed"} \X Threads) \cup ({"use"} \X K)

Table(S, B, F, U) ==
  [c \in Slots(DOMAIN U) |->
     CASE c[1] = "store"  -> S
       [] c[1] = "buffer" -> B[c[2]]
       [] c[1] = "freed"  -> F[c[2]]
       [] c[1] = "use"    -> U[c[2]]]

(* What is left of the buffer of each thread. *)
LeftOf(k)  == [t \in Threads |-> SubSeq(buffer[t][k], 2, index[t][k] + 1)]
FreedOf(k) == [t \in Threads |-> freed[t][k]]

UsesOf(k) ==
  CASE k = "bnet"     -> held
    [] k = "node"     -> [x \in {} |-> <<>>]
    [] k = "appender" -> appenders

TableOf(k) == Table(store[k], LeftOf(k), FreedOf(k), UsesOf(k))

-----------------------------------------------------------------------------
TypeOK ==
  /\ made \in [Kinds -> Nat]
  /\ store \in [Kinds -> Seq(Nat)]
  /\ buffer \in [Threads -> [Kinds -> Seq(Nat)]]
  /\ index \in [Threads -> [Kinds -> Int]]
  /\ freed \in [Threads -> [Kinds -> Seq(Nat)]]
  /\ refcnt \in [1..made["node"] -> Nat \ {0}]
  /\ appenders \in [1..made["node"] -> Seq(Nat)]
  /\ nodes \in [1..made["bnet"] -> Seq(Nat)]
  /\ held \in [Threads -> Seq(Nat)]
  /\ pc \in [Threads -> {"idle", "bnets", "nodes", "undefined"}]
  /\ at \in [Threads -> [{"bnet", "node"} -> Nat]]
  /\ plan \in [Threads -> Seq({"node", "share", "appender"})]
  /\ lost \in [Kinds -> SUBSET Nat]

(* No object occurs twice in the table of its kind, and each was made. *)
DistinctOf(k) == Separate(TableOf(k)) /\ \A x \in Objects(TableOf(k)) : x \in 1..made[k]

Distinct == \A k \in Kinds : DistinctOf(k)

(* The nodes of networks; the count of a node is never below their number, *)
(* and what is not in use has the count of a single owner.                 *)
Counted ==
  /\ \A b \in 1..made["bnet"] : \A i \in 1..Len(nodes[b]) : nodes[b][i] \in 1..made["node"]
  /\ \A n \in 1..made["node"] :
       /\ IsFiniteSet(Users("node", n)) /\ Cardinality(Users("node", n)) <= refcnt[n]
       /\ n \in Objects(TableOf("node")) => Users("node", n) = {} /\ refcnt[n] = 1

(* Every object is in its table but those that the code gives up. *)
InUse(n) == Users("node", n) # {} \/ refcnt[n] > 1

KeptOf(k) ==
  \A x \in 1..made[k] : x \in Objects(TableOf(k)) \/ x \in lost[k] \/ (k = "node" /\ InUse(x))

Kept == \A k \in Kinds : KeptOf(k)

(* Where each thread is in freeBnet, and how much it has collected. *)
Collected(t) ==
  LET b == freed[t]["bnet"][at[t]["bnet"]] IN
  /\ Len(freed[t]["appender"]) < TLS_BUF_SIZE["appender"]
  /\ pc[t] \in {"bnets", "nodes"} => Len(freed[t]["bnet"]) = TLS_BUF_SIZE["bnet"]
  /\ pc[t] \in {"idle", "undefined"} =>
       /\ Len(freed[t]["bnet"]) < TLS_BUF_SIZE["bnet"]
       /\ Len(freed[t]["node"]) < TLS_BUF_SIZE["node"]
  /\ pc[t] = "bnets" =>
       /\ at[t]["bnet"] \in 1..(Len(freed[t]["bnet"]) + 1)
       /\ IF at[t]["bnet"] <= Len(freed[t]["bnet"])
          THEN Len(freed[t]["node"]) + Len(nodes[b]) < TLS_BUF_SIZE["node"] + NODES_PER_BNET
          ELSE Len(freed[t]["node"]) < TLS_BUF_SIZE["node"]
  /\ pc[t] = "nodes" =>
       /\ at[t]["bnet"] \in 1..Len(freed[t]["bnet"]) /\ at[t]["node"] >= 1
       /\ Len(freed[t]["node"]) \in TLS_BUF_SIZE["node"]..(TLS_BUF_SIZE["node"] + NODES_PER_BNET)

(* Who builds a network has one. *)
Builds(t) == plan[t] # <<>> /\ pc[t] # "undefined" => held[t] # <<>>

(* What is left of a buffer lies within it. *)
Windows ==
  /\ buffer \in [Threads -> [Kinds -> Seq(Nat)]] /\ index \in [Threads -> [Kinds -> Int]]
  /\ \A t \in Threads, k \in Kinds : index[t][k] <= 0 \/ index[t][k] + 2 <= Len(buffer[t][k])

ArraysFit ==
  /\ \A b \in 1..made["bnet"] : Len(nodes[b]) <= NODES_PER_BNET
  /\ \A n \in 1..made["node"] : Len(appenders[n]) <= APPENDERS_PER_NODE

Placed == Windows /\ ArraysFit /\ \A t \in Threads : Collected(t) /\ Builds(t)

(* What goes back to a store has been emptied: up to where the thread is.  *)
Cleared(t) ==
  /\ pc[t] \in {"bnets", "nodes"} =>
       \A i \in 1..Len(freed[t]["bnet"]) :
         i < at[t]["bnet"] \/ (i = at[t]["bnet"] /\ pc[t] = "nodes") => nodes[freed[t]["bnet"][i]] = <<>>
  /\ pc[t] = "nodes" =>
       \A i \in 1..Len(freed[t]["node"]) : i < at[t]["node"] => appenders[freed[t]["node"][i]] = <<>>

Emptied == \A t \in Threads : Cleared(t)

IInv == TypeOK /\ Distinct /\ Counted /\ Kept /\ Placed /\ Emptied /\ HandedOutEmpty

-----------------------------------------------------------------------------
(* Where the sequences are in a table. *)

LEMMA SlotsAre ==
  ASSUME NEW K
  PROVE  /\ <<"store", 0>> \in Slots(K)
         /\ \A t \in Threads : <<"buffer", t>> \in Slots(K) /\ <<"freed", t>> \in Slots(K)
         /\ \A x \in K : <<"use", x>> \in Slots(K)
         /\ \A c \in Slots(K) : \/ c = <<"store", 0>>
                                \/ \E t \in Threads : c = <<"buffer", t>> \/ c = <<"freed", t>>
                                \/ \E x \in K : c = <<"use", x>>
BY DEF Slots

(* Table T consists of these sequences. *)
Reads(T, K, S, B, F, U) ==
  /\ T \in Tables(Slots(K))
  /\ T[<<"store", 0>>] = S
  /\ \A t \in Threads : T[<<"buffer", t>>] = B[t] /\ T[<<"freed", t>>] = F[t]
  /\ \A x \in K : T[<<"use", x>>] = U[x]

LEMMA TableIs ==
  ASSUME NEW S \in Seq(Nat), NEW B \in [Threads -> Seq(Nat)], NEW F \in [Threads -> Seq(Nat)],
         NEW K, NEW U \in [K -> Seq(Nat)]
  PROVE  Reads(Table(S, B, F, U), K, S, B, F, U)
<1> DEFINE e(c) == CASE c[1] = "store"  -> S
                     [] c[1] = "buffer" -> B[c[2]]
                     [] c[1] = "freed"  -> F[c[2]]
                     [] c[1] = "use"    -> U[c[2]]
<1>1. e(<<"store", 0>>) = S
  OBVIOUS
<1>2. ASSUME NEW t \in Threads PROVE e(<<"buffer", t>>) = B[t] /\ e(<<"freed", t>>) = F[t]
  OBVIOUS
<1>3. ASSUME NEW x \in K PROVE e(<<"use", x>>) = U[x]
  OBVIOUS
<1>4. PICK T : T = Table(S, B, F, U)
  OBVIOUS
<1>5. T = [c \in Slots(K) |-> e(c)]
  BY <1>4 DEF Table
<1> HIDE DEF e
<1>6. ASSUME NEW c \in Slots(K) PROVE e(c) \in Seq(Nat)
  <2>1. CASE c = <<"store", 0>>
    BY <1>1, <2>1
  <2>2. ASSUME NEW t \in Threads, c = <<"buffer", t>> \/ c = <<"freed", t>> PROVE e(c) \in Seq(Nat)
    BY <1>2, <2>2
  <2>3. ASSUME NEW x \in K, c = <<"use", x>> PROVE e(c) \in Seq(Nat)
    BY <1>3, <2>3
  <2> QED
    BY <2>1, <2>2, <2>3, SlotsAre
<1>7. T \in Tables(Slots(K))
  BY <1>5, <1>6 DEF Tables
<1>8. T[<<"store", 0>>] = S
  BY <1>1, <1>5, SlotsAre
<1>9. ASSUME NEW t \in Threads PROVE T[<<"buffer", t>>] = B[t] /\ T[<<"freed", t>>] = F[t]
  BY <1>2, <1>5, SlotsAre
<1>10. ASSUME NEW x \in K PROVE T[<<"use", x>>] = U[x]
  BY <1>3, <1>5, SlotsAre
<1> QED
  BY <1>4, <1>7, <1>8, <1>9, <1>10 DEF Reads

(* Tables that differ in two slots only. *)
LEMMA TableWith2 ==
  ASSUME NEW K, NEW T, NEW S, NEW B, NEW F, NEW U, Reads(T, K, S, B, F, U),
         NEW G, NEW Z, NEW A, NEW E, NEW V, Reads(G, K, Z, A, E, V),
         NEW c \in Slots(K), NEW d \in Slots(K),
         Z = S \/ <<"store", 0>> \in {c, d},
         \A t \in Threads : A[t] = B[t] \/ <<"buffer", t>> \in {c, d},
         \A t \in Threads : E[t] = F[t] \/ <<"freed", t>> \in {c, d},
         \A x \in K : V[x] = U[x] \/ <<"use", x>> \in {c, d}
  PROVE  With2(Slots(K), T, G, c, G[c], d, G[d])
<1>1. ASSUME NEW e \in Slots(K), e # c, e # d PROVE G[e] = T[e]
  <2>1. CASE e = <<"store", 0>>
    BY <1>1, <2>1 DEF Reads
  <2>2. ASSUME NEW t \in Threads, e = <<"buffer", t>> PROVE G[e] = T[e]
    BY <1>1, <2>2 DEF Reads
  <2>3. ASSUME NEW t \in Threads, e = <<"freed", t>> PROVE G[e] = T[e]
    BY <1>1, <2>3 DEF Reads
  <2>4. ASSUME NEW x \in K, e = <<"use", x>> PROVE G[e] = T[e]
    BY <1>1, <2>4 DEF Reads
  <2> QED
    BY <2>1, <2>2, <2>3, <2>4, SlotsAre
<1> QED
  BY <1>1 DEF With2, Reads

LEMMA TableWith1 ==
  ASSUME NEW C, NEW f, NEW g, NEW c, NEW s, With2(C, f, g, c, s, c, s)
  PROVE  With1(C, f, g, c, s)
BY DEF With1, With2

(* A slot more that is empty. *)
LEMMA EmptySlot ==
  ASSUME NEW S, NEW B, NEW F, NEW K, NEW T, NEW U, Reads(T, K, S, B, F, U),
         NEW M, K \subseteq M, NEW G, NEW V, Reads(G, M, S, B, F, V),
         \A x \in M : V[x] = IF x \in K THEN U[x] ELSE <<>>
  PROVE  Objects(G) = Objects(T) /\ (Separate(T) => Separate(G))
<1>0. T \in Tables(Slots(K)) /\ G \in Tables(Slots(M))
  BY DEF Reads
<1>1. ASSUME NEW c \in Slots(K) PROVE c \in Slots(M) /\ G[c] = T[c]
  <2>1. CASE c = <<"store", 0>>
    BY <2>1, SlotsAre DEF Reads
  <2>2. ASSUME NEW t \in Threads, c = <<"buffer", t>> \/ c = <<"freed", t>>
        PROVE c \in Slots(M) /\ G[c] = T[c]
    <3>1. c \in Slots(M)
      BY <2>2, SlotsAre
    <3>2. /\ G[<<"buffer", t>>] = B[t] /\ T[<<"buffer", t>>] = B[t]
          /\ G[<<"freed", t>>] = F[t] /\ T[<<"freed", t>>] = F[t]
      BY DEF Reads
    <3> QED
      BY <2>2, <3>1, <3>2
  <2>3. ASSUME NEW x \in K, c = <<"use", x>> PROVE c \in Slots(M) /\ G[c] = T[c]
    <3>1. x \in M /\ c \in Slots(M)
      BY <2>3, SlotsAre
    <3> QED
      BY <2>3, <3>1 DEF Reads
  <2> QED
    BY <2>1, <2>2, <2>3, SlotsAre
<1>4. ASSUME NEW c \in Slots(M), c \notin Slots(K) PROVE G[c] = <<>>
  <2>1. c # <<"store", 0>> /\ \A t \in Threads : c # <<"buffer", t>> /\ c # <<"freed", t>>
    BY <1>4, SlotsAre
  <2>2. PICK x \in M : c = <<"use", x>>
    BY <2>1, SlotsAre
  <2>3. x \notin K
    BY <1>4, <2>2, SlotsAre
  <2> QED
    BY <2>2, <2>3 DEF Reads
<1>5. ASSUME NEW c \in Slots(M), NEW i \in 1..Len(G[c]) PROVE c \in Slots(K) /\ i \in 1..Len(T[c])
  <2>1. c \in Slots(K)
    <3>1. ASSUME c \notin Slots(K) PROVE FALSE
      BY <1>4, <1>5, <3>1
    <3> QED
      BY <3>1
  <2> QED
    BY <1>1, <1>5, <2>1
<1>6. ASSUME NEW x, x \in Objects(G) PROVE x \in Objects(T)
  <2>1. \E c \in Slots(M) : \E i \in 1..Len(G[c]) : G[c][i] = x
    BY <1>0, <1>6, PlaceOf
  <2> PICK c \in Slots(M) : \E i \in 1..Len(G[c]) : G[c][i] = x
    BY <2>1
  <2>2. PICK i \in 1..Len(G[c]) : G[c][i] = x
    BY Zenon
  <2>3. c \in Slots(K) /\ i \in 1..Len(T[c]) /\ T[c][i] = x
    BY <1>1, <1>5, <2>2
  <2> QED
    BY <1>0, <2>3, IsObject
<1>7. ASSUME NEW x, x \in Objects(T) PROVE x \in Objects(G)
  <2>1. \E c \in Slots(K) : \E i \in 1..Len(T[c]) : T[c][i] = x
    BY <1>0, <1>7, PlaceOf
  <2> PICK c \in Slots(K) : \E i \in 1..Len(T[c]) : T[c][i] = x
    BY <2>1
  <2>2. PICK i \in 1..Len(T[c]) : T[c][i] = x
    BY Zenon
  <2>3. c \in Slots(M) /\ i \in 1..Len(G[c]) /\ G[c][i] = x
    BY <1>1, <2>2
  <2> QED
    BY <1>0, <2>3, IsObject
<1>8. ASSUME Separate(T) PROVE Separate(G)
  <2>1. DOMAIN T = Slots(K) /\ DOMAIN G = Slots(M)
    BY <1>0 DEF Tables
  <2>2. \A c \in Slots(M) : \A i \in 1..Len(G[c]) : c \in Slots(K) /\ i \in 1..Len(T[c]) /\ G[c][i] = T[c][i]
    BY <1>1, <1>5
  <2>3. SUFFICES ASSUME NEW c \in Slots(M), NEW d \in Slots(M), NEW i \in 1..Len(G[c]), NEW j \in 1..Len(G[d]),
                      G[c][i] = G[d][j]
               PROVE  c = d /\ i = j
    BY <2>1 DEF Separate
  <2>4. c \in Slots(K) /\ d \in Slots(K) /\ i \in 1..Len(T[c]) /\ j \in 1..Len(T[d]) /\ T[c][i] = T[d][j]
    BY <2>2, <2>3
  <2> QED
    BY <1>0, <1>8, <2>4, SeparateAt
<1> QED
  BY <1>6, <1>7, <1>8

-----------------------------------------------------------------------------
(* What the steps do to a table, sequence by sequence: the objects that go *)
(* in, move or are gone.                                                   *)

LEMMA AddUse ==
  ASSUME NEW K, NEW T, NEW S, NEW B, NEW F, NEW U, Reads(T, K, S, B, F, U),
         NEW G, NEW V, Reads(G, K, S, B, F, V), Separate(T),
         NEW c \in K, NEW x \in Nat, x \notin Objects(T),
         V[c] = Append(U[c], x), \A d \in K : d # c => V[d] = U[d]
  PROVE  Separate(G) /\ Objects(G) = Objects(T) \cup {x}
<1> PICK e \in Slots(K) : e = <<"use", c>>
  BY SlotsAre
<1>1. With2(Slots(K), T, G, e, G[e], e, G[e])
  BY TableWith2
<1>2. With1(Slots(K), T, G, e, G[e])
  BY <1>1, TableWith1
<1>3. G[e] = Append(T[e], x) /\ T \in Tables(Slots(K))
  BY DEF Reads
<1> QED
  BY <1>2, <1>3, PutAtEnd

LEMMA AddFreed ==
  ASSUME NEW K, NEW T, NEW S, NEW B, NEW F, NEW U, Reads(T, K, S, B, F, U),
         NEW G, NEW E, Reads(G, K, S, B, E, U), Separate(T),
         NEW t \in Threads, NEW x \in Nat, x \notin Objects(T),
         E[t] = Append(F[t], x), \A u \in Threads : u # t => E[u] = F[u]
  PROVE  Separate(G) /\ Objects(G) = Objects(T) \cup {x}
<1> PICK e \in Slots(K) : e = <<"freed", t>>
  BY SlotsAre
<1>1. With2(Slots(K), T, G, e, G[e], e, G[e])
  BY TableWith2
<1>2. With1(Slots(K), T, G, e, G[e])
  BY <1>1, TableWith1
<1>3. G[e] = Append(T[e], x) /\ T \in Tables(Slots(K))
  BY DEF Reads
<1> QED
  BY <1>2, <1>3, PutAtEnd

LEMMA TakeUse ==
  ASSUME NEW K, NEW T, NEW S, NEW B, NEW F, NEW U, Reads(T, K, S, B, F, U),
         NEW G, NEW V, Reads(G, K, S, B, F, V), Separate(T),
         NEW c \in K, NEW i \in 1..Len(U[c]),
         V[c] = RemoveAt(U[c], i), \A d \in K : d # c => V[d] = U[d]
  PROVE  Without(Slots(K), T, G, {U[c][i]})
<1> PICK e \in Slots(K) : e = <<"use", c>>
  BY SlotsAre
<1>1. With2(Slots(K), T, G, e, G[e], e, G[e])
  BY TableWith2
<1>2. With1(Slots(K), T, G, e, G[e])
  BY <1>1, TableWith1
<1>3. G[e] = V[c] /\ T[e] = U[c] /\ T \in Tables(Slots(K))
  BY DEF Reads
<1>4. G[e] = RemoveAt(T[e], i) /\ i \in 1..Len(T[e])
  BY <1>3
<1>5. Without(Slots(K), T, G, {T[e][i]})
  BY <1>2, <1>3, <1>4, TakeOut
<1> QED
  BY <1>3, <1>5

LEMMA KeepBuffer ==
  ASSUME NEW K, NEW T, NEW S, NEW B, NEW F, NEW U, Reads(T, K, S, B, F, U),
         NEW G, NEW A, Reads(G, K, S, A, F, U), Separate(T),
         NEW t \in Threads, NEW a \in Nat \ {0}, NEW z \in Nat, z <= Len(B[t]), a <= z + 1,
         A[t] = SubSeq(B[t], a, z), \A u \in Threads : u # t => A[u] = B[u]
  PROVE  Without(Slots(K), T, G, Entries(B[t], Int \ a..z))
<1> PICK e \in Slots(K) : e = <<"buffer", t>>
  BY SlotsAre
<1>1. With2(Slots(K), T, G, e, G[e], e, G[e])
  BY TableWith2
<1>2. With1(Slots(K), T, G, e, G[e])
  BY <1>1, TableWith1
<1>3. G[e] = A[t] /\ T[e] = B[t] /\ T \in Tables(Slots(K))
  BY DEF Reads
<1>4. G[e] = SubSeq(T[e], a, z) /\ z <= Len(T[e])
  BY <1>3
<1>5. Without(Slots(K), T, G, Entries(T[e], Int \ a..z))
  BY <1>2, <1>3, <1>4, KeepPart
<1> QED
  BY <1>3, <1>5

LEMMA KeepStore ==
  ASSUME NEW K, NEW T, NEW S, NEW B, NEW F, NEW U, Reads(T, K, S, B, F, U),
         NEW G, NEW Z, Reads(G, K, Z, B, F, U), Separate(T),
         NEW a \in Nat \ {0}, NEW z \in Nat, z <= Len(S), a <= z + 1, Z = SubSeq(S, a, z)
  PROVE  Without(Slots(K), T, G, Entries(S, Int \ a..z))
<1> PICK e \in Slots(K) : e = <<"store", 0>>
  BY SlotsAre
<1>1. With2(Slots(K), T, G, e, G[e], e, G[e])
  BY TableWith2
<1>2. With1(Slots(K), T, G, e, G[e])
  BY <1>1, TableWith1
<1>3. G[e] = Z /\ T[e] = S /\ T \in Tables(Slots(K))
  BY DEF Reads
<1>4. G[e] = SubSeq(T[e], a, z) /\ z <= Len(T[e])
  BY <1>3
<1>5. Without(Slots(K), T, G, Entries(T[e], Int \ a..z))
  BY <1>2, <1>3, <1>4, KeepPart
<1> QED
  BY <1>3, <1>5

LEMMA KeepFreed ==
  ASSUME NEW K, NEW T, NEW S, NEW B, NEW F, NEW U, Reads(T, K, S, B, F, U),
         NEW G, NEW E, Reads(G, K, S, B, E, U), Separate(T),
         NEW t \in Threads, NEW a \in Nat \ {0}, NEW z \in Nat, z <= Len(F[t]), a <= z + 1,
         E[t] = SubSeq(F[t], a, z), \A u \in Threads : u # t => E[u] = F[u]
  PROVE  Without(Slots(K), T, G, Entries(F[t], Int \ a..z))
<1> PICK e \in Slots(K) : e = <<"freed", t>>
  BY SlotsAre
<1>1. With2(Slots(K), T, G, e, G[e], e, G[e])
  BY TableWith2
<1>2. With1(Slots(K), T, G, e, G[e])
  BY <1>1, TableWith1
<1>3. G[e] = E[t] /\ T[e] = F[t] /\ T \in Tables(Slots(K))
  BY DEF Reads
<1>4. G[e] = SubSeq(T[e], a, z) /\ z <= Len(T[e])
  BY <1>3
<1>5. Without(Slots(K), T, G, Entries(T[e], Int \ a..z))
  BY <1>2, <1>3, <1>4, KeepPart
<1> QED
  BY <1>3, <1>5

(* A refill: what comes after entry n stays in the store. *)
LEMMA StoreToBuffer ==
  ASSUME NEW K, NEW T, NEW S, NEW B, NEW F, NEW U, Reads(T, K, S, B, F, U),
         NEW G, NEW Z, NEW A, Reads(G, K, Z, A, F, U), Separate(T),
         NEW t \in Threads, NEW a, NEW z, NEW u, NEW v, Cut(S, a, z, u, v, Z, B[t], A[t]),
         \A w \in Threads : w # t => A[w] = B[w]
  PROVE  Without(Slots(K), T, G, Dropped(S, a, z, u, v))
<1> PICK c \in Slots(K) : c = <<"store", 0>>
  BY SlotsAre
<1> PICK d \in Slots(K) : d = <<"buffer", t>>
  BY SlotsAre
<1>1. With2(Slots(K), T, G, c, G[c], d, G[d]) /\ c # d
  BY TableWith2
<1>2. G[c] = Z /\ T[c] = S /\ T \in Tables(Slots(K)) /\ G[d] = A[t] /\ T[d] = B[t]
  BY DEF Reads
<1>3. With2(Slots(K), T, G, c, SubSeq(T[c], a, z), d, T[d] \o SubSeq(T[c], u, v))
  BY <1>1, <1>2 DEF Cut
<1>4. Cut(T[c], a, z, u, v, G[c], T[d], G[d])
  BY <1>2
<1>5. Without(Slots(K), T, G, Dropped(T[c], a, z, u, v))
  BY <1>1, <1>2, <1>3, <1>4, MovePart DEF Cut
<1> QED
  BY <1>2, <1>5

(* What was collected goes back. *)
LEMMA FreedToStore ==
  ASSUME NEW K, NEW T, NEW S, NEW B, NEW F, NEW U, Reads(T, K, S, B, F, U),
         NEW G, NEW Z, NEW E, Reads(G, K, Z, B, E, U), Separate(T),
         NEW t \in Threads, NEW a, NEW z, NEW u, NEW v, Cut(F[t], a, z, u, v, E[t], S, Z),
         \A w \in Threads : w # t => E[w] = F[w]
  PROVE  Without(Slots(K), T, G, Dropped(F[t], a, z, u, v))
<1> PICK c \in Slots(K) : c = <<"freed", t>>
  BY SlotsAre
<1> PICK d \in Slots(K) : d = <<"store", 0>>
  BY SlotsAre
<1>1. With2(Slots(K), T, G, c, G[c], d, G[d]) /\ c # d
  BY TableWith2
<1>2. G[d] = Z /\ T[d] = S /\ T \in Tables(Slots(K)) /\ G[c] = E[t] /\ T[c] = F[t]
  BY DEF Reads
<1>3. With2(Slots(K), T, G, c, SubSeq(T[c], a, z), d, T[d] \o SubSeq(T[c], u, v))
  BY <1>1, <1>2 DEF Cut
<1>4. Cut(T[c], a, z, u, v, G[c], T[d], G[d])
  BY <1>2
<1>5. Without(Slots(K), T, G, Dropped(T[c], a, z, u, v))
  BY <1>1, <1>2, <1>3, <1>4, MovePart DEF Cut
<1> QED
  BY <1>2, <1>5

(* What was in use is collected. *)
LEMMA UseToFreed ==
  ASSUME NEW K, NEW T, NEW S, NEW B, NEW F, NEW U, Reads(T, K, S, B, F, U),
         NEW G, NEW E, NEW V, Reads(G, K, S, B, E, V), Separate(T),
         NEW t \in Threads, NEW n \in K,
         NEW a, NEW z, NEW u, NEW v, Cut(U[n], a, z, u, v, V[n], F[t], E[t]),
         \A w \in Threads : w # t => E[w] = F[w],
         \A w \in K : w # n => V[w] = U[w]
  PROVE  Without(Slots(K), T, G, Dropped(U[n], a, z, u, v))
<1> PICK c \in Slots(K) : c = <<"use", n>>
  BY SlotsAre
<1> PICK d \in Slots(K) : d = <<"freed", t>>
  BY SlotsAre
<1>1. With2(Slots(K), T, G, c, G[c], d, G[d]) /\ c # d
  BY TableWith2
<1>2. G[c] = V[n] /\ T[c] = U[n] /\ T \in Tables(Slots(K)) /\ G[d] = E[t] /\ T[d] = F[t]
  BY DEF Reads
<1>3. With2(Slots(K), T, G, c, SubSeq(T[c], a, z), d, T[d] \o SubSeq(T[c], u, v))
  BY <1>1, <1>2 DEF Cut
<1>4. Cut(T[c], a, z, u, v, G[c], T[d], G[d])
  BY <1>2
<1>5. Without(Slots(K), T, G, Dropped(T[c], a, z, u, v))
  BY <1>1, <1>2, <1>3, <1>4, MovePart DEF Cut
<1> QED
  BY <1>2, <1>5

-----------------------------------------------------------------------------
(* What an allocation leaves of a buffer and of a store. *)

(* The last entry of what was left has been handed out. *)
LEMMA LeftAfterOne ==
  ASSUME NEW s \in Seq(Nat), NEW i \in Nat \ {0}, i + 2 <= Len(s)
  PROVE  /\ SubSeq(s, 2, i + 1) \in Seq(Nat) /\ Len(SubSeq(s, 2, i + 1)) = i
         /\ SubSeq(s, 2, i) = SubSeq(SubSeq(s, 2, i + 1), 1, i - 1)
         /\ Entries(SubSeq(s, 2, i + 1), Int \ 1..(i - 1)) = {s[i + 1]}
<1>1. /\ SubSeq(s, 2, i + 1) \in Seq(Nat) /\ Len(SubSeq(s, 2, i + 1)) = i
      /\ \A j \in 1..i : SubSeq(s, 2, i + 1)[j] = s[j + 1]
  <2>1. Len(s) \in Nat /\ i + 1 \in Nat /\ 2 \in Nat \ {0} /\ i + 1 <= Len(s) /\ 2 <= (i + 1) + 1
    OBVIOUS
  <2>2. (i + 1) - 2 + 1 = i /\ \A j \in 1..i : j + 2 - 1 = j + 1
    OBVIOUS
  <2> QED
    BY <2>1, <2>2, Part
<1> PICK q \in Seq(Nat) : q = SubSeq(s, 2, i + 1)
  BY <1>1
<1>2. Len(q) = i /\ \A j \in 1..i : q[j] = s[j + 1]
  BY <1>1
<1>3. /\ SubSeq(s, 2, i) \in Seq(Nat) /\ Len(SubSeq(s, 2, i)) = i - 1
      /\ \A j \in 1..(i - 1) : SubSeq(s, 2, i)[j] = s[j + 1]
  <2>1. Len(s) \in Nat /\ i \in Nat /\ 2 \in Nat \ {0} /\ i <= Len(s) /\ 2 <= i + 1
    OBVIOUS
  <2>2. i - 2 + 1 = i - 1 /\ \A j \in 1..(i - 1) : j + 2 - 1 = j + 1
    OBVIOUS
  <2> QED
    BY <2>1, <2>2, Part
<1>4. /\ SubSeq(q, 1, i - 1) \in Seq(Nat) /\ Len(SubSeq(q, 1, i - 1)) = i - 1
      /\ \A j \in 1..(i - 1) : SubSeq(q, 1, i - 1)[j] = q[j]
  <2>1. i - 1 \in Nat /\ 1 \in Nat \ {0} /\ i - 1 <= Len(q) /\ 1 <= (i - 1) + 1
    BY <1>2
  <2>2. (i - 1) - 1 + 1 = i - 1 /\ \A j \in 1..(i - 1) : j + 1 - 1 = j
    OBVIOUS
  <2> QED
    BY <2>1, <2>2, Part
<1>5. SubSeq(s, 2, i) = SubSeq(q, 1, i - 1)
  <2>1. \A j \in 1..(i - 1) : q[j] = s[j + 1]
    BY <1>2
  <2> QED
    BY <1>3, <1>4, <2>1, SeqEqual
<1>6. (Int \ 1..(i - 1)) \cap 1..Len(q) = {i}
  BY <1>2
<1>7. Entries(q, Int \ 1..(i - 1)) = {s[i + 1]}
  BY <1>2, <1>6 DEF Entries
<1> QED
  BY <1>1, <1>5, <1>7

(* After a refill of n > 1 the entries 2..n-1 are left. *)
LEMMA LeftAfterRefill ==
  ASSUME NEW s \in Seq(Nat), NEW n \in Nat, 1 < n, n <= Len(s)
  PROVE  /\ SubSeq(SubSeq(s, 1, n), 2, n - 1) = SubSeq(s, 2, n - 1)
         /\ Dropped(s, n + 1, Len(s), 2, n - 1) = {s[1], s[n]}
<1>1. /\ SubSeq(s, 1, n) \in Seq(Nat) /\ Len(SubSeq(s, 1, n)) = n
      /\ \A j \in 1..n : SubSeq(s, 1, n)[j] = s[j]
  <2>1. Len(s) \in Nat /\ 1 \in Nat \ {0} /\ 1 <= n + 1
    OBVIOUS
  <2>2. n - 1 + 1 = n /\ \A j \in 1..n : j + 1 - 1 = j
    OBVIOUS
  <2> QED
    BY <2>1, <2>2, Part
<1> PICK q \in Seq(Nat) : q = SubSeq(s, 1, n)
  BY <1>1
<1>2. Len(q) = n /\ \A j \in 1..n : q[j] = s[j]
  BY <1>1
<1>3. /\ SubSeq(s, 2, n - 1) \in Seq(Nat) /\ Len(SubSeq(s, 2, n - 1)) = n - 2
      /\ \A j \in 1..(n - 2) : SubSeq(s, 2, n - 1)[j] = s[j + 1]
  <2>1. Len(s) \in Nat /\ n - 1 \in Nat /\ 2 \in Nat \ {0} /\ n - 1 <= Len(s) /\ 2 <= (n - 1) + 1
    OBVIOUS
  <2>2. (n - 1) - 2 + 1 = n - 2 /\ \A j \in 1..(n - 2) : j + 2 - 1 = j + 1
    OBVIOUS
  <2> QED
    BY <2>1, <2>2, Part
<1>4. /\ SubSeq(q, 2, n - 1) \in Seq(Nat) /\ Len(SubSeq(q, 2, n - 1)) = n - 2
      /\ \A j \in 1..(n - 2) : SubSeq(q, 2, n - 1)[j] = q[j + 1]
  <2>1. Len(q) \in Nat /\ n - 1 \in Nat /\ 2 \in Nat \ {0} /\ n - 1 <= Len(q) /\ 2 <= (n - 1) + 1
    BY <1>2
  <2>2. (n - 1) - 2 + 1 = n - 2 /\ \A j \in 1..(n - 2) : j + 2 - 1 = j + 1
    OBVIOUS
  <2> QED
    BY <2>1, <2>2, Part
<1>5. SubSeq(q, 2, n - 1) = SubSeq(s, 2, n - 1)
  <2>1. \A j \in 1..(n - 2) : q[j + 1] = s[j + 1]
    BY <1>2
  <2> QED
    BY <1>3, <1>4, <2>1, SeqEqual
<1>6. (Int \ ((n + 1)..Len(s) \cup 2..(n - 1))) \cap 1..Len(s) = {1, n}
  OBVIOUS
<1>7. Dropped(s, n + 1, Len(s), 2, n - 1) = {s[1], s[n]}
  BY <1>6 DEF Entries, Dropped
<1> QED
  BY <1>5, <1>7

(* After a refill of one object nothing is left. *)
LEMMA LeftAfterSingle ==
  ASSUME NEW s \in Seq(Nat), 1 <= Len(s)
  PROVE  Entries(s, Int \ 2..Len(s)) = {s[1]}
<1>1. (Int \ 2..Len(s)) \cap 1..Len(s) = {1}
  OBVIOUS
<1> QED
  BY <1>1 DEF Entries

LEMMA NoneLeft ==
  ASSUME NEW s \in Seq(Nat), NEW i \in Int, i <= 0
  PROVE  SubSeq(s, 2, i + 1) = <<>>
BY SubSeqProperties

-----------------------------------------------------------------------------
(* The table of a state, and the kinds that a step leaves as they were. *)

LeftsTyped == \A k \in Kinds : LeftOf(k) \in [Threads -> Seq(Nat)]

LEMMA LeftTyped ==
  Windows => LeftsTyped
<1> SUFFICES ASSUME Windows, NEW k \in Kinds PROVE LeftOf(k) \in [Threads -> Seq(Nat)]
  BY DEF LeftsTyped
<1>1. ASSUME NEW t \in Threads PROVE SubSeq(buffer[t][k], 2, index[t][k] + 1) \in Seq(Nat)
  <2>1. /\ buffer[t][k] \in Seq(Nat) /\ index[t][k] \in Int
        /\ index[t][k] <= 0 \/ index[t][k] + 2 <= Len(buffer[t][k])
    BY DEF Windows
  <2> PICK s \in Seq(Nat) : s = buffer[t][k]
    BY <2>1
  <2> PICK i \in Int : i = index[t][k]
    BY <2>1
  <2>2. i <= 0 \/ i + 2 <= Len(s)
    BY <2>1
  <2>3. ASSUME NEW j \in 2..(i + 1) PROVE s[j] \in Nat
    <3>1. j \in 1..Len(s)
      BY <2>2, <2>3
    <3> QED
      BY <3>1, ElementOfSeq
  <2>4. SubSeq(s, 2, i + 1) \in Seq(Nat)
    BY <2>3, SubSeqProperties
  <2> QED
    BY <2>4
<1> QED
  BY <1>1 DEF LeftOf

LEMMA UsesTyped ==
  ASSUME TypeOK, NEW k \in Kinds
  PROVE  UsesOf(k) \in [DOMAIN UsesOf(k) -> Seq(Nat)]
<1>1. CASE k = "bnet"
  BY <1>1 DEF UsesOf, TypeOK
<1>2. CASE k = "node"
  BY <1>2 DEF UsesOf
<1>3. CASE k = "appender"
  BY <1>3 DEF UsesOf, TypeOK
<1> QED
  BY <1>1, <1>2, <1>3 DEF Kinds

TablesRead ==
  \A k \in Kinds : Reads(TableOf(k), DOMAIN UsesOf(k), store[k], LeftOf(k), FreedOf(k), UsesOf(k))

LEMMA TableReads ==
  TypeOK /\ Windows => TablesRead
<1> SUFFICES ASSUME TypeOK, Windows, NEW k \in Kinds
             PROVE  Reads(TableOf(k), DOMAIN UsesOf(k), store[k], LeftOf(k), FreedOf(k), UsesOf(k))
  BY DEF TablesRead
<1>1. store[k] \in Seq(Nat) /\ FreedOf(k) \in [Threads -> Seq(Nat)]
  BY DEF TypeOK, FreedOf
<1>2. LeftOf(k) \in [Threads -> Seq(Nat)]
  BY LeftTyped DEF LeftsTyped
<1>3. UsesOf(k) \in [DOMAIN UsesOf(k) -> Seq(Nat)]
  BY UsesTyped
<1> HIDE DEF Kinds
<1> QED
  BY <1>1, <1>2, <1>3, TableIs DEF TableOf

SameKind(k) ==
  /\ store'[k] = store[k] /\ made'[k] = made[k]
  /\ \A t \in Threads : buffer'[t][k] = buffer[t][k] /\ index'[t][k] = index[t][k]

LEMMA SameTable ==
  ASSUME NEW k \in Kinds, SameKind(k),
         \A t \in Threads : freed'[t][k] = freed[t][k], UsesOf(k)' = UsesOf(k)
  PROVE  TableOf(k)' = TableOf(k)
<1>1. LeftOf(k)' = LeftOf(k) /\ FreedOf(k)' = FreedOf(k) /\ store'[k] = store[k]
  BY DEF LeftOf, FreedOf, SameKind
<1> QED
  BY <1>1 DEF TableOf

LEMMA MinOf ==
  ASSUME NEW a \in Nat, NEW b \in Nat
  PROVE  /\ Min({a, b}) \in {a, b}
         /\ Min({a, b}) <= a /\ Min({a, b}) <= b
<1>1. \E m \in {a, b} : \A y \in {a, b} : m <= y
  OBVIOUS
<1>2. \E m : m = Min({a, b}) /\ m \in {a, b} /\ \A y \in {a, b} : m <= y
  BY <1>1 DEF Min
<1> QED
  BY <1>2

-----------------------------------------------------------------------------
(* An allocation takes object x out of what is to be had of kind k: table  *)
(* G is the one that is left, before x is put to use.                      *)
Takes(k, x, G) ==
  /\ Reads(G, DOMAIN UsesOf(k), store'[k], LeftOf(k)', FreedOf(k)', UsesOf(k))
  /\ Separate(G) /\ x \notin Objects(G) /\ x \in 1..made'[k]
  /\ \A y \in Objects(G) : y \in Objects(TableOf(k))
  /\ \A y \in Objects(TableOf(k)) : y \in Objects(G) \/ y = x \/ y \in lost'[k]
  /\ \A y \in 1..made'[k] : y \in 1..made[k] \/ y = x

(* It touches no other kind, and gives no object back. *)
AllocFrame(t, k, x) ==
  /\ store' \in [Kinds -> Seq(Nat)] /\ buffer' \in [Threads -> [Kinds -> Seq(Nat)]]
  /\ index' \in [Threads -> [Kinds -> Int]] /\ made' \in [Kinds -> Nat]
  /\ lost' \in [Kinds -> SUBSET Nat]
  /\ \A j \in Kinds : j # k => SameKind(j)
  /\ \A j \in Kinds : made[j] <= made'[j] /\ lost[j] \subseteq lost'[j]
  /\ \A u \in Threads, j \in Kinds : index'[u][j] <= 0 \/ index'[u][j] + 2 <= Len(buffer'[u][j])
  /\ \A j \in Kinds : \A y : Ready(j, y)' => Ready(j, y)
  /\ Ready(k, x) \/ x = made[k] + 1

LEMMA BufferFrame ==
  ASSUME TypeOK, Placed, NEW t \in Threads, NEW k \in Kinds, NEW x, FromBuffer(t, k, x)
  PROVE  AllocFrame(t, k, x)
<1>1. /\ index[t][k] > 0 /\ x = buffer[t][k][index[t][k] + 1]
      /\ index' = [index EXCEPT ![t][k] = @ - 1]
      /\ store' = store /\ made' = made /\ buffer' = buffer /\ lost' = lost
  BY DEF FromBuffer
<1>2. /\ made \in [Kinds -> Nat] /\ store \in [Kinds -> Seq(Nat)]
      /\ buffer \in [Threads -> [Kinds -> Seq(Nat)]] /\ index \in [Threads -> [Kinds -> Int]]
      /\ lost \in [Kinds -> SUBSET Nat]
  BY DEF TypeOK
<1> HIDE DEF Kinds
<1>3. /\ index' \in [Threads -> [Kinds -> Int]] /\ index'[t][k] = index[t][k] - 1
      /\ \A u \in Threads, j \in Kinds : u # t \/ j # k => index'[u][j] = index[u][j]
  BY <1>1, <1>2
<1>4. \A u \in Threads, j \in Kinds : index[u][j] <= 0 \/ index[u][j] + 2 <= Len(buffer[u][j])
  BY DEF Placed, Windows
<1>5. ASSUME NEW u \in Threads, NEW j \in Kinds
      PROVE  index'[u][j] <= 0 \/ index'[u][j] + 2 <= Len(buffer'[u][j])
  <2>1. index[u][j] \in Int /\ Len(buffer[u][j]) \in Nat
    BY <1>2
  <2>2. CASE u = t /\ j = k
    BY <1>1, <1>3, <1>4, <2>1, <2>2
  <2>3. CASE u # t \/ j # k
    BY <1>1, <1>3, <1>4, <2>3
  <2> QED
    BY <2>2, <2>3
<1>6. ASSUME NEW j \in Kinds, NEW y, Ready(j, y)' PROVE Ready(j, y)
  <2>1. CASE y \in ToSet(store'[j])
    BY <1>1, <2>1 DEF Ready
  <2>2. ASSUME NEW u \in Threads, NEW i \in 1..index'[u][j], buffer'[u][j][i + 1] = y PROVE Ready(j, y)
    <3>1. index[u][j] \in Int
      BY <1>2
    <3>2. index'[u][j] = index[u][j] \/ index'[u][j] = index[u][j] - 1
      BY <1>3
    <3>3. i \in 1..index[u][j] /\ buffer[u][j][i + 1] = y
      BY <1>1, <2>2, <3>1, <3>2
    <3> QED
      BY <3>3 DEF Ready
  <2> QED
    BY <1>6, <2>1, <2>2 DEF Ready
<1>7. Ready(k, x)
  <2>1. index[t][k] \in 1..index[t][k]
    BY <1>1, <1>2
  <2> QED
    BY <1>1, <2>1 DEF Ready
<1>8. \A j \in Kinds : j # k => SameKind(j)
  BY <1>1, <1>3 DEF SameKind
<1>9. \A j \in Kinds : made[j] <= made'[j] /\ lost[j] \subseteq lost'[j]
  BY <1>1, <1>2
<1> QED
  BY <1>1, <1>2, <1>3, <1>5, <1>6, <1>7, <1>8, <1>9 DEF AllocFrame

LEMMA ArenaFrame ==
  ASSUME TypeOK, Placed, NEW t \in Threads, NEW k \in Kinds, NEW x, FromArena(t, k, x)
  PROVE  AllocFrame(t, k, x)
<1>1. /\ x = made[k] + 1
      /\ made' = [made EXCEPT ![k] = x]
      /\ store' = store /\ index' = index /\ buffer' = buffer /\ lost' = lost
  BY DEF FromArena
<1>2. /\ made \in [Kinds -> Nat] /\ store \in [Kinds -> Seq(Nat)]
      /\ buffer \in [Threads -> [Kinds -> Seq(Nat)]] /\ index \in [Threads -> [Kinds -> Int]]
      /\ lost \in [Kinds -> SUBSET Nat]
  BY DEF TypeOK
<1> HIDE DEF Kinds
<1>3. /\ made' \in [Kinds -> Nat] /\ made'[k] = made[k] + 1
      /\ \A j \in Kinds : j # k => made'[j] = made[j]
  BY <1>1, <1>2
<1>4. \A u \in Threads, j \in Kinds : index[u][j] <= 0 \/ index[u][j] + 2 <= Len(buffer[u][j])
  BY DEF Placed, Windows
<1>5. \A j \in Kinds : \A y : Ready(j, y)' => Ready(j, y)
  BY <1>1 DEF Ready
<1>6. \A j \in Kinds : j # k => SameKind(j)
  BY <1>1, <1>3 DEF SameKind
<1>7. \A j \in Kinds : made[j] <= made'[j] /\ lost[j] \subseteq lost'[j]
  BY <1>1, <1>2, <1>3
<1> QED
  BY <1>1, <1>2, <1>3, <1>4, <1>5, <1>6, <1>7 DEF AllocFrame

LEMMA Shifted ==
  ASSUME NEW n \in Nat, NEW l \in Nat, NEW i \in 1..(l - n)
  PROVE  i + n \in 1..l
OBVIOUS

(* The entries that a refill takes, and those that stay. *)
LEMMA Refill ==
  ASSUME NEW s \in Seq(Nat), NEW n \in Nat, 1 <= n, n <= Len(s)
  PROVE  /\ SubSeq(s, 1, n) \in Seq(Nat) /\ Len(SubSeq(s, 1, n)) = n
         /\ \A j \in 1..n : SubSeq(s, 1, n)[j] = s[j]
         /\ SubSeq(s, n + 1, Len(s)) \in Seq(Nat) /\ Len(SubSeq(s, n + 1, Len(s))) = Len(s) - n
         /\ \A j \in 1..(Len(s) - n) : SubSeq(s, n + 1, Len(s))[j] = s[j + n]
<1>0. Len(s) \in Nat
  OBVIOUS
<1>1. /\ SubSeq(s, 1, n) \in Seq(Nat) /\ Len(SubSeq(s, 1, n)) = n
      /\ \A j \in 1..n : SubSeq(s, 1, n)[j] = s[j]
  <2>1. 1 \in Nat \ {0} /\ 1 <= n + 1
    OBVIOUS
  <2>2. n - 1 + 1 = n /\ \A j \in 1..n : j + 1 - 1 = j
    OBVIOUS
  <2> QED
    BY <1>0, <2>1, <2>2, Part
<1> PICK l \in Nat : l = Len(s)
  BY <1>0
<1>2. /\ SubSeq(s, n + 1, l) \in Seq(Nat) /\ Len(SubSeq(s, n + 1, l)) = l - n
      /\ \A j \in 1..(l - n) : SubSeq(s, n + 1, l)[j] = s[j + n]
  <2>1. n + 1 \in Nat \ {0} /\ n + 1 <= l + 1 /\ l <= Len(s)
    OBVIOUS
  <2>2. l - (n + 1) + 1 = l - n /\ \A j \in 1..(l - n) : j + (n + 1) - 1 = j + n
    OBVIOUS
  <2> QED
    BY <2>1, <2>2, Part
<1> QED
  BY <1>1, <1>2

LEMMA StoreFrame ==
  ASSUME TypeOK, Placed, StoreAssumption,
         NEW t \in Threads, NEW k \in Kinds, NEW x, FromStore(t, k, x)
  PROVE  AllocFrame(t, k, x)
<1>2. /\ made \in [Kinds -> Nat] /\ store \in [Kinds -> Seq(Nat)]
      /\ buffer \in [Threads -> [Kinds -> Seq(Nat)]] /\ index \in [Threads -> [Kinds -> Int]]
      /\ lost \in [Kinds -> SUBSET Nat]
  BY DEF TypeOK
<1>3. TLS_BUF_SIZE[k] \in Nat
  BY DEF StoreAssumption
<1> HIDE DEF Kinds
<1> PICK s \in Seq(Nat) : s = store[k]
  BY <1>2
<1>4. Len(s) \in Nat
  OBVIOUS
<1>5. \E n \in Nat : n = Min({TLS_BUF_SIZE[k], Len(store[k])}) /\ n <= Len(s)
  BY <1>3, <1>4, MinOf
<1> PICK n \in Nat : n = Min({TLS_BUF_SIZE[k], Len(store[k])}) /\ n <= Len(s)
  BY <1>5
<1>1. /\ n > 0 /\ x = s[n]
      /\ buffer' = [buffer EXCEPT ![t][k] = SubSeq(s, 1, n)]
      /\ index' = [index EXCEPT ![t][k] = n - 2]
      /\ store' = [store EXCEPT ![k] = SubSeq(s, n + 1, Len(s))]
      /\ lost' = [lost EXCEPT ![k] = @ \cup ({s[1]} \ {x})]
      /\ made' = made
  BY DEF FromStore, AfterRefill
<1>6. 1 <= n
  BY <1>1
<1>7. /\ SubSeq(s, 1, n) \in Seq(Nat) /\ Len(SubSeq(s, 1, n)) = n
      /\ \A j \in 1..n : SubSeq(s, 1, n)[j] = s[j]
      /\ SubSeq(s, n + 1, Len(s)) \in Seq(Nat) /\ Len(SubSeq(s, n + 1, Len(s))) = Len(s) - n
      /\ \A j \in 1..(Len(s) - n) : SubSeq(s, n + 1, Len(s))[j] = s[j + n]
  BY <1>6, Refill
<1>8. /\ index' \in [Threads -> [Kinds -> Int]] /\ index'[t][k] = n - 2
      /\ \A u \in Threads, j \in Kinds : u # t \/ j # k => index'[u][j] = index[u][j]
  <2> PICK m \in Int : m = n - 2
    OBVIOUS
  <2>1. index' = [index EXCEPT ![t][k] = m]
    BY <1>1
  <2> QED
    BY <1>2, <2>1
<1>9. /\ buffer' \in [Threads -> [Kinds -> Seq(Nat)]] /\ buffer'[t][k] = SubSeq(s, 1, n)
      /\ \A u \in Threads, j \in Kinds : u # t \/ j # k => buffer'[u][j] = buffer[u][j]
  BY <1>1, <1>2, <1>7
<1>10. /\ store' \in [Kinds -> Seq(Nat)] /\ store'[k] = SubSeq(s, n + 1, Len(s))
       /\ \A j \in Kinds : j # k => store'[j] = store[j]
  BY <1>1, <1>2, <1>7
<1>11. /\ lost' \in [Kinds -> SUBSET Nat] /\ \A j \in Kinds : lost[j] \subseteq lost'[j]
  <2>1. s[1] \in Nat
    BY <1>4, <1>6
  <2> QED
    BY <1>1, <1>2, <2>1
<1>12. ASSUME NEW u \in Threads, NEW j \in Kinds
       PROVE  index'[u][j] <= 0 \/ index'[u][j] + 2 <= Len(buffer'[u][j])
  <2>0. \A v \in Threads, i \in Kinds : index[v][i] <= 0 \/ index[v][i] + 2 <= Len(buffer[v][i])
    BY DEF Placed, Windows
  <2>1. CASE u = t /\ j = k
    BY <1>7, <1>8, <1>9, <2>1
  <2>2. CASE u # t \/ j # k
    BY <1>8, <1>9, <2>0, <2>2
  <2> QED
    BY <2>1, <2>2
<1>13. ASSUME NEW i \in 1..Len(s) PROVE Ready(k, s[i])
  <2>1. i \in DOMAIN store[k]
    BY <1>13
  <2> QED
    BY <2>1 DEF Ready, ToSet
<1>14. ASSUME NEW j \in Kinds, NEW y, Ready(j, y)' PROVE Ready(j, y)
  <2>1. CASE y \in ToSet(store'[j]) /\ j = k
    <3>1. PICK i \in DOMAIN store'[k] : y = store'[k][i]
      BY <2>1 DEF ToSet
    <3>2. i \in 1..(Len(s) - n)
      BY <1>4, <1>7, <1>10, SMTT(20)
    <3>3. y = s[i + n]
      BY <1>7, <1>10, <3>1, <3>2
    <3>4. i + n \in 1..Len(s)
      BY <1>4, <3>2, Shifted
    <3> QED
      BY <1>13, <2>1, <3>3, <3>4
  <2>2. CASE y \in ToSet(store'[j]) /\ j # k
    BY <1>10, <2>2 DEF Ready
  <2>3. ASSUME NEW u \in Threads, NEW i \in 1..index'[u][j], buffer'[u][j][i + 1] = y PROVE Ready(j, y)
    <3>1. CASE u = t /\ j = k
      <4>1. i \in 1..(n - 2) /\ i + 1 \in 1..n
        BY <1>8, <2>3, <3>1
      <4>2. y = s[i + 1]
        BY <1>7, <1>9, <2>3, <3>1, <4>1
      <4>3. i + 1 \in 1..Len(s)
        BY <1>4, <4>1
      <4> QED
        BY <1>13, <3>1, <4>2, <4>3
    <3>2. CASE u # t \/ j # k
      BY <1>8, <1>9, <2>3, <3>2 DEF Ready
    <3> QED
      BY <3>1, <3>2
  <2> QED
    BY <1>14, <2>1, <2>2, <2>3 DEF Ready
<1>15. Ready(k, x)
  <2>1. n \in 1..Len(s)
    BY <1>6
  <2> QED
    BY <1>1, <1>13, <2>1
<1>16. \A j \in Kinds : j # k => SameKind(j)
  <2>1. ASSUME NEW j \in Kinds, j # k
        PROVE  /\ store'[j] = store[j] /\ made'[j] = made[j]
               /\ \A u \in Threads : buffer'[u][j] = buffer[u][j] /\ index'[u][j] = index[u][j]
    <3>1. store'[j] = store[j] /\ made'[j] = made[j]
      BY <1>1, <1>10, <2>1
    <3>2. \A u \in Threads : buffer'[u][j] = buffer[u][j]
      BY <1>9, <2>1
    <3>3. \A u \in Threads : index'[u][j] = index[u][j]
      BY <1>8, <2>1
    <3> QED
      BY <3>1, <3>2, <3>3
  <2> QED
    BY <2>1 DEF SameKind
<1>17. \A j \in Kinds : made[j] <= made'[j]
  BY <1>1, <1>2
<1>18. made' \in [Kinds -> Nat]
  BY <1>1, <1>2
<1> QED
  BY <1>8, <1>9, <1>10, <1>11, <1>12, <1>14, <1>15, <1>16, <1>17, <1>18 DEF AllocFrame

(* What each of the three ways to allocate does to the table. *)

LEMMA AllocReads ==
  ASSUME TypeOK, NEW t \in Threads, NEW k \in Kinds, NEW x, AllocFrame(t, k, x), freed' = freed
  PROVE  \E G : Reads(G, DOMAIN UsesOf(k), store'[k], LeftOf(k)', FreedOf(k)', UsesOf(k))
<1>1. Windows'
  BY DEF Windows, AllocFrame
<1>2. Windows' => LeftsTyped'
  BY LeftTyped, PTL
<1>3. (LeftOf(k))' \in [Threads -> Seq(Nat)]
  BY <1>1, <1>2 DEF LeftsTyped
<1>4. store'[k] \in Seq(Nat) /\ (FreedOf(k))' \in [Threads -> Seq(Nat)]
  BY DEF TypeOK, FreedOf, AllocFrame
<1>5. UsesOf(k) \in [DOMAIN UsesOf(k) -> Seq(Nat)]
  BY UsesTyped
<1> QED
  BY <1>3, <1>4, <1>5, TableIs

LEMMA BufferTakes ==
  ASSUME TypeOK, Placed, Distinct,
         NEW t \in Threads, NEW k \in Kinds, NEW x, FromBuffer(t, k, x), freed' = freed
  PROVE  \E G : Takes(k, x, G)
<1>1. /\ index[t][k] > 0 /\ x = buffer[t][k][index[t][k] + 1]
      /\ index' = [index EXCEPT ![t][k] = @ - 1]
      /\ store' = store /\ made' = made /\ buffer' = buffer /\ lost' = lost
  BY DEF FromBuffer
<1>2. /\ made \in [Kinds -> Nat] /\ index \in [Threads -> [Kinds -> Int]]
      /\ buffer \in [Threads -> [Kinds -> Seq(Nat)]]
  BY DEF TypeOK
<1>3. index[t][k] <= 0 \/ index[t][k] + 2 <= Len(buffer[t][k])
  BY DEF Placed, Windows
<1>4. Separate(TableOf(k)) /\ \A y \in Objects(TableOf(k)) : y \in 1..made[k]
  BY DEF Distinct, DistinctOf
<1>5. Reads(TableOf(k), DOMAIN UsesOf(k), store[k], LeftOf(k), FreedOf(k), UsesOf(k))
  BY TableReads DEF TablesRead, Placed
<1>6. AllocFrame(t, k, x)
  BY BufferFrame
<1>7. \E G : Reads(G, DOMAIN UsesOf(k), store'[k], LeftOf(k)', FreedOf(k)', UsesOf(k))
  BY <1>6, AllocReads
<1> PICK G : Reads(G, DOMAIN UsesOf(k), store'[k], LeftOf(k)', FreedOf(k)', UsesOf(k))
  BY <1>7
<1> HIDE DEF Kinds
<1>8. Reads(G, DOMAIN UsesOf(k), store[k], LeftOf(k)', FreedOf(k), UsesOf(k))
  BY <1>1 DEF FreedOf
<1> PICK s \in Seq(Nat) : s = buffer[t][k]
  BY <1>2
<1> PICK i \in Nat \ {0} : i = index[t][k]
  BY <1>1, <1>2
<1>9. i + 2 <= Len(s) /\ x = s[i + 1]
  BY <1>1, <1>3
<1>10. /\ SubSeq(s, 2, i + 1) \in Seq(Nat) /\ Len(SubSeq(s, 2, i + 1)) = i
       /\ SubSeq(s, 2, i) = SubSeq(SubSeq(s, 2, i + 1), 1, i - 1)
       /\ Entries(SubSeq(s, 2, i + 1), Int \ 1..(i - 1)) = {s[i + 1]}
  BY <1>9, LeftAfterOne
<1>11. LeftOf(k)[t] = SubSeq(s, 2, i + 1)
  BY DEF LeftOf
<1>12. (LeftOf(k)')[t] = SubSeq(s, 2, i)
  <2>1. index'[t][k] = i - 1 /\ buffer'[t][k] = s
    BY <1>1, <1>2
  <2>2. (i - 1) + 1 = i
    OBVIOUS
  <2> QED
    BY <2>1, <2>2 DEF LeftOf
<1>13. \A u \in Threads : u # t => (LeftOf(k)')[u] = LeftOf(k)[u]
  BY <1>1, <1>2 DEF LeftOf
<1>14. Without(Slots(DOMAIN UsesOf(k)), TableOf(k), G, {x})
  <2>0. PICK K, T, S, B, A, F, U : /\ K = DOMAIN UsesOf(k) /\ T = TableOf(k) /\ S = store[k]
                                   /\ B = LeftOf(k) /\ A = LeftOf(k)' /\ F = FreedOf(k) /\ U = UsesOf(k)
    BY Zenon
  <2>1. Len(B[t]) = i
    BY <2>0, <1>10, <1>11
  <2>z. PICK z \in Nat : z = i - 1
    OBVIOUS
  <2>a. PICK a \in Nat \ {0} : a = 1
    OBVIOUS
  <2>2. z <= Len(B[t]) /\ a <= z + 1
    BY <2>1, <2>a, <2>z
  <2>3. A[t] = SubSeq(B[t], a, z)
    BY <2>0, <2>a, <2>z, <1>10, <1>11, <1>12
  <2>4. \A u \in Threads : u # t => A[u] = B[u]
    BY <2>0, <1>13
  <2>5. Reads(T, K, S, B, F, U) /\ Reads(G, K, S, A, F, U) /\ Separate(T)
    BY <2>0, <1>4, <1>5, <1>8
  <2>6. Without(Slots(K), T, G, Entries(B[t], Int \ a..z))
    BY <2>2, <2>3, <2>4, <2>5, KeepBuffer
  <2> QED
    BY <2>0, <2>a, <2>z, <1>9, <1>10, <1>11, <2>6
<1>15. x \in Objects(TableOf(k)) /\ x \in 1..made'[k]
  BY <1>1, <1>4, <1>14 DEF Without
<1> QED
  BY <1>1, <1>14, <1>15 DEF Takes, Without

LEMMA ArenaTakes ==
  ASSUME TypeOK, Placed, Distinct,
         NEW t \in Threads, NEW k \in Kinds, NEW x, FromArena(t, k, x), freed' = freed
  PROVE  \E G : Takes(k, x, G)
<1>1. /\ x = made[k] + 1
      /\ made' = [made EXCEPT ![k] = x]
      /\ store' = store /\ index' = index /\ buffer' = buffer /\ lost' = lost
  BY DEF FromArena
<1>2. made \in [Kinds -> Nat]
  BY DEF TypeOK
<1>3. Separate(TableOf(k)) /\ \A y \in Objects(TableOf(k)) : y \in 1..made[k]
  BY DEF Distinct, DistinctOf
<1>4. Reads(TableOf(k), DOMAIN UsesOf(k), store[k], LeftOf(k), FreedOf(k), UsesOf(k))
  BY TableReads DEF TablesRead, Placed
<1>5. store'[k] = store[k] /\ LeftOf(k)' = LeftOf(k) /\ FreedOf(k)' = FreedOf(k)
  BY <1>1 DEF LeftOf, FreedOf
<1> HIDE DEF Kinds
<1>6. made'[k] = x /\ x \in 1..made'[k] /\ x \notin 1..made[k]
  BY <1>1, <1>2
<1>7. \A y \in 1..made'[k] : y \in 1..made[k] \/ y = x
  BY <1>1, <1>2, <1>6
<1>8. Takes(k, x, TableOf(k))
  BY <1>3, <1>4, <1>5, <1>6, <1>7 DEF Takes
<1> QED
  BY <1>8

LEMMA StoreTakes ==
  ASSUME TypeOK, Placed, Distinct, StoreAssumption,
         NEW t \in Threads, NEW k \in Kinds, NEW x, FromStore(t, k, x), freed' = freed
  PROVE  \E G : Takes(k, x, G)
<1>1. TLS_BUF_SIZE[k] \in Nat /\ store \in [Kinds -> Seq(Nat)] /\ made \in [Kinds -> Nat]
  BY DEF StoreAssumption, TypeOK
<1>2. buffer \in [Threads -> [Kinds -> Seq(Nat)]] /\ index \in [Threads -> [Kinds -> Int]]
  BY DEF TypeOK
<1>3. PICK K, T, S, B, A, F, U : /\ K = DOMAIN UsesOf(k) /\ T = TableOf(k) /\ S = store[k]
                                 /\ B = LeftOf(k) /\ A = LeftOf(k)' /\ F = FreedOf(k) /\ U = UsesOf(k)
  BY Zenon
<1>4. S \in Seq(Nat) /\ Len(S) \in Nat
  BY <1>1, <1>3
<1>5. \E n \in Nat : n = Min({TLS_BUF_SIZE[k], Len(store[k])}) /\ n <= Len(S)
  BY <1>1, <1>3, <1>4, MinOf
<1>6. PICK n \in Nat : n = Min({TLS_BUF_SIZE[k], Len(store[k])}) /\ n <= Len(S)
  BY <1>5
<1>7. /\ 1 <= n /\ x = S[n] /\ index[t][k] = 0
      /\ buffer' = [buffer EXCEPT ![t][k] = SubSeq(S, 1, n)]
      /\ index' = [index EXCEPT ![t][k] = n - 2]
      /\ store' = [store EXCEPT ![k] = SubSeq(S, n + 1, Len(S))]
      /\ lost' = [lost EXCEPT ![k] = @ \cup ({S[1]} \ {x})]
      /\ made' = made
  BY <1>3, <1>6 DEF FromStore, AfterRefill
<1>8. lost \in [Kinds -> SUBSET Nat] /\ lost'[k] = lost[k] \cup ({S[1]} \ {x})
  BY <1>7 DEF TypeOK
<1>9. Separate(T) /\ \A y \in Objects(T) : y \in 1..made[k]
  BY <1>3 DEF Distinct, DistinctOf
<1>10. Reads(T, K, S, B, F, U)
  BY <1>3, TableReads DEF TablesRead, Placed
<1>11. AllocFrame(t, k, x)
  BY StoreFrame
<1>12. \E G : Reads(G, DOMAIN UsesOf(k), store'[k], LeftOf(k)', FreedOf(k)', UsesOf(k))
  BY <1>11, AllocReads
<1>13. PICK G : Reads(G, DOMAIN UsesOf(k), store'[k], LeftOf(k)', FreedOf(k)', UsesOf(k))
  BY <1>12
<1> HIDE DEF Kinds
<1>14. PICK Z : Z = SubSeq(S, n + 1, Len(S))
  OBVIOUS
<1>15. store'[k] = Z /\ FreedOf(k)' = F
  BY <1>1, <1>3, <1>7, <1>14 DEF FreedOf
<1>16. Reads(G, K, Z, A, F, U)
  BY <1>3, <1>13, <1>15
<1>17. \A u \in Threads : u # t => A[u] = B[u]
  BY <1>2, <1>3, <1>7 DEF LeftOf
<1>18. B[t] = <<>> /\ A[t] = SubSeq(SubSeq(S, 1, n), 2, n - 1)
  <2>1. B[t] = SubSeq(buffer[t][k], 2, 0 + 1)
    BY <1>3, <1>7 DEF LeftOf
  <2>2. buffer[t][k] \in Seq(Nat)
    BY <1>2
  <2>3. B[t] = <<>>
    BY <2>1, <2>2, NoneLeft
  <2>4. A[t] = SubSeq(buffer'[t][k], 2, index'[t][k] + 1)
    BY <1>3 DEF LeftOf
  <2>5. buffer'[t][k] = SubSeq(S, 1, n) /\ index'[t][k] = n - 2
    BY <1>2, <1>7
  <2>6. (n - 2) + 1 = n - 1
    OBVIOUS
  <2> QED
    BY <2>3, <2>4, <2>5, <2>6
<1>19. Without(Slots(K), T, G, {S[1], x})
  <2>1. CASE n = 1
    <3>1. PICK l \in Nat : l = Len(S)
      BY <1>4
    <3>0. Z = SubSeq(S, 2, l)
      BY <1>14, <2>1, <3>1
    <3>2. 2 <= l + 1 /\ l <= Len(S) /\ 1 <= l
      BY <1>6, <2>1, <3>1
    <3>3. SubSeq(S, 1, 1) \in Seq(Nat)
      BY <1>4, <1>6, <1>7, <2>1, Refill
    <3>4. A[t] = SubSeq(SubSeq(S, 1, 1), 2, (-1) + 1)
      BY <1>18, <2>1
    <3>5. A[t] = <<>>
      BY <3>3, <3>4, NoneLeft
    <3>6. LeftOf(k)' = LeftOf(k)
      <4>1. \A u \in Threads : A[u] = B[u]
        BY <1>17, <1>18, <3>5
      <4>2. A = [u \in Threads |-> A[u]] /\ B = [u \in Threads |-> B[u]]
        BY <1>3 DEF LeftOf
      <4> QED
        BY <1>3, <4>1, <4>2
    <3>7. Reads(G, K, Z, B, F, U)
      BY <1>3, <1>16, <3>6
    <3>8. PICK a \in Nat \ {0} : a = 2
      OBVIOUS
    <3>9. Z = SubSeq(S, a, l) /\ a <= l + 1
      BY <3>0, <3>2, <3>8
    <3>10. Without(Slots(K), T, G, Entries(S, Int \ a..l))
      BY <1>4, <1>9, <1>10, <3>2, <3>7, <3>9, KeepStore
    <3>11. Entries(S, Int \ 2..Len(S)) = {S[1]}
      BY <1>4, <3>1, <3>2, LeftAfterSingle
    <3> QED
      BY <1>7, <2>1, <3>1, <3>8, <3>10, <3>11
  <2>2. CASE 1 < n
    <3>1. PICK l \in Nat : l = Len(S)
      BY <1>4
    <3>2. /\ SubSeq(SubSeq(S, 1, n), 2, n - 1) = SubSeq(S, 2, n - 1)
          /\ Dropped(S, n + 1, Len(S), 2, n - 1) = {S[1], S[n]}
      BY <1>4, <1>6, <2>2, LeftAfterRefill
    <3>3. PICK a \in Nat \ {0} : a = n + 1
      OBVIOUS
    <3>4. PICK u \in Nat \ {0} : u = 2
      OBVIOUS
    <3>5. PICK v \in Nat : v = n - 1
      BY <2>2
    <3>6. l <= Len(S) /\ a <= l + 1 /\ v <= Len(S) /\ u <= v + 1
      <4>1. n <= l /\ l <= Len(S)
        BY <1>6, <3>1
      <4>2. a <= l + 1 /\ v <= l /\ u <= v + 1
        BY <2>2, <3>3, <3>4, <3>5, <4>1
      <4> QED
        BY <3>1, <4>1, <4>2
    <3>7. a..l \cap u..v = {}
      BY <3>3, <3>5
    <3>8. A[t] = B[t] \o SubSeq(S, u, v)
      <4>1. SubSeq(S, u, v) \in Seq(Nat)
        BY <1>4, <3>6, Part
      <4> QED
        BY <1>18, <3>2, <3>4, <3>5, <4>1
    <3>9. Cut(S, a, l, u, v, Z, B[t], A[t])
      BY <1>14, <3>1, <3>3, <3>6, <3>7, <3>8 DEF Cut
    <3>10. Without(Slots(K), T, G, Dropped(S, a, l, u, v))
      BY <1>9, <1>10, <1>16, <1>17, <3>9, StoreToBuffer
    <3> QED
      BY <1>7, <3>1, <3>2, <3>3, <3>4, <3>5, <3>10
  <2> QED
    BY <1>7, <2>1, <2>2
<1>20. x \in Objects(T) /\ x \in 1..made'[k]
  BY <1>7, <1>9, <1>19 DEF Without
<1>21. \A y \in Objects(TableOf(k)) : y \in Objects(G) \/ y = x \/ y \in lost'[k]
  BY <1>3, <1>8, <1>19 DEF Without
<1> QED
  BY <1>3, <1>7, <1>13, <1>19, <1>20, <1>21 DEF Takes, Without

(* What allocBnet, allocNode and allocAppender have in common. *)
LEMMA AllocTakes ==
  ASSUME TypeOK, Placed, Distinct, StoreAssumption,
         NEW t \in Threads, NEW k \in Kinds, NEW x, Alloc(t, k, x)
  PROVE  /\ AllocFrame(t, k, x) /\ \E G : Takes(k, x, G)
         /\ freed' = freed /\ pc' = pc /\ at' = at
<1>1. /\ FromBuffer(t, k, x) \/ FromStore(t, k, x) \/ FromArena(t, k, x)
      /\ freed' = freed /\ pc' = pc /\ at' = at
  BY DEF Alloc
<1>2. AllocFrame(t, k, x)
  BY <1>1, BufferFrame, StoreFrame, ArenaFrame
<1>3. \E G : Takes(k, x, G)
  BY <1>1, BufferTakes, StoreTakes, ArenaTakes
<1> QED
  BY <1>1, <1>2, <1>3

-----------------------------------------------------------------------------
(* Where objects are, and where they then are not. *)

(* What a thread can be handed lies in the store or in a buffer. *)
LEMMA ReadyAt ==
  ASSUME TypeOK, Placed, NEW k \in Kinds, NEW y, Ready(k, y)
  PROVE  \E c \in {<<"store", 0>>} \cup ({"buffer"} \X Threads) :
           /\ c \in Slots(DOMAIN UsesOf(k))
           /\ \E i \in 1..Len(TableOf(k)[c]) : TableOf(k)[c][i] = y
<1>1. PICK T, K : /\ T = TableOf(k) /\ K = DOMAIN UsesOf(k)
                  /\ Reads(T, K, store[k], LeftOf(k), FreedOf(k), UsesOf(k))
  BY TableReads DEF TablesRead, Placed
<1>2. store[k] \in Seq(Nat)
  BY DEF TypeOK
<1>3. T[<<"store", 0>>] = store[k] /\ \A t \in Threads : T[<<"buffer", t>>] = LeftOf(k)[t]
  BY <1>1 DEF Reads
<1>4. \A t \in Threads, j \in Kinds : index[t][j] <= 0 \/ index[t][j] + 2 <= Len(buffer[t][j])
  BY DEF Placed, Windows
<1>5. buffer \in [Threads -> [Kinds -> Seq(Nat)]] /\ index \in [Threads -> [Kinds -> Int]]
  BY DEF TypeOK
<1> HIDE DEF Kinds
<1>6. CASE y \in ToSet(store[k])
  <2>1. PICK i \in DOMAIN store[k] : store[k][i] = y
    BY <1>6 DEF ToSet
  <2>2. i \in 1..Len(T[<<"store", 0>>]) /\ T[<<"store", 0>>][i] = y
    BY <1>2, <1>3, <2>1
  <2> QED
    BY <1>1, <2>2, SlotsAre
<1>7. ASSUME NEW t \in Threads, NEW i \in 1..index[t][k], buffer[t][k][i + 1] = y
      PROVE  i \in 1..Len(T[<<"buffer", t>>]) /\ T[<<"buffer", t>>][i] = y
  <2>1. PICK s \in Seq(Nat) : s = buffer[t][k]
    BY <1>5
  <2>2. PICK m \in Nat : m = index[t][k] /\ i \in 1..m /\ 1 <= m
    BY <1>5, <1>7
  <2>3. m + 2 <= Len(s)
    BY <1>4, <2>1, <2>2
  <2>4. /\ SubSeq(s, 2, m + 1) \in Seq(Nat) /\ Len(SubSeq(s, 2, m + 1)) = m
        /\ \A j \in 1..m : SubSeq(s, 2, m + 1)[j] = s[j + 1]
    <3>0. 1 <= m /\ Len(s) \in Nat
      BY <2>2
    <3>1. m + 1 \in Nat /\ 2 \in Nat \ {0} /\ m + 1 <= Len(s) /\ 2 <= (m + 1) + 1
      BY <2>3, <3>0
    <3>2. (m + 1) - 2 + 1 = m /\ \A j \in 1..m : j + 2 - 1 = j + 1
      OBVIOUS
    <3> QED
      BY <3>1, <3>2, Part
  <2>5. T[<<"buffer", t>>] = SubSeq(s, 2, m + 1)
    BY <1>3, <2>1, <2>2 DEF LeftOf
  <2> QED
    BY <1>7, <2>1, <2>2, <2>4, <2>5
<1>8. ASSUME NEW t \in Threads, NEW i \in 1..index[t][k], buffer[t][k][i + 1] = y
      PROVE  \E c \in {<<"store", 0>>} \cup ({"buffer"} \X Threads) :
               c \in Slots(K) /\ \E j \in 1..Len(T[c]) : T[c][j] = y
  <2>1. i \in 1..Len(T[<<"buffer", t>>]) /\ T[<<"buffer", t>>][i] = y
    BY <1>7, <1>8
  <2> QED
    BY <2>1, SlotsAre
<1> QED
  BY <1>1, <1>6, <1>8 DEF Ready

LEMMA Places ==
  ASSUME TypeOK, Placed, NEW k \in Kinds
  PROVE  /\ \A y : Ready(k, y) => y \in Objects(TableOf(k))
         /\ \A t \in Threads : \A i \in 1..Len(freed[t][k]) : freed[t][k][i] \in Objects(TableOf(k))
         /\ \A c \in DOMAIN UsesOf(k) : \A i \in 1..Len(UsesOf(k)[c]) :
              UsesOf(k)[c][i] \in Objects(TableOf(k))
<1>1. PICK T, K : /\ T = TableOf(k) /\ K = DOMAIN UsesOf(k)
                  /\ Reads(T, K, store[k], LeftOf(k), FreedOf(k), UsesOf(k))
  BY TableReads DEF TablesRead, Placed
<1>2. T \in Tables(Slots(K))
  BY <1>1 DEF Reads
<1>3. ASSUME NEW y, Ready(k, y) PROVE y \in Objects(T)
  BY <1>1, <1>2, <1>3, ReadyAt, IsObject
<1>4. ASSUME NEW t \in Threads, NEW i \in 1..Len(freed[t][k]) PROVE freed[t][k][i] \in Objects(T)
  <2>1. T[<<"freed", t>>] = freed[t][k]
    BY <1>1 DEF Reads, FreedOf
  <2>2. <<"freed", t>> \in Slots(K)
    BY SlotsAre
  <2>3. i \in 1..Len(T[<<"freed", t>>]) /\ T[<<"freed", t>>][i] = freed[t][k][i]
    BY <2>1
  <2> QED
    BY <1>2, <2>2, <2>3, IsObject
<1>5. ASSUME NEW c \in K, NEW i \in 1..Len(UsesOf(k)[c]) PROVE UsesOf(k)[c][i] \in Objects(T)
  <2>1. T[<<"use", c>>] = UsesOf(k)[c]
    BY <1>1 DEF Reads
  <2>2. <<"use", c>> \in Slots(K)
    BY SlotsAre
  <2>3. i \in 1..Len(T[<<"use", c>>]) /\ T[<<"use", c>>][i] = UsesOf(k)[c][i]
    BY <2>1
  <2> QED
    BY <1>2, <2>2, <2>3, IsObject
<1> QED
  BY <1>1, <1>3, <1>4, <1>5

LEMMA FreedIs ==
  ASSUME TypeOK, Placed, Distinct, NEW k \in Kinds, NEW t \in Threads, NEW i \in 1..Len(freed[t][k])
  PROVE  freed[t][k][i] \in 1..made[k]
<1>1. freed[t][k][i] \in Objects(TableOf(k))
  BY Places
<1> QED
  BY <1>1 DEF Distinct, DistinctOf

(* What is collected cannot be handed out, and is collected once. *)
LEMMA FreedApart ==
  ASSUME TypeOK, Placed, Distinct, NEW k \in Kinds, NEW t \in Threads, NEW i \in 1..Len(freed[t][k])
  PROVE  /\ ~Ready(k, freed[t][k][i])
         /\ \A u \in Threads : \A j \in 1..Len(freed[u][k]) :
              freed[u][k][j] = freed[t][k][i] => u = t /\ j = i
<1>1. PICK T, K : /\ T = TableOf(k) /\ K = DOMAIN UsesOf(k)
                  /\ Reads(T, K, store[k], LeftOf(k), FreedOf(k), UsesOf(k))
  BY TableReads DEF TablesRead, Placed
<1>2. T \in Tables(Slots(K)) /\ Separate(T)
  BY <1>1 DEF Reads, Distinct, DistinctOf
<1>3. \A u \in Threads : T[<<"freed", u>>] = freed[u][k] /\ <<"freed", u>> \in Slots(K)
  BY <1>1, SlotsAre DEF Reads, FreedOf
<1>4. ASSUME Ready(k, freed[t][k][i]) PROVE FALSE
  <2>1. PICK c \in {<<"store", 0>>} \cup ({"buffer"} \X Threads) :
          c \in Slots(K) /\ \E j \in 1..Len(T[c]) : T[c][j] = freed[t][k][i]
    BY <1>1, <1>4, ReadyAt
  <2>2. PICK j \in 1..Len(T[c]) : T[c][j] = freed[t][k][i]
    BY <2>1
  <2>3. <<"freed", t>> \in Slots(K) /\ i \in 1..Len(T[<<"freed", t>>])
        /\ T[c][j] = T[<<"freed", t>>][i]
    BY <1>3, <2>2
  <2>4. c = <<"freed", t>>
    BY <1>2, <2>1, <2>3, SeparateAt
  <2> QED
    BY <2>4
<1>5. ASSUME NEW u \in Threads, NEW j \in 1..Len(freed[u][k]), freed[u][k][j] = freed[t][k][i]
      PROVE  u = t /\ j = i
  <2>1. /\ <<"freed", t>> \in Slots(K) /\ i \in 1..Len(T[<<"freed", t>>])
        /\ <<"freed", u>> \in Slots(K) /\ j \in 1..Len(T[<<"freed", u>>])
        /\ T[<<"freed", u>>][j] = T[<<"freed", t>>][i]
    BY <1>3, <1>5
  <2>2. <<"freed", u>> = <<"freed", t>> /\ j = i
    BY <1>2, <2>1, SeparateAt
  <2> QED
    BY <2>2
<1> QED
  BY <1>4, <1>5

(* What is in use cannot be handed out, and is not collected. *)
LEMMA UseApart ==
  ASSUME TypeOK, Placed, Distinct, NEW k \in Kinds,
         NEW c \in DOMAIN UsesOf(k), NEW i \in 1..Len(UsesOf(k)[c])
  PROVE  /\ ~Ready(k, UsesOf(k)[c][i])
         /\ \A u \in Threads : \A j \in 1..Len(freed[u][k]) : freed[u][k][j] # UsesOf(k)[c][i]
<1>1. PICK T, K, U : /\ T = TableOf(k) /\ K = DOMAIN UsesOf(k) /\ U = UsesOf(k)
                     /\ Reads(T, K, store[k], LeftOf(k), FreedOf(k), U)
  BY TableReads DEF TablesRead, Placed
<1>2. T \in Tables(Slots(K)) /\ Separate(T)
  BY <1>1 DEF Reads, Distinct, DistinctOf
<1>3. \A u \in Threads : T[<<"freed", u>>] = freed[u][k] /\ <<"freed", u>> \in Slots(K)
  BY <1>1, SlotsAre DEF Reads, FreedOf
<1>4. PICK e \in Slots(K) : e = <<"use", c>> /\ T[e] = U[c] /\ i \in 1..Len(T[e])
  BY <1>1, SlotsAre DEF Reads
<1>5. ASSUME Ready(k, U[c][i]) PROVE FALSE
  <2>1. PICK d \in {<<"store", 0>>} \cup ({"buffer"} \X Threads) :
          d \in Slots(K) /\ \E j \in 1..Len(T[d]) : T[d][j] = U[c][i]
    BY <1>1, <1>5, ReadyAt
  <2>2. PICK j \in 1..Len(T[d]) : T[d][j] = U[c][i]
    BY <2>1
  <2>3. T[d][j] = T[e][i]
    BY <1>4, <2>2
  <2>4. d = e
    BY <1>2, <1>4, <2>1, <2>3, SeparateAt
  <2> QED
    BY <1>4, <2>4
<1>6. ASSUME NEW u \in Threads, NEW j \in 1..Len(freed[u][k]), freed[u][k][j] = U[c][i]
      PROVE  FALSE
  <2>1. /\ <<"freed", u>> \in Slots(K) /\ j \in 1..Len(T[<<"freed", u>>])
        /\ T[<<"freed", u>>][j] = T[e][i]
    BY <1>3, <1>4, <1>6
  <2>2. <<"freed", u>> = e
    BY <1>2, <1>4, <2>1, SeparateAt
  <2> QED
    BY <1>4, <2>2
<1> QED
  BY <1>1, <1>5, <1>6

-----------------------------------------------------------------------------
(* The users of a node. *)

UsersAre ==
  \A n, p : p \in Users("node", n) <=>
    \E b \in 1..made["bnet"] : \E i \in 1..Len(nodes[b]) : p = <<b, i>> /\ nodes[b][i] = n

LEMMA PairsOver ==
  ASSUME NEW D, NEW f, NEW p
  PROVE  p \in UNION {{t} \X f[t] : t \in D} <=> \E t \in D : \E i \in f[t] : p = <<t, i>>
OBVIOUS

LEMMA UserIs ==
  TypeOK => UsersAre
<1> SUFFICES ASSUME TypeOK, NEW n, NEW p
             PROVE  p \in Users("node", n) <=>
                      \E b \in 1..made["bnet"] : \E i \in 1..Len(nodes[b]) :
                        p = <<b, i>> /\ nodes[b][i] = n
  BY DEF UsersAre
<1>1. nodes \in [1..made["bnet"] -> Seq(Nat)]
  BY DEF TypeOK
<1>2. PICK f, D : D = 1..made["bnet"] /\ f = [b \in D |-> Positions(nodes[b], n)]
  OBVIOUS
<1>3. Users("node", n) = UNION {{b} \X f[b] : b \in D}
  <2>1. Users("node", n) = UNION {{b} \X Positions(nodes[b], n) : b \in D}
    BY <1>1, <1>2 DEF Users
  <2>2. \A b \in D : f[b] = Positions(nodes[b], n)
    BY <1>2
  <2> QED
    BY <2>1, <2>2
<1>4. p \in UNION {{b} \X f[b] : b \in D} <=> \E b \in D : \E i \in f[b] : p = <<b, i>>
  BY PairsOver
<1>5. ASSUME NEW b \in D, NEW i PROVE i \in f[b] <=> i \in 1..Len(nodes[b]) /\ nodes[b][i] = n
  <2>1. f[b] = Positions(nodes[b], n)
    BY <1>2
  <2>2. DOMAIN nodes[b] = 1..Len(nodes[b])
    BY <1>1, <1>2
  <2> QED
    BY <2>1, <2>2 DEF Positions
<1>6. p \in Users("node", n) <=> \E b \in D : \E i \in f[b] : p = <<b, i>>
  BY <1>3, <1>4
<1>7. (\E b \in D : \E i \in f[b] : p = <<b, i>>)
        <=> \E b \in D : \E i \in 1..Len(nodes[b]) : p = <<b, i>> /\ nodes[b][i] = n
  BY <1>5, Zenon
<1>8. D = 1..made["bnet"]
  BY <1>2
<1> QED
  BY <1>6, <1>7, <1>8, Zenon

(* Networks that are new have no nodes. *)
LEMMA UsersSame ==
  ASSUME TypeOK, TypeOK', \A b \in 1..made["bnet"] : b \in 1..made'["bnet"] /\ nodes'[b] = nodes[b],
         \A b \in 1..made'["bnet"] : b \in 1..made["bnet"] \/ nodes'[b] = <<>>
  PROVE  \A n : Users("node", n)' = Users("node", n)
<1> SUFFICES ASSUME NEW n PROVE Users("node", n)' = Users("node", n)
  OBVIOUS
<1>1. \A p : p \in Users("node", n) <=>
        \E b \in 1..made["bnet"] : \E i \in 1..Len(nodes[b]) : p = <<b, i>> /\ nodes[b][i] = n
  BY UserIs DEF UsersAre
<1>2. TypeOK' => UsersAre'
  BY UserIs, PTL
<1>3. \A p : p \in (Users("node", n))' <=>
        \E b \in 1..made'["bnet"] : \E i \in 1..Len(nodes'[b]) : p = <<b, i>> /\ nodes'[b][i] = n
  BY <1>2 DEF UsersAre
<1>4. \A b \in 1..made'["bnet"] : \A i \in 1..Len(nodes'[b]) : b \in 1..made["bnet"]
  <2> SUFFICES ASSUME NEW b \in 1..made'["bnet"], NEW i \in 1..Len(nodes'[b]), b \notin 1..made["bnet"]
               PROVE  FALSE
    OBVIOUS
  <2>1. nodes'[b] = <<>>
    OBVIOUS
  <2> QED
    BY <2>1
<1>5. ASSUME NEW p PROVE p \in (Users("node", n))' <=> p \in Users("node", n)
  <2>1. ASSUME p \in Users("node", n) PROVE p \in (Users("node", n))'
    <3>1. PICK b \in 1..made["bnet"] : \E i \in 1..Len(nodes[b]) : p = <<b, i>> /\ nodes[b][i] = n
      BY <1>1, <2>1
    <3> QED
      BY <1>3, <3>1
  <2>2. ASSUME p \in (Users("node", n))' PROVE p \in Users("node", n)
    <3>1. PICK b \in 1..made'["bnet"] : \E i \in 1..Len(nodes'[b]) : p = <<b, i>> /\ nodes'[b][i] = n
      BY <1>3, <2>2
    <3>2. b \in 1..made["bnet"]
      BY <1>4, <3>1
    <3> QED
      BY <1>1, <3>1, <3>2
  <2> QED
    BY <2>1, <2>2
<1> QED
  BY <1>5

(* A node is added to a network. *)
LEMMA UsersGrow ==
  ASSUME TypeOK, TypeOK', NEW b \in 1..made["bnet"], NEW x \in Nat,
         nodes' = [nodes EXCEPT ![b] = Append(@, x)], made'["bnet"] = made["bnet"]
  PROVE  /\ \A n : n # x => Users("node", n)' = Users("node", n)
         /\ Users("node", x)' = Users("node", x) \cup {<<b, Len(nodes[b]) + 1>>}
         /\ <<b, Len(nodes[b]) + 1>> \notin Users("node", x)
<1>1. \A n : \A p : p \in Users("node", n) <=>
        \E c \in 1..made["bnet"] : \E i \in 1..Len(nodes[c]) : p = <<c, i>> /\ nodes[c][i] = n
  BY UserIs DEF UsersAre
<1>2. TypeOK' => UsersAre'
  BY UserIs, PTL
<1>3. \A n : \A p : p \in (Users("node", n))' <=>
        \E c \in 1..made["bnet"] : \E i \in 1..Len(nodes'[c]) : p = <<c, i>> /\ nodes'[c][i] = n
  BY <1>2 DEF UsersAre
<1>4. nodes \in [1..made["bnet"] -> Seq(Nat)]
  BY DEF TypeOK
<1>5. /\ \A c \in 1..made["bnet"] : c # b => nodes'[c] = nodes[c]
      /\ nodes'[b] = Append(nodes[b], x)
  BY <1>4
<1>6. PICK l \in Nat : l = Len(nodes[b])
  BY <1>4
<1>7. Len(nodes'[b]) = l + 1 /\ nodes'[b][l + 1] = x /\ \A i \in 1..l : nodes'[b][i] = nodes[b][i]
  <2>1. nodes[b] \in Seq(Nat)
    BY <1>4
  <2> QED
    BY <1>5, <1>6, <2>1, AppendProperties
<1>8. \A i \in 1..(l + 1) : i \in 1..l \/ i = l + 1
  OBVIOUS
<1>9. ASSUME NEW n, NEW p, p \in Users("node", n) PROVE p \in (Users("node", n))'
  <2>1. PICK c \in 1..made["bnet"] : \E i \in 1..Len(nodes[c]) : p = <<c, i>> /\ nodes[c][i] = n
    BY <1>1, <1>9
  <2>2. PICK i \in 1..Len(nodes[c]) : p = <<c, i>> /\ nodes[c][i] = n
    BY <2>1
  <2>3. i \in 1..Len(nodes'[c]) /\ nodes'[c][i] = n
    <3>1. CASE c = b
      <4>1. i \in 1..l /\ i \in 1..(l + 1)
        BY <1>6, <2>2, <3>1
      <4> QED
        BY <1>7, <2>2, <3>1, <4>1
    <3>2. CASE c # b
      BY <1>5, <2>2, <3>2
    <3> QED
      BY <3>1, <3>2
  <2> QED
    BY <1>3, <2>2, <2>3
<1>10. ASSUME NEW n, NEW p, p \in (Users("node", n))'
       PROVE  p \in Users("node", n) \/ (n = x /\ p = <<b, l + 1>>)
  <2>1. PICK c \in 1..made["bnet"] : \E i \in 1..Len(nodes'[c]) : p = <<c, i>> /\ nodes'[c][i] = n
    BY <1>3, <1>10
  <2>2. PICK i \in 1..Len(nodes'[c]) : p = <<c, i>> /\ nodes'[c][i] = n
    BY <2>1
  <2>3. CASE c # b
    <3>1. i \in 1..Len(nodes[c]) /\ nodes[c][i] = n
      BY <1>5, <2>2, <2>3
    <3> QED
      BY <1>1, <2>2, <3>1
  <2>4. CASE c = b /\ i = l + 1
    BY <1>7, <2>2, <2>4
  <2>5. CASE c = b /\ i \in 1..l
    <3>1. i \in 1..Len(nodes[c]) /\ nodes[c][i] = n
      BY <1>6, <1>7, <2>2, <2>5
    <3> QED
      BY <1>1, <2>2, <3>1
  <2>6. c = b => i \in 1..(l + 1)
    BY <1>7, <2>2
  <2> QED
    BY <1>8, <2>3, <2>4, <2>5, <2>6
<1>11. <<b, l + 1>> \in (Users("node", x))'
  <2>1. l + 1 \in 1..Len(nodes'[b])
    BY <1>7
  <2> QED
    BY <1>3, <1>7, <2>1
<1>12. <<b, l + 1>> \notin Users("node", x)
  <2> SUFFICES ASSUME <<b, l + 1>> \in Users("node", x) PROVE FALSE
    OBVIOUS
  <2>1. PICK c \in 1..made["bnet"] : \E i \in 1..Len(nodes[c]) : <<b, l + 1>> = <<c, i>>
    BY <1>1
  <2>2. PICK i \in 1..Len(nodes[c]) : <<b, l + 1>> = <<c, i>>
    BY <2>1
  <2>3. l + 1 \in 1..l
    BY <1>6, <2>2
  <2> QED
    BY <2>3
<1>13. ASSUME NEW n, n # x PROVE Users("node", n)' = Users("node", n)
  <2>1. \A p : p \in (Users("node", n))' <=> p \in Users("node", n)
    BY <1>9, <1>10, <1>13
  <2> QED
    BY <2>1
<1>14. Users("node", x)' = Users("node", x) \cup {<<b, l + 1>>}
  BY <1>9, <1>10, <1>11
<1> QED
  BY <1>6, <1>12, <1>13, <1>14

(* The first node of network b is left.  User p, which is <<c, i>> now, was *)
(* one of the users before.                                                *)
Moves(p, b, c, i, users) ==
  /\ p = <<c, i>>
  /\ IF c = b THEN <<c, i + 1>> \in users /\ i >= 1 ELSE <<c, i>> \in users

LEMMA UsersShrink ==
  ASSUME TypeOK, TypeOK', NEW b \in 1..made["bnet"], nodes[b] # <<>>,
         nodes' = [nodes EXCEPT ![b] = Tail(@)], made'["bnet"] = made["bnet"],
         NEW n
  PROVE  /\ IsFiniteSet(Users("node", n)) =>
              /\ IsFiniteSet(Users("node", n)')
              /\ Cardinality(Users("node", n)') <= Cardinality(Users("node", n))
         /\ n # Head(nodes[b]) /\ Users("node", n) # {} => Users("node", n)' # {}
         /\ n = Head(nodes[b]) =>
              /\ Users("node", n) # {}
              /\ IsFiniteSet(Users("node", n)) /\ Cardinality(Users("node", n)) <= 1 => Users("node", n)' = {}
<1>1. \A p : p \in Users("node", n) <=>
        \E c \in 1..made["bnet"] : \E i \in 1..Len(nodes[c]) : p = <<c, i>> /\ nodes[c][i] = n
  BY UserIs DEF UsersAre
<1>2. TypeOK' => UsersAre'
  BY UserIs, PTL
<1>3. \A p : p \in (Users("node", n))' <=>
        \E c \in 1..made["bnet"] : \E i \in 1..Len(nodes'[c]) : p = <<c, i>> /\ nodes'[c][i] = n
  BY <1>2 DEF UsersAre
<1>4. nodes \in [1..made["bnet"] -> Seq(Nat)]
  BY DEF TypeOK
<1>5. /\ \A c \in 1..made["bnet"] : c # b => nodes'[c] = nodes[c]
      /\ nodes'[b] = Tail(nodes[b])
  BY <1>4
<1>6. PICK l \in Nat : l = Len(nodes[b]) /\ 1 <= l
  BY <1>4
<1>7. /\ Len(nodes'[b]) = l - 1 /\ \A i \in 1..(l - 1) : nodes'[b][i] = nodes[b][i + 1]
      /\ Head(nodes[b]) = nodes[b][1]
  <2>1. PICK s \in Seq(Nat) : s = nodes[b] /\ s # <<>>
    BY <1>4
  <2>2. /\ Len(Tail(s)) = Len(s) - 1 /\ \A i \in 1..Len(Tail(s)) : Tail(s)[i] = s[i + 1]
    BY <2>1, HeadTailProperties
  <2>3. Head(s) = s[1]
    BY <2>1
  <2> QED
    BY <1>5, <1>6, <2>1, <2>2, <2>3
<1>8. ASSUME NEW p \in (Users("node", n))'
      PROVE  \E c \in 1..made["bnet"] : \E i \in Nat : Moves(p, b, c, i, Users("node", n))
  <2>1. PICK c \in 1..made["bnet"] : \E i \in 1..Len(nodes'[c]) : p = <<c, i>> /\ nodes'[c][i] = n
    BY <1>3
  <2>2. PICK i \in 1..Len(nodes'[c]) : p = <<c, i>> /\ nodes'[c][i] = n
    BY <2>1
  <2>3. CASE c # b
    <3>1. i \in 1..Len(nodes[c]) /\ nodes[c][i] = n
      BY <1>5, <2>2, <2>3
    <3>2. <<c, i>> \in Users("node", n)
      BY <1>1, <3>1
    <3>3. i \in Nat /\ Moves(p, b, c, i, Users("node", n))
      BY <2>2, <2>3, <3>2 DEF Moves
    <3> QED
      BY <3>3
  <2>4. CASE c = b
    <3>1. i \in 1..(l - 1)
      BY <1>7, <2>2, <2>4
    <3>2. i + 1 \in 1..Len(nodes[b]) /\ nodes[b][i + 1] = n
      BY <1>6, <1>7, <2>2, <2>4, <3>1
    <3>3. <<b, i + 1>> \in Users("node", n)
      BY <1>1, <3>2
    <3>4. i \in Nat /\ Moves(p, b, c, i, Users("node", n))
      BY <2>2, <2>4, <3>1, <3>3 DEF Moves
    <3> QED
      BY <3>4
  <2> QED
    BY <2>3, <2>4
<1>9. PICK f : f = [p \in (Users("node", n))' |-> <<p[1], IF p[1] = b THEN p[2] + 1 ELSE p[2]>>]
  OBVIOUS
<1>10. ASSUME NEW p \in (Users("node", n))'
       PROVE  f[p] \in Users("node", n) /\ f[p] # <<b, 1>>
  <2>1. PICK c \in 1..made["bnet"] : \E i \in Nat : Moves(p, b, c, i, Users("node", n))
    BY <1>8
  <2>2. PICK i \in Nat : Moves(p, b, c, i, Users("node", n))
    BY <2>1
  <2>3. p = <<c, i>> /\ f[p] = <<c, IF c = b THEN i + 1 ELSE i>>
    BY <1>9, <2>2 DEF Moves
  <2> QED
    BY <2>2, <2>3 DEF Moves
<1>11. ASSUME NEW p \in (Users("node", n))', NEW q \in (Users("node", n))', f[p] = f[q]
       PROVE  p = q
  <2>1. PICK c \in 1..made["bnet"] : \E i \in Nat : p = <<c, i>>
    BY <1>8 DEF Moves
  <2>2. PICK i \in Nat : p = <<c, i>>
    BY <2>1
  <2>3. PICK d \in 1..made["bnet"] : \E j \in Nat : q = <<d, j>>
    BY <1>8 DEF Moves
  <2>4. PICK j \in Nat : q = <<d, j>>
    BY <2>3
  <2>5. f[p] = <<c, IF c = b THEN i + 1 ELSE i>> /\ f[q] = <<d, IF d = b THEN j + 1 ELSE j>>
    BY <1>9, <2>2, <2>4
  <2>6. PICK g, e : g = (IF c = b THEN i + 1 ELSE i) /\ e = (IF d = b THEN j + 1 ELSE j)
    OBVIOUS
  <2>7. <<c, g>> = <<d, e>>
    BY <1>11, <2>5, <2>6
  <2>8. c = d /\ g = e
    BY <2>7
  <2>9. i = j
    BY <2>6, <2>8
  <2> QED
    BY <2>2, <2>4, <2>8, <2>9
<1>12. f \in Injection((Users("node", n))', Users("node", n))
  BY <1>9, <1>10, <1>11 DEF Injection, IsInjective
<1>13. IsFiniteSet(Users("node", n)) =>
         IsFiniteSet(Users("node", n)') /\ Cardinality(Users("node", n)') <= Cardinality(Users("node", n))
  BY <1>12, FS_Injection
<1>14. ASSUME n # Head(nodes[b]), Users("node", n) # {} PROVE Users("node", n)' # {}
  <2>1. PICK c \in 1..made["bnet"] : \E i \in 1..Len(nodes[c]) : nodes[c][i] = n
    BY <1>1, <1>14
  <2>2. PICK i \in 1..Len(nodes[c]) : nodes[c][i] = n
    BY <2>1
  <2>3. CASE c # b
    <3>1. i \in 1..Len(nodes'[c]) /\ nodes'[c][i] = n
      BY <1>5, <2>2, <2>3
    <3>2. <<c, i>> \in (Users("node", n))'
      BY <1>3, <3>1
    <3> QED
      BY <3>2
  <2>4. CASE c = b
    <3>1. i # 1 /\ i \in 1..l
      BY <1>6, <1>7, <1>14, <2>2, <2>4
    <3>2. PICK j \in Nat : j = i - 1 /\ j \in 1..(l - 1) /\ i = j + 1
      BY <3>1
    <3>3. j \in 1..Len(nodes'[b]) /\ nodes'[b][j] = n
      BY <1>7, <2>2, <2>4, <3>2
    <3>4. <<b, j>> \in (Users("node", n))'
      BY <1>3, <3>3
    <3> QED
      BY <3>4
  <2> QED
    BY <2>3, <2>4
<1>15. ASSUME n = Head(nodes[b]) PROVE <<b, 1>> \in Users("node", n)
  <2>1. 1 \in 1..Len(nodes[b]) /\ nodes[b][1] = n
    BY <1>6, <1>7, <1>15
  <2> QED
    BY <1>1, <2>1
<1>16. ASSUME n = Head(nodes[b]), IsFiniteSet(Users("node", n)), Cardinality(Users("node", n)) <= 1
       PROVE  Users("node", n)' = {}
  <2>1. PICK V : V = Users("node", n)
    OBVIOUS
  <2>2. IsFiniteSet(V) /\ Cardinality(V) <= 1 /\ <<b, 1>> \in V
    BY <1>15, <1>16, <2>1
  <2>3. Cardinality(V) \in Nat
    BY <2>2, FS_CardinalityType
  <2>4. Cardinality(V \ {<<b, 1>>}) = Cardinality(V) - 1 /\ IsFiniteSet(V \ {<<b, 1>>})
    BY <2>2, FS_RemoveElement
  <2>5. Cardinality(V \ {<<b, 1>>}) \in Nat
    BY <2>4, FS_CardinalityType
  <2>6. Cardinality(V \ {<<b, 1>>}) = 0
    BY <2>2, <2>3, <2>4, <2>5
  <2>7. V \ {<<b, 1>>} = {}
    BY <2>4, <2>6, FS_EmptySet
  <2> QED
    BY <1>10, <2>1, <2>7
<1> QED
  BY <1>13, <1>14, <1>15, <1>16

-----------------------------------------------------------------------------
(* The kinds whose objects a step leaves where they were. *)
LEMMA OtherKind ==
  ASSUME TypeOK, Distinct, Kept, NEW k \in Kinds, SameKind(k),
         \A t \in Threads : freed'[t][k] = freed[t][k], UsesOf(k)' = UsesOf(k),
         lost[k] \subseteq lost'[k],
         k = "node" => \A n \in 1..made["node"] : InUse(n) => InUse(n)'
  PROVE  DistinctOf(k)' /\ KeptOf(k)'
<1>1. TableOf(k)' = TableOf(k) /\ made'[k] = made[k]
  BY SameTable DEF SameKind
<1>2. DistinctOf(k) /\ KeptOf(k)
  BY DEF Distinct, Kept
<1>3. DistinctOf(k)'
  BY <1>1, <1>2 DEF DistinctOf
<1>4. ASSUME NEW x \in 1..made'[k]
      PROVE  (x \in Objects(TableOf(k)) \/ x \in lost[k] \/ (k = "node" /\ InUse(x)))'
  BY <1>1, <1>2 DEF KeptOf
<1>5. KeptOf(k)'
  BY <1>4 DEF KeptOf
<1> QED
  BY <1>3, <1>5

(* The threads whose place in freeBnet a step leaves as it was. *)
LEMMA OtherThread ==
  ASSUME NEW t \in Threads, Collected(t), Cleared(t),
         pc'[t] = pc[t], at'[t] = at[t], freed'[t] = freed[t],
         at[t]["bnet"] \in Nat,
         \A i \in 1..Len(freed[t]["bnet"]) : nodes'[freed[t]["bnet"][i]] = nodes[freed[t]["bnet"][i]],
         \A i \in 1..Len(freed[t]["node"]) :
           appenders[freed[t]["node"][i]] = <<>> => appenders'[freed[t]["node"][i]] = <<>>
  PROVE  Collected(t)' /\ Cleared(t)'
<1>1. PICK p, a, fb, fn, fa : /\ p = pc[t] /\ a = at[t] /\ fb = freed[t]["bnet"]
                              /\ fn = freed[t]["node"] /\ fa = freed[t]["appender"]
  BY Zenon
<1>2. /\ pc'[t] = p /\ at'[t] = a /\ freed'[t]["bnet"] = fb
      /\ freed'[t]["node"] = fn /\ freed'[t]["appender"] = fa
  BY <1>1
<1>3. ASSUME p = "bnets", a["bnet"] <= Len(fb), a["bnet"] \in 1..(Len(fb) + 1)
      PROVE  nodes'[fb[a["bnet"]]] = nodes[fb[a["bnet"]]]
  <2>1. a["bnet"] \in 1..Len(fb)
    BY <1>3
  <2> QED
    BY <1>1, <2>1
<1>4. Collected(t)'
  BY <1>1, <1>2, <1>3 DEF Collected
<1>5. Cleared(t)'
  BY <1>1, <1>2 DEF Cleared
<1> QED
  BY <1>4, <1>5

-----------------------------------------------------------------------------
(* Each step keeps IInv. *)

LEMMA AllocBnetStep ==
  ASSUME IInv, StoreAssumption, NEW t \in Threads, AllocBnet(t)
  PROVE  IInv'
<1>1. TypeOK /\ Distinct /\ Counted /\ Kept /\ Placed /\ Emptied /\ HandedOutEmpty
  BY DEF IInv
<1>2. PICK x \in 1..(made["bnet"] + 1) :
         /\ Alloc(t, "bnet", x)
         /\ held' = [held EXCEPT ![t] = Append(@, x)]
         /\ nodes' = IF x \in DOMAIN nodes THEN nodes ELSE With(nodes, x, <<>>)
  BY DEF AllocBnet
<1>3. /\ pc[t] = "idle" /\ plan' \in {[plan EXCEPT ![t] = p] : p \in Plans[t]}
      /\ refcnt' = refcnt /\ appenders' = appenders
  BY DEF AllocBnet, Begins, Idle
<1>4. /\ AllocFrame(t, "bnet", x) /\ \E G : Takes("bnet", x, G)
      /\ freed' = freed /\ pc' = pc /\ at' = at
  <2>1. "bnet" \in Kinds
    BY DEF Kinds
  <2> QED
    BY <1>1, <1>2, <2>1, AllocTakes
<1>5. PICK G : Takes("bnet", x, G)
  BY <1>4
<1>6. /\ SameKind("node") /\ SameKind("appender")
      /\ made'["node"] = made["node"] /\ made'["appender"] = made["appender"]
  BY <1>4 DEF AllocFrame, Kinds, SameKind
<1>7. /\ x \in Nat /\ made["bnet"] \in Nat /\ made'["bnet"] \in Nat /\ made["bnet"] <= made'["bnet"]
      /\ 1..made'["bnet"] = 1..made["bnet"] \cup {x}
  <2>1. made["bnet"] \in Nat /\ made'["bnet"] \in Nat /\ made["bnet"] <= made'["bnet"]
    BY <1>1, <1>4 DEF AllocFrame, Kinds, TypeOK
  <2>2. x \in 1..made'["bnet"] /\ \A y \in 1..made'["bnet"] : y \in 1..made["bnet"] \/ y = x
    BY <1>5 DEF Takes
  <2> QED
    BY <2>1, <2>2
<1>8. /\ nodes' \in [1..made'["bnet"] -> Seq(Nat)]
      /\ \A b \in 1..made["bnet"] : b \in 1..made'["bnet"] /\ nodes'[b] = nodes[b]
      /\ \A b \in 1..made'["bnet"] : b \in 1..made["bnet"] \/ nodes'[b] = <<>>
  <2>1. nodes \in [1..made["bnet"] -> Seq(Nat)] /\ DOMAIN nodes = 1..made["bnet"]
    BY <1>1 DEF TypeOK
  <2>2. CASE x \in DOMAIN nodes
    <3>1. nodes' = nodes /\ 1..made'["bnet"] = 1..made["bnet"]
      BY <1>2, <1>7, <2>1, <2>2
    <3> QED
      BY <2>1, <3>1
  <2>3. CASE x \notin DOMAIN nodes
    <3>1. nodes' = [y \in 1..made'["bnet"] |-> IF y = x THEN <<>> ELSE nodes[y]]
      BY <1>2, <1>7, <2>1, <2>3 DEF With
    <3>2. <<>> \in Seq(Nat)
      OBVIOUS
    <3>3. \A y \in 1..made'["bnet"] : (IF y = x THEN <<>> ELSE nodes[y]) \in Seq(Nat)
      BY <1>7, <2>1, <3>2
    <3> QED
      BY <1>7, <2>1, <2>3, <3>1, <3>3
  <2> QED
    BY <2>2, <2>3
<1>9. plan' \in [Threads -> Seq({"node", "share", "appender"})]
      /\ \A u \in Threads : u # t => plan'[u] = plan[u]
  <2>1. PICK p \in Plans[t] : plan' = [plan EXCEPT ![t] = p]
    BY <1>3
  <2>2. p \in Seq({"node", "share", "appender"})
    BY DEF StoreAssumption
  <2>3. plan \in [Threads -> Seq({"node", "share", "appender"})]
    BY <1>1 DEF TypeOK
  <2> QED
    BY <2>1, <2>2, <2>3
<1>10. /\ held' \in [Threads -> Seq(Nat)] /\ held'[t] = Append(held[t], x)
       /\ \A u \in Threads : u # t => held'[u] = held[u]
  <2>1. held \in [Threads -> Seq(Nat)]
    BY <1>1 DEF TypeOK
  <2>2. Append(held[t], x) \in Seq(Nat)
    BY <1>7, <2>1
  <2> QED
    BY <1>2, <2>1, <2>2
<1>11. TypeOK'
  BY <1>1, <1>3, <1>4, <1>6, <1>8, <1>9, <1>10 DEF TypeOK, AllocFrame
<1>12. ASSUME NEW u \in Threads PROVE Collected(u)' /\ Cleared(u)'
  <2>1. \A i \in 1..Len(freed[u]["bnet"]) : freed[u]["bnet"][i] \in 1..made["bnet"]
    BY <1>1, Places DEF Kinds, Distinct, DistinctOf
  <2>2. Collected(u) /\ Cleared(u) /\ at[u]["bnet"] \in Nat
    BY <1>1 DEF Placed, Emptied, TypeOK
  <2> QED
    BY <1>3, <1>4, <1>8, <2>1, <2>2, OtherThread
<1>13. Windows' /\ ArraysFit' /\ \A u \in Threads : Builds(u)'
  <2>1. Windows'
    BY <1>4 DEF AllocFrame, Windows
  <2>2. ArraysFit'
    <3>1. ArraysFit /\ NODES_PER_BNET \in Nat
      BY <1>1 DEF Placed, StoreAssumption
    <3>2. ASSUME NEW b \in 1..made'["bnet"] PROVE Len(nodes'[b]) <= NODES_PER_BNET
      <4>1. CASE b \in 1..made["bnet"]
        BY <1>8, <3>1, <4>1 DEF ArraysFit
      <4>2. CASE nodes'[b] = <<>>
        <5>1. Len(nodes'[b]) = 0
          BY <4>2
        <5> QED
          BY <3>1, <5>1
      <4> QED
        BY <1>8, <4>1, <4>2
    <3> QED
      BY <1>3, <1>6, <3>1, <3>2 DEF ArraysFit
  <2>3. ASSUME NEW u \in Threads PROVE Builds(u)'
    <3>1. held'[t] # <<>>
      <4>1. held[t] \in Seq(Nat)
        BY <1>1 DEF TypeOK
      <4> QED
        <5>1. x \in Nat
          BY <1>7
        <5>2. PICK s \in Seq(Nat) : s = held[t]
          BY <4>1
        <5>3. Append(s, x) # <<>>
          BY <5>1, AppendedNotEmpty
        <5> QED
          BY <1>10, <5>2, <5>3
    <3>2. Builds(u)
      BY <1>1 DEF Placed
    <3> QED
      BY <1>4, <1>9, <1>10, <3>1, <3>2 DEF Builds
  <2> QED
    BY <2>1, <2>2, <2>3
<1>14. Placed' /\ Emptied'
  BY <1>12, <1>13 DEF Placed, Emptied
<1>15. \A n : Users("node", n)' = Users("node", n)
  BY <1>1, <1>8, <1>11, UsersSame
<1>16. TableOf("node")' = TableOf("node")
  BY <1>4, <1>6, SameTable DEF UsesOf, Kinds
<1>17. Counted'
  <2>1. \A b \in 1..made'["bnet"] : \A i \in 1..Len(nodes'[b]) : nodes'[b][i] \in 1..made'["node"]
    <3> SUFFICES ASSUME NEW b \in 1..made'["bnet"], NEW i \in 1..Len(nodes'[b])
                 PROVE  nodes'[b][i] \in 1..made'["node"]
      OBVIOUS
    <3>1. CASE b \in 1..made["bnet"]
      BY <1>1, <1>6, <1>8, <3>1 DEF Counted
    <3>2. CASE nodes'[b] = <<>>
      BY <3>2
    <3> QED
      BY <1>8, <3>1, <3>2
  <2> QED
    BY <1>1, <1>3, <1>6, <1>15, <1>16, <2>1 DEF Counted
<1>18. DistinctOf("bnet")' /\ KeptOf("bnet")'
  <2>1. PICK K, S, B, F, U : /\ K = DOMAIN UsesOf("bnet") /\ S = store'["bnet"]
                             /\ B = LeftOf("bnet")' /\ F = FreedOf("bnet")' /\ U = UsesOf("bnet")
    BY Zenon
  <2>2. /\ Reads(G, K, S, B, F, U) /\ Separate(G) /\ x \notin Objects(G)
        /\ \A y \in Objects(G) : y \in Objects(TableOf("bnet"))
        /\ \A y \in Objects(TableOf("bnet")) : y \in Objects(G) \/ y = x \/ y \in lost'["bnet"]
    BY <1>5, <2>1 DEF Takes
  <2>3. U = held /\ K = Threads
    BY <1>1, <2>1 DEF UsesOf, TypeOK
  <2>4. PICK T, V : T = TableOf("bnet")' /\ V = held'
    OBVIOUS
  <2>5. Reads(T, K, S, B, F, V)
    <3>1. TypeOK' /\ Windows' => TablesRead'
      BY TableReads, PTL
    <3>2. Reads(TableOf("bnet"), DOMAIN UsesOf("bnet"), store["bnet"], LeftOf("bnet"),
                FreedOf("bnet"), UsesOf("bnet"))'
      BY <1>11, <1>13, <3>1 DEF TablesRead, Kinds
    <3>3. UsesOf("bnet")' = V /\ DOMAIN V = K
      BY <1>10, <2>3, <2>4 DEF UsesOf
    <3> QED
      BY <2>1, <2>4, <3>2, <3>3
  <2>6. t \in K /\ x \in Nat /\ V[t] = Append(U[t], x) /\ \A d \in K : d # t => V[d] = U[d]
    BY <1>7, <1>10, <2>3, <2>4
  <2>7. Separate(T) /\ Objects(T) = Objects(G) \cup {x}
    BY <2>2, <2>5, <2>6, AddUse
  <2>8. \A y \in Objects(TableOf("bnet")) : y \in 1..made["bnet"]
    BY <1>1 DEF Distinct, DistinctOf, Kinds
  <2>9. DistinctOf("bnet")'
    BY <1>7, <2>2, <2>4, <2>7, <2>8 DEF DistinctOf
  <2>10. KeptOf("bnet") /\ lost["bnet"] \subseteq lost'["bnet"]
    BY <1>1, <1>4 DEF Kept, AllocFrame, Kinds
  <2>11. ASSUME NEW y \in 1..made'["bnet"] PROVE y \in Objects(T) \/ y \in lost'["bnet"]
    <3>1. y \in 1..made["bnet"] \/ y = x
      BY <1>7
    <3>2. y \in 1..made["bnet"] => y \in Objects(TableOf("bnet")) \/ y \in lost["bnet"]
      BY <2>10 DEF KeptOf
    <3> QED
      BY <2>2, <2>7, <2>10, <3>1, <3>2
  <2>12. KeptOf("bnet")'
    BY <2>4, <2>11 DEF KeptOf
  <2> QED
    BY <2>9, <2>12
<1>19. DistinctOf("node")' /\ KeptOf("node")' /\ DistinctOf("appender")' /\ KeptOf("appender")'
  <2>1. UsesOf("node")' = UsesOf("node") /\ UsesOf("appender")' = UsesOf("appender")
    BY <1>3 DEF UsesOf
  <2>2. lost["node"] \subseteq lost'["node"] /\ lost["appender"] \subseteq lost'["appender"]
    BY <1>4 DEF AllocFrame, Kinds
  <2>3. \A n : InUse(n) => InUse(n)'
    BY <1>3, <1>15 DEF InUse
  <2>4. "node" \in Kinds /\ "appender" \in Kinds /\ "node" # "appender"
    BY DEF Kinds
  <2> QED
    BY <1>1, <1>4, <1>6, <2>1, <2>2, <2>3, <2>4, OtherKind
<1>20. Distinct' /\ Kept'
  BY <1>18, <1>19 DEF Distinct, Kept, Kinds
<1>21. HandedOutEmpty'
  <2>1. \A k \in Kinds : \A y : Ready(k, y)' => Ready(k, y)
    BY <1>4 DEF AllocFrame
  <2>2. /\ DOMAIN nodes = 1..made["bnet"] /\ DOMAIN nodes' = 1..made'["bnet"]
    BY <1>1, <1>8 DEF TypeOK
  <2> QED
    BY <1>1, <1>3, <1>8, <2>1, <2>2 DEF HandedOutEmpty, Kinds
<1> QED
  BY <1>11, <1>14, <1>17, <1>20, <1>21 DEF IInv

LEMMA SameReads ==
  ASSUME NEW K, NEW T, NEW G, NEW S, NEW B, NEW F, NEW U, Reads(T, K, S, B, F, U), Reads(G, K, S, B, F, U)
  PROVE  T = G
<1>1. T \in Tables(Slots(K)) /\ G \in Tables(Slots(K))
  BY DEF Reads
<1>2. ASSUME NEW e \in Slots(K) PROVE T[e] = G[e]
  <2>1. CASE e = <<"store", 0>>
    BY <2>1 DEF Reads
  <2>2. ASSUME NEW t \in Threads, e = <<"buffer", t>> PROVE T[e] = G[e]
    BY <2>2 DEF Reads
  <2>3. ASSUME NEW t \in Threads, e = <<"freed", t>> PROVE T[e] = G[e]
    BY <2>3 DEF Reads
  <2>4. ASSUME NEW x \in K, e = <<"use", x>> PROVE T[e] = G[e]
    BY <2>4 DEF Reads
  <2> QED
    BY <2>1, <2>2, <2>3, <2>4, SlotsAre
<1> QED
  BY <1>1, <1>2 DEF Tables

LEMMA HeldIs ==
  ASSUME TypeOK, Distinct, Placed, NEW t \in Threads, NEW i \in 1..Len(held[t])
  PROVE  /\ held[t][i] \in 1..made["bnet"] /\ held[t][i] \in Objects(TableOf("bnet"))
         /\ ~Ready("bnet", held[t][i])
         /\ \A u \in Threads : \A j \in 1..Len(freed[u]["bnet"]) : freed[u]["bnet"][j] # held[t][i]
<1>1. "bnet" \in Kinds /\ UsesOf("bnet") = held /\ t \in DOMAIN held
  BY DEF Kinds, UsesOf, TypeOK
<1>2. held[t][i] \in Objects(TableOf("bnet"))
  BY <1>1, Places
<1>3. held[t][i] \in 1..made["bnet"]
  BY <1>1, <1>2 DEF Distinct, DistinctOf
<1> QED
  BY <1>1, <1>2, <1>3, UseApart

(* The network that a thread adds to is in use. *)
LEMMA NewestIs ==
  ASSUME TypeOK, Distinct, Placed, NEW t \in Threads, plan[t] # <<>>, pc[t] = "idle"
  PROVE  /\ Newest(t) \in 1..made["bnet"]
         /\ ~Ready("bnet", Newest(t))
         /\ \A u \in Threads : \A j \in 1..Len(freed[u]["bnet"]) : freed[u]["bnet"][j] # Newest(t)
<1>1. held[t] # <<>> /\ held[t] \in Seq(Nat)
  BY DEF Placed, Builds, TypeOK
<1>2. PICK i \in 1..Len(held[t]) : Newest(t) = held[t][i]
  <2>1. Len(held[t]) \in 1..Len(held[t])
    BY <1>1
  <2> QED
    BY <2>1 DEF Newest, Last
<1> QED
  BY <1>2, HeldIs

(* A node is added to the newest network of thread t: who is at its place  *)
(* in freeBnet does not see it.                                            *)
LEMMA NodeAdded ==
  ASSUME TypeOK, Distinct, Placed, Emptied, StoreAssumption,
         NEW t \in Threads, plan[t] # <<>>, pc[t] = "idle",
         Len(nodes[Newest(t)]) < NODES_PER_BNET, NEW x \in Nat,
         nodes' = [nodes EXCEPT ![Newest(t)] = Append(@, x)],
         pc' = pc, at' = at, freed' = freed, held' = held,
         \A n \in 1..made["node"] : appenders'[n] = appenders[n],
         \A u \in Threads : plan'[u] = plan[u] \/ u = t
  PROVE  /\ nodes' \in [1..made["bnet"] -> Seq(Nat)]
         /\ \A b \in 1..made["bnet"] : Len(nodes'[b]) <= NODES_PER_BNET
         /\ \A u \in Threads : Collected(u)' /\ Builds(u)' /\ Cleared(u)'
<1>1. PICK b \in 1..made["bnet"] : b = Newest(t)
  BY NewestIs
<1>2. nodes \in [1..made["bnet"] -> Seq(Nat)] /\ NODES_PER_BNET \in Nat
  BY DEF TypeOK, StoreAssumption
<1>3. nodes' = [nodes EXCEPT ![b] = Append(@, x)]
  BY <1>1
<1>4. /\ Append(nodes[b], x) \in Seq(Nat) /\ Len(Append(nodes[b], x)) = Len(nodes[b]) + 1
      /\ Len(nodes[b]) \in Nat
  BY <1>2, AppendProperties
<1>5. /\ nodes' \in [1..made["bnet"] -> Seq(Nat)] /\ nodes'[b] = Append(nodes[b], x)
      /\ \A c \in 1..made["bnet"] : c # b => nodes'[c] = nodes[c]
  BY <1>2, <1>3, <1>4
<1>6. ASSUME NEW c \in 1..made["bnet"] PROVE Len(nodes'[c]) <= NODES_PER_BNET
  <2>1. Len(nodes[c]) <= NODES_PER_BNET
    BY DEF Placed, ArraysFit
  <2>2. Len(nodes[b]) + 1 <= NODES_PER_BNET
    BY <1>1, <1>2, <1>4
  <2> QED
    BY <1>4, <1>5, <2>1, <2>2
<1>7. ASSUME NEW u \in Threads PROVE Collected(u)' /\ Cleared(u)'
  <2>1. \A i \in 1..Len(freed[u]["bnet"]) : nodes'[freed[u]["bnet"][i]] = nodes[freed[u]["bnet"][i]]
    <3>1. \A i \in 1..Len(freed[u]["bnet"]) : freed[u]["bnet"][i] \in 1..made["bnet"]
      BY Places DEF Kinds, Distinct, DistinctOf
    <3>2. \A i \in 1..Len(freed[u]["bnet"]) : freed[u]["bnet"][i] # b
      BY <1>1, NewestIs
    <3> QED
      BY <1>5, <3>1, <3>2
  <2>2. \A i \in 1..Len(freed[u]["node"]) :
          appenders[freed[u]["node"][i]] = <<>> => appenders'[freed[u]["node"][i]] = <<>>
    BY Places DEF Kinds, Distinct, DistinctOf
  <2>3. Collected(u) /\ Cleared(u) /\ at[u]["bnet"] \in Nat
    BY DEF Placed, Emptied, TypeOK
  <2> QED
    BY <2>1, <2>2, <2>3, OtherThread
<1>8. \A u \in Threads : Builds(u)'
  BY DEF Placed, Builds
<1> QED
  BY <1>5, <1>6, <1>7, <1>8

(* A node has one user more, and no other has. *)
LEMMA UserMore ==
  ASSUME NEW V, IsFiniteSet(V), NEW p, p \notin V
  PROVE  IsFiniteSet(V \cup {p}) /\ Cardinality(V \cup {p}) = Cardinality(V) + 1 /\ Cardinality(V) \in Nat
BY FS_AddElement, FS_CardinalityType

LEMMA AllocNodeStep ==
  ASSUME IInv, StoreAssumption, NEW t \in Threads, AllocNode(t)
  PROVE  IInv'
<1>1. TypeOK /\ Distinct /\ Counted /\ Kept /\ Placed /\ Emptied /\ HandedOutEmpty
  BY DEF IInv
<1>2. PICK x \in 1..(made["node"] + 1) :
         /\ Alloc(t, "node", x)
         /\ nodes' = [nodes EXCEPT ![Newest(t)] = Append(@, x)]
         /\ IF x \in DOMAIN refcnt
            THEN UNCHANGED <<refcnt, appenders>>
            ELSE refcnt' = With(refcnt, x, 1) /\ appenders' = With(appenders, x, <<>>)
  BY DEF AllocNode
<1>3. /\ pc[t] = "idle" /\ plan[t] # <<>> /\ plan' = [plan EXCEPT ![t] = Tail(@)]
      /\ held' = held /\ Len(nodes[Newest(t)]) < NODES_PER_BNET
  BY DEF AllocNode, Adds, Idle
<1>4. /\ AllocFrame(t, "node", x) /\ \E G : Takes("node", x, G)
      /\ freed' = freed /\ pc' = pc /\ at' = at
  <2>1. "node" \in Kinds
    BY DEF Kinds
  <2> QED
    BY <1>1, <1>2, <2>1, AllocTakes
<1>5. PICK G : Takes("node", x, G)
  BY <1>4
<1>6. /\ SameKind("bnet") /\ SameKind("appender")
      /\ made'["bnet"] = made["bnet"] /\ made'["appender"] = made["appender"]
  BY <1>4 DEF AllocFrame, Kinds, SameKind
<1>7. /\ x \in Nat /\ made["node"] \in Nat /\ made'["node"] \in Nat /\ made["node"] <= made'["node"]
      /\ 1..made'["node"] = 1..made["node"] \cup {x}
  <2>1. made["node"] \in Nat /\ made'["node"] \in Nat /\ made["node"] <= made'["node"]
    BY <1>1, <1>4 DEF AllocFrame, Kinds, TypeOK
  <2>2. x \in 1..made'["node"] /\ \A y \in 1..made'["node"] : y \in 1..made["node"] \/ y = x
    BY <1>5 DEF Takes
  <2> QED
    BY <2>1, <2>2
<1>8. /\ refcnt' \in [1..made'["node"] -> Nat \ {0}] /\ appenders' \in [1..made'["node"] -> Seq(Nat)]
      /\ \A n \in 1..made["node"] : n \in 1..made'["node"] /\ refcnt'[n] = refcnt[n] /\ appenders'[n] = appenders[n]
      /\ \A n \in 1..made'["node"] : n \in 1..made["node"] \/ (n = x /\ refcnt'[n] = 1 /\ appenders'[n] = <<>>)
  <2>1. /\ refcnt \in [1..made["node"] -> Nat \ {0}] /\ DOMAIN refcnt = 1..made["node"]
        /\ appenders \in [1..made["node"] -> Seq(Nat)] /\ DOMAIN appenders = 1..made["node"]
    BY <1>1 DEF TypeOK
  <2>2. CASE x \in DOMAIN refcnt
    <3>1. refcnt' = refcnt /\ appenders' = appenders /\ 1..made'["node"] = 1..made["node"]
      BY <1>2, <1>7, <2>1, <2>2
    <3> QED
      BY <2>1, <3>1
  <2>3. CASE x \notin DOMAIN refcnt
    <3>1. /\ refcnt' = [y \in 1..made'["node"] |-> IF y = x THEN 1 ELSE refcnt[y]]
          /\ appenders' = [y \in 1..made'["node"] |-> IF y = x THEN <<>> ELSE appenders[y]]
      BY <1>2, <1>7, <2>1, <2>3 DEF With
    <3>2. <<>> \in Seq(Nat) /\ 1 \in Nat \ {0}
      OBVIOUS
    <3>3. \A y \in 1..made'["node"] : (IF y = x THEN <<>> ELSE appenders[y]) \in Seq(Nat)
      BY <1>7, <2>1, <3>2
    <3>4. \A y \in 1..made'["node"] : (IF y = x THEN 1 ELSE refcnt[y]) \in Nat \ {0}
      BY <1>7, <2>1, <3>2
    <3>5. refcnt' \in [1..made'["node"] -> Nat \ {0}] /\ appenders' \in [1..made'["node"] -> Seq(Nat)]
      BY <3>1, <3>3, <3>4
    <3> QED
      BY <1>7, <2>1, <2>3, <3>1, <3>5
  <2> QED
    BY <2>2, <2>3
<1>9. PICK b \in 1..made["bnet"] : b = Newest(t)
  BY <1>1, <1>3, NewestIs
<1>10. /\ nodes' \in [1..made["bnet"] -> Seq(Nat)]
       /\ \A c \in 1..made["bnet"] : Len(nodes'[c]) <= NODES_PER_BNET
       /\ \A u \in Threads : Collected(u)' /\ Builds(u)' /\ Cleared(u)'
  <2>1. \A u \in Threads : plan'[u] = plan[u] \/ u = t
    BY <1>1, <1>3 DEF TypeOK
  <2> QED
    BY <1>1, <1>2, <1>3, <1>4, <1>7, <1>8, <2>1, NodeAdded
<1>11. plan' \in [Threads -> Seq({"node", "share", "appender"})]
  <2>1. plan \in [Threads -> Seq({"node", "share", "appender"})]
    BY <1>1 DEF TypeOK
  <2>2. Tail(plan[t]) \in Seq({"node", "share", "appender"})
    BY <1>3, <2>1, HeadTailProperties
  <2> QED
    BY <1>3, <2>1, <2>2
<1>12. TypeOK'
  BY <1>1, <1>3, <1>4, <1>6, <1>8, <1>10, <1>11 DEF TypeOK, AllocFrame
<1>13. Windows' /\ ArraysFit'
  <2>1. Windows'
    BY <1>4 DEF AllocFrame, Windows
  <2>2. ASSUME NEW n \in 1..made'["node"] PROVE Len(appenders'[n]) <= APPENDERS_PER_NODE
    <3>1. ArraysFit /\ APPENDERS_PER_NODE \in Nat
      BY <1>1 DEF Placed, StoreAssumption
    <3>2. CASE n \in 1..made["node"]
      BY <1>8, <3>1, <3>2 DEF ArraysFit
    <3>3. CASE appenders'[n] = <<>>
      <4>1. Len(appenders'[n]) = 0
        BY <3>3
      <4> QED
        BY <3>1, <4>1
    <3> QED
      BY <1>8, <3>2, <3>3
  <2> QED
    BY <1>6, <1>10, <2>1, <2>2 DEF ArraysFit
<1>14. Placed' /\ Emptied'
  BY <1>10, <1>13 DEF Placed, Emptied
<1>15. /\ \A n : n # x => Users("node", n)' = Users("node", n)
       /\ Users("node", x)' = Users("node", x) \cup {<<b, Len(nodes[b]) + 1>>}
       /\ <<b, Len(nodes[b]) + 1>> \notin Users("node", x)
  BY <1>1, <1>2, <1>6, <1>7, <1>9, <1>12, UsersGrow
<1>16. Users("node", x) = {} /\ refcnt'[x] = 1
  <2>1. CASE x \in 1..made["node"]
    <3>1. x \in Objects(TableOf("node"))
      <4>1. Ready("node", x) \/ x = made["node"] + 1
        BY <1>4 DEF AllocFrame
      <4>2. x # made["node"] + 1
        BY <1>7, <2>1
      <4> QED
        BY <1>1, <4>1, <4>2, Places DEF Kinds
    <3> QED
      BY <1>1, <1>8, <2>1, <3>1 DEF Counted
  <2>2. CASE x \notin 1..made["node"]
    <3>1. ASSUME NEW p \in Users("node", x) PROVE FALSE
      <4>1. PICK c \in 1..made["bnet"] : \E i \in 1..Len(nodes[c]) : nodes[c][i] = x
        BY <1>1, <3>1, UserIs DEF UsersAre
      <4> QED
        BY <1>1, <2>2, <4>1 DEF Counted
    <3>2. x \in 1..made'["node"]
      BY <1>7
    <3> QED
      BY <1>8, <2>2, <3>1, <3>2
  <2> QED
    BY <2>1, <2>2
<1>17. PICK T : T = TableOf("node")'
  OBVIOUS
<1>18. T = G
  <2>1. TypeOK' /\ Windows' => TablesRead'
    BY TableReads, PTL
  <2>2. Reads(TableOf("node"), DOMAIN UsesOf("node"), store["node"], LeftOf("node"),
              FreedOf("node"), UsesOf("node"))'
    BY <1>12, <1>13, <2>1 DEF TablesRead, Kinds
  <2>3. UsesOf("node")' = UsesOf("node")
    BY DEF UsesOf
  <2>4. Reads(G, DOMAIN UsesOf("node"), store'["node"], LeftOf("node")', FreedOf("node")', UsesOf("node"))
    BY <1>5 DEF Takes
  <2>5. Reads(T, DOMAIN UsesOf("node"), store'["node"], LeftOf("node")', FreedOf("node")', UsesOf("node"))
    BY <1>17, <2>2, <2>3
  <2> QED
    BY <2>4, <2>5, SameReads
<1>19. /\ Separate(T) /\ x \notin Objects(T)
       /\ \A y \in Objects(T) : y \in Objects(TableOf("node"))
       /\ \A y \in Objects(TableOf("node")) : y \in Objects(T) \/ y = x \/ y \in lost'["node"]
  BY <1>5, <1>18 DEF Takes
<1>20. DistinctOf("node")'
  <2>1. \A y \in Objects(TableOf("node")) : y \in 1..made["node"]
    BY <1>1 DEF Distinct, DistinctOf, Kinds
  <2> QED
    BY <1>7, <1>17, <1>19, <2>1 DEF DistinctOf
<1>21. KeptOf("node")'
  <2>1. KeptOf("node") /\ lost["node"] \subseteq lost'["node"]
    BY <1>1, <1>4 DEF Kept, AllocFrame, Kinds
  <2>2. InUse(x)'
    BY <1>15 DEF InUse
  <2>3. ASSUME NEW y \in 1..made'["node"], y # x
        PROVE  y \in Objects(T) \/ y \in lost'["node"] \/ InUse(y)'
    <3>1. y \in 1..made["node"]
      BY <1>7, <2>3
    <3>2. y \in Objects(TableOf("node")) \/ y \in lost["node"] \/ InUse(y)
      BY <2>1, <3>1 DEF KeptOf
    <3>3. InUse(y) => InUse(y)'
      BY <1>8, <1>15, <2>3, <3>1 DEF InUse
    <3> QED
      BY <1>19, <2>1, <2>3, <3>2, <3>3
  <2> QED
    BY <1>17, <2>2, <2>3 DEF KeptOf
<1>22. Counted'
  <2>1. \A c \in 1..made'["bnet"] : \A i \in 1..Len(nodes'[c]) : nodes'[c][i] \in 1..made'["node"]
    <3> SUFFICES ASSUME NEW c \in 1..made'["bnet"], NEW i \in 1..Len(nodes'[c])
                 PROVE  nodes'[c][i] \in 1..made'["node"]
      OBVIOUS
    <3>1. PICK n : n = nodes'[c][i]
      OBVIOUS
    <3>2. <<c, i>> \in Users("node", n)'
      <4>1. TypeOK' => UsersAre'
        BY UserIs, PTL
      <4> QED
        BY <1>12, <3>1, <4>1 DEF UsersAre
    <3>3. n # x => <<c, i>> \in Users("node", n)
      BY <1>15, <3>2
    <3>4. n # x => n \in 1..made["node"]
      BY <1>1, <3>3, UserIs, SMTT(20) DEF UsersAre, Counted
    <3> QED
      BY <1>7, <3>1, <3>4
  <2>2. ASSUME NEW n \in 1..made'["node"]
        PROVE  /\ IsFiniteSet(Users("node", n)') /\ Cardinality(Users("node", n)') <= refcnt'[n]
               /\ n \in Objects(T) => Users("node", n)' = {} /\ refcnt'[n] = 1
    <3>1. CASE n = x
      <4>1. Users("node", x)' = {<<b, Len(nodes[b]) + 1>>}
        BY <1>15, <1>16
      <4>2. PICK p : Users("node", x)' = {p}
        BY <4>1
      <4>3. IsFiniteSet({p}) /\ Cardinality({p}) = 1
        BY FS_Singleton
      <4>4. IsFiniteSet(Users("node", x)') /\ Cardinality(Users("node", x)') = 1
        BY <4>2, <4>3
      <4> QED
        BY <1>16, <1>19, <3>1, <4>4
    <3>2. CASE n # x
      <4>1. n \in 1..made["node"]
        BY <1>7, <3>2
      <4> QED
        BY <1>1, <1>8, <1>15, <1>19, <3>2, <4>1, SMTT(30) DEF Counted
    <3> QED
      BY <3>1, <3>2
  <2> QED
    BY <1>17, <2>1, <2>2 DEF Counted
<1>23. DistinctOf("bnet")' /\ KeptOf("bnet")'
  <2>1. UsesOf("bnet")' = UsesOf("bnet")
    BY <1>3 DEF UsesOf
  <2>2. lost["bnet"] \subseteq lost'["bnet"]
    BY <1>4 DEF AllocFrame, Kinds
  <2>3. "bnet" \in Kinds /\ "bnet" # "node"
    BY DEF Kinds
  <2> QED
    BY <1>1, <1>4, <1>6, <2>1, <2>2, <2>3, OtherKind
<1>24. DistinctOf("appender")' /\ KeptOf("appender")'
  <2>1. PICK K, S, B, F, U, D : /\ K = DOMAIN UsesOf("appender") /\ S = store["appender"]
                                /\ B = LeftOf("appender") /\ F = FreedOf("appender")
                                /\ U = UsesOf("appender") /\ D = TableOf("appender")
    BY Zenon
  <2>2. Reads(D, K, S, B, F, U)
    BY <1>1, <2>1, TableReads DEF TablesRead, Placed, Kinds
  <2>3. PICK M, V, E : M = 1..made'["node"] /\ V = appenders' /\ E = TableOf("appender")'
    OBVIOUS
  <2>4. Reads(E, M, S, B, F, V)
    <3>1. TypeOK' /\ Windows' => TablesRead'
      BY TableReads, PTL
    <3>2. Reads(TableOf("appender"), DOMAIN UsesOf("appender"), store["appender"], LeftOf("appender"),
                FreedOf("appender"), UsesOf("appender"))'
      BY <1>12, <1>13, <3>1 DEF TablesRead, Kinds
    <3>3. UsesOf("appender")' = V /\ DOMAIN V = M
      BY <1>8, <2>3 DEF UsesOf
    <3>4. store'["appender"] = S /\ LeftOf("appender")' = B /\ FreedOf("appender")' = F
      BY <1>4, <1>6, <2>1 DEF SameKind, LeftOf, FreedOf
    <3> QED
      BY <2>3, <3>2, <3>3, <3>4
  <2>5. K = 1..made["node"] /\ U = appenders
    BY <1>1, <2>1 DEF UsesOf, TypeOK
  <2>6. K \subseteq M /\ \A n \in M : V[n] = IF n \in K THEN U[n] ELSE <<>>
    BY <1>7, <1>8, <2>3, <2>5
  <2>7. Objects(E) = Objects(D) /\ (Separate(D) => Separate(E))
    BY <2>2, <2>4, <2>6, EmptySlot, SMTT(20)
  <2>8. DistinctOf("appender") /\ KeptOf("appender") /\ lost["appender"] \subseteq lost'["appender"]
    BY <1>1, <1>4 DEF Distinct, Kept, Kinds, AllocFrame
  <2>9. DistinctOf("appender")'
    BY <1>6, <2>1, <2>3, <2>7, <2>8 DEF DistinctOf
  <2>10. KeptOf("appender")'
    BY <1>6, <2>1, <2>3, <2>7, <2>8 DEF KeptOf
  <2> QED
    BY <2>9, <2>10
<1>25. Distinct' /\ Kept'
  BY <1>20, <1>21, <1>23, <1>24 DEF Distinct, Kept, Kinds
<1>26. HandedOutEmpty'
  <2>1. \A k \in Kinds : \A y : Ready(k, y)' => Ready(k, y)
    BY <1>4 DEF AllocFrame
  <2>2. /\ DOMAIN nodes = 1..made["bnet"] /\ DOMAIN nodes' = 1..made["bnet"]
        /\ DOMAIN appenders = 1..made["node"] /\ DOMAIN appenders' = 1..made'["node"]
    BY <1>1, <1>8, <1>10 DEF TypeOK
  <2>3. \A c \in 1..made["bnet"] : c # b => nodes'[c] = nodes[c]
    BY <1>1, <1>2, <1>9 DEF TypeOK
  <2>4. ~Ready("bnet", b)
    BY <1>1, <1>3, <1>9, NewestIs
  <2>5. \A c \in 1..made["bnet"] : Ready("bnet", c)' => nodes'[c] = <<>>
    BY <1>1, <2>1, <2>2, <2>3, <2>4 DEF HandedOutEmpty, Kinds
  <2>6. \A n \in 1..made'["node"] : Ready("node", n)' => appenders'[n] = <<>>
    BY <1>1, <1>8, <2>1, <2>2 DEF HandedOutEmpty, Kinds
  <2> QED
    BY <2>2, <2>5, <2>6 DEF HandedOutEmpty
<1> QED
  BY <1>12, <1>14, <1>22, <1>25, <1>26 DEF IInv

(* A node of a network is neither collected nor to be handed out. *)
LEMMA NodeInUse ==
  ASSUME TypeOK, Distinct, Placed, Counted, NEW b \in 1..made["bnet"], NEW i \in 1..Len(nodes[b])
  PROVE  /\ nodes[b][i] \in 1..made["node"]
         /\ Users("node", nodes[b][i]) # {}
         /\ nodes[b][i] \notin Objects(TableOf("node"))
         /\ ~Ready("node", nodes[b][i])
         /\ \A u \in Threads : \A j \in 1..Len(freed[u]["node"]) : freed[u]["node"][j] # nodes[b][i]
<1>1. PICK n : n = nodes[b][i]
  OBVIOUS
<1>2. n \in 1..made["node"]
  BY <1>1 DEF Counted
<1>3. <<b, i>> \in Users("node", n)
  BY <1>1, UserIs DEF UsersAre
<1>4. n \notin Objects(TableOf("node"))
  BY <1>2, <1>3 DEF Counted
<1>5. /\ ~Ready("node", n)
      /\ \A u \in Threads : \A j \in 1..Len(freed[u]["node"]) : freed[u]["node"][j] # n
  BY <1>4, Places DEF Kinds
<1> QED
  BY <1>1, <1>2, <1>3, <1>4, <1>5

LEMMA ShareNodeStep ==
  ASSUME IInv, StoreAssumption, NEW t \in Threads, ShareNode(t)
  PROVE  IInv'
<1>1. TypeOK /\ Distinct /\ Counted /\ Kept /\ Placed /\ Emptied /\ HandedOutEmpty
  BY DEF IInv
<1>2. \E n : /\ \E b \in 1..made["bnet"] : \E j \in 1..Len(nodes[b]) : n = nodes[b][j]
             /\ refcnt' = [refcnt EXCEPT ![n] = @ + 1]
             /\ nodes' = [nodes EXCEPT ![Newest(t)] = Append(@, n)]
  <2>1. PICK u \in Threads : \E i \in DOMAIN held[u] : \E j \in DOMAIN nodes[held[u][i]] :
          /\ refcnt' = [refcnt EXCEPT ![nodes[held[u][i]][j]] = @ + 1]
          /\ nodes' = [nodes EXCEPT ![Newest(t)] = Append(@, nodes[held[u][i]][j])]
    BY DEF ShareNode
  <2>2. PICK i \in DOMAIN held[u] : \E j \in DOMAIN nodes[held[u][i]] :
          /\ refcnt' = [refcnt EXCEPT ![nodes[held[u][i]][j]] = @ + 1]
          /\ nodes' = [nodes EXCEPT ![Newest(t)] = Append(@, nodes[held[u][i]][j])]
    BY <2>1
  <2>3. PICK j \in DOMAIN nodes[held[u][i]] :
          /\ refcnt' = [refcnt EXCEPT ![nodes[held[u][i]][j]] = @ + 1]
          /\ nodes' = [nodes EXCEPT ![Newest(t)] = Append(@, nodes[held[u][i]][j])]
    BY <2>2
  <2>4. held \in [Threads -> Seq(Nat)] /\ nodes \in [1..made["bnet"] -> Seq(Nat)]
    BY <1>1 DEF TypeOK
  <2>5. i \in 1..Len(held[u])
    BY <2>4
  <2>6. held[u][i] \in 1..made["bnet"]
    BY <1>1, <2>5, HeldIs
  <2>7. nodes[held[u][i]] \in Seq(Nat)
    BY <2>4, <2>6
  <2>8. j \in 1..Len(nodes[held[u][i]])
    BY <2>7
  <2> QED
    BY <2>3, <2>6, <2>8
<1>3. PICK n : /\ \E b \in 1..made["bnet"] : \E j \in 1..Len(nodes[b]) : n = nodes[b][j]
               /\ refcnt' = [refcnt EXCEPT ![n] = @ + 1]
               /\ nodes' = [nodes EXCEPT ![Newest(t)] = Append(@, n)]
  BY <1>2
<1>4. /\ n \in 1..made["node"] /\ n \in Nat /\ Users("node", n) # {} /\ n \notin Objects(TableOf("node"))
  BY <1>1, <1>3, NodeInUse
<1>5. /\ pc[t] = "idle" /\ plan[t] # <<>> /\ plan' = [plan EXCEPT ![t] = Tail(@)]
      /\ Len(nodes[Newest(t)]) < NODES_PER_BNET
      /\ store' = store /\ made' = made /\ buffer' = buffer /\ index' = index /\ freed' = freed
      /\ appenders' = appenders /\ held' = held /\ pc' = pc /\ at' = at /\ lost' = lost
  BY DEF ShareNode, Adds, Idle, local
<1>6. PICK b \in 1..made["bnet"] : b = Newest(t)
  BY <1>1, <1>5, NewestIs
<1>7. /\ nodes' \in [1..made["bnet"] -> Seq(Nat)]
      /\ \A c \in 1..made["bnet"] : Len(nodes'[c]) <= NODES_PER_BNET
      /\ \A u \in Threads : Collected(u)' /\ Builds(u)' /\ Cleared(u)'
  <2>1. \A u \in Threads : plan'[u] = plan[u] \/ u = t
    BY <1>1, <1>5 DEF TypeOK
  <2> QED
    BY <1>1, <1>3, <1>4, <1>5, <2>1, NodeAdded
<1>8. plan' \in [Threads -> Seq({"node", "share", "appender"})]
  <2>1. plan \in [Threads -> Seq({"node", "share", "appender"})]
    BY <1>1 DEF TypeOK
  <2>2. Tail(plan[t]) \in Seq({"node", "share", "appender"})
    BY <1>5, <2>1, HeadTailProperties
  <2> QED
    BY <1>5, <2>1, <2>2
<1>9. /\ refcnt' \in [1..made["node"] -> Nat \ {0}] /\ refcnt'[n] = refcnt[n] + 1 /\ refcnt[n] \in Nat \ {0}
      /\ \A m \in 1..made["node"] : m # n => refcnt'[m] = refcnt[m]
  <2>1. refcnt \in [1..made["node"] -> Nat \ {0}]
    BY <1>1 DEF TypeOK
  <2>2. PICK r \in Nat \ {0} : r = refcnt[n]
    BY <1>4, <2>1
  <2>3. r + 1 \in Nat \ {0} /\ refcnt' = [refcnt EXCEPT ![n] = r + 1]
    BY <1>3, <2>2
  <2> QED
    BY <1>4, <2>1, <2>2, <2>3
<1>10. TypeOK'
  BY <1>1, <1>5, <1>7, <1>8, <1>9 DEF TypeOK
<1>11. Placed' /\ Emptied'
  <2>1. Windows' /\ ArraysFit'
    BY <1>1, <1>5, <1>7 DEF Placed, Windows, ArraysFit
  <2> QED
    BY <1>7, <2>1 DEF Placed, Emptied
<1>12. /\ \A m : m # n => Users("node", m)' = Users("node", m)
       /\ Users("node", n)' = Users("node", n) \cup {<<b, Len(nodes[b]) + 1>>}
       /\ <<b, Len(nodes[b]) + 1>> \notin Users("node", n)
  BY <1>1, <1>3, <1>4, <1>5, <1>6, <1>10, UsersGrow
<1>13. TableOf("node")' = TableOf("node")
  BY <1>5 DEF TableOf, LeftOf, FreedOf, UsesOf
<1>14. Counted'
  <2>1. \A c \in 1..made'["bnet"] : \A i \in 1..Len(nodes'[c]) : nodes'[c][i] \in 1..made'["node"]
    <3> SUFFICES ASSUME NEW c \in 1..made["bnet"], NEW i \in 1..Len(nodes'[c])
                 PROVE  nodes'[c][i] \in 1..made["node"]
      BY <1>5
    <3>1. PICK m : m = nodes'[c][i]
      OBVIOUS
    <3>2. <<c, i>> \in Users("node", m)'
      <4>1. TypeOK' => UsersAre'
        BY UserIs, PTL
      <4> QED
        BY <1>5, <1>10, <3>1, <4>1 DEF UsersAre
    <3>3. ASSUME m # n PROVE m \in 1..made["node"]
      <4>1. <<c, i>> \in Users("node", m)
        BY <1>12, <3>2, <3>3
      <4>2. PICK d \in 1..made["bnet"] : \E h \in 1..Len(nodes[d]) : nodes[d][h] = m
        BY <1>1, <4>1, UserIs DEF UsersAre
      <4> QED
        BY <1>1, <4>2 DEF Counted
    <3> QED
      BY <1>4, <3>1, <3>3
  <2>2. ASSUME NEW m \in 1..made["node"]
        PROVE  /\ IsFiniteSet(Users("node", m)') /\ Cardinality(Users("node", m)') <= refcnt'[m]
               /\ m \in Objects(TableOf("node")) => Users("node", m)' = {} /\ refcnt'[m] = 1
    <3>1. CASE m = n
      <4>1. PICK V, p : V = Users("node", n) /\ p = <<b, Len(nodes[b]) + 1>>
        OBVIOUS
      <4>2. IsFiniteSet(V) /\ Cardinality(V) <= refcnt[n] /\ p \notin V /\ Users("node", n)' = V \cup {p}
        BY <1>1, <1>4, <1>12, <4>1 DEF Counted
      <4>3. IsFiniteSet(V \cup {p}) /\ Cardinality(V \cup {p}) = Cardinality(V) + 1 /\ Cardinality(V) \in Nat
        BY <4>2, UserMore
      <4>4. Cardinality(V \cup {p}) <= refcnt[n] + 1
        BY <1>9, <4>2, <4>3
      <4> QED
        BY <1>4, <1>9, <3>1, <4>2, <4>3, <4>4
    <3>2. CASE m # n
      BY <1>1, <1>9, <1>12, <3>2 DEF Counted
    <3> QED
      BY <3>1, <3>2
  <2> QED
    BY <1>5, <1>13, <2>1, <2>2 DEF Counted
<1>15. Distinct' /\ Kept'
  <2>1. ASSUME NEW k \in Kinds PROVE DistinctOf(k)' /\ KeptOf(k)'
    <3>1. SameKind(k) /\ lost[k] \subseteq lost'[k] /\ \A u \in Threads : freed'[u][k] = freed[u][k]
      BY <1>5 DEF SameKind
    <3>2. UsesOf(k)' = UsesOf(k)
      BY <1>5 DEF UsesOf
    <3>3. \A m \in 1..made["node"] : InUse(m) => InUse(m)'
      BY <1>9, <1>12 DEF InUse
    <3> QED
      BY <1>1, <3>1, <3>2, <3>3, OtherKind
  <2> QED
    BY <2>1 DEF Distinct, Kept
<1>16. HandedOutEmpty'
  <2>1. \A k \in Kinds : \A y : Ready(k, y)' => Ready(k, y)
    BY <1>5 DEF Ready
  <2>2. /\ DOMAIN nodes = 1..made["bnet"] /\ DOMAIN nodes' = 1..made["bnet"]
    BY <1>1, <1>7 DEF TypeOK
  <2>3. \A c \in 1..made["bnet"] : c # b => nodes'[c] = nodes[c]
    BY <1>1, <1>3, <1>6 DEF TypeOK
  <2>4. ~Ready("bnet", b)
    BY <1>1, <1>5, <1>6, NewestIs
  <2>5. \A c \in 1..made["bnet"] : Ready("bnet", c)' => nodes'[c] = <<>>
    BY <1>1, <2>1, <2>2, <2>3, <2>4 DEF HandedOutEmpty, Kinds
  <2>6. \A m \in DOMAIN appenders' : Ready("node", m)' => appenders'[m] = <<>>
    BY <1>1, <1>5, <2>1 DEF HandedOutEmpty, Kinds
  <2> QED
    BY <2>2, <2>5, <2>6 DEF HandedOutEmpty
<1> QED
  BY <1>10, <1>11, <1>14, <1>15, <1>16 DEF IInv

LEMMA AllocAppenderStep ==
  ASSUME IInv, StoreAssumption, NEW t \in Threads, AllocAppender(t)
  PROVE  IInv'
<1>1. TypeOK /\ Distinct /\ Counted /\ Kept /\ Placed /\ Emptied /\ HandedOutEmpty
  BY DEF IInv
<1>2. /\ pc[t] = "idle" /\ plan[t] # <<>> /\ plan' = [plan EXCEPT ![t] = Tail(@)]
      /\ nodes[Newest(t)] # <<>> /\ refcnt' = refcnt /\ nodes' = nodes /\ held' = held
  BY DEF AllocAppender, Adds, Idle
<1>3. PICK b \in 1..made["bnet"] : b = Newest(t)
  BY <1>1, <1>2, NewestIs
<1>4. nodes[b] \in Seq(Nat) /\ nodes[b] # <<>>
  BY <1>1, <1>2, <1>3 DEF TypeOK
<1>5. PICK i \in 1..Len(nodes[b]) : i = Len(nodes[b])
  BY <1>4
<1>6. PICK n : n = nodes[b][i] /\ n = Last(nodes[Newest(t)])
  BY <1>3, <1>5 DEF Last
<1>7. /\ n \in 1..made["node"] /\ ~Ready("node", n)
      /\ \A u \in Threads : \A j \in 1..Len(freed[u]["node"]) : freed[u]["node"][j] # n
  BY <1>1, <1>6, NodeInUse
<1>8. PICK x \in 1..(made["appender"] + 1) :
         /\ Len(appenders[n]) < APPENDERS_PER_NODE
         /\ Alloc(t, "appender", x)
         /\ appenders' = [appenders EXCEPT ![n] = Append(@, x)]
  BY <1>6 DEF AllocAppender
<1>9. /\ AllocFrame(t, "appender", x) /\ \E G : Takes("appender", x, G)
      /\ freed' = freed /\ pc' = pc /\ at' = at
  <2>1. "appender" \in Kinds
    BY DEF Kinds
  <2> QED
    BY <1>1, <1>8, <2>1, AllocTakes
<1>10. PICK G : Takes("appender", x, G)
  BY <1>9
<1>11. /\ SameKind("bnet") /\ SameKind("node")
       /\ made'["bnet"] = made["bnet"] /\ made'["node"] = made["node"]
  BY <1>9 DEF AllocFrame, Kinds, SameKind
<1>12. /\ x \in Nat /\ 1..made'["appender"] = 1..made["appender"] \cup {x}
  <2>1. made["appender"] \in Nat /\ made'["appender"] \in Nat /\ made["appender"] <= made'["appender"]
    BY <1>1, <1>9 DEF AllocFrame, Kinds, TypeOK
  <2>2. x \in 1..made'["appender"] /\ \A y \in 1..made'["appender"] : y \in 1..made["appender"] \/ y = x
    BY <1>10 DEF Takes
  <2> QED
    BY <2>1, <2>2
<1>13. /\ appenders \in [1..made["node"] -> Seq(Nat)] /\ APPENDERS_PER_NODE \in Nat
  BY <1>1 DEF TypeOK, StoreAssumption
<1>14. /\ appenders' \in [1..made["node"] -> Seq(Nat)] /\ appenders'[n] = Append(appenders[n], x)
       /\ \A m \in 1..made["node"] : m # n => appenders'[m] = appenders[m]
       /\ \A m \in 1..made["node"] : Len(appenders'[m]) <= APPENDERS_PER_NODE
  <2>1. appenders[n] \in Seq(Nat) /\ Len(appenders[n]) \in Nat
    BY <1>7, <1>13
  <2>2. Append(appenders[n], x) \in Seq(Nat) /\ Len(Append(appenders[n], x)) = Len(appenders[n]) + 1
    BY <1>12, <2>1, AppendProperties
  <2>3. /\ appenders' \in [1..made["node"] -> Seq(Nat)] /\ appenders'[n] = Append(appenders[n], x)
        /\ \A m \in 1..made["node"] : m # n => appenders'[m] = appenders[m]
    BY <1>7, <1>8, <1>13, <2>2
  <2>4. Len(appenders'[n]) <= APPENDERS_PER_NODE
    BY <1>8, <1>13, <2>1, <2>2, <2>3
  <2>5. \A m \in 1..made["node"] : Len(appenders[m]) <= APPENDERS_PER_NODE
    BY <1>1 DEF Placed, ArraysFit
  <2> QED
    BY <2>3, <2>4, <2>5
<1>15. plan' \in [Threads -> Seq({"node", "share", "appender"})]
       /\ \A u \in Threads : plan'[u] = plan[u] \/ u = t
  <2>1. plan \in [Threads -> Seq({"node", "share", "appender"})]
    BY <1>1 DEF TypeOK
  <2>2. Tail(plan[t]) \in Seq({"node", "share", "appender"})
    BY <1>2, <2>1, HeadTailProperties
  <2> QED
    BY <1>2, <2>1, <2>2
<1>16. TypeOK'
  BY <1>1, <1>2, <1>9, <1>11, <1>14, <1>15 DEF TypeOK, AllocFrame
<1>17. Placed' /\ Emptied'
  <2>1. ASSUME NEW u \in Threads PROVE Collected(u)' /\ Cleared(u)'
    <3>1. \A j \in 1..Len(freed[u]["node"]) :
            appenders[freed[u]["node"][j]] = <<>> => appenders'[freed[u]["node"][j]] = <<>>
      <4>1. \A j \in 1..Len(freed[u]["node"]) : freed[u]["node"][j] \in 1..made["node"]
        BY <1>1, Places DEF Kinds, Distinct, DistinctOf
      <4> QED
        BY <1>7, <1>14, <4>1
    <3>2. Collected(u) /\ Cleared(u) /\ at[u]["bnet"] \in Nat
      BY <1>1 DEF Placed, Emptied, TypeOK
    <3> QED
      BY <1>2, <1>9, <3>1, <3>2, OtherThread
  <2>2. Windows'
    BY <1>9 DEF AllocFrame, Windows
  <2>3. ArraysFit'
    BY <1>1, <1>2, <1>11, <1>14 DEF Placed, ArraysFit
  <2>4. \A u \in Threads : Builds(u)'
    BY <1>1, <1>2, <1>9, <1>15 DEF Placed, Builds
  <2> QED
    BY <2>1, <2>2, <2>3, <2>4 DEF Placed, Emptied
<1>18. \A m : Users("node", m)' = Users("node", m)
  BY <1>2 DEF Users
<1>19. TableOf("node")' = TableOf("node")
  BY <1>9, <1>11, SameTable DEF UsesOf, Kinds
<1>20. Counted'
  BY <1>1, <1>2, <1>11, <1>18, <1>19 DEF Counted
<1>21. DistinctOf("appender")' /\ KeptOf("appender")'
  <2>1. PICK K, S, B, F, U : /\ K = DOMAIN UsesOf("appender") /\ S = store'["appender"]
                             /\ B = LeftOf("appender")' /\ F = FreedOf("appender")'
                             /\ U = UsesOf("appender")
    BY Zenon
  <2>2. /\ Reads(G, K, S, B, F, U) /\ Separate(G) /\ x \notin Objects(G)
        /\ \A y \in Objects(G) : y \in Objects(TableOf("appender"))
        /\ \A y \in Objects(TableOf("appender")) : y \in Objects(G) \/ y = x \/ y \in lost'["appender"]
    BY <1>10, <2>1 DEF Takes
  <2>3. U = appenders /\ K = 1..made["node"]
    BY <1>1, <2>1 DEF UsesOf, TypeOK
  <2>4. PICK T, V : T = TableOf("appender")' /\ V = appenders'
    OBVIOUS
  <2>5. Reads(T, K, S, B, F, V)
    <3>1. TypeOK' /\ Windows' => TablesRead'
      BY TableReads, PTL
    <3>2. Reads(TableOf("appender"), DOMAIN UsesOf("appender"), store["appender"], LeftOf("appender"),
                FreedOf("appender"), UsesOf("appender"))'
      BY <1>16, <1>17, <3>1 DEF TablesRead, Kinds, Placed
    <3>3. UsesOf("appender")' = V /\ DOMAIN V = K
      BY <1>14, <2>3, <2>4 DEF UsesOf
    <3> QED
      BY <2>1, <2>4, <3>2, <3>3
  <2>6. n \in K /\ x \in Nat /\ V[n] = Append(U[n], x) /\ \A d \in K : d # n => V[d] = U[d]
    BY <1>7, <1>12, <1>14, <2>3, <2>4
  <2>7. Separate(T) /\ Objects(T) = Objects(G) \cup {x}
    BY <2>2, <2>5, <2>6, AddUse
  <2>8. \A y \in Objects(TableOf("appender")) : y \in 1..made["appender"]
    BY <1>1 DEF Distinct, DistinctOf, Kinds
  <2>9. DistinctOf("appender")'
    BY <1>12, <2>2, <2>4, <2>7, <2>8 DEF DistinctOf
  <2>10. KeptOf("appender") /\ lost["appender"] \subseteq lost'["appender"]
    BY <1>1, <1>9 DEF Kept, AllocFrame, Kinds
  <2>11. ASSUME NEW y \in 1..made'["appender"] PROVE y \in Objects(T) \/ y \in lost'["appender"]
    <3>1. y \in 1..made["appender"] \/ y = x
      BY <1>12
    <3>2. y \in 1..made["appender"] => y \in Objects(TableOf("appender")) \/ y \in lost["appender"]
      BY <2>10 DEF KeptOf
    <3> QED
      BY <2>2, <2>7, <2>10, <3>1, <3>2
  <2>12. KeptOf("appender")'
    BY <2>4, <2>11 DEF KeptOf
  <2> QED
    BY <2>9, <2>12
<1>22. DistinctOf("bnet")' /\ KeptOf("bnet")' /\ DistinctOf("node")' /\ KeptOf("node")'
  <2>1. UsesOf("bnet")' = UsesOf("bnet") /\ UsesOf("node")' = UsesOf("node")
    BY <1>2 DEF UsesOf
  <2>2. lost["bnet"] \subseteq lost'["bnet"] /\ lost["node"] \subseteq lost'["node"]
    BY <1>9 DEF AllocFrame, Kinds
  <2>3. \A m : InUse(m) => InUse(m)'
    BY <1>2, <1>18 DEF InUse
  <2>4. "bnet" \in Kinds /\ "node" \in Kinds /\ "bnet" # "node"
    BY DEF Kinds
  <2> QED
    BY <1>1, <1>9, <1>11, <2>1, <2>2, <2>3, <2>4, OtherKind
<1>23. Distinct' /\ Kept'
  BY <1>21, <1>22 DEF Distinct, Kept, Kinds
<1>24. HandedOutEmpty'
  <2>1. \A k \in Kinds : \A y : Ready(k, y)' => Ready(k, y)
    BY <1>9 DEF AllocFrame
  <2>2. DOMAIN appenders = 1..made["node"] /\ DOMAIN appenders' = 1..made["node"]
    BY <1>13, <1>14
  <2>3. \A m \in 1..made["node"] : Ready("node", m)' => appenders'[m] = <<>>
    BY <1>1, <1>7, <1>14, <2>1, <2>2 DEF HandedOutEmpty, Kinds
  <2> QED
    BY <1>1, <1>2, <2>1, <2>2, <2>3 DEF HandedOutEmpty, Kinds
<1> QED
  BY <1>16, <1>17, <1>20, <1>23, <1>24 DEF IInv

(* What a step leaves as it was when it only moves a thread on. *)
LEMMA OnlyPlace ==
  ASSUME IInv, TypeOK', store' = store, made' = made, buffer' = buffer, index' = index, freed' = freed,
         refcnt' = refcnt, appenders' = appenders, nodes' = nodes, held' = held, lost' = lost,
         \A u \in Threads : Collected(u)' /\ Cleared(u)' /\ Builds(u)'
  PROVE  IInv'
<1>1. TypeOK /\ Distinct /\ Counted /\ Kept /\ Placed /\ Emptied /\ HandedOutEmpty
  BY DEF IInv
<1>2. \A n : Users("node", n)' = Users("node", n)
  BY DEF Users
<1>3. ASSUME NEW k \in Kinds PROVE DistinctOf(k)' /\ KeptOf(k)'
  <2>1. SameKind(k)
    BY DEF SameKind
  <2>2. UsesOf(k)' = UsesOf(k)
    BY DEF UsesOf
  <2>3. \A n : InUse(n) => InUse(n)'
    BY <1>2 DEF InUse
  <2> QED
    BY <1>1, <2>1, <2>2, <2>3, OtherKind
<1>4. Distinct' /\ Kept'
  BY <1>3 DEF Distinct, Kept
<1>5. TableOf("node")' = TableOf("node")
  BY DEF TableOf, LeftOf, FreedOf, UsesOf
<1>6. Counted'
  BY <1>1, <1>2, <1>5 DEF Counted
<1>7. Placed' /\ Emptied'
  BY <1>1 DEF Placed, Emptied, Windows, ArraysFit
<1>8. \A k \in Kinds : \A y : Ready(k, y)' => Ready(k, y)
  BY DEF Ready
<1>9. HandedOutEmpty'
  BY <1>1, <1>8 DEF HandedOutEmpty, Kinds
<1> QED
  BY <1>4, <1>6, <1>7, <1>9 DEF IInv

LEMMA AllocUndefinedStep ==
  ASSUME IInv, StoreAssumption, NEW t \in Threads, NEW k \in Kinds, AllocUndefined(t, k)
  PROVE  IInv'
<1>1. TypeOK /\ Placed /\ Emptied
  BY DEF IInv
<1>2. /\ pc[t] = "idle" /\ pc' = [pc EXCEPT ![t] = "undefined"]
      /\ plan' \in {[plan EXCEPT ![t] = p] : p \in Plans[t]}
         \/ (plan[t] # <<>> /\ plan' = [plan EXCEPT ![t] = Tail(@)])
  BY DEF AllocUndefined, Begins, Adds, Idle, Kinds
<1>3. /\ store' = store /\ made' = made /\ buffer' = buffer /\ index' = index /\ freed' = freed
      /\ refcnt' = refcnt /\ appenders' = appenders /\ nodes' = nodes /\ held' = held /\ lost' = lost
      /\ at' = at
  BY DEF AllocUndefined, local, things
<1>4. plan \in [Threads -> Seq({"node", "share", "appender"})]
  BY <1>1 DEF TypeOK
<1>5. \E p \in Seq({"node", "share", "appender"}) : plan' = [plan EXCEPT ![t] = p]
  <2>1. CASE plan' \in {[plan EXCEPT ![t] = p] : p \in Plans[t]}
    <3>1. PICK p \in Plans[t] : plan' = [plan EXCEPT ![t] = p]
      BY <2>1
    <3>2. p \in Seq({"node", "share", "appender"})
      BY DEF StoreAssumption
    <3> QED
      BY <3>1, <3>2
  <2>2. CASE plan[t] # <<>> /\ plan' = [plan EXCEPT ![t] = Tail(@)]
    <3>1. Tail(plan[t]) \in Seq({"node", "share", "appender"})
      BY <1>4, <2>2, HeadTailProperties
    <3> QED
      BY <2>2, <3>1
  <2> QED
    BY <1>2, <2>1, <2>2
<1>6. /\ plan' \in [Threads -> Seq({"node", "share", "appender"})]
      /\ \A u \in Threads : u # t => plan'[u] = plan[u]
  BY <1>4, <1>5
<1>7. /\ pc' \in [Threads -> {"idle", "bnets", "nodes", "undefined"}] /\ pc'[t] = "undefined"
      /\ \A u \in Threads : u # t => pc'[u] = pc[u]
  BY <1>1, <1>2 DEF TypeOK
<1>8. TypeOK'
  BY <1>1, <1>3, <1>6, <1>7 DEF TypeOK
<1>9. ASSUME NEW u \in Threads, u # t PROVE Collected(u)' /\ Cleared(u)' /\ Builds(u)'
  <2>1. Collected(u) /\ Cleared(u) /\ Builds(u) /\ at[u]["bnet"] \in Nat
    BY <1>1 DEF Placed, Emptied, TypeOK
  <2>2. pc'[u] = pc[u] /\ plan'[u] = plan[u]
    BY <1>6, <1>7, <1>9
  <2>3. Collected(u)' /\ Cleared(u)'
    BY <1>3, <2>1, <2>2, OtherThread
  <2>4. Builds(u)'
    BY <1>3, <2>1, <2>2 DEF Builds
  <2> QED
    BY <2>3, <2>4
<1>10. Collected(t)' /\ Cleared(t)' /\ Builds(t)'
  <2>1. Collected(t)
    BY <1>1 DEF Placed
  <2>2. Collected(t)'
    BY <1>2, <1>3, <1>7, <2>1 DEF Collected
  <2> QED
    BY <1>7, <2>2 DEF Cleared, Builds
<1> QED
  BY <1>3, <1>8, <1>9, <1>10, OnlyPlace

LEMMA NodesFreedStep ==
  ASSUME IInv, StoreAssumption, NEW t \in Threads, NodesFreed(t)
  PROVE  IInv'
<1>1. TypeOK /\ Distinct /\ Placed /\ Emptied
  BY DEF IInv
<1>2. /\ store' = store /\ made' = made /\ buffer' = buffer /\ index' = index /\ freed' = freed
      /\ refcnt' = refcnt /\ appenders' = appenders /\ nodes' = nodes /\ held' = held /\ lost' = lost
      /\ plan' = plan
  BY DEF NodesFreed, local, things
<1>3. PICK fb, fn, a, n : /\ fb = freed[t]["bnet"] /\ fn = freed[t]["node"]
                          /\ a = at[t]["bnet"] /\ n = TLS_BUF_SIZE["node"]
  BY Zenon
<1>4. /\ fb \in Seq(Nat) /\ Len(fb) \in Nat /\ fn \in Seq(Nat) /\ Len(fn) \in Nat /\ a \in Nat
      /\ n \in Nat /\ NODES_PER_BNET \in Nat
  <2>0. /\ freed \in [Threads -> [Kinds -> Seq(Nat)]] /\ at \in [Threads -> [{"bnet", "node"} -> Nat]]
        /\ "bnet" \in Kinds /\ "node" \in Kinds
    BY <1>1 DEF TypeOK, Kinds
  <2>1. fb \in Seq(Nat) /\ fn \in Seq(Nat) /\ a \in Nat
    BY <1>3, <2>0
  <2>2. n \in Nat /\ NODES_PER_BNET \in Nat
    BY <1>3 DEF Kinds, StoreAssumption
  <2> QED
    BY <2>1, <2>2
<1>5. pc[t] = "bnets" /\ a <= Len(fb) /\ nodes[fb[a]] = <<>>
  BY <1>3 DEF NodesFreed
<1>6. /\ Len(freed[t]["appender"]) < TLS_BUF_SIZE["appender"]
      /\ Len(fb) = TLS_BUF_SIZE["bnet"] /\ a \in 1..Len(fb)
      /\ Len(fn) + Len(nodes[fb[a]]) < n + NODES_PER_BNET
  <2>1. Collected(t)
    BY <1>1 DEF Placed
  <2>2. /\ Len(freed[t]["appender"]) < TLS_BUF_SIZE["appender"]
        /\ Len(fb) = TLS_BUF_SIZE["bnet"] /\ a \in 1..(Len(fb) + 1)
        /\ Len(fn) + Len(nodes[fb[a]]) < n + NODES_PER_BNET
    BY <1>3, <1>5, <2>1 DEF Collected
  <2> QED
    BY <1>4, <1>5, <2>2
<1>7. Len(fn) < n + NODES_PER_BNET
  <2>1. Len(nodes[fb[a]]) = 0
    BY <1>5
  <2> QED
    BY <1>4, <1>6, <2>1
<1>8. \A i \in 1..Len(fb) : i < a + 1 => nodes[fb[i]] = <<>>
  <2> SUFFICES ASSUME NEW i \in 1..Len(fb), i < a + 1 PROVE nodes[fb[i]] = <<>>
    OBVIOUS
  <2>1. i < a \/ i = a
    BY <1>4
  <2>2. Cleared(t)
    BY <1>1 DEF Emptied
  <2>3. i < a => nodes[fb[i]] = <<>>
    BY <1>3, <1>5, <2>2 DEF Cleared
  <2> QED
    BY <1>5, <2>1, <2>3
<1>9. at \in [Threads -> [{"bnet", "node"} -> Nat]] /\ pc \in [Threads -> {"idle", "bnets", "nodes", "undefined"}]
  BY <1>1 DEF TypeOK
<1>10. \/ /\ Len(fn) >= n
          /\ pc' = [pc EXCEPT ![t] = "nodes"] /\ at' = [at EXCEPT ![t]["node"] = 1]
       \/ /\ ~(Len(fn) >= n)
          /\ pc' = pc /\ at' = [at EXCEPT ![t]["bnet"] = a + 1]
  BY <1>3 DEF NodesFreed, Full, FirstNode
<1>11. /\ at' \in [Threads -> [{"bnet", "node"} -> Nat]]
       /\ pc' \in [Threads -> {"idle", "bnets", "nodes", "undefined"}]
       /\ \A u \in Threads : u # t => pc'[u] = pc[u] /\ at'[u] = at[u]
  <2>1. \E j \in {"bnet", "node"}, m \in Nat : at' = [at EXCEPT ![t][j] = m]
    <3>1. CASE at' = [at EXCEPT ![t]["node"] = 1]
      BY <3>1
    <3>2. CASE at' = [at EXCEPT ![t]["bnet"] = a + 1]
      <4>1. a + 1 \in Nat
        BY <1>4
      <4> QED
        BY <3>2, <4>1
    <3> QED
      BY <1>10, <3>1, <3>2
  <2>2. PICK q \in {"bnets", "nodes"} : pc' = [pc EXCEPT ![t] = q]
    <3>1. pc' = pc => pc' = [pc EXCEPT ![t] = "bnets"]
      BY <1>5, <1>9
    <3> QED
      BY <1>10, <3>1
  <2> QED
    BY <1>9, <2>1, <2>2
<1>12. TypeOK'
  BY <1>1, <1>2, <1>11 DEF TypeOK
<1>13. ASSUME NEW u \in Threads, u # t PROVE Collected(u)' /\ Cleared(u)'
  <2>1. Collected(u) /\ Cleared(u) /\ at[u]["bnet"] \in Nat
    BY <1>1 DEF Placed, Emptied, TypeOK
  <2>2. pc'[u] = pc[u] /\ at'[u] = at[u] /\ freed'[u] = freed[u]
    BY <1>2, <1>11, <1>13
  <2>3. /\ \A i \in 1..Len(freed[u]["bnet"]) : nodes'[freed[u]["bnet"][i]] = nodes[freed[u]["bnet"][i]]
        /\ \A i \in 1..Len(freed[u]["node"]) :
             appenders[freed[u]["node"][i]] = <<>> => appenders'[freed[u]["node"][i]] = <<>>
    BY <1>2
  <2> QED
    BY <2>1, <2>2, <2>3, OtherThread
<1>14. Collected(t)' /\ Cleared(t)'
  <2>1. CASE Len(fn) >= n /\ pc' = [pc EXCEPT ![t] = "nodes"] /\ at' = [at EXCEPT ![t]["node"] = 1]
    <3>1. pc'[t] = "nodes" /\ at'[t]["node"] = 1 /\ at'[t]["bnet"] = a
      BY <1>3, <1>9, <2>1
    <3>2. freed'[t]["bnet"] = fb /\ freed'[t]["node"] = fn /\ freed'[t]["appender"] = freed[t]["appender"]
      BY <1>2, <1>3
    <3>3. Len(fn) \in n..(n + NODES_PER_BNET)
      BY <1>4, <1>7, <2>1
    <3>4. Collected(t)'
      BY <1>3, <1>6, <3>1, <3>2, <3>3 DEF Collected
    <3>5. \A i \in 1..Len(fb) : i < a \/ i = a => nodes'[fb[i]] = <<>>
      BY <1>2, <1>4, <1>8
    <3>6. Cleared(t)'
      BY <3>1, <3>2, <3>5 DEF Cleared
    <3> QED
      BY <3>4, <3>6
  <2>2. CASE ~(Len(fn) >= n) /\ pc' = pc /\ at' = [at EXCEPT ![t]["bnet"] = a + 1]
    <3>1. pc'[t] = "bnets" /\ at'[t]["bnet"] = a + 1
      BY <1>4, <1>5, <1>9, <2>2
    <3>2. freed'[t]["bnet"] = fb /\ freed'[t]["node"] = fn /\ freed'[t]["appender"] = freed[t]["appender"]
      BY <1>2, <1>3
    <3>3. Len(fn) < n /\ a + 1 \in 1..(Len(fb) + 1)
      <4>1. PICK l, m \in Nat : l = Len(fn) /\ m = n
        BY <1>4
      <4>2. ~(l >= m)
        BY <2>2, <4>1
      <4>3. l < m
        BY <4>2
      <4>4. a + 1 \in 1..(Len(fb) + 1)
        BY <1>4, <1>6
      <4> QED
        BY <4>1, <4>3, <4>4
    <3>4. ASSUME a + 1 <= Len(fb) PROVE Len(fn) + Len(nodes'[fb[a + 1]]) < n + NODES_PER_BNET
      <4>1. a + 1 \in 1..Len(fb)
        BY <1>4, <3>4
      <4>2. fb[a + 1] \in 1..made["bnet"]
        BY <1>1, <1>3, <4>1, FreedIs DEF Kinds
      <4>3. Len(nodes'[fb[a + 1]]) <= NODES_PER_BNET /\ nodes'[fb[a + 1]] \in Seq(Nat)
        BY <1>1, <1>2, <4>2 DEF Placed, ArraysFit, TypeOK
      <4>4. Len(nodes'[fb[a + 1]]) \in Nat
        BY <4>3
      <4> QED
        BY <1>4, <3>3, <4>3, <4>4
    <3>5. Collected(t)'
      BY <1>3, <1>6, <3>1, <3>2, <3>3, <3>4 DEF Collected
    <3>6. Cleared(t)'
      BY <1>2, <1>8, <3>1, <3>2 DEF Cleared
    <3> QED
      BY <3>5, <3>6
  <2> QED
    BY <1>10, <2>1, <2>2
<1>15. \A u \in Threads : Builds(u)'
  <2> SUFFICES ASSUME NEW u \in Threads PROVE Builds(u)'
    OBVIOUS
  <2>1. Builds(u)
    BY <1>1 DEF Placed
  <2>2. pc'[u] # "undefined" => pc[u] # "undefined"
    BY <1>5, <1>9, <1>11
  <2> QED
    BY <1>2, <2>1, <2>2 DEF Builds
<1> QED
  BY <1>2, <1>12, <1>13, <1>14, <1>15, OnlyPlace

LEMMA FreeBnetStep ==
  ASSUME IInv, StoreAssumption, NEW t \in Threads, FreeBnet(t)
  PROVE  IInv'
<1>1. TypeOK /\ Distinct /\ Counted /\ Kept /\ Placed /\ Emptied /\ HandedOutEmpty
  BY DEF IInv
<1>2. /\ store' = store /\ made' = made /\ buffer' = buffer /\ index' = index
      /\ refcnt' = refcnt /\ appenders' = appenders /\ nodes' = nodes /\ lost' = lost
      /\ plan' = plan /\ plan[t] = <<>> /\ pc[t] = "idle"
  BY DEF FreeBnet, Idle
<1>3. /\ held \in [Threads -> Seq(Nat)] /\ freed \in [Threads -> [Kinds -> Seq(Nat)]]
      /\ nodes \in [1..made["bnet"] -> Seq(Nat)]
      /\ at \in [Threads -> [{"bnet", "node"} -> Nat]]
      /\ pc \in [Threads -> {"idle", "bnets", "nodes", "undefined"}]
      /\ "bnet" \in Kinds /\ "node" \in Kinds /\ "appender" \in Kinds
  BY <1>1 DEF TypeOK, Kinds
<1>4. PICK i \in DOMAIN held[t] :
        /\ held' = [held EXCEPT ![t] = RemoveAt(@, i)]
        /\ freed' = [freed EXCEPT ![t]["bnet"] = Append(freed[t]["bnet"], held[t][i])]
        /\ IF Full("bnet", Append(freed[t]["bnet"], held[t][i]))
           THEN pc' = [pc EXCEPT ![t] = "bnets"] /\ at' = [at EXCEPT ![t]["bnet"] = 1]
           ELSE UNCHANGED <<pc, at>>
  BY DEF FreeBnet
<1>5. i \in 1..Len(held[t]) /\ held[t] \in Seq(Nat)
  <2>1. held[t] \in Seq(Nat)
    BY <1>3
  <2> QED
    BY <2>1
<1>6. PICK x : x = held[t][i]
  OBVIOUS
<1>7. x \in 1..made["bnet"] /\ x \in Nat
  BY <1>1, <1>5, <1>6, HeldIs
<1>8. PICK fb, buf, n : /\ fb = freed[t]["bnet"] /\ buf = Append(fb, x) /\ n = TLS_BUF_SIZE["bnet"]
  OBVIOUS
<1>9. fb \in Seq(Nat) /\ buf \in Seq(Nat) /\ Len(buf) = Len(fb) + 1 /\ Len(fb) \in Nat /\ n \in Nat \ {0}
  <2>1. fb \in Seq(Nat)
    BY <1>3, <1>8
  <2>2. n \in Nat \ {0}
    BY <1>3, <1>8 DEF StoreAssumption
  <2> QED
    BY <1>7, <1>8, <2>1, <2>2, AppendProperties
<1>10. /\ held' \in [Threads -> Seq(Nat)] /\ held'[t] = RemoveAt(held[t], i)
       /\ \A u \in Threads : u # t => held'[u] = held[u]
  <2>1. RemoveAt(held[t], i) \in Seq(Nat)
    BY <1>5, RemovedAt
  <2> QED
    BY <1>3, <1>4, <2>1
<1>11. /\ freed' \in [Threads -> [Kinds -> Seq(Nat)]] /\ freed'[t]["bnet"] = buf
       /\ \A k \in Kinds : k # "bnet" => freed'[t][k] = freed[t][k]
       /\ \A u \in Threads : u # t => freed'[u] = freed[u]
  <2>1. freed' = [freed EXCEPT ![t]["bnet"] = buf]
    BY <1>4, <1>6, <1>8
  <2> QED
    BY <1>3, <1>9, <2>1
<1>12. \/ Len(buf) >= n /\ pc' = [pc EXCEPT ![t] = "bnets"] /\ at' = [at EXCEPT ![t]["bnet"] = 1]
       \/ ~(Len(buf) >= n) /\ pc' = pc /\ at' = at
  BY <1>4, <1>6, <1>8 DEF Full
<1>13. /\ at' \in [Threads -> [{"bnet", "node"} -> Nat]]
       /\ pc' \in [Threads -> {"idle", "bnets", "nodes", "undefined"}]
       /\ \A u \in Threads : u # t => pc'[u] = pc[u] /\ at'[u] = at[u]
  <2>1. CASE pc' = [pc EXCEPT ![t] = "bnets"] /\ at' = [at EXCEPT ![t]["bnet"] = 1]
    BY <1>3, <2>1
  <2>2. CASE pc' = pc /\ at' = at
    BY <1>3, <2>2
  <2> QED
    BY <1>12, <2>1, <2>2
<1>14. TypeOK'
  BY <1>1, <1>2, <1>10, <1>11, <1>13 DEF TypeOK
<1>15. ASSUME NEW u \in Threads, u # t PROVE Collected(u)' /\ Cleared(u)'
  <2>1. Collected(u) /\ Cleared(u) /\ at[u]["bnet"] \in Nat
    BY <1>1 DEF Placed, Emptied, TypeOK
  <2>2. pc'[u] = pc[u] /\ at'[u] = at[u] /\ freed'[u] = freed[u]
    BY <1>11, <1>13, <1>15
  <2> QED
    BY <1>2, <2>1, <2>2, OtherThread
<1>16. Collected(t)' /\ Cleared(t)'
  <2>1. PICK fn, fa : fn = freed[t]["node"] /\ fa = freed[t]["appender"]
    OBVIOUS
  <2>2. /\ Len(fa) < TLS_BUF_SIZE["appender"] /\ Len(fb) < n /\ Len(fn) < TLS_BUF_SIZE["node"]
    <3>1. Collected(t)
      BY <1>1 DEF Placed
    <3> QED
      BY <1>2, <1>8, <2>1, <3>1 DEF Collected
  <2>3. freed'[t]["node"] = fn /\ freed'[t]["appender"] = fa
    BY <1>3, <1>11, <2>1
  <2>4. CASE Len(buf) >= n /\ pc' = [pc EXCEPT ![t] = "bnets"] /\ at' = [at EXCEPT ![t]["bnet"] = 1]
    <3>0. Len(buf) = n
      BY <1>9, <2>2, <2>4
    <3>1. pc'[t] = "bnets" /\ at'[t]["bnet"] = 1 /\ Len(buf) = n
      BY <1>3, <2>4, <3>0
    <3>2. 1 \in 1..Len(buf) /\ 1 \in 1..(Len(buf) + 1)
      BY <1>9
    <3>3. Len(fn) + Len(nodes'[buf[1]]) < TLS_BUF_SIZE["node"] + NODES_PER_BNET
      <4>1. buf[1] \in 1..made["bnet"]
        <5>1. CASE Len(fb) = 0
          <6>1. buf[1] = x
            BY <1>7, <1>8, <1>9, <5>1, AppendProperties
          <6> QED
            BY <1>7, <6>1
        <5>2. CASE 1 <= Len(fb)
          <6>1. buf[1] = fb[1] /\ 1 \in 1..Len(fb)
            BY <1>7, <1>8, <1>9, <5>2, AppendProperties
          <6> QED
            BY <1>1, <1>3, <1>8, <6>1, FreedIs
        <5> QED
          BY <1>9, <5>1, <5>2
      <4>2. Len(nodes[buf[1]]) <= NODES_PER_BNET /\ nodes[buf[1]] \in Seq(Nat)
        BY <1>1, <1>3, <4>1 DEF Placed, ArraysFit
      <4>3. Len(nodes[buf[1]]) \in Nat /\ Len(fn) \in Nat /\ NODES_PER_BNET \in Nat
        <5>1. fn \in Seq(Nat)
          BY <1>3, <2>1
        <5> QED
          BY <4>2, <5>1 DEF StoreAssumption
      <4>4. TLS_BUF_SIZE["node"] \in Nat
        BY <1>3 DEF StoreAssumption
      <4> QED
        BY <1>2, <2>2, <4>2, <4>3, <4>4
    <3>4. Collected(t)'
      BY <1>8, <1>11, <2>2, <2>3, <3>1, <3>2, <3>3 DEF Collected
    <3>5. \A j \in 1..Len(buf) : ~(j < 1)
      OBVIOUS
    <3>6. Cleared(t)'
      BY <1>11, <3>1, <3>5 DEF Cleared
    <3> QED
      BY <3>4, <3>6
  <2>5. CASE ~(Len(buf) >= n) /\ pc' = pc /\ at' = at
    <3>1. pc'[t] = "idle" /\ Len(buf) < n
      BY <1>2, <1>9, <2>5
    <3>2. Collected(t)'
      BY <1>8, <1>11, <2>2, <2>3, <3>1 DEF Collected
    <3>3. Cleared(t)'
      BY <3>1 DEF Cleared
    <3> QED
      BY <3>2, <3>3
  <2> QED
    BY <1>12, <2>4, <2>5
<1>17. Placed' /\ Emptied'
  <2>1. ASSUME NEW u \in Threads PROVE Builds(u)'
    <3>1. CASE u = t
      BY <1>2, <3>1 DEF Builds
    <3>2. CASE u # t
      BY <1>1, <1>2, <1>10, <1>13, <3>2 DEF Placed, Builds
    <3> QED
      BY <3>1, <3>2
  <2>2. Windows' /\ ArraysFit'
    BY <1>1, <1>2 DEF Placed, Windows, ArraysFit
  <2> QED
    BY <1>15, <1>16, <2>1, <2>2 DEF Placed, Emptied
<1>18. \A m : Users("node", m)' = Users("node", m)
  BY <1>2 DEF Users
<1>19. /\ SameKind("bnet") /\ SameKind("node") /\ SameKind("appender")
       /\ \A u \in Threads : freed'[u]["node"] = freed[u]["node"] /\ freed'[u]["appender"] = freed[u]["appender"]
       /\ UsesOf("node")' = UsesOf("node") /\ UsesOf("appender")' = UsesOf("appender")
  BY <1>2, <1>3, <1>11 DEF SameKind, UsesOf
<1>20. DistinctOf("node")' /\ KeptOf("node")' /\ DistinctOf("appender")' /\ KeptOf("appender")'
  <2>1. \A m : InUse(m) => InUse(m)'
    BY <1>2, <1>18 DEF InUse
  <2>2. lost["node"] \subseteq lost'["node"] /\ lost["appender"] \subseteq lost'["appender"]
    BY <1>2
  <2> QED
    BY <1>1, <1>3, <1>19, <2>1, <2>2, OtherKind
<1>21. TableOf("node")' = TableOf("node")
  BY <1>3, <1>19, SameTable
<1>22. Counted'
  BY <1>1, <1>2, <1>18, <1>21 DEF Counted
<1>23. DistinctOf("bnet")' /\ KeptOf("bnet")'
  <2>1. PICK S, B, F : S = store["bnet"] /\ B = LeftOf("bnet") /\ F = FreedOf("bnet")
    OBVIOUS
  <2>2. PICK T, U, K : T = TableOf("bnet") /\ U = held /\ K = Threads
    OBVIOUS
  <2>3. Reads(T, K, S, B, F, U)
    <3>1. DOMAIN UsesOf("bnet") = K /\ UsesOf("bnet") = U
      BY <1>3, <2>2 DEF UsesOf
    <3>2. Reads(TableOf("bnet"), DOMAIN UsesOf("bnet"), store["bnet"], LeftOf("bnet"),
                FreedOf("bnet"), UsesOf("bnet"))
      BY <1>1, <1>3, TableReads DEF TablesRead, Placed
    <3> QED
      BY <2>1, <2>2, <3>1, <3>2
  <2>4. PICK G, V, E : G = TableOf("bnet")' /\ V = held' /\ E = FreedOf("bnet")'
    OBVIOUS
  <2>5. Reads(G, K, S, B, E, V)
    <3>1. TypeOK' /\ Windows' => TablesRead'
      BY TableReads, PTL
    <3>2. Reads(TableOf("bnet"), DOMAIN UsesOf("bnet"), store["bnet"], LeftOf("bnet"),
                FreedOf("bnet"), UsesOf("bnet"))'
      BY <1>3, <1>14, <1>17, <3>1 DEF TablesRead, Placed
    <3>3. UsesOf("bnet")' = V /\ DOMAIN V = K
      BY <1>10, <2>2, <2>4 DEF UsesOf
    <3>4. store'["bnet"] = S /\ LeftOf("bnet")' = B
      BY <1>2, <2>1 DEF LeftOf
    <3> QED
      BY <2>4, <3>2, <3>3, <3>4
  <2>6. PICK P : P = Table(S, B, F, V)
    OBVIOUS
  <2>7. Reads(P, K, S, B, F, V)
    <3>1. S \in Seq(Nat) /\ B \in [Threads -> Seq(Nat)] /\ F \in [Threads -> Seq(Nat)]
      <4>1. store["bnet"] \in Seq(Nat)
        BY <1>1, <1>3 DEF TypeOK
      <4>2. LeftOf("bnet") \in [Threads -> Seq(Nat)]
        BY <1>1, <1>3, LeftTyped DEF LeftsTyped, Placed
      <4>3. FreedOf("bnet") \in [Threads -> Seq(Nat)]
        BY <1>3 DEF FreedOf
      <4> QED
        BY <2>1, <4>1, <4>2, <4>3
    <3>2. V \in [K -> Seq(Nat)]
      BY <1>10, <2>2, <2>4
    <3> QED
      BY <2>6, <3>1, <3>2, TableIs
  <2>8. Separate(T) /\ \A y \in Objects(T) : y \in 1..made["bnet"]
    BY <1>1, <1>3, <2>2 DEF Distinct, DistinctOf
  <2>9. Without(Slots(K), T, P, {U[t][i]})
    <3>1. t \in K /\ i \in 1..Len(U[t]) /\ V[t] = RemoveAt(U[t], i) /\ \A d \in K : d # t => V[d] = U[d]
      BY <1>5, <1>10, <2>2, <2>4
    <3> QED
      BY <2>3, <2>7, <2>8, <3>1, TakeUse, SMTT(20)
  <2>10. Separate(P) /\ Objects(T) = Objects(P) \cup {x} /\ x \notin Objects(P)
    BY <1>6, <2>2, <2>9 DEF Without
  <2>11. Separate(G) /\ Objects(G) = Objects(P) \cup {x}
    <3>1. E[t] = Append(F[t], x) /\ \A u \in Threads : u # t => E[u] = F[u]
      BY <1>3, <1>8, <1>11, <2>1, <2>4 DEF FreedOf
    <3> QED
      BY <1>7, <2>5, <2>7, <2>10, <3>1, AddFreed
  <2>12. DistinctOf("bnet")'
    BY <1>2, <2>4, <2>8, <2>10, <2>11 DEF DistinctOf
  <2>13. KeptOf("bnet")'
    BY <1>1, <1>2, <1>3, <2>2, <2>4, <2>10, <2>11 DEF Kept, KeptOf
  <2> QED
    BY <2>12, <2>13
<1>24. Distinct' /\ Kept'
  BY <1>20, <1>23 DEF Distinct, Kept, Kinds
<1>25. HandedOutEmpty'
  <2>1. \A k \in Kinds : \A y : Ready(k, y)' => Ready(k, y)
    BY <1>2 DEF Ready
  <2> QED
    BY <1>1, <1>2, <2>1 DEF HandedOutEmpty, Kinds
<1> QED
  BY <1>14, <1>17, <1>22, <1>24, <1>25 DEF IInv

(* What thread t has collected of kind k is one more, and nothing else.    *)
Collects(t, k, x) ==
  /\ freed'[t][k] = Append(freed[t][k], x)
  /\ \A j \in Kinds : j # k => freed'[t][j] = freed[t][j]
  /\ \A u \in Threads : u # t => freed'[u] = freed[u]

LEMMA NodeCollected ==
  ASSUME TypeOK, Placed, TypeOK', Placed', Distinct, SameKind("node"),
         NEW t \in Threads, NEW n \in Nat, n \notin Objects(TableOf("node")), Collects(t, "node", n)
  PROVE  /\ Separate(TableOf("node")')
         /\ Objects(TableOf("node")') = Objects(TableOf("node")) \cup {n}
<1>1. PICK S, B, F, U, K, T : /\ S = store["node"] /\ B = LeftOf("node") /\ F = FreedOf("node")
                              /\ U = UsesOf("node") /\ K = DOMAIN UsesOf("node") /\ T = TableOf("node")
  BY Zenon
<1>2. "node" \in Kinds
  BY DEF Kinds
<1>3. Reads(T, K, S, B, F, U) /\ Separate(T)
  BY <1>1, <1>2, TableReads DEF TablesRead, Placed, Distinct, DistinctOf
<1>4. PICK G, E : G = TableOf("node")' /\ E = FreedOf("node")'
  OBVIOUS
<1>5. Reads(G, K, S, B, E, U)
  <2>1. TypeOK' /\ Windows' => TablesRead'
    BY TableReads, PTL
  <2>2. Reads(TableOf("node"), DOMAIN UsesOf("node"), store["node"], LeftOf("node"),
              FreedOf("node"), UsesOf("node"))'
    BY <1>2, <2>1 DEF TablesRead, Placed
  <2>3. UsesOf("node")' = U /\ DOMAIN U = K
    BY <1>1 DEF UsesOf
  <2>4. store'["node"] = S /\ LeftOf("node")' = B
    BY <1>1 DEF LeftOf, SameKind
  <2> QED
    BY <1>4, <2>2, <2>3, <2>4
<1>6. E[t] = Append(F[t], n) /\ \A u \in Threads : u # t => E[u] = F[u]
  BY <1>1, <1>2, <1>4 DEF FreedOf, Collects
<1> QED
  BY <1>1, <1>3, <1>4, <1>5, <1>6, AddFreed

LEMMA NoUsers ==
  ASSUME NEW V, NEW W, V = {}, IsFiniteSet(W), Cardinality(W) <= Cardinality(V)
  PROVE  W = {}
<1>1. Cardinality(V) = 0
  BY FS_EmptySet
<1>2. Cardinality(W) \in Nat
  BY FS_CardinalityType
<1>3. Cardinality(W) = 0
  BY <1>1, <1>2
<1> QED
  BY <1>3, FS_EmptySet

LEMMA FreeNodeStep ==
  ASSUME IInv, StoreAssumption, NEW t \in Threads, FreeNode(t)
  PROVE  IInv'
<1>1. TypeOK /\ Distinct /\ Counted /\ Kept /\ Placed /\ Emptied /\ HandedOutEmpty
  BY DEF IInv
<1>2. /\ store' = store /\ made' = made /\ buffer' = buffer /\ index' = index
      /\ refcnt' = refcnt /\ appenders' = appenders /\ held' = held /\ lost' = lost
      /\ plan' = plan /\ pc' = pc /\ at' = at /\ pc[t] = "bnets"
  BY DEF FreeNode
<1>3. /\ freed \in [Threads -> [Kinds -> Seq(Nat)]] /\ nodes \in [1..made["bnet"] -> Seq(Nat)]
      /\ at \in [Threads -> [{"bnet", "node"} -> Nat]] /\ refcnt \in [1..made["node"] -> Nat \ {0}]
      /\ "bnet" \in Kinds /\ "node" \in Kinds /\ "appender" \in Kinds
  BY <1>1 DEF TypeOK, Kinds
<1>4. PICK fb, fn, a, b, n : /\ fb = freed[t]["bnet"] /\ fn = freed[t]["node"] /\ a = at[t]["bnet"]
                             /\ b = fb[a] /\ n = Head(nodes[b])
  OBVIOUS
<1>5. /\ a <= Len(fb) /\ nodes[b] # <<>> /\ nodes' = [nodes EXCEPT ![b] = Tail(@)]
      /\ freed' = IF refcnt[n] = 1 THEN [freed EXCEPT ![t]["node"] = Append(@, n)] ELSE freed
  BY <1>4 DEF FreeNode, Alone
<1>6. /\ fb \in Seq(Nat) /\ fn \in Seq(Nat) /\ Len(fb) \in Nat /\ Len(fn) \in Nat /\ a \in Nat
  <2>1. freed[t]["bnet"] \in Seq(Nat) /\ freed[t]["node"] \in Seq(Nat)
    BY <1>3
  <2>2. at[t]["bnet"] \in Nat
    BY <1>3
  <2> QED
    BY <1>4, <2>1, <2>2
<1>7. a \in 1..Len(fb)
  <2>1. a \in 1..(Len(fb) + 1)
    BY <1>1, <1>2, <1>4 DEF Placed, Collected
  <2> QED
    BY <1>5, <1>6, <2>1
<1>8. /\ b \in 1..made["bnet"] /\ ~Ready("bnet", b)
      /\ \A u \in Threads : \A j \in 1..Len(freed[u]["bnet"]) : freed[u]["bnet"][j] = b => u = t /\ j = a
  <2>1. a \in 1..Len(freed[t]["bnet"]) /\ b = freed[t]["bnet"][a]
    BY <1>4, <1>7
  <2>2. b \in 1..made["bnet"]
    BY <1>1, <1>3, <2>1, FreedIs
  <2>3. /\ ~Ready("bnet", b)
        /\ \A u \in Threads : \A j \in 1..Len(freed[u]["bnet"]) : freed[u]["bnet"][j] = b => u = t /\ j = a
    BY <1>1, <1>3, <2>1, FreedApart, SMTT(30)
  <2> QED
    BY <2>2, <2>3
<1>9. nodes[b] \in Seq(Nat) /\ 1 \in 1..Len(nodes[b]) /\ n = nodes[b][1] /\ Len(nodes[b]) \in Nat \ {0}
  <2>1. nodes[b] \in Seq(Nat)
    BY <1>3, <1>8
  <2> QED
    <3>1. PICK s \in Seq(Nat) : s = nodes[b]
      BY <2>1
    <3>2. s # <<>> /\ n = Head(s)
      BY <1>4, <1>5, <3>1
    <3>3. 1 \in 1..Len(s) /\ Head(s) = s[1] /\ Len(s) \in Nat \ {0}
      BY <3>2
    <3> QED
      BY <3>1, <3>2, <3>3
<1>10. /\ n \in 1..made["node"] /\ n \in Nat /\ Users("node", n) # {} /\ n \notin Objects(TableOf("node"))
       /\ ~Ready("node", n)
  <2>1. /\ nodes[b][1] \in 1..made["node"] /\ Users("node", nodes[b][1]) # {}
        /\ nodes[b][1] \notin Objects(TableOf("node")) /\ ~Ready("node", nodes[b][1])
    BY <1>1, <1>8, <1>9, NodeInUse
  <2> QED
    BY <1>9, <2>1
<1>11. /\ nodes' \in [1..made["bnet"] -> Seq(Nat)] /\ nodes'[b] = Tail(nodes[b])
       /\ \A c \in 1..made["bnet"] : c # b => nodes'[c] = nodes[c]
       /\ Len(nodes'[b]) = Len(nodes[b]) - 1
       /\ \A i \in 1..Len(nodes'[b]) : i + 1 \in 1..Len(nodes[b]) /\ nodes'[b][i] = nodes[b][i + 1]
  <2>1. /\ Tail(nodes[b]) \in Seq(Nat) /\ Len(Tail(nodes[b])) = Len(nodes[b]) - 1
        /\ \A i \in 1..Len(Tail(nodes[b])) : Tail(nodes[b])[i] = nodes[b][i + 1]
    BY <1>5, <1>9, HeadTailProperties
  <2>2. /\ nodes' \in [1..made["bnet"] -> Seq(Nat)] /\ nodes'[b] = Tail(nodes[b])
        /\ \A c \in 1..made["bnet"] : c # b => nodes'[c] = nodes[c]
    BY <1>3, <1>5, <1>8, <2>1
  <2>3. \A i \in 1..Len(Tail(nodes[b])) : i + 1 \in 1..Len(nodes[b])
    BY <1>9, <2>1
  <2> QED
    BY <2>1, <2>2, <2>3
<1>12. /\ freed' \in [Threads -> [Kinds -> Seq(Nat)]]
       /\ refcnt[n] = 1 => Collects(t, "node", n)
       /\ refcnt[n] # 1 => freed' = freed
       /\ \A u \in Threads : u # t => freed'[u] = freed[u]
       /\ \A u \in Threads, k \in Kinds : k # "node" => freed'[u][k] = freed[u][k]
  <2>1. CASE refcnt[n] = 1
    <3>1. PICK z \in Seq(Nat) : z = Append(fn, n)
      BY <1>6, <1>10, AppendProperties
    <3>2. freed' = [freed EXCEPT ![t]["node"] = z]
      BY <1>4, <1>5, <2>1, <3>1
    <3>3. /\ freed' \in [Threads -> [Kinds -> Seq(Nat)]] /\ freed'[t]["node"] = z
          /\ \A k \in Kinds : k # "node" => freed'[t][k] = freed[t][k]
          /\ \A u \in Threads : u # t => freed'[u] = freed[u]
      BY <1>3, <3>2
    <3>4. Collects(t, "node", n)
      BY <1>4, <3>1, <3>3 DEF Collects
    <3> QED
      BY <2>1, <3>3, <3>4
  <2>2. CASE refcnt[n] # 1
    BY <1>3, <1>5, <2>2
  <2> QED
    BY <2>1, <2>2
<1>13. TypeOK'
  BY <1>1, <1>2, <1>11, <1>12 DEF TypeOK
<1>14. ASSUME NEW u \in Threads, u # t PROVE Collected(u)' /\ Cleared(u)'
  <2>1. Collected(u) /\ Cleared(u) /\ at[u]["bnet"] \in Nat
    BY <1>1 DEF Placed, Emptied, TypeOK
  <2>2. \A i \in 1..Len(freed[u]["bnet"]) : nodes'[freed[u]["bnet"][i]] = nodes[freed[u]["bnet"][i]]
    <3>1. \A i \in 1..Len(freed[u]["bnet"]) : freed[u]["bnet"][i] \in 1..made["bnet"]
      BY <1>1, <1>3, FreedIs
    <3>2. \A i \in 1..Len(freed[u]["bnet"]) : freed[u]["bnet"][i] # b
      BY <1>8, <1>14, SMTT(30)
    <3> QED
      BY <1>11, <3>1, <3>2
  <2> QED
    BY <1>2, <1>12, <1>14, <2>1, <2>2, OtherThread
<1>15. Collected(t)'
  <2>1. PICK fa, m : fa = freed[t]["appender"] /\ m = TLS_BUF_SIZE["node"] + NODES_PER_BNET
    BY SMTT(30)
  <2>2. /\ Len(fa) < TLS_BUF_SIZE["appender"] /\ Len(fb) = TLS_BUF_SIZE["bnet"]
        /\ Len(fn) + Len(nodes[b]) < m
    BY <1>1, <1>2, <1>4, <1>5, <2>1 DEF Placed, Collected
  <2>3. freed'[t]["bnet"] = fb /\ freed'[t]["appender"] = fa
    BY <1>3, <1>4, <1>12, <2>1
  <2>4. \E g \in Seq(Nat) : g = freed'[t]["node"] /\ Len(g) <= Len(fn) + 1
    <3>1. CASE refcnt[n] = 1
      <4>1. freed'[t]["node"] = Append(fn, n)
        BY <1>4, <1>12, <3>1 DEF Collects
      <4>2. PICK z \in Seq(Nat) : z = Append(fn, n) /\ Len(z) = Len(fn) + 1
        BY <1>6, <1>10, AppendProperties
      <4>3. z = freed'[t]["node"] /\ Len(z) <= Len(fn) + 1
        BY <1>6, <4>1, <4>2
      <4> QED
        BY <4>3, SMTT(30)
    <3>2. CASE refcnt[n] # 1
      <4>1. freed'[t]["node"] = fn
        BY <1>4, <1>12, <3>2
      <4>2. Len(fn) <= Len(fn) + 1
        BY <1>6
      <4> QED
        <5>1. Len(freed'[t]["node"]) = Len(fn)
          BY <4>1
        <5>2. Len(freed'[t]["node"]) <= Len(fn) + 1
          BY <4>2, <5>1
        <5>3. freed'[t]["node"] \in Seq(Nat)
          BY <1>6, <4>1, SMTT(30)
        <5> QED
          BY <5>2, <5>3
    <3> QED
      BY <3>1, <3>2
  <2>5. PICK g \in Seq(Nat) : g = freed'[t]["node"] /\ Len(g) <= Len(fn) + 1
    BY <2>4
  <2>6. Len(g) + Len(nodes'[b]) < m
    <3>1. m \in Nat
      BY <1>3, <2>1, SMTT(30) DEF StoreAssumption
    <3>2. Len(g) \in Nat
      OBVIOUS
    <3>3. Len(nodes'[b]) = Len(nodes[b]) - 1 /\ Len(nodes[b]) \in Nat \ {0}
      BY <1>9, <1>11
    <3>4. PICK p \in Int, q \in Int, r \in Int, v \in Int :
            p = Len(g) /\ q = Len(nodes'[b]) /\ r = Len(fn) /\ v = Len(nodes[b])
      BY <1>6, <3>2, <3>3
    <3>5. p <= r + 1 /\ q = v - 1 /\ r + v < m
      BY <2>2, <2>5, <3>3, <3>4
    <3>6. p + q < m
      BY <3>1, <3>5
    <3> QED
      BY <3>4, <3>6
  <2>7. a \in 1..(Len(fb) + 1)
    BY <1>6, <1>7
  <2> QED
    BY <1>2, <1>4, <1>5, <2>1, <2>2, <2>3, <2>5, <2>6, <2>7 DEF Collected
<1>16. Cleared(t)'
  <2>1. freed'[t]["bnet"] = fb
    BY <1>3, <1>4, <1>12
  <2>2. ASSUME NEW i \in 1..Len(fb), i < a PROVE nodes'[fb[i]] = <<>>
    <3>1. fb[i] \in 1..made["bnet"]
      BY <1>1, <1>3, <1>4, FreedIs
    <3>2. fb[i] # b
      BY <1>4, <1>6, <1>8, <2>2
    <3>3. nodes[fb[i]] = <<>>
      BY <1>1, <1>2, <1>4, <2>2 DEF Emptied, Cleared
    <3> QED
      BY <1>11, <3>1, <3>2, <3>3
  <2> QED
    BY <1>2, <1>4, <2>1, <2>2, SMTT(30) DEF Cleared
<1>17. Placed' /\ Emptied'
  <2>1. \A u \in Threads : Builds(u)'
    BY <1>1, <1>2 DEF Placed, Builds
  <2>2. Windows'
    BY <1>1, <1>2 DEF Placed, Windows
  <2>3. ASSUME NEW c \in 1..made["bnet"] PROVE Len(nodes'[c]) <= NODES_PER_BNET
    <3>1. Len(nodes[c]) <= NODES_PER_BNET /\ Len(nodes[b]) <= NODES_PER_BNET
      BY <1>1, <1>8 DEF Placed, ArraysFit
    <3>2. NODES_PER_BNET \in Nat
      BY DEF StoreAssumption
    <3>3. Len(nodes'[b]) = Len(nodes[b]) - 1 /\ Len(nodes[b]) \in Nat
      BY <1>9, <1>11
    <3>4. Len(nodes'[b]) <= NODES_PER_BNET
      BY <3>1, <3>2, <3>3
    <3>5. c # b => nodes'[c] = nodes[c]
      BY <1>11, SMTT(30)
    <3> QED
      BY <3>1, <3>4, <3>5
  <2>4. ArraysFit'
    BY <1>1, <1>2, <2>3 DEF Placed, ArraysFit
  <2> QED
    BY <1>14, <1>15, <1>16, <2>1, <2>2, <2>4 DEF Placed, Emptied
<1>18. \A m : /\ IsFiniteSet(Users("node", m)) =>
                   /\ IsFiniteSet(Users("node", m)')
                   /\ Cardinality(Users("node", m)') <= Cardinality(Users("node", m))
              /\ m # n /\ Users("node", m) # {} => Users("node", m)' # {}
              /\ m = n /\ IsFiniteSet(Users("node", m)) /\ Cardinality(Users("node", m)) <= 1
                   => Users("node", m)' = {}
  BY <1>1, <1>2, <1>4, <1>5, <1>8, <1>13, UsersShrink
<1>19. /\ SameKind("bnet") /\ SameKind("node") /\ SameKind("appender")
       /\ UsesOf("bnet")' = UsesOf("bnet") /\ UsesOf("appender")' = UsesOf("appender")
  BY <1>2 DEF SameKind, UsesOf
<1>20. DistinctOf("bnet")' /\ KeptOf("bnet")' /\ DistinctOf("appender")' /\ KeptOf("appender")'
  <2>1. lost["bnet"] \subseteq lost'["bnet"] /\ lost["appender"] \subseteq lost'["appender"]
    BY <1>2
  <2>2. "bnet" # "node" /\ "appender" # "node"
    OBVIOUS
  <2> QED
    BY <1>1, <1>3, <1>12, <1>19, <2>1, <2>2, OtherKind
<1>21. /\ Separate(TableOf("node")')
       /\ \A y : y \in Objects(TableOf("node")') <=> y \in Objects(TableOf("node")) \/ (y = n /\ refcnt[n] = 1)
  <2>1. CASE refcnt[n] = 1
    BY <1>1, <1>10, <1>12, <1>13, <1>17, <1>19, <2>1, NodeCollected
  <2>2. CASE refcnt[n] # 1
    <3>1. TableOf("node")' = TableOf("node")
      BY <1>3, <1>12, <1>19, <2>2, SameTable DEF UsesOf
    <3> QED
      BY <1>1, <1>3, <2>2, <3>1 DEF Distinct, DistinctOf
  <2> QED
    BY <2>1, <2>2
<1>22. DistinctOf("node")'
  BY <1>1, <1>2, <1>3, <1>10, <1>21 DEF Distinct, DistinctOf
<1>23. KeptOf("node")'
  <2>1. ASSUME NEW y \in 1..made["node"]
        PROVE  y \in Objects(TableOf("node")') \/ y \in lost["node"] \/ InUse(y)'
    <3>1. y \in Objects(TableOf("node")) \/ y \in lost["node"] \/ InUse(y)
      BY <1>1, <1>3 DEF Kept, KeptOf
    <3>2. CASE y # n
      <4>1. InUse(y) => InUse(y)'
        BY <1>2, <1>18, <3>2 DEF InUse
      <4>2. y \in Objects(TableOf("node")) => y \in Objects(TableOf("node")')
        BY <1>21
      <4> QED
        BY <3>1, <4>1, <4>2
    <3>3. CASE y = n
      <4>1. refcnt[n] \in Nat \ {0}
        BY <1>3, <1>10
      <4>2. refcnt[n] = 1 \/ refcnt[n] > 1
        <5>1. PICK r \in Nat \ {0} : r = refcnt[n]
          BY <4>1
        <5>2. r = 1 \/ r > 1
          OBVIOUS
        <5> QED
          BY <5>1, <5>2
      <4> QED
        BY <1>2, <1>21, <3>3, <4>2 DEF InUse
    <3> QED
      BY <3>2, <3>3
  <2> QED
    BY <1>2, <2>1 DEF KeptOf
<1>24. Counted'
  <2>1. ASSUME NEW c \in 1..made["bnet"], NEW i \in 1..Len(nodes'[c]) PROVE nodes'[c][i] \in 1..made["node"]
    <3>1. CASE c # b
      BY <1>1, <1>11, <2>1, <3>1 DEF Counted
    <3>2. CASE c = b
      BY <1>1, <1>11, <2>1, <3>2 DEF Counted
    <3> QED
      BY <3>1, <3>2
  <2>2. ASSUME NEW m \in 1..made["node"]
        PROVE  /\ IsFiniteSet(Users("node", m)') /\ Cardinality(Users("node", m)') <= refcnt[m]
               /\ m \in Objects(TableOf("node")') => Users("node", m)' = {} /\ refcnt[m] = 1
    <3>1. PICK V, W : V = Users("node", m) /\ W = Users("node", m)'
      OBVIOUS
    <3>2. /\ IsFiniteSet(V) /\ Cardinality(V) <= refcnt[m]
          /\ m \in Objects(TableOf("node")) => V = {} /\ refcnt[m] = 1
      BY <1>1, <3>1 DEF Counted
    <3>3. IsFiniteSet(W) /\ Cardinality(W) <= Cardinality(V)
      BY <1>18, <3>1, <3>2
    <3>4. Cardinality(W) <= refcnt[m]
      <4>1. Cardinality(V) \in Nat /\ Cardinality(W) \in Nat /\ refcnt[m] \in Nat
        BY <1>3, <3>2, <3>3, FS_CardinalityType
      <4> QED
        BY <3>2, <3>3, <4>1
    <3>5. ASSUME m \in Objects(TableOf("node")) PROVE W = {} /\ refcnt[m] = 1
      BY <3>2, <3>3, <3>5, NoUsers
    <3>6. ASSUME m = n, refcnt[n] = 1 PROVE W = {} /\ refcnt[m] = 1
      BY <1>18, <3>1, <3>2, <3>6
    <3> QED
      BY <1>21, <3>1, <3>3, <3>4, <3>5, <3>6
  <2> QED
    BY <1>2, <2>1, <2>2 DEF Counted
<1>25. Distinct' /\ Kept'
  BY <1>20, <1>22, <1>23 DEF Distinct, Kept, Kinds
<1>26. HandedOutEmpty'
  <2>1. \A k \in Kinds : \A y : Ready(k, y)' => Ready(k, y)
    BY <1>2 DEF Ready
  <2>2. DOMAIN nodes = 1..made["bnet"] /\ DOMAIN nodes' = 1..made["bnet"]
    BY <1>3, <1>11
  <2> QED
    BY <1>1, <1>2, <1>8, <1>11, <2>1, <2>2 DEF HandedOutEmpty, Kinds
<1> QED
  BY <1>13, <1>17, <1>24, <1>25, <1>26 DEF IInv

-----------------------------------------------------------------------------
(* What has been collected goes back to its store. *)

LEMMA SplitAt ==
  ASSUME NEW f \in Seq(Nat), NEW c \in Nat, c <= Len(f)
  PROVE  /\ SubSeq(f, 1, c) \in Seq(Nat) /\ SubSeq(f, c + 1, Len(f)) \in Seq(Nat)
         /\ \A i \in 1..c : f[i] \in ToSet(SubSeq(f, 1, c))
         /\ \A i \in 1..Len(f) : c < i => f[i] \in ToSet(SubSeq(f, c + 1, Len(f)))
         /\ \A y \in ToSet(SubSeq(f, 1, c)) : \E i \in 1..c : y = f[i]
<1>0. PICK n \in Nat : n = Len(f)
  OBVIOUS
<1>1. PICK p \in Seq(Nat) : p = SubSeq(f, 1, c) /\ Len(p) = c /\ \A i \in 1..c : p[i] = f[i]
  <2>1. /\ SubSeq(f, 1, c) \in Seq(Nat) /\ Len(SubSeq(f, 1, c)) = c - 1 + 1
        /\ \A i \in 1..(c - 1 + 1) : SubSeq(f, 1, c)[i] = f[i + 1 - 1]
    <3>1. 1 \in Nat \ {0} /\ 1 <= c + 1
      OBVIOUS
    <3> QED
      BY <3>1, Part
  <2>2. c - 1 + 1 = c /\ \A i \in 1..c : i + 1 - 1 = i
    OBVIOUS
  <2> QED
    BY <2>1, <2>2
<1>2. PICK r \in Seq(Nat) : /\ r = SubSeq(f, c + 1, n) /\ Len(r) = n - c
                            /\ \A i \in 1..(n - c) : r[i] = f[i + c]
  <2>1. /\ SubSeq(f, c + 1, n) \in Seq(Nat) /\ Len(SubSeq(f, c + 1, n)) = n - (c + 1) + 1
        /\ \A i \in 1..(n - (c + 1) + 1) : SubSeq(f, c + 1, n)[i] = f[i + (c + 1) - 1]
    <3>1. c + 1 \in Nat \ {0} /\ c + 1 <= n + 1
      BY <1>0
    <3> QED
      BY <1>0, <3>1, Part
  <2>2. n - (c + 1) + 1 = n - c /\ \A i \in 1..(n - c) : i + (c + 1) - 1 = i + c
    BY <1>0
  <2> QED
    BY <2>1, <2>2
<1>3. ASSUME NEW i \in 1..c PROVE f[i] \in ToSet(p)
  <2>1. i \in DOMAIN p /\ p[i] = f[i]
    BY <1>1
  <2> QED
    BY <2>1 DEF ToSet
<1>4. ASSUME NEW i \in 1..n, c < i PROVE f[i] \in ToSet(r)
  <2>1. i - c \in 1..(n - c) /\ (i - c) + c = i
    BY <1>0, <1>4
  <2>2. i - c \in DOMAIN r /\ r[i - c] = f[i]
    BY <1>0, <1>2, <2>1
  <2> QED
    BY <2>2 DEF ToSet
<1>5. ASSUME NEW y \in ToSet(p) PROVE \E i \in 1..c : y = f[i]
  <2>1. PICK i \in DOMAIN p : y = p[i]
    BY DEF ToSet
  <2>2. i \in 1..c
    BY <1>1
  <2> QED
    BY <1>1, <2>1, <2>2
<1> QED
  BY <1>0, <1>1, <1>2, <1>3, <1>4, <1>5

LEMMA SetOfBoth ==
  ASSUME NEW p \in Seq(Nat), NEW r \in Seq(Nat)
  PROVE  ToSet(p \o r) = ToSet(p) \cup ToSet(r)
<1>1. PICK m \in Nat, n \in Nat : m = Len(p) /\ n = Len(r)
  OBVIOUS
<1>2. PICK q \in Seq(Nat) : /\ q = p \o r /\ Len(q) = m + n
                            /\ \A i \in 1..(m + n) : q[i] = IF i <= m THEN p[i] ELSE r[i - m]
  <2>1. /\ p \o r \in Seq(Nat) /\ Len(p \o r) = Len(p) + Len(r)
        /\ \A i \in 1..(Len(p) + Len(r)) : (p \o r)[i] = IF i <= Len(p) THEN p[i] ELSE r[i - Len(p)]
    BY ConcatProperties
  <2> QED
    BY <1>1, <2>1
<1>3. ASSUME NEW i \in 1..m PROVE i \in 1..(m + n) /\ q[i] = p[i]
  <2>1. i \in 1..(m + n) /\ i <= m
    OBVIOUS
  <2> QED
    BY <1>2, <2>1
<1>4. ASSUME NEW i \in 1..n PROVE i + m \in 1..(m + n) /\ q[i + m] = r[i]
  <2>1. i + m \in 1..(m + n) /\ ~(i + m <= m) /\ (i + m) - m = i
    OBVIOUS
  <2> QED
    BY <1>2, <2>1
<1>5. ASSUME NEW i \in 1..(m + n) PROVE q[i] \in ToSet(p) \cup ToSet(r)
  <2>1. CASE i <= m
    <3>1. i \in DOMAIN p /\ q[i] = p[i]
      BY <1>1, <1>2, <2>1
    <3> QED
      BY <3>1 DEF ToSet
  <2>2. CASE ~(i <= m)
    <3>1. i - m \in 1..n
      BY <2>2
    <3>2. i - m \in DOMAIN r /\ q[i] = r[i - m]
      BY <1>1, <1>2, <2>2, <3>1
    <3> QED
      BY <3>2 DEF ToSet
  <2> QED
    BY <2>1, <2>2
<1>6. ToSet(p) = {p[i] : i \in 1..m} /\ ToSet(r) = {r[i] : i \in 1..n} /\ ToSet(q) = {q[i] : i \in 1..(m + n)}
  <2>1. DOMAIN p = 1..m /\ DOMAIN r = 1..n /\ DOMAIN q = 1..(m + n)
    BY <1>1, <1>2
  <2> QED
    BY <2>1, Zenon DEF ToSet
<1>7. ToSet(q) \subseteq ToSet(p) \cup ToSet(r)
  BY <1>5, <1>6
<1>8. ToSet(p) \subseteq ToSet(q)
  BY <1>3, <1>6
<1>9. ToSet(r) \subseteq ToSet(q)
  BY <1>4, <1>6
<1> QED
  BY <1>2, <1>7, <1>8, <1>9

(* Sequence f, which went back: the first c of it, or nothing. Set L has   *)
(* what was lost.                                                          *)
Went(f, c, S, Z, L) ==
  \/ Z = S \o SubSeq(f, 1, c) /\ ToSet(SubSeq(f, c + 1, Len(f))) \subseteq L
  \/ Z = S /\ ToSet(SubSeq(f, 1, c) \o SubSeq(f, c + 1, Len(f))) \subseteq L

(* Thread t gives up what it has collected. *)
Gives(t, F, E) == F[t] \in Seq(Nat) /\ E[t] = <<>> /\ \A u \in Threads : u # t => E[u] = F[u]

LEMMA GoesBack ==
  ASSUME NEW K, NEW T, NEW S, NEW B, NEW F, NEW U, Reads(T, K, S, B, F, U), Separate(T),
         NEW G, NEW Z, NEW E, Reads(G, K, Z, B, E, U),
         NEW t \in Threads, Gives(t, F, E),
         NEW c \in Nat, c <= Len(F[t]), NEW L, Went(F[t], c, S, Z, L)
  PROVE  /\ Separate(G)
         /\ \A y \in Objects(G) : y \in Objects(T)
         /\ \A y \in Objects(T) : y \in Objects(G) \/ y \in L
<1>0. E[t] = <<>> /\ \A u \in Threads : u # t => E[u] = F[u]
  BY DEF Gives
<1>1. PICK f \in Seq(Nat) : f = F[t]
  BY DEF Gives
<1>2. SubSeq(f, 1, 0) = <<>> /\ Len(f) \in Nat
  BY SubSeqEmpty
<1>3. CASE Z = S \o SubSeq(f, 1, c) /\ ToSet(SubSeq(f, c + 1, Len(f))) \subseteq L
  <2>1. Cut(f, 1, 0, 1, c, E[t], S, Z)
    <3>1. E[t] = SubSeq(f, 1, 0) /\ Z = S \o SubSeq(f, 1, c)
      BY <1>0, <1>2, <1>3
    <3>2. c <= Len(f)
      BY <1>1
    <3>3. 1..0 \cap 1..c = {}
      OBVIOUS
    <3> QED
      BY <1>2, <3>1, <3>2, <3>3 DEF Cut
  <2>2. Cut(F[t], 1, 0, 1, c, E[t], S, Z)
    BY <1>1, <2>1
  <2>3. Without(Slots(K), T, G, Dropped(F[t], 1, 0, 1, c))
    BY <1>0, <2>2, FreedToStore
  <2>4. ASSUME NEW y \in Dropped(f, 1, 0, 1, c) PROVE y \in L
    <3>1. PICK i \in (Int \ (1..0 \cup 1..c)) \cap 1..Len(f) : y = f[i]
      BY DEF Dropped, Entries
    <3>2. i \in 1..Len(f) /\ c < i
      BY <1>2
    <3> QED
      BY <1>1, <1>3, <3>1, <3>2, SplitAt
  <2> QED
    BY <1>1, <2>3, <2>4 DEF Without
<1>4. CASE Z = S /\ ToSet(SubSeq(f, 1, c) \o SubSeq(f, c + 1, Len(f))) \subseteq L
  <2>1. 1 \in Nat \ {0} /\ 0 \in Nat /\ 0 <= Len(F[t]) /\ 1 <= 0 + 1 /\ E[t] = SubSeq(F[t], 1, 0)
    BY <1>0, <1>1, <1>2
  <2>2. Reads(G, K, S, B, E, U)
    BY <1>4
  <2>3. Without(Slots(K), T, G, Entries(F[t], Int \ 1..0))
    <3>1. PICK a \in Nat \ {0}, z \in Nat : a = 1 /\ z = 0
      OBVIOUS
    <3>2. z <= Len(F[t]) /\ a <= z + 1 /\ E[t] = SubSeq(F[t], a, z)
      BY <2>1, <3>1
    <3>3. Without(Slots(K), T, G, Entries(F[t], Int \ a..z))
      BY <1>0, <2>2, <3>2, KeepFreed
    <3> QED
      BY <3>1, <3>3
  <2>4. ASSUME NEW y \in Entries(f, Int \ 1..0) PROVE y \in L
    <3>1. PICK i \in 1..Len(f) : y = f[i]
      BY DEF Entries
    <3>2. i \in 1..c \/ c < i
      BY <1>2
    <3>3. f[i] \in ToSet(SubSeq(f, 1, c)) \/ f[i] \in ToSet(SubSeq(f, c + 1, Len(f)))
      BY <1>1, <3>2, SplitAt
    <3>4. SubSeq(f, 1, c) \in Seq(Nat) /\ SubSeq(f, c + 1, Len(f)) \in Seq(Nat)
      BY <1>1, SplitAt
    <3>5. ToSet(SubSeq(f, 1, c) \o SubSeq(f, c + 1, Len(f)))
            = ToSet(SubSeq(f, 1, c)) \cup ToSet(SubSeq(f, c + 1, Len(f)))
      BY <3>4, SetOfBoth
    <3> QED
      BY <1>4, <3>1, <3>3, <3>5
  <2> QED
    BY <1>1, <2>3, <2>4 DEF Without
<1> QED
  BY <1>1, <1>3, <1>4 DEF Went

(* What enqueue_bulk changes. *)
LEMMA ReturnFrame ==
  ASSUME TypeOK, NEW k \in Kinds, NEW back \in Seq(Nat), NEW rest \in Seq(Nat), Return(k, back, rest)
  PROVE  /\ store' \in [Kinds -> Seq(Nat)] /\ lost' \in [Kinds -> SUBSET Nat]
         /\ \A j \in Kinds : j # k => store'[j] = store[j]
         /\ \A j \in Kinds : lost[j] \subseteq lost'[j]
         /\ \/ store'[k] = store[k] \o back /\ ToSet(rest) \subseteq lost'[k]
            \/ store'[k] = store[k] /\ ToSet(back \o rest) \subseteq lost'[k]
<1>1. store \in [Kinds -> Seq(Nat)] /\ lost \in [Kinds -> SUBSET Nat]
  BY DEF TypeOK
<1>2. back \o rest \in Seq(Nat) /\ store[k] \o back \in Seq(Nat)
  BY <1>1, ConcatProperties
<1>3. \A s \in Seq(Nat) : ToSet(s) \in SUBSET Nat
  BY DEF ToSet
<1> HIDE DEF Kinds
<1>4. ASSUME NEW g \in SUBSET Nat, lost' = [lost EXCEPT ![k] = @ \cup g]
      PROVE  lost' \in [Kinds -> SUBSET Nat] /\ g \subseteq lost'[k] /\ \A j \in Kinds : lost[j] \subseteq lost'[j]
  BY <1>1, <1>4
<1>5. CASE store' = [store EXCEPT ![k] = @ \o back] /\ lost' = [lost EXCEPT ![k] = @ \cup ToSet(rest)]
  <2>1. /\ store' \in [Kinds -> Seq(Nat)] /\ store'[k] = store[k] \o back
        /\ \A j \in Kinds : j # k => store'[j] = store[j]
    BY <1>1, <1>2, <1>5
  <2> QED
    BY <1>3, <1>4, <1>5, <2>1
<1>6. CASE store' = store /\ lost' = [lost EXCEPT ![k] = @ \cup ToSet(back \o rest)]
  BY <1>1, <1>2, <1>3, <1>4, <1>6
<1> QED
  BY <1>5, <1>6 DEF Return

(* Thread t gives up what it has collected of kind k. *)
Empties(t, k) ==
  /\ freed'[t][k] = <<>>
  /\ \A j \in Kinds : j # k => freed'[t][j] = freed[t][j]
  /\ \A u \in Threads : u # t => freed'[u] = freed[u]

LEMMA Returned ==
  ASSUME TypeOK, Placed, Distinct, Kept, TypeOK', Placed', NEW k \in Kinds, NEW t \in Threads,
         made' = made, buffer' = buffer, index' = index, UsesOf(k)' = UsesOf(k), Empties(t, k),
         NEW c \in Nat, c <= Len(freed[t][k]),
         Went(freed[t][k], c, store[k], store'[k], lost'[k]), lost[k] \subseteq lost'[k],
         k = "node" => \A n \in 1..made["node"] : InUse(n) => InUse(n)'
  PROVE  /\ DistinctOf(k)' /\ KeptOf(k)'
         /\ \A y \in Objects(TableOf(k)') : y \in Objects(TableOf(k))
<1>1. PICK S, B, F, U, K, T : /\ S = store[k] /\ B = LeftOf(k) /\ F = FreedOf(k)
                              /\ U = UsesOf(k) /\ K = DOMAIN UsesOf(k) /\ T = TableOf(k)
  BY Zenon
<1>2. Reads(T, K, S, B, F, U) /\ Separate(T) /\ \A y \in Objects(T) : y \in 1..made[k]
  BY <1>1, TableReads DEF TablesRead, Placed, Distinct, DistinctOf
<1>3. PICK G, E, Z, L : G = TableOf(k)' /\ E = FreedOf(k)' /\ Z = store'[k] /\ L = lost'[k]
  BY Zenon
<1>4. Reads(G, K, Z, B, E, U)
  <2>1. TypeOK' /\ Windows' => TablesRead'
    BY TableReads, PTL
  <2>2. Reads(TableOf(k)', DOMAIN (UsesOf(k)'), store'[k], LeftOf(k)', FreedOf(k)', UsesOf(k)')
    BY <2>1 DEF TablesRead, Placed
  <2>3. LeftOf(k)' = B
    BY <1>1 DEF LeftOf
  <2> QED
    BY <1>1, <1>3, <2>2, <2>3
<1>5. freed \in [Threads -> [Kinds -> Seq(Nat)]] /\ freed' \in [Threads -> [Kinds -> Seq(Nat)]]
  BY DEF TypeOK
<1>6. F[t] = freed[t][k] /\ Gives(t, F, E)
  BY <1>1, <1>3, <1>5 DEF FreedOf, Empties, Gives
<1>7. Went(F[t], c, S, Z, L) /\ c <= Len(F[t])
  BY <1>1, <1>3, <1>6
<1>8. /\ Separate(G)
      /\ \A y \in Objects(G) : y \in Objects(T)
      /\ \A y \in Objects(T) : y \in Objects(G) \/ y \in L
  BY <1>2, <1>4, <1>6, <1>7, GoesBack
<1>9. DistinctOf(k)'
  BY <1>2, <1>3, <1>8 DEF DistinctOf
<1>10. KeptOf(k)'
  <2>1. KeptOf(k)
    BY DEF Kept
  <2>2. ASSUME NEW y \in 1..made[k] PROVE y \in Objects(G) \/ y \in L \/ (k = "node" /\ InUse(y)')
    <3>1. y \in Objects(T) \/ y \in lost[k] \/ (k = "node" /\ InUse(y))
      BY <1>1, <2>1 DEF KeptOf
    <3> QED
      BY <1>3, <1>8, <3>1
  <2> QED
    BY <1>3, <2>2 DEF KeptOf
<1> QED
  BY <1>1, <1>3, <1>8, <1>9, <1>10

(* The first c of what thread t has collected go to the store, or nothing. *)
Stored(t, k, c) ==
  /\ buffer' = buffer /\ index' = index
  /\ \A j \in Kinds : j # k => store'[j] = store[j]
  /\ store'[k] = store[k] \o SubSeq(freed[t][k], 1, c) \/ store'[k] = store[k]

(* What can be handed out then could be before, or was collected. *)
LEMMA ReadyThen ==
  ASSUME TypeOK, NEW t \in Threads, NEW k \in Kinds, NEW c \in Nat, c <= Len(freed[t][k]),
         Stored(t, k, c)
  PROVE  \A j \in Kinds : \A y :
           Ready(j, y)' => Ready(j, y) \/ (j = k /\ \E i \in 1..c : y = freed[t][k][i])
<1> SUFFICES ASSUME NEW j \in Kinds, NEW y, Ready(j, y)', ~Ready(j, y)
             PROVE  j = k /\ \E i \in 1..c : y = freed[t][k][i]
  OBVIOUS
<1>1. y \in ToSet(store'[j]) /\ y \notin ToSet(store[j])
  BY DEF Ready, Stored
<1>2. j = k /\ store'[k] = store[k] \o SubSeq(freed[t][k], 1, c)
  <2>1. store'[j] # store[j]
    BY <1>1
  <2> QED
    BY <2>1 DEF Stored
<1>3. PICK f \in Seq(Nat) : f = freed[t][k] /\ c <= Len(f)
  <2>1. freed \in [Threads -> [Kinds -> Seq(Nat)]]
    BY DEF TypeOK
  <2>2. freed[t][k] \in Seq(Nat)
    BY <2>1
  <2> QED
    BY <2>2
<1>4. PICK p \in Seq(Nat) : p = SubSeq(f, 1, c)
  BY <1>3, SplitAt
<1>5. store[k] \in Seq(Nat)
  BY DEF TypeOK
<1>6. ToSet(store[k] \o p) = ToSet(store[k]) \cup ToSet(p)
  BY <1>5, SetOfBoth
<1>7. y \in ToSet(p)
  BY <1>1, <1>2, <1>3, <1>4, <1>6
<1>8. \E i \in 1..c : y = f[i]
  BY <1>3, <1>4, <1>7, SplitAt
<1> QED
  BY <1>2, <1>3, <1>8

LEMMA ReturnNodesStep ==
  ASSUME IInv, StoreAssumption, NEW t \in Threads, ReturnNodes(t)
  PROVE  IInv'
<1>1. TypeOK /\ Distinct /\ Counted /\ Kept /\ Placed /\ Emptied /\ HandedOutEmpty
  BY DEF IInv
<1>2. /\ made' = made /\ buffer' = buffer /\ index' = index /\ plan' = plan /\ pc[t] = "nodes"
      /\ refcnt' = refcnt /\ appenders' = appenders /\ nodes' = nodes /\ held' = held
  BY DEF ReturnNodes, things
<1>3. /\ freed \in [Threads -> [Kinds -> Seq(Nat)]] /\ nodes \in [1..made["bnet"] -> Seq(Nat)]
      /\ at \in [Threads -> [{"bnet", "node"} -> Nat]]
      /\ pc \in [Threads -> {"idle", "bnets", "nodes", "undefined"}]
      /\ "bnet" \in Kinds /\ "node" \in Kinds /\ "appender" \in Kinds
  BY <1>1 DEF TypeOK, Kinds
<1>4. PICK fb, fn, fa, a, c : /\ fb = freed[t]["bnet"] /\ fn = freed[t]["node"] /\ fa = freed[t]["appender"]
                              /\ a = at[t]["bnet"] /\ c = TLS_BUF_SIZE["node"]
  BY Zenon
<1>5. /\ at[t]["node"] > Len(fn)
      /\ Return("node", SubSeq(fn, 1, c), SubSeq(fn, c + 1, Len(fn)))
      /\ freed' = [freed EXCEPT ![t]["node"] = <<>>]
      /\ pc' = [pc EXCEPT ![t] = "bnets"]
      /\ at' = [at EXCEPT ![t]["node"] = 0, ![t]["bnet"] = a + 1]
  BY <1>4 DEF ReturnNodes
<1>6. /\ fb \in Seq(Nat) /\ fn \in Seq(Nat) /\ Len(fb) \in Nat /\ Len(fn) \in Nat /\ a \in Nat
      /\ c \in Nat \ {0} /\ NODES_PER_BNET \in Nat
  <2>1. fb \in Seq(Nat) /\ fn \in Seq(Nat) /\ a \in Nat
    BY <1>3, <1>4
  <2>2. c \in Nat \ {0} /\ NODES_PER_BNET \in Nat
    BY <1>3, <1>4 DEF StoreAssumption
  <2> QED
    BY <2>1, <2>2
<1>7. /\ Len(fa) < TLS_BUF_SIZE["appender"] /\ Len(fb) = TLS_BUF_SIZE["bnet"]
      /\ a \in 1..Len(fb) /\ c <= Len(fn)
  <2>1. Collected(t)
    BY <1>1 DEF Placed
  <2>2. Len(fn) \in c..(c + NODES_PER_BNET)
    BY <1>2, <1>4, <2>1 DEF Collected
  <2> QED
    BY <1>2, <1>4, <1>6, <2>1, <2>2 DEF Collected
<1>8. /\ \A i \in 1..Len(fb) : i < a + 1 => nodes[fb[i]] = <<>>
      /\ \A i \in 1..Len(fn) : appenders[fn[i]] = <<>>
  <2>1. Cleared(t)
    BY <1>1 DEF Emptied
  <2>2. ASSUME NEW i \in 1..Len(fb), i < a + 1 PROVE nodes[fb[i]] = <<>>
    <3>1. i < a \/ i = a
      BY <1>6, <2>2
    <3> QED
      BY <1>2, <1>4, <2>1, <3>1 DEF Cleared
  <2>3. ASSUME NEW i \in 1..Len(fn) PROVE appenders[fn[i]] = <<>>
    <3>1. at[t]["node"] \in Nat
      BY <1>3
    <3>2. i < at[t]["node"]
      BY <1>5, <1>6, <3>1
    <3> QED
      BY <1>2, <1>4, <2>1, <3>2 DEF Cleared
  <2> QED
    BY <2>2, <2>3
<1>9. /\ store' \in [Kinds -> Seq(Nat)] /\ lost' \in [Kinds -> SUBSET Nat]
      /\ \A j \in Kinds : j # "node" => store'[j] = store[j]
      /\ \A j \in Kinds : lost[j] \subseteq lost'[j]
      /\ Went(fn, c, store["node"], store'["node"], lost'["node"])
  <2>1. PICK back \in Seq(Nat), rest \in Seq(Nat) : back = SubSeq(fn, 1, c) /\ rest = SubSeq(fn, c + 1, Len(fn))
    BY <1>6, <1>7, SplitAt
  <2>2. Return("node", back, rest)
    BY <1>5, <2>1
  <2>3. /\ store' \in [Kinds -> Seq(Nat)] /\ lost' \in [Kinds -> SUBSET Nat]
        /\ \A j \in Kinds : j # "node" => store'[j] = store[j]
        /\ \A j \in Kinds : lost[j] \subseteq lost'[j]
        /\ \/ store'["node"] = store["node"] \o back /\ ToSet(rest) \subseteq lost'["node"]
           \/ store'["node"] = store["node"] /\ ToSet(back \o rest) \subseteq lost'["node"]
    BY <1>1, <1>3, <2>2, ReturnFrame
  <2> QED
    BY <2>1, <2>3 DEF Went
<1>10. /\ freed' \in [Threads -> [Kinds -> Seq(Nat)]] /\ Empties(t, "node")
       /\ freed'[t]["bnet"] = fb /\ freed'[t]["node"] = <<>> /\ freed'[t]["appender"] = fa
       /\ \A u \in Threads : u # t => freed'[u] = freed[u]
  <2>1. <<>> \in Seq(Nat)
    BY EmptySeq
  <2> PICK e : e = <<>> /\ e \in Seq(Nat)
    BY <2>1
  <2>2. freed' = [freed EXCEPT ![t]["node"] = e]
    BY <1>5
  <2>3. /\ freed' \in [Threads -> [Kinds -> Seq(Nat)]] /\ freed'[t]["node"] = e
        /\ \A j \in Kinds : j # "node" => freed'[t][j] = freed[t][j]
        /\ \A u \in Threads : u # t => freed'[u] = freed[u]
    BY <1>3, <2>2
  <2> QED
    BY <1>3, <1>4, <2>3 DEF Empties
<1>11. /\ at' \in [Threads -> [{"bnet", "node"} -> Nat]] /\ at'[t]["bnet"] = a + 1
       /\ pc' \in [Threads -> {"idle", "bnets", "nodes", "undefined"}] /\ pc'[t] = "bnets"
       /\ \A u \in Threads : u # t => pc'[u] = pc[u] /\ at'[u] = at[u]
  <2>1. PICK m \in Nat : m = a + 1
    BY <1>6
  <2>2. at' = [at EXCEPT ![t]["node"] = 0, ![t]["bnet"] = m]
    BY <1>5, <2>1
  <2>3. /\ at' \in [Threads -> [{"bnet", "node"} -> Nat]] /\ at'[t]["bnet"] = m
        /\ \A u \in Threads : u # t => at'[u] = at[u]
    BY <1>3, <2>2
  <2> QED
    BY <1>3, <1>5, <2>1, <2>3
<1>12. TypeOK'
  BY <1>1, <1>2, <1>9, <1>10, <1>11 DEF TypeOK
<1>13. ASSUME NEW u \in Threads, u # t PROVE Collected(u)' /\ Cleared(u)'
  <2>1. Collected(u) /\ Cleared(u) /\ at[u]["bnet"] \in Nat
    BY <1>1 DEF Placed, Emptied, TypeOK
  <2>2. pc'[u] = pc[u] /\ at'[u] = at[u] /\ freed'[u] = freed[u]
    BY <1>10, <1>11, <1>13
  <2> QED
    BY <1>2, <2>1, <2>2, OtherThread
<1>14. Collected(t)' /\ Cleared(t)'
  <2>1. a + 1 \in 1..(Len(fb) + 1) /\ Len(<<>>) = 0 /\ Len(<<>>) < c
    BY <1>6, <1>7
  <2>2. ASSUME a + 1 <= Len(fb) PROVE Len(<<>>) + Len(nodes[fb[a + 1]]) < c + NODES_PER_BNET
    <3>1. a + 1 \in 1..Len(fb)
      BY <1>6, <2>2
    <3>2. fb[a + 1] \in 1..made["bnet"]
      BY <1>1, <1>3, <1>4, <3>1, FreedIs
    <3>3. Len(nodes[fb[a + 1]]) <= NODES_PER_BNET /\ nodes[fb[a + 1]] \in Seq(Nat)
      BY <1>1, <1>3, <3>2 DEF Placed, ArraysFit
    <3>4. Len(nodes[fb[a + 1]]) \in Nat
      BY <3>3
    <3> QED
      BY <1>6, <2>1, <3>3, <3>4
  <2>3. Collected(t)'
    BY <1>2, <1>4, <1>7, <1>10, <1>11, <2>1, <2>2 DEF Collected
  <2>4. Cleared(t)'
    BY <1>2, <1>8, <1>10, <1>11 DEF Cleared
  <2> QED
    BY <2>3, <2>4
<1>15. Placed' /\ Emptied'
  <2>1. ASSUME NEW u \in Threads PROVE Builds(u)'
    <3>1. Builds(u)
      BY <1>1 DEF Placed
    <3>2. pc'[u] # "undefined" => pc[u] # "undefined"
      BY <1>2, <1>11
    <3> QED
      BY <1>2, <3>1, <3>2 DEF Builds
  <2>2. Windows' /\ ArraysFit'
    BY <1>1, <1>2 DEF Placed, Windows, ArraysFit
  <2> QED
    BY <1>13, <1>14, <2>1, <2>2 DEF Placed, Emptied
<1>16. \A m : Users("node", m)' = Users("node", m)
  BY <1>2 DEF Users
<1>17. \A m : InUse(m) => InUse(m)'
  BY <1>2, <1>16 DEF InUse
<1>18. \A k \in Kinds : UsesOf(k)' = UsesOf(k)
  BY <1>2 DEF UsesOf
<1>19. ASSUME NEW k \in Kinds, k # "node" PROVE DistinctOf(k)' /\ KeptOf(k)'
  <2>1. SameKind(k)
    BY <1>2, <1>9, <1>19 DEF SameKind
  <2>2. \A u \in Threads : freed'[u][k] = freed[u][k]
    <3>1. \A u \in Threads : u = t \/ freed'[u] = freed[u]
      BY <1>10
    <3>2. freed'[t][k] = freed[t][k]
      BY <1>10, <1>19 DEF Empties
    <3> QED
      BY <3>1, <3>2
  <2> QED
    BY <1>1, <1>9, <1>18, <1>19, <2>1, <2>2, OtherKind
<1>20. /\ DistinctOf("node")' /\ KeptOf("node")'
       /\ \A y \in Objects(TableOf("node")') : y \in Objects(TableOf("node"))
  <2>1. c \in Nat /\ c <= Len(freed[t]["node"]) /\ lost["node"] \subseteq lost'["node"]
        /\ Went(freed[t]["node"], c, store["node"], store'["node"], lost'["node"])
    BY <1>3, <1>4, <1>6, <1>7, <1>9
  <2> QED
    BY <1>1, <1>2, <1>3, <1>10, <1>12, <1>15, <1>17, <1>18, <2>1, Returned
<1>21. Distinct' /\ Kept'
  BY <1>19, <1>20 DEF Distinct, Kept
<1>22. Counted'
  BY <1>1, <1>2, <1>16, <1>20 DEF Counted
<1>23. HandedOutEmpty'
  <2>1. \A j \in Kinds : \A y :
          Ready(j, y)' => Ready(j, y) \/ (j = "node" /\ \E i \in 1..c : y = freed[t]["node"][i])
    <3>1. c \in Nat /\ c <= Len(freed[t]["node"])
      BY <1>4, <1>6, <1>7
    <3>2. store'["node"] = store["node"] \o SubSeq(freed[t]["node"], 1, c) \/ store'["node"] = store["node"]
      BY <1>4, <1>9 DEF Went
    <3>3. Stored(t, "node", c)
      BY <1>2, <1>9, <3>2 DEF Stored
    <3> QED
      BY <1>1, <1>3, <3>1, <3>3, ReadyThen, SMTT(30)
  <2>2. \A i \in 1..c : appenders[freed[t]["node"][i]] = <<>>
    BY <1>4, <1>6, <1>7, <1>8
  <2>3. \A y : Ready("bnet", y)' => Ready("bnet", y)
    BY <1>3, <2>1
  <2>4. ASSUME NEW y, Ready("node", y)' PROVE Ready("node", y) \/ appenders[y] = <<>>
    <3>1. Ready("node", y) \/ \E i \in 1..c : y = freed[t]["node"][i]
      BY <1>3, <2>1, <2>4
    <3> QED
      BY <2>2, <3>1
  <2> QED
    BY <1>1, <1>2, <2>3, <2>4 DEF HandedOutEmpty
<1> QED
  BY <1>12, <1>15, <1>21, <1>22, <1>23 DEF IInv

LEMMA ReturnBnetsStep ==
  ASSUME IInv, StoreAssumption, NEW t \in Threads, ReturnBnets(t)
  PROVE  IInv'
<1>1. TypeOK /\ Distinct /\ Counted /\ Kept /\ Placed /\ Emptied /\ HandedOutEmpty
  BY DEF IInv
<1>2. /\ made' = made /\ buffer' = buffer /\ index' = index /\ plan' = plan /\ pc[t] = "bnets"
      /\ refcnt' = refcnt /\ appenders' = appenders /\ nodes' = nodes /\ held' = held
  BY DEF ReturnBnets, things
<1>3. /\ freed \in [Threads -> [Kinds -> Seq(Nat)]]
      /\ at \in [Threads -> [{"bnet", "node"} -> Nat]]
      /\ pc \in [Threads -> {"idle", "bnets", "nodes", "undefined"}]
      /\ "bnet" \in Kinds /\ "node" \in Kinds /\ "appender" \in Kinds
  BY <1>1 DEF TypeOK, Kinds
<1>4. PICK fb, fn, fa, c : /\ fb = freed[t]["bnet"] /\ fn = freed[t]["node"] /\ fa = freed[t]["appender"]
                           /\ c = TLS_BUF_SIZE["bnet"]
  BY Zenon
<1>5. /\ at[t]["bnet"] > Len(fb)
      /\ Return("bnet", SubSeq(fb, 1, c), <<>>)
      /\ freed' = [freed EXCEPT ![t]["bnet"] = <<>>]
      /\ pc' = [pc EXCEPT ![t] = "idle"]
      /\ at' = [at EXCEPT ![t]["bnet"] = 0]
  BY <1>4 DEF ReturnBnets
<1>6. fb \in Seq(Nat) /\ Len(fb) \in Nat /\ at[t]["bnet"] \in Nat /\ c \in Nat \ {0}
  <2>1. fb \in Seq(Nat) /\ at[t]["bnet"] \in Nat
    BY <1>3, <1>4
  <2>2. c \in Nat \ {0}
    BY <1>3, <1>4 DEF StoreAssumption
  <2> QED
    BY <2>1, <2>2
<1>7. /\ Len(fa) < TLS_BUF_SIZE["appender"] /\ Len(fb) = c /\ Len(fn) < TLS_BUF_SIZE["node"]
      /\ c <= Len(fb)
  <2>1. Collected(t)
    BY <1>1 DEF Placed
  <2>2. ~(at[t]["bnet"] <= Len(fb))
    BY <1>5, <1>6
  <2>3. /\ Len(fa) < TLS_BUF_SIZE["appender"] /\ Len(fb) = c /\ Len(fn) < TLS_BUF_SIZE["node"]
    BY <1>2, <1>4, <2>1, <2>2 DEF Collected
  <2> QED
    BY <1>6, <2>3
<1>8. \A i \in 1..Len(fb) : nodes[fb[i]] = <<>>
  <2> SUFFICES ASSUME NEW i \in 1..Len(fb) PROVE nodes[fb[i]] = <<>>
    OBVIOUS
  <2>1. i < at[t]["bnet"]
    BY <1>5, <1>6
  <2> QED
    BY <1>1, <1>2, <1>4, <2>1 DEF Emptied, Cleared
<1>9. /\ store' \in [Kinds -> Seq(Nat)] /\ lost' \in [Kinds -> SUBSET Nat]
      /\ \A j \in Kinds : j # "bnet" => store'[j] = store[j]
      /\ \A j \in Kinds : lost[j] \subseteq lost'[j]
      /\ Went(fb, c, store["bnet"], store'["bnet"], lost'["bnet"])
  <2>1. SubSeq(fb, c + 1, Len(fb)) = <<>>
    BY <1>6, <1>7, SubSeqEmpty
  <2>2. PICK back \in Seq(Nat), rest \in Seq(Nat) : back = SubSeq(fb, 1, c) /\ rest = SubSeq(fb, c + 1, Len(fb))
    BY <1>6, <1>7, SplitAt
  <2>3. Return("bnet", back, rest)
    BY <1>5, <2>1, <2>2
  <2>4. /\ store' \in [Kinds -> Seq(Nat)] /\ lost' \in [Kinds -> SUBSET Nat]
        /\ \A j \in Kinds : j # "bnet" => store'[j] = store[j]
        /\ \A j \in Kinds : lost[j] \subseteq lost'[j]
        /\ \/ store'["bnet"] = store["bnet"] \o back /\ ToSet(rest) \subseteq lost'["bnet"]
           \/ store'["bnet"] = store["bnet"] /\ ToSet(back \o rest) \subseteq lost'["bnet"]
    BY <1>1, <1>3, <2>3, ReturnFrame
  <2> QED
    BY <2>2, <2>4 DEF Went
<1>10. /\ freed' \in [Threads -> [Kinds -> Seq(Nat)]] /\ Empties(t, "bnet")
       /\ freed'[t]["bnet"] = <<>> /\ freed'[t]["node"] = fn /\ freed'[t]["appender"] = fa
       /\ \A u \in Threads : u # t => freed'[u] = freed[u]
  <2>1. <<>> \in Seq(Nat)
    BY EmptySeq
  <2> PICK e : e = <<>> /\ e \in Seq(Nat)
    BY <2>1
  <2>2. freed' = [freed EXCEPT ![t]["bnet"] = e]
    BY <1>5
  <2>3. /\ freed' \in [Threads -> [Kinds -> Seq(Nat)]] /\ freed'[t]["bnet"] = e
        /\ \A j \in Kinds : j # "bnet" => freed'[t][j] = freed[t][j]
        /\ \A u \in Threads : u # t => freed'[u] = freed[u]
    BY <1>3, <2>2
  <2> QED
    BY <1>3, <1>4, <2>3 DEF Empties
<1>11. /\ at' \in [Threads -> [{"bnet", "node"} -> Nat]]
       /\ pc' \in [Threads -> {"idle", "bnets", "nodes", "undefined"}] /\ pc'[t] = "idle"
       /\ \A u \in Threads : u # t => pc'[u] = pc[u] /\ at'[u] = at[u]
  BY <1>3, <1>5
<1>12. TypeOK'
  BY <1>1, <1>2, <1>9, <1>10, <1>11 DEF TypeOK
<1>13. ASSUME NEW u \in Threads, u # t PROVE Collected(u)' /\ Cleared(u)'
  <2>1. Collected(u) /\ Cleared(u) /\ at[u]["bnet"] \in Nat
    BY <1>1 DEF Placed, Emptied, TypeOK
  <2>2. pc'[u] = pc[u] /\ at'[u] = at[u] /\ freed'[u] = freed[u]
    BY <1>10, <1>11, <1>13
  <2> QED
    BY <1>2, <2>1, <2>2, OtherThread
<1>14. Collected(t)' /\ Cleared(t)'
  <2>1. Len(<<>>) < c
    BY <1>6
  <2>2. Collected(t)'
    BY <1>4, <1>7, <1>10, <1>11, <2>1 DEF Collected
  <2>3. Cleared(t)'
    BY <1>11 DEF Cleared
  <2> QED
    BY <2>2, <2>3
<1>15. Placed' /\ Emptied'
  <2>1. ASSUME NEW u \in Threads PROVE Builds(u)'
    <3>1. Builds(u)
      BY <1>1 DEF Placed
    <3>2. pc'[u] # "undefined" => pc[u] # "undefined"
      BY <1>2, <1>11
    <3> QED
      BY <1>2, <3>1, <3>2 DEF Builds
  <2>2. Windows' /\ ArraysFit'
    BY <1>1, <1>2 DEF Placed, Windows, ArraysFit
  <2> QED
    BY <1>13, <1>14, <2>1, <2>2 DEF Placed, Emptied
<1>16. \A m : Users("node", m)' = Users("node", m)
  BY <1>2 DEF Users
<1>17. \A m : InUse(m) => InUse(m)'
  BY <1>2, <1>16 DEF InUse
<1>18. \A k \in Kinds : UsesOf(k)' = UsesOf(k)
  BY <1>2 DEF UsesOf
<1>19. ASSUME NEW k \in Kinds, k # "bnet"
       PROVE  DistinctOf(k)' /\ KeptOf(k)' /\ TableOf(k)' = TableOf(k)
  <2>1. SameKind(k)
    BY <1>2, <1>9, <1>19 DEF SameKind
  <2>2. \A u \in Threads : freed'[u][k] = freed[u][k]
    <3>1. \A u \in Threads : u = t \/ freed'[u] = freed[u]
      BY <1>10
    <3>2. freed'[t][k] = freed[t][k]
      BY <1>10, <1>19 DEF Empties
    <3> QED
      BY <3>1, <3>2
  <2>3. DistinctOf(k)' /\ KeptOf(k)'
    BY <1>1, <1>9, <1>17, <1>18, <2>1, <2>2, OtherKind
  <2>4. TableOf(k)' = TableOf(k)
    BY <1>18, <2>1, <2>2, SameTable
  <2> QED
    BY <2>3, <2>4
<1>20. DistinctOf("bnet")' /\ KeptOf("bnet")'
  <2>1. c \in Nat /\ c <= Len(freed[t]["bnet"]) /\ lost["bnet"] \subseteq lost'["bnet"]
        /\ Went(freed[t]["bnet"], c, store["bnet"], store'["bnet"], lost'["bnet"])
    BY <1>3, <1>4, <1>6, <1>7, <1>9
  <2>2. "bnet" # "node"
    OBVIOUS
  <2> QED
    BY <1>1, <1>2, <1>3, <1>10, <1>12, <1>15, <1>18, <2>1, <2>2, Returned
<1>21. Distinct' /\ Kept'
  BY <1>19, <1>20 DEF Distinct, Kept
<1>22. Counted'
  <2>1. TableOf("node")' = TableOf("node")
    BY <1>3, <1>19
  <2> QED
    BY <1>1, <1>2, <1>16, <2>1 DEF Counted
<1>23. HandedOutEmpty'
  <2>1. \A j \in Kinds : \A y :
          Ready(j, y)' => Ready(j, y) \/ (j = "bnet" /\ \E i \in 1..c : y = freed[t]["bnet"][i])
    <3>1. c \in Nat /\ c <= Len(freed[t]["bnet"])
      BY <1>4, <1>6, <1>7
    <3>2. store'["bnet"] = store["bnet"] \o SubSeq(freed[t]["bnet"], 1, c) \/ store'["bnet"] = store["bnet"]
      BY <1>4, <1>9 DEF Went
    <3>3. Stored(t, "bnet", c)
      BY <1>2, <1>9, <3>2 DEF Stored
    <3> QED
      BY <1>1, <1>3, <3>1, <3>3, ReadyThen, SMTT(30)
  <2>2. \A i \in 1..c : nodes[freed[t]["bnet"][i]] = <<>>
    BY <1>4, <1>7, <1>8
  <2>3. \A y : Ready("node", y)' => Ready("node", y)
    BY <1>3, <2>1
  <2>4. ASSUME NEW y, Ready("bnet", y)' PROVE Ready("bnet", y) \/ nodes[y] = <<>>
    <3>1. Ready("bnet", y) \/ \E i \in 1..c : y = freed[t]["bnet"][i]
      BY <1>3, <2>1, <2>4
    <3> QED
      BY <2>2, <3>1
  <2> QED
    BY <1>1, <1>2, <2>3, <2>4 DEF HandedOutEmpty
<1> QED
  BY <1>12, <1>15, <1>21, <1>22, <1>23 DEF IInv

(* The whole of sequence s goes to the end of x: nothing is dropped. *)
LEMMA CutWhole ==
  ASSUME NEW s \in Seq(Nat), NEW x \in Seq(Nat)
  PROVE  Cut(s, 1, 0, 1, Len(s), <<>>, x, x \o s) /\ Dropped(s, 1, 0, 1, Len(s)) = {}
<1>1. PICK n \in Nat : n = Len(s)
  OBVIOUS
<1>2. SubSeq(s, 1, 0) = <<>>
  BY SubSeqEmpty
<1>3. SubSeq(s, 1, n) = s
  BY <1>1
<1>4. 1..0 \cap 1..n = {} /\ 1 <= 0 + 1 /\ 1 <= n + 1 /\ 0 <= n
  OBVIOUS
<1>5. Cut(s, 1, 0, 1, n, <<>>, x, x \o s)
  BY <1>1, <1>2, <1>3, <1>4 DEF Cut
<1>6. (Int \ (1..0 \cup 1..n)) \cap 1..n = {}
  OBVIOUS
<1>7. Dropped(s, 1, 0, 1, n) = {}
  BY <1>1, <1>6 DEF Dropped, Entries
<1> QED
  BY <1>1, <1>5, <1>7

(* Thread t collects what node n has: it has nothing then. *)
Gathers(t, F, E, n, K, U, V) ==
  /\ U[n] \in Seq(Nat) /\ F[t] \in Seq(Nat)
  /\ V[n] = <<>> /\ E[t] = F[t] \o U[n]
  /\ \A w \in Threads : w # t => E[w] = F[w]
  /\ \A w \in K : w # n => V[w] = U[w]

LEMMA AllCollected ==
  ASSUME NEW K, NEW T, NEW S, NEW B, NEW F, NEW U, Reads(T, K, S, B, F, U), Separate(T),
         NEW G, NEW E, NEW V, Reads(G, K, S, B, E, V),
         NEW t \in Threads, NEW n \in K, Gathers(t, F, E, n, K, U, V)
  PROVE  Separate(G) /\ Objects(G) = Objects(T)
<1>1. PICK a, z, u, v : a = 1 /\ z = 0 /\ u = 1 /\ v = Len(U[n])
  OBVIOUS
<1>2. Cut(U[n], a, z, u, v, V[n], F[t], E[t]) /\ Dropped(U[n], a, z, u, v) = {}
  BY <1>1, CutWhole DEF Gathers
<1>3. Without(Slots(K), T, G, Dropped(U[n], a, z, u, v))
  <2>1. (\A w \in Threads : w # t => E[w] = F[w]) /\ \A w \in K : w # n => V[w] = U[w]
    BY DEF Gathers
  <2> QED
    BY <1>2, <2>1, UseToFreed
<1> QED
  BY <1>2, <1>3 DEF Without

LEMMA FreeAppendersStep ==
  ASSUME IInv, StoreAssumption, NEW t \in Threads, FreeAppenders(t)
  PROVE  IInv'
<1>1. TypeOK /\ Distinct /\ Counted /\ Kept /\ Placed /\ Emptied /\ HandedOutEmpty
  BY DEF IInv
<1>2. /\ made' = made /\ buffer' = buffer /\ index' = index /\ plan' = plan /\ pc' = pc
      /\ refcnt' = refcnt /\ nodes' = nodes /\ held' = held /\ pc[t] = "nodes"
  BY DEF FreeAppenders
<1>3. /\ freed \in [Threads -> [Kinds -> Seq(Nat)]] /\ appenders \in [1..made["node"] -> Seq(Nat)]
      /\ at \in [Threads -> [{"bnet", "node"} -> Nat]] /\ store \in [Kinds -> Seq(Nat)]
      /\ lost \in [Kinds -> SUBSET Nat]
      /\ "bnet" \in Kinds /\ "node" \in Kinds /\ "appender" \in Kinds
  BY <1>1 DEF TypeOK, Kinds
<1>4. PICK fn, c, n, fa, buf : /\ fn = freed[t]["node"] /\ c = at[t]["node"] /\ n = fn[c]
                               /\ fa = freed[t]["appender"] /\ buf = fa \o appenders[n]
  OBVIOUS
<1>5. /\ c <= Len(fn) /\ appenders' = [appenders EXCEPT ![n] = <<>>]
      /\ at' = [at EXCEPT ![t]["node"] = c + 1]
      /\ \/ /\ Len(buf) >= TLS_BUF_SIZE["appender"]
            /\ Return("appender", buf, <<>>) /\ freed' = [freed EXCEPT ![t]["appender"] = <<>>]
         \/ /\ ~(Len(buf) >= TLS_BUF_SIZE["appender"])
            /\ freed' = [freed EXCEPT ![t]["appender"] = buf] /\ store' = store /\ lost' = lost
  BY <1>4 DEF FreeAppenders, Full, AppendersBack
<1>6. fn \in Seq(Nat) /\ fa \in Seq(Nat) /\ c \in Nat
  <2>1. freed[t]["node"] \in Seq(Nat) /\ freed[t]["appender"] \in Seq(Nat)
    BY <1>3
  <2>2. at[t]["node"] \in Nat
    BY <1>3, SMTT(30)
  <2> QED
    BY <1>4, <2>1, <2>2
<1>7. /\ Len(freed[t]["bnet"]) = TLS_BUF_SIZE["bnet"]
      /\ at[t]["bnet"] \in 1..Len(freed[t]["bnet"]) /\ c >= 1
      /\ Len(fn) \in TLS_BUF_SIZE["node"]..(TLS_BUF_SIZE["node"] + NODES_PER_BNET)
  BY <1>1, <1>2, <1>4 DEF Placed, Collected
<1>8. c \in 1..Len(fn) /\ c + 1 \in Nat /\ c + 1 >= 1
  <2>1. c <= Len(fn)
    BY <1>5
  <2>2. c >= 1 /\ Len(fn) \in Nat
    BY <1>6, <1>7
  <2> QED
    BY <1>6, <2>1, <2>2
<1>9. n \in 1..made["node"] /\ appenders[n] \in Seq(Nat)
  <2>1. n \in 1..made["node"]
    BY <1>1, <1>3, <1>4, <1>8, FreedIs
  <2> QED
    BY <1>3, <2>1
<1>10. buf \in Seq(Nat) /\ <<>> \in Seq(Nat) /\ Len(buf) \in Nat /\ TLS_BUF_SIZE["appender"] \in Nat \ {0}
  <2>1. buf \in Seq(Nat) /\ <<>> \in Seq(Nat)
    BY <1>4, <1>6, <1>9, ConcatProperties, EmptySeq
  <2> QED
    BY <1>3, <2>1 DEF StoreAssumption
<1>11. /\ appenders' \in [1..made["node"] -> Seq(Nat)] /\ appenders'[n] = <<>>
       /\ \A m \in 1..made["node"] : m # n => appenders'[m] = appenders[m]
  BY <1>3, <1>5, <1>9, <1>10
<1>12. /\ at' \in [Threads -> [{"bnet", "node"} -> Nat]]
       /\ at'[t]["node"] = c + 1 /\ at'[t]["bnet"] = at[t]["bnet"]
       /\ \A u \in Threads : u # t => at'[u] = at[u]
  <2>1. PICK m \in Nat : m = c + 1
    BY <1>8
  <2>2. at' = [at EXCEPT ![t]["node"] = m]
    BY <1>5, <2>1
  <2> QED
    BY <1>3, <2>1, <2>2, SMTT(30)
<1>13. PICK e \in Seq(Nat) : /\ freed' = [freed EXCEPT ![t]["appender"] = e]
                             /\ Len(e) < TLS_BUF_SIZE["appender"]
                             /\ \/ e = <<>> /\ Return("appender", buf, <<>>)
                                \/ e = buf /\ store' = store /\ lost' = lost
  <2>1. CASE /\ Len(buf) >= TLS_BUF_SIZE["appender"]
             /\ Return("appender", buf, <<>>) /\ freed' = [freed EXCEPT ![t]["appender"] = <<>>]
    <3>1. Len(<<>>) < TLS_BUF_SIZE["appender"]
      BY <1>10
    <3> QED
      BY <1>10, <2>1, <3>1
  <2>2. CASE /\ ~(Len(buf) >= TLS_BUF_SIZE["appender"])
             /\ freed' = [freed EXCEPT ![t]["appender"] = buf] /\ store' = store /\ lost' = lost
    <3>1. Len(buf) < TLS_BUF_SIZE["appender"]
      <4>1. PICK l, q \in Nat : l = Len(buf) /\ q = TLS_BUF_SIZE["appender"]
        BY <1>10
      <4>2. ~(l >= q)
        BY <2>2, <4>1
      <4>3. l < q
        BY <4>2
      <4> QED
        BY <4>1, <4>3
    <3> QED
      BY <1>10, <2>2, <3>1
  <2> QED
    BY <1>5, <2>1, <2>2
<1>14. /\ freed' \in [Threads -> [Kinds -> Seq(Nat)]] /\ freed'[t]["appender"] = e
       /\ \A k \in Kinds : k # "appender" => freed'[t][k] = freed[t][k]
       /\ \A u \in Threads : u # t => freed'[u] = freed[u]
  BY <1>3, <1>13
<1>15. /\ store' \in [Kinds -> Seq(Nat)] /\ lost' \in [Kinds -> SUBSET Nat]
       /\ \A j \in Kinds : j # "appender" => store'[j] = store[j]
       /\ \A j \in Kinds : lost[j] \subseteq lost'[j]
  <2>1. CASE e = <<>> /\ Return("appender", buf, <<>>)
    BY <1>1, <1>3, <1>10, <2>1, ReturnFrame
  <2>2. CASE store' = store /\ lost' = lost
    BY <1>3, <2>2
  <2> QED
    BY <1>13, <2>1, <2>2
<1>16. TypeOK'
  BY <1>1, <1>2, <1>11, <1>12, <1>14, <1>15 DEF TypeOK
<1>17. \A m \in 1..made["node"] : appenders[m] = <<>> => appenders'[m] = <<>>
  BY <1>11
<1>18. ASSUME NEW u \in Threads, u # t PROVE Collected(u)' /\ Cleared(u)'
  <2>1. Collected(u) /\ Cleared(u) /\ at[u]["bnet"] \in Nat
    BY <1>1 DEF Placed, Emptied, TypeOK
  <2>2. pc'[u] = pc[u] /\ at'[u] = at[u] /\ freed'[u] = freed[u]
    BY <1>2, <1>12, <1>14, <1>18
  <2>3. \A i \in 1..Len(freed[u]["node"]) :
          appenders[freed[u]["node"][i]] = <<>> => appenders'[freed[u]["node"][i]] = <<>>
    BY <1>1, <1>3, <1>17, FreedIs
  <2> QED
    BY <1>2, <2>1, <2>2, <2>3, OtherThread
<1>19. Collected(t)' /\ Cleared(t)'
  <2>1. pc'[t] = "nodes" /\ freed'[t]["bnet"] = freed[t]["bnet"] /\ freed'[t]["node"] = fn
    BY <1>2, <1>3, <1>4, <1>14
  <2>2. Collected(t)'
    <3>1. /\ at'[t]["bnet"] = at[t]["bnet"] /\ at'[t]["node"] >= 1
          /\ Len(freed'[t]["appender"]) < TLS_BUF_SIZE["appender"]
      BY <1>8, <1>12, <1>13, <1>14
    <3> QED
      BY <1>7, <2>1, <3>1 DEF Collected
  <2>3. Cleared(t)
    BY <1>1, SMTT(30) DEF Emptied
  <2>4. ASSUME NEW i \in 1..Len(fn), i < c + 1 PROVE appenders'[fn[i]] = <<>>
    <3>1. i < c \/ i = c
      BY <1>6, <2>4, SMTT(30)
    <3>2. i < c => appenders[fn[i]] = <<>>
      BY <1>2, <1>4, <2>3 DEF Cleared
    <3>3. fn[i] \in 1..made["node"]
      BY <1>1, <1>3, <1>4, FreedIs
    <3> QED
      BY <1>4, <1>11, <1>17, <3>1, <3>2, <3>3
  <2>5. Cleared(t)'
    BY <1>2, <1>12, <2>1, <2>3, <2>4 DEF Cleared
  <2> QED
    BY <2>2, <2>5
<1>20. Placed' /\ Emptied'
  <2>1. \A u \in Threads : Builds(u)'
    BY <1>1, <1>2 DEF Placed, Builds
  <2>2. Windows'
    BY <1>1, <1>2 DEF Placed, Windows
  <2>3. ASSUME NEW m \in 1..made["node"] PROVE Len(appenders'[m]) <= APPENDERS_PER_NODE
    <3>1. Len(appenders[m]) <= APPENDERS_PER_NODE /\ APPENDERS_PER_NODE \in Nat
      BY <1>1 DEF Placed, ArraysFit, StoreAssumption
    <3>2. Len(<<>>) <= APPENDERS_PER_NODE
      BY <3>1
    <3> QED
      BY <1>11, <3>1, <3>2
  <2>4. ArraysFit'
    BY <1>1, <1>2, <2>3 DEF Placed, ArraysFit
  <2> QED
    BY <1>18, <1>19, <2>1, <2>2, <2>4 DEF Placed, Emptied
<1>21. \A m : Users("node", m)' = Users("node", m)
  BY <1>2 DEF Users
<1>22. \A m : InUse(m) => InUse(m)'
  BY <1>2, <1>21 DEF InUse
<1>23. ASSUME NEW k \in Kinds, k # "appender"
       PROVE  DistinctOf(k)' /\ KeptOf(k)' /\ TableOf(k)' = TableOf(k)
  <2>1. SameKind(k)
    BY <1>2, <1>15, <1>23 DEF SameKind
  <2>2. UsesOf(k)' = UsesOf(k)
    BY <1>2, <1>23 DEF UsesOf, Kinds
  <2>3. \A u \in Threads : freed'[u][k] = freed[u][k]
    <3>1. \A u \in Threads : u = t \/ freed'[u] = freed[u]
      BY <1>14
    <3>2. freed'[t][k] = freed[t][k]
      BY <1>14, <1>23
    <3> QED
      BY <3>1, <3>2
  <2>4. DistinctOf(k)' /\ KeptOf(k)'
    BY <1>1, <1>15, <1>22, <2>1, <2>2, <2>3, OtherKind
  <2>5. TableOf(k)' = TableOf(k)
    BY <2>1, <2>2, <2>3, SameTable
  <2> QED
    BY <2>4, <2>5
<1>24. DistinctOf("appender")' /\ KeptOf("appender")'
  <2>1. PICK S, B, F, T : /\ S = store["appender"] /\ B = LeftOf("appender")
                          /\ F = FreedOf("appender") /\ T = TableOf("appender")
    BY Zenon
  <2>2. PICK U, K, V : U = appenders /\ K = 1..made["node"] /\ V = appenders'
    OBVIOUS
  <2>3. Reads(T, K, S, B, F, U)
    <3>1. UsesOf("appender") = U /\ DOMAIN UsesOf("appender") = K
      BY <1>3, <2>2 DEF UsesOf
    <3>2. Reads(TableOf("appender"), DOMAIN UsesOf("appender"), store["appender"], LeftOf("appender"),
                FreedOf("appender"), UsesOf("appender"))
      BY <1>1, <1>3, TableReads DEF TablesRead, Placed
    <3> QED
      BY <2>1, <3>1, <3>2
  <2>4. Separate(T) /\ \A y \in Objects(T) : y \in 1..made["appender"]
    BY <1>1, <1>3, <2>1 DEF Distinct, DistinctOf
  <2>5. PICK G, E, Z, L : /\ G = TableOf("appender")' /\ E = FreedOf("appender")'
                          /\ Z = store'["appender"] /\ L = lost'["appender"]
    BY Zenon
  <2>6. Reads(G, K, Z, B, E, V)
    <3>1. TypeOK' /\ Windows' => TablesRead'
      BY TableReads, PTL
    <3>2. Reads(TableOf("appender"), DOMAIN UsesOf("appender"), store["appender"], LeftOf("appender"),
                FreedOf("appender"), UsesOf("appender"))'
      BY <1>3, <1>16, <1>20, <3>1 DEF TablesRead, Placed
    <3>3. UsesOf("appender")' = V /\ DOMAIN V = K
      BY <1>11, <2>2 DEF UsesOf
    <3>4. LeftOf("appender")' = B
      BY <1>2, <2>1 DEF LeftOf
    <3> QED
      BY <2>5, <3>2, <3>3, <3>4
  <2>7. PICK H : H = [u \in Threads |-> IF u = t THEN buf ELSE F[u]]
    OBVIOUS
  <2>8. H \in [Threads -> Seq(Nat)] /\ F[t] = fa /\ E[t] = e /\ H[t] = buf
        /\ \A u \in Threads : u # t => E[u] = F[u] /\ H[u] = F[u]
    <3>1. H \in [Threads -> Seq(Nat)] /\ H[t] = buf /\ \A u \in Threads : u # t => H[u] = F[u]
      <4>1. \A u \in Threads : F[u] \in Seq(Nat)
        BY <1>3, <2>1, SMTT(30) DEF FreedOf
      <4> QED
        <5>1. \A u \in Threads : (IF u = t THEN buf ELSE F[u]) \in Seq(Nat)
          BY <1>10, <4>1
        <5>2. H \in [Threads -> Seq(Nat)]
          BY <2>7, <5>1
        <5> QED
          BY <2>7, <5>2
    <3>2. F[t] = fa /\ E[t] = e
      BY <1>3, <1>4, <1>14, <2>1, <2>5 DEF FreedOf
    <3>3. \A u \in Threads : u # t => E[u] = F[u]
      BY <1>14, <2>1, <2>5 DEF FreedOf
    <3> QED
      BY <3>1, <3>2, <3>3
  <2>9. PICK P : P = Table(S, B, H, V)
    OBVIOUS
  <2>10. Reads(P, K, S, B, H, V)
    <3>1. S \in Seq(Nat)
      BY <1>3, <2>1
    <3>2. B \in [Threads -> Seq(Nat)]
      BY <1>1, <1>3, <2>1, LeftTyped DEF LeftsTyped, Placed
    <3>3. V \in [K -> Seq(Nat)]
      BY <1>11, <2>2
    <3> QED
      BY <2>8, <2>9, <3>1, <3>2, <3>3, TableIs
  <2>11. Separate(P) /\ Objects(P) = Objects(T)
    <3>1. Gathers(t, F, H, n, K, U, V)
      BY <1>4, <1>6, <1>9, <1>11, <2>2, <2>8 DEF Gathers
    <3>2. n \in K
      BY <1>9, <2>2
    <3> QED
      BY <2>3, <2>4, <2>10, <3>1, <3>2, AllCollected, SMTT(30)
  <2>12. /\ Separate(G)
         /\ \A y \in Objects(G) : y \in Objects(T)
         /\ \A y \in Objects(T) : y \in Objects(G) \/ y \in L
    <3>1. CASE e = buf /\ store' = store /\ lost' = lost
      <4>1. E = H
        <5>1. E = [u \in Threads |-> E[u]] /\ H = [u \in Threads |-> H[u]]
          BY <2>5, <2>7 DEF FreedOf
        <5>2. \A u \in Threads : E[u] = H[u]
          BY <2>8, <3>1
        <5> QED
          BY <5>1, <5>2
      <4>2. Reads(G, K, S, B, H, V)
        BY <2>1, <2>5, <2>6, <3>1, <4>1
      <4>3. G = P
        BY <2>10, <4>2, SameReads
      <4> QED
        BY <2>11, <4>3
    <3>2. CASE e = <<>> /\ Return("appender", buf, <<>>)
      <4>1. PICK m \in Nat : m = Len(buf)
        BY <1>10
      <4>2. SubSeq(buf, 1, m) = buf /\ SubSeq(buf, m + 1, Len(buf)) = <<>>
        BY <1>10, <4>1, SubSeqEmpty
      <4>3. \/ Z = S \o buf /\ ToSet(<<>>) \subseteq L
            \/ Z = S /\ ToSet(buf \o <<>>) \subseteq L
        BY <1>1, <1>3, <1>10, <2>1, <2>5, <3>2, ReturnFrame
      <4>4. Went(H[t], m, S, Z, L) /\ m <= Len(H[t])
        <5>1. Went(buf, m, S, Z, L)
          BY <4>2, <4>3 DEF Went
        <5>2. m <= Len(buf)
          BY <4>1
        <5> QED
          BY <2>8, <5>1, <5>2
      <4>5. Gives(t, H, E)
        BY <1>10, <2>8, <3>2 DEF Gives
      <4> QED
        BY <2>6, <2>10, <2>11, <4>4, <4>5, GoesBack
    <3> QED
      BY <1>13, <3>1, <3>2
  <2>13. DistinctOf("appender")'
    BY <1>2, <2>4, <2>5, <2>12 DEF DistinctOf
  <2>14. KeptOf("appender")'
    <3>1. ASSUME NEW y \in 1..made["appender"] PROVE y \in Objects(G) \/ y \in L
      <4>1. y \in Objects(T) \/ y \in lost["appender"]
        BY <1>1, <1>3, <2>1 DEF Kept, KeptOf
      <4> QED
        BY <1>3, <1>15, <2>5, <2>12, <4>1
    <3> QED
      BY <1>2, <2>5, <3>1 DEF KeptOf
  <2> QED
    BY <2>13, <2>14
<1>25. Distinct' /\ Kept'
  BY <1>23, <1>24 DEF Distinct, Kept
<1>26. Counted'
  <2>1. TableOf("node")' = TableOf("node")
    BY <1>3, <1>23
  <2> QED
    BY <1>1, <1>2, <1>21, <2>1 DEF Counted
<1>27. HandedOutEmpty'
  <2>1. \A j \in Kinds : \A y : j # "appender" /\ Ready(j, y)' => Ready(j, y)
    BY <1>2, <1>15 DEF Ready
  <2>2. DOMAIN appenders = 1..made["node"] /\ DOMAIN appenders' = 1..made["node"]
    BY <1>3, <1>11
  <2>3. \A m \in 1..made["node"] : Ready("node", m)' => appenders'[m] = <<>>
    BY <1>1, <1>3, <1>17, <2>1, <2>2 DEF HandedOutEmpty
  <2>4. \A b \in DOMAIN nodes : Ready("bnet", b)' => nodes[b] = <<>>
    BY <1>1, <1>3, <2>1 DEF HandedOutEmpty
  <2> QED
    BY <1>2, <2>2, <2>3, <2>4 DEF HandedOutEmpty
<1> QED
  BY <1>16, <1>20, <1>25, <1>26, <1>27 DEF IInv

LEMMA Stutter ==
  ASSUME IInv, UNCHANGED svars
  PROVE  IInv'
<1>1. /\ store' = store /\ made' = made /\ buffer' = buffer /\ index' = index /\ freed' = freed
      /\ refcnt' = refcnt /\ appenders' = appenders /\ nodes' = nodes /\ held' = held /\ pc' = pc
      /\ at' = at /\ plan' = plan /\ lost' = lost
  BY DEF svars, local, things
<1>2. TypeOK'
  BY <1>1 DEF IInv, TypeOK
<1>3. ASSUME NEW k \in Kinds PROVE TableOf(k)' = TableOf(k) /\ KeptOf(k)' = KeptOf(k)
  <2>1. UsesOf(k)' = UsesOf(k) /\ LeftOf(k)' = LeftOf(k) /\ FreedOf(k)' = FreedOf(k)
    BY <1>1 DEF UsesOf, LeftOf, FreedOf
  <2>2. \A x : InUse(x)' = InUse(x)
    BY <1>1 DEF InUse, Users
  <2> QED
    BY <1>1, <2>1, <2>2 DEF TableOf, KeptOf
<1>4. Distinct' /\ Kept'
  BY <1>1, <1>3 DEF IInv, Distinct, DistinctOf, Kept
<1>5. Counted'
  <2>1. \A x : Users("node", x)' = Users("node", x)
    BY <1>1 DEF Users
  <2>2. TableOf("node")' = TableOf("node")
    BY <1>3 DEF Kinds
  <2> QED
    BY <1>1, <2>1, <2>2 DEF IInv, Counted
<1>6. Placed'
  BY <1>1 DEF IInv, Placed, Windows, ArraysFit, Collected, Builds
<1>7. Emptied'
  BY <1>1 DEF IInv, Emptied, Cleared
<1>8. HandedOutEmpty'
  BY <1>1 DEF IInv, HandedOutEmpty, Ready
<1> QED
  BY <1>2, <1>4, <1>5, <1>6, <1>7, <1>8 DEF IInv

LEMMA Preserved ==
  ASSUME IInv, StoreAssumption, [StoreNext]_svars
  PROVE  IInv'
<1>1. CASE StoreNext
  <2>1. PICK t \in Threads :
          \/ AllocBnet(t) \/ AllocNode(t) \/ ShareNode(t) \/ AllocAppender(t)
          \/ \E k \in Kinds : AllocUndefined(t, k)
          \/ FreeBnet(t) \/ FreeNode(t) \/ NodesFreed(t) \/ FreeAppenders(t)
          \/ ReturnNodes(t) \/ ReturnBnets(t)
    BY <1>1 DEF StoreNext
  <2>2. CASE AllocBnet(t)
    BY <2>2, AllocBnetStep
  <2>3. CASE AllocNode(t)
    BY <2>3, AllocNodeStep
  <2>4. CASE ShareNode(t)
    BY <2>4, ShareNodeStep
  <2>5. CASE AllocAppender(t)
    BY <2>5, AllocAppenderStep
  <2>6. CASE \E k \in Kinds : AllocUndefined(t, k)
    BY <2>6, AllocUndefinedStep
  <2>7. CASE FreeBnet(t)
    BY <2>7, FreeBnetStep
  <2>8. CASE FreeNode(t)
    BY <2>8, FreeNodeStep
  <2>9. CASE NodesFreed(t)
    BY <2>9, NodesFreedStep
  <2>10. CASE FreeAppenders(t)
    BY <2>10, FreeAppendersStep
  <2>11. CASE ReturnNodes(t)
    BY <2>11, ReturnNodesStep
  <2>12. CASE ReturnBnets(t)
    BY <2>12, ReturnBnetsStep
  <2> QED
    BY <2>1, <2>2, <2>3, <2>4, <2>5, <2>6, <2>7, <2>8, <2>9, <2>10, <2>11, <2>12
<1>2. CASE UNCHANGED svars
  BY <1>2, Stutter
<1> QED
  BY <1>1, <1>2

-----------------------------------------------------------------------------
(* At the start all objects are in the stores. *)

LEMMA Initially ==
  ASSUME StoreInit, StoreAssumption
  PROVE  IInv
<1>1. /\ store = [k \in Kinds |-> [i \in 1..INIT_BUF_SIZE[k] |-> i]] /\ made = INIT_BUF_SIZE
      /\ buffer = [t \in Threads |-> [k \in Kinds |-> <<>>]]
      /\ index = [t \in Threads |-> [k \in Kinds |-> 0]]
      /\ freed = [t \in Threads |-> [k \in Kinds |-> <<>>]]
      /\ refcnt = [n \in 1..made["node"] |-> 1] /\ appenders = [n \in 1..made["node"] |-> <<>>]
      /\ nodes = [b \in 1..made["bnet"] |-> <<>>] /\ held = [t \in Threads |-> <<>>]
      /\ pc = [t \in Threads |-> "idle"] /\ at = [t \in Threads |-> [k \in {"bnet", "node"} |-> 0]]
      /\ plan = [t \in Threads |-> <<>>] /\ lost = [k \in Kinds |-> {}]
  BY DEF StoreInit
<1>2. /\ "bnet" \in Kinds /\ "node" \in Kinds /\ "appender" \in Kinds
      /\ INIT_BUF_SIZE \in [Kinds -> Nat] /\ TLS_BUF_SIZE \in [Kinds -> Nat \ {0}]
      /\ NODES_PER_BNET \in Nat /\ APPENDERS_PER_NODE \in Nat
  BY DEF StoreAssumption, Kinds
<1> HIDE DEF Kinds
<1>3. PICK none : none = <<>> /\ none \in Seq(Nat) /\ Len(none) = 0
  BY EmptySeq
<1>4. none \in Seq({"node", "share", "appender"})
  BY <1>3, EmptySeq
<1>5. /\ made \in [Kinds -> Nat] /\ index \in [Threads -> [Kinds -> Int]]
      /\ refcnt \in [1..made["node"] -> Nat \ {0}]
  BY <1>1, <1>2
<1>6. ASSUME NEW k \in Kinds
      PROVE  store[k] \in Seq(Nat) /\ Len(store[k]) = made[k] /\ \A i \in 1..made[k] : store[k][i] = i
  BY <1>1, <1>2
<1>7. store \in [Kinds -> Seq(Nat)]
  BY <1>1, <1>6
<1>8. /\ buffer \in [Threads -> [Kinds -> Seq(Nat)]] /\ freed \in [Threads -> [Kinds -> Seq(Nat)]]
      /\ appenders \in [1..made["node"] -> Seq(Nat)] /\ nodes \in [1..made["bnet"] -> Seq(Nat)]
      /\ held \in [Threads -> Seq(Nat)]
  BY <1>1, <1>3
<1>9. /\ pc \in [Threads -> {"idle", "bnets", "nodes", "undefined"}]
      /\ at \in [Threads -> [{"bnet", "node"} -> Nat]] /\ lost \in [Kinds -> SUBSET Nat]
      /\ plan \in [Threads -> Seq({"node", "share", "appender"})]
  BY <1>1, <1>3, <1>4
<1>10. TypeOK
  BY <1>5, <1>7, <1>8, <1>9 DEF TypeOK
<1>11. \A t \in Threads, k \in Kinds : index[t][k] <= 0 \/ index[t][k] + 2 <= Len(buffer[t][k])
  BY <1>1
<1>12. Windows
  BY <1>5, <1>8, <1>11 DEF Windows
<1>13. ArraysFit
  BY <1>1, <1>2, <1>3 DEF ArraysFit
<1>14. ASSUME NEW t \in Threads PROVE Collected(t) /\ Builds(t) /\ Cleared(t)
  <2>1. \A k \in Kinds : freed[t][k] = none
    BY <1>1, <1>3
  <2>2. pc[t] = "idle" /\ plan[t] = <<>>
    BY <1>1
  <2>3. Len(none) < TLS_BUF_SIZE["bnet"] /\ Len(none) < TLS_BUF_SIZE["node"]
        /\ Len(none) < TLS_BUF_SIZE["appender"]
    BY <1>2, <1>3
  <2>4. Collected(t)
    BY <1>2, <2>1, <2>2, <2>3 DEF Collected
  <2> QED
    BY <2>2, <2>4 DEF Builds, Cleared
<1>15. Placed /\ Emptied
  BY <1>12, <1>13, <1>14 DEF Placed, Emptied
<1>16. ASSUME NEW k \in Kinds PROVE DistinctOf(k) /\ \A x \in 1..made[k] : x \in Objects(TableOf(k))
  <2>1. PICK T, K, S : /\ T = TableOf(k) /\ K = DOMAIN UsesOf(k) /\ S = store[k]
                       /\ Reads(T, K, S, LeftOf(k), FreedOf(k), UsesOf(k))
    BY <1>10, <1>12, TableReads DEF TablesRead
  <2>2. /\ T \in Tables(Slots(K)) /\ T[<<"store", 0>>] = S
        /\ \A t \in Threads : T[<<"buffer", t>>] = LeftOf(k)[t] /\ T[<<"freed", t>>] = FreedOf(k)[t]
        /\ \A x \in K : T[<<"use", x>>] = UsesOf(k)[x]
    BY <2>1 DEF Reads
  <2>3. ASSUME NEW t \in Threads PROVE T[<<"buffer", t>>] = none /\ T[<<"freed", t>>] = none
    <3>1. LeftOf(k)[t] = SubSeq(none, 2, 0 + 1)
      BY <1>1, <1>3 DEF LeftOf
    <3>2. SubSeq(none, 2, 0 + 1) = none
      BY <1>3, NoneLeft
    <3>3. FreedOf(k)[t] = none
      BY <1>1, <1>3 DEF FreedOf
    <3> QED
      BY <2>2, <3>1, <3>2, <3>3
  <2>4. ASSUME NEW x \in K PROVE T[<<"use", x>>] = none
    <3>1. UsesOf(k)[x] = none
      BY <1>1, <1>3, <2>1 DEF UsesOf, Kinds
    <3> QED
      BY <2>2, <3>1
  <2>5. ASSUME NEW c \in Slots(K), NEW i \in 1..Len(T[c]) PROVE c = <<"store", 0>> /\ i \in 1..made[k] /\ T[c][i] = i
    <3>1. T[c] # none
      BY <1>3, <2>5
    <3>2. c = <<"store", 0>>
      <4>1. \A t \in Threads : c # <<"buffer", t>> /\ c # <<"freed", t>>
        BY <2>3, <3>1
      <4>2. \A x \in K : c # <<"use", x>>
        BY <2>4, <3>1
      <4> QED
        BY <4>1, <4>2, SlotsAre
    <3>3. T[c] = store[k]
      BY <2>1, <2>2, <3>2
    <3> QED
      BY <1>6, <2>5, <3>2, <3>3
  <2>6. DOMAIN T = Slots(K)
    BY <2>2 DEF Tables
  <2>7. Separate(T)
    <3> SUFFICES ASSUME NEW c \in Slots(K), NEW d \in Slots(K),
                        NEW i \in 1..Len(T[c]), NEW j \in 1..Len(T[d]), T[c][i] = T[d][j]
                 PROVE  c = d /\ i = j
      BY <2>6 DEF Separate
    <3>1. c = <<"store", 0>> /\ T[c][i] = i
      BY <2>5
    <3>2. d = <<"store", 0>> /\ T[d][j] = j
      BY <2>5
    <3> QED
      BY <3>1, <3>2
  <2>8. ASSUME NEW x, x \in Objects(T) PROVE x \in 1..made[k]
    <3>1. PICK c \in Slots(K) : \E i \in 1..Len(T[c]) : T[c][i] = x
      BY <2>2, <2>8, PlaceOf
    <3> QED
      BY <2>5, <3>1
  <2>9. ASSUME NEW x \in 1..made[k] PROVE x \in Objects(T)
    <3>1. <<"store", 0>> \in Slots(K) /\ x \in 1..Len(T[<<"store", 0>>]) /\ T[<<"store", 0>>][x] = x
      BY <1>6, <2>1, <2>2, SlotsAre
    <3> QED
      BY <2>2, <3>1, IsObject
  <2> QED
    BY <2>1, <2>7, <2>8, <2>9 DEF DistinctOf
<1>17. Distinct /\ Kept
  BY <1>16 DEF Distinct, Kept, KeptOf
<1>18. Counted
  <2>1. \A b \in 1..made["bnet"] : nodes[b] = none
    BY <1>1, <1>3
  <2>2. \A b \in 1..made["bnet"] : 1..Len(nodes[b]) = {}
    BY <1>3, <2>1
  <2>3. ASSUME NEW n PROVE Users("node", n) = {}
    <3>1. \A p : p \notin Users("node", n)
      BY <1>10, <2>2, UserIs DEF UsersAre
    <3> QED
      BY <3>1
  <2>4. \A n \in 1..made["node"] : refcnt[n] = 1
    BY <1>1
  <2>5. IsFiniteSet({}) /\ Cardinality({}) = 0
    BY FS_EmptySet
  <2>6. \A b \in 1..made["bnet"] : \A i \in 1..Len(nodes[b]) : nodes[b][i] \in 1..made["node"]
    BY <2>2
  <2>7. ASSUME NEW n \in 1..made["node"]
        PROVE  /\ IsFiniteSet(Users("node", n)) /\ Cardinality(Users("node", n)) <= refcnt[n]
               /\ Users("node", n) = {} /\ refcnt[n] = 1
    <3>1. Users("node", n) = {} /\ refcnt[n] = 1
      BY <2>3, <2>4
    <3>2. IsFiniteSet(Users("node", n)) /\ Cardinality(Users("node", n)) = 0
      BY <2>5, <3>1, Zenon
    <3> QED
      BY <3>1, <3>2
  <2> QED
    BY <2>6, <2>7 DEF Counted
<1>19. HandedOutEmpty
  BY <1>1 DEF HandedOutEmpty
<1> QED
  BY <1>10, <1>15, <1>17, <1>18, <1>19 DEF IInv

LEMMA Invariant == StoreSpec => []IInv
<1>1. StoreInit => IInv
  BY StoreAssumption, Initially
<1>2. IInv /\ [StoreNext]_svars => IInv'
  BY StoreAssumption, Preserved
<1> QED
  BY <1>1, <1>2, PTL DEF StoreSpec

-----------------------------------------------------------------------------
(* The places of OneOwner and NothingElseLost are those of the table. *)

LEMMA LeftIs ==
  ASSUME Windows, NEW k \in Kinds, NEW t \in Threads, NEW x
  PROVE  {i \in 1..index[t][k] : buffer[t][k][i + 1] = x} =
           {i \in 1..Len(LeftOf(k)[t]) : LeftOf(k)[t][i] = x}
<1> HIDE DEF Kinds
<1>1. PICK s \in Seq(Nat), m \in Int : s = buffer[t][k] /\ m = index[t][k]
  BY DEF Windows
<1>2. m <= 0 \/ m + 2 <= Len(s)
  BY <1>1 DEF Windows
<1>3. PICK r : r = SubSeq(s, 2, m + 1)
  OBVIOUS
<1>4. LeftOf(k)[t] = r
  BY <1>1, <1>3 DEF LeftOf
<1>5. {i \in 1..m : s[i + 1] = x} = {i \in 1..Len(r) : r[i] = x}
  <2>1. CASE m <= 0
    <3>1. r = <<>>
      BY <1>3, <2>1, NoneLeft
    <3>2. Len(r) = 0
      BY <3>1
    <3> QED
      BY <2>1, <3>2
  <2>2. CASE m >= 1
    <3>1. m \in Nat /\ m + 1 \in Nat /\ m + 1 <= Len(s) /\ 2 <= (m + 1) + 1 /\ Len(s) \in Nat
      BY <1>2, <2>2
    <3>2. (m + 1) - 2 + 1 = m /\ \A j \in 1..m : j + 2 - 1 = j + 1
      OBVIOUS
    <3>3. Len(r) = m /\ \A j \in 1..m : r[j] = s[j + 1]
      BY <1>3, <3>1, <3>2, Part
    <3> QED
      BY <3>3
  <2> QED
    BY <2>1, <2>2
<1> QED
  BY <1>1, <1>4, <1>5

LEMMA TriplesOver ==
  ASSUME NEW a, NEW D, NEW f, NEW p
  PROVE  p \in UNION {{a} \X {t} \X f[t] : t \in D} <=> \E t \in D : \E i \in f[t] : p = <<a, t, i>>
OBVIOUS

(* Entry i of slot c of table T is object x. *)
Spot(T, c, i, x) == i \in 1..Len(T[c]) /\ T[c][i] = x

Spots(T, c, x) == {i \in 1..Len(T[c]) : Spot(T, c, i, x)}

LEMMA PositionsAre ==
  ASSUME NEW s \in Seq(Nat), NEW T, NEW c, T[c] = s, NEW x
  PROVE  Positions(s, x) = Spots(T, c, x)
BY DEF Positions, Spots, Spot

(* The places among the slots of the store, the buffers and what is collected. *)
InStore(stored, left, collected) == ({"store"} \X {0} \X stored) \cup left \cup collected

OpenSpots(T, x) ==
  InStore(Spots(T, <<"store", 0>>, x),
          UNION {{"buffer"} \X {t} \X Spots(T, <<"buffer", t>>, x) : t \in Threads},
          UNION {{"freed"} \X {t} \X Spots(T, <<"freed", t>>, x) : t \in Threads})

UseSpots(T, K, x) == UNION {{y} \X Spots(T, <<"use", y>>, x) : y \in K}

LEMMA AvailableAt ==
  ASSUME TypeOK, Placed, NEW k \in Kinds, NEW x
  PROVE  Available(k, x) = OpenSpots(TableOf(k), x)
<1>1. PICK T : T = TableOf(k) /\ T[<<"store", 0>>] = store[k]
               /\ \A t \in Threads : T[<<"buffer", t>>] = LeftOf(k)[t] /\ T[<<"freed", t>>] = freed[t][k]
  BY TableReads DEF TablesRead, Placed, Reads, FreedOf
<1>2. store[k] \in Seq(Nat) /\ \A t \in Threads : freed[t][k] \in Seq(Nat)
  BY DEF TypeOK
<1> HIDE DEF Kinds
<1>3. Positions(store[k], x) = Spots(T, <<"store", 0>>, x)
  BY <1>1, <1>2, PositionsAre
<1>4. PICK b, f : /\ b = [t \in Threads |-> Spots(T, <<"buffer", t>>, x)]
                  /\ f = [t \in Threads |-> Spots(T, <<"freed", t>>, x)]
  OBVIOUS
<1>5. ASSUME NEW t \in Threads PROVE Positions(freed[t][k], x) = f[t]
  <2>1. Positions(freed[t][k], x) = Spots(T, <<"freed", t>>, x)
    <3>1. PICK s \in Seq(Nat) : s = freed[t][k]
      BY <1>2
    <3>2. PICK c : c = <<"freed", t>>
      OBVIOUS
    <3>3. T[c] = s
      BY <1>1, <3>1, <3>2
    <3> QED
      BY <3>1, <3>2, <3>3, PositionsAre
  <2> QED
    BY <1>4, <2>1
<1>6. ASSUME NEW t \in Threads PROVE {i \in 1..index[t][k] : buffer[t][k][i + 1] = x} = b[t]
  <2>1. {j \in 1..index[t][k] : buffer[t][k][j + 1] = x} =
          {j \in 1..Len(LeftOf(k)[t]) : LeftOf(k)[t][j] = x}
    BY LeftIs DEF Placed
  <2>2. PICK s, c : s = LeftOf(k)[t] /\ c = <<"buffer", t>>
    OBVIOUS
  <2>3. T[c] = s
    BY <1>1, <2>2
  <2>4. {j \in 1..Len(s) : s[j] = x} = Spots(T, c, x)
    BY <2>3 DEF Spots, Spot
  <2> QED
    BY <1>4, <2>1, <2>2, <2>4
<1>7. UNION {{"buffer"} \X {t} \X {i \in 1..index[t][k] : buffer[t][k][i + 1] = x} : t \in Threads} =
        UNION {{"buffer"} \X {t} \X b[t] : t \in Threads}
  BY <1>6
<1>8. UNION {{"freed"} \X {t} \X Positions(freed[t][k], x) : t \in Threads} =
        UNION {{"freed"} \X {t} \X f[t] : t \in Threads}
  BY <1>5
<1>9. UNION {{"buffer"} \X {t} \X b[t] : t \in Threads} =
        UNION {{"buffer"} \X {t} \X Spots(T, <<"buffer", t>>, x) : t \in Threads}
  BY <1>4
<1>10. UNION {{"freed"} \X {t} \X f[t] : t \in Threads} =
         UNION {{"freed"} \X {t} \X Spots(T, <<"freed", t>>, x) : t \in Threads}
  BY <1>4
<1>11. Available(k, x) =
         InStore(Positions(store[k], x),
                 UNION {{"buffer"} \X {t} \X {i \in 1..index[t][k] : buffer[t][k][i + 1] = x} : t \in Threads},
                 UNION {{"freed"} \X {t} \X Positions(freed[t][k], x) : t \in Threads})
  BY DEF Available, InStore
<1>12. OpenSpots(T, x) =
         InStore(Spots(T, <<"store", 0>>, x),
                 UNION {{"buffer"} \X {t} \X Spots(T, <<"buffer", t>>, x) : t \in Threads},
                 UNION {{"freed"} \X {t} \X Spots(T, <<"freed", t>>, x) : t \in Threads})
  BY DEF OpenSpots
<1>13. Available(k, x) = OpenSpots(T, x)
  BY <1>3, <1>7, <1>8, <1>9, <1>10, <1>11, <1>12
<1> QED
  BY <1>1, <1>13

LEMMA UsersAt ==
  ASSUME TypeOK, Placed, NEW k \in Kinds, k # "node", NEW x
  PROVE  Users(k, x) = UseSpots(TableOf(k), DOMAIN UsesOf(k), x)
<1>1. PICK T, K, U : /\ T = TableOf(k) /\ K = DOMAIN UsesOf(k) /\ U = UsesOf(k)
                     /\ \A y \in K : T[<<"use", y>>] = U[y]
  BY TableReads DEF TablesRead, Placed, Reads
<1>2. \A y \in K : U[y] \in Seq(Nat)
  BY <1>1, UsesTyped
<1>3. ASSUME NEW y \in K PROVE Positions(U[y], x) = Spots(T, <<"use", y>>, x)
  <2>1. PICK s \in Seq(Nat) : s = U[y]
    BY <1>2
  <2>2. PICK c : c = <<"use", y>>
    OBVIOUS
  <2>3. T[c] = s
    BY <1>1, <2>1, <2>2
  <2> QED
    BY <2>1, <2>2, <2>3, PositionsAre
<1>4. Users(k, x) = UNION {{y} \X Positions(U[y], x) : y \in K}
  <2>1. CASE k = "bnet"
    <3>1. U = held /\ K = Threads
      BY <1>1, <2>1 DEF UsesOf, TypeOK
    <3> QED
      BY <2>1, <3>1 DEF Users
  <2>2. CASE k = "appender"
    <3>1. U = appenders /\ K = DOMAIN appenders
      BY <1>1, <2>2 DEF UsesOf
    <3> QED
      BY <2>2, <3>1 DEF Users
  <2> QED
    BY <2>1, <2>2 DEF Kinds
<1>5. UNION {{y} \X Positions(U[y], x) : y \in K} = UNION {{y} \X Spots(T, <<"use", y>>, x) : y \in K}
  BY <1>3
<1> QED
  BY <1>1, <1>4, <1>5 DEF UseSpots

OpenAt(T, x, p) ==
  \/ \E i \in Spots(T, <<"store", 0>>, x) : p = <<"store", 0, i>>
  \/ \E t \in Threads : \E i \in Spots(T, <<"buffer", t>>, x) : p = <<"buffer", t, i>>
  \/ \E t \in Threads : \E i \in Spots(T, <<"freed", t>>, x) : p = <<"freed", t, i>>

UseAt(T, K, x, p) == \E y \in K : \E i \in Spots(T, <<"use", y>>, x) : p = <<y, i>>

LEMMA OpenSpotIs ==
  ASSUME NEW T, NEW x, NEW p
  PROVE  p \in OpenSpots(T, x) <=> OpenAt(T, x, p)
<1>1. PICK b, f : /\ b = [t \in Threads |-> Spots(T, <<"buffer", t>>, x)]
                  /\ f = [t \in Threads |-> Spots(T, <<"freed", t>>, x)]
  OBVIOUS
<1>2. UNION {{"buffer"} \X {t} \X Spots(T, <<"buffer", t>>, x) : t \in Threads} =
        UNION {{"buffer"} \X {t} \X b[t] : t \in Threads}
  BY <1>1
<1>3. UNION {{"freed"} \X {t} \X Spots(T, <<"freed", t>>, x) : t \in Threads} =
        UNION {{"freed"} \X {t} \X f[t] : t \in Threads}
  BY <1>1
<1>4. p \in UNION {{"buffer"} \X {t} \X b[t] : t \in Threads} <=>
        \E t \in Threads : \E i \in b[t] : p = <<"buffer", t, i>>
  BY TriplesOver
<1>5. p \in UNION {{"freed"} \X {t} \X f[t] : t \in Threads} <=>
        \E t \in Threads : \E i \in f[t] : p = <<"freed", t, i>>
  BY TriplesOver
<1>6. p \in {"store"} \X {0} \X Spots(T, <<"store", 0>>, x) <=>
        \E i \in Spots(T, <<"store", 0>>, x) : p = <<"store", 0, i>>
  OBVIOUS
<1>7. PICK A, B, F : /\ A = {"store"} \X {0} \X Spots(T, <<"store", 0>>, x)
                     /\ B = UNION {{"buffer"} \X {t} \X b[t] : t \in Threads}
                     /\ F = UNION {{"freed"} \X {t} \X f[t] : t \in Threads}
  BY Zenon
<1>8. OpenSpots(T, x) = A \cup B \cup F
  BY <1>2, <1>3, <1>7 DEF OpenSpots, InStore
<1>9. p \in A \cup B \cup F <=> p \in A \/ p \in B \/ p \in F
  OBVIOUS
<1>10. /\ \A t \in Threads : b[t] = Spots(T, <<"buffer", t>>, x)
       /\ \A t \in Threads : f[t] = Spots(T, <<"freed", t>>, x)
  BY <1>1
<1> QED
  BY <1>4, <1>5, <1>6, <1>7, <1>8, <1>9, <1>10, Zenon DEF OpenAt

LEMMA UseSpotIs ==
  ASSUME NEW T, NEW K, NEW x, NEW p
  PROVE  p \in UseSpots(T, K, x) <=> UseAt(T, K, x, p)
<1>1. PICK u : u = [y \in K |-> Spots(T, <<"use", y>>, x)]
  OBVIOUS
<1>2. UNION {{y} \X Spots(T, <<"use", y>>, x) : y \in K} = UNION {{y} \X u[y] : y \in K}
  BY <1>1
<1>3. p \in UNION {{y} \X u[y] : y \in K} <=> \E y \in K : \E i \in u[y] : p = <<y, i>>
  BY PairsOver
<1> QED
  BY <1>1, <1>2, <1>3 DEF UseSpots, UseAt

(* In a table without repetition an object is in one place at most. *)
LEMMA OneSpot ==
  ASSUME NEW K, NEW T \in Tables(Slots(K)), Separate(T), NEW x
  PROVE  /\ \A p, q \in OpenSpots(T, x) : p = q
         /\ \A p, q \in UseSpots(T, K, x) : p = q
         /\ \A p \in OpenSpots(T, x), q \in UseSpots(T, K, x) : FALSE
         /\ OpenSpots(T, x) # {} => x \in Objects(T)
         /\ x \in Objects(T) => OpenSpots(T, x) # {} \/ UseSpots(T, K, x) # {}
<1>1. \A c, i : i \in Spots(T, c, x) <=> i \in 1..Len(T[c]) /\ T[c][i] = x
  BY DEF Spots, Spot
<1>2. ASSUME NEW c \in Slots(K), NEW d \in Slots(K), NEW i \in Spots(T, c, x), NEW j \in Spots(T, d, x)
      PROVE  c = d /\ i = j
  BY <1>1, SeparateAt
<1>3. ASSUME NEW p \in OpenSpots(T, x)
      PROVE  \E c \in {<<"store", 0>>} \cup ({"buffer", "freed"} \X Threads) :
               \E i \in Spots(T, c, x) : p = <<c[1], c[2], i>>
  <2>1. CASE \E i \in Spots(T, <<"store", 0>>, x) : p = <<"store", 0, i>>
    <3>1. PICK i \in Spots(T, <<"store", 0>>, x) : p = <<"store", 0, i>>
      BY <2>1
    <3>2. PICK c : c = <<"store", 0>> /\ c[1] = "store" /\ c[2] = 0
      OBVIOUS
    <3>3. i \in Spots(T, c, x) /\ p = <<c[1], c[2], i>>
      BY <3>1, <3>2
    <3> QED
      BY <3>2, <3>3
  <2>2. ASSUME NEW t \in Threads, NEW i \in Spots(T, <<"buffer", t>>, x), p = <<"buffer", t, i>>
        PROVE  \E c \in {<<"store", 0>>} \cup ({"buffer", "freed"} \X Threads) :
                 \E j \in Spots(T, c, x) : p = <<c[1], c[2], j>>
    <3>1. PICK c \in {"buffer", "freed"} \X Threads : c = <<"buffer", t>> /\ c[1] = "buffer" /\ c[2] = t
      OBVIOUS
    <3>2. i \in Spots(T, c, x) /\ p = <<c[1], c[2], i>>
      BY <2>2, <3>1
    <3> QED
      BY <3>2
  <2>3. ASSUME NEW t \in Threads, NEW i \in Spots(T, <<"freed", t>>, x), p = <<"freed", t, i>>
        PROVE  \E c \in {<<"store", 0>>} \cup ({"buffer", "freed"} \X Threads) :
                 \E j \in Spots(T, c, x) : p = <<c[1], c[2], j>>
    <3>1. PICK c \in {"buffer", "freed"} \X Threads : c = <<"freed", t>> /\ c[1] = "freed" /\ c[2] = t
      OBVIOUS
    <3>2. i \in Spots(T, c, x) /\ p = <<c[1], c[2], i>>
      BY <2>3, <3>1
    <3> QED
      BY <3>2
  <2>4. \/ \E i \in Spots(T, <<"store", 0>>, x) : p = <<"store", 0, i>>
        \/ \E t \in Threads : \E i \in Spots(T, <<"buffer", t>>, x) : p = <<"buffer", t, i>>
        \/ \E t \in Threads : \E i \in Spots(T, <<"freed", t>>, x) : p = <<"freed", t, i>>
    <3>1. OpenAt(T, x, p)
      BY OpenSpotIs
    <3> QED
      BY <3>1 DEF OpenAt
  <2> QED
    BY <2>1, <2>2, <2>3, <2>4, Zenon
<1>4. \A c \in {<<"store", 0>>} \cup ({"buffer", "freed"} \X Threads) : c \in Slots(K)
  BY DEF Slots
<1>5. ASSUME NEW p \in OpenSpots(T, x), NEW q \in OpenSpots(T, x) PROVE p = q
  <2>1. PICK c \in {<<"store", 0>>} \cup ({"buffer", "freed"} \X Threads) :
               \E i \in Spots(T, c, x) : p = <<c[1], c[2], i>>
    BY <1>3
  <2>2. PICK i \in Spots(T, c, x) : p = <<c[1], c[2], i>>
    BY <2>1
  <2>3. PICK d \in {<<"store", 0>>} \cup ({"buffer", "freed"} \X Threads) :
               \E j \in Spots(T, d, x) : q = <<d[1], d[2], j>>
    BY <1>3
  <2>4. PICK j \in Spots(T, d, x) : q = <<d[1], d[2], j>>
    BY <2>3
  <2>5. c = d /\ i = j
    BY <1>2, <1>4
  <2> QED
    BY <2>2, <2>4, <2>5
<1>6. ASSUME NEW p \in UseSpots(T, K, x)
      PROVE  \E y \in K : \E i \in Spots(T, <<"use", y>>, x) : p = <<y, i>> /\ <<"use", y>> \in Slots(K)
  <2>1. PICK y \in K : \E i \in Spots(T, <<"use", y>>, x) : p = <<y, i>>
    <3>1. UseAt(T, K, x, p)
      BY UseSpotIs
    <3> QED
      BY <3>1 DEF UseAt
  <2>2. <<"use", y>> \in Slots(K)
    BY SlotsAre
  <2> QED
    BY <2>1, <2>2
<1>7. ASSUME NEW p \in UseSpots(T, K, x), NEW q \in UseSpots(T, K, x) PROVE p = q
  <2>1. PICK y \in K : \E i \in Spots(T, <<"use", y>>, x) : p = <<y, i>> /\ <<"use", y>> \in Slots(K)
    BY <1>6
  <2>2. PICK i \in Spots(T, <<"use", y>>, x) : p = <<y, i>> /\ <<"use", y>> \in Slots(K)
    BY <2>1
  <2>3. PICK z \in K : \E j \in Spots(T, <<"use", z>>, x) : q = <<z, j>> /\ <<"use", z>> \in Slots(K)
    BY <1>6
  <2>4. PICK j \in Spots(T, <<"use", z>>, x) : q = <<z, j>> /\ <<"use", z>> \in Slots(K)
    BY <2>3
  <2>5. <<"use", y>> = <<"use", z>> /\ i = j
    BY <1>2, <2>2, <2>4
  <2>6. y = z
    BY <2>5
  <2> QED
    BY <2>2, <2>4, <2>5, <2>6
<1>8. ASSUME NEW p \in OpenSpots(T, x), NEW q \in UseSpots(T, K, x) PROVE FALSE
  <2>1. PICK c \in {<<"store", 0>>} \cup ({"buffer", "freed"} \X Threads) :
               \E i \in Spots(T, c, x) : p = <<c[1], c[2], i>>
    BY <1>3
  <2>2. PICK i \in Spots(T, c, x) : p = <<c[1], c[2], i>>
    BY <2>1
  <2>3. PICK z \in K : \E j \in Spots(T, <<"use", z>>, x) : q = <<z, j>> /\ <<"use", z>> \in Slots(K)
    BY <1>6
  <2>4. PICK j \in Spots(T, <<"use", z>>, x) : q = <<z, j>> /\ <<"use", z>> \in Slots(K)
    BY <2>3
  <2>5. c = <<"use", z>>
    BY <1>2, <1>4, <2>4
  <2> QED
    BY <2>5
<1>9. ASSUME NEW p \in OpenSpots(T, x) PROVE x \in Objects(T)
  <2>1. PICK c \in {<<"store", 0>>} \cup ({"buffer", "freed"} \X Threads) :
               \E i \in Spots(T, c, x) : p = <<c[1], c[2], i>>
    BY <1>3
  <2>2. PICK i \in Spots(T, c, x) : p = <<c[1], c[2], i>>
    BY <2>1
  <2>3. c \in Slots(K) /\ i \in 1..Len(T[c]) /\ T[c][i] = x
    BY <1>1, <1>4
  <2> QED
    BY <2>3, IsObject
<1>10. ASSUME x \in Objects(T) PROVE OpenSpots(T, x) # {} \/ UseSpots(T, K, x) # {}
  <2>1. PICK c \in Slots(K) : \E i \in 1..Len(T[c]) : T[c][i] = x
    BY <1>10, PlaceOf
  <2>2. PICK i \in Spots(T, c, x) : TRUE
    BY <1>1, <2>1
  <2>3. CASE c = <<"store", 0>>
    <3>1. <<"store", 0, i>> \in OpenSpots(T, x)
      BY <2>3, OpenSpotIs DEF OpenAt
    <3> QED
      BY <3>1
  <2>4. ASSUME NEW t \in Threads, c = <<"buffer", t>> PROVE OpenSpots(T, x) # {}
    <3>1. <<"buffer", t, i>> \in OpenSpots(T, x)
      BY <2>4, OpenSpotIs DEF OpenAt
    <3> QED
      BY <3>1
  <2>5. ASSUME NEW t \in Threads, c = <<"freed", t>> PROVE OpenSpots(T, x) # {}
    <3>1. <<"freed", t, i>> \in OpenSpots(T, x)
      BY <2>5, OpenSpotIs DEF OpenAt
    <3> QED
      BY <3>1
  <2>6. ASSUME NEW y \in K, c = <<"use", y>> PROVE UseSpots(T, K, x) # {}
    <3>1. <<y, i>> \in UseSpots(T, K, x)
      BY <2>6, UseSpotIs DEF UseAt
    <3> QED
      BY <3>1
  <2> QED
    BY <2>3, <2>4, <2>5, <2>6, SlotsAre
<1> QED
  BY <1>5, <1>7, <1>8, <1>9, <1>10

Single(S) == \A p, q \in S : p = q

LEMMA AtMostOne ==
  ASSUME NEW S, Single(S)
  PROVE  (S = {} /\ Cardinality(S) = 0) \/ (S # {} /\ Cardinality(S) = 1)
<1>1. CASE S = {}
  <2>1. Cardinality({}) = 0
    BY FS_EmptySet
  <2>2. Cardinality(S) = 0
    BY <1>1, <2>1, Zenon
  <2> QED
    BY <1>1, <2>2, Zenon
<1>2. CASE S # {}
  <2>1. PICK p : S = {p}
    BY <1>2 DEF Single
  <2>2. Cardinality({p}) = 1
    BY FS_Singleton
  <2> QED
    BY <1>2, <2>1, <2>2
<1> QED
  BY <1>1, <1>2

-----------------------------------------------------------------------------
(* The sequences never hold more than their types allow: each thread's     *)
(* buffers, positions and plan, each node's count (never below 1), and the *)
(* arrays of networks and nodes.                                           *)
THEOREM TypeCorrect == StoreSpec => []TypeOK
<1>1. IInv => TypeOK
  BY DEF IInv
<1> QED
  BY <1>1, Invariant, PTL

LEMMA NodeCounts ==
  ASSUME IInv, NEW x \in 1..made["node"]
  PROVE  LET available == Cardinality(Available("node", x))
             users     == Cardinality(Users("node", x)) IN
         /\ available + users <= 1 \/ (available = 0 /\ users <= UsersAllowed("node", x))
         /\ available > 0 => refcnt[x] = 1
<1>1. TypeOK /\ Placed /\ Distinct /\ Counted /\ "node" \in Kinds
  BY DEF IInv, Kinds
<1>2. PICK A, U, a, u : /\ A = Available("node", x) /\ U = Users("node", x)
                        /\ a = Cardinality(A) /\ u = Cardinality(U)
  BY Zenon
<1>3. PICK T, K : T = TableOf("node") /\ K = DOMAIN UsesOf("node") /\ T \in Tables(Slots(K)) /\ Separate(T)
  <2>1. TableOf("node") \in Tables(Slots(DOMAIN UsesOf("node"))) /\ Separate(TableOf("node"))
    BY <1>1, TableReads DEF TablesRead, Placed, Reads, Distinct, DistinctOf
  <2> QED
    BY <2>1
<1>4. A = OpenSpots(T, x)
  BY <1>1, <1>2, <1>3, AvailableAt
<1>5. Single(A) /\ (A # {} => x \in Objects(T))
  BY <1>3, <1>4, OneSpot DEF Single
<1>6. (A = {} /\ a = 0) \/ (A # {} /\ a = 1)
  BY <1>2, <1>5, AtMostOne
<1>7. /\ refcnt[x] \in Nat \ {0} /\ IsFiniteSet(U) /\ u <= refcnt[x]
      /\ A # {} => U = {} /\ refcnt[x] = 1
  BY <1>1, <1>2, <1>3, <1>5 DEF Counted, TypeOK
<1>8. U = {} => u = 0
  <2>1. Cardinality({}) = 0
    BY FS_EmptySet
  <2> QED
    BY <1>2, <2>1, Zenon
<1>9. /\ a + u <= 1 \/ (a = 0 /\ u <= refcnt[x])
      /\ a > 0 => refcnt[x] = 1
  BY <1>6, <1>7, <1>8
<1> QED
  BY <1>2, <1>9 DEF UsersAllowed

LEMMA OtherCounts ==
  ASSUME IInv, NEW k \in Kinds, k # "node", NEW x
  PROVE  Cardinality(Available(k, x)) + Cardinality(Users(k, x)) <= 1
<1>1. TypeOK /\ Placed /\ Distinct
  BY DEF IInv
<1>2. PICK A, U, a, u : /\ A = Available(k, x) /\ U = Users(k, x)
                        /\ a = Cardinality(A) /\ u = Cardinality(U)
  BY Zenon
<1>3. PICK T, K : T = TableOf(k) /\ K = DOMAIN UsesOf(k) /\ T \in Tables(Slots(K)) /\ Separate(T)
  <2>1. TableOf(k) \in Tables(Slots(DOMAIN UsesOf(k))) /\ Separate(TableOf(k))
    BY <1>1, TableReads DEF TablesRead, Placed, Reads, Distinct, DistinctOf
  <2> QED
    BY <2>1
<1>4. A = OpenSpots(T, x) /\ U = UseSpots(T, K, x)
  BY <1>1, <1>2, <1>3, AvailableAt, UsersAt
<1>5. Single(A) /\ Single(U) /\ (A = {} \/ U = {})
  BY <1>3, <1>4, OneSpot DEF Single
<1>6. (A = {} /\ a = 0) \/ (A # {} /\ a = 1)
  BY <1>2, <1>5, AtMostOne
<1>7. (U = {} /\ u = 0) \/ (U # {} /\ u = 1)
  BY <1>2, <1>5, AtMostOne
<1>8. a + u <= 1
  BY <1>5, <1>6, <1>7
<1> QED
  BY <1>2, <1>8

(* No object of ReasoningStore ever has two owners: it is in one place of  *)
(* the store, of a thread's buffer and of what threads have freed, or in   *)
(* use by one network or node, or, a node, by as many networks as refcnt   *)
(* says; a node that can be had again has refcnt 1, and what allocBnet and *)
(* allocNode hand out has size 0.                                          *)
THEOREM OneOwnerHolds == StoreSpec => []OneOwner
<1>1. ASSUME IInv PROVE OneOwner
  <2> HandedOutEmpty
    BY <1>1 DEF IInv
  <2>1. SUFFICES ASSUME NEW k \in Kinds, NEW x \in 1..made[k]
                 PROVE  LET available == Cardinality(Available(k, x))
                            users     == Cardinality(Users(k, x)) IN
                        /\ available + users <= 1 \/ (available = 0 /\ users <= UsersAllowed(k, x))
                        /\ k = "node" /\ available > 0 => refcnt[x] = 1
    BY DEF OneOwner
  <2>2. CASE k = "node"
    BY <1>1, <2>2, NodeCounts
  <2>3. CASE k # "node"
    BY <1>1, <2>3, OtherCounts
  <2> QED
    BY <2>2, <2>3
<1>2. IInv => OneOwner
  BY <1>1
<1> QED
  BY <1>2, Invariant, PTL

(* What ReasoningStore gives up is what its steps say they give up: every  *)
(* other object is available or in use.                                    *)
THEOREM NothingElseLostHolds == StoreSpec => []NothingElseLost
<1>1. ASSUME IInv PROVE NothingElseLost
  <2>1. TypeOK /\ Placed /\ Distinct /\ Kept
    BY <1>1 DEF IInv
  <2>2. SUFFICES ASSUME NEW k \in Kinds, NEW x \in 1..made[k], Available(k, x) = {}, Users(k, x) = {}
                 PROVE  x \in lost[k] \/ (k = "node" /\ refcnt[x] > 1)
    BY DEF NothingElseLost
  <2>3. x \in Objects(TableOf(k)) \/ x \in lost[k] \/ (k = "node" /\ InUse(x))
    BY <2>1 DEF Kept, KeptOf
  <2>4. PICK T, K : T = TableOf(k) /\ K = DOMAIN UsesOf(k) /\ T \in Tables(Slots(K)) /\ Separate(T)
    <3>1. TableOf(k) \in Tables(Slots(DOMAIN UsesOf(k))) /\ Separate(TableOf(k))
      BY <2>1, TableReads DEF TablesRead, Placed, Reads, Distinct, DistinctOf
    <3> QED
      BY <3>1
  <2>5. x \in Objects(T) => UseSpots(T, K, x) # {}
    <3>1. OpenSpots(T, x) = {}
      BY <2>1, <2>2, <2>4, AvailableAt
    <3> QED
      BY <2>4, <3>1, OneSpot
  <2>6. CASE k = "node"
    <3>1. K = {}
      BY <2>4, <2>6 DEF UsesOf
    <3>2. \A p : ~UseAt(T, K, x, p)
      BY <3>1 DEF UseAt
    <3>3. UseSpots(T, K, x) = {}
      BY <3>2, UseSpotIs
    <3>4. InUse(x) => refcnt[x] > 1
      BY <2>2, <2>6 DEF InUse
    <3> QED
      BY <2>3, <2>4, <2>5, <2>6, <3>3, <3>4
  <2>7. CASE k # "node"
    <3>1. UseSpots(T, K, x) = {}
      BY <2>1, <2>2, <2>4, <2>7, UsersAt
    <3> QED
      BY <2>3, <2>4, <2>5, <2>7, <3>1
  <2> QED
    BY <2>6, <2>7
<1>2. IInv => NothingElseLost
  BY <1>1
<1> QED
  BY <1>2, Invariant, PTL

(* What freeBnet, freeNodes and freeAppenders collect fits in the vectors  *)
(* of a fixed length that they collect it in.                              *)
THEOREM FreedFitsHolds == StoreSpec => []FreedFits
<1>1. ASSUME IInv PROVE FreedFits
  <2>1. TypeOK /\ ArraysFit /\ \A t \in Threads : Collected(t)
    BY <1>1 DEF IInv, Placed
  <2>2. TLS_BUF_SIZE \in [Kinds -> Nat \ {0}] /\ NODES_PER_BNET \in Nat /\ APPENDERS_PER_NODE \in Nat
    BY StoreAssumption DEF StoreAssumption, Kinds
  <2>3. DOMAIN appenders = 1..made["node"]
    BY <2>1 DEF TypeOK
  <2>4. ASSUME NEW t \in Threads
        PROVE  /\ Len(freed[t]["bnet"]) <= TLS_BUF_SIZE["bnet"]
               /\ Len(freed[t]["node"]) <= TLS_BUF_SIZE["node"] + NODES_PER_BNET
               /\ \A n \in DOMAIN appenders :
                    Len(freed[t]["appender"]) + Len(appenders[n]) <= TLS_BUF_SIZE["appender"] + APPENDERS_PER_NODE
    <3>1. freed[t] \in [Kinds -> Seq(Nat)] /\ pc[t] \in {"idle", "bnets", "nodes", "undefined"}
      BY <2>1 DEF TypeOK
    <3>2. /\ Len(freed[t]["bnet"]) \in Nat /\ Len(freed[t]["node"]) \in Nat /\ Len(freed[t]["appender"]) \in Nat
          /\ TLS_BUF_SIZE["bnet"] \in Nat /\ TLS_BUF_SIZE["node"] \in Nat /\ TLS_BUF_SIZE["appender"] \in Nat
      BY <2>2, <3>1 DEF Kinds
    <3>3. Collected(t)
      BY <2>1
    <3>4. /\ Len(freed[t]["appender"]) < TLS_BUF_SIZE["appender"]
          /\ \/ Len(freed[t]["bnet"]) < TLS_BUF_SIZE["bnet"]
             \/ Len(freed[t]["bnet"]) = TLS_BUF_SIZE["bnet"]
      BY <3>1, <3>3 DEF Collected
    <3>5. Len(freed[t]["node"]) <= TLS_BUF_SIZE["node"] + NODES_PER_BNET
      <4>1. PICK b : b = freed[t]["bnet"][at[t]["bnet"]]
        OBVIOUS
      <4>2. \/ Len(freed[t]["node"]) < TLS_BUF_SIZE["node"]
            \/ Len(freed[t]["node"]) \in TLS_BUF_SIZE["node"]..(TLS_BUF_SIZE["node"] + NODES_PER_BNET)
            \/ /\ at[t]["bnet"] \in 1..(Len(freed[t]["bnet"]) + 1) /\ at[t]["bnet"] <= Len(freed[t]["bnet"])
               /\ Len(freed[t]["node"]) + Len(nodes[b]) < TLS_BUF_SIZE["node"] + NODES_PER_BNET
        BY <3>1, <3>3, <4>1 DEF Collected
      <4>3. CASE /\ at[t]["bnet"] \in 1..(Len(freed[t]["bnet"]) + 1) /\ at[t]["bnet"] <= Len(freed[t]["bnet"])
                 /\ Len(freed[t]["node"]) + Len(nodes[b]) < TLS_BUF_SIZE["node"] + NODES_PER_BNET
        <5>1. at[t]["bnet"] \in 1..Len(freed[t]["bnet"])
          BY <3>2, <4>3
        <5>2. b \in 1..made["bnet"]
          BY <1>1, <4>1, <5>1, FreedIs DEF IInv, Kinds
        <5>3. Len(nodes[b]) \in Nat
          BY <2>1, <5>2 DEF TypeOK
        <5>4. PICK l, m, q, r \in Nat : /\ l = Len(freed[t]["node"]) /\ m = Len(nodes[b])
                                        /\ q = TLS_BUF_SIZE["node"] /\ r = NODES_PER_BNET
          BY <2>2, <3>2, <5>3
        <5>5. l + m < q + r
          BY <4>3, <5>4
        <5>6. l <= q + r
          BY <5>5
        <5> QED
          BY <5>4, <5>6
      <4>4. PICK l, q, r \in Nat : /\ l = Len(freed[t]["node"]) /\ q = TLS_BUF_SIZE["node"]
                                   /\ r = NODES_PER_BNET
        BY <2>2, <3>2
      <4>5. l < q \/ l \in q..(q + r) => l <= q + r
        OBVIOUS
      <4> QED
        BY <4>2, <4>3, <4>4, <4>5
    <3>6. ASSUME NEW n \in DOMAIN appenders
          PROVE  Len(freed[t]["appender"]) + Len(appenders[n]) <= TLS_BUF_SIZE["appender"] + APPENDERS_PER_NODE
      <4>1. Len(appenders[n]) \in Nat /\ Len(appenders[n]) <= APPENDERS_PER_NODE
        BY <2>1, <2>3 DEF TypeOK, ArraysFit
      <4> QED
        BY <2>2, <3>2, <3>4, <4>1
    <3>7. Len(freed[t]["bnet"]) <= TLS_BUF_SIZE["bnet"]
      BY <3>2, <3>4
    <3> QED
      BY <3>5, <3>6, <3>7
  <2> QED
    BY <2>4 DEF FreedFits
<1>2. IInv => FreedFits
  BY <1>1
<1> QED
  BY <1>2, Invariant, PTL

=============================================================================
