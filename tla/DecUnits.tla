-------------------------------- MODULE DecUnits --------------------------------
(***************************************************************************)
(* src/code/decNumber.cpp: coefficients as they are stored, in arrays of   *)
(* units of DECDPUN = 3 digits, the least significant unit first, and the  *)
(* routines on them.  The other modules use natural numbers; the           *)
(* properties of DecSession relate the two.                                *)
(***************************************************************************)
EXTENDS Integers, Sequences

BASE == 1000          \* DECDPUNMAX + 1
UNITDIGITS == 3       \* DECDPUN
D2U(d) == (d + UNITDIGITS - 1) \div UNITDIGITS
MSUDIGITS(d) == d - (D2U(d) - 1) * UNITDIGITS

At(u, i) == IF i \in 1..Len(u) THEN u[i] ELSE 0
Longer(a, b) == IF a > b THEN a ELSE b
ValueOf(u) == LET v[i \in 0..Len(u)] == IF i = 0 THEN 0 ELSE v[i - 1] + u[i] * BASE^(i - 1)
              IN v[Len(u)]
OfLength(c, len) == [i \in 1..len |-> (c \div BASE^(i - 1)) % BASE]

-----------------------------------------------------------------------------
(* decUnitAddSub.  A carry is split by a multiplication and a shift, whose *)
(* quotient may be one too small; a negative one is made positive first.   *)
Estimate(carry) == ((carry \div 8) * 16777) \div 2097152

(* Defect: the estimate is taken for the quotient. *)
SplitUncorrected(carry) ==
  LET positive == IF carry >= 0 THEN carry ELSE carry + BASE * BASE
      est == Estimate(positive)
  IN [unit |-> positive - est * BASE, carry |-> IF carry >= 0 THEN est ELSE est - BASE]

Split(carry) ==
  LET positive == IF carry >= 0 THEN carry ELSE carry + BASE * BASE
      est == Estimate(positive)
      rem == positive - est * BASE
      high == IF carry >= 0 THEN est ELSE est - BASE
  IN IF carry \in 0..(BASE - 1) THEN [unit |-> carry, carry |-> 0]
     ELSE IF rem < BASE THEN [unit |-> rem, carry |-> high]
     ELSE [unit |-> rem - BASE, carry |-> high + 1]

(* A + B * m, B shifted by so many units: the units and what is carried. *)
Columns(a, b, bshift, m) ==
  LET c[i \in 0..Longer(Len(a), Len(b) + bshift)] ==
        IF i = 0 THEN [units |-> <<>>, carry |-> 0]
        ELSE LET s == Split(c[i - 1].carry + At(a, i) + At(b, i - bshift) * m)
             IN [units |-> Append(c[i - 1].units, s.unit), carry |-> s.carry]
  IN c[Longer(Len(a), Len(b) + bshift)]

(* The complement of a negative result, and what it still carries. *)
Complement(u) ==
  LET c[i \in 0..Len(u)] ==
        IF i = 0 THEN [units |-> <<>>, add |-> 1]
        ELSE LET d == BASE - 1 + c[i - 1].add - u[i]
             IN [units |-> Append(c[i - 1].units, d % BASE), add |-> d \div BASE]
  IN c[Len(u)]

UnitAddSub(a, b, bshift, m) ==
  LET c == Columns(a, b, bshift, m)
      n == Complement(c.units)
      extra == n.add - c.carry - 1
  IN CASE c.carry = 0 -> [units |-> c.units, negative |-> FALSE]
       [] c.carry > 0 -> [units |-> Append(c.units, c.carry), negative |-> FALSE]
       [] OTHER -> [units |-> IF extra # 0 THEN Append(n.units, extra) ELSE n.units,
                    negative |-> TRUE]

(* decUnitCompare: A to B * 10^exp, by length if that decides. *)
AllZero(u) == \A i \in 1..Len(u) : u[i] = 0
CompareAligned(a, b) ==
  LET differ == {i \in 1..Len(a) : a[i] # b[i]}
      top == CHOOSE i \in differ : \A j \in differ : j <= i
  IN IF Len(a) # Len(b) THEN IF Len(a) > Len(b) THEN 1 ELSE -1
     ELSE IF differ = {} THEN 0 ELSE IF a[top] > b[top] THEN 1 ELSE -1

UnitCompare(a, b, exp) ==
  LET r == UnitAddSub(a, b, exp \div UNITDIGITS, -(10^(exp % UNITDIGITS))) IN
  CASE exp = 0 -> CompareAligned(a, b)
    [] exp > 0 /\ Len(a) > Len(b) + D2U(exp) -> 1
    [] exp > 0 /\ Len(a) + 1 < Len(b) + D2U(exp) -> -1
    [] OTHER -> IF r.negative THEN -1 ELSE IF AllZero(r.units) THEN 0 ELSE 1

-----------------------------------------------------------------------------
(* decGetDigits: leading zero units and digits are not counted. *)
GetDigits(u) ==
  LET used == {i \in 1..Len(u) : u[i] # 0}
      top == CHOOSE i \in used : \A j \in used : j <= i
  IN IF used = {} THEN 1
     ELSE (top - 1) * UNITDIGITS + (IF u[top] < 10 THEN 1 ELSE IF u[top] < 100 THEN 2 ELSE 3)

(* decShiftToMost, decShiftToLeast: zeros at the low end, or digits lost   *)
(* there.  The shift cuts each unit in two, which go to neighbours.        *)
Spliced(u, from, cut) ==
  At(u, from) \div 10^cut + (At(u, from + 1) % 10^cut) * 10^(UNITDIGITS - cut)

ShiftUnitsToMost(u, digits, shift) ==
  [i \in 1..D2U(digits + shift) |->
     Spliced(u, i - D2U(shift), UNITDIGITS - MSUDIGITS(shift))]

ShiftUnitsToLeast(u, shift) ==
  LET cut == MSUDIGITS(shift) IN
  CASE shift = 0 -> u
    [] shift = Len(u) * UNITDIGITS -> <<0>>
    [] OTHER -> [i \in 1..D2U(Len(u) * UNITDIGITS - shift) |->
                   Spliced(u, i + (shift - cut) \div UNITDIGITS, cut)]

(* decNumberRotate: as many digits to the left, of a number with so many.  *)
(* First the rest of a unit goes to the right and what falls out to the    *)
(* left end; then whole units go round, the units that will be on the left *)
(* shifted so that the last of them is filled from them.                   *)
RotatedRest(u, length, rest) ==
  LET top == Len(u)
      msu == MSUDIGITS(length)
      save == u[1] % 10^rest
      v == ShiftUnitsToLeast(u, rest)
      over == rest - msu
  IN CASE rest = 0 -> u
       [] over > 0 -> [v EXCEPT ![top] = save \div 10^over,
                                ![top - 1] = @ + (save % 10^over) * 10^(UNITDIGITS - over)]
       [] OTHER -> [v EXCEPT ![top] = @ + save * 10^(-over)]

RotatedUnits(u, length, units) ==
  LET top == Len(u)
      msu == MSUDIGITS(length)
      save == u[1] % 10^(UNITDIGITS - msu)
      low == ShiftUnitsToLeast(SubSeq(u, 1, units), UNITDIGITS - msu)
      left == [SubSeq(u, units + 1, top) EXCEPT ![top - units] = @ + save * 10^msu]
  IN CASE units = 0 -> u
       [] OTHER -> left \o low

RotateUnits(u, length, rotate) ==
  LET right == length - rotate IN
  RotatedUnits(RotatedRest(u, length, right % UNITDIGITS), length, right \div UNITDIGITS)

(* decDecap: digits lost at the high end. *)
Decap(u, digits, drop) ==
  LET keep == digits - drop IN
  IF drop >= digits THEN <<0>>
  ELSE [SubSeq(u, 1, D2U(keep)) EXCEPT ![D2U(keep)] = @ % 10^MSUDIGITS(keep)]

(* The multiplication by units, for short operands. *)
UnitMultiply(lhs, rhs) ==
  LET acc[i \in 0..Len(rhs)] ==
        IF i = 0 THEN <<0>>
        ELSE IF rhs[i] = 0 THEN Append(acc[i - 1], 0)
        ELSE SubSeq(acc[i - 1], 1, i - 1)
             \o UnitAddSub(SubSeq(acc[i - 1], i, Len(acc[i - 1])), lhs, 0, rhs[i]).units
  IN acc[Len(rhs)]

-----------------------------------------------------------------------------
(* decNumberGetBCD and decNumberSetBCD: digits, the most significant first. *)
(* The units written are those of the number that is replaced.              *)
GetBCD(u, digits) ==
  [i \in 1..digits |-> LET k == digits - i IN
                       (At(u, k \div UNITDIGITS + 1) \div 10^(k % UNITDIGITS)) % 10]

Assemble(bcd, first, last) ==
  LET v[i \in (first - 1)..last] == IF i < first THEN 0
                                    ELSE v[i - 1] * 10 + IF i \in 1..Len(bcd) THEN bcd[i] ELSE 0
  IN v[last]

SetBCD(u, digits, bcd) ==
  LET top == D2U(digits)
      end(i) == MSUDIGITS(Len(bcd)) + (top - i) * UNITDIGITS
      begin(i) == IF i = top THEN 1 ELSE end(i) - UNITDIGITS + 1
  IN [i \in 1..Len(u) |-> IF i > top THEN u[i] ELSE Assemble(bcd, begin(i), end(i))]
=============================================================================
