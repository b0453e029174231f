----------------------------- MODULE DecimalDecNumber -----------------------------
(***************************************************************************)
(* src/code/DecimalDecNumber.cpp: a decNumber with a decContext of its     *)
(* own, as a value of C++.  An object is the number m_value and the flags  *)
(* that its m_context has collected; the rest of the context is always     *)
(* the same.  m_context is mutable: a const object collects flags too, and *)
(* nothing clears them, for setValue() calls decContextClearStatus() with  *)
(* an empty mask.                                                          *)
(***************************************************************************)
EXTENDS DecOperations, DecText

CONSTANTS PRECISION,         \* DECNUMDIGITS, 48 in the code
          COMPARISON_DIGITS, \* DECNUMCOMPARISONDIGITS, 16 in the code
          PLACES,            \* the decimals round() unpacks a text to, 48 in the code
          BUFFER_SIZE,       \* the characters of a text, 256 in the code
          THRESHOLD,         \* numbers compare equal up to 1E-THRESHOLD, 37 in the code
          INT64_DIGITS,      \* the powers of ten convertToIntX knows, 19 in the code
          INT64_MAX,         \* the greatest int64
          COMPONENT_DIGITS   \* the digits of a significand, 18 in the code

(* decContextDefault(DEC_INIT_BASE) without traps. *)
Default(digits) ==
  [digits |-> digits, emax |-> -MINEMIN, emin |-> MINEMIN, round |-> "HALF_UP", clamp |-> FALSE,
   status |-> {}]
ContextOf(x) == [Default(PRECISION) EXCEPT !.status = x.status]

(* The constructors, and what a function of decNumber leaves: a number in  *)
(* m_value, flags in m_context.                                            *)
Object(n)      == [value |-> n, status |-> {}]
Kept(x, r)     == [value |-> r.n, status |-> x.status \cup r.status]
Raised(x, flags) == [x EXCEPT !.status = @ \cup flags]

(* How a member function ends: what it leaves of the object, what it       *)
(* returns, or that it throws.                                             *)
Outcome(x, ok, result) == [object |-> x, ok |-> ok, result |-> result]
Becomes(x)       == Outcome(x, TRUE, x.value)
Tells(x, result) == Outcome(x, TRUE, result)
Thrown(x)        == Outcome(x, FALSE, 0)

ONE  == Finite(0, 1, 0)
TWO  == Finite(0, 2, 0)
FOUR == Finite(0, 4, 0)

(* DEC_Errors *)
Errors == Invalid \cup {"Division_by_zero", "Overflow", "Underflow"}

(* The constructors and assignments.  setValue(): a string must give no    *)
(* error.  A double is printed and read; assignments keep the context.     *)
Failed(x) == x.status \cap Errors # {}
SetValue(x, text) == Kept(x, decNumberFromString(text, ContextOf(x)))
Unless(failed, x, after) == IF failed THEN Thrown(x) ELSE Becomes(after)
Read(x, made) == Unless(Failed(made), x, made)

MakeOfInt(x, i)       == Becomes(Object(decNumberFromInt32(i)))
MakeOfText(x, text)   == Read(x, SetValue(Object(Zero), text))
MakeOfDouble(x, text) == Becomes(SetValue(Object(Zero), text))
AssignDouble(x, text) == Becomes(SetValue(x, text))
Assign(x, n)          == Becomes([x EXCEPT !.value = n])

-----------------------------------------------------------------------------
(* The operators.  They refuse NaNs, and a division zero and infinities.   *)
AddAssign(x, n) ==
  Unless(AnyNaN(x.value, n), x, Kept(x, decNumberAdd(x.value, n, ContextOf(x))))
SubtractAssign(x, n) ==
  Unless(AnyNaN(x.value, n), x, Kept(x, decNumberSubtract(x.value, n, ContextOf(x))))
MultiplyAssign(x, n) ==
  Unless(AnyNaN(x.value, n), x, Kept(x, decNumberMultiply(x.value, n, ContextOf(x))))
Indivisible(a, b) == AnyNaN(a, b) \/ IsZero(b) \/ IsInf(a) \/ IsInf(b)
DivideAssign(x, n) ==
  IF Indivisible(x.value, n) THEN Thrown(x)
  ELSE Becomes(Kept(x, decNumberDivide(x.value, n, ContextOf(x))))
Increment(x) == AddAssign(x, ONE)
Decrement(x) == SubtractAssign(x, ONE)
UnaryPlus(x)  == IF IsNaN(x.value) THEN Thrown(x) ELSE Tells(x, x.value)
UnaryMinus(x) == IF IsNaN(x.value) THEN Thrown(x) ELSE Tells(x, decNumberCopyNegate(x.value))

(* avg() works on copies; power() leaves its flags with the operand, which *)
(* is given the result here.                                               *)
HalfOf(x, sum) ==
  IF Special(sum) THEN Thrown(x) ELSE Tells(x, decNumberDivide(sum, TWO, Default(PRECISION)).n)
avg(x, n) ==
  IF AnyNaN(x.value, n) THEN Thrown(x) ELSE HalfOf(x, decNumberAdd(x.value, n, Default(PRECISION)).n)
power(x, i) == Becomes(Kept(x, decNumberPower(x.value, decNumberFromInt32(i), ContextOf(x))))

(* sign(), isNegative(), isPositive(), isInfinity(), isValid(), isZero()   *)
SignNumber(n) == IF Negative(n) THEN -1 ELSE IF IsZero(n) THEN 0 ELSE 1
asks(x) == Tells(x, [sign |-> SignNumber(x.value), positive |-> SignNumber(x.value) > 0,
                     infinity |-> IF IsInf(x.value) THEN SignNumber(x.value) ELSE 0,
                     valid |-> ~Special(x.value), zero |-> IsZero(x.value)])

-----------------------------------------------------------------------------
(* comparedTo(): equal is what differs by no more than the threshold.      *)

(* Defect: both bounds are positive. *)
ToleranceUnsigned(s) == Finite(0, 1, -THRESHOLD)

Tolerance(s) == Finite(s, 1, -THRESHOLD)

AsInt(n, s) == decNumberToInt32(decNumberCompare(n, Tolerance(s), Default(COMPARISON_DIGITS)).n)
Order(x, difference, over, under) ==
  IF over.value >= 1 THEN Tells(Raised(x, difference.status), 1)
  ELSE Tells(Raised(x, difference.status \cup over.status \cup under.status),
             IF under.value <= -1 THEN -1 ELSE 0)
OrderBy(x, difference) == Order(x, difference, AsInt(difference.n, 0), AsInt(difference.n, 1))
comparedTo(x, n) ==
  IF AnyNaN(x.value, n) THEN Thrown(x)
  ELSE OrderBy(x, decNumberSubtract(x.value, n, ContextOf(x)))

(* distance() takes the absolute value, equalsDelta() compares it.         *)
Absolute(x, r) ==
  IF IsNaN(r.n) /\ Negative(r.n) THEN Thrown(Raised(x, r.status)) ELSE Tells(Raised(x, r.status), Abs(r.n))
distance(x, n) == Absolute(x, decNumberSubtract(x.value, n, ContextOf(x)))
AtMost(x, order) == IF order.ok THEN Tells(x, order.result <= 0) ELSE Thrown(x)
Within(x, dist, delta) ==
  IF dist.ok THEN AtMost(dist.object, comparedTo(Object(dist.result), delta)) ELSE dist
equalsDelta(x, n, delta) == Within(x, distance(x, n), delta)

-----------------------------------------------------------------------------
(* unpackScientificFormat(): a text with an exponent as one without it,    *)
(* with so many decimals at most.  What is too long for the buffer becomes *)
(* 0.0, or NaN if it is large; 0 loses its sign.                           *)
ZeroText == Text(0, "finite", <<0>>, <<0>>, 0)
NaNText  == Text(0, "nan", <<>>, <<>>, 0)

Cut(digits, most) == SubSeq(digits, 1, Lower(Len(digits), most))
OnlyZeros(digits)   == \A i \in 1..Len(digits) : digits[i] = 0

Unpacked(negative, whole, fraction) ==
  IF OnlyZeros(whole \o fraction) THEN ZeroText ELSE Text(negative, "finite", whole, fraction, 0)

Unpack(t, digits, magnitude, size, places) ==
  LET len == Len(digits) IN
  IF t.exponent < 0
  THEN IF magnitude + 1 + len > size THEN ZeroText
       ELSE Unpacked(t.sign, <<0>>, Cut(Zeros(magnitude - 1) \o digits, places))
  ELSE IF len <= magnitude
  THEN IF magnitude + 3 > size THEN NaNText
       ELSE Unpacked(t.sign, digits \o Zeros(magnitude + 1 - len), Cut(<<0>>, places))
  ELSE Unpacked(t.sign, SubSeq(digits, 1, magnitude + 1),
                Cut(SubSeq(digits, magnitude + 2, len), places))

(* The character after the end is made NUL: a text that just fills the     *)
(* buffer has it one past the buffer.                                      *)
Overruns(t, places) ==
  LET len == Len(t.whole \o t.fraction)
      size == BUFFER_SIZE - t.sign
      magnitude == Magnitude(t.exponent)
  IN \/ t.exponent < 0 /\ magnitude + 1 + len = size /\ places + 2 >= size
     \/ t.exponent > 0 /\ len <= magnitude /\ magnitude + 3 = size /\ places >= 1

unpackScientificFormat(t, places) ==
  IF t.exponent = 0 THEN t
  ELSE Unpack(t, t.whole \o t.fraction, Magnitude(t.exponent), BUFFER_SIZE - t.sign, places)

-----------------------------------------------------------------------------
(* round() *)
RoundingModes == {"HALF_TO_POSITIVE_INFINITY", "HALF_TO_NEGATIVE_INFINITY", "TO_POSITIVE_INFINITY",
                  "TO_NEGATIVE_INFINITY", "AWAY_FROM_ZERO", "TO_ZERO", "HALF_AWAY_FROM_ZERO",
                  "HALF_TO_ZERO", "HALF_TO_EVEN"}
Increments == {"TENTH", "HALF", "QUARTER"}

(* Defect: negative numbers are rounded like positive ones. *)
ContextModeUnsigned(mode, negative) ==
  CASE mode \in {"HALF_TO_POSITIVE_INFINITY", "HALF_AWAY_FROM_ZERO"} -> "HALF_UP"
    [] mode \in {"HALF_TO_NEGATIVE_INFINITY", "HALF_TO_ZERO"} -> "HALF_DOWN"
    [] mode \in {"TO_POSITIVE_INFINITY", "AWAY_FROM_ZERO"} -> "UP"
    [] mode \in {"TO_NEGATIVE_INFINITY", "TO_ZERO"} -> "DOWN"
    [] mode = "HALF_TO_EVEN" -> "HALF_EVEN"

ContextMode(mode, negative) ==
  CASE mode = "HALF_TO_POSITIVE_INFINITY" -> IF negative THEN "HALF_DOWN" ELSE "HALF_UP"
    [] mode = "HALF_TO_NEGATIVE_INFINITY" -> IF negative THEN "HALF_UP" ELSE "HALF_DOWN"
    [] mode = "TO_POSITIVE_INFINITY"      -> IF negative THEN "DOWN" ELSE "UP"
    [] mode = "TO_NEGATIVE_INFINITY"      -> IF negative THEN "UP" ELSE "DOWN"
    [] mode = "AWAY_FROM_ZERO"            -> "UP"
    [] mode = "TO_ZERO"                   -> "DOWN"
    [] mode = "HALF_AWAY_FROM_ZERO"       -> "HALF_UP"
    [] mode = "HALF_TO_ZERO"              -> "HALF_DOWN"
    [] mode = "HALF_TO_EVEN"              -> "HALF_EVEN"

LeadingZeros(fraction) ==
  CHOOSE i \in 0..(Len(fraction) - 1) : fraction[i + 1] # 0 /\ OnlyZeros(SubSeq(fraction, 1, i))

(* decNumber rounds to digits, the caller asks for decimals. *)
SignificantDigits(text, places) ==
  IF text.whole[1] = 0 THEN places - LeadingZeros(text.fraction) ELSE places + Len(text.whole)

RoundedText(text, digits, mode) == decNumberFromString(text, [Default(digits) EXCEPT !.round = mode]).n

PlainText(n) == unpackScientificFormat(decNumberToString(n), PLACES)

(* By halves or quarters: what is rounded is the double or fourfold.       *)
Factor(increment) == IF increment = "HALF" THEN TWO ELSE FOUR
Multiplied(x, increment) ==
  IF increment = "TENTH" THEN x
  ELSE Kept(x, decNumberMultiply(x.value, Factor(increment), ContextOf(x)))
Divided(x, increment) ==
  IF increment = "TENTH" THEN x
  ELSE Kept(x, decNumberDivide(x.value, Factor(increment), ContextOf(x)))

(* A text without a digit after the point is not rounded; if the last      *)
(* place is before its first digit, the number is 0 at once.               *)
RoundAt(x, text, digits, mode, increment) ==
  IF digits < 0 THEN [x EXCEPT !.value = Zero]
  ELSE Divided([x EXCEPT !.value = RoundedText(text, digits, ContextMode(mode, Negative(x.value)))], increment)
RoundShown(x, text, places, mode, increment) ==
  IF OnlyZeros(text.fraction) THEN Divided(x, increment)
  ELSE RoundAt(x, text, SignificantDigits(text, places), mode, increment)
RoundScaled(x, places, mode, increment) ==
  RoundShown(x, PlainText(x.value), places, mode, increment)

round(x, places, mode, increment) ==
  IF IsZero(x.value) THEN x
  ELSE RoundScaled(Multiplied(x, increment), places, mode, increment)
Rounds(x, places, mode, increment) == Becomes(round(x, places, mode, increment))
roundOverruns(x, increment) ==
  ~IsZero(x.value) /\ Overruns(decNumberToString(Multiplied(x, increment).value), PLACES)

-----------------------------------------------------------------------------
(* toString(), toStringAllowScientific(): what is beyond the last place is *)
(* cut, not rounded; trailing zeros go, but for one.                       *)
Trimmed(fraction) ==
  LET keep == CHOOSE i \in 0..Len(fraction) :
                /\ i = 0 \/ fraction[i] # 0
                /\ OnlyZeros(SubSeq(fraction, i + 1, Len(fraction)))
  IN IF keep = 0 THEN <<0>> ELSE SubSeq(fraction, 1, keep)

Shortened(text) == IF text.kind = "nan" THEN text ELSE [text EXCEPT !.fraction = Trimmed(@)]
CutAt(n, places) == decNumberToString(round(Object(n), places, "TO_ZERO", "TENTH").value)

toString(n, places) ==
  IF IsZero(n) THEN ZeroText
  ELSE IF IsNaN(n) THEN NaNText
  ELSE IF Special(n) THEN Text(n.sign, "inf", <<>>, <<>>, 0)
  ELSE Shortened(unpackScientificFormat(CutAt(n, places), places))

toStringOverruns(x, places) ==
  /\ ~IsZero(x.value) /\ ~Special(x.value)
  /\ roundOverruns(x, "TENTH") \/ Overruns(CutAt(x.value, places), places)

toStringAllowScientific(n, places) ==
  IF ~IsZero(n) /\ ~Special(n) /\ CutAt(n, places).exponent > 0
  THEN CutAt(n, places) ELSE toString(n, places)

-----------------------------------------------------------------------------
(* toIntX(), convertToIntX(): the quantize works on a copy of the context. *)
WithoutFraction(x) ==
  IF x.value.exponent = 0 THEN x.value
  ELSE decNumberQuantize(x.value, Zero, [ContextOf(x) EXCEPT !.round = "DOWN"]).n

(* Of 32 bits: any error the object ever had is taken for one of this call. *)
ConvertToInt32(x, i) ==
  IF Failed(Raised(x, i.status)) THEN Thrown(Raised(x, i.status)) ELSE Tells(x, i.value)
toInt32(x) ==
  IF Special(x.value) THEN Thrown(x) ELSE ConvertToInt32(x, decNumberToInt32(WithoutFraction(x)))

(* Defect: the most negative number is refused. *)
InInt64Symmetric(n) == n.coeff <= INT64_MAX
InInt64(n) == n.coeff <= INT64_MAX + n.sign

ConvertToInt64(x, n) ==
  IF Special(n) \/ n.exponent # 0 \/ Digits(n.coeff) > INT64_DIGITS \/ ~InInt64(n)
  THEN Thrown(x)
  ELSE Tells(x, IF Negative(n) THEN -n.coeff ELSE n.coeff)
toInt64(x) == IF Special(x.value) THEN Thrown(x) ELSE ConvertToInt64(x, WithoutFraction(x))

(* fromDecimalComponents(), toDecimalComponents() *)
fromDecimalComponents(significand, exponent) ==
  IF exponent = 0 THEN Object(decNumberFromInt32(significand))
  ELSE Kept(Object(Zero), decNumberScaleB(decNumberFromInt32(significand), decNumberFromInt32(exponent),
                                          Default(PRECISION)))

(* The significand is read from the text of the number without its         *)
(* exponent.                                                               *)
Scanned(n, text) == IF Negative(n) THEN -CoefficientOf(text.whole) ELSE CoefficientOf(text.whole)
WithoutExponent(n) == decNumberScaleB(n, decNumberFromInt32(-n.exponent), Default(COMPONENT_DIGITS)).n
Components(n) ==
  [ok |-> TRUE, exponent |-> n.exponent, significand |-> Scanned(n, toString(WithoutExponent(n), 0))]
toDecimalComponents(n) ==
  IF Special(n) THEN [ok |-> FALSE, exponent |-> 0, significand |-> 0]
  ELSE Components(decNumberReduce(n, Default(COMPONENT_DIGITS)).n)
=============================================================================
