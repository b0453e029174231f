------------------------------ MODULE DecimalSession ------------------------------
(***************************************************************************)
(* A program that uses one object of src/code/DecimalDecNumber.cpp, whose  *)
(* context collects the flags of every call, and numbers of other objects. *)
(* sqrt() and exp() are left out, as decNumber's functions are.            *)
(***************************************************************************)
EXTENDS DecimalDecNumber, DecSession

CONSTANTS Numbers,    \* the values of the other objects
          Wholes,     \* the ints the object is made from and raised to
          Places,     \* the decimals asked for
          Scientific, \* texts with an exponent
          Deltas,     \* what equalsDelta() is asked
          Begun,      \* the objects a session may begin with
          MAX_USES    \* bound: calls on the object

(* The object is its number and the flags of its context. *)
object == [value |-> m_value, status |-> set.status]

ObjectInit ==
  /\ \E begun \in Begun :
       m_value = begun.value /\ set = [Default(PRECISION) EXCEPT !.status = begun.status]
  /\ calls = 0
  /\ last = NoCall

Use(op, args, outcome) ==
  /\ calls' = calls + 1
  /\ m_value' = outcome.object.value
  /\ set' = [set EXCEPT !.status = outcome.object.status]
  /\ last' = [op |-> op, args |-> args, on |-> object, ok |-> outcome.ok, result |-> outcome.result]
Usable == ~Direct /\ calls < MAX_USES

(* A call without, with one, two and three arguments. *)
Call0(op, function(_)) == Usable /\ Use(op, <<>>, function(object))
Call1(op, A, function(_, _)) == Usable /\ \E a \in A : Use(op, <<a>>, function(object, a))
Call2(op, A, B, function(_, _, _)) ==
  Usable /\ \E a \in A, b \in B : Use(op, <<a, b>>, function(object, a, b))
Call3(op, A, B, C, function(_, _, _, _)) ==
  Usable /\ \E a \in A, b \in B, c \in C : Use(op, <<a, b, c>>, function(object, a, b, c))

Printed == {decNumberToString(n) : n \in Numbers}
Texts == Printed \cup {[ZeroText EXCEPT !.kind = "bad"]}
Constants == {Infinity(0), Infinity(1), NaN, ONE, TWO, FOUR}

Makes == \/ Call1("make", Wholes, MakeOfInt)
         \/ Call1("read", Texts, MakeOfText)
         \/ Call1("double", Printed, MakeOfDouble)
         \/ Call1("assigndouble", Printed, AssignDouble)
         \/ Call1("assign", Numbers \cup Constants, Assign)

(* The power of a number of one digit, which 32 bits can hold. *)
CallIf1(guard(_), op, A, function(_, _)) ==
  Usable /\ guard(object.value) /\ \E a \in A : Use(op, <<a>>, function(object, a))
OneDigit(n) == n.coeff < 10

Calculates == \/ Call1("add", Numbers, AddAssign)
              \/ Call1("subtract", Numbers, SubtractAssign)
              \/ Call1("multiply", Numbers, MultiplyAssign)
              \/ Call1("divide", Numbers, DivideAssign)
              \/ Call0("increment", Increment)
              \/ Call0("decrement", Decrement)
              \/ Call0("plus", UnaryPlus)
              \/ Call0("minus", UnaryMinus)
              \/ Call1("avg", Numbers, avg)
              \/ CallIf1(OneDigit, "power", Wholes \cap 0..3, power)

Relates == \/ Call1("compare", Numbers, comparedTo)
            \/ Call1("distance", Numbers, distance)
            \/ Call2("equals", Numbers, Deltas, equalsDelta)
            \/ Call0("asks", asks)

Shown(x, places)         == Tells(x, toString(x.value, places))
ShownOrScaled(x, places) == Tells(x, toStringAllowScientific(x.value, places))
ShownPlain(x, text, places) == Tells(x, unpackScientificFormat(text, places))
Decomposed(x)            == Tells(x, toDecimalComponents(x.value))
Composed(x, i, e)        == Becomes(fromDecimalComponents(i, e))

Converts == \/ Call3("round", Places, RoundingModes, Increments, Rounds)
            \/ Call1("show", Places, Shown)
            \/ Call1("scientific", Places, ShownOrScaled)
            \/ Call2("unpack", Scientific, Places, ShownPlain)
            \/ Call0("int32", toInt32)
            \/ Call0("int64", toInt64)
            \/ Call0("decompose", Decomposed)
            \/ Call2("compose", Wholes, Wholes, Composed)

(* A text that overruns its buffer: what becomes of the program then is    *)
(* not known.  The other outcome, that nothing of importance was behind    *)
(* the buffer, is that of Converts.                                        *)
RunsOver(op, args) ==
  /\ calls' = MAX_USES
  /\ last' = [op |-> "overrun", args |-> <<op>> \o args, on |-> object, ok |-> FALSE, result |-> 0]
  /\ UNCHANGED <<set, m_value>>
CallOver1(op, A, overruns(_, _)) ==
  Usable /\ \E a \in A : overruns(object, a) /\ RunsOver(op, <<a>>)
Overrunning == \/ CallOver1("round", Increments, roundOverruns)
               \/ CallOver1("show", Places, toStringOverruns)
               \/ CallOver1("scientific", Places, toStringOverruns)
               \/ Usable /\ \E text \in Scientific, places \in Places :
                               Overruns(text, places) /\ RunsOver("unpack", <<text>>)

ObjectNext == Makes \/ Calculates \/ Relates \/ Converts \/ Overrunning

-----------------------------------------------------------------------------
Did(ops) == ~Direct /\ last.op \in ops
Value    == last.on.value
Same(a, b) == LET e == Least(a.exponent, b.exponent) IN ValueAt(a, e) = ValueAt(b, e)
First(n) == n.exponent + Digits(n.coeff) - 1   \* where its first digit is

(* The modes as the comments beside the enum have them, of a / b.          *)
Floor(a, b)   == a \div b
Ceil(a, b)    == -((-a) \div b)
HalfUp(a, b)  == Floor(2 * a + b, 2 * b)
HalfDown(a, b) == Ceil(2 * a - b, 2 * b)
SignumOfInt(a) == IF a < 0 THEN -1 ELSE 1
Meant(a, b, mode) ==
  LET m == Magnitude(a)
      s == SignumOfInt(a)
  IN CASE mode = "HALF_TO_POSITIVE_INFINITY" -> HalfUp(a, b)
       [] mode = "HALF_TO_NEGATIVE_INFINITY" -> HalfDown(a, b)
       [] mode = "TO_POSITIVE_INFINITY"      -> Ceil(a, b)
       [] mode = "TO_NEGATIVE_INFINITY"      -> Floor(a, b)
       [] mode = "AWAY_FROM_ZERO"            -> s * Ceil(m, b)
       [] mode = "TO_ZERO"                   -> s * Floor(m, b)
       [] mode = "HALF_AWAY_FROM_ZERO"       -> s * HalfUp(m, b)
       [] mode = "HALF_TO_ZERO"              -> s * HalfDown(m, b)
       [] mode = "HALF_TO_EVEN"              -> IF HalfUp(a, b) % 2 = 0 THEN HalfUp(a, b) ELSE HalfDown(a, b)

CutTo(n, places, mode) ==
  IF mode = "TO_ZERO" /\ First(n) < -places THEN Zero
  ELSE IF n.exponent >= -places THEN n
  ELSE LET c == Meant(ValueAt(n, n.exponent), 10^(-places - n.exponent), mode) IN
       Finite(IF c < 0 THEN 1 ELSE 0, Magnitude(c), -places)

(* round() rounds to decimals as the comments say, though decNumber rounds *)
(* to digits and the number goes through a text: to tenths, or of halves   *)
(* and quarters of one.  toString() cuts.  In three cases it is not so.    *)
(* A number written with a negative exponent is first cut after PLACES     *)
(* decimals, and left alone if nothing is left of it; one whose first      *)
(* digit is beyond the first lost place becomes 0, also away from zero;    *)
(* and a large one that does not fit the buffer is shown as NaN; one that  *)
(* fits but for the NUL behind it overruns it.  No other number does.      *)
OneOf(increment) == CASE increment = "TENTH" -> 1 [] increment = "HALF" -> 2 [] increment = "QUARTER" -> 4
TimesOf(n, increment) == Product(n, Finite(0, OneOf(increment), 0), Default(PRECISION)).n
InFull(n) == IF First(n) < -6 /\ n.exponent < 0 THEN CutTo(n, PLACES, "TO_ZERO") ELSE n
Expected(n, places, mode) ==
  IF IsZero(InFull(n)) THEN n
  ELSE IF First(n) < -places - 1 THEN Zero ELSE CutTo(InFull(n), places, mode)
Back(n, increment) ==
  IF IsZero(n) \/ increment = "TENTH" THEN n
  ELSE Quotient(n, Finite(0, OneOf(increment), 0), Default(PRECISION)).n
Seen(text) == Finite(text.sign, CoefficientOf(text.whole \o text.fraction), -Len(text.fraction))
TooLarge(n) == First(n) > 0 /\ n.exponent > 0 /\ First(n) + 3 > BUFFER_SIZE - n.sign
JustFits(n) == First(n) > 0 /\ n.exponent > 0 /\ First(n) + 3 = BUFFER_SIZE - n.sign

RoundsToPlaces ==
  /\ Did({"round"}) /\ ~Special(Value) /\ ~IsZero(Value) =>
       LET increment == last.args[3] IN
       \/ TooLarge(TimesOf(Value, increment))
       \/ Same(last.result, Back(Expected(TimesOf(Value, increment), last.args[1], last.args[2]), increment))
  /\ Did({"show"}) /\ ~Special(Value) /\ ~IsZero(Value) =>
       IF TooLarge(Value) THEN last.result.kind = "nan"
       ELSE /\ Len(last.result.whole) > 8 \/ Same(Seen(last.result),
                    IF First(Value) < -last.args[1] THEN Zero
                       ELSE CutTo(Value, last.args[1], "TO_ZERO"))
            /\ Len(last.result.fraction) <= Greatest(last.args[1], 1)
  /\ Did({"overrun"}) =>
       IF last.args[1] = "unpack"
       THEN LET t == last.args[2] IN JustFits([Seen(t) EXCEPT !.exponent = @ + t.exponent])
       ELSE JustFits(IF last.args[1] = "round" THEN TimesOf(Value, last.args[2]) ELSE Value)

(* The relations order numbers as their difference does once it has been   *)
(* rounded, and a difference within the threshold is none: equality is not *)
(* transitive.  Two equal infinities are equal, but leave an error behind. *)
Reachable(n) == n.exponent \in -5..5 /\ First(n) < 6  \* by 32 bits
Difference == Sum(Value, Flip(last.args[1]), Default(PRECISION)).n
ComparesWithin ==
  Did({"compare"}) /\ last.ok =>
    IF Special(Value) \/ Special(last.args[1])
    THEN last.result = CompareValues(Value, last.args[1])
    ELSE IF ~Reachable(Value) \/ ~Reachable(last.args[1]) THEN TRUE
    ELSE IF IsZero(Difference) \/ Signless(Difference, Least(Difference.exponent, -THRESHOLD))
              <= 10^(-THRESHOLD - Least(Difference.exponent, -THRESHOLD))
         THEN last.result = 0
         ELSE last.result = SignumOf(Difference)

(* toInt32() and toInt64() give the number without its fraction, and throw *)
(* exactly if their type has no such integer: -1.25 gives -1, though the   *)
(* comments speak of floor().  But toInt32() also throws for ever          *)
(* once any call, also a comparison, has left an error in the context.     *)
(* The components of a number give it back, as far as they hold its digits.*)
Huge == 10^8
Whole(n) == IF IsZero(n) \/ First(n) < 0 THEN 0
            ELSE IF n.exponent > 4 THEN Huge ELSE ValueAt(CutTo(n, 0, "TO_ZERO"), 0)
IntegersExact ==
  /\ Did({"int32"}) =>
       /\ last.ok <=> ~Special(Value) /\ ~Failed(last.on) /\ Whole(Value) \in (-INT32_MAX - 1)..INT32_MAX
       /\ last.ok => last.result = Whole(Value)
  /\ Did({"int64"}) =>
       /\ last.ok <=> ~Special(Value) /\ Whole(Value) \in (-INT64_MAX - 1)..INT64_MAX
       /\ last.ok => last.result = Whole(Value)
  /\ Did({"decompose"}) =>
       /\ last.result.ok <=> ~Special(Value)
       /\ last.result.ok =>
            Same(fromDecimalComponents(last.result.significand, last.result.exponent).value,
                 IF IsZero(Value) THEN Zero
                 ELSE RoundOnce(Exact(Value.sign, Value.coeff, 1, Value.exponent, Value.exponent),
                                Default(COMPONENT_DIGITS)).n)
=============================================================================
