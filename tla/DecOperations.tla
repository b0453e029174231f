----------------------------- MODULE DecOperations -----------------------------
(***************************************************************************)
(* src/code/decNumber.cpp: the functions a program calls.  Each gives the  *)
(* number it returns and the flags it adds to the status of the context.   *)
(* exp, ln, log10, the square root and a power that is not an integer work *)
(* with more digits than are modelled and are left out.                    *)
(***************************************************************************)
EXTENDS DecArith

CONSTANTS INT32_MAX,    \* the greatest int32
          INT32_DIGITS  \* the digits of the 32 bit integers, 10 in the code

MINEMIN == -999999999   \* DEC_MIN_EMIN

Plain(n) == [n |-> n, status |-> {}]
InvalidOperation == [n |-> NaN, status |-> {"Invalid_operation"}]
One == Finite(0, 1, 0)

decNumberAdd(lhs, rhs, set)      == Status(AddOp(lhs, rhs, FALSE, set, {}))
decNumberSubtract(lhs, rhs, set) == Status(AddOp(lhs, rhs, TRUE, set, {}))
decNumberMultiply(lhs, rhs, set) == Status(MultiplyOp(lhs, rhs, set, {}))
decNumberDivide(lhs, rhs, set)        == Status(DivideOp(lhs, rhs, set, "DIVIDE", {}))
decNumberDivideInteger(lhs, rhs, set) == Status(DivideOp(lhs, rhs, set, "DIVIDEINT", {}))
decNumberRemainder(lhs, rhs, set)     == Status(DivideOp(lhs, rhs, set, "REMAINDER", {}))
decNumberRemainderNear(lhs, rhs, set) == Status(DivideOp(lhs, rhs, set, "REMNEAR", {}))
decNumberQuantize(lhs, rhs, set) == Status(QuantizeOp(lhs, rhs, set, TRUE, {}))
decNumberRescale(lhs, rhs, set)  == Status(QuantizeOp(lhs, rhs, set, FALSE, {}))

decNumberCompare(lhs, rhs, set)       == Status(CompareOp(lhs, rhs, set, "COMPARE", {}))
decNumberCompareSignal(lhs, rhs, set) == Status(CompareOp(lhs, rhs, set, "COMPSIG", {}))
decNumberCompareTotal(lhs, rhs, set)  == Status(CompareOp(lhs, rhs, set, "COMPTOTAL", {}))
decNumberCompareTotalMag(lhs, rhs, set) ==
  Status(CompareOp(Abs(lhs), Abs(rhs), set, "COMPTOTAL", {}))
decNumberMax(lhs, rhs, set)    == Status(CompareOp(lhs, rhs, set, "COMPMAX", {}))
decNumberMaxMag(lhs, rhs, set) == Status(CompareOp(lhs, rhs, set, "COMPMAXMAG", {}))
decNumberMin(lhs, rhs, set)    == Status(CompareOp(lhs, rhs, set, "COMPMIN", {}))
decNumberMinMag(lhs, rhs, set) == Status(CompareOp(lhs, rhs, set, "COMPMINMAG", {}))

(* A unary operation adds to a zero, whose exponent keeps the coefficient  *)
(* as long as it is.                                                       *)
ZeroLike(rhs) == Finite(0, 0, rhs.exponent)
decNumberAbs(rhs, set)   == Status(AddOp(ZeroLike(rhs), rhs, Negative(rhs), set, {}))
decNumberPlus(rhs, set)  == Status(AddOp(ZeroLike(rhs), rhs, FALSE, set, {}))
decNumberMinus(rhs, set) == Status(AddOp(ZeroLike(rhs), rhs, TRUE, set, {}))

-----------------------------------------------------------------------------
(* The product is exact, so that there is but one rounding.  An infinity   *)
(* times a zero is invalid whatever is added; a signalling NaN has its     *)
(* payload fitted by the addition of a zero.                               *)
decNumberFMA(lhs, rhs, fhs, set) ==
  LET dcmul == [set EXCEPT !.digits = Digits(lhs.coeff) + Digits(rhs.coeff),
                           !.emax = -MINEMIN, !.emin = MINEMIN]
      acc == MultiplyOp(lhs, rhs, dcmul, {})
  IN IF "Invalid_operation" \in acc.status /\ "sNaN" \notin acc.status THEN InvalidOperation
     ELSE Status(AddOp(acc.n, IF "sNaN" \in acc.status THEN Zero ELSE fhs, FALSE, set, acc.status))

(* The neighbours of a number: add next to nothing and round towards it. *)
Tiny == Finite(0, 1, MINEMIN - 1)

(* Defect: rounded as the context says. *)
StepAsSet(n, up, set) == AddOp(n, Tiny, ~up, set, {})

Step(n, up, set) ==
  AddOp(n, Tiny, ~up, [set EXCEPT !.round = IF up THEN "CEILING" ELSE "FLOOR"], {})

OnlyInvalid(w) == [w EXCEPT !.status = @ \cap {"Invalid_operation", "sNaN"}]

decNumberNextPlus(rhs, set) ==
  IF IsInf(rhs) /\ Negative(rhs) THEN Plain(MaxValue(1, set))
  ELSE Status(OnlyInvalid(Step(rhs, TRUE, set)))

decNumberNextMinus(rhs, set) ==
  IF IsInf(rhs) /\ ~Negative(rhs) THEN Plain(MaxValue(0, set))
  ELSE Status(OnlyInvalid(Step(rhs, FALSE, set)))

decNumberIsNormal(n, set) ==
  ~Special(n) /\ ~IsZero(n) /\ n.exponent + Digits(n.coeff) - 1 >= set.emin
decNumberIsSubnormal(n, set) ==
  ~Special(n) /\ ~IsZero(n) /\ n.exponent + Digits(n.coeff) - 1 < set.emin

decNumberNextToward(lhs, rhs, set) ==
  LET order == Compare(lhs, rhs, FALSE)
      w == Step(lhs, order < 0, set)
  IN IF AnyNaN(lhs, rhs) THEN Status(NaNs(lhs, rhs, {}, set))
     ELSE IF order = 0 THEN Plain([lhs EXCEPT !.sign = rhs.sign])
     ELSE IF IsInf(lhs) THEN Plain(MaxValue(lhs.sign, set))
     ELSE IF decNumberIsNormal(w.n, set) THEN Plain(w.n) ELSE Status(w)

-----------------------------------------------------------------------------
(* The logical operations, on coefficients of zeros and ones.  Only as     *)
(* many digits as the precision has are looked at.                         *)
Digit(n, i) == (n.coeff \div 10^i) % 10
LogicalOperand(n, set) ==
  /\ n.exponent = 0 /\ ~Special(n) /\ ~Negative(n)
  /\ \A i \in 0..(set.digits - 1) : Digit(n, i) \in {0, 1}

RECURSIVE FromDigits(_, _)
FromDigits(digit, len) == IF len = 0 THEN 0 ELSE digit[len - 1] * 10^(len - 1) + FromDigits(digit, len - 1)

Logical(lhs, rhs, set, effect(_, _)) ==
  IF ~LogicalOperand(lhs, set) \/ ~LogicalOperand(rhs, set) THEN InvalidOperation
  ELSE Plain(Finite(0, FromDigits([i \in 0..(set.digits - 1) |->
                                    IF effect(Digit(lhs, i) = 1, Digit(rhs, i) = 1) THEN 1 ELSE 0],
                                  set.digits), 0))

decNumberAnd(lhs, rhs, set) == LET and(a, b) == a /\ b IN Logical(lhs, rhs, set, and)
decNumberOr(lhs, rhs, set)  == LET or(a, b) == a \/ b IN Logical(lhs, rhs, set, or)
decNumberXor(lhs, rhs, set) == LET xor(a, b) == a # b IN Logical(lhs, rhs, set, xor)
decNumberInvert(rhs, set)   == LET invert(a, b) == ~a IN Logical(rhs, rhs, set, invert)

-----------------------------------------------------------------------------
(* An operand that counts digits: an integer of exponent 0 in range. *)
CountOf(rhs, set) == IsInteger(rhs) /\ Magnitude(GetInt(rhs)) <= set.digits

DigitWise(lhs, rhs, set, valid, result) ==
  IF AnyNaN(lhs, rhs) THEN Status(NaNs(lhs, rhs, {}, set))
  ELSE IF IsInf(rhs) \/ rhs.exponent # 0 \/ ~valid THEN InvalidOperation
  ELSE result

(* decNumberRotate: the coefficient as a ring of set.digits digits; an     *)
(* operand is no longer than that.                                         *)
decNumberRotate(lhs, rhs, set) ==
  LET asked == GetInt(rhs)
      rotate == IF asked < 0 THEN set.digits + asked ELSE asked
      split == 10^(set.digits - rotate)
      turned == [lhs EXCEPT !.coeff = (@ % split) * 10^rotate + @ \div split]
  IN DigitWise(lhs, rhs, set, CountOf(rhs, set),
               Plain(IF rotate \in {0, set.digits} \/ IsInf(lhs) THEN lhs ELSE turned))

decNumberShift(lhs, rhs, set) ==
  LET shift == GetInt(rhs)
      left == [lhs EXCEPT !.coeff = (@ % 10^(set.digits - shift)) * 10^shift]
      right == [lhs EXCEPT !.coeff = IF -shift >= Digits(@) THEN 0 ELSE @ \div 10^(-shift)]
  IN DigitWise(lhs, rhs, set, CountOf(rhs, set),
               Plain(IF shift = 0 \/ IsInf(lhs) THEN lhs ELSE IF shift > 0 THEN left ELSE right))

decNumberScaleB(lhs, rhs, set) ==
  LET reqexp == GetInt(rhs) IN
  DigitWise(lhs, rhs, set, IsInteger(rhs) /\ (Magnitude(reqexp) + 1) \div 2 <= set.digits + set.emax,
            IF IsInf(lhs) THEN Plain(lhs)
            ELSE Status(Finalize(Work([lhs EXCEPT !.exponent = @ + reqexp]), set)))

decNumberLogB(rhs, set) ==
  LET ae == rhs.exponent + Digits(rhs.coeff) - 1
      t == Finite(IF ae < 0 THEN 1 ELSE 0, Magnitude(ae), 0)
  IN IF IsNaN(rhs) THEN Status(NaNs(rhs, rhs, {}, set))
     ELSE IF IsInf(rhs) THEN Plain(Abs(rhs))
     ELSE IF IsZero(rhs) THEN [n |-> Infinity(1), status |-> {"Division_by_zero"}]
     ELSE decNumberPlus(t, set)

decNumberReduce(rhs, set) ==
  LET w == Fitted(rhs, {}, set) IN
  IF IsNaN(rhs) THEN Status(NaNs(rhs, rhs, {}, set))
  ELSE Status([w EXCEPT !.n = Trim(@, set, TRUE, FALSE)])

decNumberTrim(n) == Trim(n, [digits |-> 9, emax |-> -MINEMIN, clamp |-> FALSE], FALSE, TRUE)

-----------------------------------------------------------------------------
(* decNumberToIntegralExact: the quantize works on a copy of the context,  *)
(* with the flags earlier operations have left in it; they come back with  *)
(* its own, and decStatus looks at all of them.                            *)
decNumberToIntegralExact(rhs, set) ==
  LET workset == [set EXCEPT !.digits = Digits(rhs.coeff)]
      q == decNumberQuantize(rhs, Zero, workset)
  IN IF IsInf(rhs) THEN Plain(rhs)
     ELSE IF IsNaN(rhs) THEN Status(NaNs(rhs, rhs, {}, set))
     ELSE IF rhs.exponent >= 0 THEN Plain(rhs)
     ELSE Status(Result(q.n, q.status \cup set.status))

decNumberToIntegralValue(rhs, set) ==
  LET r == decNumberToIntegralExact(rhs, set) IN
  [r EXCEPT !.status = (@ \cup set.status) \cap {"Invalid_operation"}]

(* The integers a program gets: those of 32 bits, else 0. *)
ToInt(inRange, n) ==
  IF ~Special(n) /\ n.exponent = 0 /\ Digits(n.coeff) <= INT32_DIGITS /\ inRange
  THEN [value |-> IF Negative(n) THEN -n.coeff ELSE n.coeff, status |-> {}]
  ELSE [value |-> 0, status |-> {"Invalid_operation"}]
decNumberToInt32(n)  == ToInt(n.coeff <= INT32_MAX + n.sign, n)
decNumberToUInt32(n) == ToInt(n.coeff <= IF Negative(n) THEN 0 ELSE 2 * INT32_MAX + 1, n)
decNumberFromInt32(i)  == Finite(IF i < 0 THEN 1 ELSE 0, Magnitude(i), 0)
decNumberFromUInt32(i) == Finite(0, i, 0)

decNumberCopyAbs(rhs)       == Abs(rhs)
decNumberCopyNegate(rhs)    == Flip(rhs)
decNumberCopySign(lhs, rhs) == [lhs EXCEPT !.sign = rhs.sign]

decNumberSameQuantum(lhs, rhs) ==
  Finite(0, IF \/ IsNaN(lhs) /\ IsNaN(rhs)
               \/ IsInf(lhs) /\ IsInf(rhs)
               \/ ~Special(lhs) /\ ~Special(rhs) /\ lhs.exponent = rhs.exponent
            THEN 1 ELSE 0, 0)

decNumberClass(n, set) ==
  IF IsNaN(n) THEN <<n.kind, 0>>
  ELSE <<IF IsInf(n) THEN "infinity" ELSE IF decNumberIsNormal(n, set) THEN "normal"
         ELSE IF IsZero(n) THEN "zero" ELSE "subnormal", n.sign>>

-----------------------------------------------------------------------------
(* decNumberPower for an exponent that is an integer: square and multiply  *)
(* in a precision with a few digits more.                                  *)
RECURSIVE PowerLoop(_, _, _, _)
PowerLoop(dac, lhs, bits, aset) ==
  LET stop == \/ "Overflow" \in dac.status
              \/ "Underflow" \in dac.status /\ IsZero(dac.n)
      times(w, by) == MultiplyOp(w.n, by, aset, w.status)
      bit == Head(bits)
      with == IF bit = 1 THEN times(dac, lhs) ELSE dac
  IN IF bits = <<>> \/ stop THEN dac
     ELSE IF Len(bits) = 1 THEN with
     ELSE PowerLoop(times(with, with.n), lhs, Tail(bits), aset)

RECURSIVE Bits(_)
Bits(n) == IF n = 0 THEN <<>> ELSE Append(Bits(n \div 2), n % 2)

(* Defect: no digit to spare. *)
PowerDigitsExact(rhs, set) == set.digits
PowerDigits(rhs, set) == set.digits + Digits(rhs.coeff) + rhs.exponent + 2

PowerInteger(lhs, rhs, set) ==
  LET n == GetInt(rhs)
      sign == IF Negative(lhs) /\ n % 2 = 1 THEN 1 ELSE 0
      aset == [set EXCEPT !.round = "HALF_EVEN",
                          !.digits = PowerDigits(rhs, set)]
      inverse == DivideOp(One, lhs, aset, "DIVIDE", {})
      dac == IF n < 0 THEN PowerLoop(Result(One, inverse.status), inverse.n, Bits(-n), aset)
             ELSE PowerLoop(Result(One, {}), lhs, Bits(n), aset)
  IN IF n = 0 THEN Plain(One)
     ELSE IF dac.status \cap {"Overflow", "Underflow"} # {}
     THEN Status(Finalize(Result([dac.n EXCEPT !.sign = sign], dac.status), set))
     ELSE Status(Fitted(dac.n, dac.status, set))

PowerInfinity(lhs, rhs, set) ==
  LET order == Compare(lhs, One, FALSE) IN
  IF Negative(lhs) /\ ~IsZero(lhs) THEN InvalidOperation
  ELSE IF order = 0
  THEN [n |-> ShiftToMost(One, set.digits - 1), status |-> {"Inexact", "Rounded"}]
  ELSE Plain(IF (order < 0) = Negative(rhs) THEN Infinity(0) ELSE Zero)

decNumberPower(lhs, rhs, set) ==
  LET n == GetInt(rhs)
      sign == IF Negative(lhs) /\ IsInteger(rhs) /\ n % 2 = 1 THEN 1 ELSE 0
      big == (IsInf(lhs)) = ~Negative(rhs)
  IN IF AnyNaN(lhs, rhs) THEN Status(NaNs(lhs, rhs, {}, set))
     ELSE IF IsInf(rhs) THEN PowerInfinity(lhs, rhs, set)
     ELSE IF IsInf(lhs) /\ IsZero(rhs) THEN Plain(One)
     ELSE IF IsInf(lhs) /\ Negative(lhs) /\ ~IsInteger(rhs) THEN InvalidOperation
     ELSE IF IsZero(lhs) /\ IsZero(rhs) THEN InvalidOperation
     ELSE IF IsInf(lhs) \/ IsZero(lhs) THEN Plain(IF big THEN Infinity(sign) ELSE Finite(sign, 0, 0))
     ELSE PowerInteger(lhs, rhs, set)
=============================================================================
