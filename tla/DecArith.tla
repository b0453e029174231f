------------------------------- MODULE DecArith -------------------------------
(***************************************************************************)
(* src/code/decNumber.cpp: the operations two or more functions share,     *)
(* decAddOp, decMultiplyOp, decDivideOp, decQuantizeOp and decCompareOp.   *)
(* Each takes the status so far and returns the work record DecNumber has. *)
(* What depends on the length of a unit (DECDPUN digits) is modelled: the  *)
(* fast path of the addition and where a division stops.                   *)
(***************************************************************************)
EXTENDS DecNumber

DECDPUN == 3
Units(c) == (Digits(c) + DECDPUN - 1) \div DECDPUN
Lsu(c)   == c % 10^DECDPUN
Msu(c)   == c \div 10^(DECDPUN * (Units(c) - 1))

Magnitude(i) == IF i < 0 THEN -i ELSE i
Flip(n)      == [n EXCEPT !.sign = 1 - @]
Abs(n)       == [n EXCEPT !.sign = 0]
AnyNaN(lhs, rhs) == IsNaN(lhs) \/ IsNaN(rhs)
IsInf(n)     == n.kind = "inf"
Lower(a, b)  == IF a < b THEN a ELSE b

(* A result yet to be fitted, and one that is as it stands. *)
Result(n, status) == [n |-> n, residue |-> 0, status |-> status]
Fitted(n, status, set) == Finalize(CopyFit(n, status, set), set)

-----------------------------------------------------------------------------
(* decAddOp; rhs comes with its sign flipped if it is to be subtracted.    *)
AddInfinite(lhs, rhs, status) ==
  IF IsInf(lhs) /\ IsInf(rhs) /\ lhs.sign # rhs.sign
  THEN Result(Zero, status \cup {"Invalid_operation"})
  ELSE Result(Infinity(IF IsInf(lhs) THEN lhs.sign ELSE rhs.sign), status)

(* A zero only asks for its exponent, as far as the precision allows. *)
PadTowards(w, exponent, set) ==
  LET wanted == w.n.exponent - exponent
      room == set.digits - Digits(w.n.coeff)
  IN IF wanted <= 0 THEN w
     ELSE IF wanted <= room THEN [w EXCEPT !.n = ShiftToMost(@, wanted)]
     ELSE Raise([w EXCEPT !.n = ShiftToMost(@, room)], {"Rounded"})

ZeroSign(set) == IF set.round = "FLOOR" THEN 1 ELSE 0

AddZeros(lhs, rhs, set, status) ==
  Finalize(Result(Finite(IF lhs.sign = rhs.sign THEN rhs.sign ELSE ZeroSign(set), 0,
                         Lower(lhs.exponent, rhs.exponent)), status), set)

AddToZero(zero, n, set, status) ==
  Finalize(PadTowards(CopyFit(n, status, set), zero.exponent, set), set)

(* One unit holds the rhs, and no digit is gained or borrowed. *)
AddFast(lhs, rhs, set) ==
  /\ lhs.exponent = rhs.exponent
  /\ Units(rhs.coeff) = 1
  /\ rhs.exponent \in set.emin..(set.emax - set.digits + 1)
  /\ Digits(rhs.coeff) <= set.digits /\ Digits(lhs.coeff) <= set.digits
  /\ IF lhs.sign = rhs.sign
     THEN Lsu(lhs.coeff) + rhs.coeff < 10^Lower(Digits(lhs.coeff), DECDPUN)
     ELSE Lsu(lhs.coeff) > rhs.coeff

Signed(n, sign) == IF n.sign = sign THEN n.coeff ELSE -n.coeff

(* The low one is below the digits that count: it is but a residue. *)
AddFar(low, high, set, status) ==
  LET w == SetCoeff([n |-> high, residue |-> IF low.sign = high.sign THEN 1 ELSE -1,
                     status |-> status], set.digits)
      shift == set.digits - Digits(high.coeff)
  IN Finalize(IF shift > 0 THEN [w EXCEPT !.n = ShiftToMost(@, shift)] ELSE w, set)

AddNear(low, high, set, status) ==
  LET total == low.coeff + Signed(high, low.sign) * 10^(high.exponent - low.exponent)
      sum == Finite(IF total < 0 THEN 1 - low.sign ELSE low.sign, Magnitude(total), low.exponent)
      w == Fitted(sum, status, set)
  IN IF IsZero(w.n) /\ low.sign # high.sign /\ "Inexact" \notin w.status
     THEN [w EXCEPT !.n.sign = ZeroSign(set)] ELSE w

AddFinite(lhs, rhs, set, status) ==
  LET low  == IF lhs.exponent <= rhs.exponent THEN lhs ELSE rhs
      high == IF lhs.exponent <= rhs.exponent THEN rhs ELSE lhs
      top  == Digits(high.coeff) + high.exponent - low.exponent
  IN IF AddFast(lhs, rhs, set)
     THEN Result([lhs EXCEPT !.coeff = @ + Signed(rhs, lhs.sign)], status)
     ELSE IF top > Digits(low.coeff) + set.digits + 1
          THEN AddFar(low, high, set, status)
          ELSE AddNear(low, high, set, status)

AddOp(lhs, rhs, negate, set, status) ==
  LET r == IF negate THEN Flip(rhs) ELSE rhs IN
  IF AnyNaN(lhs, rhs) THEN NaNs(lhs, rhs, status, set)
  ELSE IF IsInf(lhs) \/ IsInf(rhs) THEN AddInfinite(lhs, r, status)
  ELSE IF IsZero(lhs) /\ IsZero(rhs) THEN AddZeros(lhs, r, set, status)
  ELSE IF IsZero(lhs) THEN AddToZero(lhs, r, set, status)
  ELSE IF IsZero(rhs) THEN AddToZero(rhs, lhs, set, status)
  ELSE AddFinite(lhs, r, set, status)

-----------------------------------------------------------------------------
(* decMultiplyOp.  The exponents are bounded here: their sum does not wrap *)
(* around 31 bits, which the code turns into an underflow.                 *)
MultiplyOp(lhs, rhs, set, status) ==
  LET sign == IF lhs.sign = rhs.sign THEN 0 ELSE 1 IN
  IF AnyNaN(lhs, rhs) THEN NaNs(lhs, rhs, status, set)
  ELSE IF IsInf(lhs) \/ IsInf(rhs)
       THEN IF IsZero(lhs) \/ IsZero(rhs) THEN Result(Zero, status \cup {"Invalid_operation"})
            ELSE Result(Infinity(sign), status)
  ELSE Fitted(Finite(sign, lhs.coeff * rhs.coeff, lhs.exponent + rhs.exponent), status, set)

-----------------------------------------------------------------------------
(* decDivideOp: DIVIDE, DIVIDEINT, REMAINDER and REMNEAR. *)
Remaindering(op) == op \in {"REMAINDER", "REMNEAR"}

DivideInfinite(lhs, rhs, set, op, status) ==
  LET sign == IF lhs.sign = rhs.sign THEN 0 ELSE 1
      least == Finite(sign, 0, set.emin - set.digits + 1)
  IN IF IsInf(lhs)
     THEN IF IsInf(rhs) \/ Remaindering(op) THEN Result(Zero, status \cup {"Invalid_operation"})
          ELSE Result(Infinity(sign), status)
     ELSE IF Remaindering(op) THEN Fitted(lhs, status, set)
     ELSE IF op = "DIVIDE" THEN Finalize(Result(least, status \cup {"Clamped"}), set)
     ELSE Finalize(Result(Finite(sign, 0, 0), status), set)

DivideByZero(lhs, sign, op, status) ==
  IF IsZero(lhs) THEN Result(Zero, status \cup {"Division_undefined"})
  ELSE IF Remaindering(op) THEN Result(Zero, status \cup {"Invalid_operation"})
  ELSE Result(Infinity(sign), status \cup {"Division_by_zero"})

DivideZero(lhs, rhs, sign, set, op, status) ==
  IF op = "DIVIDE"
  THEN Finalize(Result(Finite(sign, 0, lhs.exponent - rhs.exponent), status), set)
  ELSE IF op = "DIVIDEINT" THEN Result(Finite(sign, 0, 0), status)
  ELSE Result(Finite(lhs.sign, 0, Lower(lhs.exponent, rhs.exponent)), status)

(* The quotient by an exponent: so many units of it, and is there a rest? *)
Scaled(a, b, power) ==
  IF power >= 0 THEN [quotient |-> (a * 10^power) \div b, exact |-> (a * 10^power) % b = 0]
  ELSE [quotient |-> a \div (b * 10^(-power)), exact |-> a % (b * 10^(-power)) = 0]

(* Defect: the division stops when it has the digits, with none to spare.  *)
EnoughAtPrecision(digits, set) == digits >= set.digits

Enough(digits, set) == digits > set.digits

(* The long division appends a unit a round until it has a digit more than *)
(* it needs, or nothing is left and the exponent is not above the ideal.   *)
DivideLong(lhs, rhs, sign, set, status) ==
  LET ideal == lhs.exponent - rhs.exponent
      skip  == IF Msu(lhs.coeff) < Msu(rhs.coeff) THEN 1 ELSE 0
      first == ideal + DECDPUN * (Units(lhs.coeff) - Units(rhs.coeff) - skip)
      at(round)   == Scaled(lhs.coeff, rhs.coeff, ideal - first + DECDPUN * round)
      ends(round) == \/ at(round).quotient # 0 /\ Enough(Digits(at(round).quotient), set)
                     \/ at(round).exact /\ first - DECDPUN * round <= ideal
      last == CHOOSE r \in 0..LONGEST : ends(r) /\ \A q \in 0..(r - 1) : ~ends(q)
      acc  == at(last).quotient
      exponent == first - DECDPUN * last
      zeros(d) == Lsu(acc) # 0 /\ Lsu(acc) % 10^d = 0 /\ exponent + d <= ideal
      drop == CHOOSE d \in 0..DECDPUN : zeros(d) /\ ~zeros(d + 1)
      exact == Finite(sign, acc \div 10^drop, exponent + drop)
  IN Finalize(SetCoeff(IF at(last).exact
                       THEN Result(IF Lsu(acc) = 0 THEN Finite(sign, acc, exponent) ELSE exact, status)
                       ELSE [n |-> Finite(sign, acc, exponent), residue |-> 1, status |-> status],
                       set.digits), set)

(* The integer quotient may have the digits of the precision and no more;  *)
(* the remainder nearest to zero is that of the even quotient at a tie.    *)
DivideImpossible(status) == Result(Zero, status \cup {"Division_impossible"})

DivideWhole(lhs, rhs, sign, set, op, status) ==
  LET exponent == Lower(lhs.exponent, rhs.exponent)
      a == lhs.coeff * 10^(lhs.exponent - exponent)
      b == rhs.coeff * 10^(rhs.exponent - exponent)
      quotient == a \div b
      rest == a % b
      near == op = "REMNEAR" /\ (2 * rest > b \/ (2 * rest = b /\ quotient % 2 = 1))
      full == Digits(quotient) = set.digits /\ AllNines(quotient)
      impossible == DivideImpossible(status)
  IN IF Digits(quotient) > set.digits THEN impossible
     ELSE IF op = "DIVIDEINT" THEN Fitted(Finite(sign, quotient, 0), status, set)
     ELSE IF rest = 0 THEN Finalize(Result(Finite(lhs.sign, 0, exponent), status), set)
     ELSE IF near /\ full THEN impossible
     ELSE IF near THEN Fitted(Finite(1 - lhs.sign, b - rest, exponent), status, set)
     ELSE Fitted(Finite(lhs.sign, rest, exponent), status, set)

DivideOp(lhs, rhs, set, op, status) ==
  LET sign == IF lhs.sign = rhs.sign THEN 0 ELSE 1
      tops == lhs.exponent + Digits(lhs.coeff) - (rhs.exponent + Digits(rhs.coeff))
  IN IF AnyNaN(lhs, rhs) THEN NaNs(lhs, rhs, status, set)
     ELSE IF IsInf(lhs) \/ IsInf(rhs) THEN DivideInfinite(lhs, rhs, set, op, status)
     ELSE IF IsZero(rhs) THEN DivideByZero(lhs, sign, op, status)
     ELSE IF IsZero(lhs) THEN DivideZero(lhs, rhs, sign, set, op, status)
     ELSE IF op = "DIVIDE" THEN DivideLong(lhs, rhs, sign, set, status)
     ELSE IF tops < 0 /\ op = "DIVIDEINT" THEN Result(Finite(sign, 0, 0), status)
     ELSE IF tops < 0 /\ lhs.exponent <= rhs.exponent /\ (op = "REMAINDER" \/ tops < -1)
          THEN Fitted(lhs, status, set)
     ELSE IF tops > set.digits THEN DivideImpossible(status)
     ELSE DivideWhole(lhs, rhs, sign, set, op, status)

-----------------------------------------------------------------------------
(* decGetInt: the value of a number without a fraction. *)
IsInteger(n) == \/ n.coeff = 0 \/ n.exponent >= 0
                \/ -n.exponent < LONGEST /\ n.coeff % 10^(-n.exponent) = 0
GetInt(n) ==
  LET value == IF n.coeff = 0 THEN 0
               ELSE IF n.exponent >= 0 THEN n.coeff * 10^n.exponent ELSE n.coeff \div 10^(-n.exponent)
  IN IF Negative(n) THEN -value ELSE value

(* decQuantizeOp.  A coefficient of nines that rounds up one digit further *)
(* is shifted back if there is room.                                       *)
(* Defect: it is not shifted back. *)
QuantizeUpUnshifted(lhs, reqexp, set, status) ==
  LET workset == [set EXCEPT !.digits = Digits(lhs.coeff) - (reqexp - lhs.exponent)]
  IN [ApplyRound(CopyFit(lhs, status, workset), workset) EXCEPT !.residue = 0]

QuantizeUp(lhs, reqexp, set, status) ==
  LET workset == [set EXCEPT !.digits = Digits(lhs.coeff) - (reqexp - lhs.exponent)]
      w == ApplyRound(CopyFit(lhs, status, workset), workset)
  IN IF w.n.exponent <= reqexp THEN [w EXCEPT !.residue = 0]
     ELSE IF Digits(w.n.coeff) = set.digits
     THEN [n |-> Zero, residue |-> 0,
           status |-> (w.status \ {"Inexact", "Rounded"}) \cup {"Invalid_operation"}]
     ELSE [w EXCEPT !.n = ShiftToMost(@, 1), !.residue = 0]

QuantizeFinite(lhs, reqexp, set, status) ==
  LET adjust == reqexp - lhs.exponent
      w == IF IsZero(lhs) THEN Result([lhs EXCEPT !.exponent = reqexp], status)
           ELSE IF adjust > 0 THEN QuantizeUp(lhs, reqexp, set, status)
           ELSE Result(ShiftToMost(lhs, -adjust), status)
      fits == w.n.exponent <= set.emax - Digits(w.n.coeff) + 1
      r == Finalize(w, set)
  IN IF reqexp < Etiny(set) \/ reqexp > set.emax
        \/ (~IsZero(lhs) /\ Digits(lhs.coeff) - adjust > set.digits)
     THEN Result(Zero, status \cup {"Invalid_operation"})
     ELSE IF "Invalid_operation" \in w.status THEN w
     ELSE IF ~fits THEN Raise(w, {"Invalid_operation"})
     ELSE [r EXCEPT !.status = @ \ {"Underflow"}]

QuantizeOp(lhs, rhs, set, quant, status) ==
  IF AnyNaN(lhs, rhs) THEN NaNs(lhs, rhs, status, set)
  ELSE IF IsInf(lhs) # IsInf(rhs) THEN Result(Zero, status \cup {"Invalid_operation"})
  ELSE IF IsInf(lhs) THEN Result(lhs, status)
  ELSE IF quant THEN QuantizeFinite(lhs, rhs.exponent, set, status)
  ELSE IF ~IsInteger(rhs) THEN Result(Zero, status \cup {"Invalid_operation"})
  ELSE QuantizeFinite(lhs, GetInt(rhs), set, status)

-----------------------------------------------------------------------------
(* decCompare: the signs first, then infinities, then the coefficients,    *)
(* the one of the larger exponent padded.                                  *)
Signum(i) == IF i < 0 THEN -1 ELSE IF i > 0 THEN 1 ELSE 0
SignumOf(n) == IF IsZero(n) THEN 0 ELSE IF Negative(n) THEN -1 ELSE 1

CompareCoefficients(lhs, rhs) ==
  LET exponent == Lower(lhs.exponent, rhs.exponent)
      top(n) == n.exponent + Digits(n.coeff)
  IN IF top(lhs) # top(rhs) THEN Signum(top(lhs) - top(rhs))
     ELSE Signum(lhs.coeff * 10^(lhs.exponent - exponent) - rhs.coeff * 10^(rhs.exponent - exponent))

CompareValues(l, r) ==
  IF SignumOf(l) # SignumOf(r) THEN Signum(SignumOf(l) - SignumOf(r))
  ELSE IF IsZero(l) THEN 0
  ELSE IF IsInf(l) \/ IsInf(r)
       THEN SignumOf(l) * ((IF IsInf(l) THEN 1 ELSE 0) - (IF IsInf(r) THEN 1 ELSE 0))
  ELSE SignumOf(l) * CompareCoefficients(l, r)

Compare(lhs, rhs, abs) == IF abs THEN CompareValues(Abs(lhs), Abs(rhs)) ELSE CompareValues(lhs, rhs)

(* decCompareOp with COMPTOTAL: the sign, then numbers below sNaN below    *)
(* NaN, NaNs by payload, numbers of one value by exponent.                 *)
NaNRank(n) == CASE n.kind = "snan" -> 1 [] n.kind = "nan" -> 2 [] OTHER -> 0

CompareTotal(lhs, rhs) ==
  LET turn == IF Negative(lhs) THEN -1 ELSE 1
      value == Compare(lhs, rhs, FALSE)
  IN IF lhs.sign # rhs.sign THEN Signum(rhs.sign - lhs.sign)
     ELSE IF NaNRank(lhs) # NaNRank(rhs) THEN turn * Signum(NaNRank(lhs) - NaNRank(rhs))
     ELSE IF IsNaN(lhs) THEN turn * Signum(lhs.coeff - rhs.coeff)
     ELSE IF value # 0 THEN value ELSE turn * Signum(lhs.exponent - rhs.exponent)

SignumNumber(i) == Finite(IF i < 0 THEN 1 ELSE 0, Magnitude(i), 0)

(* MAX and MIN: equal values go by sign, then by exponent. *)
Choose(lhs, rhs, op) ==
  LET value == Compare(lhs, rhs, op \in {"COMPMAXMAG", "COMPMINMAG"})
      tie == IF lhs.sign # rhs.sign THEN IF Negative(lhs) THEN -1 ELSE 1
             ELSE IF Negative(lhs) THEN IF lhs.exponent < rhs.exponent THEN 1 ELSE -1
             ELSE IF lhs.exponent > rhs.exponent THEN 1 ELSE -1
      order == IF value = 0 THEN tie ELSE value
      max == op \in {"COMPMAX", "COMPMAXMAG"}
  IN IF (order > 0) = max THEN lhs ELSE rhs

CompareOp(lhs, rhs, set, op, status) ==
  LET quietOne == ~(IsNaN(lhs) /\ IsNaN(rhs)) /\ lhs.kind # "snan" /\ rhs.kind # "snan"
  IN IF op = "COMPTOTAL" THEN Result(SignumNumber(CompareTotal(lhs, rhs)), status)
     ELSE IF AnyNaN(lhs, rhs) /\ op = "COMPSIG"
     THEN NaNs(lhs, rhs, status \cup {"Invalid_operation", "sNaN"}, set)
     ELSE IF AnyNaN(lhs, rhs) /\ (op = "COMPARE" \/ ~quietOne) THEN NaNs(lhs, rhs, status, set)
     ELSE IF AnyNaN(lhs, rhs) THEN Fitted(IF IsNaN(lhs) THEN rhs ELSE lhs, status, set)
     ELSE IF op \in {"COMPARE", "COMPSIG"}
     THEN Result(SignumNumber(Compare(lhs, rhs, FALSE)), status)
     ELSE Fitted(Choose(lhs, rhs, op), status, set)
=============================================================================
