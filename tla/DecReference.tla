----------------------------- MODULE DecReference -----------------------------
(***************************************************************************)
(* What the General Decimal Arithmetic that decNumber implements asks of   *)
(* an operation: the exact value, and that value rounded once to what the  *)
(* context can hold.  It knows nothing of residues, units or subnormal     *)
(* detours.  An exact value is (-1)^sign * num * 10^exponent / den, and    *)
(* ideal is the exponent an exact result would have.                       *)
(***************************************************************************)
EXTENDS DecNumber

Exact(sign, num, den, exponent, ideal) ==
  [sign |-> sign, num |-> num, den |-> den, exponent |-> exponent, ideal |-> ideal]

Natural(i) == IF i > 0 THEN i ELSE 0

(* The exponent of its first digit. *)
Adjusted(x) ==
  LET d == Digits(x.num) - Digits(x.den) IN
  IF x.num * 10^Natural(-d) >= x.den * 10^Natural(d) THEN x.exponent + d ELSE x.exponent + d - 1

(* As a multiple of 10^q: the integral part, and twice the rest over den.  *)
Num(x, q) == x.num * 10^Natural(x.exponent - q)
Den(x, q) == x.den * 10^Natural(q - x.exponent)
Integral(x, q) == Num(x, q) \div Den(x, q)
Rest(x, q)     == Num(x, q) % Den(x, q)
IsExact(x, q)  == Rest(x, q) = 0
Half(x, q)     == IF 2 * Rest(x, q) < Den(x, q) THEN "below"
                  ELSE IF 2 * Rest(x, q) = Den(x, q) THEN "half" ELSE "above"

RoundsUp(x, q, round) ==
  /\ ~IsExact(x, q)
  /\ \/ round = "UP"
     \/ round = "CEILING" /\ x.sign = 0
     \/ round = "FLOOR" /\ x.sign = 1
     \/ round = "05UP" /\ Integral(x, q) % 5 = 0
     \/ round \in {"HALF_UP", "HALF_EVEN", "HALF_DOWN"} /\ Half(x, q) = "above"
     \/ round = "HALF_UP" /\ Half(x, q) = "half"
     \/ round = "HALF_EVEN" /\ Half(x, q) = "half" /\ Integral(x, q) % 2 = 1

RoundedAt(x, q, round) == Integral(x, q) + IF RoundsUp(x, q, round) THEN 1 ELSE 0

(* The exponent of a result: the ideal one, or the nearest there is room   *)
(* for and that keeps the value, or that of the last digit that fits.      *)
QuantumFrom(lowest, x) ==
  LET exact == {q \in lowest..x.ideal : IsExact(x, q)} IN
  IF exact = {} THEN lowest ELSE CHOOSE q \in exact : \A r \in exact : r <= q
Greatest(a, b) == IF a < b THEN b ELSE a
Quantum(x, set) == QuantumFrom(Greatest(Adjusted(x) - set.digits + 1, Etiny(set)), x)

OverflowResult(sign, set) ==
  IF \/ set.round \in {"DOWN", "05UP"}
     \/ set.round = "CEILING" /\ sign = 1
     \/ set.round = "FLOOR" /\ sign = 0
  THEN Finite(sign, 10^set.digits - 1, set.emax - set.digits + 1)
  ELSE Infinity(sign)

When(condition, flag) == IF condition THEN {flag} ELSE {}

(* An exact value other than zero, rounded once to a multiple c of 10^q;   *)
(* the flags it raises.                                                    *)
Flagged(x, q, isSubnormal, folds) ==
  When(~IsExact(x, q), "Inexact") \cup When(~IsExact(x, q) \/ q > x.ideal, "Rounded")
  \cup When(isSubnormal, "Subnormal") \cup When(isSubnormal /\ ~IsExact(x, q), "Underflow")
  \cup When(folds, "Clamped")

Packed(x, q, coeff, exponent, set) ==
  LET top == set.emax - set.digits + 1
      folds == set.clamp /\ exponent > top
  IN IF coeff # 0 /\ exponent + Digits(coeff) - 1 > set.emax
     THEN [n |-> OverflowResult(x.sign, set), status |-> {"Overflow", "Inexact", "Rounded"}]
     ELSE [n |-> IF folds THEN Finite(x.sign, coeff * 10^(exponent - top), top)
                 ELSE Finite(x.sign, coeff, exponent),
           status |-> Flagged(x, q, Adjusted(x) < set.emin, folds \/ coeff = 0)]

Carried(x, q, c, set) ==
  IF c = 10^set.digits THEN Packed(x, q, c \div 10, q + 1, set) ELSE Packed(x, q, c, q, set)
RoundTo(x, q, set) == Carried(x, q, RoundedAt(x, q, set.round), set)
RoundOnce(x, set)  == RoundTo(x, Quantum(x, set), set)

(* A zero, whose exponent is brought into range. *)
ZeroOnce(sign, ideal, set) ==
  LET top == IF set.clamp THEN set.emax - set.digits + 1 ELSE set.emax
      exponent == IF ideal < Etiny(set) THEN Etiny(set) ELSE IF ideal > top THEN top ELSE ideal
  IN [n |-> Finite(sign, 0, exponent), status |-> When(exponent # ideal, "Clamped")]

-----------------------------------------------------------------------------
(* The exact values of the operations on finite numbers. *)
Signless(n, exponent) == n.coeff * 10^(n.exponent - exponent)
ValueAt(n, exponent)  == IF Negative(n) THEN -Signless(n, exponent) ELSE Signless(n, exponent)
Least(a, b) == IF a < b THEN a ELSE b

SumAt(lhs, rhs, e, set) ==
  LET total == ValueAt(lhs, e) + ValueAt(rhs, e)
      sign == IF lhs.sign = rhs.sign THEN lhs.sign ELSE IF set.round = "FLOOR" THEN 1 ELSE 0
  IN IF total = 0 THEN ZeroOnce(sign, e, set)
     ELSE RoundOnce(IF total < 0 THEN Exact(1, -total, 1, e, e) ELSE Exact(0, total, 1, e, e), set)
Sum(lhs, rhs, set) == SumAt(lhs, rhs, Least(lhs.exponent, rhs.exponent), set)

SignOf(lhs, rhs) == IF lhs.sign = rhs.sign THEN 0 ELSE 1

Times(lhs, rhs) == Finite(SignOf(lhs, rhs), lhs.coeff * rhs.coeff, lhs.exponent + rhs.exponent)
Product(lhs, rhs, set) ==
  LET p == Times(lhs, rhs) IN
  IF p.coeff = 0 THEN ZeroOnce(p.sign, p.exponent, set)
  ELSE RoundOnce(Exact(p.sign, p.coeff, 1, p.exponent, p.exponent), set)

Quotient(lhs, rhs, set) ==
  LET e == lhs.exponent - rhs.exponent IN
  IF lhs.coeff = 0 THEN ZeroOnce(SignOf(lhs, rhs), e, set)
  ELSE RoundOnce(Exact(SignOf(lhs, rhs), lhs.coeff, rhs.coeff, e, e), set)

(* Any power with an integral exponent, of a number other than zero. *)
PowerOf(lhs, n, set) ==
  LET m == IF n < 0 THEN -n ELSE n
      sign == IF n % 2 = 1 THEN lhs.sign ELSE 0
      e == lhs.exponent * n
  IN RoundOnce(IF n < 0 THEN Exact(sign, 1, lhs.coeff^m, e, e)
               ELSE Exact(sign, lhs.coeff^m, 1, e, e), set)

(* The finite numbers of a context. *)
Representable(n, set) ==
  /\ n.coeff < 10^set.digits
  /\ n.exponent >= Etiny(set)
  /\ n.exponent + Digits(n.coeff) - 1 <= set.emax \/ (n.coeff = 0 /\ n.exponent <= set.emax)
  /\ set.clamp => n.exponent <= set.emax - set.digits + 1
=============================================================================
