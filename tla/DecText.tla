-------------------------------- MODULE DecText --------------------------------
(***************************************************************************)
(* src/code/decNumber.cpp: decToString and decNumberFromString.  A string  *)
(* is a record of what it says: a sign, a kind, the digits before and      *)
(* after the point, and the exponent after the E, 0 if there is none.      *)
(* Kind "bad" is any string with a syntax error.  Exponents have at most   *)
(* nine digits: the guard against longer ones is left out.                 *)
(***************************************************************************)
EXTENDS DecUnits, DecNumber

Text(sign, kind, whole, fraction, exponent) ==
  [sign |-> sign, kind |-> kind, whole |-> whole, fraction |-> fraction, exponent |-> exponent]

DigitsOf(c)  == GetBCD(OfLength(c, D2U(Digits(c))), Digits(c))
Zeros(count) == [i \in 1..count |-> 0]

(* The engineering form has an exponent that is a multiple of three; a     *)
(* zero then gets zeros after the point.                                   *)

(* Defect: the remainder of a negative exponent is taken as C has it. *)
EngineeringTruncated(n, e) ==
  LET adj == IF e < 0 THEN (-e) % 3 ELSE e % 3 IN
  IF ~IsZero(n) THEN [exponent |-> e - adj, pre |-> 1 + adj]
  ELSE IF adj = 0 THEN [exponent |-> e, pre |-> 1]
  ELSE [exponent |-> e - adj + 3, pre |-> adj - 2]

Engineering(n, e) ==
  LET adj == e % 3 IN
  IF ~IsZero(n) THEN [exponent |-> e - adj, pre |-> 1 + adj]
  ELSE IF adj = 0 THEN [exponent |-> e, pre |-> 1]
  ELSE [exponent |-> e - adj + 3, pre |-> adj - 2]

decToString(n, eng) ==
  LET digits == DigitsOf(n.coeff)
      len == Len(digits)
      exponential == n.exponent > 0 \/ len + n.exponent < -5
      e == n.exponent + len - 1
      form == IF ~exponential THEN [exponent |-> 0, pre |-> len + n.exponent]
              ELSE IF eng /\ e # 0 THEN Engineering(n, e) ELSE [exponent |-> e, pre |-> 1]
  IN CASE IsNaN(n) -> Text(n.sign, n.kind, IF n.coeff = 0 THEN <<>> ELSE digits, <<>>, 0)
       [] n.kind = "inf" -> Text(n.sign, "inf", <<>>, <<>>, 0)
       [] ~Special(n) /\ form.pre <= 0 ->
            Text(n.sign, "finite", <<0>>, Zeros(-form.pre) \o digits, form.exponent)
       [] ~Special(n) /\ form.pre \in 1..(len - 1) ->
            Text(n.sign, "finite", SubSeq(digits, 1, form.pre),
                 SubSeq(digits, form.pre + 1, len), form.exponent)
       [] OTHER -> Text(n.sign, "finite", digits \o Zeros(form.pre - len), <<>>, form.exponent)

(* Leading zeros go, but for the last digit. *)
Stripped(digits) ==
  LET keep == CHOOSE i \in 1..Len(digits) :
                /\ i = Len(digits) \/ digits[i] # 0
                /\ \A j \in 1..(i - 1) : digits[j] = 0
  IN SubSeq(digits, keep, Len(digits))

CoefficientOf(digits) ==
  LET v[i \in 0..Len(digits)] == IF i = 0 THEN 0 ELSE v[i - 1] * 10 + digits[i] IN v[Len(digits)]

(* A NaN may have a payload as long as a coefficient, if clamped one digit *)
(* less.                                                                   *)
PayloadFits(len, set) == len <= IF set.clamp THEN set.digits - 1 ELSE set.digits

FromNaN(t, set) ==
  LET digits == IF t.whole = <<>> THEN <<0>> ELSE Stripped(t.whole)
      n == [Finite(t.sign, CoefficientOf(digits), 0) EXCEPT !.kind = t.kind]
  IN Status(Raise(Work(n), IF digits = <<0>> \/ PayloadFits(Len(digits), set)
                           THEN {} ELSE {"Conversion_syntax"}))

FromDigitsOf(t, set) ==
  LET digits == Stripped(t.whole \o t.fraction)
      len == Len(digits)
      exponent == t.exponent - Len(t.fraction)
      w == Work(Finite(t.sign, CoefficientOf(digits), exponent))
      inRange == exponent - 1 >= set.emin - len /\ exponent - 1 <= set.emax - set.digits
  IN IF len > set.digits
     THEN Status(Finalize(SetCoeff(w, set.digits), set))
     ELSE IF inRange THEN Status(w) ELSE Status(Finalize(w, set))

decNumberFromString(t, set) ==
  CASE t.kind = "inf" -> [n |-> Infinity(t.sign), status |-> {}]
    [] t.kind \in {"nan", "snan"} -> FromNaN(t, set)
    [] t.kind = "finite" /\ t.whole \o t.fraction # <<>> -> FromDigitsOf(t, set)
    [] OTHER -> Status(Raise(Work(Zero), {"Conversion_syntax"}))

decNumberToString(n)    == decToString(n, FALSE)
decNumberToEngString(n) == decToString(n, TRUE)
=============================================================================
