------------------------------- MODULE DecNumber -------------------------------
(***************************************************************************)
(* src/code/decNumber.cpp, the part every operation ends in: the           *)
(* coefficient cut to the precision of a context, the rounding, the check  *)
(* of the exponent, NaNs and the status.  The build compiles it with       *)
(* DECDPUN = 3, DECEXTFLAG = 1, DECSUBSET = 0 and DECCHECK = 0.            *)
(*                                                                         *)
(* A coefficient is a natural number; module DecUnits has the arrays of    *)
(* units that hold one.  dn->digits is then the number of its digits.      *)
(* The residue keeps what decSetCoeff cut off: 0 nothing, 1-4 less than    *)
(* half, 5 half, 6-8 more, -1 slightly less than nothing.  An operation    *)
(* works on a record of a number, its residue and the status so far.       *)
(***************************************************************************)
EXTENDS Integers, Sequences

CONSTANT LONGEST  \* bound: digits of the longest coefficient that occurs

ASSUME LongestAssumption == LONGEST \in 1..9

Modes == {"CEILING", "UP", "HALF_UP", "HALF_EVEN", "HALF_DOWN", "DOWN", "FLOOR", "05UP"}

(* A context: set.digits, set.emax, set.emin, set.round, set.clamp.  A     *)
(* number: its sign bit, its special bits, its coefficient, its exponent.  *)
Finite(sign, coeff, exponent) ==
  [sign |-> sign, kind |-> "finite", coeff |-> coeff, exponent |-> exponent]
Infinity(sign) == [Finite(sign, 0, 0) EXCEPT !.kind = "inf"]
Zero == Finite(0, 0, 0)
NaN  == [Zero EXCEPT !.kind = "nan"]

Special(n)  == n.kind # "finite"
IsNaN(n)    == n.kind \in {"nan", "snan"}
IsZero(n)   == n.kind = "finite" /\ n.coeff = 0
Negative(n) == n.sign = 1

Digits(c)     == CHOOSE d \in 1..LONGEST : (d = 1 \/ 10^(d - 1) <= c) /\ c < 10^d
AllNines(c)   == c = 10^Digits(c) - 1
OneAndZeros(c) == c = 10^(Digits(c) - 1)
ShiftToMost(n, by) == [n EXCEPT !.coeff = @ * 10^by, !.exponent = @ - by]
Etiny(set)    == set.emin - (set.digits - 1)

Work(n) == [n |-> n, residue |-> 0, status |-> {}]
Raise(w, flags) == [w EXCEPT !.status = @ \cup flags]

-----------------------------------------------------------------------------
(* decSetCoeff: cut to so many digits, which may be none.  resmap keeps    *)
(* the first digit cut off apart from the rest, of which the residue is    *)
(* what is left.                                                           *)
ResMap(digit) == IF digit = 0 THEN 0 ELSE IF digit < 5 THEN 3 ELSE IF digit = 5 THEN 5 ELSE 7

(* Defect: what is cut off after the guard digit is forgotten. *)
CutResidueGuardOnly(coeff, discard, residue) ==
  residue + ResMap((coeff \div 10^(discard - 1)) % 10)

CutResidue(coeff, discard, residue) ==
  LET sticky == IF coeff % 10^(discard - 1) # 0 THEN 1 ELSE residue IN
  sticky + ResMap((coeff \div 10^(discard - 1)) % 10)

SetCoeff(w, digits) ==
  LET len == Digits(w.n.coeff)
      discard == len - digits
      before == IF w.residue > 1 THEN 1 ELSE w.residue
      residue == IF discard <= len THEN CutResidue(w.n.coeff, discard, before)
                 ELSE IF before <= 0 /\ w.n.coeff # 0 THEN 1 ELSE before
      inexact == IF residue # 0 THEN {"Inexact"} ELSE {}
  IN IF discard <= 0
     THEN IF w.residue = 0 THEN w ELSE Raise(w, {"Inexact", "Rounded"})
     ELSE [n |-> [w.n EXCEPT !.coeff = IF discard > len THEN 0 ELSE @ \div 10^discard,
                             !.exponent = @ + discard],
           residue |-> residue,
           status |-> w.status \cup {"Rounded"} \cup inexact]

CopyFit(src, status, set) ==
  SetCoeff([n |-> src, residue |-> 0, status |-> status], set.digits)

-----------------------------------------------------------------------------
(* decSetMaxValue, decSetOverflow *)
MaxValue(sign, set) == Finite(sign, 10^set.digits - 1, set.emax - set.digits + 1)

SetOverflow(w, set) ==
  LET limit == IF set.clamp THEN set.emax - (set.digits - 1) ELSE set.emax
      needmax == \/ set.round \in {"DOWN", "05UP"}
                 \/ set.round = "CEILING" /\ Negative(w.n)
                 \/ set.round = "FLOOR" /\ ~Negative(w.n)
  IN IF IsZero(w.n)
     THEN IF w.n.exponent <= limit THEN w
          ELSE Raise([w EXCEPT !.n.exponent = limit], {"Clamped"})
     ELSE Raise([w EXCEPT !.n = IF needmax THEN MaxValue(@.sign, set) ELSE Infinity(@.sign)],
                {"Overflow", "Inexact", "Rounded"})

(* The switch of decApplyRound: one up, one down, or as it is. *)
Bump(n, residue, round) ==
  LET up == IF residue > 0 THEN 1 ELSE 0
      down == IF residue < 0 THEN -1 ELSE 0
      toward == IF residue < 0 THEN down ELSE up
  IN CASE round = "05UP"      -> IF residue < 0 THEN IF n.coeff % 5 # 1 THEN -1 ELSE 0
                                 ELSE IF n.coeff % 5 = 0 THEN up ELSE 0
       [] round = "DOWN"      -> down
       [] round = "HALF_DOWN" -> IF residue > 5 THEN 1 ELSE 0
       [] round = "HALF_EVEN" -> IF residue > 5 \/ (residue = 5 /\ n.coeff % 2 = 1) THEN 1 ELSE 0
       [] round = "HALF_UP"   -> IF residue >= 5 THEN 1 ELSE 0
       [] round = "UP"        -> up
       [] round = "CEILING"   -> IF Negative(n) THEN down ELSE up
       [] round = "FLOOR"     -> IF Negative(n) THEN up ELSE down

(* decApplyRound: 99 becomes 10 with the next exponent, 10 that is a       *)
(* little too much 99 with the one before, unless that is below the least. *)
ApplyRound(w, set) ==
  LET n == w.n
      len == Digits(n.coeff)
      bump == IF w.residue = 0 THEN 0 ELSE Bump(n, w.residue, set.round)
      carried == [w EXCEPT !.n.coeff = 10^(len - 1), !.n.exponent = @ + 1]
      borrowed == [w EXCEPT !.n.coeff = 10^len - 1, !.n.exponent = @ - 1]
      shorter == [w EXCEPT !.n.coeff = 10^(len - 1) - 1]
  IN CASE bump = 1 /\ AllNines(n.coeff) ->
            IF carried.n.exponent + len > set.emax + 1 THEN SetOverflow(carried, set) ELSE carried
       [] bump = -1 /\ OneAndZeros(n.coeff) ->
            IF n.exponent = Etiny(set)
            THEN Raise(shorter, {"Underflow", "Subnormal", "Inexact", "Rounded"})
            ELSE borrowed
       [] OTHER -> [w EXCEPT !.n.coeff = @ + bump]

(* decSetSubnormal: an exponent below the least costs digits. *)
SetSubnormal(w, set) ==
  LET adjust == Etiny(set) - w.n.exponent
      workset == [set EXCEPT !.digits = Digits(w.n.coeff) - adjust, !.emin = @ - adjust]
      rounded == ApplyRound(SetCoeff(Raise(w, {"Subnormal"}), workset.digits), workset)
      fitted == IF rounded.n.exponent > Etiny(set)
                THEN [rounded EXCEPT !.n = ShiftToMost(@, 1)] ELSE rounded
      underflow == IF "Inexact" \in fitted.status THEN {"Underflow"} ELSE {}
      clamped == IF IsZero(fitted.n) THEN {"Clamped"} ELSE {}
  IN CASE IsZero(w.n) ->
            IF adjust <= 0 THEN w ELSE Raise([w EXCEPT !.n.exponent = Etiny(set)], {"Clamped"})
       [] ~IsZero(w.n) /\ adjust <= 0 ->
            Raise(w, {"Subnormal"} \cup IF "Inexact" \in w.status THEN {"Underflow"} ELSE {})
       [] OTHER -> Raise(fitted, underflow \cup clamped)

(* decFinalize *)
Finalize(w, set) ==
  LET tinyexp == set.emin - Digits(w.n.coeff) + 1
      atNmin == w.n.exponent = tinyexp /\ OneAndZeros(w.n.coeff)
      r == ApplyRound(w, set)
      top == set.emax - set.digits + 1
  IN CASE w.n.exponent < tinyexp -> SetSubnormal(w, set)
       [] atNmin /\ w.residue < 0 -> SetSubnormal(r, set)
       [] ~(w.n.exponent < tinyexp) /\ ~(atNmin /\ w.residue < 0) ->
            IF r.n.exponent <= top THEN r
            ELSE IF r.n.exponent > set.emax - Digits(r.n.coeff) + 1 THEN SetOverflow(r, set)
            ELSE IF ~set.clamp THEN r
            ELSE Raise([r EXCEPT !.n.coeff = @ * 10^(r.n.exponent - top), !.n.exponent = top],
                       {"Clamped"})

-----------------------------------------------------------------------------
(* decNaNs: the first signalling NaN, else the first NaN, with as much of  *)
(* its payload as fits.  A unary operation has its operand twice.          *)
(* Defect: the payload is kept whole. *)
NaNsUncut(l, r, status, set) ==
  LET signals == l.kind = "snan" \/ r.kind = "snan"
      src == IF signals THEN IF l.kind = "snan" THEN l ELSE r ELSE IF IsNaN(l) THEN l ELSE r
  IN [n |-> [src EXCEPT !.kind = "nan", !.exponent = 0], residue |-> 0,
      status |-> status \cup IF signals THEN {"Invalid_operation", "sNaN"} ELSE {}]

NaNs(l, r, status, set) ==
  LET signals == l.kind = "snan" \/ r.kind = "snan"
      src == IF l.kind = "snan" THEN l
             ELSE IF r.kind = "snan" THEN r ELSE IF l.kind = "nan" THEN l ELSE r
  IN [n |-> [src EXCEPT !.kind = "nan", !.coeff = @ % 10^set.digits, !.exponent = 0],
      residue |-> 0,
      status |-> status \cup IF signals THEN {"Invalid_operation", "sNaN"} ELSE {}]

(* decStatus: what a caller gets, and the flags that go to the context. *)
Invalid == {"Conversion_syntax", "Division_impossible", "Division_undefined",
            "Insufficient_storage", "Invalid_context", "Invalid_operation"}

Status(w) ==
  [n |-> IF w.status \cap Invalid # {} /\ "sNaN" \notin w.status THEN NaN ELSE w.n,
   status |-> w.status \ {"sNaN"}]

Refuse(w, flag) == Raise(w, {flag})

-----------------------------------------------------------------------------
(* decTrim: trailing zeros of an even coefficient, all of them or those of *)
(* the fraction; clamping leaves some.                                     *)
Trim(n, set, all, noclamp) ==
  LET len == Digits(n.coeff)
      zeros == CHOOSE d \in 0..(len - 1) :
                 n.coeff % 10^d = 0 /\ (d = len - 1 \/ n.coeff % 10^(d + 1) # 0)
      fraction == IF n.exponent > 0 THEN zeros
                  ELSE IF zeros < -n.exponent THEN zeros ELSE -n.exponent
      d == IF all THEN zeros ELSE fraction
      maxd == set.emax - set.digits + 1 - n.exponent
      drop == IF set.clamp /\ ~noclamp /\ d > maxd THEN IF maxd <= 0 THEN 0 ELSE maxd ELSE d
  IN CASE Special(n) -> n
       [] IsZero(n)  -> [n EXCEPT !.exponent = 0]
       [] OTHER      -> [n EXCEPT !.coeff = @ \div 10^drop, !.exponent = @ + drop]
=============================================================================
