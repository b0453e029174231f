--------------------------------- MODULE DecLaws ---------------------------------
(***************************************************************************)
(* What a caller of src/code/decNumber.cpp relies on.  The results are     *)
(* compared with DecReference, which rounds exact values once.             *)
(***************************************************************************)
EXTENDS DecSession

Op(ops) == Direct /\ last.op \in ops
Left    == last.args[1]
Right   == last.args[2]
Third   == last.args[3]
Finites(args) == \A i \in 1..Len(args) : ~Special(args[i])
Got     == [n |-> last.n, status |-> last.status]

Rounding == {"add", "subtract", "multiply", "divide", "divideint", "remainder", "remaindernear",
             "fma", "power", "quantize", "rescale", "abs", "plus", "minus", "reduce", "max",
             "maxmag", "min", "minmag", "nextplus", "nextminus", "logb", "scaleb", "fromstring"}

(* Whatever the operands, a result that is rounded fits the context: no    *)
(* more digits than the precision, no exponent out of range, no NaN with   *)
(* too long a payload.  The flags are ones that there are, and a result    *)
(* that is an invalid NaN has raised one.  Every decFinalize() has to      *)
(* keep to it; the remainder of a zero does not pass through it, and       *)
(* scaleB does not shorten its operand.                                    *)
Unfitted == \/ Op({"remainder", "remaindernear"}) /\ IsZero(Left)
            \/ Op({"scaleb"}) /\ Digits(Left.coeff) > set.digits
Flags == Invalid \cup {"Division_by_zero", "Overflow", "Underflow", "Inexact", "Rounded",
                       "Clamped", "Subnormal"}
TypeOK ==
  /\ Direct => calls \in 0..MAX_CALLS
  /\ set.status \subseteq Flags
  /\ Op(Rounding) =>
       /\ last.n.sign \in {0, 1}
       /\ ~Special(last.n) /\ ~Unfitted => Representable(last.n, set)
       /\ last.n.kind = "nan" => last.n.coeff < 10^set.digits
       /\ last.n = NaN /\ (\A i \in 1..Len(last.args) : last.args[i] # NaN)
            => last.status \cap Invalid # {} \/ Op({"fromstring"})
              \/ \E i \in 1..Len(last.args) : IsNaN(last.args[i])

(* Sums, differences, products and products with a sum are the exact value *)
(* rounded once, with the flags that belong to it, in every rounding mode, *)
(* for operands longer than the precision, below the smallest exponent and *)
(* above the largest: decAddOp's fast path, its operand that is but a      *)
(* residue and decFinalize()'s subnormal detour may not show.              *)
Summands ==
  CASE Op({"add"})      -> <<Left, Right>>
    [] Op({"subtract"}) -> <<Left, Flip(Right)>>
    [] Op({"plus"})     -> <<ZeroLike(Left), Left>>
    [] Op({"minus"})    -> <<ZeroLike(Left), Flip(Left)>>
    [] Op({"abs"})      -> <<ZeroLike(Left), Abs(Left)>>
    [] Op({"fma"})      -> <<Times(Left, Right), Third>>
SumOf(pair) == Sum(pair[1], pair[2], set)

SumsRounded ==
  /\ Op({"add", "subtract", "plus", "minus", "abs", "fma"}) /\ Finites(last.args)
       => Got = SumOf(Summands)
  /\ Op({"multiply"}) /\ Finites(last.args) => Got = Product(Left, Right, set)

(* A quotient is rounded once, though decDivideOp stops after a unit that  *)
(* has more digits than it needs.  The integer quotient and the remainder  *)
(* belong to each other: lhs = quotient * rhs + remainder, with the        *)
(* remainder's sign that of lhs, or nearest to zero; both are refused if   *)
(* the quotient needs too many digits.                                     *)
Common(n) == n.coeff * 10^(n.exponent - Least(Left.exponent, Right.exponent))
WholeQuotient == Common(Left) \div Common(Right)
RestOf == Common(Left) % Common(Right)
NearRest == 2 * RestOf > Common(Right) \/ (2 * RestOf = Common(Right) /\ WholeQuotient % 2 = 1)
Rounded(sign, c, exponent) ==
  IF c = 0 THEN ZeroOnce(sign, exponent, set)
  ELSE RoundOnce(Exact(sign, c, 1, exponent, exponent), set)
RemainderExpected ==
  LET e == Least(Left.exponent, Right.exponent) IN
  IF Op({"remaindernear"}) /\ NearRest THEN Rounded(1 - Left.sign, Common(Right) - RestOf, e)
  ELSE Rounded(Left.sign, RestOf, e)
TooLong == WholeQuotient + (IF Op({"remaindernear"}) /\ NearRest THEN 1 ELSE 0) >= 10^set.digits

QuotientsRounded ==
  /\ Op({"divide"}) /\ Finites(last.args) /\ ~IsZero(Right) => Got = Quotient(Left, Right, set)
  /\ Op({"divideint", "remainder", "remaindernear"}) /\ Finites(last.args)
       /\ ~IsZero(Right) /\ ~IsZero(Left) =>
       IF TooLong THEN Got = [n |-> NaN, status |-> {"Division_impossible"}]
       ELSE IF Op({"divideint"}) THEN Got = Rounded(SignOf(Left, Right), WholeQuotient, 0)
       ELSE Got = RemainderExpected

(* quantize, rescale and tointegral give the operand rounded at the        *)
(* exponent asked for, or an invalid operation if that takes more digits   *)
(* than the precision or an exponent the context does not have; a context  *)
(* that clamps writes the same value with a smaller exponent.  Two things  *)
(* are not so in the code: a coefficient of nines that rounds up           *)
(* past the largest exponent overflows (decApplyRound in decQuantizeOp),   *)
(* and tointegral takes flags of earlier calls for its own, so that an     *)
(* old invalid flag makes a NaN of any number with a fraction.             *)
Asked == CASE Op({"quantize"}) -> Right.exponent
           [] Op({"rescale"})  -> GetInt(Right)
           [] OTHER            -> 0
AtAsked == Finite(Left.sign, RoundedAt(Exact(Left.sign, Left.coeff, 1, Left.exponent, 0), Asked, set.round),
                  Asked)
Folded(n) == LET top == set.emax - set.digits + 1 IN
             IF set.clamp /\ n.exponent > top
             THEN Finite(n.sign, n.coeff * 10^(n.exponent - top), top) ELSE n
FitsContext(n) == /\ Asked \in Etiny(set)..set.emax
                  /\ Digits(n.coeff) <= set.digits
                  /\ IsZero(n) \/ n.exponent <= set.emax - Digits(n.coeff) + 1
Overflowed == last.status = {"Overflow", "Inexact", "Rounded"} /\ Digits(AtAsked.coeff) > Digits(Left.coeff \div 10^Natural(Asked - Left.exponent))
InvalidBefore == last.args # <<>> /\ set.status \cap Invalid # {}

QuantizedExactly ==
  /\ Op({"quantize", "rescale"}) /\ Finites(last.args) /\ (Op({"rescale"}) => IsInteger(Right)) =>
       \/ Overflowed
       \/ IF FitsContext(AtAsked) THEN last.n = Folded(AtAsked) /\ last.status \cap Invalid = {}
          ELSE last.n = NaN /\ last.status \cap Invalid # {}
  /\ Op({"tointegral", "tointegralvalue"}) /\ Finites(last.args) =>
       \/ InvalidBefore
       \/ last.n = IF Left.exponent >= 0 THEN Left ELSE AtAsked

(* Comparisons, maxima, total order and neighbours are those of the exact  *)
(* values: compare is the sign of the difference; the total order agrees   *)
(* with it, is antisymmetric and tells apart numbers that differ in sign   *)
(* or exponent only; max and min are operands no other is above or below;  *)
(* and between a number and its neighbour lies no number of the context.   *)
Cmp(l, r) == LET e == Least(l.exponent, r.exponent) IN Signum(ValueAt(l, e) - ValueAt(r, e))
Finer == {Finite(s, c, e) : s \in {0, 1}, c \in {0} \cup 10^(set.digits - 1)..(10^set.digits - 1),
                            e \in Etiny(set)..(set.emax - set.digits + 1)}
         \cup {Finite(s, c, Etiny(set)) : s \in {0, 1}, c \in 1..(10^(set.digits - 1))}
Between(n, a, b) == Cmp(a, n) < 0 /\ Cmp(n, b) < 0

OrderAgrees ==
  /\ Op({"compare", "comparesig"}) /\ Finites(last.args) =>
       last.n = SignumNumber(Cmp(Left, Right))
  /\ Op({"comparetotal"}) =>
       /\ SignumOf(last.n) = -CompareTotal(Right, Left)
       /\ IsZero(last.n) <=> Left = Right \/ (IsNaN(Left) /\ [Left EXCEPT !.exponent = Right.exponent] = Right)
       /\ Finites(last.args) /\ Cmp(Left, Right) # 0 => SignumOf(last.n) = Cmp(Left, Right)
  /\ Op({"max", "min"}) /\ Finites(last.args) =>
       LET pick == IF (Cmp(Left, Right) > 0) = Op({"max"}) THEN Left ELSE Right IN
       Cmp(Left, Right) # 0 => Got = Rounded(pick.sign, pick.coeff, pick.exponent)
  /\ Op({"nextplus", "nextminus"}) /\ Finites(last.args) =>
       LET low == IF Op({"nextplus"}) THEN Left ELSE last.n
           high == IF Op({"nextplus"}) THEN last.n ELSE Left
       IN /\ Finites(<<last.n>>) => Cmp(low, high) < 0
          /\ \A n \in Finer : ~Between(n, low, high) \/ ~Finites(<<last.n>>)
  /\ Op({"nexttoward"}) /\ Finites(last.args) =>
       last.n = IF Cmp(Left, Right) < 0 THEN decNumberNextPlus(Left, set).n
                ELSE IF Cmp(Left, Right) > 0 THEN decNumberNextMinus(Left, set).n
                ELSE decNumberCopySign(Left, Right)

(* A number written and read again is the same, with its exponent and its  *)
(* sign, the sign of a zero too; in engineering form, whose exponent is a  *)
(* multiple of three, it has the same value.  What is read is rounded once.                                *)
Wide == [set EXCEPT !.digits = LONGEST, !.emin = -99, !.emax = 99, !.clamp = FALSE]
TextRoundTrip ==
  /\ Op({"tostring"}) => decNumberFromString(last.n, Wide) = [n |-> Left, status |-> {}]
  /\ Op({"toengstring"}) /\ Finites(last.args) =>
       /\ last.n.exponent % 3 = 0
       /\ CompareValues(decNumberFromString(last.n, Wide).n, Left) = 0
  /\ Op({"fromstring"}) /\ Finites(last.args) /\ Right.kind = "finite" =>
       Got = LET ideal == Right.exponent - Len(Right.fraction)
                 c == CoefficientOf(Right.whole \o Right.fraction)
             IN Rounded(Left.sign, c, ideal)

(* An integral power is at most one unit in the last place away from the   *)
(* exact one, as the comment before decNumberPower says; but if the        *)
(* inverse of a small number overflows the loop ends at once, with 1.      *)
(* A power that overflows is infinite, whatever the rounding mode.         *)
InverseOverflows == Negative(Right) /\ "Overflow" \in last.status
InfiniteIfOver(r) == IF "Overflow" \in r.status THEN Infinity(r.n.sign) ELSE r.n
OneUnitApart(n, exact) ==
  LET e == Least(n.exponent, exact.exponent) IN
  \/ n = exact
  \/ /\ Finites(<<n, exact>>)
     /\ Magnitude(ValueAt(n, e) - ValueAt(exact, e))
          <= 10^(IF n.exponent > exact.exponent THEN n.exponent - e ELSE exact.exponent - e)
PowerClose ==
  Op({"power"}) /\ Finites(last.args) /\ ~IsZero(Left) /\ ~InverseOverflows =>
    OneUnitApart(last.n, InfiniteIfOver(PowerOf(Left, GetInt(Right), set)))

(* The arrays of units hold the numbers the other definitions compute      *)
(* with, also coefficients of several units: the addition, subtraction and *)
(* comparison of coefficients with a shift, their product, digits gained,  *)
(* lost or put in a ring by whole units and by parts of them, and the      *)
(* digits one by one; no unit is left with more than three digits.  A      *)
(* multiplier of more than two units takes the path by 64 bits, which is   *)
(* not modelled; decNumberSetBCD is right only if as many units are        *)
(* replaced as the new digits need.                                        *)
Coefficient(c) == OfLength(c, D2U(Digits(c)))
Stands(u, c)   == (\A i \in 1..Len(u) : u[i] \in 0..(BASE - 1)) /\ ValueOf(u) = c
Below10(c, by) == by <= LONGEST /\ c < 10^(LONGEST - by)

ShiftsAgree(c, by) ==
  LET a == Coefficient(c)
      length == Digits(c)
  IN /\ Below10(c, by) => Stands(ShiftUnitsToMost(a, length, by), c * 10^by)
     /\ by <= Len(a) * UNITDIGITS => Stands(ShiftUnitsToLeast(a, by), c \div 10^by)
     /\ by <= length => /\ Stands(Decap(a, length, by), c % 10^(length - by))
                        /\ GetDigits(Decap(a, length, by)) = Digits(c % 10^(length - by))
     /\ \A ring \in length..LONGEST : by \in 1..(ring - 1) =>
          LET split == 10^(ring - by) IN
          Stands(RotateUnits(OfLength(c, D2U(ring)), ring, by), (c % split) * 10^by + c \div split)

SumsAgree(c, d, by) ==
  LET moved == d * 10^by
      factor == 10^(by % UNITDIGITS)
      sum == UnitAddSub(Coefficient(c), Coefficient(d), by \div UNITDIGITS, factor)
      rest == UnitAddSub(Coefficient(c), Coefficient(d), by \div UNITDIGITS, -factor)
  IN /\ Stands(sum.units, c + moved) /\ ~sum.negative
     /\ Stands(rest.units, Magnitude(c - moved)) /\ (rest.negative <=> c < moved)
     /\ UnitCompare(Coefficient(c), Coefficient(d), by) = Signum(c - moved)

ProductsAgree(c, d) ==
  LET product == UnitMultiply(Coefficient(c), Coefficient(d)) IN
  Stands(product, c * d) /\ GetDigits(product) = Digits(c * d)

CodesAgree(c, d) ==
  D2U(Digits(c)) = D2U(Digits(d)) =>
    Stands(SetBCD(Coefficient(c), Digits(c), GetBCD(Coefficient(d), Digits(d))), d)

UnitsAgree ==
  Op({"units"}) =>
    LET c == last.args[1]
        d == last.args[2]
        by == last.args[3]
    IN /\ ShiftsAgree(c, by) /\ CodesAgree(c, d)
       /\ Below10(d, by) => SumsAgree(c, d, by)
       /\ Digits(d) <= Lower(Digits(c), 2 * UNITDIGITS) /\ c <= (10^LONGEST - 1) \div d =>
            ProductsAgree(c, d)

(* A number that is no longer than the precision is rotated and shifted    *)
(* within it digit by digit, and scaled with one rounding.                 *)
PlacesAgree ==
  Op({"rotate", "shift", "scaleb"}) /\ Finites(last.args) /\ Digits(Left.coeff) <= set.digits
    /\ last.status \cap Invalid = {} =>
    /\ Op({"rotate"}) => \A i \in 0..(set.digits - 1) :
         Digit(last.n, (i + GetInt(Right)) % set.digits) = Digit(Left, i)
    /\ Op({"shift"}) => \A i \in 0..(set.digits - 1) :
         Digit(last.n, i) = IF i - GetInt(Right) \in 0..(set.digits - 1) THEN Digit(Left, i - GetInt(Right)) ELSE 0
    /\ Op({"rotate", "shift"}) => Digits(last.n.coeff) <= set.digits
    /\ Op({"scaleb"}) => Got = Rounded(Left.sign, Left.coeff, Left.exponent + GetInt(Right))

DigitsAgree == UnitsAgree /\ PlacesAgree
=============================================================================
