------------------------------- MODULE DecSession -------------------------------
(***************************************************************************)
(* A program that uses src/code/decNumber.cpp and decContext.cpp: one      *)
(* decContext and calls one after the other, each with any operands.  The  *)
(* context keeps the status flags of all calls.                            *)
(***************************************************************************)
EXTENDS DecOperations, DecReference, DecText, FiniteSets

CONSTANTS Contexts,   \* the contexts a session may begin with
          Operands,   \* the numbers calls are made with
          Factors,    \* what is multiplied and added to
          Bases,      \* what is raised to a power
          Written,    \* what is turned into text
          Addends,    \* what is added
          Powers,     \* the exponents numbers are raised to
          Masks,      \* the sets of flags context functions are called with
          Coefficients, \* what the routines on units get, of several units too
          ShiftsBy,   \* by how many digits they shift or cut
          MAX_CALLS   \* bound: calls of a session

VARIABLES set,     \* the context: the program's own, or that of its object
          m_value, \* the number of a DecimalDecNumber object (DecimalSession)
          calls,   \* how many calls there were
          last     \* history: the last call and what came of it
vars == <<set, m_value, calls, last>>

(* There is no object: decNumber's functions are called directly. *)
NoObject == [kind |-> "none"]
Direct   == m_value = NoObject

NoCall == [op |-> "none", args |-> <<>>, n |-> Zero, status |-> {}]
Init == set \in Contexts /\ m_value = NoObject /\ calls = 0 /\ last = NoCall

(* decContextSetStatus: flags only add up.  No flag is trapped. *)
decContextSetStatus(s, flags) == [s EXCEPT !.status = @ \cup flags]

Open == Direct /\ calls < MAX_CALLS

Call(op, args, r) ==
  /\ calls' = calls + 1
  /\ last' = [op |-> op, args |-> args, n |-> r.n, status |-> r.status]
  /\ set' = decContextSetStatus(set, r.status)
  /\ UNCHANGED m_value

Of(op, Lefts, Rights, function(_, _, _)) ==
  Open /\ \E l \in Lefts, r \in Rights : Call(op, <<l, r>>, function(l, r, set))
Binary(op, function(_, _, _)) == Of(op, Operands, Operands, function)
Unary(op, function(_, _)) ==
  Open /\ \E n \in Operands : Call(op, <<n>>, function(n, set))

Add            == Binary("add", decNumberAdd)
Subtract       == Binary("subtract", decNumberSubtract)
Multiply       == Binary("multiply", decNumberMultiply)
Divide         == Binary("divide", decNumberDivide)
DivideInteger  == Binary("divideint", decNumberDivideInteger)
Remainder      == Binary("remainder", decNumberRemainder)
RemainderNear  == Binary("remaindernear", decNumberRemainderNear)
FusedMultiplyAdd ==
  LET Fma(function(_, _, _, _)) == Open /\ \E l, r \in Factors, f \in Addends :
                                     Call("fma", <<l, r, f>>, function(l, r, f, set))
  IN Fma(decNumberFMA)
Power          == Of("power", Bases, Powers, decNumberPower)
Quantize       == Binary("quantize", decNumberQuantize)
Rescale        == Binary("rescale", decNumberRescale)
AbsoluteValue  == Unary("abs", decNumberAbs)
Plus           == Unary("plus", decNumberPlus)
Minus          == Unary("minus", decNumberMinus)
ReduceZeros    == Unary("reduce", decNumberReduce)
Compares       == Binary("compare", decNumberCompare)
CompareSignals == Binary("comparesig", decNumberCompareSignal)
CompareTotals  == Binary("comparetotal", decNumberCompareTotal)
CompareTotalMags == Binary("comparetotalmag", decNumberCompareTotalMag)
Maximum        == Binary("max", decNumberMax)
MaximumMag     == Binary("maxmag", decNumberMaxMag)
Minimum        == Binary("min", decNumberMin)
MinimumMag     == Binary("minmag", decNumberMinMag)
NextUp         == Unary("nextplus", decNumberNextPlus)
NextDown       == Unary("nextminus", decNumberNextMinus)
NextTowards    == Binary("nexttoward", decNumberNextToward)
ToIntegral     == Unary("tointegral", decNumberToIntegralExact)
ToIntegralValue == Unary("tointegralvalue", decNumberToIntegralValue)
Exponent       == Unary("logb", decNumberLogB)
Scale          == Binary("scaleb", decNumberScaleB)
Rotates        == Binary("rotate", decNumberRotate)
Shifts         == Binary("shift", decNumberShift)
Ands           == Binary("and", decNumberAnd)
Ors            == Binary("or", decNumberOr)
Xors           == Binary("xor", decNumberXor)
Inverts        == Unary("invert", decNumberInvert)

(* What is not a number goes to last.n as it is; the quiet functions raise *)
(* no flag.                                                                *)
Answer(value) == [n |-> value, status |-> {}]
CopySign  == LET copy(l, r, s) == Answer(decNumberCopySign(l, r)) IN Binary("copysign", copy)
CopyQuiet == LET copies(n, s) == Answer(<<decNumberCopyAbs(n), decNumberCopyNegate(n)>>)
             IN Unary("copy", copies)
TrimZeros == LET trim(n, s) == Answer(decNumberTrim(n)) IN Unary("trim", trim)
Classify  == LET class(n, s) == Answer(decNumberClass(n, s)) IN Unary("class", class)
Quantums  == LET same(l, r, s) == Answer(decNumberSameQuantum(l, r)) IN Binary("samequantum", same)
Integers  == LET ints(n, s) ==
                   LET i == decNumberToInt32(n)
                       u == decNumberToUInt32(n)
                   IN [n |-> <<i.value, u.value, decNumberFromInt32(i.value),
                               decNumberFromUInt32(u.value)>>,
                       status |-> i.status \cup u.status]
             IN Unary("integers", ints)
ToString    == LET text(n, s) == Answer(decNumberToString(n)) IN Open /\ \E n \in Written : Call("tostring", <<n>>, text(n, set))
ToEngString == LET text(n, s) == Answer(decNumberToEngString(n)) IN Open /\ \E n \in Written : Call("toengstring", <<n>>, text(n, set))
FromString  == Open /\ \E n \in Operands, eng \in BOOLEAN, bad \in BOOLEAN :
                 LET t == [decToString(n, eng) EXCEPT !.kind = IF bad THEN "bad" ELSE @] IN
                 Call("fromstring", <<n, t>>, decNumberFromString(t, set))

(* The calls of the routines on units, which have no context, inside the   *)
(* functions; what they make of longer coefficients than a small context   *)
(* has is DecUnits'.                                                       *)
UseUnits == Open /\ \E a, b \in Coefficients, by \in ShiftsBy : Call("units", <<a, b, by>>, Answer(Zero))

-----------------------------------------------------------------------------
(* decContext.cpp *)
Context(op, mask, s) ==
  /\ calls' = calls + 1
  /\ last' = [NoCall EXCEPT !.op = op, !.args = <<mask, set.status>>]
  /\ set' = s
  /\ UNCHANGED m_value

decContextClearStatus(mask) ==
  Context("clear", mask, [set EXCEPT !.status = @ \ mask])
decContextRestoreStatus(newstatus, mask) ==
  Context("restore", mask, [set EXCEPT !.status = (@ \ mask) \cup (mask \cap newstatus)])
decContextSaveStatus(mask) ==
  Context("save", set.status \cap mask, set)
decContextZeroStatus == Context("zero", {}, [set EXCEPT !.status = {}])
decContextSetRounding(round) == Context("setrounding", {}, [set EXCEPT !.round = round])

(* One flag has a name, none is "No status", several have one name for all *)
(* and cannot be set from it.                                              *)
decContextStatusToString(status) ==
  IF status = {} THEN "No status"
  ELSE IF Cardinality(status) = 1 THEN CHOOSE flag \in status : TRUE ELSE "Multiple status"
decContextSetStatusFromString(string) ==
  /\ string # "Multiple status"
  /\ Context("fromname", IF string = "No status" THEN {} ELSE {string},
             decContextSetStatus(set, IF string = "No status" THEN {} ELSE {string}))

ContextCall == Open /\
  \/ \E mask \in Masks : decContextClearStatus(mask) \/ decContextSaveStatus(mask)
  \/ \E mask, newstatus \in Masks : decContextRestoreStatus(newstatus, mask)
  \/ decContextZeroStatus
  \/ \E round \in Modes : decContextSetRounding(round)
  \/ \E mask \in Masks : decContextSetStatusFromString(decContextStatusToString(mask))

Arithmetic == \/ Add \/ Subtract \/ Multiply \/ Divide \/ DivideInteger \/ Remainder
              \/ RemainderNear \/ FusedMultiplyAdd \/ Power \/ Quantize \/ Rescale
              \/ AbsoluteValue \/ Plus \/ Minus \/ ReduceZeros
Comparing  == \/ Compares \/ CompareSignals \/ CompareTotals \/ CompareTotalMags \/ Maximum
              \/ MaximumMag \/ Minimum \/ MinimumMag \/ NextUp \/ NextDown \/ NextTowards
Digitwise  == \/ ToIntegral \/ ToIntegralValue \/ Exponent \/ Scale \/ Rotates \/ Shifts
              \/ Ands \/ Ors \/ Xors \/ Inverts
Converting == \/ CopySign \/ CopyQuiet \/ TrimZeros \/ Classify \/ Quantums \/ Integers
              \/ ToString \/ ToEngString \/ FromString

Next == Arithmetic \/ Comparing \/ Digitwise \/ Converting \/ UseUnits \/ ContextCall
Spec == Init /\ [][Next]_vars
=============================================================================
