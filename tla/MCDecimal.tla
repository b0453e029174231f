-------------------------------- MODULE MCDecimal --------------------------------
(***************************************************************************)
(* Either a program that calls decNumber's functions or one that uses a    *)
(* DecimalDecNumber.  A precision of two digits and exponents of -2 to 3   *)
(* put every case of rounding, overflow and underflow within reach of      *)
(* short operands.                                                         *)
(***************************************************************************)
EXTENDS DecLaws, DecimalSession

Clean(mode, clamp) ==
  [digits |-> 2, emax |-> 3, emin |-> -2, round |-> mode, clamp |-> clamp,
   status |-> {}]

MCContexts == {Clean(mode, clamp) : mode \in Modes, clamp \in BOOLEAN}
              \cup {[Clean("HALF_UP", FALSE) EXCEPT !.status = flags] :
                      flags \in {{"Inexact", "Rounded"}, {"Division_undefined"}}}

MCFinite == {<<0, 0, 0>>, <<1, 0, -5>>, <<0, 0, 4>>,
             <<0, 1, 0>>, <<1, 1, -3>>, <<0, 5, -4>>, <<0, 2, 1>>, <<1, 7, 0>>, <<0, 2, 0>>, <<1, 1, 0>>, <<0, 9, 3>>,
             <<0, 10, -3>>, <<0, 11, 0>>, <<1, 15, -1>>, <<0, 25, -4>>, <<0, 50, 2>>, <<0, 95, -2>>,
             <<1, 99, 2>>, <<0, 99, -3>>, <<0, 101, 0>>, <<0, 105, -4>>, <<1, 955, -1>>, <<0, 995, 1>>,
             <<0, 999, -2>>}
MCOperands == {Finite(t[1], t[2], t[3]) : t \in MCFinite}
              \cup {Infinity(0), Infinity(1), [NaN EXCEPT !.coeff = 123],
                    [NaN EXCEPT !.kind = "snan", !.sign = 1, !.coeff = 7]}
MCFactors == {Finite(0, 1, 0), Finite(1, 5, -1), Finite(0, 15, -2), Finite(0, 99, 0), Finite(1, 33, 0),
              Zero, Infinity(1), [NaN EXCEPT !.kind = "snan", !.coeff = 123]}
MCAddends == {Finite(0, 1, -4), Finite(1, 5, -1), Finite(0, 99, 2), Finite(1, 0, -1), Infinity(0), NaN}
MCBases   == {Finite(0, 14, -1), Finite(0, 15, -2), Finite(1, 33, 0), Finite(0, 1, 0), Finite(1, 5, -1), Zero,
              Infinity(1), [NaN EXCEPT !.kind = "snan", !.coeff = 123]}
MCWritten == MCOperands \cup {Finite(s, c, e) : s \in {0, 1}, c \in {0, 5, 25, 105}, e \in -11..-5}
MCPowers  == {Finite(0, c, 0) : c \in {0, 1, 2, 3, 5}} \cup {Finite(1, 1, 0), Infinity(0), Infinity(1), NaN}
MCCoefficients == {1, 8, 999, 1000, 1998, 20000, 45999, 305000, 999999, 1002003, 123456789, 900000001}
MCShiftsBy == 0..9
MCMasks   == {{}, {"Inexact"}, {"Division_undefined", "Rounded"}}

(* The other objects' numbers: around the thresholds, halves and quarters, *)
(* the limits of the short integers, and ones shown with an E.             *)
MCSmall   == {<<0, 0, 0>>, <<0, 1, 0>>, <<1, 5, -2>>, <<0, 5, -3>>, <<1, 125, -2>>, <<0, 375, -2>>,
              <<1, 996, -1>>, <<0, 625, -4>>, <<1, 5, -1>>, <<0, 42, 0>>, <<0, 43, 0>>, <<1, 43, 0>>, <<1, 44, 0>>, <<0, 73, 0>>, <<1, 74, 0>>,
              <<0, 74, 0>>, <<0, 999, 0>>}
MCScaled  == {<<0, 234, -10>>, <<1, 999, -10>>, <<0, 3, -11>>, <<1, 1, -13>>, <<1, 12, 3>>, <<0, 438, 9>>,
               <<0, 7, 12>>}
MCNumbers == {Finite(t[1], t[2], t[3]) : t \in MCSmall \cup MCScaled}
             \cup {Infinity(0), Infinity(1), NaN}
MCPlaces  == {0, 1, 2, 3, 7}
MCWholes  == {-1, 0, 2, 3}
MCDeltas  == {Finite(0, 5, -1), NaN}
MCScientific == {Text(0, "finite", <<1>>, <<2, 3, 4>>, 2), Text(1, "finite", <<1>>, <<2, 3, 4>>, -2),
                 Text(1, "finite", <<1>>, <<2>>, 10)}
MCBegun   == {Object(Zero), [Object(Zero) EXCEPT !.status = {"Invalid_operation"}]}

MCInit == Init \/ ObjectInit
MCNext == Next \/ ObjectNext
MCSpec == MCInit /\ [][MCNext]_vars
=============================================================================
