------------------------------- MODULE Fixed --------------------------------
(***************************************************************************)
(* Fixed-point numbers and units (src/internal/domain/types.go, units.go): *)
(* a decimal text becomes a machine integer that counts thousandths, every *)
(* record on disk spells it as text again, and measurements are brought to *)
(* a standard unit.  The integers wrap around; their width, the base and   *)
(* the number of decimals are parameters (2^63, 10 and 3 in the program).  *)
(*                                                                         *)
(* A text is what is left after trimming: one '-' taken off the front, and *)
(* the parts between the dots, each a sign and digits.  Any other          *)
(* character makes a part unparsable like one without digits.              *)
(***************************************************************************)
EXTENDS Integers, Sequences, SequencesExt

CONSTANTS
    Half,           \* the machine integers are -Half .. Half - 1
    Base, Decimals, \* digits, and how many of them follow the dot
    Kilo,           \* what the prefix k stands for
    Rejected        \* the error result

\* The number that digits spell, and the powers of the base: what a one and n
\* zeros spell.
Digit == 0..(Base - 1)
Number(digits) == FoldLeft(LAMBDA n, d : n * Base + d, 0, digits)
Zeros(n) == [i \in 1..n |-> 0]
Power(n) == Number(<<1>> \o Zeros(n))

Scale == Power(Decimals)
Smallest == -Half
Machine == Smallest..(Half - 1)

\* The machine has the number 1.000, and the fraction of the smallest integer
\* fills all decimals (808 of 2^63).
ASSUME WidthAssumption ==
    /\ Half \in Nat \ {0} /\ Base \in Nat \ {0, 1} /\ Decimals \in Nat \ {0}
    /\ Kilo \in Nat \ {0} /\ Rejected \notin Int
    /\ Scale <= Half /\ (Half % Scale) >= Power(Decimals - 1)

Wrap(n) == ((n + Half) % (2 * Half)) - Half

NoSign == ""
Part(sign, digits) == [sign |-> sign, digits |-> digits]
PartLen(part) == Len(part.digits) + (IF part.sign = NoSign THEN 0 ELSE 1)

Signed(part) == IF part.sign = "-" THEN -Number(part.digits) ELSE Number(part.digits)
\* strconv.ParseInt takes a sign of its own.
ParseInt(part) ==
    IF part.digits # << >> /\ Signed(part) \in Machine THEN Signed(part) ELSE Rejected

\* Mutant: the fraction is filled up on its left.
Filled_Left(part) ==
    [part EXCEPT !.digits = Zeros(Decimals - PartLen(part)) \o @]
Filled(part) ==
    [part EXCEPT !.digits = @ \o Zeros(Decimals - PartLen(part))]

ParseFixed(text) ==
    LET fraction == IF Len(text.parts) = 2 THEN text.parts[2] ELSE Part(NoSign, << >>)
        whole == ParseInt(text.parts[1])
        fv == ParseInt(Filled(fraction))
        v == Wrap(Wrap(whole * Scale) + fv)
    IN  IF Len(text.parts) > 2 \/ whole = Rejected \/ PartLen(fraction) > Decimals
               \/ fv = Rejected
        THEN Rejected
        ELSE IF text.minus THEN Wrap(-v) ELSE v

\* The digits of a natural number, at least k of them (the verbs %d and %0kd).
NumDigits(n, k) ==
    CHOOSE l \in k..Half : n < Power(l) /\ (l = k \/ n >= Power(l - 1))
DigitsOf(n, k) ==
    LET l == NumDigits(n, k) IN [i \in 1..l |-> (n \div Power(l - i)) % Base]
\* Zeros fill the width that a minus sign leaves.
Verb(n, k) ==
    IF n < 0 THEN Part("-", DigitsOf(-n, IF k > 1 THEN k - 1 ELSE k))
    ELSE Part(NoSign, DigitsOf(n, k))

\* Quotient and remainder truncate towards zero.
Quotient(n, d) == IF n < 0 THEN -((-n) \div d) ELSE n \div d
Remainder(n, d) == n - d * Quotient(n, d)

\* Mutant: the fraction is not filled up with zeros.
FractionOf_Short(v) == Verb(Remainder(v, Scale), 1)
FractionOf(v) == Verb(Remainder(v, Scale), Decimals)

\* Fixed.String, the form every value takes in the journal and the snapshot.
\* The smallest integer is its own negation.
String(f) ==
    LET v == IF f < 0 THEN Wrap(-f) ELSE f
    IN  [minus |-> f < 0, parts |-> <<Verb(Quotient(v, Scale), 1), FractionOf(v)>>]

-----------------------------------------------------------------------------
(* NormalizeMeasurement: a value in the standard unit of its test.         *)

Standard ==
    [TENSILE |-> "MPa", YIELD |-> "MPa", IMPACT |-> "J", BEND |-> "pass", NDT |-> "pass",
     HARDNESS |-> "HV"]

\* Mutant: what does not divide is rounded off.
DivideExact_Truncating(value, divisor) == Quotient(value, divisor)
DivideExact(value, divisor) ==
    IF Remainder(value, divisor) = 0 THEN Quotient(value, divisor) ELSE Rejected

\* The value of an accepted measurement in the standard unit of its test; tests
\* of another type keep the unit they come with.
NormalizeMeasurement(type, value, unit) ==
    CASE type \notin DOMAIN Standard -> value
      [] type \in DOMAIN Standard /\ unit = Standard[type] -> value
      [] type \in {"TENSILE", "YIELD"} /\ unit = "kPa" -> DivideExact(value, Kilo)
      [] type \in {"TENSILE", "YIELD"} /\ unit = "Pa" -> DivideExact(value, Kilo * Kilo)
      [] type = "IMPACT" /\ unit = "kJ" -> Wrap(value * Kilo)
      [] OTHER -> Rejected
=============================================================================
