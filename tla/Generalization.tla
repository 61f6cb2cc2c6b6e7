--------------------------- MODULE Generalization ---------------------------
(***************************************************************************)
(* What a detected value is coarsened to (transformations/                 *)
(* generalization.py).  A value is a record whose kind says what its text  *)
(* can be read as: an amount, a date, a text that is neither, or one of    *)
(* the representations a treatment puts in its place.                      *)
(*                                                                         *)
(* An amount is counted in points, Point of them to the currency unit      *)
(* (100 in the code: the grammar has exactly two cents digits).  Its       *)
(* family is the spelling: "dotted" (R$ 8500.00), "dotted_nbsp" (the same  *)
(* after a no-break space), "brazil" (R$ 8.500,00) and "lenient", which    *)
(* this grammar refuses and the older scoring grammar does not (a leading  *)
(* zero, a trailing newline, a digit that is not ASCII).                   *)
(***************************************************************************)
EXTENDS PolicyEngine, Integers

CONSTANTS Point,     \* points in one unit of currency
          BandWidth, \* the width of a category's band, in units
          MinBandWidth  \* MIN_NUMERIC_BAND_WIDTH

BandCategories == {"salary", "contract_value", "penalty_amount"}

(* NumericBandStrategy.__post_init__ refuses a narrower or fractional      *)
(* band when the module is imported.                                       *)
ASSUME BandAssumption ==
    /\ Point \in Nat \ {0}
    /\ MinBandWidth \in Nat \ {0}
    /\ BandWidth \in [BandCategories -> Nat \ {0}]
    /\ \A c \in BandCategories : BandWidth[c] >= MinBandWidth
    /\ Absent \notin Int

Families == {"dotted", "dotted_nbsp", "brazil", "lenient"}
DateForms == {"iso", "unpadded"}     \* 2024-03-05, 2024-3-5

Amount(family, points) == [kind |-> "amount", family |-> family, points |-> points]
Date(form, y, m, d) == [kind |-> "date", form |-> form, year |-> y, month |-> m, day |-> d]
Text(name) == [kind |-> "text", name |-> name]
Band(lower, upper) == [kind |-> "band", lower |-> lower, upper |-> upper]
Month(y, m) == [kind |-> "month", year |-> y, month |-> m]
Pseudonym(value) == [kind |-> "pseudonym", of |-> value]
Nothing == [kind |-> "nothing"]      \* no representation at all

ParseAmount(value) ==
    IF value.kind = "amount" /\ value.family \in {"dotted", "dotted_nbsp", "brazil"}
    THEN value.points ELSE Absent

(* The half-open band of the category's width the amount falls in.         *)
NumericBand(category, points) ==
    LET width == BandWidth[category]
        lower == ((points \div Point) \div width) * width
    IN  Band(lower, lower + width)

(* strptime reads a month or day without its leading zero.                 *)
MonthYear(value) ==
    IF value.kind = "date" THEN Month(value.year, value.month) ELSE Absent

(* Absent where generalize raises GeneralizationError.                     *)
Generalize(category, value) ==
    LET result == IF category \notin Configured THEN Absent
                  ELSE IF category \notin BandCategories THEN MonthYear(value)
                  ELSE IF ParseAmount(value) = Absent THEN Absent
                  ELSE NumericBand(category, ParseAmount(value))
    IN  IF result = value THEN Absent ELSE result
=============================================================================
