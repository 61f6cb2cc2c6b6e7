--------------------------- MODULE UtilityScoring ---------------------------
(***************************************************************************)
(* Whether the task could still be answered from what was sent, under the  *)
(* scoring protocols v3, v4 and v5 (experiments/scoring/utility.py), and   *)
(* which corpus a protocol can score at all.                               *)
(*                                                                         *)
(* The parsers read amounts and dates as Generalization describes them.    *)
(* The reason an outcome is reported with is left out.                     *)
(***************************************************************************)
EXTENDS CaseScoring

FrozenProtocolIds == {"v1", "v2", "v3", "v4", "v5"}
ScorableProtocolIds == {"v3", "v4", "v5"}
CurrentProtocolId == "v5"

ValidateProtocolId(p) == p \in FrozenProtocolIds
ValidateScorableProtocolId(p) == ValidateProtocolId(p) /\ p \in ScorableProtocolIds

(* The worst of several outcomes; there is no question where there is none.*)
Worst(outcomes) ==
    IF outcomes = {} THEN "not_applicable"
    ELSE IF "not_answerable" \in outcomes THEN "not_answerable"
    ELSE IF "indeterminate" \in outcomes THEN "indeterminate" ELSE "answerable"

-----------------------------------------------------------------------------
(* Amounts.                                                                *)

ParseStrictOriginalAmount(original) ==
    IF original.kind = "amount" /\ original.family \in {"dotted", "lenient"}
    THEN original.points ELSE Absent

ParseOriginalAmountV5(original) ==
    IF original.kind = "amount" /\ original.family \in {"dotted", "dotted_nbsp", "brazil"}
    THEN original.points ELSE Absent

ParseBand(sent) ==
    IF sent.kind = "band" /\ sent.lower >= 0 /\ sent.lower < sent.upper THEN sent ELSE Absent

InBand(points, band) == band.lower * Point <= points /\ points < band.upper * Point

(* The band, if it is one and contains the original; Absent otherwise.     *)
CheckBandFidelity(points, sent) ==
    LET band == ParseBand(sent)
    IN  IF points = Absent \/ band = Absent THEN Absent
        ELSE IF InBand(points, band) THEN band ELSE Absent

CheckBandFidelityV5(original, sent) ==
    CheckBandFidelity(ParseOriginalAmountV5(original), sent)

\* Takes a reference at the lower end as decided for every operator.
ReferenceIsDecidableMutant1(operator, points, band) ==
    points <= band.lower * Point \/ points >= band.upper * Point

(* Whether the band leaves one answer to: is x <operator> points?          *)
ReferenceIsDecidable(operator, points, band) ==
    \/ points >= band.upper * Point
    \/ operator \in {"gt", "le"} /\ points < band.lower * Point
    \/ operator \in {"ge", "lt"} /\ points <= band.lower * Point

ClassifyStructuredSufficiency(band, references) ==
    IF references = {} THEN "indeterminate"
    ELSE IF \A r \in references : ReferenceIsDecidable(r.operator, r.points, band)
    THEN "answerable" ELSE "indeterminate"

(* v3 takes for references the figures of the text outside every           *)
(* annotated span, and knows no operator.                                  *)
LegacyV3ReferenceValues(input, spans) ==
    {figure.points : figure \in
        {f \in input.figures : \A i \in DOMAIN spans :
            ~(spans[i].start <= f.start /\ f.end <= spans[i].end)}}

ClassifyGeneralizedBand(original, sent, figures) ==
    LET band == CheckBandFidelity(ParseStrictOriginalAmount(original), sent)
    IN  IF band = Absent THEN "not_answerable"
        ELSE IF figures = {} THEN "indeterminate"
        ELSE IF \A points \in figures :
                  points < band.lower * Point \/ points >= band.upper * Point
        THEN "answerable" ELSE "indeterminate"

ClassifyAgainstReferences(original, sent, references) ==
    LET band == CheckBandFidelity(ParseStrictOriginalAmount(original), sent)
    IN  IF band = Absent THEN "not_answerable"
        ELSE ClassifyStructuredSufficiency(band, references)

ClassifyAgainstReferencesV5(original, sent, references) ==
    LET band == CheckBandFidelityV5(original, sent)
    IN  IF band = Absent THEN "not_answerable"
        ELSE ClassifyStructuredSufficiency(band, references)

-----------------------------------------------------------------------------
(* Dates.  A deadline is needed to the day, which no generalization keeps. *)

DateUtilityRequiredGranularity == [deadline |-> "day"]
GranularityOrder == [day |-> 0, month |-> 1, year |-> 2]

\* Only the padded form, unlike the treatment's own parser.
ParseOriginalDate(original) ==
    IF original.kind = "date" /\ original.form = "iso" THEN original ELSE Absent

ParseTransformedDate(sent) ==
    IF sent.kind = "date" /\ sent.form = "iso" THEN "day"
    ELSE IF sent.kind = "month" /\ sent.month \in 1..12 THEN "month"
    ELSE IF sent.kind = "year" THEN "year" ELSE Absent

ClassifyGeneralizedDate(original, sent, required) ==
    LET date == ParseOriginalDate(original)
        granularity == ParseTransformedDate(sent)
        agrees == /\ sent.year = date.year
                  /\ granularity \in {"month", "day"} => sent.month = date.month
                  /\ granularity = "day" => sent.day = date.day
    IN  IF date = Absent \/ granularity = Absent THEN "not_answerable"
        ELSE IF /\ agrees
                /\ granularity # "day"
                /\ GranularityOrder[granularity] <= GranularityOrder[required]
        THEN "answerable" ELSE "not_answerable"

-----------------------------------------------------------------------------
(* Which case a protocol can score.                                        *)

DependsOn(oracle) == IF oracle.depends = Absent THEN {} ELSE oracle.depends

CheckCaseProtocolCompatibility(oracle, p) ==
    \/ oracle.block
    \/ p \in {"v4", "v5"} /\ (oracle.references # Absent
                              \/ DependsOn(oracle) \cap BandCategories = {})
    \/ p = "v3" /\ oracle.references = Absent

(* v5 wants every annotated amount readable, those of blocked cases too.   *)
CheckV5OriginalAmountFormats(cases) ==
    \A k \in DOMAIN cases : \A i \in DOMAIN cases[k].oracle.spans :
      LET span == cases[k].oracle.spans[i]
      IN  span.category \in BandCategories => ParseOriginalAmountV5(span.value) # Absent

\* Looks at the first case only.
CheckCorpusProtocolCompatibilityMutant1(cases, p) ==
    /\ ValidateScorableProtocolId(p)
    /\ cases # <<>> => CheckCaseProtocolCompatibility(cases[1].oracle, p)
    /\ p = "v5" => CheckV5OriginalAmountFormats(cases)

CheckCorpusProtocolCompatibility(cases, p) ==
    /\ ValidateScorableProtocolId(p)
    /\ \A k \in DOMAIN cases : CheckCaseProtocolCompatibility(cases[k].oracle, p)
    /\ p = "v5" => CheckV5OriginalAmountFormats(cases)

-----------------------------------------------------------------------------
(* The utility of one execution.                                           *)

ReferencesOf(oracle, category) ==
    IF oracle.references = Absent THEN {}
    ELSE {r \in {oracle.references[i] : i \in DOMAIN oracle.references} : r.category = category}

GeneralizedOutcome(p, input, oracle, category, original, sent) ==
    IF category \in DOMAIN DateUtilityRequiredGranularity
    THEN ClassifyGeneralizedDate(original, sent, DateUtilityRequiredGranularity[category])
    ELSE IF category \notin BandCategories THEN "not_answerable"
    ELSE IF p = "v3"
    THEN ClassifyGeneralizedBand(original, sent, LegacyV3ReferenceValues(input, oracle.spans))
    ELSE IF p = "v4"
    THEN ClassifyAgainstReferences(original, sent, ReferencesOf(oracle, category))
    ELSE ClassifyAgainstReferencesV5(original, sent, ReferencesOf(oracle, category))

Reconstructable(oracle, category) ==
    \E i \in DOMAIN oracle.reconstruction :
      oracle.reconstruction[i].category = category /\ oracle.reconstruction[i].reconstructable

(* A span is judged by its annotated value, never by what was detected.    *)
SpanOutcome(p, input, oracle, result, span, t) ==
    IF t.action = "preserve" THEN "answerable"
    ELSE IF t.action = "generalize"
    THEN GeneralizedOutcome(p, input, oracle, span.category, span.value, t.transformed)
    ELSE IF t.action = "pseudonymize" /\ Reconstructable(oracle, span.category)
              /\ result.reconstructionRequired
    THEN "answerable" ELSE "not_answerable"

CategoryOutcome(p, input, oracle, result, treatment, category) ==
    LET matched == ResolveSpanTransformations(oracle, result, treatment)
        entries == {i \in DOMAIN oracle.spans : oracle.spans[i].category = category}
    IN  IF result.status = "blocked" THEN "not_answerable"
        ELSE IF treatment = "b0" THEN "answerable"
        ELSE IF entries = {} \/ \E i \in entries : matched[i] = Absent THEN "not_answerable"
        ELSE Worst({SpanOutcome(p, input, oracle, result, oracle.spans[i], matched[i]) :
                      i \in entries})

ScoreUtility(p, input, oracle, result, treatment) ==
    LET categories == IF oracle.block THEN {} ELSE DependsOn(oracle)
        byCategory == [c \in categories |->
                         CategoryOutcome(p, input, oracle, result, treatment, c)]
    IN  [overall |-> Worst({byCategory[c] : c \in categories}), byCategory |-> byCategory]
=============================================================================
