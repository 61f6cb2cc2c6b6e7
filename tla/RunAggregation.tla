--------------------------- MODULE RunAggregation ---------------------------
(***************************************************************************)
(* The summaries over the rows of a run (experiments/aggregation.py,       *)
(* scoring/detector_scoring.py, contextual_matrix.py).                     *)
(*                                                                         *)
(* A row is one scored execution: its case, treatment, protocol, provider  *)
(* metrics and score.  Rows keep the number they have in the run, so some  *)
(* of them are a function from numbers, and those of one treatment a       *)
(* restriction of it.  A rate is a numerator and a denominator.  Means of  *)
(* measured times and sizes are left out, except over how many rows a mean *)
(* of the provider's numbers is taken.                                     *)
(***************************************************************************)
EXTENDS UtilityScoring, Functions

Size(rows) == Cardinality(DOMAIN rows)

(* How many entries of the rows' lists Of(row) satisfy Test.               *)
Entries(rows, Of(_), Test(_)) ==
    Cardinality({p \in UNION {{k} \X DOMAIN Of(rows[k]) : k \in DOMAIN rows} :
                   Test(Of(rows[p[1]])[p[2]])})

(* The sum of a number over the rows.                                      *)
SumOver(rows, Number(_)) ==
    Cardinality(UNION {{k} \X (1..Number(rows[k])) : k \in DOMAIN rows})

AggregateDetectorScores(rows) ==
    LET TP(r) == r.score.detector.true_positive
        FP(r) == r.score.detector.false_positive
        FN(r) == r.score.detector.false_negative
    IN  [case_count |-> Size(rows),
         micro_precision |-> SafeRate(SumOver(rows, TP), SumOver(rows, TP) + SumOver(rows, FP)),
         micro_recall |-> SafeRate(SumOver(rows, TP), SumOver(rows, TP) + SumOver(rows, FN))]

SummarizeTreatment(rows) ==
    LET Conformance(r) == r.score.conformance
        Reconstruction(r) == r.score.reconstruction
        IsConformant(e) == e = "conformant"
        IsNonconformant(e) == e = "nonconformant"
        IsCorrect(e) == e = "correct"
        IsApplicable(e) == e # "not_applicable"
        Unneeded(r) == r.score.unnecessary.total
        Unneeded2(r) == r.score.unnecessary.transmitted
        Overall(r) == r.score.utility.overall
        Blocked(r) == r.score.outcomes.blocked
        Restricted(r) == r.score.outcomes.policy_restricted
        Impossible(r) == r.score.outcomes.impossible
        PolicyBlock(r) == r.score.outcomes.policy_block
        Failed(r) == r.score.outcomes.provider_failure
        Ordinary(r) == r.score.ordinaryFailure
        Measured(r) == r.metrics # Absent
        IsScored(r) == Overall(r) # "not_applicable"
        IsAnswerable(r) == Overall(r) = "answerable"
        conformant == Entries(rows, Conformance, IsConformant)
        scored == conformant + Entries(rows, Conformance, IsNonconformant)
    IN  [case_count |-> Size(rows),
         blocked_count |-> Count(rows, Blocked),
         conformant_rate |-> SafeRate(conformant, scored),
         unnecessary_disclosure_rate |->
             SafeRate(SumOver(rows, Unneeded2), SumOver(rows, Unneeded)),
         utility_answerable_count |-> Count(rows, IsAnswerable),
         utility_scored_count |-> Count(rows, IsScored),
         utility_answerable_rate |-> SafeRate(Count(rows, IsAnswerable), Count(rows, IsScored)),
         reconstruction_correct_count |-> Entries(rows, Reconstruction, IsCorrect),
         reconstruction_scored_count |-> Entries(rows, Reconstruction, IsApplicable),
         provider_mean_over |-> Count(rows, Measured),
         policy_restricted_count |-> Count(rows, Restricted),
         impossible_under_policy_count |-> Count(rows, Impossible),
         policy_block_count |-> Count(rows, PolicyBlock),
         ordinary_utility_failure_count |-> Count(rows, Ordinary),
         provider_failure_count |-> Count(rows, Failed),
         detector |-> AggregateDetectorScores(rows)]

-----------------------------------------------------------------------------
(* Two treatments side by side, over the cases both of them have.          *)

CaseIds(rows) == {rows[k].case : k \in DOMAIN rows}

(* The rows whose case the others have too.                                *)
Matched(rows, others) ==
    Restrict(rows, {k \in DOMAIN rows : rows[k].case \in CaseIds(others)})

(* The row of the case; the last one where there are several.              *)
Partner(row, others) ==
    others[CHOOSE k \in DOMAIN others :
             /\ others[k].case = row.case
             /\ \A j \in DOMAIN others : others[j].case = row.case => j <= k]

SummarizePairwise(from, to) ==
    LET left == Matched(from, to)
        right == [k \in DOMAIN left |-> Partner(left[k], to)]
        rates(rows) ==
          IF DOMAIN rows = {} THEN Absent
          ELSE LET s == SummarizeTreatment(rows)
               IN  [conformant_rate |-> s.conformant_rate,
                    unnecessary_disclosure_rate |-> s.unnecessary_disclosure_rate,
                    utility_answerable_rate |-> s.utility_answerable_rate]
    IN  [case_count |-> Size(left), from |-> rates(left), to |-> rates(right)]

UtilityRank == [not_answerable |-> 0, indeterminate |-> 1, not_applicable |-> 2, answerable |-> 3]

(* Absent where a span was blocked or has no transformation.               *)
ExposureRankSum(row) ==
    LET exposure == row.score.exposure
        Level(i) == ExposureRank[exposure[i]]
    IN  IF \E i \in DOMAIN exposure : exposure[i] \notin DisclosureLevels THEN Absent
        ELSE Cardinality(UNION {{i} \X (1..Level(i)) : i \in DOMAIN exposure})

(* "less" where B4 has the smaller number of the two.                      *)
Direction(b3, b4) == IF b4 < b3 THEN "less" ELSE IF b4 > b3 THEN "more" ELSE "same"

CompareB3ToB4(b3, b4) ==
    LET exposures == {ExposureRankSum(b3), ExposureRankSum(b4)}
        utilities == {b3.score.utility.overall, b4.score.utility.overall}
    IN  [case |-> b3.case,
         same_action_profile |-> b3.score.actions = b4.score.actions,
         policy_restricted |-> b4.score.outcomes.policy_restricted,
         impossible_under_policy |-> b4.score.outcomes.impossible,
         hard_block_by_b4_not_b3 |->
             b4.score.outcomes.policy_block /\ ~b3.score.outcomes.blocked,
         exposure_direction |->
             IF Absent \in exposures THEN "incomparable"
             ELSE Direction(ExposureRankSum(b3), ExposureRankSum(b4)),
         utility_direction |->
             IF "not_applicable" \in utilities THEN "incomparable"
             ELSE Direction(UtilityRank[b3.score.utility.overall],
                            UtilityRank[b4.score.utility.overall])]

SummarizeB3ToB4(b3rows, b4rows) ==
    LET left == Matched(b3rows, b4rows)
        cases == [k \in DOMAIN left |-> CompareB3ToB4(left[k], Partner(left[k], b4rows))]
        IsHardBlock(c) == c.hard_block_by_b4_not_b3
        IsSame(c) == c.same_action_profile
    IN  [cases |-> cases,
         same_action_profile_count |-> Count(cases, IsSame),
         hard_block_count |-> Count(cases, IsHardBlock)]

-----------------------------------------------------------------------------
(* Whether varying one dimension of the context changes what B4 decides of *)
(* a category; a and b map the decided categories to decisions.            *)
EvaluateContextualComparison(category, a, b) ==
    LET decision(d) == IF category \in DOMAIN d THEN d[category]
                       ELSE [action |-> Absent, allowed |-> <<>>]
    IN  [action_a |-> decision(a).action, action_b |-> decision(b).action,
         permission_changed |-> decision(a) # decision(b)]
=============================================================================
