----------------------------- MODULE CaseScoring -----------------------------
(***************************************************************************)
(* How the experiment runner scores one execution of a case against the    *)
(* case's oracle (experiments/scoring/), all but the utility, which        *)
(* UtilityScoring adds.                                                    *)
(*                                                                         *)
(* A result is what a treatment answered: its status, and the              *)
(* transformations in the order of the text.  A transformation has the     *)
(* category, the value that was read, the action and the representation    *)
(* sent in its place.  Byte lengths are left out.                          *)
(***************************************************************************)
EXTENDS Generalization, Sequences, FiniteSets

Count(s, Test(_)) == Cardinality({i \in DOMAIN s : Test(s[i])})

-----------------------------------------------------------------------------
(* Which transformation an annotated span is scored by: the one of its     *)
(* category that stands at the span's own rank among the annotated spans   *)
(* of the category.                                                        *)

Rank(spans, i) ==
    Cardinality({j \in DOMAIN spans :
        /\ spans[j].category = spans[i].category
        /\ \/ spans[j].start < spans[i].start
           \/ spans[j].start = spans[i].start /\ j < i})

(* The one of the category that follows so many others of it, if any.      *)
InPool(result, category, rank) ==
    LET pool == {j \in DOMAIN result.transformations :
                   result.transformations[j].category = category}
        at == {j \in pool : Cardinality({h \in pool : h < j}) = rank}
    IN  IF at = {} THEN Absent ELSE result.transformations[CHOOSE j \in at : TRUE]

ResolveSpanTransformations(oracle, result, treatment) ==
    [i \in DOMAIN oracle.spans |->
       IF result.status = "blocked" \/ treatment = "b0" THEN Absent
       ELSE InPool(result, oracle.spans[i].category, Rank(oracle.spans, i))]

(* The action each span is taken to have met.                              *)
ResolveSpanRecords(oracle, result, treatment) ==
    LET matched == ResolveSpanTransformations(oracle, result, treatment)
    IN  [i \in DOMAIN oracle.spans |->
           IF result.status = "blocked" THEN "block_request"
           ELSE IF treatment = "b0" THEN "preserve"
           ELSE IF matched[i] = Absent THEN Absent ELSE matched[i].action]

-----------------------------------------------------------------------------
ScoreConformance(oracle, result, treatment) ==
    LET actions == ResolveSpanRecords(oracle, result, treatment)
    IN  [i \in DOMAIN oracle.spans |->
           IF actions[i] = Absent THEN "unscorable"
           ELSE IF actions[i] \in oracle.spans[i].actions THEN "conformant"
           ELSE "nonconformant"]

(* The rank of the level a span was exposed at, or why it has none.        *)
ScoreExposure(oracle, result, treatment) ==
    LET actions == ResolveSpanRecords(oracle, result, treatment)
    IN  [i \in DOMAIN oracle.spans |->
           IF actions[i] = Absent THEN "unscorable"
           ELSE IF actions[i] = "block_request" THEN "block_request"
           ELSE actions[i]]

(* Of the spans the task does not need, how many left in any form.         *)
ScoreUnnecessaryDisclosure(oracle, result, treatment) ==
    LET exposure == ScoreExposure(oracle, result, treatment)
        unneeded == {i \in DOMAIN oracle.spans : ~oracle.spans[i].required}
    IN  [total |-> Cardinality(unneeded),
         transmitted |-> Cardinality({i \in unneeded :
                             exposure[i] \in DisclosureLevels \ {"remove"}})]

(* Whether what was pseudonymized comes back: shown is the set of values   *)
(* the reconstructed payload contains, Absent if none was reconstructed.   *)
ScoreReconstruction(oracle, result, shown) ==
    [i \in DOMAIN oracle.reconstruction |->
       LET expectation == oracle.reconstruction[i]
           hidden == {t.original : t \in {u \in {result.transformations[j] :
                                               j \in DOMAIN result.transformations} :
                         u.category = expectation.category /\ u.action = "pseudonymize"}}
       IN  IF shown = Absent THEN "not_applicable"
           ELSE IF hidden = {} THEN "not_applicable"
           ELSE IF (hidden \subseteq shown) = expectation.reconstructable
                THEN "correct" ELSE "incorrect"]

-----------------------------------------------------------------------------
(* The detector against the annotation: equal category, start and end, one *)
(* detection to one annotated span.                                        *)

SameSpan(a, b) == a.category = b.category /\ a.start = b.start /\ a.end = b.end

Unmatched(spans, others) ==
    Cardinality({i \in DOMAIN spans :
        Cardinality({j \in 1..i : SameSpan(spans[j], spans[i])})
          > Cardinality({j \in DOMAIN others : SameSpan(others[j], spans[i])})})

ScoreDetectorCase(expected, detected) ==
    [true_positive  |-> Len(expected) - Unmatched(expected, detected),
     false_negative |-> Unmatched(expected, detected),
     false_positive |-> Unmatched(detected, expected)]

(* A rate as numerator and denominator; none where that is zero.           *)
SafeRate(numerator, denominator) ==
    IF denominator = 0 THEN Absent ELSE <<numerator, denominator>>

-----------------------------------------------------------------------------
(* The outcome classes that are kept apart.  metadata is what B4's span    *)
(* recorded, Absent for the other treatments.                              *)

ClassifyCaseOutcomes(result, metadata, audit) ==
    [blocked           |-> result.status = "blocked",
     policy_block      |-> metadata # Absent /\ metadata.policyBlock,
     policy_restricted |-> metadata # Absent /\ metadata.restricted # {},
     impossible        |-> metadata # Absent /\ metadata.impossible # {},
     provider_called   |-> audit.called,
     provider_failure  |-> audit.failed]

(* A shortfall that no other outcome class explains.                       *)
ClassifyOrdinaryUtilityFailure(overall, outcomes) ==
    /\ overall \in {"not_answerable", "indeterminate"}
    /\ ~outcomes.blocked
    /\ ~outcomes.impossible
=============================================================================
