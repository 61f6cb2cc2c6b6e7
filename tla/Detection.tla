----------------------------- MODULE Detection -----------------------------
(***************************************************************************)
(* How the detector turns what its rules found into the spans it returns   *)
(* (detection/detector.py, overlap.py), and the fixed actions of B1        *)
(* (transformations/static_sanitization.py).                               *)
(*                                                                         *)
(* A span is a record with a category, a start, an end and the value that  *)
(* stands there.  The rules themselves, regular expressions over text, are *)
(* left out: a text is the set of spans its rules may find in it.          *)
(***************************************************************************)
EXTENDS PolicyEngine, Integers, Sequences, FiniteSets

CategoryPrecedence ==
    <<"medical_data", "cnpj", "cpf", "employee_name", "email", "phone", "salary", "department">>
Unranked ==    \* the other categories, by name
    <<"bank_account", "contract_value", "deadline", "party_name", "penalty_amount",
      "representative_name">>

PrecedenceRank(category) ==
    IF \E i \in DOMAIN CategoryPrecedence : CategoryPrecedence[i] = category
    THEN CHOOSE i \in DOMAIN CategoryPrecedence : CategoryPrecedence[i] = category
    ELSE Len(CategoryPrecedence) + 1

NameRank(category) ==
    CHOOSE i \in 0..Len(Unranked) :
      IF i = 0 THEN \A j \in DOMAIN Unranked : Unranked[j] # category ELSE Unranked[i] = category

(* The longer span first, then by precedence, start and name.              *)
Outranks(a, b) ==
    LET length(s) == s.end - s.start
    IN  \/ length(a) > length(b)
        \/ /\ length(a) = length(b)
           /\ \/ PrecedenceRank(a.category) < PrecedenceRank(b.category)
              \/ /\ PrecedenceRank(a.category) = PrecedenceRank(b.category)
                 /\ \/ a.start < b.start
                    \/ a.start = b.start /\ NameRank(a.category) < NameRank(b.category)

Overlaps(a, b) == a.start < b.end /\ b.start < a.end

InTextOrder(spans) ==
    \A i, j \in DOMAIN spans : i < j => spans[i].start < spans[j].start

(* The list of the candidates that are kept, as the one member of a set:   *)
(* each candidate in turn, the first in rank first, is kept unless it      *)
(* overlaps one that was kept before it.                                   *)
ResolveOverlaps(candidates) ==
    {spans \in UNION {[1..n -> candidates] : n \in 0..Cardinality(candidates)} :
       /\ InTextOrder(spans)
       /\ \A span \in candidates :
            (\E i \in DOMAIN spans : spans[i] = span)
              <=> \A i \in DOMAIN spans :
                    Outranks(spans[i], span) => ~Overlaps(spans[i], span)}

(* What B1 does with a category: it has no vault, so it removes what B2    *)
(* pseudonymizes.                                                          *)
B1Action(category) ==
    IF category \notin Known THEN "block_request"
    ELSE IF category \in Identifying THEN "remove"
    ELSE IF category \in Graded THEN "generalize"
    ELSE IF category = "department" THEN "preserve" ELSE "block_request"
=============================================================================
