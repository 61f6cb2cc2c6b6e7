------------------------------- MODULE Corpus -------------------------------
(***************************************************************************)
(* Which files are a corpus (corpus/models.py, oracle.py, loader.py), and  *)
(* which request a case becomes (corpus/case_input.py,                     *)
(* experiments/corpus_source.py).                                          *)
(*                                                                         *)
(* A file is a record: its stem, whether it reads as a mapping of exactly  *)
(* an input and an oracle, and these two.  A directory is the sequence of  *)
(* its files by name.  Types and patterns of single fields are taken as    *)
(* checked; the rules between fields are here.                             *)
(***************************************************************************)
EXTENDS UtilityScoring

FrozenCategoriesByDomain ==
    [hr |-> {"employee_name", "cpf", "salary", "department", "medical_data"},
     contracts |-> {"party_name", "representative_name", "cnpj", "cpf", "bank_account",
                    "contract_value", "penalty_amount", "deadline"}]
TaskFamiliesByDomain ==
    [hr |-> {"authorized_salary_analysis", "team_summary_without_salary",
             "department_aggregation_without_identity", "medical_or_prohibited_block"},
     contracts |-> {"contract_summary_without_identity", "contract_value_audit",
                    "penalty_compliance_review", "deadline_tracking", "payment_details_block",
                    "obligation_relation_preservation"}]

NoRepeats(s) == \A i, j \in DOMAIN s : s[i] = s[j] => i = j
Elements(s) == IF s = Absent THEN {} ELSE {s[i] : i \in DOMAIN s}

ExpectedSpanIsValid(span) == span.start >= 0 /\ span.end > span.start /\ span.actions # {}

ReferenceIsValid(reference) == reference.category \in BandCategories

ObligationIsValid(relation) ==
    relation.obligor # relation.obligee /\ relation.depends # {}

(* CaseOracle's own two validators.                                        *)
CheckUtilityReferences(oracle) ==
    IF oracle.block THEN oracle.references \in {Absent, <<>>}
    ELSE \/ oracle.references = Absent
         \/ /\ \A r \in Elements(oracle.references) : r.category \in DependsOn(oracle)
            /\ NoRepeats(oracle.references)

CheckBlockConsistency(oracle) ==
    IF oracle.block
    THEN /\ ~oracle.answered
         /\ oracle.reconstruction = <<>>
         /\ oracle.depends = Absent
         /\ oracle.relations = {}
         /\ \E s \in Elements(oracle.spans) : "block_request" \in s.actions
    ELSE oracle.answered /\ oracle.depends # Absent

OracleIsValid(oracle) ==
    /\ oracle.spans # <<>>
    /\ \A s \in Elements(oracle.spans) : ExpectedSpanIsValid(s)
    /\ \A r \in Elements(oracle.references) : ReferenceIsValid(r)
    /\ \A o \in oracle.relations : ObligationIsValid(o)
    /\ CheckUtilityReferences(oracle)
    /\ CheckBlockConsistency(oracle)

(* Every category an oracle names belongs to the case's own domain.        *)
CheckDomainConsistency(input, oracle) ==
    LET annotated == {s.category : s \in Elements(oracle.spans)}
                     \cup {r.category : r \in Elements(oracle.reconstruction)}
                     \cup DependsOn(oracle)
                     \cup UNION {o.depends : o \in oracle.relations}
                     \cup {r.category : r \in Elements(oracle.references)}
    IN  /\ input.domain \in DOMAIN FrozenCategoriesByDomain
        /\ input.family \in TaskFamiliesByDomain[input.domain]
        /\ annotated \subseteq FrozenCategoriesByDomain[input.domain]

LoadsAsCase(file) ==
    /\ file.readable
    /\ OracleIsValid(file.oracle)
    /\ file.input.id = file.oracle.id
    /\ CheckDomainConsistency(file.input, file.oracle)
    /\ file.stem = file.input.id

(* All of the files, or Absent for the error of the first that fails.      *)
LoadCorpus(files) ==
    IF /\ \A i \in DOMAIN files : LoadsAsCase(files[i])
       /\ NoRepeats([i \in DOMAIN files |-> files[i].input.id])
    THEN [i \in DOMAIN files |-> [input |-> files[i].input, oracle |-> files[i].oracle]]
    ELSE Absent

-----------------------------------------------------------------------------
(* The request's context: the input's own, a session of the harness where  *)
(* the case names none, and then the overrides of a comparison.            *)

ToDisclosureRequest(input) == input.context

DefaultHarnessSessionId == "t10-experiment-runner-session"

BuildRequest(input, overrides) ==
    LET context == ToDisclosureRequest(input)
        session == [context EXCEPT !.session =
                       IF @ = Absent THEN DefaultHarnessSessionId ELSE @]
    IN  [f \in DOMAIN context |-> IF f \in DOMAIN overrides THEN overrides[f] ELSE session[f]]
=============================================================================
