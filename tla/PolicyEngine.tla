---------------------------- MODULE PolicyEngine ----------------------------
(***************************************************************************)
(* How the treatments B2, B3 and B4 choose what happens to a sensitive     *)
(* category, and which partition of the vault a request works in, as       *)
(* functions of the loaded policies and the request's governance context   *)
(* (policies.py, transformations/relevance_selection.py, task_aware.py,    *)
(* policy_governed.py, reversible_pseudonymization.py).                    *)
(*                                                                         *)
(* Lists whose order or multiplicity the code ignores are sets here.  A    *)
(* policy is a record, a dictionary a function on its keys.                *)
(*                                                                         *)
(* A variant named ...Mutant<n> is the definition after it with one        *)
(* plausible mistake in it, which a property must notice.                  *)
(***************************************************************************)
EXTENDS Naturals
CONSTANT Absent     \* Python's None

-----------------------------------------------------------------------------
(* Actions, from least to most disclosing.                                 *)

ExposureRank == [remove |-> 0, pseudonymize |-> 1, generalize |-> 2, preserve |-> 3]
DisclosureLevels == {"remove", "pseudonymize", "generalize", "preserve"}
DisclosureActions == DisclosureLevels \cup {"block_request", "task_dependent"}

Levels == {"not_relevant", "relevant_without_exact_value", "relevant_with_exact_value", "ambiguous"}

OrderActionSpace(actions) == actions \cap DisclosureLevels

Least(space) ==
    CHOOSE a \in space : \A b \in space : ExposureRank[a] <= ExposureRank[b]
Most(space) ==
    CHOOSE a \in space : \A b \in space : ExposureRank[b] <= ExposureRank[a]

\* Takes the wrong end of the space for a category the task does not need.
SelectActionForRelevanceMutant1(level, space) ==
    CASE level = "not_relevant" -> Most(space)
      [] level = "relevant_without_exact_value" ->
           IF space = {"remove"} THEN "remove" ELSE Least(space \ {"remove"})
      [] level = "relevant_with_exact_value" ->
           IF "preserve" \in space THEN "preserve" ELSE Most(space)

(* The least disclosing action of the space that satisfies the task.       *)
SelectActionForRelevance(level, space) ==
    CASE level = "not_relevant" -> Least(space)
      [] level = "relevant_without_exact_value" ->
           IF space = {"remove"} THEN "remove" ELSE Least(space \ {"remove"})
      [] level = "relevant_with_exact_value" ->
           IF "preserve" \in space THEN "preserve" ELSE Most(space)

(* Both treatments resolve an ambiguous task before they ask.              *)
Minimized(level, space) ==
    IF level = "ambiguous" THEN Least(space) ELSE SelectActionForRelevance(level, space)

-----------------------------------------------------------------------------
(* The policy repository.                                                  *)

Resolves(policies, c) ==
    /\ c.version \in DOMAIN policies
    /\ policies[c.version].domain = c.domain

IsReconstructionAuthorized(policies, c) == Resolves(policies, c)

Matches(override, c) ==
    /\ override.purpose \in {Absent, c.purpose}
    /\ override.role \in {Absent, c.role}
    /\ override.provider \in {Absent, c.provider}

Matching(rule, c) == {i \in DOMAIN rule.overrides : Matches(rule.overrides[i], c)}

BlockDecision == [action |-> "block_request", allowed |-> {}]

(* The rule's own action, or that of the override that matches; the        *)
(* purpose's space then replaces the space of either.                      *)
DecideByRule(rule, c) ==
    LET matching == Matching(rule, c)
        chosen == IF matching = {} THEN rule
                  ELSE rule.overrides[CHOOSE i \in matching : TRUE]
        space == IF c.purpose \in DOMAIN rule.purposeActions
                 THEN rule.purposeActions[c.purpose] ELSE chosen.allowed
    IN  IF \E i, j \in matching : i # j THEN BlockDecision
        ELSE IF chosen.action # "task_dependent"
             THEN [action |-> chosen.action, allowed |-> chosen.allowed]
        ELSE IF space = {} THEN BlockDecision
        ELSE [action |-> "task_dependent", allowed |-> space]

Decide(policies, c, category) ==
    IF Resolves(policies, c) /\ category \in DOMAIN policies[c.version].rules
    THEN DecideByRule(policies[c.version].rules[category], c)
    ELSE BlockDecision

-----------------------------------------------------------------------------
(* The treatments' own choice for one category, at a level the task        *)
(* analyzer reported for it.                                               *)

Configured == {"salary", "birth_date", "contract_value", "penalty_amount", "deadline"}

Identifying == {"employee_name", "cpf", "cnpj", "email", "phone", "party_name",
                "representative_name"}
Graded == {"salary", "contract_value", "penalty_amount", "deadline"}
Forbidden == {"medical_data", "bank_account"}
Known == Identifying \cup Graded \cup Forbidden \cup {"department"}

StaticActions ==
    [category \in Known |->
       IF category \in Identifying THEN "pseudonymize"
       ELSE IF category \in Graded THEN "generalize"
       ELSE IF category = "department" THEN "preserve" ELSE "block_request"]
B2Action(category) ==
    IF category \in DOMAIN StaticActions THEN StaticActions[category] ELSE "block_request"

TaskAwareActionSpaces ==
    [category \in Known |->
       IF category \in Identifying THEN {"remove", "pseudonymize"}
       ELSE IF category \in Graded THEN {"remove", "generalize", "preserve"}
       ELSE IF category = "department" THEN {"remove", "preserve"} ELSE {"block_request"}]
B3Action(category, level) ==
    IF category \in DOMAIN TaskAwareActionSpaces
         /\ TaskAwareActionSpaces[category] # {"block_request"}
    THEN Minimized(level, TaskAwareActionSpaces[category])
    ELSE "block_request"

\* Minimizes within all actions instead of the permitted ones.
B4ActionMutant1(policies, c, category, level) ==
    LET decision == Decide(policies, c, category)
    IN  IF decision.action # "task_dependent" THEN decision.action
        ELSE Minimized(level, DisclosureLevels)

B4Action(policies, c, category, level) ==
    LET decision == Decide(policies, c, category)
        space == OrderActionSpace(decision.allowed)
    IN  IF decision.action # "task_dependent" THEN decision.action
        ELSE IF space = {} \/ space # decision.allowed THEN "block_request"
        ELSE Minimized(level, space)

(* What B4 reports next to a choice (not to one made for an ambiguous      *)
(* task): whether the policy held it below what B3 would have disclosed,   *)
(* and whether that foreclosed the exact value the task needed.  Absent    *)
(* when B3 has nothing to compare with.                                    *)
B3Baseline(category, level) ==
    LET space == IF category \in DOMAIN TaskAwareActionSpaces
                 THEN OrderActionSpace(TaskAwareActionSpaces[category]) ELSE {}
    IN  IF space = {} THEN Absent ELSE Minimized(level, space)

\* Calls the policy restrictive where it disclosed more.
PolicyEffectMutant1(category, level, chosen) ==
    LET baseline == B3Baseline(category, level)
    IN  IF baseline = Absent THEN [restricted |-> Absent, impossible |-> Absent]
        ELSE [restricted |-> ExposureRank[chosen] > ExposureRank[baseline],
              impossible |-> level = "relevant_with_exact_value" /\ baseline = "preserve" /\ chosen # "preserve"]

PolicyEffect(category, level, chosen) ==
    LET baseline == B3Baseline(category, level)
    IN  IF baseline = Absent THEN [restricted |-> Absent, impossible |-> Absent]
        ELSE [restricted |-> ExposureRank[chosen] < ExposureRank[baseline],
              impossible |-> /\ level = "relevant_with_exact_value"
                             /\ baseline = "preserve"
                             /\ chosen # "preserve"]

-----------------------------------------------------------------------------
(* Pseudonym scopes.                                                       *)

ScopeRank == [request |-> 0, document |-> 1, session |-> 2, organization |-> 3]

Ceiling(scopePolicy, c) ==
    CASE c.user \in DOMAIN scopePolicy.userMax -> scopePolicy.userMax[c.user]
      [] c.user \notin DOMAIN scopePolicy.userMax /\ c.role \in DOMAIN scopePolicy.roleMax ->
           scopePolicy.roleMax[c.role]
      [] OTHER -> scopePolicy.default

\* Grants what is asked for.
ResolvePseudonymScopeMutant1(policies, c) ==
    IF ~Resolves(policies, c) THEN "request" ELSE c.requested

ResolvePseudonymScope(policies, c) ==
    IF ~Resolves(policies, c) THEN "request"
    ELSE LET ceiling == Ceiling(policies[c.version].scope, c)
         IN  IF ScopeRank[c.requested] <= ScopeRank[ceiling] THEN c.requested ELSE ceiling

(* The vault partition of a scope in a context: None when the context      *)
(* lacks the identifier the scope needs.  The code joins the three parts   *)
(* into one string with colons, which keeps them apart as long as no       *)
(* domain contains a colon.                                                *)
ScopeKey(scope, c) ==
    CASE scope = "organization" ->
           [scope |-> scope, domain |-> c.domain, id |-> Absent]
      [] scope # "organization" /\ c.ids[scope] # Absent ->
           [scope |-> scope, domain |-> c.domain, id |-> c.ids[scope]]
      [] OTHER -> Absent

PartitionOf(policies, c) == ScopeKey(ResolvePseudonymScope(policies, c), c)

-----------------------------------------------------------------------------
(* What the treatment B4 promises of an action it lets through: an         *)
(* unambiguous rule exists in a policy of the context's own domain, a hard *)
(* action binds whatever the task and the purpose, and a task only chooses *)
(* within the space the rule gives for this purpose.                       *)
Permits(policies, c, category, action) ==
    LET rule == policies[c.version].rules[category]
        binding == IF Matching(rule, c) = {} THEN {rule}
                   ELSE {rule.overrides[j] : j \in Matching(rule, c)}
    IN  /\ Resolves(policies, c)
        /\ category \in DOMAIN policies[c.version].rules
        /\ \A j, k \in Matching(rule, c) : j = k
        /\ \A b \in binding :
             IF b.action # "task_dependent" THEN action = b.action
             ELSE action \in IF c.purpose \in DOMAIN rule.purposeActions
                            THEN rule.purposeActions[c.purpose] ELSE b.allowed

(* And of the task's part in it: whether B4 blocks does not depend on what *)
(* the task needs; if it does not block, the more the task needs, the more *)
(* is disclosed, and a task that is unclear counts as needing nothing.     *)
NeedDiscloses(policies, c, category) ==
    LET chosen(level) == B4Action(policies, c, category, level)
        rank(level) == ExposureRank[chosen(level)]
    IN  \/ \A level \in Levels : chosen(level) = "block_request"
        \/ /\ \A level \in Levels : chosen(level) \in DisclosureLevels
           /\ rank("ambiguous") = rank("not_relevant")
           /\ rank("not_relevant") <= rank("relevant_without_exact_value")
           /\ rank("relevant_without_exact_value") <= rank("relevant_with_exact_value")
=============================================================================
