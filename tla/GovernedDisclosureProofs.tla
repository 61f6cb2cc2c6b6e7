---------------------- MODULE GovernedDisclosureProofs ----------------------
(***************************************************************************)
(* Proofs about PolicyEngine and GovernedDisclosure, for any policies,     *)
(* contexts, detections and number of requests.                            *)
(***************************************************************************)
EXTENDS GovernedDisclosure, SequenceTheorems, FiniteSetTheorems, TLAPS

-----------------------------------------------------------------------------
(* Choosing within a space.                                                *)

LEMMA LeastOf ==
  ASSUME NEW space \in SUBSET DisclosureLevels, space # {}
  PROVE  /\ Least(space) \in space
         /\ \A b \in space : ExposureRank[Least(space)] <= ExposureRank[b]
<1>1. \E a \in space : \A b \in space : ExposureRank[a] <= ExposureRank[b]
  <2>1. CASE "remove" \in space
    BY <2>1 DEF DisclosureLevels, ExposureRank
  <2>2. CASE "remove" \notin space /\ "pseudonymize" \in space
    BY <2>2 DEF DisclosureLevels, ExposureRank
  <2>3. CASE "remove" \notin space /\ "pseudonymize" \notin space /\ "generalize" \in space
    BY <2>3 DEF DisclosureLevels, ExposureRank
  <2>4. CASE space = {"preserve"}
    BY <2>4 DEF ExposureRank
  <2>5. QED
    BY <2>1, <2>2, <2>3, <2>4 DEF DisclosureLevels
<1>2. QED
  BY <1>1 DEF Least

LEMMA MostOf ==
  ASSUME NEW space \in SUBSET DisclosureLevels, space # {}
  PROVE  /\ Most(space) \in space
         /\ \A b \in space : ExposureRank[b] <= ExposureRank[Most(space)]
<1>1. \E a \in space : \A b \in space : ExposureRank[b] <= ExposureRank[a]
  <2>1. CASE "preserve" \in space
    BY <2>1 DEF DisclosureLevels, ExposureRank
  <2>2. CASE "preserve" \notin space /\ "generalize" \in space
    BY <2>2 DEF DisclosureLevels, ExposureRank
  <2>3. CASE "preserve" \notin space /\ "generalize" \notin space /\ "pseudonymize" \in space
    BY <2>3 DEF DisclosureLevels, ExposureRank
  <2>4. CASE space = {"remove"}
    BY <2>4 DEF ExposureRank
  <2>5. QED
    BY <2>1, <2>2, <2>3, <2>4 DEF DisclosureLevels
<1>2. QED
  BY <1>1 DEF Most

LEMMA ChosenFromSpace ==
  ASSUME NEW space \in SUBSET DisclosureLevels, space # {}, NEW level \in Levels
  PROVE  Minimized(level, space) \in space
<1>1. space # {"remove"} => space \ {"remove"} # {} /\ space \ {"remove"} \subseteq DisclosureLevels
  OBVIOUS
<1>2. space # {"remove"} => Least(space \ {"remove"}) \in space
  BY <1>1, LeastOf
<1>3. QED
  BY <1>2, LeastOf, MostOf DEF Minimized, SelectActionForRelevance, Levels

LEMMA RelevanceIsMonotone ==
  ASSUME NEW space \in SUBSET DisclosureLevels, space # {}
  PROVE  /\ \A level \in Levels : Minimized(level, space) \in space
         /\ ExposureRank[Minimized("ambiguous", space)]
              = ExposureRank[Minimized("not_relevant", space)]
         /\ ExposureRank[Minimized("not_relevant", space)]
              <= ExposureRank[Minimized("relevant_without_exact_value", space)]
         /\ ExposureRank[Minimized("relevant_without_exact_value", space)]
              <= ExposureRank[Minimized("relevant_with_exact_value", space)]
<1>1. \A level \in Levels : Minimized(level, space) \in space
  BY ChosenFromSpace
<1>2. /\ Minimized("ambiguous", space) = Least(space)
      /\ Minimized("not_relevant", space) = Least(space)
  BY DEF Minimized, SelectActionForRelevance
<1>3. ExposureRank[Least(space)] <= ExposureRank[Minimized("relevant_without_exact_value", space)]
  BY <1>1, LeastOf DEF Levels
<1>4. Minimized("relevant_with_exact_value", space) = IF "preserve" \in space THEN "preserve" ELSE Most(space)
  BY DEF Minimized, SelectActionForRelevance
<1>5. \A b \in space : ExposureRank[b] <= ExposureRank[Minimized("relevant_with_exact_value", space)]
  <2>1. CASE "preserve" \in space
    BY <2>1, <1>4 DEF DisclosureLevels, ExposureRank
  <2>2. CASE "preserve" \notin space
    BY <2>2, <1>4, MostOf
  <2>3. QED
    BY <2>1, <2>2
<1>6. QED
  BY <1>1, <1>2, <1>3, <1>5 DEF Levels

LEMMA ImpossibleImpliesRestricted ==
  ASSUME NEW category, NEW level \in Levels,
         NEW chosen \in DisclosureLevels,
         PolicyEffect(category, level, chosen).impossible = TRUE
  PROVE  PolicyEffect(category, level, chosen).restricted = TRUE
<1> DEFINE baseline == B3Baseline(category, level)
<1>1. CASE baseline = Absent
  BY <1>1 DEF PolicyEffect
<1>2. CASE baseline # Absent
  <2>1. baseline = "preserve" /\ chosen # "preserve"
    BY <1>2 DEF PolicyEffect
  <2>2. ExposureRank[chosen] < ExposureRank[baseline]
    BY <2>1 DEF ExposureRank, DisclosureLevels
  <2> HIDE DEF baseline
  <2>3. QED
    BY <1>2, <2>2 DEF PolicyEffect, baseline
<1>3. QED
  BY <1>1, <1>2

(* The converse fails: B4 can report a category as restricted that is not   *)
(* impossible (policy_governed.py: why the two fields are not redundant).   *)
THEOREM RestrictedNeedNotBeImpossible ==
  LET e == PolicyEffect("salary", "relevant_without_exact_value", "remove")
  IN  e.restricted = TRUE /\ e.impossible = FALSE
<1>1. B3Baseline("salary", "relevant_without_exact_value") = "generalize"
  <2>1. Least({"generalize", "preserve"}) = "generalize"
    BY LeastOf DEF DisclosureLevels, ExposureRank
  <2>2. OrderActionSpace(TaskAwareActionSpaces["salary"]) = {"remove", "generalize", "preserve"}
    BY DEF OrderActionSpace, TaskAwareActionSpaces, Known, Identifying, Graded, Forbidden, DisclosureLevels
  <2>3. {"remove", "generalize", "preserve"} \ {"remove"} = {"generalize", "preserve"}
    OBVIOUS
  <2>4. "salary" \in DOMAIN TaskAwareActionSpaces
    BY DEF TaskAwareActionSpaces, Known, Graded
  <2>5. QED
    BY <2>1, <2>2, <2>3, <2>4 DEF B3Baseline, Minimized, SelectActionForRelevance
<1>2. QED
  <2>1. ExposureRank["remove"] < ExposureRank["generalize"]
    BY DEF ExposureRank
  <2>2. Absent # "generalize"
    BY ConstantsAssumption DEF DisclosureLevels
  <2>3. QED
    BY <1>1, <2>1, <2>2 DEF PolicyEffect

-----------------------------------------------------------------------------
(* What a treatment decides.                                               *)

PoliciesTyped == \A v \in DOMAIN policies : policies[v] \in Document

Hidden(x) == x \in DisclosureLevels \cup {"block_request"}

LEMMA StaticDecision ==
  ASSUME NEW category PROVE Hidden(B2Action(category))
  BY DEF B2Action, StaticActions, Known, Identifying, Graded, Forbidden, Hidden, DisclosureLevels

LEMMA TaskAwareDecision ==
  ASSUME NEW category, NEW level \in Levels PROVE Hidden(B3Action(category, level))
<1>1. CASE category \in DOMAIN TaskAwareActionSpaces
           /\ TaskAwareActionSpaces[category] # {"block_request"}
  <2>1. TaskAwareActionSpaces[category] \in SUBSET DisclosureLevels
          /\ TaskAwareActionSpaces[category] # {}
    BY <1>1 DEF TaskAwareActionSpaces, Known, Identifying, Graded, Forbidden, DisclosureLevels
  <2>2. Minimized(level, TaskAwareActionSpaces[category]) \in DisclosureLevels
    BY <2>1, ChosenFromSpace
  <2>3. QED
    BY <1>1, <2>2 DEF B3Action, Hidden
<1>2. CASE ~(category \in DOMAIN TaskAwareActionSpaces
               /\ TaskAwareActionSpaces[category] # {"block_request"})
  BY <1>2 DEF B3Action, Hidden
<1>3. QED
  BY <1>1, <1>2

(* B4's choice is one the policy permits, or a block.                      *)
LEMMA GovernedDecision ==
  ASSUME PoliciesTyped, NEW c \in Context, NEW category, NEW level \in Levels
  PROVE  /\ Hidden(B4Action(policies, c, category, level))
         /\ B4Action(policies, c, category, level) # "block_request"
              => Permits(policies, c, category, B4Action(policies, c, category, level))
<1> DEFINE action == B4Action(policies, c, category, level)
           decision == Decide(policies, c, category)
           space == OrderActionSpace(decision.allowed)
           rule == policies[c.version].rules[category]
           matching == Matching(rule, c)
           chosen == IF matching = {} THEN rule
                     ELSE rule.overrides[CHOOSE i \in matching : TRUE]
           purposeSpace == IF c.purpose \in DOMAIN rule.purposeActions
                           THEN rule.purposeActions[c.purpose] ELSE chosen.allowed
<1>0. action = IF decision.action # "task_dependent" THEN decision.action
               ELSE IF space = {} \/ space # decision.allowed THEN "block_request"
               ELSE Minimized(level, space)
  BY DEF B4Action
<1>1. CASE ~(Resolves(policies, c) /\ category \in DOMAIN policies[c.version].rules)
  <2>1. decision = BlockDecision
    BY <1>1 DEF Decide
  <2>2. action = "block_request"
    BY <2>1 DEF B4Action, BlockDecision
  <2>3. QED
    BY <2>2 DEF Hidden
<1>2. CASE Resolves(policies, c) /\ category \in DOMAIN policies[c.version].rules
  <2>1. IsRule(rule)
    BY <1>2, DocumentAssumption DEF Resolves, PoliciesTyped
  <2>2. decision = DecideByRule(rule, c)
    BY <1>2 DEF Decide
  <2>3. CASE \E i, j \in matching : i # j
    <3>1. decision = BlockDecision
      BY <2>2, <2>3 DEF DecideByRule
    <3>2. action = "block_request"
      BY <3>1 DEF B4Action, BlockDecision
    <3>3. QED
      BY <3>2 DEF Hidden
  <2>4. CASE \A i, j \in matching : i = j
    <3>1. matching # {} => (CHOOSE i \in matching : TRUE) \in matching
      OBVIOUS
    <3>2. matching \subseteq DOMAIN rule.overrides
      BY DEF Matching
    <3>3. IsAction(chosen)
      BY <2>1, <3>1, <3>2 DEF IsRule
    <3>4. purposeSpace \subseteq DisclosureActions
      BY <2>1, <3>3 DEF IsRule, IsAction
    <3>5. \A b \in IF matching = {} THEN {rule} ELSE {rule.overrides[j] : j \in matching} :
             b = chosen
      BY <2>4, <3>1
    <3>6. action # "block_request" /\ (IF chosen.action # "task_dependent" THEN action = chosen.action
                                      ELSE action \in purposeSpace)
             => Permits(policies, c, category, action)
      <4> HIDE DEF action
      <4>1. QED
        BY <1>2, <2>4, <3>5 DEF Permits
    <3>7. CASE chosen.action # "task_dependent"
      <4>1. decision = [action |-> chosen.action, allowed |-> chosen.allowed]
        BY <2>2, <2>4, <3>7 DEF DecideByRule
      <4>2. action = chosen.action
        <5> HIDE DEF action, decision, chosen
        <5>1. QED
          BY <1>0, <3>7, <4>1
      <4>3. QED
        BY <3>3, <3>6, <3>7, <4>2 DEF IsAction, Hidden, DisclosureActions
    <3>8. CASE chosen.action = "task_dependent" /\ purposeSpace = {}
      <4>1. decision = BlockDecision
        BY <2>2, <2>4, <3>8 DEF DecideByRule
      <4>2. action = "block_request"
        BY <4>1 DEF B4Action, BlockDecision
      <4>3. QED
        BY <4>2 DEF Hidden
    <3>9. CASE chosen.action = "task_dependent" /\ purposeSpace # {}
      <4>1. decision = [action |-> "task_dependent", allowed |-> purposeSpace]
        BY <2>2, <2>4, <3>9 DEF DecideByRule
      <4>2. CASE space = {} \/ space # decision.allowed
        <5>1. action = "block_request"
          <6> HIDE DEF action, decision, space, purposeSpace
          <6>1. QED
            BY <1>0, <4>1, <4>2
        <5>2. QED
          BY <5>1 DEF Hidden
      <4>3. CASE space # {} /\ space = decision.allowed
        <5>1. action = Minimized(level, space)
          <6> HIDE DEF action, decision, space, purposeSpace
          <6>1. QED
            BY <1>0, <4>1, <4>3
        <5>2. space \subseteq DisclosureLevels
          BY DEF OrderActionSpace
        <5>3. action \in space
          BY <4>3, <5>1, <5>2, ChosenFromSpace
        <5>4. space = purposeSpace
          <6> HIDE DEF decision, space, purposeSpace
          <6>1. QED
            BY <4>1, <4>3
        <5>5. action \in DisclosureLevels /\ action \in purposeSpace
          BY <5>2, <5>3, <5>4
        <5>6. action # "block_request"
          BY <5>5 DEF DisclosureLevels
        <5>7. Permits(policies, c, category, action)
          <6> HIDE DEF action, purposeSpace, chosen
          <6>1. QED
            BY <3>6, <3>9, <5>5, <5>6
        <5>8. QED
          BY <5>5, <5>7 DEF Hidden
      <4>4. QED
        BY <4>2, <4>3
    <3>10. QED
      BY <3>7, <3>8, <3>9
  <2>5. QED
    BY <2>3, <2>4
<1>3. QED
  BY <1>1, <1>2

(* B4 blocks whatever the task needs, or discloses more the more it needs. *)
LEMMA GovernedIsMonotone ==
  ASSUME PoliciesTyped, NEW c \in Context, NEW category
  PROVE  NeedDiscloses(policies, c, category)
<1> DEFINE decision == Decide(policies, c, category)
           space == OrderActionSpace(decision.allowed)
           chosen(level) == B4Action(policies, c, category, level)
<1>1. \A level \in Levels :
        chosen(level) = IF decision.action # "task_dependent" THEN decision.action
                        ELSE IF space = {} \/ space # decision.allowed THEN "block_request"
                        ELSE Minimized(level, space)
  BY DEF B4Action
<1>2. \A level \in Levels : chosen(level) \in DisclosureLevels \cup {"block_request"}
  BY GovernedDecision DEF Hidden
<1>3. SUFFICES \/ \A level \in Levels : chosen(level) = "block_request"
               \/ /\ \A level \in Levels : chosen(level) \in DisclosureLevels
                  /\ ExposureRank[chosen("ambiguous")] = ExposureRank[chosen("not_relevant")]
                  /\ ExposureRank[chosen("not_relevant")]
                       <= ExposureRank[chosen("relevant_without_exact_value")]
                  /\ ExposureRank[chosen("relevant_without_exact_value")]
                       <= ExposureRank[chosen("relevant_with_exact_value")]
  BY DEF NeedDiscloses
<1>4. space \subseteq DisclosureLevels
  BY DEF OrderActionSpace
<1>5. {"ambiguous", "not_relevant", "relevant_without_exact_value", "relevant_with_exact_value"} = Levels
  BY DEF Levels
<1> HIDE DEF decision, space, chosen
<1>6. CASE decision.action # "task_dependent"
  <2>1. \A level \in Levels : chosen(level) = decision.action
    BY <1>1, <1>6
  <2>2. decision.action \in DisclosureLevels => ExposureRank[decision.action] \in Nat
    BY DEF DisclosureLevels, ExposureRank
  <2>3. QED
    BY <1>2, <1>5, <2>1, <2>2
<1>7. CASE decision.action = "task_dependent" /\ (space = {} \/ space # decision.allowed)
  BY <1>1, <1>7
<1>8. CASE decision.action = "task_dependent" /\ space # {} /\ space = decision.allowed
  <2>1. \A level \in Levels : chosen(level) = Minimized(level, space)
    BY <1>1, <1>8
  <2>2. QED
    BY <1>4, <1>5, <1>8, <2>1, RelevanceIsMonotone
<1>9. QED
  BY <1>6, <1>7, <1>8

(* What an admitted request decided for a span, whatever the treatment.    *)
LEMMA AdmittedDecision ==
  ASSUME PoliciesTyped, NEW t \in Treatments, NEW c \in Context, NEW spans \in SpanLists,
         NEW relevance \in [Categories(spans) -> Levels \cup {Absent}],
         ~Blocks(Decisions(t, c, spans, relevance)), NEW i \in DOMAIN spans
  PROVE  LET a == Decisions(t, c, spans, relevance)[i] IN
           a \in DisclosureLevels /\ (t = "b4" => Permits(policies, c, spans[i].category, a))
<1> DEFINE category == spans[i].category
           a == Decisions(t, c, spans, relevance)[i]
           chosen == ActionFor(t, c, category, relevance)
<1>1. a # "block_request" /\ a = Downgraded(chosen, spans[i])
  BY DEF Blocks, Decisions
<1>2. a = chosen /\ chosen # "block_request"
  BY <1>1 DEF Downgraded
<1>3. category \in Categories(spans)
  BY DEF Categories
<1>4. CASE t = "b2"
  BY <1>2, <1>4, StaticDecision DEF ActionFor, Hidden
<1>5. CASE t # "b2"
  <2>1. ~\E k \in DOMAIN relevance : relevance[k] = Absent
    BY <1>2, <1>5 DEF ActionFor
  <2>2. relevance[category] \in Levels
    BY <1>3, <2>1
  <2>3. CASE t = "b3"
    BY <1>2, <2>1, <2>2, <2>3, TaskAwareDecision DEF ActionFor, Hidden
  <2>4. CASE t = "b4"
    <3>1. chosen = B4Action(policies, c, category, relevance[category])
      BY <2>1, <2>4 DEF ActionFor
    <3>2. QED
      BY <1>2, <2>2, <3>1, GovernedDecision DEF Hidden
  <2>5. QED
    BY <1>5, <2>3, <2>4 DEF Treatments
<1>6. QED
  BY <1>4, <1>5

-----------------------------------------------------------------------------
(* Which partition a context works in.                                     *)

LEMMA ResolvedScope ==
  ASSUME PoliciesTyped, NEW c \in Context
  PROVE  LET scope == ResolvePseudonymScope(policies, c) IN
           scope \in DOMAIN ScopeRank /\ Within(scope, c)
<1>1. c.requested \in DOMAIN ScopeRank
  BY ConstantsAssumption
<1>2. CASE ~Resolves(policies, c)
  BY <1>2 DEF ResolvePseudonymScope, ScopeRank, Within
<1>3. CASE Resolves(policies, c)
  <2>1. IsScopePolicy(policies[c.version].scope)
    BY <1>3, DocumentAssumption DEF Resolves, PoliciesTyped
  <2>2. Ceiling(policies[c.version].scope, c) \in DOMAIN ScopeRank
    BY <2>1 DEF Ceiling, IsScopePolicy
  <2>3. QED
    BY <1>1, <1>3, <2>2 DEF ResolvePseudonymScope, ScopeRank, Within
<1>4. QED
  BY <1>2, <1>3

LEMMA PartitionFacts ==
  ASSUME PoliciesTyped, NEW c \in Context, PartitionOf(policies, c) # Absent
  PROVE  LET k == PartitionOf(policies, c) IN
           /\ Within(k.scope, c)
           /\ k.domain = c.domain
           /\ k.scope = "organization" \/ (c.ids[k.scope] # Absent /\ k.id = c.ids[k.scope])
<1> DEFINE scope == ResolvePseudonymScope(policies, c)
<1>1. Within(scope, c)
  BY ResolvedScope
<1> HIDE DEF scope
<1>2. PartitionOf(policies, c) = ScopeKey(scope, c)
  BY DEF PartitionOf, scope
<1>3. QED
  BY <1>1, <1>2 DEF ScopeKey

-----------------------------------------------------------------------------
(* The inductive invariant.  Nothing runs before the directory is loaded,  *)
(* so the policies a decision or a partition was computed from are those a *)
(* later step sees; and every pseudonym of a result names, in the vault,   *)
(* the very span it was issued for.                                        *)

NothingRunsWhileLoading == read # Len(directory) => \A r \in Request : pc[r] = "new"

OnlyAdmittedTransform ==
    \A r \in Request : IF Admitted(r) THEN Partition(r) # Absent ELSE transformed[r] = <<>>

PseudonymsName ==
    \A r \in Request : \A i \in DOMAIN transformed[r] : transformed[r][i] # Absent =>
      /\ actions[r][i] = "pseudonymize"
      /\ vault[transformed[r][i]] = EntryFor(r, request[r].spans[i])

Issued ==
    \A p \in DOMAIN vault : \E r \in Request : \E i \in DOMAIN transformed[r] : transformed[r][i] = p

AnswersAsResolved ==
    answer # Absent =>
      /\ answer.of \in Request /\ pc[answer.of] = "allowed"
      /\ answer.by \in Context
      /\ answer.mentioned \subseteq Produced(answer.of)
      /\ answer.shown = answer.mentioned \cap Resolved(answer.of, answer.by)

IInv == /\ TypeOK /\ PoliciesTyped /\ NothingRunsWhileLoading /\ OnlyAdmittedTransform
        /\ PolicyBinds /\ PseudonymsName /\ Issued /\ AnswersAsResolved

LEMMA Initially == Init => IInv
<1> SUFFICES ASSUME Init PROVE IInv
  OBVIOUS
<1> USE DEF Init
<1>1. \A r \in Request : ~Admitted(r) /\ transformed[r] = <<>> /\ pc[r] = "new"
  BY DEF Admitted
<1>2. TypeOK
  <2>1. directory \in Seq(Document \cup {Unreadable})
    BY ConstantsAssumption
  <2>2. read \in 0..Len(directory) /\ loadErrors \subseteq 1..read
    BY <2>1
  <2>3. QED
    BY <1>1, <2>2 DEF TypeOK
<1>3. QED
  BY <1>1, <1>2 DEF IInv, PoliciesTyped, NothingRunsWhileLoading, OnlyAdmittedTransform,
       PolicyBinds, PseudonymsName, Issued, AnswersAsResolved

(* Before the directory is loaded everything else is as it was initially.  *)
LEMMA WhileLoading ==
  ASSUME IInv, read # Len(directory)
  PROVE  vault = <<>> /\ answer = Absent
         /\ \A r \in Request : pc[r] = "new" /\ ~Admitted(r) /\ transformed[r] = <<>>
<1>1. \A r \in Request : pc[r] = "new" /\ ~Admitted(r) /\ transformed[r] = <<>>
  BY DEF IInv, NothingRunsWhileLoading, Admitted, OnlyAdmittedTransform
<1>2. DOMAIN vault = {}
  BY <1>1 DEF IInv, Issued
<1>3. vault = <<>>
  BY <1>2 DEF IInv, TypeOK
<1>4. answer = Absent
  BY <1>1 DEF IInv, AnswersAsResolved
<1>5. QED
  BY <1>1, <1>3, <1>4

LEMMA ReadFileStep == ASSUME IInv, ReadFile PROVE IInv'
<1> DEFINE file == directory[read + 1]
<1>0. /\ read \in Nat /\ directory \in Seq(Document \cup {Unreadable}) /\ read < Len(directory)
      /\ read' = read + 1
  BY ConstantsAssumption DEF IInv, TypeOK, ReadFile
<1>1. /\ vault = <<>> /\ answer = Absent
      /\ \A r \in Request : pc[r] = "new" /\ ~Admitted(r) /\ transformed[r] = <<>>
  BY <1>0, WhileLoading
<1>2. /\ vault' = <<>> /\ answer' = Absent /\ directory' = directory
      /\ pc' = pc /\ request' = request /\ actions' = actions /\ transformed' = transformed
  BY <1>1 DEF ReadFile, requestVars
<1>3. \A r \in Request : pc'[r] = "new" /\ ~Admitted(r)' /\ transformed'[r] = <<>>
  BY <1>1, <1>2 DEF Admitted
<1>4. TypeOK'
  <2>1. read' \in 0..Len(directory') /\ loadErrors' \subseteq 1..read'
    BY <1>0, <1>2 DEF IInv, TypeOK, ReadFile
  <2>2. vault' \in Seq(Entry)'
    BY <1>2
  <2>3. transformed' \in [Request -> Seq(DOMAIN vault \cup {Absent})']
    BY <1>1, <1>2 DEF IInv, TypeOK
  <2>4. QED
    BY <1>2, <1>3, <2>1, <2>2, <2>3 DEF IInv, TypeOK
<1>5. PoliciesTyped'
  <2>1. file # Unreadable => file \in Document
    BY <1>0
  <2>2. QED
    BY <2>1 DEF ReadFile, IInv, PoliciesTyped
<1>6. QED
  BY <1>2, <1>3, <1>4, <1>5 DEF IInv, NothingRunsWhileLoading, OnlyAdmittedTransform,
       PolicyBinds, PseudonymsName, Issued, AnswersAsResolved

LEMMA SanitizeStep == ASSUME IInv, NEW r \in Request, Sanitize(r) PROVE IInv'
<1>0. /\ read = Len(directory) /\ pc[r] = "new" /\ transformed[r] = <<>>
      /\ UNCHANGED <<directory, read, policies, loadErrors, vault, transformed, answer>>
  BY DEF Sanitize, loadVars, IInv, OnlyAdmittedTransform, Admitted
<1>1. /\ PoliciesTyped /\ (answer # Absent => answer.of # r)
      /\ pc \in [Request -> {"new", "blocked", "applying", "allowed"}]
  BY <1>0 DEF IInv, TypeOK, AnswersAsResolved
<1>2. CASE Block(r)
  <2>1. /\ pc' = [pc EXCEPT ![r] = "blocked"] /\ request' = request /\ actions' = actions
    BY <1>2 DEF Block
  <2>2. \A q \in Request : Admitted(q)' <=> Admitted(q)
    BY <1>0, <1>1, <2>1 DEF Admitted
  <2>3. TypeOK'
    BY <1>0, <1>1, <2>1, <2>2 DEF IInv, TypeOK, Entry
  <2>4. OnlyAdmittedTransform' /\ NothingRunsWhileLoading'
    BY <1>0, <2>1, <2>2 DEF IInv, OnlyAdmittedTransform, Partition, NothingRunsWhileLoading
  <2>5. PolicyBinds'
    BY <1>0, <2>1, <2>2 DEF IInv, PolicyBinds
  <2>6. PseudonymsName'
    BY <1>0, <2>1 DEF IInv, PseudonymsName, EntryFor, Partition
  <2>7. Issued'
    BY <1>0 DEF IInv, Issued
  <2>8. AnswersAsResolved'
    BY <1>0, <1>1, <2>1 DEF IInv, AnswersAsResolved, Produced, Resolved
  <2>9. QED
    BY <1>0, <2>3, <2>4, <2>5, <2>6, <2>7, <2>8 DEF IInv, PoliciesTyped
<1>3. ASSUME NEW t \in Treatments, NEW c \in Context, NEW spans \in SpanLists,
             NEW relevance \in [Categories(spans) -> Levels \cup {Absent}],
             ~Blocks(Decisions(t, c, spans, relevance)), PartitionOf(policies, c) # Absent,
             Admit(r, t, c, spans, Decisions(t, c, spans, relevance))
      PROVE  IInv'
  <2> DEFINE decided == Decisions(t, c, spans, relevance)
  <2>1. /\ pc' = [pc EXCEPT ![r] = IF spans = <<>> THEN "allowed" ELSE "applying"]
        /\ request' = [request EXCEPT ![r] = [treatment |-> t, context |-> c, spans |-> spans]]
        /\ actions' = [actions EXCEPT ![r] = decided]
    BY <1>3 DEF Admit
  <2>2. /\ Admitted(r)' /\ ~Admitted(r)
        /\ \A q \in Request \ {r} : /\ Admitted(q)' <=> Admitted(q)
                                    /\ pc'[q] = pc[q] /\ request'[q] = request[q]
                                    /\ actions'[q] = actions[q]
    BY <1>0, <1>1, <2>1 DEF IInv, TypeOK, Admitted
  <2>3. /\ request'[r] = [treatment |-> t, context |-> c, spans |-> spans]
        /\ actions'[r] = decided
        /\ pc'[r] = IF spans = <<>> THEN "allowed" ELSE "applying"
    BY <1>1, <2>1 DEF IInv, TypeOK
  <2>4. spans \in Seq([category : STRING, value : STRING])
    BY ConstantsAssumption
  <2>5. \A i \in DOMAIN spans : /\ decided[i] \in DisclosureLevels
                                /\ t = "b4" => Permits(policies, c, spans[i].category, decided[i])
    <3> HIDE DEF decided
    <3>1. QED
      BY <1>1, <1>3, AdmittedDecision DEF decided
  <2>6. decided \in Seq(DisclosureLevels) /\ Len(decided) = Len(spans)
    <3>1. decided \in [1..Len(spans) -> DisclosureLevels] /\ Len(spans) \in Nat
      BY <2>4, <2>5 DEF Decisions
    <3> HIDE DEF decided
    <3>2. QED
      BY <3>1, SeqDef
  <2> HIDE DEF decided
  <2>7. TypeOK'
    <3>1. /\ pc' \in [Request -> {"new", "blocked", "applying", "allowed"}]
          /\ request' \in [Request -> Asked \cup {Absent}]
          /\ actions' \in [Request -> Seq(DisclosureLevels)]
      BY <2>1, <2>6 DEF IInv, TypeOK, Asked
    <3>2. \A q \in Request \ {r} : Admitted(q)' =>
            /\ request'[q] \in Asked
            /\ Len(actions'[q]) = Len(request'[q].spans)
            /\ IF pc'[q] = "allowed" THEN Len(transformed'[q]) = Len(request'[q].spans)
               ELSE Len(transformed'[q]) < Len(request'[q].spans)
      BY <1>0, <2>2 DEF IInv, TypeOK
    <3>3. /\ request'[r] \in Asked
          /\ Len(actions'[r]) = Len(request'[r].spans)
          /\ IF pc'[r] = "allowed" THEN Len(transformed'[r]) = Len(request'[r].spans)
             ELSE Len(transformed'[r]) < Len(request'[r].spans)
      BY <1>0, <2>3, <2>4, <2>6 DEF Asked
    <3>4. QED
      BY <1>0, <3>1, <3>2, <3>3 DEF IInv, TypeOK, Entry, Asked
  <2>8. OnlyAdmittedTransform'
    BY <1>0, <1>3, <2>2, <2>3 DEF IInv, OnlyAdmittedTransform, Partition
  <2>9. PolicyBinds'
    <3>1. \A q \in Request \ {r} : Admitted(q)' /\ request'[q].treatment = "b4" =>
            \A i \in DOMAIN request'[q].spans :
              Permits(policies, request'[q].context, request'[q].spans[i].category, actions'[q][i])
      BY <2>2 DEF IInv, PolicyBinds
    <3>2. request'[r].treatment = "b4" =>
            \A i \in DOMAIN request'[r].spans :
              Permits(policies, request'[r].context, request'[r].spans[i].category, actions'[r][i])
      BY <2>3, <2>5
    <3>3. policies' = policies
      BY <1>0
    <3>4. QED
      BY <3>1, <3>2, <3>3 DEF PolicyBinds
  <2>10. PseudonymsName'
    BY <1>0, <2>2 DEF IInv, PseudonymsName, EntryFor, Partition
  <2>11. QED
    BY <1>0, <1>1, <2>2, <2>7, <2>8, <2>9, <2>10 DEF IInv, PoliciesTyped,
       NothingRunsWhileLoading, Issued, AnswersAsResolved, Produced, Resolved
<1>4. QED
  BY <1>2, <1>3 DEF Sanitize

LEMMA ReconstructStep == ASSUME IInv, NEW r \in Request, Reconstruct(r) PROVE IInv'
<1>1. /\ pc[r] = "allowed"
      /\ UNCHANGED <<directory, read, policies, loadErrors, vault, request, actions, pc, transformed>>
  BY DEF Reconstruct, loadVars, requestVars
<1>2. PICK c \in Context, text \in SUBSET DOMAIN vault :
        answer' = [of |-> r, by |-> c, shown |-> text \cap Resolved(r, c),
                   mentioned |-> text \cap Produced(r)]
  BY DEF Reconstruct
<1>3. TypeOK'
  BY <1>1 DEF IInv, TypeOK, Entry, Admitted
<1>4. Resolved(r, c) \subseteq Produced(r)
  BY DEF Resolved
<1>5. AnswersAsResolved'
  BY <1>1, <1>2, <1>4 DEF AnswersAsResolved, Produced, Resolved
<1>6. OnlyAdmittedTransform' /\ NothingRunsWhileLoading'
  BY <1>1 DEF IInv, OnlyAdmittedTransform, Admitted, Partition, NothingRunsWhileLoading
<1>7. PolicyBinds'
  BY <1>1 DEF IInv, PolicyBinds, Admitted
<1>8. PseudonymsName' /\ Issued'
  BY <1>1 DEF IInv, PseudonymsName, EntryFor, Partition, Issued
<1>9. QED
  BY <1>1, <1>3, <1>5, <1>6, <1>7, <1>8 DEF IInv, PoliciesTyped

LEMMA TransformSpanStep == ASSUME IInv, NEW r \in Request, TransformSpan(r) PROVE IInv'
<1> DEFINE i == Len(transformed[r]) + 1
           span == request[r].spans[i]
           entry == EntryFor(r, span)
           known == {p \in DOMAIN vault : vault[p] = entry}
<1>1. /\ pc[r] = "applying" /\ Admitted(r)
      /\ UNCHANGED <<directory, read, policies, loadErrors, request, actions, answer>>
      /\ pc' = [pc EXCEPT ![r] = IF i = Len(request[r].spans) THEN "allowed" ELSE @]
  BY DEF TransformSpan, loadVars, Admitted
<1>2. /\ request[r] \in Asked /\ transformed[r] \in Seq(DOMAIN vault \cup {Absent})
      /\ Len(transformed[r]) < Len(request[r].spans)
      /\ actions[r] \in Seq(DisclosureLevels) /\ Len(actions[r]) = Len(request[r].spans)
      /\ vault \in Seq(Entry)
  BY <1>1 DEF IInv, TypeOK
<1>3. /\ request[r].spans \in Seq([category : STRING, value : STRING])
      /\ request[r].context \in Context
  BY <1>2, ConstantsAssumption DEF Asked
<1>4. entry \in Entry
  <2>1. span \in [category : STRING, value : STRING]
    <3>1. i \in 1..Len(request[r].spans)
      BY <1>2, <1>3
    <3> HIDE DEF i
    <3>2. QED
      BY <1>3, <3>1, ElementOfSeq
  <2> HIDE DEF span
  <2>2. QED
    BY <1>3, <2>1 DEF EntryFor, Entry, Partition
<1>5. PICK x : /\ transformed' = [transformed EXCEPT ![r] = Append(@, x)]
               /\ \/ actions[r][i] # "pseudonymize" /\ x = Absent /\ vault' = vault
                  \/ actions[r][i] = "pseudonymize" /\ x \in known /\ vault' = vault
                  \/ actions[r][i] = "pseudonymize" /\ x = Len(vault) + 1
                       /\ vault' = Append(vault, entry)
  BY DEF TransformSpan
<1> HIDE DEF entry
<1>6. /\ vault' \in Seq(Entry) /\ DOMAIN vault \subseteq DOMAIN vault'
      /\ \A p \in DOMAIN vault : vault'[p] = vault[p]
      /\ \A p \in DOMAIN vault' \ DOMAIN vault : p = x
      /\ x # Absent => x \in DOMAIN vault' /\ actions[r][i] = "pseudonymize" /\ vault'[x] = entry
  <2>1. CASE vault' = vault
    BY <1>2, <1>5, <2>1
  <2>2. CASE /\ actions[r][i] = "pseudonymize" /\ x = Len(vault) + 1
             /\ vault' = Append(vault, entry)
    BY <1>2, <1>4, <2>2
  <2>3. QED
    BY <1>5, <2>1, <2>2
<1>7. /\ transformed'[r] = Append(transformed[r], x)
      /\ \A q \in Request \ {r} : transformed'[q] = transformed[q]
  BY <1>5 DEF IInv, TypeOK
<1>8. /\ Len(transformed'[r]) = i /\ DOMAIN transformed'[r] = DOMAIN transformed[r] \cup {i}
      /\ transformed'[r][i] = x
      /\ \A j \in DOMAIN transformed[r] : transformed'[r][j] = transformed[r][j]
  BY <1>2, <1>7
<1>9. /\ pc'[r] = IF i = Len(request[r].spans) THEN "allowed" ELSE "applying"
      /\ \A q \in Request \ {r} : pc'[q] = pc[q]
      /\ \A q \in Request : Admitted(q)' <=> Admitted(q)
  BY <1>1 DEF IInv, TypeOK, Admitted
<1>10. TypeOK'
  <2>1. /\ pc' \in [Request -> {"new", "blocked", "applying", "allowed"}]
        /\ Entry' = Entry
    BY <1>1 DEF IInv, TypeOK, Entry
  <2>2. transformed' \in [Request -> Seq(DOMAIN vault' \cup {Absent})]
    <3>1. \A q \in Request : transformed[q] \in Seq(DOMAIN vault' \cup {Absent})
      <4>1. DOMAIN vault \cup {Absent} \subseteq DOMAIN vault' \cup {Absent}
        BY <1>6
      <4>2. QED
        BY <4>1, SeqMonotonic DEF IInv, TypeOK
    <3>2. Append(transformed[r], x) \in Seq(DOMAIN vault' \cup {Absent})
      BY <1>6, <3>1
    <3>3. QED
      BY <1>5, <3>1, <3>2 DEF IInv, TypeOK
  <2>3. \A q \in Request \ {r} : Admitted(q)' =>
          /\ request'[q] \in Asked
          /\ Len(actions'[q]) = Len(request'[q].spans)
          /\ IF pc'[q] = "allowed" THEN Len(transformed'[q]) = Len(request'[q].spans)
             ELSE Len(transformed'[q]) < Len(request'[q].spans)
    BY <1>1, <1>7, <1>9 DEF IInv, TypeOK
  <2>4. /\ request'[r] \in Asked
        /\ Len(actions'[r]) = Len(request'[r].spans)
        /\ IF pc'[r] = "allowed" THEN Len(transformed'[r]) = Len(request'[r].spans)
           ELSE Len(transformed'[r]) < Len(request'[r].spans)
    BY <1>1, <1>2, <1>3, <1>8, <1>9
  <2>5. QED
    BY <1>1, <1>6, <2>1, <2>2, <2>3, <2>4 DEF IInv, TypeOK, Asked
<1>11. OnlyAdmittedTransform' /\ NothingRunsWhileLoading'
  BY <1>1, <1>7, <1>9 DEF IInv, OnlyAdmittedTransform, NothingRunsWhileLoading, Partition
<1>12. PolicyBinds'
  BY <1>1, <1>9 DEF IInv, PolicyBinds
<1>13. PseudonymsName'
  <2>1. ASSUME NEW q \in Request, NEW j \in DOMAIN transformed'[q], transformed'[q][j] # Absent
        PROVE  /\ actions[q][j] = "pseudonymize"
               /\ vault'[transformed'[q][j]] = EntryFor(q, request[q].spans[j])
    <3>1. CASE q = r /\ j = i
      BY <1>6, <1>8, <2>1, <3>1 DEF entry
    <3>2. CASE ~(q = r /\ j = i)
      <4>1. j \in DOMAIN transformed[q] /\ transformed'[q][j] = transformed[q][j]
        BY <1>7, <1>8, <3>2
      <4>2. transformed[q][j] \in DOMAIN vault
        BY <2>1, <4>1 DEF IInv, TypeOK
      <4>3. QED
        BY <1>6, <2>1, <4>1, <4>2 DEF IInv, PseudonymsName
    <3>3. QED
      BY <3>1, <3>2
  <2>2. QED
    BY <1>1, <2>1 DEF PseudonymsName, EntryFor, Partition
<1>14. Issued'
  <2>1. ASSUME NEW p \in DOMAIN vault'
        PROVE  \E q \in Request : \E j \in DOMAIN transformed'[q] : transformed'[q][j] = p
    <3>1. CASE p \in DOMAIN vault
      BY <1>7, <1>8, <3>1 DEF IInv, Issued
    <3>2. CASE p \notin DOMAIN vault
      BY <1>6, <1>8, <3>2
    <3>3. QED
      BY <3>1, <3>2
  <2>2. QED
    BY <2>1 DEF Issued
<1>15. AnswersAsResolved'
  <2>1. SUFFICES ASSUME answer # Absent PROVE AnswersAsResolved'
    BY <1>1 DEF AnswersAsResolved
  <2>2. answer.of \in Request \ {r} /\ pc'[answer.of] = "allowed"
    BY <1>1, <1>9, <2>1 DEF IInv, AnswersAsResolved
  <2>3. Produced(answer.of)' = Produced(answer.of) /\ Produced(answer.of) \subseteq DOMAIN vault
    BY <1>1, <1>7, <2>2 DEF Produced, IInv, TypeOK
  <2>4. Resolved(answer.of, answer.by)' = Resolved(answer.of, answer.by)
    BY <1>1, <1>6, <2>3 DEF Resolved
  <2>5. QED
    BY <1>1, <2>1, <2>2, <2>3, <2>4 DEF IInv, AnswersAsResolved
<1>16. QED
  BY <1>1, <1>10, <1>11, <1>12, <1>13, <1>14, <1>15 DEF IInv, PoliciesTyped

LEMMA StutteringStep == ASSUME IInv, UNCHANGED vars PROVE IInv'
<1> USE DEF vars
<1>1. TypeOK'
  BY DEF IInv, TypeOK, Entry, Admitted
<1>2. OnlyAdmittedTransform' /\ NothingRunsWhileLoading'
  BY DEF IInv, OnlyAdmittedTransform, Admitted, Partition, NothingRunsWhileLoading
<1>3. PolicyBinds' /\ PoliciesTyped'
  BY DEF IInv, PolicyBinds, Admitted, PoliciesTyped
<1>4. PseudonymsName' /\ Issued'
  BY DEF IInv, PseudonymsName, EntryFor, Partition, Issued
<1>5. AnswersAsResolved'
  BY DEF IInv, AnswersAsResolved, Produced, Resolved
<1>6. QED
  BY <1>1, <1>2, <1>3, <1>4, <1>5 DEF IInv

LEMMA Inductive == Spec => []IInv
<1>1. IInv /\ [Next]_vars => IInv'
  BY ReadFileStep, SanitizeStep, TransformSpanStep, ReconstructStep, StutteringStep DEF Next
<1>2. QED
  BY <1>1, Initially, PTL DEF Spec

-----------------------------------------------------------------------------
(* The theorems.                                                           *)

(* Types, and one transformation per span of a request that is through.    *)
THEOREM TypeCorrect == Spec => []TypeOK
<1>1. IInv => TypeOK
  BY DEF IInv
<1>2. QED
  BY <1>1, Inductive, PTL

(* Whatever its rules, overrides and purposes say, a policy is never       *)
(* exceeded by a request it governs (policy_governed.py, policies.py).     *)
THEOREM PolicyIsBinding == Spec => []PolicyBinds
<1>1. IInv => PolicyBinds
  BY DEF IInv
<1>2. QED
  BY <1>1, Inductive, PTL

(* A request blocked for any one of its spans has put none of them in the  *)
(* vault (decision_application.py: block before transforming).             *)
THEOREM BlockedLeavesNothing == Spec => []OnlyAdmittedReachTheVault
<1>1. ASSUME IInv, NEW p \in DOMAIN vault
      PROVE  \E r \in Request :
               /\ Admitted(r) /\ ~Blocks(actions[r])
               /\ \E i \in DOMAIN transformed[r] :
                    /\ transformed[r][i] = p
                    /\ actions[r][i] = "pseudonymize"
                    /\ vault[p] = EntryFor(r, request[r].spans[i])
  <2>1. PICK r \in Request : \E i \in DOMAIN transformed[r] : transformed[r][i] = p
    BY <1>1 DEF IInv, Issued
  <2>2. PICK i \in DOMAIN transformed[r] : transformed[r][i] = p
    BY <2>1
  <2>3. p # Absent
    BY <1>1, ConstantsAssumption DEF IInv, TypeOK
  <2>4. Admitted(r)
    BY <1>1, <2>2 DEF IInv, OnlyAdmittedTransform
  <2>5. ~Blocks(actions[r])
    <3>1. actions[r] \in Seq(DisclosureLevels)
      BY <1>1 DEF IInv, TypeOK
    <3>2. QED
      BY <3>1 DEF Blocks, DisclosureLevels
  <2>6. QED
    BY <1>1, <2>2, <2>3, <2>4, <2>5 DEF IInv, PseudonymsName
<1>2. IInv => OnlyAdmittedReachTheVault
  BY <1>1 DEF OnlyAdmittedReachTheVault
<1>3. QED
  BY <1>2, Inductive, PTL

LEMMA ProducedIn ==
  ASSUME IInv, NEW r \in Request, NEW p \in Produced(r)
  PROVE  /\ Admitted(r) /\ request[r].context \in Context /\ Partition(r) # Absent
         /\ p \in DOMAIN vault /\ vault[p].partition = Partition(r)
<1>1. PICK i \in DOMAIN transformed[r] : transformed[r][i] = p /\ p # Absent
  BY DEF Produced
<1>2. Admitted(r) /\ Partition(r) # Absent
  BY <1>1 DEF IInv, OnlyAdmittedTransform
<1>3. request[r].context \in Context
  BY <1>2 DEF IInv, TypeOK, Asked
<1>4. p \in DOMAIN vault
  BY <1>1 DEF IInv, TypeOK
<1>5. vault[p].partition = Partition(r)
  <2>1. vault[p] = EntryFor(r, request[r].spans[i])
    BY <1>1 DEF IInv, PseudonymsName
  <2>2. QED
    BY <2>1 DEF EntryFor
<1>6. QED
  BY <1>2, <1>3, <1>4, <1>5

(* Two payloads can be linked by a pseudonym only where both contexts'     *)
(* ceilings allow it (policies.py: resolve_pseudonym_scope).               *)
THEOREM LinkingIsBounded == Spec => []LinkedOnlyWithinCeilings
<1>1. ASSUME IInv, NEW r \in Request, NEW q \in Request, NEW p \in Produced(r) \cap Produced(q)
      PROVE  LET scope == vault[p].partition.scope
                 c == request[r].context
                 d == request[q].context
             IN  /\ Within(scope, c) /\ Within(scope, d)
                 /\ c.domain = d.domain
                 /\ scope = "organization" \/ (c.ids[scope] # Absent /\ c.ids[scope] = d.ids[scope])
  <2> DEFINE k == vault[p].partition
             c == request[r].context
             d == request[q].context
  <2>1. c \in Context /\ k = PartitionOf(policies, c) /\ k # Absent
    BY <1>1, ProducedIn DEF Partition
  <2>2. d \in Context /\ k = PartitionOf(policies, d)
    BY <1>1, ProducedIn DEF Partition
  <2>3. /\ Within(k.scope, c) /\ k.domain = c.domain
        /\ k.scope = "organization" \/ (c.ids[k.scope] # Absent /\ k.id = c.ids[k.scope])
    BY <1>1, <2>1, PartitionFacts DEF IInv
  <2>4. /\ Within(k.scope, d) /\ k.domain = d.domain
        /\ k.scope = "organization" \/ (d.ids[k.scope] # Absent /\ k.id = d.ids[k.scope])
    BY <1>1, <2>1, <2>2, PartitionFacts DEF IInv
  <2>5. QED
    BY <2>3, <2>4
<1>2. IInv => LinkedOnlyWithinCeilings
  BY <1>1 DEF LinkedOnlyWithinCeilings
<1>3. QED
  BY <1>2, Inductive, PTL

(* A reconstruction shows originals of its own result, to callers in the   *)
(* partition they were filed under (decision_application.py).              *)
THEOREM ReconstructionIsConfined == Spec => []ShowsOnlyOwn
<1>1. ASSUME IInv, answer # Absent, NEW p \in answer.shown
      PROVE  /\ p \in Produced(answer.of)
             /\ Resolves(policies, answer.by)
             /\ PartitionOf(policies, answer.by) = Partition(answer.of)
  <2>1. answer.of \in Request /\ p \in Resolved(answer.of, answer.by)
    BY <1>1 DEF IInv, AnswersAsResolved
  <2>2. /\ p \in Produced(answer.of) /\ vault[p].partition = PartitionOf(policies, answer.by)
        /\ Resolves(policies, answer.by)
    BY <2>1 DEF Resolved, IsReconstructionAuthorized
  <2>3. QED
    BY <1>1, <2>1, <2>2, ProducedIn
<1>2. IInv => ShowsOnlyOwn
  BY <1>1 DEF ShowsOnlyOwn
<1>3. QED
  BY <1>2, Inductive, PTL

(* The requester gets back every original of its own that is mentioned.    *)
THEOREM RequesterRoundTrip == Spec => []RoundTrip
<1>1. ASSUME IInv, answer # Absent, answer.by = request[answer.of].context,
             Resolves(policies, answer.by), NEW p \in answer.mentioned
      PROVE  p \in answer.shown
  <2>1. answer.of \in Request /\ p \in Produced(answer.of)
    BY <1>1 DEF IInv, AnswersAsResolved
  <2>2. vault[p].partition = PartitionOf(policies, answer.by) /\ PartitionOf(policies, answer.by) # Absent
    BY <1>1, <2>1, ProducedIn DEF Partition
  <2>3. p \in Resolved(answer.of, answer.by)
    BY <1>1, <2>1, <2>2 DEF Resolved, IsReconstructionAuthorized
  <2>4. QED
    BY <1>1, <2>3 DEF IInv, AnswersAsResolved
<1>2. IInv => RoundTrip
  <2>1. IInv /\ answer # Absent => answer.shown \subseteq answer.mentioned
    BY DEF IInv, AnswersAsResolved
  <2>2. QED
    BY <1>1, <2>1 DEF RoundTrip
<1>3. QED
  BY <1>2, Inductive, PTL

(* The more a task needs, the more a governed request discloses, whatever  *)
(* the policy (relevance_selection.py, policy_governed.py).                *)
THEOREM NeedIsMonotone == Spec => []DisclosureIsMonotone
<1>1. IInv => DisclosureIsMonotone
  BY GovernedIsMonotone DEF IInv, DisclosureIsMonotone
<1>2. QED
  BY <1>1, Inductive, PTL

(* What B4 reports as impossible it reports as restricted                  *)
(* (policy_governed.py: _policy_effect).                                   *)
THEOREM ImpossibleImpliesReported == Spec => []ImpossibleIsRestricted
<1>1. ASSUME IInv, NEW c \in Context, NEW category \in Known, NEW level \in Levels,
             B4Action(policies, c, category, level) # "block_request",
             PolicyEffect(category, level, B4Action(policies, c, category, level)).impossible = TRUE
      PROVE  PolicyEffect(category, level, B4Action(policies, c, category, level)).restricted = TRUE
  <2>1. B4Action(policies, c, category, level) \in DisclosureLevels
    BY <1>1, GovernedDecision DEF IInv, Hidden
  <2>2. QED
    BY <1>1, <2>1, ImpossibleImpliesRestricted
<1>2. IInv => ImpossibleIsRestricted
  BY <1>1 DEF ImpossibleIsRestricted
<1>3. QED
  BY <1>2, Inductive, PTL

-----------------------------------------------------------------------------
(* Loading.                                                                *)

Latest(files) == CHOOSE k \in files : \A j \in files : j <= k

(* Of the files read that define a version: an odd number, and the last is *)
(* in force; or an even one, and the last was reported.                    *)
InForce(v) ==
    /\ v \in DOMAIN policies
    /\ policies[v] = directory[Latest(Defining(v))]
    /\ Latest(Defining(v)) \notin loadErrors
Withdrawn(v) ==
    /\ v \notin DOMAIN policies
    /\ Defining(v) # {} => Latest(Defining(v)) \in loadErrors

VersionLoaded(v) ==
    /\ IF Cardinality(Defining(v)) % 2 = 1 THEN InForce(v) ELSE Withdrawn(v)
    /\ Defining(v) # {} => Latest(Defining(v)) \in Defining(v)

LoadInv ==
    /\ \A i \in 1..read : directory[i] = Unreadable => i \in loadErrors
    /\ \A v : VersionLoaded(v)

LEMMA LoadInitially == Init => LoadInv
<1> SUFFICES ASSUME Init PROVE LoadInv
  OBVIOUS
<1>1. 1..read = {} /\ \A v : Defining(v) = {}
  BY DEF Init, Defining
<1>2. ~(Cardinality({}) % 2 = 1)
  BY FS_EmptySet
<1>3. QED
  BY <1>1, <1>2 DEF Init, LoadInv, VersionLoaded, Withdrawn

LEMMA DefiningIsFinite ==
  ASSUME IInv, NEW v
  PROVE  /\ Defining(v) \subseteq 1..read /\ IsFiniteSet(Defining(v))
         /\ Cardinality(Defining(v)) \in Nat
<1>1. read \in Nat
  BY ConstantsAssumption DEF IInv, TypeOK
<1>2. IsFiniteSet(1..read) /\ Defining(v) \in SUBSET (1..read)
  BY <1>1, FS_Interval DEF Defining
<1>3. QED
  BY <1>2, FS_Subset, FS_CardinalityType

LEMMA LoadStep == IInv /\ LoadInv /\ [Next]_vars => LoadInv'
<1> SUFFICES ASSUME IInv, LoadInv, [Next]_vars PROVE LoadInv'
  OBVIOUS
<1>1. CASE UNCHANGED loadVars
  BY <1>1 DEF loadVars, LoadInv, VersionLoaded, InForce, Withdrawn, Defining
<1>2. CASE ReadFile
  <2> DEFINE new == read + 1
             file == directory[new]
  <2>1. /\ read \in Nat /\ read' = new /\ directory' = directory
        /\ loadErrors \subseteq 1..read
    BY <1>2, ConstantsAssumption DEF IInv, TypeOK, ReadFile
  <2>2. \A i \in 1..read' : directory'[i] = Unreadable => i \in loadErrors'
    BY <1>2, <2>1 DEF LoadInv, ReadFile
  <2>3. ASSUME NEW v, file = Unreadable \/ file.version # v PROVE VersionLoaded(v)'
    <3>1. Defining(v)' = Defining(v)
      BY <2>1, <2>3 DEF Defining
    <3>2. new \notin Defining(v) /\ loadErrors' \in {loadErrors, loadErrors \cup {new}}
      BY <1>2, <2>1 DEF Defining, ReadFile
    <3>3. /\ v \in DOMAIN policies' <=> v \in DOMAIN policies
          /\ v \in DOMAIN policies => policies'[v] = policies[v]
      BY <1>2, <2>3 DEF ReadFile
    <3>4. VersionLoaded(v)
      BY DEF LoadInv
    <3>5. CASE Defining(v) = {}
      <4>1. ~(Cardinality(Defining(v)) % 2 = 1)
        BY <3>5, FS_EmptySet
      <4>2. QED
        BY <3>1, <3>3, <3>4, <3>5, <4>1 DEF VersionLoaded, Withdrawn
    <3>6. CASE Defining(v) # {}
      <4> DEFINE last == Latest(Defining(v))
      <4>1. last \in Defining(v) /\ last # new
        BY <3>2, <3>4, <3>6 DEF VersionLoaded
      <4>2. Latest(Defining(v))' = last
        BY <3>1 DEF Latest
      <4> HIDE DEF last
      <4>3. last \in loadErrors' <=> last \in loadErrors
        BY <3>2, <4>1
      <4>4. QED
        BY <2>1, <3>1, <3>3, <3>4, <4>1, <4>2, <4>3
        DEF VersionLoaded, InForce, Withdrawn, last
    <3>7. QED
      BY <3>5, <3>6
  <2>4. ASSUME NEW v, file # Unreadable, file.version = v PROVE VersionLoaded(v)'
    <3>1. Defining(v)' = Defining(v) \cup {new} /\ new \notin Defining(v)
      BY <2>1, <2>4 DEF Defining
    <3>2. Latest(Defining(v) \cup {new}) = new
      <4>1. \A j \in Defining(v) \cup {new} : j \in Nat /\ j <= new
        BY <2>1, DefiningIsFinite
      <4>2. QED
        BY <2>1, <4>1 DEF Latest
    <3>3. /\ Cardinality(Defining(v)) \in Nat
          /\ Cardinality(Defining(v) \cup {new}) = Cardinality(Defining(v)) + 1
      BY <3>1, DefiningIsFinite, FS_AddElement
    <3>4. Cardinality(Defining(v) \cup {new}) % 2 = 1 <=> ~(Cardinality(Defining(v)) % 2 = 1)
      BY <3>3
    <3>5. VersionLoaded(v)
      BY DEF LoadInv
    <3>6. CASE v \in DOMAIN policies
      <4>1. ~(Cardinality(Defining(v) \cup {new}) % 2 = 1)
        BY <3>4, <3>5, <3>6 DEF VersionLoaded, Withdrawn
      <4>2. v \notin DOMAIN policies' /\ new \in loadErrors'
        BY <1>2, <2>4, <3>6 DEF ReadFile
      <4>3. QED
        BY <3>1, <3>2, <4>1, <4>2 DEF VersionLoaded, Withdrawn
    <3>7. CASE v \notin DOMAIN policies
      <4>1. Cardinality(Defining(v) \cup {new}) % 2 = 1
        BY <3>4, <3>5, <3>7 DEF VersionLoaded, InForce
      <4>2. v \in DOMAIN policies' /\ policies'[v] = file /\ loadErrors' = loadErrors
        BY <1>2, <2>4, <3>7 DEF ReadFile
      <4>3. new \notin loadErrors'
        BY <2>1, <4>2
      <4>4. QED
        BY <2>1, <3>1, <3>2, <4>1, <4>2, <4>3 DEF VersionLoaded, InForce
    <3>8. QED
      BY <3>6, <3>7
  <2>5. QED
    BY <2>2, <2>3, <2>4 DEF LoadInv
<1>3. CASE \E r \in Request : Sanitize(r) \/ TransformSpan(r) \/ Reconstruct(r)
  BY <1>1, <1>3 DEF Sanitize, TransformSpan, Reconstruct
<1>4. CASE UNCHANGED vars
  BY <1>1, <1>4 DEF vars, loadVars
<1>5. QED
  BY <1>2, <1>3, <1>4 DEF Next

(* What loading makes of any directory, whether or not it should: a        *)
(* version is in force exactly if an odd number of the files read define   *)
(* it -- the second withdraws it, a third brings it back -- with the last  *)
(* of them, which is reported otherwise; so is an unreadable file.         *)
LoadedByParity ==
    /\ \A i \in 1..read : directory[i] = Unreadable => i \in loadErrors
    /\ \A i \in 1..read : directory[i] # Unreadable =>
         LET v == directory[i].version
         IN  IF Cardinality(Defining(v)) % 2 = 1 THEN InForce(v) ELSE Withdrawn(v)

(* Of any directory: what is in force is decided by the parity of the      *)
(* files of its version, and so every version of three files is in force   *)
(* (policies.py, from_directory), against what AmbiguousIsBlocked asks.    *)
THEOREM LoadingIsByParity == Spec => []LoadedByParity
<1>1. LoadInv => LoadedByParity
  BY DEF LoadInv, LoadedByParity, VersionLoaded
<1>2. QED
  BY Inductive, LoadInitially, LoadStep, <1>1, PTL DEF Spec
=============================================================================
