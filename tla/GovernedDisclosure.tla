------------------------- MODULE GovernedDisclosure -------------------------
(***************************************************************************)
(* The governed treatments over one policy repository and one vault: the   *)
(* repository reads its directory file by file (PolicyRepository.          *)
(* from_directory), then requests are sanitized, span by span, and their   *)
(* answers reconstructed (transformations/decision_application.py).        *)
(*                                                                         *)
(* Requests interleave between two spans.  One vault call is one step, as  *)
(* VaultContract promises; InMemoryVault models its inside.  A pseudonym   *)
(* is the number of the vault entry it stands for.                         *)
(***************************************************************************)
EXTENDS PolicyEngine, Sequences, FiniteSets

CONSTANTS Request,    \* requests, each sanitized once
          Context,    \* the governance contexts they may carry
          SpanLists,  \* the detections they may have, overlaps resolved
          Parseable,  \* the values a generalization strategy can parse
          Document,   \* the policy documents
          Unreadable, \* a file that is no valid policy document
          Directory   \* the policy directories: sequences of files

\* What pydantic validates of a policy document, as far as it matters here.
IsAction(x) == x.action \in DisclosureActions /\ x.allowed \subseteq DisclosureActions
IsRule(rule) ==
    /\ IsAction(rule)
    /\ \A p \in DOMAIN rule.purposeActions : rule.purposeActions[p] \subseteq DisclosureActions
    /\ \A i \in DOMAIN rule.overrides : IsAction(rule.overrides[i])
IsScopePolicy(s) ==
    /\ s.default \in DOMAIN ScopeRank
    /\ \A k \in DOMAIN s.roleMax : s.roleMax[k] \in DOMAIN ScopeRank
    /\ \A k \in DOMAIN s.userMax : s.userMax[k] \in DOMAIN ScopeRank

ASSUME DocumentAssumption ==
    \A d \in Document :
      /\ \A category \in DOMAIN d.rules : IsRule(d.rules[category])
      /\ IsScopePolicy(d.scope)

ASSUME ConstantsAssumption ==
    /\ SpanLists \subseteq Seq([category : STRING, value : STRING])
    /\ Directory \subseteq Seq(Document \cup {Unreadable})
    /\ Unreadable \notin Document
    /\ \A c \in Context : c.requested \in DOMAIN ScopeRank
    /\ Absent \notin Nat /\ Absent \notin DisclosureLevels

VARIABLES directory,  \* the directory being read
          read,       \* how many of its files have been read
          policies,   \* PolicyRepository._policies
          loadErrors, \* PolicyRepository._load_errors: the files reported
          vault,      \* the vault's entries, in the order they were issued
          request,    \* what was asked: treatment, context and spans
          actions,    \* the action decided for each span
          pc,         \* where the request is
          transformed,\* the transformations so far: a pseudonym or Absent
          answer      \* the last reconstruction: who asked, and what it showed

loadVars == <<directory, read, policies, loadErrors>>
requestVars == <<request, actions, pc, transformed>>
vars == <<directory, read, policies, loadErrors, vault, request, actions, pc,
          transformed, answer>>

Treatments == {"b2", "b3", "b4"}

Init ==
    /\ directory \in Directory
    /\ read = 0
    /\ policies = [v \in {} |-> Absent]
    /\ loadErrors = {}
    /\ vault = <<>>
    /\ request = [r \in Request |-> Absent]
    /\ actions = [r \in Request |-> <<>>]
    /\ pc = [r \in Request |-> "new"]
    /\ transformed = [r \in Request |-> <<>>]
    /\ answer = Absent

-----------------------------------------------------------------------------
(* Loading.  A file that cannot be read is reported and skipped; one whose *)
(* version is already loaded is reported and takes that version away.      *)

ReadFile ==
    /\ read < Len(directory)
    /\ read' = read + 1
    /\ LET file == directory[read + 1] IN
         \/ /\ file = Unreadable
            /\ loadErrors' = loadErrors \cup {read + 1}
            /\ UNCHANGED policies
         \/ /\ file # Unreadable /\ file.version \in DOMAIN policies
            /\ loadErrors' = loadErrors \cup {read + 1}
            /\ policies' = [v \in DOMAIN policies \ {file.version} |-> policies[v]]
         \/ /\ file # Unreadable /\ file.version \notin DOMAIN policies
            /\ policies' = [v \in DOMAIN policies \cup {file.version} |->
                              IF v = file.version THEN file ELSE policies[v]]
            /\ UNCHANGED loadErrors
    /\ UNCHANGED <<directory, vault, answer, requestVars>>

-----------------------------------------------------------------------------
(* Sanitizing.                                                             *)

Categories(spans) == {spans[i].category : i \in DOMAIN spans}

ActionFor(t, c, category, relevance) ==
    IF t = "b2" THEN B2Action(category)
    ELSE IF \E k \in DOMAIN relevance : relevance[k] = Absent THEN "block_request"
    ELSE IF t = "b3" THEN B3Action(category, relevance[category])
    ELSE B4Action(policies, c, category, relevance[category])

(* A generalization that is not configured, or cannot parse the value,     *)
(* blocks instead.                                                         *)
Downgraded(action, span) ==
    IF action = "generalize" /\ ~(span.category \in Configured /\ span.value \in Parseable)
    THEN "block_request" ELSE action

Decisions(t, c, spans, relevance) ==
    [i \in DOMAIN spans |->
       Downgraded(ActionFor(t, c, spans[i].category, relevance), spans[i])]

\* Looks at the first decision only.
BlocksMutant1(decided) == decided # <<>> /\ decided[1] = "block_request"

Blocks(decided) == \E i \in DOMAIN decided : decided[i] = "block_request"

Block(r) ==
    /\ pc' = [pc EXCEPT ![r] = "blocked"]
    /\ UNCHANGED <<request, actions>>

Admit(r, t, c, spans, decided) ==
    /\ pc' = [pc EXCEPT ![r] = IF spans = <<>> THEN "allowed" ELSE "applying"]
    /\ request' = [request EXCEPT ![r] = [treatment |-> t, context |-> c, spans |-> spans]]
    /\ actions' = [actions EXCEPT ![r] = decided]

\* Takes up the spans before it looks whether one of them blocks.
SanitizeMutant1(r) ==
    /\ read = Len(directory)
    /\ pc[r] = "new"
    /\ \E t \in Treatments, c \in Context, spans \in SpanLists :
         \E relevance \in [Categories(spans) -> Levels \cup {Absent}] :
           IF PartitionOf(policies, c) = Absent
           THEN Block(r) ELSE Admit(r, t, c, spans, Decisions(t, c, spans, relevance))
    /\ UNCHANGED <<loadVars, vault, transformed, answer>>

(* The decisions of a request are all taken, and the partition resolved,   *)
(* before any span is transformed.  A relevance of None stands for an      *)
(* analyzer that raised or left the category out; the first alternative is *)
(* a detection that does not fit the text.                                 *)
Sanitize(r) ==
    /\ read = Len(directory)
    /\ pc[r] = "new"
    /\ \/ Block(r)
       \/ \E t \in Treatments, c \in Context, spans \in SpanLists :
            \E relevance \in [Categories(spans) -> Levels \cup {Absent}] :
              LET decided == Decisions(t, c, spans, relevance) IN
                IF Blocks(decided) \/ PartitionOf(policies, c) = Absent
                THEN Block(r) ELSE Admit(r, t, c, spans, decided)
    /\ UNCHANGED <<loadVars, vault, transformed, answer>>

Partition(r) == PartitionOf(policies, request[r].context)
EntryFor(r, span) ==
    [partition |-> Partition(r), category |-> span.category, value |-> span.value]

(* One round of _allowed_result's loop; the vault answers an entry it      *)
(* knows with its pseudonym and issues a new one otherwise.                *)
TransformSpan(r) ==
    LET i == Len(transformed[r]) + 1
        span == request[r].spans[i]
        entry == EntryFor(r, span)
        known == {p \in DOMAIN vault : vault[p] = entry}
    IN  /\ pc[r] = "applying"
        /\ \/ /\ actions[r][i] # "pseudonymize"
              /\ transformed' = [transformed EXCEPT ![r] = Append(@, Absent)]
              /\ UNCHANGED vault
           \/ /\ actions[r][i] = "pseudonymize" /\ known # {}
              /\ \E p \in known : transformed' = [transformed EXCEPT ![r] = Append(@, p)]
              /\ UNCHANGED vault
           \/ /\ actions[r][i] = "pseudonymize" /\ known = {}
              /\ vault' = Append(vault, entry)
              /\ transformed' = [transformed EXCEPT ![r] = Append(@, Len(vault) + 1)]
        /\ pc' = [pc EXCEPT ![r] = IF i = Len(request[r].spans) THEN "allowed" ELSE @]
        /\ UNCHANGED <<loadVars, request, actions, answer>>

-----------------------------------------------------------------------------
(* Reconstruction: the pseudonyms this result produced, those of them that *)
(* the caller's own partition resolves, and of these the ones the text     *)
(* mentions.                                                               *)

Produced(r) == {transformed[r][i] : i \in DOMAIN transformed[r]} \ {Absent}

\* Resolves whatever the caller's partition holds, not only this result's.
ResolvedMutant1(r, c) ==
    IF ~IsReconstructionAuthorized(policies, c) \/ PartitionOf(policies, c) = Absent THEN {}
    ELSE {p \in DOMAIN vault : vault[p].partition = PartitionOf(policies, c)}

\* Looks in the scope the caller asks for instead of the one it is granted.
ResolvedMutant2(r, c) ==
    IF ~IsReconstructionAuthorized(policies, c) THEN {}
    ELSE {p \in Produced(r) : vault[p].partition = ScopeKey(c.requested, c)}

Resolved(r, c) ==
    IF ~IsReconstructionAuthorized(policies, c) \/ PartitionOf(policies, c) = Absent THEN {}
    ELSE {p \in Produced(r) : vault[p].partition = PartitionOf(policies, c)}

Reconstruct(r) ==
    /\ pc[r] = "allowed"
    /\ \E c \in Context, text \in SUBSET DOMAIN vault :
         answer' = [of |-> r, by |-> c, shown |-> text \cap Resolved(r, c),
                    mentioned |-> text \cap Produced(r)]
    /\ UNCHANGED <<loadVars, vault, requestVars>>

-----------------------------------------------------------------------------
Next == ReadFile \/ \E r \in Request : Sanitize(r) \/ TransformSpan(r) \/ Reconstruct(r)

Spec == Init /\ [][Next]_vars

-----------------------------------------------------------------------------
(* Properties.                                                             *)

Admitted(r) == pc[r] \in {"applying", "allowed"}

(* Types; and a request that is through has one transformation per span.   *)
Asked == [treatment : Treatments, context : Context, spans : SpanLists]
Entry == [partition : {PartitionOf(policies, c) : c \in Context}, category : STRING, value : STRING]
TypeOK ==
    /\ directory \in Directory
    /\ read \in 0..Len(directory)
    /\ loadErrors \subseteq 1..read
    /\ vault \in Seq(Entry)
    /\ pc \in [Request -> {"new", "blocked", "applying", "allowed"}]
    /\ request \in [Request -> Asked \cup {Absent}]
    /\ actions \in [Request -> Seq(DisclosureLevels)]
    /\ transformed \in [Request -> Seq(DOMAIN vault \cup {Absent})]
    /\ \A r \in Request : Admitted(r) =>
         /\ request[r] \in Asked
         /\ Len(actions[r]) = Len(request[r].spans)
         /\ IF pc[r] = "allowed" THEN Len(transformed[r]) = Len(request[r].spans)
            ELSE Len(transformed[r]) < Len(request[r].spans)

(* The files read that define a version.                                   *)
Defining(v) == {i \in 1..read : directory[i] # Unreadable /\ directory[i].version = v}

(* Missing, invalid or ambiguous policy resolution blocks the request (ADR *)
(* 0001, decision 2): a governed request with anything to decide is let    *)
(* through only under a version that exactly one file defines.  Loading    *)
(* withdraws a version at its second file, and forgets that it did: a      *)
(* third is taken for the first (policies.py, from_directory).             *)
AmbiguousIsBlocked ==
    \A r \in Request :
      Admitted(r) /\ request[r].treatment = "b4" /\ request[r].spans # <<>> =>
        Cardinality(Defining(request[r].context.version)) = 1

(* A policy-governed request discloses nothing its policy does not permit. *)
PolicyBinds ==
    \A r \in Request : Admitted(r) /\ request[r].treatment = "b4" =>
      \A i \in DOMAIN request[r].spans :
        Permits(policies, request[r].context, request[r].spans[i].category, actions[r][i])

(* A request that is blocked, for any of its spans or for want of a        *)
(* partition, leaves nothing behind: every entry of the vault is there for *)
(* a span of a request that was let through, in that request's partition.  *)
OnlyAdmittedReachTheVault ==
    \A p \in DOMAIN vault : \E r \in Request :
      /\ Admitted(r) /\ ~Blocks(actions[r])
      /\ \E i \in DOMAIN transformed[r] :
           /\ transformed[r][i] = p
           /\ actions[r][i] = "pseudonymize"
           /\ vault[p] = EntryFor(r, request[r].spans[i])

(* Two requests whose payloads carry the same pseudonym, and can be linked *)
(* by it, are in one domain and share the identifier of a scope which both *)
(* asked for at least and neither one's ceiling forbids.                   *)
Within(scope, c) ==
    /\ ScopeRank[scope] <= ScopeRank[c.requested] \/ scope = "request"
    /\ IF Resolves(policies, c)
       THEN ScopeRank[scope] <= ScopeRank[Ceiling(policies[c.version].scope, c)]
       ELSE scope = "request"
LinkedOnlyWithinCeilings ==
    \A r, q \in Request : \A p \in Produced(r) \cap Produced(q) :
      LET scope == vault[p].partition.scope
          c == request[r].context
          d == request[q].context
      IN  /\ Within(scope, c) /\ Within(scope, d)
          /\ c.domain = d.domain
          /\ scope = "organization" \/ (c.ids[scope] # Absent /\ c.ids[scope] = d.ids[scope])

(* A reconstruction shows the originals of this result only, never those   *)
(* of another one its text happens to mention, and only to a caller whom a *)
(* policy authorizes and whose own partition holds them.                   *)
ShowsOnlyOwn ==
    answer # Absent =>
      /\ answer.shown \subseteq Produced(answer.of)
      /\ answer.shown # {} =>
           /\ Resolves(policies, answer.by)
           /\ PartitionOf(policies, answer.by) = Partition(answer.of)

(* A caller with the context of the request gets every original back that  *)
(* its text mentions, unless its policy does not resolve: the partition is *)
(* recomputed, and must come out the same.                                 *)
RoundTrip ==
    /\ answer # Absent
    /\ answer.by = request[answer.of].context
    /\ Resolves(policies, answer.by)
    => answer.shown = answer.mentioned

(* The more a task needs, the more a governed request discloses.  This and *)
(* the next are about the policies alone, which no request changes.        *)
NothingAsked == \A r \in Request : pc[r] = "new"
DisclosureIsMonotone ==
    NothingAsked =>
      \A c \in Context, category \in Known : NeedDiscloses(policies, c, category)

(* What B4 reports as impossible under the policy it also reports as       *)
(* restricted by it.                                                       *)
ImpossibleIsRestricted ==
    NothingAsked =>
      \A c \in Context, category \in Known, level \in Levels :
        LET chosen == B4Action(policies, c, category, level)
            effect == PolicyEffect(category, level, chosen)
        IN  chosen # "block_request" /\ effect.impossible = TRUE => effect.restricted = TRUE
=============================================================================
