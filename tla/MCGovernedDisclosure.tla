------------------------ MODULE MCGovernedDisclosure ------------------------
EXTENDS GovernedDisclosure, TLC
CONSTANTS r1, r2

Hard(action) == [action |-> action, allowed |-> {}, purposeActions |-> <<>>, overrides |-> <<>>]
Override(action, allowed, role, purpose) ==
    [action |-> action, allowed |-> allowed, role |-> role, purpose |-> purpose,
     provider |-> Absent]

\* The shape of configs/policies/hr-v2.yaml, with an ambiguity, an invalid
\* space, and an override whose space the purpose's replaces.
HrRules ==
    [cpf |-> Hard("pseudonymize"),
     salary |-> [action |-> "task_dependent", allowed |-> {"remove", "generalize"},
                 purposeActions |-> [salary_analysis |-> {"remove", "generalize", "preserve"},
                                     other |-> {"remove", "generalize"}],
                 overrides |-> <<Override("remove", {}, "hr_viewer", Absent),
                                 Override("task_dependent", {"preserve"}, "hr_admin", Absent)>>],
     department |-> [action |-> "task_dependent", allowed |-> {"preserve", "block_request"},
                     purposeActions |-> <<>>,
                     overrides |-> <<Override("preserve", {}, "hr_viewer", Absent),
                                     Override("preserve", {}, Absent, "salary_analysis")>>]]
HrScopes ==
    [default |-> "session",
     roleMax |-> [hr_viewer |-> "request", hr_admin |-> "organization"],
     userMax |-> [eve |-> "document"]]
Hr1 == [version |-> "hr-v1", domain |-> "hr", rules |-> HrRules, scope |-> HrScopes]
Hr1Lax == [Hr1 EXCEPT !.rules = [cpf |-> Hard("preserve")]]
Contracts == [Hr1 EXCEPT !.version = "contracts-v1", !.domain = "contracts"]

MCDocument == {Hr1, Hr1Lax, Contracts}
MCDirectory == {<<Hr1, Contracts>>, <<Hr1Lax, Unreadable, Hr1Lax>>, <<Hr1Lax, Hr1, Hr1>>}

Ids(q, d, s) == [request |-> q, document |-> d, session |-> s]
Viewer ==
    [domain |-> "hr", purpose |-> "salary_analysis", role |-> "hr_viewer", user |-> Absent,
     provider |-> "external_llm", version |-> "hr-v1", requested |-> "session",
     ids |-> Ids("q1", Absent, "s1")]
Eve == [Viewer EXCEPT !.role = "hr_admin", !.user = "eve", !.requested = "organization",
                      !.purpose = "other", !.ids = Ids("q2", "d1", "s1")]
Analyst == [Viewer EXCEPT !.role = Absent]
Stray == [Analyst EXCEPT !.domain = "contracts"]
Anonymous == [Analyst EXCEPT !.ids = Ids("q3", Absent, Absent)]
MCContext == {Viewer, Eve, Analyst, Stray, Anonymous}

Span(category, value) == [category |-> category, value |-> value]
MCSpanLists ==
    {<<>>, <<Span("cpf", "x")>>, <<Span("cpf", "y"), Span("salary", "nine")>>,
     <<Span("department", "it"), Span("salary", "9000")>>}

Symmetry == Permutations(Request)
=============================================================================
