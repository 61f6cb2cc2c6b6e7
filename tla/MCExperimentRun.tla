-------------------------- MODULE MCExperimentRun --------------------------
EXTENDS ExperimentRun
CONSTANTS run1, run2

\* Two points to the unit; bands of two units, so four amounts to a band.
MCBandWidth == [c \in BandCategories |-> 2]

Token(category, start, value) ==
    [category |-> category, start |-> start, end |-> start + 2, value |-> value]
Annotated(token, required, actions) ==
    [category |-> token.category, start |-> token.start, end |-> token.end,
     value |-> token.value, required |-> required, actions |-> actions]
Reference(category, operator, points) ==
    [category |-> category, operator |-> operator, points |-> points]

Context == [providerClass |-> "external_llm", session |-> Absent]
Input(id, domain, family, tokens) ==
    [id |-> id, domain |-> domain, family |-> family, context |-> Context, tokens |-> tokens,
     figures |-> {}, sensitiveTask |-> FALSE]
Oracle(id, spans, depends, references) ==
    [id |-> id, spans |-> spans, block |-> FALSE, answered |-> TRUE, reconstruction |-> <<>>,
     depends |-> depends, relations |-> {}, references |-> references]
File(input, oracle) == [stem |-> input.id, readable |-> TRUE, input |-> input, oracle |-> oracle]

\* Two salaries of one band, and a figure the rules may take for a third,
\* before them and partly under the first.
First == Token("salary", 3, Amount("dotted", 5))
Second == Token("salary", 9, Amount("brazil", 7))
Spurious == Token("salary", 2, Amount("dotted", 9))
Salaries(references) ==
    File(Input("hr1", "hr", "authorized_salary_analysis", {First, Second, Spurious}),
         Oracle("hr1", <<Annotated(Second, TRUE, {"preserve", "generalize"}),
                         Annotated(First, FALSE, {"generalize"})>>,
                {"salary"}, references))
Decidable == Salaries(<<Reference("salary", "ge", 4), Reference("salary", "lt", 8)>>)
Undecidable == Salaries(<<Reference("salary", "gt", 4)>>)

\* Party names that can be restored, next to an amount only v3 can read.
Party == Token("party_name", 0, Text("Acme"))
Value == Token("contract_value", 6, Amount("lenient", 6))
ContractInput(family, tokens) == Input("ct1", "contracts", family, tokens)
Contract ==
    File([ContractInput("contract_value_audit", {Party, Value}) EXCEPT
            !.figures = {[start |-> 6, end |-> 8, points |-> 6],
                         [start |-> 20, end |-> 22, points |-> 9]}],
         [Oracle("ct1", <<Annotated(Party, FALSE, {"remove", "pseudonymize"}),
                          Annotated(Value, TRUE, {"generalize"})>>,
                 {"party_name", "contract_value"}, Absent)
            EXCEPT !.reconstruction = <<[category |-> "party_name", reconstructable |-> TRUE]>>])

\* A deadline is needed to the day.
Deadline == Token("deadline", 0, Date("unpadded", 2024, 3, 5))
Tracking ==
    File(ContractInput("deadline_tracking", {Deadline}),
         [Oracle("ct1", <<Annotated(Deadline, TRUE, {"preserve"})>>, {"deadline"}, Absent)
            EXCEPT !.relations = {[obligor |-> "a", obligee |-> "b", depends |-> {"deadline"}]}])

\* A case that must be blocked, and one whose task is sensitive.
Medical == Token("medical_data", 0, Text("flu"))
Prohibited ==
    File([Input("hr2", "hr", "medical_or_prohibited_block", {Medical}) EXCEPT !.sensitiveTask = TRUE],
         [Oracle("hr2", <<Annotated(Medical, FALSE, {"block_request"})>>, Absent, Absent)
            EXCEPT !.block = TRUE, !.answered = FALSE])

\* Small ones: nothing to find, and one name.
Name == Token("employee_name", 0, Text("Ana"))
Plain(id) ==
    File(Input(id, "hr", "team_summary_without_salary", {}),
         Oracle(id, <<Annotated(Name, FALSE, {"remove"})>>, {}, Absent))

Unreadable == [Plain("hr9") EXCEPT !.readable = FALSE]
Stray == [Plain("hr9") EXCEPT !.stem = "hr8"]
\* Depends on an amount without references: v4 and v5 refuse it.
Legacy(id) ==
    File([Plain(id).input EXCEPT !.tokens = {}],
         Oracle(id, <<Annotated(First, TRUE, {"generalize"})>>, {"salary"}, Absent))

Invocation(files, protocol, treatments, id) ==
    [files |-> files, protocol |-> protocol, treatments |-> treatments, id |-> id,
     provider |-> "fake", class |-> "external_llm", compare |-> Absent]

One(files, protocol, treatments) == <<Invocation(files, protocol, treatments, run1)>>
With(invocations, provider) == [invocations EXCEPT ![1].provider = provider]

\* One rich case and few treatments, or small cases and the whole procedure.
RichSessions ==
    {With(One(<<Decidable>>, "v5", <<"b4">>), "bare"),
     One(<<Undecidable>>, "v5", <<"b2", "b3">>),
     One(<<Undecidable>>, "v4", <<"b1">>),
     One(<<Contract>>, "v3", <<"b3", "b4">>),
     One(<<Contract>>, "v3", <<"b0", "b1", "b2">>),
     One(<<Tracking>>, "v5", <<"b2", "b3", "b4">>),
     One(<<Prohibited>>, "v4", <<"b0", "b1", "b4">>)}

Small == Invocation(<<Plain("hr1"), Plain("hr2")>>, "v5", <<"b1", "b2">>, run1)
Compared == [Small EXCEPT !.files = <<Plain("hr1")>>, !.compare = "salary"]
Wrapped == [Small EXCEPT !.provider = "wrapped", !.files = <<Plain("hr1")>>]
RefusedFiles ==
    {<<Unreadable>>, <<Stray>>, <<Plain("hr1"), Legacy("hr2")>>, <<Legacy("hr1")>>, <<Contract>>}
Misdirected == [Small EXCEPT !.provider = "bare", !.class = "internal_llm"]

Sessions ==
    RichSessions
    \cup {<<Compared, Small>>, <<Compared, [Small EXCEPT !.id = run2]>>, <<Wrapped, Compared>>,
          <<Misdirected, Wrapped>>, <<[Small EXCEPT !.provider = "bare"]>>,
          <<[Small EXCEPT !.files = <<>>]>>, <<[Small EXCEPT !.protocol = "v2"], Small>>}
    \cup {One(files, "v5", <<"b1">>) : files \in RefusedFiles}
=============================================================================
