-------------------------- MODULE MCGatewayService --------------------------
EXTENDS GatewayService, TLC
CONSTANTS w1, w2, c1, c2

\* One policy per domain; in hr a manager may link a whole organization.
Scopes(default, roleMax) == [default |-> default, roleMax |-> roleMax, userMax |-> <<>>]
Policy(version, domain, scope) ==
    [version |-> version, domain |-> domain, rules |-> <<>>, scope |-> scope]
MCPolicies ==
    [p \in {"hr-v1", "contracts-v1"} |->
       IF p = "hr-v1"
       THEN Policy(p, "hr", Scopes("session", [hr_manager |-> "organization",
                                               hr_viewer |-> "document"]))
       ELSE Policy(p, "contracts", Scopes("session", <<>>))]

-----------------------------------------------------------------------------
\* Environments.
Key(n) == [id |-> n, long |-> TRUE]
ShortKey == [id |-> 0, long |-> FALSE]
Unset == [f \in {"domain", "purpose", "policy_version", "requester_role", "session_id"} |-> Absent]
Plain ==
    [provider |-> Absent, model |-> Absent, effort |-> Absent, thinking |-> Absent,
     tokens |-> Absent, timeout |-> Absent, baseUrl |-> Absent, signerSecret |-> Absent,
     restoreSecret |-> Absent, handleTTL |-> Absent, explorer |-> Absent, maxUpload |-> Absent,
     defaults |-> Unset, credential |-> Absent, sdk |-> TRUE, corpus |-> TRUE, parser |-> TRUE]
External == [Plain EXCEPT !.provider = "anthropic", !.signerSecret = Key(9), !.credential = "key"]

\* Texts and files; a character is a byte here, and three are too many.
Cpf(v) == [category |-> "cpf", value |-> v]
Of(values) == [chars |-> 1, bytes |-> 1, blank |-> FALSE, values |-> values]
Blank == [Of({}) EXCEPT !.blank = TRUE]
Long == [Of({}) EXCEPT !.chars = 3]
Wide == [Of({}) EXCEPT !.bytes = 3]
File(extension, text) ==
    [extension |-> extension, bytes |-> 1, utf8 |-> TRUE, text |-> text]

Body == [text |-> Absent, filename |-> Absent, file |-> Absent, example |-> Absent,
         task |-> "summarize", strategy |-> Absent, governance |-> NoOverrides]
Pasted(text) == [Body EXCEPT !.text = text]
Uploaded(file) == [Body EXCEPT !.filename = "name", !.file = file]
Example(text) ==
    [found |-> TRUE, text |-> text, task |-> "summarize",
     governance |-> [NoOverrides EXCEPT !.domain = "hr", !.purpose = "salary_analysis",
                       !.policy_version = "hr-v1", !.requester_role = "hr_viewer",
                       !.requested_pseudonym_scope = "session",
                       !.provider_class = "external_llm"]]
Prepared == [Body EXCEPT !.example = Example(Of({Cpf("e")})), !.task = Absent]
Form(type, mode, file) ==
    [document_type |-> type, analysis_mode |-> mode, file |-> file, task |-> "summarize",
     strategy |-> Absent]

Ask(route, body) ==
    [route |-> route, declared |-> Absent, size |-> 1, valid |-> TRUE, body |-> body]
Probe(route) == [Ask(route, Absent) EXCEPT !.size = 0]
Sized(request, declared, size) == [request EXCEPT !.declared = declared, !.size = size]
Overriding(body, field, value) == [body EXCEPT !.governance[field] = value]

-----------------------------------------------------------------------------
\* Export and restore: processes with one secret or another or none.
Pdf(values) == File("pdf", Of(values))
Restoring ==
    [envs |-> {[External EXCEPT !.restoreSecret = Key(1), !.handleTTL = 2],
               [Plain EXCEPT !.restoreSecret = Key(2)], Plain},
     requests |-> {Ask("export", Form("contract", Absent, Pdf({Cpf("a"), Cpf("b")}))),
                   Ask("restore", Absent), [Ask("restore", Absent) EXCEPT !.valid = FALSE]},
     workers |-> 2, conns |-> 1, starts |-> 2, exchanges |-> 2, time |-> 4]

\* The explorer: two connections that share a vault, one of them asking in
\* two scopes, of which one is too wide.
Exploring ==
    LET record == Overriding(Pasted(Of({Cpf("a")})), "requester_role", "hr_manager")
    IN  [envs |-> {[Plain EXCEPT !.explorer = "1"], [Plain EXCEPT !.explorer = "true"]},
         requests |-> {Ask("preview", record),
                       Ask("preview", Overriding(record, "requested_pseudonym_scope",
                                                 "organization")),
                       Ask("document_preview", Form("hr_record", Absent, Pdf({Cpf("a")}))),
                       Ask("explore", Absent)},
         workers |-> 1, conns |-> 2, starts |-> 2, exchanges |-> 3, time |-> 2]

\* Bodies at and beyond the limit, and everything that makes no request.
Limiting ==
    [envs |-> {[Plain EXCEPT !.maxUpload = 2], [Plain EXCEPT !.maxUpload = Malformed],
               [Plain EXCEPT !.maxUpload = 0, !.parser = FALSE, !.corpus = FALSE]},
     requests |->
       {Sized(Ask("preview", Pasted(Of({}))), d, s) :
          d \in {Absent, 2, 4}, s \in {2, 3, 4}}
       \cup {Sized(Probe("health"), 4, 0), Probe("examples"), Probe("strategies"),
             Probe("types"), [Ask("preview", Absent) EXCEPT !.valid = FALSE]}
       \cup {Ask("preview", body) :
               body \in {Pasted(Blank), Pasted(Long), Pasted(Wide), Body, Prepared,
                         [Pasted(Of({})) EXCEPT !.task = Absent],
                         [Pasted(Of({})) EXCEPT !.filename = "name"],
                         [Body EXCEPT !.filename = "name"],
                         [Prepared EXCEPT !.example.found = FALSE],
                         Uploaded(File("txt", Of({}))), Uploaded(File("exe", Of({}))),
                         Uploaded([File("txt", Of({})) EXCEPT !.utf8 = FALSE]),
                         Uploaded(File("md", Blank))}}
       \cup {Ask("document_preview", Form(type, mode, file)) :
               type \in {"contract", "hr_record", "other"},
               mode \in {Absent, "financial_audit"},
               file \in {File("pdf", Absent), File("pdf", Long), Pdf({}),
                         [Pdf({}) EXCEPT !.bytes = 3]}},
     workers |-> 1, conns |-> 1, starts |-> 1, exchanges |-> 2, time |-> 0]

\* Who governs a request, and where it may go.
Governing ==
    [envs |-> {Plain, External, [External EXCEPT !.credential = Absent],
               [External EXCEPT !.sdk = FALSE], [External EXCEPT !.signerSecret = Absent],
               [Plain EXCEPT !.provider = "anthrpic"],
               [External EXCEPT !.thinking = "disabled", !.effort = "max"],
               [External EXCEPT !.tokens = Malformed], [External EXCEPT !.baseUrl = "proxy"],
               [Plain EXCEPT !.restoreSecret = ShortKey], [Plain EXCEPT !.handleTTL = Malformed],
               [Plain EXCEPT !.handleTTL = 0], [Plain EXCEPT !.handleTTL = 3],
               [Plain EXCEPT !.defaults.domain = "contracts",
                             !.defaults.policy_version = "contracts-v1"]},
     requests |->
       {Ask(route, body) :
          route \in {"execute", "compare"},
          body \in {Pasted(Of({Cpf("a")})), Prepared, Uploaded(File("txt", Of({Cpf("a")})))}}
       \cup {Ask("execute", Overriding(Pasted(Of({})), "provider_class", class)) :
               class \in {"fake", "external_llm"}}
       \cup {Ask("execute", Overriding(Prepared, "provider_class", "external_llm")),
             Ask("execute", [Pasted(Of({Cpf("a")})) EXCEPT !.strategy = "b0"]),
             Ask("document_preview", Form("contract", "financial_audit", Pdf({Cpf("a")}))),
             Ask("document_preview", Form("hr_record", Absent, Pdf({Cpf("a")}))),
             Probe("ready"), Probe("health")},
     workers |-> 1, conns |-> 1, starts |-> 1, exchanges |-> 2, time |-> 0]

\* Workers and connections differ in their names only.
MCSymmetry == Permutations({w1, w2}) \cup Permutations({c1, c2})

MCCampaign == {Restoring, Exploring, Limiting, Governing}
=============================================================================
