--------------------------- MODULE RequestIntake ---------------------------
(***************************************************************************)
(* How what a client sends becomes a request of the application service,   *)
(* or is refused (application/ingestion.py, presets.py, requests.py,       *)
(* examples.py and the request builders of service.py).                    *)
(*                                                                         *)
(* A text is a record: its characters, its bytes, whether it is blank, and *)
(* the values in it that are sensitive.  A file has an extension, bytes    *)
(* that may or may not be UTF-8, and, where a parser reads it, the text    *)
(* that comes out, or Absent when parsing fails.  A refusal is a record    *)
(* with the exception's name; every result says whether the parser ran.    *)
(***************************************************************************)
EXTENDS PolicyEngine, Sequences

CONSTANTS
    MaxInputBytes,             \* MAX_INPUT_BYTES
    MaxNormalizedCharacters    \* MAX_NORMALIZED_CHARACTERS

TextExtensions == {"txt", "md"}
DocumentExtensions == {"pdf", "docx", "xlsx", "png", "jpg", "jpeg", "tif", "tiff", "bmp"}

(* The exceptions that refuse a request, by name.                          *)
Exceptions ==
    {"IngestionError", "ContentSourceError", "MissingTaskError", "ExampleNotFoundError",
     "DocumentAnalysisPresetError"}

Refused(exception, parsed) == [error |-> exception, parsed |-> parsed]
Normalized(text, parsed) == [error |-> Absent, parsed |-> parsed, text |-> text]

-----------------------------------------------------------------------------
(* ingestion.py.                                                           *)

NormalizeText(text) ==
    IF text.chars > MaxNormalizedCharacters \/ text.blank \/ text.bytes > MaxInputBytes
    THEN Refused("IngestionError", FALSE) ELSE Normalized(text, FALSE)

Readable(text) == ~text.blank /\ text.chars <= MaxNormalizedCharacters

(* normalize_text_file, _normalize_document_file: the extension alone says *)
(* whether a file is decoded or parsed.                                    *)
NormalizeTextFile(file, parserAvailable) ==
    IF file.bytes > MaxInputBytes THEN Refused("IngestionError", FALSE)
    ELSE IF file.extension \in TextExtensions THEN
        IF file.utf8 /\ Readable(file.text) THEN Normalized(file.text, FALSE)
        ELSE Refused("IngestionError", FALSE)
    ELSE IF file.extension \in DocumentExtensions /\ parserAvailable THEN
        IF file.text # Absent /\ Readable(file.text) THEN Normalized(file.text, TRUE)
        ELSE Refused("IngestionError", TRUE)
    ELSE Refused("IngestionError", FALSE)

-----------------------------------------------------------------------------
(* presets.py.                                                             *)

Presets ==
    [contract |-> [domain |-> "contracts", policy_version |-> "contracts-v1",
                   requester_role |-> "contract_analyst",
                   modes |-> <<"contract_summary", "financial_audit", "compliance_review">>],
     hr_record |-> [domain |-> "hr", policy_version |-> "hr-v1",
                    requester_role |-> "hr_analyst",
                    modes |-> <<"team_summary", "salary_analysis", "compensation_review">>]]

OverrideFields ==
    {"purpose", "requester_role", "requester_id", "provider_class", "policy_version",
     "requested_pseudonym_scope", "session_id", "document_id", "request_id", "domain"}
NoOverrides == [f \in OverrideFields |-> Absent]

(* resolve_analysis_mode: Absent where the pair names no preset.           *)
ResolveAnalysisMode(type, mode) ==
    IF type \notin DOMAIN Presets THEN Absent
    ELSE LET modes == Presets[type].modes
         IN  IF mode = Absent THEN modes[1]
             ELSE IF \E i \in DOMAIN modes : modes[i] = mode THEN mode ELSE Absent

ResolveGovernancePreset(type, mode) ==
    [NoOverrides EXCEPT !.domain = Presets[type].domain,
       !.policy_version = Presets[type].policy_version,
       !.requester_role = Presets[type].requester_role,
       !.purpose = ResolveAnalysisMode(type, mode)]

-----------------------------------------------------------------------------
(* requests.py and the builders of service.py.                             *)

ExampleOverrideFields ==
    {"domain", "purpose", "policy_version", "requester_role", "requested_pseudonym_scope"}

\* Lets an example say where its request may go.
ApplyExampleGovernanceDefaultsMutant1(example, overrides) ==
    [f \in OverrideFields |->
       IF f \in ExampleOverrideFields \cup {"provider_class"} /\ overrides[f] = Absent
       THEN example.governance[f] ELSE overrides[f]]

ApplyExampleGovernanceDefaults(example, overrides) ==
    [f \in OverrideFields |->
       IF f \in ExampleOverrideFields /\ overrides[f] = Absent
       THEN example.governance[f] ELSE overrides[f]]

(* _merge_overrides.                                                       *)
MergeOverrides(default, overrides) ==
    [f \in OverrideFields |-> IF overrides[f] = Absent THEN default[f] ELSE overrides[f]]

(* The same context as the policy engine reads it.                         *)
ContextOf(merged) ==
    [domain |-> merged.domain, purpose |-> merged.purpose, role |-> merged.requester_role,
     user |-> merged.requester_id, provider |-> merged.provider_class,
     version |-> merged.policy_version, requested |-> merged.requested_pseudonym_scope,
     ids |-> [request |-> merged.request_id, document |-> merged.document_id,
              session |-> merged.session_id]]

ResolveTreatment(strategy) == IF strategy \in {Absent, "recommended"} THEN "b4" ELSE strategy
CanonicalComparisonOrder == <<"b0", "b1", "b2", "b3", "b4">>

Supplied(body) ==
    {slot \in {"text", "file", "example"} :
       CASE slot = "text" -> body.text # Absent
         [] slot = "file" -> body.filename # Absent \/ body.file # Absent
         [] OTHER -> body.example # Absent}

Built(content, task, strategy, overrides, document) ==
    [error |-> Absent, parsed |-> content.parsed, text |-> content.text, task |-> task,
     treatment |-> ResolveTreatment(strategy), overrides |-> overrides, document |-> document]

(* build_application_request.  An example is the input of a corpus case,   *)
(* or Absent where there is none with the id.                              *)
BuildApplicationRequest(body, parserAvailable) ==
    LET fromText == NormalizeText(body.text)
        fromFile == NormalizeTextFile(body.file, parserAvailable)
        fromExample == NormalizeText(body.example.text)
        direct(content) ==
          IF content.error # Absent THEN content
          ELSE IF body.task = Absent THEN Refused("MissingTaskError", content.parsed)
          ELSE Built(content, body.task, body.strategy, body.governance, Absent)
    IN  IF Supplied(body) = {"text"} THEN direct(fromText)
        ELSE IF Supplied(body) = {"file"} /\ body.filename # Absent /\ body.file # Absent
        THEN direct(fromFile)
        ELSE IF Supplied(body) = {"example"} THEN
            IF ~body.example.found THEN Refused("ExampleNotFoundError", FALSE)
            ELSE IF fromExample.error # Absent THEN fromExample
            ELSE Built(fromExample, IF body.task = Absent THEN body.example.task ELSE body.task,
                       body.strategy,
                       ApplyExampleGovernanceDefaults(body.example, body.governance), Absent)
        ELSE Refused("ContentSourceError", FALSE)

(* build_document_request: the governance is resolved before the file is   *)
(* looked at, and nothing of it comes from the client.                     *)
BuildDocumentRequest(form, parserAvailable) ==
    LET mode == ResolveAnalysisMode(form.document_type, form.analysis_mode)
        content == NormalizeTextFile(form.file, parserAvailable)
    IN  IF mode = Absent THEN Refused("DocumentAnalysisPresetError", FALSE)
        ELSE IF content.error # Absent THEN content
        ELSE Built(content, form.task, form.strategy,
                   ResolveGovernancePreset(form.document_type, form.analysis_mode),
                   [type |-> form.document_type, mode |-> mode])
=============================================================================
