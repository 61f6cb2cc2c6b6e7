-------------------------- MODULE GatewaySettings --------------------------
(***************************************************************************)
(* Which service a process builds from its environment, and whether it     *)
(* calls itself ready (application/settings.py, providers/settings.py,     *)
(* providers/readiness.py, api/settings.py).                               *)
(*                                                                         *)
(* An environment is a record with a field for each variable: Absent where *)
(* it is unset or blank, Malformed where it does not read as the number it *)
(* should be.  A secret is a record that says whether it is long enough.   *)
(***************************************************************************)
EXTENDS SealedReferences, BodyLimit

CONSTANT Malformed   \* text that is no number

Or(value, default) == IF value = Absent THEN default ELSE value

-----------------------------------------------------------------------------
(* The provider.                                                           *)

ProviderName(env) == Or(env.provider, "fake")

(* anthropic_config_from_env; 16000 tokens and 60 seconds by default.      *)
AnthropicConfigFromEnv(env) ==
    [model |-> Or(env.model, "claude-opus-5"), effort |-> Or(env.effort, "high"),
     thinking |-> Or(env.thinking, "adaptive"), baseUrl |-> env.baseUrl,
     tokens |-> Or(env.tokens, 16000), timeout |-> Or(env.timeout, 60)]

IsPositive(number) == number # Malformed /\ number > 0

(* AnthropicProviderConfig.__post_init__.                                  *)
ConfigIsValid(config) ==
    /\ config.model = "claude-opus-5"
    /\ config.baseUrl = Absent
    /\ config.effort \in {"low", "medium", "high", "xhigh", "max"}
    /\ config.thinking \in {"adaptive", "disabled"}
    /\ ~(config.thinking = "disabled" /\ config.effort \in {"xhigh", "max"})
    /\ IsPositive(config.tokens) /\ IsPositive(config.timeout)

(* build_provider_from_env: no fallback for a name it does not know.       *)
ProviderBuilds(env) ==
    \/ ProviderName(env) = "fake"
    \/ ProviderName(env) = "anthropic" /\ ConfigIsValid(AnthropicConfigFromEnv(env))

ProviderClass(env) == IF ProviderName(env) = "fake" THEN "fake" ELSE "external_llm"

-----------------------------------------------------------------------------
(* Secrets, flags and limits.                                              *)

(* build_preview_confirmation_signer: a configured secret must be long,    *)
(* and only the in-process provider may do without.                        *)
SignerBuilds(env) ==
    IF env.signerSecret = Absent THEN ProviderClass(env) = "fake" ELSE env.signerSecret.long

HandleTTL(env) == Or(env.handleTTL, DefaultTTL)

(* build_restore_handle_sealer: unlike the upload limit, an unreadable     *)
(* lifetime does not become the default.                                   *)
RestoreSealerBuilds(env) ==
    HandleTTL(env) # Malformed /\ SealerBuilds(env.restoreSecret, HandleTTL(env))

(* demo_inspection_enabled, demo_vault_explorer_enabled: nothing but "1".  *)
Enabled(flag) == flag = "1"

UploadLimit(env) == MaxUploadBytes(env.maxUpload)

(* default_governance_context: a variable for each of five fields, and the *)
(* provider class of the provider that was built.                          *)
DefaultGovernanceContext(env) ==
    [domain |-> Or(env.defaults.domain, "hr"), purpose |-> Or(env.defaults.purpose, "team_summary"),
     policy_version |-> Or(env.defaults.policy_version, "hr-v1"),
     requester_role |-> Or(env.defaults.requester_role, "hr_analyst"),
     session_id |-> Or(env.defaults.session_id, "demo-session"),
     provider_class |-> ProviderClass(env), requested_pseudonym_scope |-> "session",
     requester_id |-> Absent, document_id |-> Absent, request_id |-> Absent]

(* build_default_service either builds all of it or does not start.        *)
ServiceBuilds(env) == ProviderBuilds(env) /\ SignerBuilds(env) /\ RestoreSealerBuilds(env)

-----------------------------------------------------------------------------
(* provider_readiness, describe_readiness: the reason it is not ready, or  *)
(* Absent.                                                                 *)
UnreadyReason(env) ==
    IF ProviderName(env) = "anthropic" /\ env.credential = Absent
    THEN "provider_credential_missing"
    ELSE IF ProviderName(env) = "anthropic" /\ ~env.sdk THEN "provider_sdk_unavailable"
    ELSE IF ProviderClass(env) # "fake" /\ env.signerSecret = Absent
    THEN "confirmation_secret_not_durable" ELSE Absent
=============================================================================
