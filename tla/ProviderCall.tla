---------------------------- MODULE ProviderCall ----------------------------
(***************************************************************************)
(* The provider boundary: execute_disclosure_decision (pipeline.py) calls  *)
(* invoke_provider (providers/base.py), which runs provider.generate on a  *)
(* worker thread of its own and waits for it with a wall-clock deadline.   *)
(* An overrun abandons the worker: its HTTP request goes on until it is    *)
(* answered, fails, or the SDK's native transport timeout ends it.         *)
(*                                                                         *)
(* The same boundary is used from two places that choose the deadline      *)
(* differently: the experiment runner derives it from the provider's       *)
(* native timeout; the application service passes none.                    *)
(***************************************************************************)
EXTENDS Naturals

CONSTANTS
    Req,             \* disclosure requests, one call of the pipeline each
    DefaultTimeout,  \* DEFAULT_TIMEOUT_SECONDS
    Grace,           \* CALLER_TIMEOUT_GRACE_SECONDS
    Native,          \* each request's native_timeout_seconds; 0 when its provider has none
    StartLag,        \* how long a submitted worker may wait for its first step
    MaxAge,          \* where the model stops counting a call's age
    Runner,          \* the requests of experiments/execution.py, made one after
                     \* the other; the rest are application/service.py's
    Absent           \* None

(* A variant named ...Mutant<n> is the definition after it with one         *)
(* plausible slip; no specification uses it.                               *)
\* The native timeout is not consulted.
CallerTimeoutForProviderMutant1(native) == DefaultTimeout

(* caller_timeout_for_provider(provider): the runner's deadline.           *)
CallerTimeoutForProvider(native) ==
    IF native > 0 THEN native + Grace ELSE DefaultTimeout

(* The `timeout` that reaches invoke_provider.                             *)
Deadline(r) == IF r \in Runner THEN CallerTimeoutForProvider(Native[r]) ELSE DefaultTimeout

Decision == [status : {"allowed", "blocked"},
             classMatches : BOOLEAN,   \* provider_class = context.provider_class
             reconstructs : BOOLEAN]   \* the treatment is a ReconstructingTreatment

FailureKinds == {"ProviderClassMismatchError", "ProviderTimeoutError", "ProviderError"}

(* The provider and reconstruction stages of an AuditRecord; `response`    *)
(* stands for the hash of the provider's response text.                    *)
AuditRecord == [called : BOOLEAN, kind : FailureKinds \cup {Absent},
                response : BOOLEAN, reconstructed : BOOLEAN]

ASSUME ProviderAssumption ==
    /\ DefaultTimeout \in Nat /\ Grace \in Nat /\ Native \in [Req -> Nat]
    /\ StartLag \in Nat /\ StartLag < Grace
    /\ Runner \subseteq Req
    /\ MaxAge \in Nat
    /\ \A r \in Req : MaxAge >= Deadline(r) /\ MaxAge >= StartLag + Native[r]
    /\ Absent \notin AuditRecord /\ Absent \notin FailureKinds

VARIABLES
    decision,  \* what decide_disclosure handed over, per request
    caller,    \* where execute_disclosure_decision is
    worker,    \* what generate is doing on its worker thread
    age,       \* time since the worker was submitted
    sentAt,    \* the age at which the HTTP request was opened
    wire,      \* HTTP requests opened (history)
    audit      \* the AuditRecord, once built

vars == <<decision, caller, worker, age, sentAt, wire, audit>>

Live == {"queued", "sent"}
Failed == {"timedOut", "providerError", "otherError"}

Init ==
    /\ decision \in [Req -> Decision]
    /\ caller = [r \in Req |-> "ready"]
    /\ worker = [r \in Req |-> "none"]
    /\ age = [r \in Req |-> 0]
    /\ sentAt = [r \in Req |-> 0]
    /\ wire = [r \in Req |-> 0]
    /\ audit = [r \in Req |-> Absent]

-----------------------------------------------------------------------------
(* The caller's thread.                                                    *)

MayStart(r) ==
    /\ caller[r] = "ready"
    /\ r \in Runner => \A q \in Runner : caller[q] # "waiting"

(* build_audit_record: the request is settled with this record.            *)
Settle(r, called, kind, response, reconstructed) ==
    /\ caller' = [caller EXCEPT ![r] = "settled"]
    /\ audit' = [audit EXCEPT ![r] =
                    [called |-> called, kind |-> kind,
                     response |-> response, reconstructed |-> reconstructed]]

(* result.status is "blocked": the provider is not involved.               *)
SettleBlocked(r) ==
    /\ MayStart(r)
    /\ decision[r].status = "blocked"
    /\ Settle(r, FALSE, Absent, FALSE, FALSE)
    /\ UNCHANGED <<decision, worker, age, sentAt, wire>>

(* The pre-flight class check fails before anything is submitted.          *)
SettleMismatch(r) ==
    /\ MayStart(r)
    /\ decision[r].status = "allowed" /\ ~decision[r].classMatches
    /\ Settle(r, FALSE, "ProviderClassMismatchError", FALSE, FALSE)
    /\ UNCHANGED <<decision, worker, age, sentAt, wire>>

(* executor.submit(provider.generate, request)                             *)
Submit(r) ==
    /\ MayStart(r)
    /\ decision[r].status = "allowed" /\ decision[r].classMatches
    /\ caller' = [caller EXCEPT ![r] = "waiting"]
    /\ worker' = [worker EXCEPT ![r] = "queued"]
    /\ UNCHANGED <<decision, age, sentAt, wire, audit>>

(* future.result() has the response: reconstruct if the treatment can.     *)
TakeAnswer(r) ==
    /\ caller[r] = "waiting"
    /\ worker[r] = "answered"
    /\ Settle(r, TRUE, Absent, TRUE, decision[r].reconstructs)
    /\ UNCHANGED <<decision, worker, age, sentAt, wire>>

\* The exception is recorded as it came.
TakeFailureMutant1(r) ==
    /\ caller[r] = "waiting"
    /\ worker[r] \in Failed
    /\ Settle(r, TRUE, worker[r], FALSE, FALSE)
    /\ UNCHANGED <<decision, worker, age, sentAt, wire>>

\* provider_invoked keeps its default, FALSE.
TakeFailureMutant2(r) ==
    /\ caller[r] = "waiting"
    /\ worker[r] \in Failed
    /\ Settle(r, FALSE, "ProviderError", FALSE, FALSE)
    /\ UNCHANGED <<decision, worker, age, sentAt, wire>>

(* future.result() raises what generate raised; a foreign exception        *)
(* becomes a bare ProviderError.                                           *)
TakeFailure(r) ==
    /\ caller[r] = "waiting"
    /\ worker[r] \in Failed
    /\ Settle(r, TRUE,
              IF worker[r] = "timedOut" THEN "ProviderTimeoutError" ELSE "ProviderError",
              FALSE, FALSE)
    /\ UNCHANGED <<decision, worker, age, sentAt, wire>>

\* The executor is shut down with wait=True.
GiveUpMutant1(r) ==
    /\ caller[r] = "waiting"
    /\ worker[r] \notin Live
    /\ age[r] >= Deadline(r)
    /\ Settle(r, TRUE, "ProviderTimeoutError", FALSE, FALSE)
    /\ UNCHANGED <<decision, worker, age, sentAt, wire>>

(* The deadline passes first: the worker is abandoned, not cancelled.      *)
GiveUp(r) ==
    /\ caller[r] = "waiting"
    /\ worker[r] \in Live
    /\ age[r] >= Deadline(r)
    /\ Settle(r, TRUE, "ProviderTimeoutError", FALSE, FALSE)
    /\ UNCHANGED <<decision, worker, age, sentAt, wire>>

-----------------------------------------------------------------------------
(* The worker thread.  It never looks at whether its caller still waits.   *)

(* generate ends without opening a connection: no client can be built.     *)
SendFails(r) ==
    /\ worker[r] = "queued"
    /\ worker' = [worker EXCEPT ![r] = "providerError"]
    /\ UNCHANGED <<decision, caller, age, sentAt, wire, audit>>

Send(r) ==
    /\ worker[r] = "queued"
    /\ worker' = [worker EXCEPT ![r] = "sent"]
    /\ sentAt' = [sentAt EXCEPT ![r] = age[r]]
    /\ wire' = [wire EXCEPT ![r] = @ + 1]
    /\ UNCHANGED <<decision, caller, age, audit>>

(* The call ends: with a usable answer, with an error, a refusal or a      *)
(* truncation (ProviderError), or with any other exception.                *)
Finish(r, how) ==
    /\ worker[r] = "sent"
    /\ worker' = [worker EXCEPT ![r] = how]
    /\ UNCHANGED <<decision, caller, age, sentAt, wire, audit>>

\* The SDK retries.
NativeTimeoutMutant1(r) ==
    /\ worker[r] = "sent"
    /\ Native[r] > 0 /\ age[r] >= sentAt[r] + Native[r]
    /\ wire' = [wire EXCEPT ![r] = @ + 1]
    /\ sentAt' = [sentAt EXCEPT ![r] = age[r]]
    /\ UNCHANGED <<decision, caller, worker, age, audit>>

(* The SDK client's own timeout ends the call; it is built with no retry.  *)
NativeTimeout(r) ==
    /\ worker[r] = "sent"
    /\ Native[r] > 0 /\ age[r] >= sentAt[r] + Native[r]
    /\ worker' = [worker EXCEPT ![r] = "timedOut"]
    /\ UNCHANGED <<decision, caller, age, sentAt, wire, audit>>

-----------------------------------------------------------------------------
(* Time passes for every call under way.  It does not pass a worker that   *)
(* has waited StartLag for its first step, nor a connection at its native  *)
(* timeout.                                                                *)
Running(r) == caller[r] = "waiting" \/ worker[r] \in Live

Tick ==
    /\ \E r \in Req : Running(r)
    /\ \A r \in Req :
          /\ worker[r] = "queued" => age[r] < StartLag
          /\ worker[r] = "sent" /\ Native[r] > 0 => age[r] < sentAt[r] + Native[r]
    /\ age' = [r \in Req |-> IF Running(r) /\ age[r] < MaxAge THEN age[r] + 1 ELSE age[r]]
    /\ UNCHANGED <<decision, caller, worker, sentAt, wire, audit>>

CallerStep(r) ==
    SettleBlocked(r) \/ SettleMismatch(r) \/ Submit(r)
        \/ TakeAnswer(r) \/ TakeFailure(r) \/ GiveUp(r)

WorkerStart(r) == SendFails(r) \/ Send(r)

WorkerEnd(r) ==
    NativeTimeout(r) \/ \E how \in {"answered", "providerError", "otherError"} : Finish(r, how)

Next == Tick \/ \E r \in Req : CallerStep(r) \/ WorkerStart(r) \/ WorkerEnd(r)

Spec == Init /\ [][Next]_vars

(* Time passes, threads that can run do run, and the native timeout fires. *)
(* Nothing makes a provider answer.                                        *)
FairSpec ==
    /\ Spec
    /\ WF_vars(Tick)
    /\ \A r \in Req :
          WF_vars(CallerStep(r)) /\ WF_vars(WorkerStart(r)) /\ WF_vars(NativeTimeout(r))

-----------------------------------------------------------------------------
(* The types of the model's state.                                         *)
TypeOK ==
    /\ decision \in [Req -> Decision]
    /\ caller \in [Req -> {"ready", "waiting", "settled"}]
    /\ worker \in [Req -> {"none", "answered"} \cup Live \cup Failed]
    /\ age \in [Req -> 0 .. MaxAge]
    /\ sentAt \in [Req -> 0 .. MaxAge]
    /\ wire \in [Req -> Nat]
    /\ audit \in [Req -> AuditRecord \cup {Absent}]

(* The audit record of every settled request is true, and stays true while *)
(* an abandoned worker runs on: "called" is recorded exactly when generate *)
(* was submitted, a request not called never reaches the wire, a response  *)
(* is recorded only when this call was answered and nothing failed, and    *)
(* nothing is reconstructed from a failure (ProviderError.provider_invoked *)
(* and ProviderStage).                                                     *)
AuditTellsTheTruth ==
    \A r \in Req : audit[r] # Absent =>
        /\ audit[r].called <=> worker[r] # "none"
        /\ ~audit[r].called => wire[r] = 0
        /\ audit[r].response => worker[r] = "answered" /\ audit[r].kind = Absent
        /\ audit[r].called => (audit[r].response <=> audit[r].kind = Absent)
        /\ audit[r].reconstructed => audit[r].response

(* A caller never gives up while the HTTP request underneath is still      *)
(* alive, when the provider has a native timeout (the comment on           *)
(* CALLER_TIMEOUT_GRACE_SECONDS).                                          *)
NoCallOutlivesItsCaller ==
    \A r \in Req : Native[r] > 0 /\ caller[r] = "settled" => worker[r] \notin Live

(* A batch never moves on with a stale call still running (same comment):  *)
(* at most one provider call of the runner is under way.                   *)
OneLiveCall ==
    \A q, r \in Runner : worker[q] \in Live /\ worker[r] \in Live => q = r

(* Every request is settled, even if its provider hangs for ever: the      *)
(* deadline is enforced by invoke_provider and not left to the provider.   *)
EveryRequestSettles == \A r \in Req : <>[](caller[r] = "settled")

(* The boundary keeps its contract.                                        *)
Permitted == {r \in Req : decision[r].status = "allowed" /\ decision[r].classMatches}

Outcome(a) ==
    IF a = Absent THEN "pending"
    ELSE IF ~a.called THEN "refused"
    ELSE IF a.kind # Absent THEN "failed"
    ELSE "answered"

Contract == INSTANCE ProviderContract
                WITH permitted <- Permitted, outcome <- [r \in Req |-> Outcome(audit[r])]
ImplementsContract == Contract!Spec
=============================================================================
