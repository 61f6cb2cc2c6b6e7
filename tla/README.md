# A verification project for the adaptive disclosure gateway

The gateway stands between a user and a language model.  It detects sensitive
values in a document, transforms them with one of five *treatments* (B0 direct
to B4 policy-governed), sends the transformed payload to a provider, and puts
the original values back into the answer locally.  The TLA+ modules in this
directory model the parts of it whose correctness depends on the order of
events (threads, deadlines, restarts, expiry, browser history) or on what a
policy, a task, a context and a request say together.

Paths below are relative to `src/adaptive_disclosure_gateway/`, or to the
repository for `web/`, `docs/` and `scripts/`.

## 1. Inventory

| Component | State it keeps | Operations | Talks to | What is hard | What makes it correct |
|---|---|---|---|---|---|
| Pseudonym vault (`vault/`) | two dictionaries per process: forward (partition, category, value) to pseudonym, reverse (partition, pseudonym) to value | `pseudonymize`, `reconstruct` | called by the treatments, in any request thread | no lock: several dictionary operations per call; degenerate token factories | stability, injectivity, round trip, isolation of partitions, termination |
| Provider boundary (`pipeline.py`, `providers/`) | none kept; a worker thread and an HTTP request per call | `execute_disclosure_decision`, `invoke_provider`, `generate` | the pipeline's caller, the audit, the SDK | two timeouts, an abandoned worker, late answers, failures of every kind | one transmission at most, only when permitted; every request settled; a true audit; no stale call |
| Audit record (`audit.py`) | none kept | `build_audit_record` | the pipeline | it is written while the abandoned call may still run | it never claims more, or less, than happened |
| Confirmed document flow (`application/service.py`, `preview_confirmation.py`, `settings.py`) | per process: vault, signing key, provider; per client: tokens | `preview_document`, `execute_document` | vault, decision phase, provider boundary | several workers, restarts, redeployment, expiry, races in the vault between preview and execute | only an approved state is sent; an approval is honoured; unsafe payloads stay inside |
| Policy engine (`policies.py`) | the loaded policies and load errors | `from_directory`, `decide`, `resolve_pseudonym_scope`, `is_reconstruction_authorized` | B2-B4 | overrides, action spaces, duplicate versions | fails closed; never wider than the policy |
| Treatments (`transformations/`) | none (the vault is shared) | `sanitize`, `reconstruct` | policy engine, analyzer, vault | partial failure among several spans; scope changes between the two calls | a blocked request leaves nothing behind; a reconstruction stays in its partition |
| Export and restore (`restore_handle.py`, `service.export/restore`) | a configured key; sealed handles held by clients | `export`, `restore` | vault, decision phase | handles outlive processes; a clock cut to the second; overlapping pseudonyms | only what was exported is restored, under its secret and in its time |
| Vault explorer (`vault_explorer.py`) | a key per process | `issue_reference`, `explore_vault` | preview, vault | expiry; restarts; a vault that others write | shows exactly the reviewed result's own entries |
| HTTP API, intake, settings (`api/`, `application/requests.py`, `presets.py`, `ingestion.py`, `providers/settings.py`) | the built service; bytes seen of one request | the routes, the builders, the start of a process | every component above | several sources of one field; bad environments; errors of a half-done request | one truthful answer; governed as declared; nothing left behind by a refusal |
| Body size limit (`api/limits.py`) | bytes seen of one request, three flags | ASGI `receive` and `send` | HTTP server | chunked bodies; the boundary itself; a second answer | refuses exactly the bodies over the limit, once |
| Experiment runner (`experiments/`, `scripts/`) | rows, a delegate with `last_call`, a directory of artifacts | `run_pilot`, `execute_case`, the writers | pipeline, provider, corpus, scoring | a delegate shared by consecutive cases; an abandoned call; a crash between two artifacts | rows tell their own case; a bundle with a manifest is whole; the run ends |
| Corpus and scoring (`corpus/`, `experiments/scoring/`, `aggregation.py`) | none | loader, oracles, metrics, summaries | runner | half-open bands, spans matched by position, three protocols | a corpus that cannot be scored is refused before any call; "answerable" means it |
| Generalization, detection (`transformations/generalization.py`, `detection/`) | none | parsing into bands; resolving overlaps | treatments, scoring | boundaries of bands; precedence | |
| Guided flow (`web/lib/flow.ts`, `GuidedFlow.tsx`) | reducer state, snapshots, history entries and the position among them | submit, confirm, compare, restart, back and forward | HTTP API, browser history | answers that arrive late; moves while a send runs; effects that run after the next event; history that outlives state | nothing is sent twice or unreviewed; the history tells where the flow is |
| Wire forms, task analysis, CLI, web screens, deployment | none, or one request's | pure translation | | | |

The API declares its handlers as synchronous functions, so the framework runs
them in a thread pool.  All of them share one `DisclosureApplicationService`
and with it one `InMemoryVault`: this is where the interleavings come from.  A
deployment may run several worker processes, which share nothing but
configuration.  The web client holds its whole state in memory; only the
browser's history outlives a reload.

## 2. Modules

| Module | Models | Role |
|---|---|---|
| `VaultContract` | `Vault` (the abstract class) | abstract specification |
| `InMemoryVault` | `vault/in_memory.py` | implements `VaultContract` when calls do not overlap |
| `ProviderContract` | the docstrings of `invoke_provider` and `ProviderError` | abstract specification |
| `ProviderCall` | `pipeline.py`, `providers/base.py`, `providers/anthropic_api.py`, the provider part of `audit.py` | implements `ProviderContract` |
| `DocumentConfirmation` | `preview_document`, `execute_document`, the signer, the default service's wiring | composes workers, their vaults and their signers |
| `PolicyEngine` | the decisions of `policies.py` and of the treatments B2-B4 | pure operators |
| `GovernedDisclosure` | `PolicyRepository.from_directory`, `decision_application.py` | the machine around them, over one vault |
| `Generalization` | `transformations/generalization.py` | pure operators on `PolicyEngine` |
| `CaseScoring`, `UtilityScoring` | `experiments/scoring/` | pure operators on `Generalization` |
| `Corpus` | `corpus/`, the loader's refusals | pure operators on `UtilityScoring` |
| `RunAggregation` | `experiments/aggregation.py`, `contextual_matrix.py` | pure operators on `UtilityScoring` |
| `Detection` | `detection/detector.py`, `overlap.py`, B1's table | pure operators |
| `ExperimentRun` | `experiments/runner.py`, `execution.py`, `artifacts.py`, the pilot scripts | composes `Corpus`, `RunAggregation` and `Detection` |
| `SealedReferences` | `restore_handle.py`, `vault_explorer.py` | operators on sealed texts and vaults |
| `BodyLimit` | `api/limits.py` and the order of the middlewares | operators on the guard of one exchange |
| `GatewaySettings` | `application/settings.py`, `providers/settings.py`, `readiness.py`, `api/settings.py` | operators on environments |
| `RequestIntake` | `ingestion.py`, `presets.py`, `requests.py`, `examples.py` | operators on request bodies |
| `GatewayService` | `api/app.py`, `application/service.py` | composes the four above with the vault |
| `GuidedFlow` | `web/lib/flow.ts`, `GuidedFlow.tsx` | the web client with React and the browser |
| `...Proofs` | | proofs about the module they are named after |
| `MC...` | | the values the runs give the constants, symmetry sets |

### InMemoryVault

One action per dictionary operation of `pseudonymize`, because that is the
grain at which CPython threads interleave: `Begin` (the call, with its two
`setdefault`s, which are idempotent), `LookupHit`/`LookupMiss` (`forward.get`),
`CandidateTaken`/`CandidateFree` (one round of the collision loop, with its
draw of a token), `WriteForward`, `WriteReverse` (and the return).  `forward`
and `reverse` are the dictionaries, `pc`, `call`, `suffix` and `candidate` a
thread's frame.  A pseudonym is a record of category, token and suffix, as its
string is formatted from these three injectively.  `drawn` and `answers` are
histories.  The factory is an argument of the constructor and the threads are
those of whoever holds the vault, so a behaviour chooses both once, as its
`deployment`: `Serial`, one call at a time (the command line and the experiment
runner), and `CsprngTokens`, the production factory, which in the model never
repeats a token.  What depends on them says so itself: `Separated` is a serial
vault with any factory or a shared one with production tokens.  The fourth
combination, a thread pool over a factory that repeats, no caller makes; there
two threads pass the collision loop before either writes, and two values would
share a pseudonym.

### ProviderCall

`caller` is where `execute_disclosure_decision` is with a request, `worker`
what `generate` does on its own thread, `age` the time since it was submitted.
`SettleBlocked`, `SettleMismatch`, `TakeAnswer`, `TakeFailure` and `GiveUp` are
the ways the function returns, each with its audit record; `Send`,
`SendFails`, `Finish` and `NativeTimeout` are the worker's, which goes on
whether or not its caller has given up.  `Tick` passes time for all calls under
way.  The requests in `Runner` are the experiment runner's, which makes them
one after the other and derives its deadline from the provider's native
timeout; the others are the application service's, which makes them at once,
passes no timeout and gets the default.  `Native` is the native timeout of each
request's provider, 0 where there is none.

Two simplifications are assumptions: a submitted worker takes its first step
within `StartLag`, which is smaller than the grace period, and the SDK's
timeout bounds the duration of the whole call.

### DocumentConfirmation

Each worker has a `provider`, a `vault` and, by its `incarnation`, a key.  Each
handler is one request in a pool thread: `Begin`, the decision (`DecideHit`, or
`DecideMiss` and `Store`, which other handlers interleave with as in
`InMemoryVault`), then `Issue` for a preview, or `Verify`/`Reject` and
`RefuseDirect`/`Finish` for an execute.  `Restart` clears a worker's vault and
frames and may change its provider.  The MAC is ideal: a token verifies exactly
under its own key and state.  A state keeps what the properties tell apart: the
request, the provider class and the payload; the payload is empty, raw or
governed with the pseudonym it contains.

### PolicyEngine and GovernedDisclosure

`PolicyEngine` translates the functions: `Decide` (rule, override, purpose),
`SelectActionForRelevance` and the choices of B2, B3 and B4 built on it,
`PolicyEffect`, `ResolvePseudonymScope` and `ScopeKey`.  Policies and contexts
are records with the code's fields; lists whose order the code ignores are
sets.  `Permits` and `NeedDiscloses` are not code: they say what B4 promises of
an action.

`GovernedDisclosure` runs them.  `ReadFile` is one round of the loop of
`from_directory`.  `Sanitize` is a request up to the point where it is blocked
or admitted: treatment, context, detections and the analyzer's answer (which may
be missing) are chosen freely, every span is decided, and the partition
resolved.  `TransformSpan` is one round of `_allowed_result`'s loop, with its
vault call; requests interleave between rounds.  `Reconstruct` is a call by
anybody, with any context and a text that mentions any pseudonyms of the vault.
The vault is a sequence of entries here and a pseudonym an index in it, which
is what `VaultContract` promises; what a racing vault may do instead is in
`InMemoryVault`, and what follows for approvals in `DocumentConfirmation`.

### Generalization to ExperimentRun

The operators under `ExperimentRun` follow their functions one by one.  A value
is a record of what its text can be read as: an amount in points (hundredths in
the code), a date, or plain text, with the spelling that decides which grammar
accepts it.  A band is half-open, a reference of an oracle compares with an
amount, and `UtilityScoring` says when the answer is the same for the whole
band.  `CaseScoring` finds the transformation of an annotated span by its rank
in its category, as the code does.

`ExperimentRun` is a session: several invocations, one after the other, each
with its corpus, protocol, treatments, run id and kind of provider.  `Begin`
loads the corpus and refuses it or not, before anything is sent.  `Execute` is
the decision phase of one execution, with any subset of the spans the text
offers and any action the treatment could choose.  Then the execution is
settled: blocked or refused without a call (`SkipBlocked`, `RefuseClass`), or
with one that is answered, raises or is given up on (`Answer`, `Raise`,
`GiveUp`); a worker given up on still writes `last_call` later
(`WorkerFinishes`).  `Collect` scores the row, `Compare` makes the contextual
comparison, and the writers follow in the code's order, one action per artifact
or line.  `Crash` may come between any two steps, so that `NextInvocation` finds
what was written.  One file is written in one step, the manifest included: the
code writes it in place (`artifacts.py:193`), so a crash inside that write would
leave part of a manifest, which the model does not have.  `RowsTellTheirOwnCase` excepts the delegate that a caller
wraps itself and passes for all cases: its `last_call` is shared by
construction.  The branches for rows of mixed protocols and for a case that
cannot be scored are in the model and never taken, because an invocation has one
protocol and the whole corpus was checked against it.

### SealedReferences to GatewayService

`SealedReferences` has the two envelopes, ideal: one opens exactly under the
key and label it was sealed with.  `BodyLimit` is the state machine of one
guard; `GatewaySettings` maps an environment, good or bad, to a service or a
refusal to start; `RequestIntake` maps a body to a request or a refusal, with
the order in which presets, examples, overrides and defaults are merged.

In `GatewayService` a worker is a place a process runs in, a connection an
exchange under way.  `Arrive` takes a request of the campaign, `Receive` passes
its chunks through the guard, `Handle` builds the request or refuses it,
`Choose` decides, `LookUp`, `StoreForward` and `StoreReverse` write the vault as
`InMemoryVault` does, and one `Finish...` action per route makes the answer.
What a client keeps of an answer (`held`) it may bring, whole or damaged, to
another process and at a later time.  What a treatment pseudonymizes is any
choice `GovernedDisclosure` allows.

### GuidedFlow

A flow state has three lives: `latest` (what the queued updates amount to),
`shown` (what React has committed, `stateRef.current`) and the snapshots that
history entries name.  A click or a popstate is committed with its effects
before the next event, as React does for discrete events.  The answer to a
request changes `latest` (`AnswerPreview`, `ExecutionSucceeds`,
`ExecutionRefused`, `ExecutionFails`, `AnswerComparison`), is rendered later
(`Render`), and the effect that writes the history runs later still (`due`,
`Effect`).  `nav` is the browser's list of entries with the moves it has not
performed, and the component's references: tracked ids, index, current id,
snapshots, barred ids, the pending correction and the suppress flag.  `Synced`
is the history effect; the six parts of `Land` are the branches of
`handlePopState`.  `Move` asks for a traversal, which is performed later, as
browsers do.

What this rests on.  React runs the effect of an answer right after painting,
so a user's click or a freely restored move comes after it; a move that
corrects another, or is corrected, may come before.  In particular a Confirm
clicked after the Review is on the screen and before the effect has recorded its
entry is excluded; `handleConfirmReview` (`GuidedFlow.tsx:736`) would then take
the id of the entry before it.  `rev` is the identity of a
compose object, and the token of a preview is that of its content.  The document
types are known before the first Compose.  With `Waits` the user leaves no
preview or comparison under way.

## 3. Runs

| Run | Instance | What it shows |
|---|---|---|
| `vault_calls` | 3 values, 2 partitions; one call at a time and one token for ever, or 2 threads and 3 fresh tokens | one call at a time, the vault implements its contract and the collision loop ends; when calls overlap, isolation and the round trip up to one pending write that always follows; in both, injectivity and immutable reverse entries |
| `vault_race_stability` | 2 threads, 1 entry | **violated**: two threads are answered with two pseudonyms for one entry |
| `provider_calls` | a runner's request with a native timeout of 60 s, a service's to a provider without one | no call with a native timeout outlives its caller, the audit stays true beside an abandoned worker, the contract holds, every request settles although a provider may hang |
| `provider_stale_call` | 2 service requests, 30 s against 60 s | **violated**: the service gives up on calls that are still alive |
| `confirm_concurrent` | 1 worker, 2 handlers, durable key, redeployment, expiry | only approved states are sent, inside their window and under races in the vault; nothing unsafe leaves |
| `confirm_durable` | 2 workers, shared key | **violated**: the second worker refuses the first one's approval |
| `governed_disclosure` | 2 requests, 3 directories, 5 contexts, 4 detections, B2-B4 | loading, deciding, storing, linking and reconstructing stay within the policies |
| `policy_duplicates` | 1 request, the same directories | **violated**: a version three files declare is in force, and a request under it is admitted |
| `experiment_run` | sessions of 1 or 2 invocations over 1 or 2 cases, B0-B4, v3-v5, three kinds of provider | a refused run has called nothing, "answerable" is so, rows are about their own case, a bundle with a manifest is whole, and every run ends |
| `gateway_service` | four campaigns of environments and requests, 2 workers or 2 connections | handles restore exactly their export, the explorer shows exactly its result, one truthful answer each, requests are governed as declared |
| `guided_flow` | 1 text, 1 upload, 3 moves of one or two entries, 3 requests, 1 reload | nothing is sent twice, the history tells where the flow is, an edit puts older reviews out of reach, corrections end |
| `guided_flow_late_answer` | 2 texts, 1 move, a user who does not wait | **violated**: a text is sent whose preview was never shown |

A second consequence of the unlocked vault is not a run of its own: a thread
that hits the forward map between another thread's two writes returns a
pseudonym that `reconstruct` does not know yet (`RoundTrip` fails where
`vault_calls` checks `ResolvesOrPending`).

**Bounds.**  Two threads, handlers, workers or connections are enough for every
race here, because each race is between one operation and one other that comes
between two of its steps.  Three values against one token make the collision
counter reach 2, so that a suffixed pseudonym collides with another suffixed
one: that is what `Injective` has to survive in `vault_calls`.  Fresh tokens are
taken from a pool that runs out, so the run does not check deadlock.  In `ProviderCall` time is counted in units of five seconds and the
deadlines are the code's; `MaxAge` only stops an age from growing after every
comparison with it is decided.  In `DocumentConfirmation` `MaxTime` exceeds
`TTL`, so tokens expire; `MaxIssued`, `MaxRestarts` and the pools of pseudonyms
bound histories, which is why some runs do not check deadlock: the pools run
out, the program does not.

`governed_disclosure` uses documents shaped like `configs/policies/hr-v2.yaml`
with the cases added that the shipped ones avoid: two overrides that match at
once, a space with `block_request` in it, an override whose space the purpose
replaces.  The contexts differ in role, user, purpose, domain, requested scope
and identifiers so that every branch of the scope rule and a missing identifier
occur; one directory declares a version three times and one has an unreadable
file between duplicates.  It stops when both requests are through, so it does
not check deadlock.

`experiment_run` has two points to the unit and bands of two units, so that a
band holds four amounts and a reference can fall on each end and inside.
Sessions with rich corpora have one invocation; those with two, under one id or
two, have small ones, because what is between invocations is the disk.  A crash
happens only where another invocation follows, which is where it can be seen.

`gateway_service` has two ticks to the second, because an expiry computed from a
clock cut to the second is compared with one that is not, and lifetimes of one
and two seconds; sizes around a limit of three bytes in chunks of one; two draws
of tokens, so that one pseudonym may be a prefix or a part of the other.  Its
campaigns separate what cannot interfere: *Restoring* (2 workers, 2 starts, 2
exchanges, 4 ticks), *Exploring* (2 connections, 3 exchanges, 2 ticks),
*Limiting* and *Governing* (1 worker and connection, 2 exchanges).  Workers and
connections are interchangeable, which makes the symmetry sound.

`guided_flow` has room for two compose objects after a restart, a preview, a
send and one more request, and for a further move during each correction.
Without a reload and with four requests and five moves of one entry the same
properties held as well (5.8 million states).  `HistoryIsHonest`,
`CorrectionEnds`, `ForwardReviewsAreCurrent` and the first half of `NoResend` are
about a page that was not reloaded: section 5 says why, and the reload stays in
the run for the second half.

**Fairness.**  `InMemoryVault`: a started call goes on running, as the
interpreter schedules every runnable thread; nobody is made to call.
`ProviderCall`: time passes, threads that can run do run, and the SDK's own
timer fires; a provider is never made to answer.  `ExperimentRun`: the runner's
thread goes on and its deadline passes; a worker need never finish, and nothing
need crash.  `GuidedFlow`: React renders what is queued and runs its effects,
and the browser performs the moves asked of it; nobody is made to click and no
request to be answered.  `DocumentConfirmation`, `GovernedDisclosure` and
`GatewayService` have no liveness property and no fairness.

## 4. Proofs

TLAPS proves the following for all values of the constants that satisfy the
modules' named assumptions.

* `InMemoryVaultProofs`.  `TypeCorrect`.  For the serial vault: `SerialStable`,
  `SerialRoundTrip` and the refinement `SerialImplementsContract`.  The inductive invariant says that at most one
  thread is inside, that its candidate is free in the reverse map, and that the
  forward and reverse maps and the answers agree, save for the one entry being
  written.  For the shared vault with CSPRNG tokens:
  `SharedPartitionIsolation`.  There the invariant is about tokens: every
  pseudonym anywhere carries a drawn token, and no two candidates, stored
  pseudonyms or partitions share one.  From both together, because the deployment
  never changes: `VaultInjective`, `VaultResolves`, `VaultReverseWriteOnce`.
* `ProviderCallProofs`.  `TypeCorrect`, `AuditIsTrue`,
  `BoundaryImplementsContract` for any mix of callers and providers;
  `RunnerOutlastsCall` where every provider with a native timeout is called by
  the runner, and `BatchHasOneLiveCall` for the runner's requests whatever the
  service does meanwhile.  Here the invariant relates a worker's age to its step
  (queued: at most `StartLag`; sent: at most `sentAt + Native`), which is below
  the deadline exactly because `StartLag < Grace`.
* `DocumentConfirmationProofs`.  `TypeCorrect`, `SentIsApproved`,
  `NothingUnsafeIsSent`, for any workers, handlers and restarts: the invariant
  carries the verified token along the handler's frame: from `Verify` on, the
  state the handler holds is one a token in `issued` was issued for.
  `OwnApprovalHonoured` is the positive side of `confirm_durable`: without a
  configured secret and with one handler, an unexpired approval is honoured.
  Its invariant says that a token under a worker's current key holds the payload
  its vault would decide again, and that a handler about to store a pseudonym
  stores it where there is none; the second is what a second handler breaks.
* `GovernedDisclosureProofs`.  First the choice itself: `GovernedDecision`
  shows by cases on the rule that B4 either blocks or chooses what `Permits`
  allows, and `GovernedIsMonotone` that it discloses more only as the task
  needs more; `NeedIsMonotone` and `ImpossibleImpliesReported` state this of
  the loaded policies.  Then the machine: `TypeCorrect`, `PolicyIsBinding`,
  `BlockedLeavesNothing`, `LinkingIsBounded`, `ReconstructionIsConfined`,
  `RequesterRoundTrip`, for any documents, contexts, detections and number of
  requests.  The invariant adds that nothing runs while the directory loads, so
  that policies a decision was taken under never change; that every pseudonym of
  a result names its very span in the vault; and that every entry of the vault
  is in some result.  `LoadingIsByParity` describes what the loader does
  with duplicates in every directory, of which `policy_duplicates` shows the
  shortest case: no document asks for it.  Its invariant has one clause for every
  version: the number of files that define it is odd and the last is
  in force, or it is even and the last was reported; a file read turns one into
  the other.  The assumptions say what validation of a policy document
  guarantees, and that `None` is no number and no action.
* `GatewayServiceProofs`.  `TypeCorrect`, `AnswersTruthful`, `GovernedDeclared`,
  `RestoresAreTrue`, `ExplorerConfined`: every invariant of `gateway_service`,
  for any workers, connections, policies, campaigns, clocks and lifetimes.
  Every action is restated as a relation between a frame and the frame that
  comes of it, so that the rest is about one exchange at a time.  Of the four
  invariants, `Base` says where things are, `Sounds` how far each exchange has
  come and what it may have done by then, `Agrees(m)` that one meaning m of all
  pseudonyms fits every vault, exchange and kept text, and `Findables` that what
  a reference is for stays in the vault of its process.  m is no part of the
  state: it is what the tokens drawn so far stand for, and a step that draws one
  extends it, which is why the invariant is an existential over m.  The
  assumptions (`SealedAssumption`, `LimitAssumption`, `ValuesAssumption`,
  `CampaignAssumption`) say that limits and lifetimes are numbers and that
  `None` is none of the values it is told from.

* `ExperimentRunProofs`.  `TypeCorrect`, `NothingIsWasted`, `RowsAreTheirOwn`,
  `AnswersAreTrue` and `BundlesAreNotMixed`, for any sessions, corpora, providers
  and ids.  On a type invariant (`Base`) rest four more, each proved for itself:
  `Checked` says that a run that goes on has a corpus its protocol can score, so
  that scoring never refuses; `Attributed` which call the execution at hand and
  its delegate know of, so that a worker that finishes late never reaches another
  row; `Scored` that every row is the score of a result some treatment could have
  made of that row's text; `Owned` that who writes in a run directory has made
  it and has every file before the next.
  `AnswersAreTrue` is the interesting one, because scoring matches annotated
  spans with transformations by their order alone, and a missed or a false span
  shifts it.  The argument does not repair the matching: scoring accepts a match
  only when the annotated amount lies in the matched band, all bands of a
  category have one width, so the band that lies there is the annotated value's
  own (`OneBand`), and `DecidedAlike` does the rest.
  Of the bands, without the machine: `BandIsFaithful`, and `DecidableIsExact`,
  which also says where scoring is stricter than the amounts need: it does not
  see that nothing lies between the last point of a band and its end.
  `SessionAssumption` says that sessions, corpora and treatments are lists and
  that no invocation names a treatment twice; `CorpusAssumption` that in a file
  that can be read amounts have no sign and a reference has one of the four
  operators.
* `ExperimentBundleProofs`.  `BundlesAreWhole`: everything `BundleIsWhole` says,
  the counts included.  `Tabled` says that when writing begins the rows are the
  whole table of treatments and cases and each tells its shortfall apart;
  `Filed` what each file says from its writing on.  The sums are then counted by
  the library's theorems on finite sets: the rows of a treatment are as many as
  the cases, because a row's place gives treatment and case, and the parts a
  summary tells apart add up because they are disjoint.
* `GuidedFlowProofs`.  Of any user, waiting or not:
  - `SendsAreExclusive`, the second half of `NoResend`.  The invariant (`Sending`)
    adds that a send is shown as soon as it is asked for, and that no panel covers
    it, which is what keeps every button away until it is answered.
  - `HistoryTellsTheScreen`: `HistoryIsHonest`.  `Aligned` says that the entries
    and the tracked ids are the same list without repetition, that the browser is
    where the component believes unless a correction is under way, that a snapshot
    has the step of its entry, and that nothing is suppressed; `Sync` that what is
    on the screen, and due to no effect, is written; `AtSend` that a send is at an
    entry of a Review, which is why an answer to it may write there before the
    screen changes.  `SyncedTrack` describes the history effect by what it changes
    (`Rewrites`, `Opens`), and no later step looks inside it.

  Of a user who waits for previews and comparisons (`Waits`), but moves during
  sends and at any other time:
  - `NothingIsResent`: `NoResend`, and `ReviewsFollowTheirCompose`:
    `ForwardReviewsAreCurrent`.  Both rest on one invariant, `Waiting`.  Neither
    property is inductive.  For the second, every live Review has to be of the
    last live Compose before it *wherever* it stands (`OfItsCompose`), and so does
    the preview under way; this needs in turn that no Compose is on the screen at
    an entry that cannot be restored (`ComposeIsOpen`), or a Review made from it
    would belong to an entry that nobody comes back to.  For the first, a preview
    must have one live Review at most (`OneReview`), at the very entry it is
    confirmed from (`ReviewIsHere`), since only that one becomes the Approved
    Review.  `Attended` says what waiting buys: the screen lags behind only while
    an answer is rendered, nothing else is asked while a preview is, and a
    correction under way is among the browser's moves.
  `FlowAssumption` says that texts and uploads differ, that a move is a number
  other than 0, and that `None` is no step.

Only model-checked: the liveness properties (`CallsReturn`,
`IssuedEventuallyResolves`, `EveryRequestSettles`, `EveryRunSettles`,
`CorrectionEnds`), which are out of the prover's reach.  Every other property of
a passing run is a theorem for all values of the constants: those of the flow,
where said above, for a user who waits, which the run has too; those of the vault
name the deployment they are about themselves.

## 5. Where the code and its documentation disagree

Shown by a run:

1. `vault_race_stability`: `vault/base.py:23` promises stability; overlapping
   calls of `InMemoryVault.pseudonymize` break it.
2. `confirm_durable`: `application/settings.py:86` says that with a configured
   secret a token issued by one process verifies in another and survives a
   restart.  The confirmation binds the payload, and a governed payload with a
   pseudonym is different in every process, whose vaults draw at random.
3. `provider_stale_call`: `providers/base.py:20` says the caller's deadline must
   exceed the native timeout; the application service uses the 30 s default
   against 60 s.
4. `guided_flow_late_answer`: `GuidedFlow.tsx:302` says that after an edit only a
   new preview brings a send action back.  The answer to a preview is dispatched
   whatever became of the flow, and the `previewing` screen of a later request
   takes it: Submit A, Back, edit, Submit B, and the preview of A becomes the
   Review of B, whose Confirm sends B.  A document is saved by its token, which
   the gateway checks; a text has none.
5. `policy_duplicates`: decision 2 of `docs/adr/0001-milestone-1-architecture.md`
   (line 12) and `README.md:52` say that ambiguous policy resolution blocks the
   request, and `policies.py:33-39` that a load error costs availability and never
   silent permissiveness.  `from_directory` withdraws a version when a second file
   declares it, and forgets that it did: a third file is taken for the first, and
   its rules admit requests.

Seen while modelling, without a run:

* The guided flow after a reload counts ids from `flow-0` again, so new ids
  collide with those in surviving entries.  Back may then land on an entry the
  component takes for another: it shows "cannot be restored" where a screen
  could be shown, and two corrections can answer each other for ever
  (`CorrectionEnds` fails without `reloads = 0`).  The opposite happens too, in
  longer runs than `guided_flow`'s: a stale entry is taken for a new one with its
  id, and what is recorded next stands at the wrong place.  Then Forward may reach a
  Review of an older Compose (five revisions and three moves:
  `ForwardReviewsAreCurrent` without `reloads = 0`), and a second live copy of a
  Review that was sent stays within reach (five revisions and requests: `NoResend`
  without `reloads = 0`), which is what `GuidedFlow.tsx:296` means to rule out.
* A late preview answer also clears the recovery panel; and for a user who does
  not wait and moves at least five times, a popstate between the commit of the
  Result and its effect can leave a live Review of a preview that was sent
  (`NoResend` fails without `Waits`); a preview that fails late at an entry that
  cannot be restored leaves a Compose there, and an edit of it leaves an older
  Review within Forward's reach (`ForwardReviewsAreCurrent` fails without
  `Waits`).  A late comparison is shown for whatever
  comparison is under way.
* `handleConfirmReview`, the edits and `handleSubmitCompose` lack the guard
  against a pending correction that `handleRestart` and its neighbours have.
* `restore_handle.py:388` says every other pseudonym-shaped token is left
  untouched; a foreign token that extends an entry's pseudonym is changed when
  that pseudonym also occurs alone.  `RestoreRoundTrips` is stated for the
  export's own tokens.
* The docstring of `build_application_request` (`service.py`) lists
  `provider_class` among what an example supplies; `requests.py:75` leaves it
  out, which is what `GovernedAsDeclared` says.
* `limits.py` says it refuses any request over the limit; routes without a body
  do not read theirs, so a chunked body there is not refused.  A 500 comes from
  outside the middleware that adds cache headers to "every" response.
* `ingestion.py:255`: the offset of a heading assumes one space after its marker.

## 6. Plan

Every safety property the passing runs check is proved.  What could follow: what
a reloaded page still guarantees to its user, as a property and a theorem; and a
composition of `GuidedFlow` with `DocumentConfirmation`, whose tokens it holds.

## 7. Not modelled, and why

Task analysis and the detection rules are lexical rules over one text: their
risk is in their words and regular expressions, which a model would only copy;
what they find is an input.  The parser of documents is an input too.  The wire
forms, summaries and the inspection view are projections of one result; the CLI
and the web screens translate between representations, and the web proxy
forwards one request.  Deployment is a shell pipeline of an external platform.
Run identity, timings and memory measurements only label a run; a measured call
that raises leaves `tracemalloc` tracing, which no property covers.  Multipart
bodies that do not parse, clients that disconnect, CORS and cache headers, and
500 answers other than a corpus that does not load are left out of
`GatewayService`.  `AnswersAreTruthful` says of a 4xx answer that it left nothing
in the vault; a 503 is not among them, because an export without a handle secret
is refused only after its values were stored (`service.py:667`), which the model
does too and no document rules out.  Errors shown beside a screen and one-time loads are left out
of `GuidedFlow`.  The text of prompts, answers, reasons and audit fields is
abstracted wherever it is touched, and so are the averages of measurements.
