--------------------------- MODULE GatewayService ---------------------------
(***************************************************************************)
(* The gateway as its HTTP clients meet it (api/app.py, api/limits.py,     *)
(* application/service.py): processes built from their environments, each  *)
(* with a vault and an explorer key of its own; exchanges that pass the    *)
(* size limit, the schema, the builders of a request, the decision and     *)
(* the vault on their way to an answer; and what a client keeps of one     *)
(* answer and brings to another process, at another time.                  *)
(*                                                                         *)
(* Handlers run in a thread pool, so each step of an exchange is an        *)
(* action.  Which values a treatment pseudonymizes, and whether it blocks, *)
(* is any choice GovernedDisclosure allows.  POST /documents/execute is    *)
(* in DocumentConfirmation, deadlines and failures of the provider call    *)
(* are in ProviderCall.                                                    *)
(***************************************************************************)
EXTENDS GatewaySettings, RequestIntake, Integers, FiniteSets

CONSTANTS
    Worker,     \* places where a process can run
    Conn,       \* connections
    Policies,   \* the loaded policy repository, the same everywhere
    Campaign,   \* what is deployed and asked: the environments and requests,
                \* and the bounds: how many workers and connections are in
                \* use at once, how many processes are started, how many
                \* exchanges begin, and how long the clock runs
    MaxDraws    \* bound on the tokens drawn

(* A request has a route, the length it declares and the size it has,      *)
(* whether its body matches the schema, and the body.                      *)
Probes == {"health", "ready", "examples", "strategies", "types"}
Previews == {"preview", "document_preview"}
Documents == {"document_preview", "export"}

(* The request of the service that a body makes, or the refusal.           *)
BuiltFor(request, parser) ==
    IF request.route \in Documents THEN BuildDocumentRequest(request.body, parser)
    ELSE BuildApplicationRequest(request.body, parser)

(* None is no number, no exception and no name of a domain, of a version   *)
(* or of a role.                                                           *)
ASSUME ValuesAssumption ==
    /\ Absent \notin Nat \cup Exceptions /\ MaxDraws \in Nat
    /\ \A type \in DOMAIN Presets :
         Absent \notin {Presets[type].domain, Presets[type].policy_version,
                       Presets[type].requester_role}

(* A lifetime is a number if it reads as one; only a probe has no body;    *)
(* and a value somebody detects is not None.                               *)
ASSUME CampaignAssumption ==
    \A k \in Campaign :
      /\ k.starts \in Nat /\ k.exchanges \in Nat /\ k.time \in Nat
      /\ \A env \in k.envs : env.handleTTL \in Int \cup {Absent, Malformed}
                              /\ env.parser \in BOOLEAN
      /\ \A r \in k.requests :
           /\ r.size \in Nat /\ (r.route \in Probes => r.size = 0)
           /\ r.route \notin Probes \cup {"restore", "explore"} /\ r.valid =>
                \A parser \in BOOLEAN :
                  LET built == BuiltFor(r, parser)
                  IN  built.error = Absent => \A s \in built.text.values : s.value # Absent

VARIABLES
    campaign,
    now,        \* the clock, in ticks
    process,    \* for each worker: its environment and number, or Absent
    started,    \* how many processes were started
    forward,    \* for each worker, its vault's entries by value
    reverse,    \* and by pseudonym
    drawn,      \* tokens drawn so far: no two draws are alike
    begun,      \* how many exchanges have begun
    frame,      \* what is under way on each connection
    held        \* the newest handle and reference the client keeps

vars == <<campaign, now, process, started, forward, reverse, drawn, begun, frame, held>>

(* What the client keeps, with what it was issued for and by whom.         *)
Grant(kind, sealed, f, decision) ==
    [kind |-> kind, sealed |-> sealed, at |-> now, by |-> process[f.at], decision |-> decision]
Forged == [kind |-> "forged", sealed |-> Garbage, at |-> 0, by |-> Absent, decision |-> Absent]

Init ==
    /\ campaign \in Campaign
    /\ now = 0 /\ started = 0 /\ drawn = 0 /\ begun = 0
    /\ process = [w \in Worker |-> Absent]
    /\ forward = [w \in Worker |-> {}] /\ reverse = [w \in Worker |-> {}]
    /\ frame = [c \in Conn |-> Absent]
    /\ held = [handle |-> Absent, reference |-> Absent]

-----------------------------------------------------------------------------
(* Processes and time.                                                     *)

InUse(places) == Cardinality({p \in DOMAIN places : places[p] # Absent})

(* A process starts in the place of another, or fails to; what that one    *)
(* had in memory or under way is gone.                                     *)
Start(w) ==
    /\ started < campaign.starts
    /\ process[w] # Absent \/ InUse(process) < campaign.workers
    /\ started' = started + 1
    /\ \E env \in campaign.envs :
         process' = [process EXCEPT ![w] =
                       IF ServiceBuilds(env) THEN [env |-> env, id |-> started + 1] ELSE Absent]
    /\ forward' = [forward EXCEPT ![w] = {}] /\ reverse' = [reverse EXCEPT ![w] = {}]
    /\ frame' = [c \in Conn |-> IF frame[c] # Absent /\ frame[c].at = w THEN Absent ELSE frame[c]]
    /\ UNCHANGED <<campaign, now, drawn, begun, held>>

Tick == /\ now < campaign.time /\ now' = now + 1
        /\ UNCHANGED <<campaign, process, started, forward, reverse, drawn, begun, frame, held>>

-----------------------------------------------------------------------------
(* An exchange begins.                                                     *)

Env(f) == process[f.at].env
Context(f) ==
    ContextOf(MergeOverrides(DefaultGovernanceContext(Env(f)), f.built.overrides))
Partition(f) == PartitionOf(Policies, Context(f))

Answered(f, guard) == [f EXCEPT !.stage = "done", !.guard = guard]
Answer(f, status) == Answered(f, Send(f.guard, status))
Goes(c, f) == frame' = [frame EXCEPT ![c] = f]

(* The routes that take no body.                                           *)
ProbeGuard(f) ==
    IF f.request.route = "examples" /\ ~Env(f).corpus THEN Crash(f.guard)
    ELSE Send(f.guard, IF f.request.route = "ready" /\ UnreadyReason(Env(f)) # Absent
                       THEN 503 ELSE 200)

(* What a client may bring along: something it made up, or what it kept,   *)
(* as it was or damaged, of the right kind or not.                         *)
Brought(route) ==
    IF route \notin {"restore", "explore"} THEN {Absent}
    ELSE LET kept == {held.handle, held.reference} \ {Absent}
         IN  {Forged} \cup kept \cup {[g EXCEPT !.sealed = Damaged(@)] : g \in kept}

(* The texts a client may ask to have restored: up to two tokens, with or  *)
(* without a number after the pseudonym.                                   *)
Texts(route) ==
    IF route # "restore" THEN {{}}
    ELSE LET tokens == {[pseudonym |-> p, tail |-> n] : p \in 1..drawn, n \in {0, 1}}
         IN  {{s, t} : s \in tokens, t \in tokens}

Opened(w, request, brought, text) ==
    [at |-> w, request |-> request, brought |-> brought, text |-> text,
     guard |-> Fresh, left |-> request.size, stage |-> "reading",
     built |-> Absent, todo |-> <<>>, wanted |-> {}, token |-> Absent,
     decision |-> Absent, view |-> Absent, wrote |-> FALSE,
     called |-> FALSE, handledAt |-> Absent]

Arrive(c, w) ==
    /\ frame[c] = Absent /\ InUse(frame) < campaign.conns /\ process[w] # Absent
    /\ begun < campaign.exchanges /\ begun' = begun + 1
    /\ \E request \in campaign.requests :
       \E brought \in Brought(request.route), text \in Texts(request.route) :
         LET f == Opened(w, request, brought, text)
         IN  Goes(c, IF RefusesDeclared(request.declared, UploadLimit(Env(f)))
                     THEN Answered(f, SendTooLarge(f.guard))
                     ELSE IF request.route \in Probes THEN Answered(f, ProbeGuard(f))
                     ELSE f)
    /\ UNCHANGED <<campaign, now, process, started, forward, reverse, drawn, held>>

(* A chunk of the body, of any size.  When the counter raises, the         *)
(* framework's parser makes a 400 of it, or it comes through.              *)
Receive(c) ==
    /\ frame[c] # Absent /\ frame[c].stage = "reading"
    /\ \E bytes \in 1..frame[c].left :
         LET f == frame[c]
             guard == Count(f.guard, bytes, UploadLimit(Env(f)))
         IN  IF guard.exceeded
             THEN Goes(c, Answered(f, Send(guard, 400))) \/ Goes(c, Answered(f, Unwind(guard)))
             ELSE Goes(c, [f EXCEPT !.guard = guard, !.left = @ - bytes,
                             !.stage = IF f.left = bytes THEN "handling" ELSE "reading"])
    /\ UNCHANGED <<campaign, now, process, started, forward, reverse, drawn, begun, held>>

-----------------------------------------------------------------------------
(* The handlers, up to a decision.                                         *)

(* restore_document, restore.                                              *)
HandleRestore(f) ==
    LET verdict == HandleVerdict(f.brought.sealed, Env(f).restoreSecret, now)
        view == Restored(f.text, f.brought.sealed.claims.entries)
    IN  IF verdict = "unavailable" THEN Answer(f, 503)
        ELSE IF verdict # "ok" THEN Answer(f, 400)
        ELSE [Answer(f, 200) EXCEPT !.view = view]

(* explore_vault: a disabled feature does not look at the token.           *)
HandleExplore(f) ==
    IF ~Enabled(Env(f).explorer) THEN Answer(f, 404)
    ELSE IF ~Opens(f.brought.sealed, process[f.at].id, now) THEN Answer(f, 400)
    ELSE [Answer(f, 200) EXCEPT !.view = Explored(f.brought.sealed, reverse[f.at])]

(* _application_request_from, _document_application_request.  An example   *)
(* directory that does not load as a corpus is nobody's handled error.     *)
HandleDisclosure(f) ==
    LET built == BuiltFor(f.request, Env(f).parser)
        g == [f EXCEPT !.built = built]
        fromExample == f.request.route \notin Documents /\ Supplied(f.request.body) = {"example"}
    IN  IF fromExample /\ ~Env(f).corpus THEN Answered(f, Crash(f.guard))
        ELSE IF built.error # Absent
        THEN Answer(g, IF built.error = "ExampleNotFoundError" THEN 404 ELSE 400)
        ELSE [g EXCEPT !.stage = "deciding",
                !.todo = IF f.request.route = "compare" THEN CanonicalComparisonOrder
                         ELSE <<built.treatment>>]

Handle(c) ==
    /\ frame[c] # Absent /\ frame[c].stage = "handling"
    /\ LET f == [frame[c] EXCEPT !.handledAt = now]
       IN  Goes(c, IF ~f.request.valid THEN Answer(f, 422)
                   ELSE IF f.request.route = "restore" THEN HandleRestore(f)
                   ELSE IF f.request.route = "explore" THEN HandleExplore(f)
                   ELSE HandleDisclosure(f))
    /\ UNCHANGED <<campaign, now, process, started, forward, reverse, drawn, begun, held>>

-----------------------------------------------------------------------------
(* The decision, and the vault under it.                                   *)

Blocked == [status |-> "blocked", transformations |-> {}]
Allowed(transformations) == [status |-> "allowed", transformations |-> transformations]

(* What the next treatment pseudonymizes of a text; B0 and B1 never do,    *)
(* and B0 never blocks.  Without a partition there is nothing to look up.  *)
Selections(f) ==
    IF Head(f.todo) \in {"b0", "b1"} THEN {{}}
    ELSE {s \in SUBSET f.built.text.values : s = {} \/ Partition(f) # Absent}

Decided(f, decision) ==
    [f EXCEPT !.decision = decision, !.todo = Tail(@),
       !.stage = IF Len(f.todo) > 1 THEN "deciding" ELSE "decided"]

Choose(c) ==
    /\ frame[c] # Absent /\ frame[c].stage = "deciding"
    /\ LET f == frame[c]
       IN  \/ Head(f.todo) # "b0" /\ Goes(c, Decided(f, Blocked))
           \/ \E selection \in Selections(f) :
                Goes(c, IF selection = {} THEN Decided(f, Allowed({}))
                        ELSE [f EXCEPT !.stage = "looking", !.wanted = selection,
                                !.decision = Allowed({})])
    /\ UNCHANGED <<campaign, now, process, started, forward, reverse, drawn, begun, held>>

Span(f) == CHOOSE v \in f.wanted : TRUE

\* Keeps the token of the span it is done with.
GivenMutant1(f, pseudonym) ==
    LET t == [category |-> Span(f).category, original |-> Span(f).value,
              action |-> "pseudonymize", transformed |-> pseudonym]
        g == [f EXCEPT !.decision.transformations = @ \cup {t}, !.wanted = @ \ {Span(f)},
                       !.stage = "looking"]
    IN  IF g.wanted # {} THEN g ELSE Decided(g, g.decision)

(* The frame once the vault has answered for the span at hand.             *)
Given(f, pseudonym) ==
    LET t == [category |-> Span(f).category, original |-> Span(f).value,
              action |-> "pseudonymize", transformed |-> pseudonym]
        g == [f EXCEPT !.decision.transformations = @ \cup {t}, !.wanted = @ \ {Span(f)},
                       !.token = Absent, !.stage = "looking"]
    IN  IF g.wanted # {} THEN g ELSE Decided(g, g.decision)

Stored(f) == {e \in forward[f.at] : e.partition = Partition(f) /\ e.span = Span(f)}

LookUp(c) ==
    /\ frame[c] # Absent /\ frame[c].stage = "looking"
    /\ LET f == frame[c]
           found == Stored(f)
       IN  IF found # {}
           THEN \E e \in found : Goes(c, Given(f, e.pseudonym)) /\ drawn' = drawn
           ELSE /\ drawn < MaxDraws /\ drawn' = drawn + 1
                /\ Goes(c, [f EXCEPT !.token = drawn', !.stage = "storing"])
    /\ UNCHANGED <<campaign, now, process, started, forward, reverse, begun, held>>

StoreForward(c) ==
    /\ frame[c] # Absent /\ frame[c].stage = "storing"
    /\ LET f == frame[c]
           entry == [partition |-> Partition(f), span |-> Span(f), pseudonym |-> f.token]
       IN  /\ forward' = [forward EXCEPT ![f.at] = (@ \ Stored(f)) \cup {entry}]
           /\ Goes(c, [f EXCEPT !.stage = "linking", !.wrote = TRUE])
    /\ UNCHANGED <<campaign, now, process, started, reverse, drawn, begun, held>>

StoreReverse(c) ==
    /\ frame[c] # Absent /\ frame[c].stage = "linking"
    /\ LET f == frame[c]
           entry == [partition |-> Partition(f), pseudonym |-> f.token, value |-> Span(f).value]
       IN  /\ reverse' = [reverse EXCEPT ![f.at] = @ \cup {entry}]
           /\ Goes(c, Given(f, f.token))
    /\ UNCHANGED <<campaign, now, process, started, forward, drawn, begun, held>>

-----------------------------------------------------------------------------
(* The handlers, after the decision.                                       *)

IsDecided(c, routes) ==
    frame[c] # Absent /\ frame[c].stage = "decided" /\ frame[c].request.route \in routes

(* The client keeps what it got, or goes on with what it had.              *)
Keeps(kind, grant) ==
    \/ held' = held
    \/ grant # Absent /\ held' = [held EXCEPT ![kind] = grant]

FinishPreview(c) ==
    /\ IsDecided(c, Previews)
    /\ LET f == frame[c]
           reference == IssueReference(process[f.at].id, now, f.decision, Policies, Context(f),
                                       reverse[f.at])
       IN  /\ Goes(c, Answer(f, 200))
           /\ Keeps("reference", IF ~Enabled(Env(f).explorer) \/ reference = Absent THEN Absent
                                 ELSE Grant("reference", reference, f, f.decision))
    /\ UNCHANGED <<campaign, now, process, started, forward, reverse, drawn, begun>>

(* compare_strategies previews five times and keeps no reference.          *)
FinishCompare(c) ==
    /\ IsDecided(c, {"compare"})
    /\ Goes(c, Answer(frame[c], 200))
    /\ UNCHANGED <<campaign, now, process, started, forward, reverse, drawn, begun, held>>

(* execute: a blocked request and a failed call are answers like others.   *)
FinishExecute(c) ==
    /\ IsDecided(c, {"execute"})
    /\ LET f == frame[c]
           sendable == f.decision.status = "allowed" /\ Context(f).provider = ProviderClass(Env(f))
       IN  Goes(c, [Answer(f, 200) EXCEPT !.called = sendable])
    /\ UNCHANGED <<campaign, now, process, started, forward, reverse, drawn, begun, held>>

Entries(decision) ==
    [p \in {t.transformed : t \in decision.transformations} |->
       (CHOOSE t \in decision.transformations : t.transformed = p).original]

(* export: that there is no secret shows only after the decision.          *)
FinishExport(c) ==
    /\ IsDecided(c, {"export"})
    /\ LET f == frame[c]
           handle == IssueHandle(Env(f).restoreSecret, HandleTTL(Env(f)), now, Entries(f.decision))
       IN  IF f.decision.status # "allowed" THEN Goes(c, Answer(f, 400)) /\ held' = held
           ELSE IF Env(f).restoreSecret = Absent THEN Goes(c, Answer(f, 503)) /\ held' = held
           ELSE Goes(c, Answer(f, 200)) /\ Keeps("handle", Grant("handle", handle, f, f.decision))
    /\ UNCHANGED <<campaign, now, process, started, forward, reverse, drawn, begun>>

Close(c) ==
    /\ frame[c] # Absent /\ frame[c].stage = "done"
    /\ Goes(c, Absent)
    /\ UNCHANGED <<campaign, now, process, started, forward, reverse, drawn, begun, held>>

Serve(c) ==
    \/ Receive(c) \/ Handle(c) \/ Choose(c) \/ LookUp(c) \/ StoreForward(c) \/ StoreReverse(c)
    \/ FinishPreview(c) \/ FinishCompare(c) \/ FinishExecute(c) \/ FinishExport(c)

Next ==
    \/ Tick
    \/ \E w \in Worker : Start(w) \/ \E c \in Conn : Arrive(c, w)
    \/ \E c \in Conn : Serve(c) \/ Close(c)

Spec == Init /\ [][Next]_vars

-----------------------------------------------------------------------------
(* PROPERTIES                                                              *)

TypeOK ==
    /\ campaign \in Campaign /\ now \in 0..campaign.time /\ started \in 0..campaign.starts
    /\ drawn \in 0..MaxDraws /\ begun \in 0..campaign.exchanges
    /\ \A w \in Worker :
         /\ process[w] # Absent => process[w].id \in 1..started /\ process[w].env \in campaign.envs
         /\ process[w] = Absent => forward[w] = {} /\ reverse[w] = {}
         /\ \A e \in forward[w] \cup reverse[w] : e.pseudonym \in 1..drawn
    /\ \A c \in Conn : frame[c] # Absent =>
         /\ process[frame[c].at] # Absent
         /\ frame[c].request \in campaign.requests
         /\ frame[c].stage \in {"reading", "handling", "deciding", "looking", "storing", "linking",
                                "decided", "done"}
         /\ frame[c].stage \in {"storing", "linking"} <=> frame[c].token # Absent
         /\ frame[c].wanted # {} <=> frame[c].stage \in {"looking", "storing", "linking"}

Done(route) ==
    {frame[c] : c \in {d \in Conn : frame[d] # Absent /\ frame[d].stage = "done"
                                   /\ frame[d].request.route = route}}
Status(f) == f.guard.wire[1]

(* What is exported under a secret can be restored by every process with   *)
(* that secret, whatever has restarted in between: for as long as the      *)
(* handle promises, less at most the second its issue time was cut to, and *)
(* never longer.  Each pseudonym of the export that stands in the text is  *)
(* given its own original; no other token is touched, except one that is   *)
(* longer than a pseudonym of the export which stands in the text too      *)
(* (application/restore_handle.py).                                        *)
RestoreRoundTrips ==
    \A f \in Done("restore") :
      f.handledAt # Absent /\ f.request.valid =>
      LET g == f.brought
          secret == Env(f).restoreSecret
          mine == /\ secret # Absent /\ g.kind = "handle" /\ g.sealed.intact
                  /\ g.by.env.restoreSecret = secret
          ttl == HandleTTL(g.by.env)
          sent == {t.transformed : t \in g.decision.transformations}
      IN  /\ Status(f) = 503 <=> secret = Absent
          /\ Status(f) = 200 =>
               /\ mine /\ f.handledAt <= g.at + ttl * Second
               /\ \A t \in g.decision.transformations :
                    Bare(t.transformed) \in f.text => f.view[Bare(t.transformed)] = t.original
               /\ \A token \in f.text :
                    token.pseudonym \notin sent \/ Bare(token.pseudonym) \notin f.text =>
                      f.view[token] = Absent
          /\ mine /\ f.handledAt <= g.at + (ttl - 1) * Second => Status(f) = 200

(* The explorer shows what one reviewed result pseudonymized and nothing   *)
(* else: only if it is enabled, to the bearer of the reference issued with *)
(* that result, by the process that issued it, inside its window; and then *)
(* it shows all of it, although other requests were in the vault at the    *)
(* same time (application/vault_explorer.py).                              *)
ExplorerIsConfined ==
    \A f \in Done("explore") :
      f.handledAt # Absent /\ f.request.valid =>
      LET g == f.brought
          mine == /\ Enabled(Env(f).explorer) /\ g.kind = "reference" /\ g.sealed.intact
                  /\ g.by = process[f.at]
          shown == g.decision.transformations
      IN  /\ Status(f) = 404 <=> ~Enabled(Env(f).explorer)
          /\ Status(f) = 200 =>
               /\ mine /\ f.handledAt <= g.at + ExplorerTTL * Second
               /\ g.decision.status = "allowed"
               /\ f.view = {[category |-> t.category, pseudonym |-> t.transformed,
                            original |-> t.original] : t \in shown}
          /\ mine /\ f.handledAt <= g.at + (ExplorerTTL - 1) * Second => Status(f) = 200

(* One exchange has one answer.  It is 413 exactly when the body is longer *)
(* than the limit of the process, declared or not, and then nothing of it  *)
(* was parsed; an answer that blames the request (4xx) has left nothing in *)
(* the vault and reached no provider; and a process that was built is      *)
(* unready for want of a credential or an SDK only (api/limits.py,         *)
(* api/app.py).                                                            *)
AnswersAreTruthful ==
    \A c \in Conn : frame[c] # Absent =>
      LET f == frame[c]
          tooLong == RefusesDeclared(f.request.declared, UploadLimit(Env(f)))
                     \/ f.request.size > UploadLimit(Env(f))
          parsed == f.built # Absent /\ f.built.parsed
      IN  /\ Len(f.guard.wire) = IF f.stage = "done" THEN 1 ELSE 0
          /\ f.stage = "done" => (Status(f) = 413 <=> tooLong)
          /\ parsed => ~tooLong /\ ~(f.request.body.file.bytes > MaxInputBytes)
          /\ f.stage = "done" /\ Status(f) \in 400..499 => ~f.wrote /\ ~f.called
          /\ f.stage = "done" /\ f.request.route = "ready" /\ Status(f) = 503 =>
               ProviderName(Env(f)) = "anthropic" /\ (Env(f).credential = Absent \/ ~Env(f).sdk)

(* A document is governed by the preset of its type, and by nothing else   *)
(* the client sends or the deployment defaults to; and a request that does *)
(* not itself name a class of provider goes to the provider that is there, *)
(* wherever it comes from (application/presets.py, requests.py).           *)
GovernedAsDeclared ==
    \A c \in Conn : frame[c] # Absent /\ frame[c].decision # Absent =>
      LET f == frame[c]
          body == f.request.body
      IN  /\ f.request.route \in Documents =>
               /\ Context(f).domain = Presets[body.document_type].domain
               /\ Context(f).version = Presets[body.document_type].policy_version
               /\ Context(f).role = Presets[body.document_type].requester_role
               /\ \E i \in 1..3 : Context(f).purpose = Presets[body.document_type].modes[i]
          /\ f.request.route \in Documents \/ body.governance.provider_class = Absent =>
               Context(f).provider = ProviderClass(Env(f))
          /\ f.stage = "done" /\ f.request.route = "execute" /\ f.decision.status = "allowed" =>
               (f.called <=> body.governance.provider_class \in {Absent, ProviderClass(Env(f))})
=============================================================================
