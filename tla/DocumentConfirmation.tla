------------------------ MODULE DocumentConfirmation ------------------------
(***************************************************************************)
(* The confirmed structured-document flow (application/service.py and      *)
(* application/preview_confirmation.py).  preview_document decides a       *)
(* disclosure and returns a token that authenticates it; execute_document  *)
(* decides again, verifies the token against what it decided, and sends    *)
(* that very decision to the provider.                                     *)
(*                                                                         *)
(* Every worker process owns a vault and a signer.  Its requests run in a  *)
(* thread pool, so handlers of one worker interleave in the vault; a       *)
(* worker that is restarted loses its vault, its handlers and, unless the  *)
(* secret is configured, its key, and may come back with another provider. *)
(*                                                                         *)
(* A MAC is idealised: a token verifies exactly when it was issued under   *)
(* the same key for the same state.  A state is abstracted to the request, *)
(* the provider class and the payload; the governance fields bound beside  *)
(* them are functions of the request.                                      *)
(***************************************************************************)
EXTENDS Naturals, FiniteSets

CONSTANTS
    Worker,         \* API processes
    Handler,        \* pool threads, over all workers
    Doc,            \* normalised documents
    Task,
    NamedDoc,       \* documents with a value that is pseudonymised
    BlockedDoc,     \* documents with a span whose action is BLOCK_REQUEST
    SensitiveTask,  \* tasks the detector finds something in
    Pseudonym,      \* what the vault can draw
    Durable,        \* ADG_PREVIEW_CONFIRMATION_SECRET is configured
    TTL,            \* DEFAULT_CONFIRMATION_TTL_SECONDS
    MaxTime,        \* bound on the clock
    MaxRestarts,    \* bound on the restarts of one worker
    MaxIssued,      \* bound on the tokens issued
    Absent          \* None

Strategy == {"direct", "recommended"}
Provider == {"fake", "anthropic_api"}
Request == [doc : Doc, task : Task, strategy : Strategy]
Payload == [form : {"empty", "raw", "governed"}, pseudonym : Pseudonym \cup {Absent}]
State == [request : Request, provider : Provider, payload : Payload]
Key == [holder : Worker \cup {Absent}, incarnation : Nat]
Token == [key : Key, state : State, issuedAt : Nat]
Sent == [key : Key, state : State, verifiedAt : Nat]

ASSUME ConfirmationAssumption ==
    /\ NamedDoc \subseteq Doc /\ BlockedDoc \subseteq Doc /\ SensitiveTask \subseteq Task
    /\ Durable \in BOOLEAN
    /\ TTL \in Nat \ {0} /\ MaxTime \in Nat /\ MaxRestarts \in Nat /\ MaxIssued \in Nat
    /\ Absent \notin Pseudonym /\ Absent \notin Request /\ Absent \notin Token \cup Sent

VARIABLES
    now,          \* the clock all workers read
    provider,     \* the provider class each worker is wired to
    incarnation,  \* restarts of each worker
    vault,        \* the pseudonym each worker's vault holds for a document's value
    drawn,        \* pseudonyms drawn so far, by any worker (history)
    pc, at, request, presented, pseudonym, verifiedAt,   \* each handler's frame
    issued,       \* the tokens clients hold
    sent,         \* what reached a provider last (history)
    rejected      \* the confirmation refused last (history)

workers == <<now, provider, incarnation, vault, drawn>>
frames == <<pc, at, request, presented, pseudonym, verifiedAt>>
vars == <<workers, frames, issued, sent, rejected>>

Init ==
    /\ now = 0
    /\ provider \in [Worker -> IF Durable THEN Provider ELSE {"fake"}]
    /\ incarnation = [w \in Worker |-> 0]
    /\ vault = [w \in Worker |-> [d \in Doc |-> Absent]]
    /\ drawn = {}
    /\ pc = [h \in Handler |-> "idle"]
    /\ at = [h \in Handler |-> Absent]
    /\ request = [h \in Handler |-> Absent]
    /\ presented = [h \in Handler |-> Absent]
    /\ pseudonym = [h \in Handler |-> Absent]
    /\ verifiedAt = [h \in Handler |-> 0]
    /\ issued = {} /\ sent = Absent /\ rejected = Absent

-----------------------------------------------------------------------------
(* The signer's key: the configured secret, or one drawn at start-up.      *)
KeyOf(w) == IF Durable THEN [holder |-> Absent, incarnation |-> 0]
                       ELSE [holder |-> w, incarnation |-> incarnation[w]]

(* Only governed treatments touch the vault, and none does on a blocked    *)
(* document.  The task is looked at later.                                 *)
UsesVault(r) == r.strategy # "direct" /\ r.doc \in NamedDoc \ BlockedDoc

(* decide_disclosure: B0 sends everything, task included.                  *)
Blocked(r) == r.strategy # "direct" /\ (r.doc \in BlockedDoc \/ r.task \in SensitiveTask)

PayloadOf(r, ps) ==
    IF Blocked(r) THEN [form |-> "empty", pseudonym |-> Absent]
    ELSE IF r.strategy = "direct" THEN [form |-> "raw", pseudonym |-> Absent]
    ELSE [form |-> "governed", pseudonym |-> ps]

(* _confirmation_state of the decision handler h holds.                    *)
StateOf(h) == [request |-> request[h], provider |-> provider[at[h]],
               payload |-> PayloadOf(request[h], pseudonym[h])]

(* The handler returns, and its frame is gone.                             *)
Return(h) ==
    /\ pc' = [pc EXCEPT ![h] = "idle"]
    /\ at' = [at EXCEPT ![h] = Absent]
    /\ request' = [request EXCEPT ![h] = Absent]
    /\ presented' = [presented EXCEPT ![h] = Absent]
    /\ pseudonym' = [pseudonym EXCEPT ![h] = Absent]
    /\ verifiedAt' = [verifiedAt EXCEPT ![h] = 0]

-----------------------------------------------------------------------------
(* A request arrives at worker w, with a token (execute) or without one    *)
(* (preview).                                                              *)
Begin(h, w, r, tok) ==
    /\ pc[h] = "idle"
    /\ pc' = [pc EXCEPT ![h] = "decide"]
    /\ at' = [at EXCEPT ![h] = w]
    /\ request' = [request EXCEPT ![h] = r]
    /\ presented' = [presented EXCEPT ![h] = tok]
    /\ sent' = Absent /\ rejected' = Absent
    /\ UNCHANGED <<workers, pseudonym, verifiedAt, issued>>

(* The decision needs no new pseudonym: none at all, or the vault has it.  *)
DecideHit(h) ==
    LET ps == IF UsesVault(request[h]) THEN vault[at[h]][request[h].doc] ELSE Absent
    IN  /\ pc[h] = "decide"
        /\ UsesVault(request[h]) => ps # Absent
        /\ pseudonym' = [pseudonym EXCEPT ![h] = ps]
        /\ pc' = [pc EXCEPT ![h] = "decided"]
        /\ UNCHANGED <<workers, at, request, presented, verifiedAt, issued, sent, rejected>>

(* The vault has no pseudonym yet: draw one ...                            *)
DecideMiss(h, ps) ==
    /\ pc[h] = "decide"
    /\ UsesVault(request[h]) /\ vault[at[h]][request[h].doc] = Absent
    /\ ps \notin drawn
    /\ drawn' = drawn \cup {ps}
    /\ pseudonym' = [pseudonym EXCEPT ![h] = ps]
    /\ pc' = [pc EXCEPT ![h] = "store"]
    /\ UNCHANGED <<now, provider, incarnation, vault, at, request, presented, verifiedAt,
                   issued, sent, rejected>>

(* ... and store it, whatever another handler stored since.                *)
Store(h) ==
    /\ pc[h] = "store"
    /\ vault' = [vault EXCEPT ![at[h]][request[h].doc] = pseudonym[h]]
    /\ pc' = [pc EXCEPT ![h] = "decided"]
    /\ UNCHANGED <<now, provider, incarnation, drawn, at, request, presented, pseudonym,
                   verifiedAt, issued, sent, rejected>>

(* A variant named ...Mutant<n> is the definition after it with one         *)
(* plausible slip; no specification uses it.                               *)
\* The payload is not bound.
IssueMutant1(h) ==
    /\ pc[h] = "decided" /\ presented[h] = Absent
    /\ Cardinality(issued) < MaxIssued
    /\ issued' = issued \cup
          {[key |-> KeyOf(at[h]), state |-> [StateOf(h) EXCEPT !.payload = Absent],
            issuedAt |-> now]}
    /\ Return(h)
    /\ UNCHANGED <<workers, sent, rejected>>

(* preview_document: sign what was decided.                                *)
Issue(h) ==
    /\ pc[h] = "decided" /\ presented[h] = Absent
    /\ Cardinality(issued) < MaxIssued
    /\ issued' = issued \cup
          {[key |-> KeyOf(at[h]), state |-> StateOf(h), issuedAt |-> now]}
    /\ Return(h)
    /\ UNCHANGED <<workers, sent, rejected>>

(* PreviewConfirmationSigner.verify: the MAC first, then the window.       *)
Verifies(tok, key, state) ==
    /\ tok.key = key
    /\ tok.state = state
    /\ now <= tok.issuedAt + TTL

Verify(h) ==
    /\ pc[h] = "decided" /\ presented[h] # Absent
    /\ Verifies(presented[h], KeyOf(at[h]), StateOf(h))
    /\ pc' = [pc EXCEPT ![h] = "verified"]
    /\ verifiedAt' = [verifiedAt EXCEPT ![h] = now]
    /\ UNCHANGED <<workers, at, request, presented, pseudonym, issued, sent, rejected>>

(* PreviewConfirmationError, one message for every cause.                  *)
Reject(h) ==
    /\ pc[h] = "decided" /\ presented[h] # Absent
    /\ ~Verifies(presented[h], KeyOf(at[h]), StateOf(h))
    /\ rejected' = [token |-> presented[h], key |-> KeyOf(at[h]), request |-> request[h],
                    provider |-> provider[at[h]], at |-> now]
    /\ Return(h)
    /\ UNCHANGED <<workers, issued, sent>>

\* The provider class is compared the wrong way round.
RefusesDirectMutant1(h) == request[h].strategy = "direct" /\ provider[at[h]] = "fake"

(* _refuse_unsafe_control_outside_the_trust_boundary                       *)
RefusesDirect(h) == request[h].strategy = "direct" /\ provider[at[h]] # "fake"

RefuseDirect(h) ==
    /\ pc[h] = "verified"
    /\ RefusesDirect(h)
    /\ Return(h)
    /\ UNCHANGED <<workers, issued, sent, rejected>>

\* The decision is made again after its verification.
SentByMutant1(h) ==
    [key |-> KeyOf(at[h]), verifiedAt |-> verifiedAt[h],
     state |-> [request |-> request[h], provider |-> provider[at[h]],
                payload |-> PayloadOf(request[h], vault[at[h]][request[h].doc])]]

(* execute_disclosure_decision on the verified decision: a blocked one is  *)
(* answered without a provider call.                                       *)
SentBy(h) == [key |-> KeyOf(at[h]), state |-> StateOf(h), verifiedAt |-> verifiedAt[h]]

Finish(h) ==
    /\ pc[h] = "verified"
    /\ ~RefusesDirect(h)
    /\ sent' = IF Blocked(request[h]) THEN sent ELSE SentBy(h)
    /\ Return(h)
    /\ UNCHANGED <<workers, issued, rejected>>

-----------------------------------------------------------------------------
(* A worker stops and starts again, perhaps redeployed with another        *)
(* provider; without a configured secret only "fake" may be wired.         *)
Restart(w, prov) ==
    /\ incarnation[w] < MaxRestarts
    /\ prov = "fake" \/ Durable
    /\ incarnation' = [incarnation EXCEPT ![w] = @ + 1]
    /\ provider' = [provider EXCEPT ![w] = prov]
    /\ vault' = [vault EXCEPT ![w] = [d \in Doc |-> Absent]]
    /\ LET Dead(h) == at[h] = w
       IN  /\ pc' = [h \in Handler |-> IF Dead(h) THEN "idle" ELSE pc[h]]
           /\ at' = [h \in Handler |-> IF Dead(h) THEN Absent ELSE at[h]]
           /\ request' = [h \in Handler |-> IF Dead(h) THEN Absent ELSE request[h]]
           /\ presented' = [h \in Handler |-> IF Dead(h) THEN Absent ELSE presented[h]]
           /\ pseudonym' = [h \in Handler |-> IF Dead(h) THEN Absent ELSE pseudonym[h]]
           /\ verifiedAt' = [h \in Handler |-> IF Dead(h) THEN 0 ELSE verifiedAt[h]]
    /\ UNCHANGED <<now, drawn, issued, sent, rejected>>

Tick ==
    /\ now < MaxTime
    /\ now' = now + 1
    /\ UNCHANGED <<provider, incarnation, vault, drawn, frames, issued, sent, rejected>>

Handle(h) ==
    \/ DecideHit(h)
    \/ \E ps \in Pseudonym : DecideMiss(h, ps)
    \/ Store(h)
    \/ Issue(h)
    \/ Verify(h) \/ Reject(h)
    \/ RefuseDirect(h) \/ Finish(h)

Next ==
    \/ \E h \in Handler :
          \/ \E w \in Worker, r \in Request, tok \in issued \cup {Absent} : Begin(h, w, r, tok)
          \/ Handle(h)
    \/ \E w \in Worker, prov \in Provider : Restart(w, prov)
    \/ Tick

Spec == Init /\ [][Next]_vars

-----------------------------------------------------------------------------
Steps == {"idle", "decide", "store", "decided", "verified"}

(* The types of the workers, of the handlers' frames and of the histories. *)
TypeOK ==
    /\ now \in 0 .. MaxTime
    /\ provider \in [Worker -> Provider]
    /\ incarnation \in [Worker -> 0 .. MaxRestarts]
    /\ vault \in [Worker -> [Doc -> Pseudonym \cup {Absent}]]
    /\ drawn \in SUBSET Pseudonym
    /\ pc \in [Handler -> Steps]
    /\ at \in [Handler -> Worker \cup {Absent}]
    /\ request \in [Handler -> Request \cup {Absent}]
    /\ presented \in [Handler -> issued \cup {Absent}]
    /\ pseudonym \in [Handler -> Pseudonym \cup {Absent}]
    /\ verifiedAt \in [Handler -> 0 .. MaxTime]
    /\ \A h \in Handler : pc[h] # "idle" => at[h] \in Worker /\ request[h] \in Request
    /\ \A tok \in issued : tok \in Token
    /\ sent \in Sent \cup {Absent}

(* An execute can only ever run a state a reviewer approved, never a       *)
(* different one: whatever reached a provider - document, task, strategy,  *)
(* provider class and payload - was shown by a preview under the same key, *)
(* and was verified inside that preview's window (execute_document and     *)
(* docs/advisor-demo.md).                                                  *)
OnlyApprovedIsSent ==
    sent # Absent => \E tok \in issued :
        /\ tok.state = sent.state
        /\ tok.key = sent.key
        /\ tok.issuedAt <= sent.verifiedAt /\ sent.verifiedAt <= tok.issuedAt + TTL

(* B0 is previewed and approved like any strategy, yet on this surface an  *)
(* unprotected document never reaches a provider outside the trust         *)
(* boundary; nor does a blocked request reach any provider.                *)
UnsafeStaysInside ==
    sent # Absent =>
        /\ sent.state.payload.form = "raw" => sent.state.provider = "fake"
        /\ ~Blocked(sent.state.request)

(* An unexpired approval presented with the request it approved, to a      *)
(* worker with the same key and provider, is honoured: the confirmation    *)
(* refuses only a divergence, a foreign key or an expiry.                  *)
ApprovalHonoured ==
    rejected # Absent =>
        ~ /\ rejected.token.key = rejected.key
          /\ rejected.token.state.request = rejected.request
          /\ rejected.token.state.provider = rejected.provider
          /\ rejected.at <= rejected.token.issuedAt + TTL
=============================================================================
