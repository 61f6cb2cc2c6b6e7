------------------------ MODULE GatewayServiceProofs ------------------------
(***************************************************************************)
(* Proofs about GatewayService, for any workers, connections, policies and *)
(* campaigns.                                                              *)
(*                                                                         *)
(* Every action is first restated as a relation between a frame and the    *)
(* frame that comes of it (Received, Handled, Chosen, ...), so that the    *)
(* rest is about one exchange at a time.  Then four invariants: Base says  *)
(* where things are, Sounds how far each exchange has come, Agrees(m) that *)
(* there is one meaning m of all pseudonyms, with which every vault, every *)
(* exchange and everything a client keeps agree, and Findables that what a *)
(* reference is for stays in the vault of its process.  m is not a part of *)
(* the state: it is what the tokens drawn so far stand for.                *)
(***************************************************************************)
EXTENDS GatewayService, TLAPS

(* Refusals and results.                                                   *)
LEMMA RefusedIsNoResult ==
  ASSUME NEW exception \in Exceptions, NEW parsed
  PROVE  Refused(exception, parsed).error # Absent /\ Refused(exception, parsed).parsed = parsed
BY ValuesAssumption DEF Refused

LEMMA NormalizedParsed ==
  ASSUME NEW file, NEW parser, NormalizeTextFile(file, parser).parsed
  PROVE  ~(file.bytes > MaxInputBytes)
BY DEF NormalizeTextFile, Refused, Normalized

LEMMA DocumentBuilt ==
  ASSUME NEW form, NEW parser
  PROVE  LET built == BuildDocumentRequest(form, parser)
         IN  /\ built.parsed => ~(form.file.bytes > MaxInputBytes)
             /\ built.error = Absent =>
                  /\ ResolveAnalysisMode(form.document_type, form.analysis_mode) # Absent
                  /\ built.overrides = ResolveGovernancePreset(form.document_type, form.analysis_mode)
<1> DEFINE mode == ResolveAnalysisMode(form.document_type, form.analysis_mode)
           content == NormalizeTextFile(form.file, parser)
           built == BuildDocumentRequest(form, parser)
           made == Built(content, form.task, form.strategy,
                   ResolveGovernancePreset(form.document_type, form.analysis_mode),
                   [type |-> form.document_type, mode |-> mode])
<1>1. content.parsed => ~(form.file.bytes > MaxInputBytes)
  BY NormalizedParsed
<1>2. built = IF mode = Absent THEN Refused("DocumentAnalysisPresetError", FALSE)
              ELSE IF content.error # Absent THEN content ELSE made
  BY DEF BuildDocumentRequest
<1>3. /\ Refused("DocumentAnalysisPresetError", FALSE).error # Absent
      /\ ~Refused("DocumentAnalysisPresetError", FALSE).parsed
  BY RefusedIsNoResult DEF Exceptions
<1>4. made.parsed = content.parsed
      /\ made.overrides = ResolveGovernancePreset(form.document_type, form.analysis_mode)
  BY DEF Built
<1> HIDE DEF mode, content, built, made
<1>5. QED
  BY <1>1, <1>2, <1>3, <1>4 DEF mode, content, built

LEMMA DirectlyBuilt ==
  ASSUME NEW body, NEW content
  PROVE  LET made == IF content.error # Absent THEN content
                     ELSE IF body.task = Absent THEN Refused("MissingTaskError", content.parsed)
                     ELSE Built(content, body.task, body.strategy, body.governance, Absent)
         IN  /\ made.parsed = content.parsed
             /\ made.error = Absent => made.overrides = body.governance
<1> DEFINE refusal == Refused("MissingTaskError", content.parsed)
           made == Built(content, body.task, body.strategy, body.governance, Absent)
<1>1. refusal.error # Absent /\ refusal.parsed = content.parsed
  BY RefusedIsNoResult DEF Exceptions
<1>2. made.parsed = content.parsed /\ made.overrides = body.governance
  BY DEF Built
<1> HIDE DEF refusal, made
<1>3. LET m == IF content.error # Absent THEN content
               ELSE IF body.task = Absent THEN refusal ELSE made
      IN  m.parsed = content.parsed /\ (m.error = Absent => m.overrides = body.governance)
  BY <1>1, <1>2
<1>4. QED
  BY <1>3 DEF refusal, made

LEMMA ApplicationBuilt ==
  ASSUME NEW body, NEW parser
  PROVE  LET built == BuildApplicationRequest(body, parser)
         IN  /\ built.parsed => ~(body.file.bytes > MaxInputBytes)
             /\ built.error = Absent =>
                  built.overrides.provider_class = body.governance.provider_class
<1> DEFINE direct(content) ==
             IF content.error # Absent THEN content
             ELSE IF body.task = Absent THEN Refused("MissingTaskError", content.parsed)
             ELSE Built(content, body.task, body.strategy, body.governance, Absent)
           fromText == direct(NormalizeText(body.text))
           fromFile == direct(NormalizeTextFile(body.file, parser))
           example == NormalizeText(body.example.text)
           defaults == ApplyExampleGovernanceDefaults(body.example, body.governance)
           made == Built(example, IF body.task = Absent THEN body.example.task ELSE body.task,
                         body.strategy, defaults, Absent)
           missing == Refused("ExampleNotFoundError", FALSE)
           unclear == Refused("ContentSourceError", FALSE)
           isText == Supplied(body) = {"text"}
           isFile == Supplied(body) = {"file"} /\ body.filename # Absent /\ body.file # Absent
           isExample == Supplied(body) = {"example"}
           built == BuildApplicationRequest(body, parser)
<1>1. ~NormalizeText(body.text).parsed /\ ~example.parsed
  BY DEF NormalizeText, Refused, Normalized
<1>2. ~fromText.parsed
      /\ (fromText.error = Absent => fromText.overrides = body.governance)
  BY <1>1, DirectlyBuilt
<1>3. (fromFile.parsed => ~(body.file.bytes > MaxInputBytes))
      /\ (fromFile.error = Absent => fromFile.overrides = body.governance)
  BY NormalizedParsed, DirectlyBuilt
<1>4. missing.error # Absent /\ ~missing.parsed /\ unclear.error # Absent /\ ~unclear.parsed
  BY RefusedIsNoResult DEF Exceptions
<1>5. made.parsed = example.parsed /\ made.overrides = defaults
  BY DEF Built
<1>6. defaults.provider_class = body.governance.provider_class
  BY DEF ApplyExampleGovernanceDefaults, OverrideFields, ExampleOverrideFields
<1>7. built = IF isText THEN fromText ELSE IF isFile THEN fromFile
              ELSE IF isExample THEN IF ~body.example.found THEN missing
                                     ELSE IF example.error # Absent THEN example ELSE made
              ELSE unclear
  BY DEF BuildApplicationRequest
<1> HIDE DEF direct, fromText, fromFile, example, defaults, made, missing, unclear, isText,
             isFile, isExample, built
<1>8. QED
  BY <1>1, <1>2, <1>3, <1>4, <1>5, <1>6, <1>7 DEF built

(* What a process that was built has got.                                  *)
LEMMA LimitIsPositive ==
  ASSUME NEW env PROVE UploadLimit(env) \in Nat \ {0}
BY LimitAssumption DEF UploadLimit, MaxUploadBytes

LEMMA LifetimeIsPositive ==
  ASSUME NEW env, env.handleTTL \in Int \cup {Absent, Malformed}, ServiceBuilds(env)
  PROVE  HandleTTL(env) \in Nat \ {0}
BY SealedAssumption DEF ServiceBuilds, RestoreSealerBuilds, SealerBuilds, HandleTTL, Or

LEMMA UnreadyForAReason ==
  ASSUME NEW env, ServiceBuilds(env), UnreadyReason(env) # Absent
  PROVE  ProviderName(env) = "anthropic" /\ (env.credential = Absent \/ ~env.sdk)
BY DEF ServiceBuilds, SignerBuilds, ProviderBuilds, ProviderClass, UnreadyReason

(* Cutting a clock down to the second costs less than a second.            *)
LEMMA SecondsAreWhole ==
  ASSUME NEW t \in Nat
  PROVE  /\ t \div Second \in Nat
         /\ (t \div Second) * Second <= t
         /\ t < (t \div Second) * Second + Second
<1>1. Second \in Nat /\ Second > 0
  BY SealedAssumption
<1>2. QED
  BY <1>1

LEMMA WindowIsWhole ==
  ASSUME NEW issued \in Nat, NEW later \in Nat, NEW ttl \in Nat, NEW claims,
         claims.exp = Expiry(issued, ttl)
  PROVE  /\ ~Expired(claims, later) => later <= issued + ttl * Second
         /\ later <= issued + (ttl - 1) * Second => ~Expired(claims, later)
<1> DEFINE d == issued \div Second
<1>1. Second \in Nat /\ d \in Nat /\ d * Second <= issued /\ issued < d * Second + Second
  BY SealedAssumption, SecondsAreWhole
<1>2. claims.exp = d + ttl
  BY DEF Expiry
<1> HIDE DEF d
<1>3. (d + ttl) * Second = d * Second + ttl * Second /\ (ttl - 1) * Second = ttl * Second - Second
  BY <1>1
<1>4. d * Second \in Nat /\ ttl * Second \in Nat
  BY <1>1
<1>5. QED
  BY <1>1, <1>2, <1>3, <1>4 DEF Expired
-----------------------------------------------------------------------------
(* Where things are, and what a frame is made of.                          *)

Fields == {"at", "request", "brought", "text", "guard", "left", "stage", "built", "todo", "wanted",
           "token", "decision", "view", "wrote", "called", "handledAt"}
Stages == {"reading", "handling", "deciding", "looking", "storing", "linking", "decided", "done"}
Vaulted == {"looking", "storing", "linking"}

Placed ==
    /\ campaign \in Campaign /\ now \in 0..campaign.time /\ started \in 0..campaign.starts
    /\ drawn \in 0..MaxDraws /\ begun \in 0..campaign.exchanges
    /\ DOMAIN process = Worker /\ DOMAIN forward = Worker /\ DOMAIN reverse = Worker
    /\ DOMAIN frame = Conn /\ DOMAIN held = {"handle", "reference"}
    /\ \A w \in Worker : process[w] # Absent =>
         /\ process[w].env \in campaign.envs /\ ServiceBuilds(process[w].env)
         /\ process[w].id \in 1..started
    /\ \A w, v \in Worker : process[w] # Absent /\ process[v] # Absent =>
         (process[w].id = process[v].id => w = v)
    /\ \A w \in Worker : process[w] = Absent => forward[w] = {} /\ reverse[w] = {}

Shaped(f) ==
    /\ DOMAIN f = Fields /\ f.at \in Worker /\ process[f.at] # Absent
    /\ f.request \in campaign.requests /\ f.stage \in Stages
    /\ f.wrote \in BOOLEAN /\ f.called \in BOOLEAN
    /\ f.stage \in Vaulted => DOMAIN f.decision = {"status", "transformations"}

Same(f, g, changed) == DOMAIN g = Fields /\ \A x \in Fields \ changed : g[x] = f[x]

(* What Receive makes of a frame.                                          *)
Received(f, g, bytes) ==
    LET guard == Count(f.guard, bytes, UploadLimit(Env(f)))
    IN  /\ f.stage = "reading"
        /\ \/ /\ guard.exceeded /\ Same(f, g, {"guard", "stage"}) /\ g.stage = "done"
              /\ g.guard \in {Send(guard, 400), Unwind(guard)}
           \/ /\ ~guard.exceeded /\ Same(f, g, {"guard", "left", "stage"})
              /\ g.guard = guard /\ g.left = f.left - bytes
              /\ g.stage = IF f.left = bytes THEN "handling" ELSE "reading"

LEMMA ReceiveStep ==
  ASSUME Placed, NEW c \in Conn, Shaped(frame[c]), Receive(c)
  PROVE  \E bytes \in 1..frame[c].left : \E g : Goes(c, g) /\ Received(frame[c], g, bytes)
<1> DEFINE f == frame[c]
<1>1. PICK bytes \in 1..f.left :
         LET guard == Count(f.guard, bytes, UploadLimit(Env(f)))
         IN  IF guard.exceeded
             THEN Goes(c, Answered(f, Send(guard, 400))) \/ Goes(c, Answered(f, Unwind(guard)))
             ELSE Goes(c, [f EXCEPT !.guard = guard, !.left = @ - bytes,
                             !.stage = IF f.left = bytes THEN "handling" ELSE "reading"])
  BY DEF Receive
<1> DEFINE guard == Count(f.guard, bytes, UploadLimit(Env(f)))
           next == [f EXCEPT !.guard = guard, !.left = @ - bytes,
                             !.stage = IF f.left = bytes THEN "handling" ELSE "reading"]
<1>2. DOMAIN f = Fields /\ f.stage = "reading"
  BY DEF Shaped, Receive
<1>3. ASSUME NEW u
      PROVE  Same(f, Answered(f, u), {"guard", "stage"}) /\ Answered(f, u).stage = "done"
             /\ Answered(f, u).guard = u
  BY <1>2 DEF Answered, Same, Fields
<1>4. Same(f, next, {"guard", "left", "stage"}) /\ next.guard = guard
      /\ next.left = f.left - bytes
      /\ next.stage = IF f.left = bytes THEN "handling" ELSE "reading"
  BY <1>2 DEF Same, Fields
<1> HIDE DEF f, guard, next
<1>5. CASE guard.exceeded
  <2>1. PICK u \in {Send(guard, 400), Unwind(guard)} : Goes(c, Answered(f, u))
    BY <1>1, <1>5 DEF guard
  <2>2. Received(f, Answered(f, u), bytes)
    BY <1>2, <1>3, <1>5, <2>1 DEF Received, guard
  <2>3. QED
    BY <2>1, <2>2 DEF f
<1>6. CASE ~guard.exceeded
  <2>1. Goes(c, next)
    BY <1>1, <1>6 DEF guard, next
  <2>2. Received(f, next, bytes)
    BY <1>2, <1>4, <1>6 DEF Received, guard
  <2>3. QED
    BY <2>1, <2>2 DEF f
<1>7. QED
  BY <1>5, <1>6

(* An answer changes the guard and the stage.                              *)
LEMMA AnsweredStep ==
  ASSUME NEW f, DOMAIN f = Fields, NEW u
  PROVE  /\ Same(f, Answered(f, u), {"guard", "stage"})
         /\ Answered(f, u).stage = "done" /\ Answered(f, u).guard = u
BY DEF Answered, Same, Fields

(* What Arrive makes of a frame.                                           *)
Arrived(w, request, brought, text, g) ==
    LET h == Opened(w, request, brought, text)
        refuses == RefusesDeclared(request.declared, UploadLimit(Env(h)))
    IN  /\ process[w] # Absent /\ request \in campaign.requests
        /\ brought \in Brought(request.route) /\ text \in Texts(request.route)
        /\ \/ /\ refuses /\ Same(h, g, {"guard", "stage"})
              /\ g.stage = "done" /\ g.guard = SendTooLarge(h.guard)
           \/ /\ ~refuses /\ request.route \in Probes /\ Same(h, g, {"guard", "stage"})
              /\ g.stage = "done" /\ g.guard = ProbeGuard(h)
           \/ ~refuses /\ request.route \notin Probes /\ g = h

LEMMA ArriveStep ==
  ASSUME NEW c \in Conn, NEW w \in Worker, Arrive(c, w)
  PROVE  \E request, brought, text, g : Goes(c, g) /\ Arrived(w, request, brought, text, g)
<1>1. process[w] # Absent
  BY DEF Arrive
<1>2. PICK request \in campaign.requests :
         \E brought \in Brought(request.route), text \in Texts(request.route) :
         LET f == Opened(w, request, brought, text)
         IN  Goes(c, IF RefusesDeclared(request.declared, UploadLimit(Env(f)))
                     THEN Answered(f, SendTooLarge(f.guard))
                     ELSE IF request.route \in Probes THEN Answered(f, ProbeGuard(f))
                     ELSE f)
  BY DEF Arrive
<1>0. PICK brought \in Brought(request.route), text \in Texts(request.route) :
         LET f == Opened(w, request, brought, text)
         IN  Goes(c, IF RefusesDeclared(request.declared, UploadLimit(Env(f)))
                     THEN Answered(f, SendTooLarge(f.guard))
                     ELSE IF request.route \in Probes THEN Answered(f, ProbeGuard(f))
                     ELSE f)
  BY <1>2
<1> DEFINE f == Opened(w, request, brought, text)
           refuses == RefusesDeclared(request.declared, UploadLimit(Env(f)))
<1>3. DOMAIN f = Fields
  BY DEF Opened, Fields
<1>4. CASE refuses
  <2>1. Goes(c, Answered(f, SendTooLarge(f.guard)))
    BY <1>0, <1>4
  <2>2. Arrived(w, request, brought, text, Answered(f, SendTooLarge(f.guard)))
    BY <1>0, <1>1, <1>2, <1>3, <1>4, AnsweredStep DEF Arrived
  <2>3. QED
    BY <2>1, <2>2
<1>5. CASE ~refuses /\ request.route \in Probes
  <2>1. Goes(c, Answered(f, ProbeGuard(f)))
    BY <1>0, <1>5
  <2>2. Arrived(w, request, brought, text, Answered(f, ProbeGuard(f)))
    BY <1>0, <1>1, <1>2, <1>3, <1>5, AnsweredStep DEF Arrived
  <2>3. QED
    BY <2>1, <2>2
<1>6. CASE ~refuses /\ request.route \notin Probes
  <2>1. Goes(c, f)
    BY <1>0, <1>6
  <2>2. Arrived(w, request, brought, text, f)
    BY <1>0, <1>1, <1>2, <1>6 DEF Arrived
  <2>3. QED
    BY <2>1, <2>2
<1>7. QED
  BY <1>4, <1>5, <1>6

(* What Handle makes of a frame: an answer, or a request to decide on.     *)
RestoredTo(f, g) ==
    LET secret == Env(f).restoreSecret
        verdict == HandleVerdict(f.brought.sealed, secret, now)
    IN  /\ verdict = "unavailable" => g.guard = Send(f.guard, 503)
        /\ verdict \notin {"unavailable", "ok"} => g.guard = Send(f.guard, 400)
        /\ verdict = "ok" => /\ g.guard = Send(f.guard, 200)
                             /\ g.view = Restored(f.text, f.brought.sealed.claims.entries)

ExploredTo(f, g) ==
    LET opens == Opens(f.brought.sealed, process[f.at].id, now)
    IN  /\ ~Enabled(Env(f).explorer) => g.guard = Send(f.guard, 404)
        /\ Enabled(Env(f).explorer) /\ ~opens => g.guard = Send(f.guard, 400)
        /\ Enabled(Env(f).explorer) /\ opens =>
             /\ g.guard = Send(f.guard, 200)
             /\ g.view = Explored(f.brought.sealed, reverse[f.at])

Handled(f, g) ==
    /\ f.stage = "handling" /\ g.handledAt = now
    /\ \/ /\ Same(f, g, {"guard", "stage", "handledAt", "view", "built"}) /\ g.stage = "done"
          /\ \/ \E status \in {200, 400, 404, 422, 503} : g.guard = Send(f.guard, status)
             \/ g.guard = Crash(f.guard)
          /\ g.built \in {f.built, BuiltFor(f.request, Env(f).parser)}
          /\ f.request.route = "restore" /\ f.request.valid => RestoredTo(f, g)
          /\ f.request.route = "explore" /\ f.request.valid => ExploredTo(f, g)
       \/ /\ Same(f, g, {"built", "stage", "handledAt", "todo"}) /\ g.stage = "deciding"
          /\ f.request.valid /\ f.request.route \notin {"restore", "explore"}
          /\ g.built = BuiltFor(f.request, Env(f).parser) /\ g.built.error = Absent
          /\ f.request.route # "compare" => g.todo = <<g.built.treatment>>

LEMMA RestoreStep ==
  ASSUME NEW f, DOMAIN f = Fields
  PROVE  LET g == HandleRestore(f)
         IN  /\ Same(f, g, {"guard", "stage", "view"}) /\ g.stage = "done"
             /\ \E status \in {200, 400, 503} : g.guard = Send(f.guard, status)
             /\ RestoredTo(f, g)
<1> DEFINE verdict == HandleVerdict(f.brought.sealed, Env(f).restoreSecret, now)
           view == Restored(f.text, f.brought.sealed.claims.entries)
           shown == [Answer(f, 200) EXCEPT !.view = view]
           g == HandleRestore(f)
<1>1. \A status : /\ Same(f, Answer(f, status), {"guard", "stage"})
                  /\ Answer(f, status).stage = "done"
                  /\ Answer(f, status).guard = Send(f.guard, status)
  BY AnsweredStep DEF Answer
<1>2. DOMAIN Answer(f, 200) = Fields
  BY <1>1 DEF Same
<1>3. /\ Same(f, shown, {"guard", "stage", "view"}) /\ shown.stage = "done"
      /\ shown.guard = Send(f.guard, 200) /\ shown.view = view
  BY <1>1, <1>2 DEF Same, Fields
<1>4. g = IF verdict = "unavailable" THEN Answer(f, 503)
          ELSE IF verdict # "ok" THEN Answer(f, 400) ELSE shown
  BY DEF HandleRestore
<1> HIDE DEF view, shown, g
<1>5. Same(f, g, {"guard", "stage", "view"}) /\ g.stage = "done"
      /\ \E status \in {200, 400, 503} : g.guard = Send(f.guard, status)
  BY <1>1, <1>3, <1>4 DEF Same
<1>6. RestoredTo(f, g)
  BY <1>1, <1>3, <1>4 DEF RestoredTo, view
<1>7. QED
  BY <1>5, <1>6 DEF g

LEMMA ExploreStep ==
  ASSUME NEW f, DOMAIN f = Fields
  PROVE  LET g == HandleExplore(f)
         IN  /\ Same(f, g, {"guard", "stage", "view"}) /\ g.stage = "done"
             /\ \E status \in {200, 400, 404} : g.guard = Send(f.guard, status)
             /\ ExploredTo(f, g)
<1> DEFINE opens == Opens(f.brought.sealed, process[f.at].id, now)
           view == Explored(f.brought.sealed, reverse[f.at])
           shown == [Answer(f, 200) EXCEPT !.view = view]
           enabled == Enabled(Env(f).explorer)
           g == HandleExplore(f)
<1>1. \A status : /\ Same(f, Answer(f, status), {"guard", "stage"})
                  /\ Answer(f, status).stage = "done"
                  /\ Answer(f, status).guard = Send(f.guard, status)
  BY AnsweredStep DEF Answer
<1>2. DOMAIN Answer(f, 200) = Fields
  BY <1>1 DEF Same
<1>3. /\ Same(f, shown, {"guard", "stage", "view"}) /\ shown.stage = "done"
      /\ shown.guard = Send(f.guard, 200) /\ shown.view = view
  BY <1>1, <1>2 DEF Same, Fields
<1>4. g = IF ~enabled THEN Answer(f, 404) ELSE IF ~opens THEN Answer(f, 400) ELSE shown
  BY DEF HandleExplore
<1> HIDE DEF view, shown, g, opens, enabled
<1>5. Same(f, g, {"guard", "stage", "view"}) /\ g.stage = "done"
      /\ \E status \in {200, 400, 404} : g.guard = Send(f.guard, status)
  BY <1>1, <1>3, <1>4 DEF Same
<1>6. ExploredTo(f, g)
  BY <1>1, <1>3, <1>4 DEF ExploredTo, view, opens, enabled
<1>7. QED
  BY <1>5, <1>6 DEF g

LEMMA DisclosureStep ==
  ASSUME NEW f, DOMAIN f = Fields
  PROVE  LET g == HandleDisclosure(f)
             built == BuiltFor(f.request, Env(f).parser)
         IN  \/ /\ Same(f, g, {"guard", "stage", "built"}) /\ g.stage = "done"
                /\ \/ \E status \in {400, 404} : g.guard = Send(f.guard, status)
                   \/ g.guard = Crash(f.guard)
                /\ g.built \in {f.built, built}
             \/ /\ Same(f, g, {"built", "stage", "todo"}) /\ g.stage = "deciding"
                /\ g.built = built /\ built.error = Absent
                /\ f.request.route # "compare" => g.todo = <<built.treatment>>
<1> DEFINE built == BuiltFor(f.request, Env(f).parser)
           h == [f EXCEPT !.built = built]
           crashes == /\ f.request.route \notin Documents
                      /\ Supplied(f.request.body) = {"example"} /\ ~Env(f).corpus
           refused == Answer(h, IF built.error = "ExampleNotFoundError" THEN 404 ELSE 400)
           todo == IF f.request.route = "compare" THEN CanonicalComparisonOrder
                   ELSE <<built.treatment>>
           goes == [h EXCEPT !.stage = "deciding", !.todo = todo]
           crash == Answered(f, Crash(f.guard))
           g == HandleDisclosure(f)
<1>1. Same(f, crash, {"guard", "stage"}) /\ crash.stage = "done" /\ crash.guard = Crash(f.guard)
  BY AnsweredStep
<1>2. DOMAIN h = Fields /\ Same(f, h, {"built"}) /\ h.built = built
  BY DEF Same, Fields
<1>3. /\ Same(h, refused, {"guard", "stage"}) /\ refused.stage = "done"
      /\ \E status \in {400, 404} : refused.guard = Send(h.guard, status)
  <2> DEFINE code == IF built.error = "ExampleNotFoundError" THEN 404 ELSE 400
  <2>1. code \in {400, 404}
    OBVIOUS
  <2> HIDE DEF code, built, h
  <2>2. QED
    BY <1>2, <2>1, AnsweredStep DEF Answer, code
<1>4. /\ Same(h, goes, {"stage", "todo"}) /\ goes.stage = "deciding" /\ goes.todo = todo
  BY <1>2 DEF Same, Fields
<1>5. g = IF crashes THEN crash ELSE IF built.error # Absent THEN refused ELSE goes
  BY DEF HandleDisclosure
<1> HIDE DEF built, h, crashes, refused, goes, crash, g
<1>6. Same(f, refused, {"guard", "stage", "built"}) /\ refused.built = built
      /\ \E status \in {400, 404} : refused.guard = Send(f.guard, status)
  BY <1>2, <1>3 DEF Same, Fields
<1>7. Same(f, goes, {"built", "stage", "todo"}) /\ goes.built = built
  BY <1>2, <1>4 DEF Same, Fields
<1>8. Same(f, crash, {"guard", "stage", "built"}) /\ crash.built = f.built
  BY <1>1 DEF Same, Fields
<1>9. CASE crashes
  BY <1>1, <1>5, <1>8, <1>9 DEF built, g
<1>10. CASE ~crashes /\ built.error # Absent
  BY <1>3, <1>5, <1>6, <1>10 DEF built, g
<1>11. CASE ~crashes /\ built.error = Absent
  BY <1>4, <1>5, <1>7, <1>11 DEF built, g
<1>12. QED
  BY <1>9, <1>10, <1>11

LEMMA HandleStep ==
  ASSUME Placed, NEW c \in Conn, Shaped(frame[c]), Handle(c)
  PROVE  \E g : Goes(c, g) /\ Handled(frame[c], g)
<1> DEFINE f == frame[c]
           h == [f EXCEPT !.handledAt = now]
           invalid == Answer(h, 422)
           g == IF ~h.request.valid THEN invalid
                ELSE IF h.request.route = "restore" THEN HandleRestore(h)
                ELSE IF h.request.route = "explore" THEN HandleExplore(h)
                ELSE HandleDisclosure(h)
<1>1. Goes(c, g) /\ f.stage = "handling"
  BY DEF Handle
<1>2. DOMAIN h = Fields /\ Same(f, h, {"handledAt"}) /\ h.handledAt = now
  BY DEF Shaped, Same, Fields
<1> HIDE DEF f, h
<1>3. h.request = f.request /\ Env(h) = Env(f) /\ h.at = f.at /\ h.brought = f.brought
      /\ h.guard = f.guard /\ h.built = f.built /\ h.text = f.text
  BY <1>2 DEF Same, Fields, Env
<1>4. CASE ~h.request.valid
  <2>1. g = invalid
    BY <1>4
  <2>2. /\ Same(h, invalid, {"guard", "stage"}) /\ invalid.stage = "done"
        /\ invalid.guard = Send(h.guard, 422)
    BY <1>2, AnsweredStep DEF Answer
  <2> HIDE DEF g, invalid
  <2>3. Handled(f, g)
    BY <1>1, <1>2, <1>3, <1>4, <2>1, <2>2 DEF Handled, Same, Fields
  <2>4. QED
    BY <1>1, <2>3 DEF f
<1>5. CASE h.request.valid /\ h.request.route = "restore"
  <2>1. g = HandleRestore(h)
    BY <1>5
  <2>2. /\ Same(h, g, {"guard", "stage", "view"}) /\ g.stage = "done"
        /\ \E status \in {200, 400, 503} : g.guard = Send(h.guard, status)
        /\ RestoredTo(h, g)
    BY <1>2, <2>1, RestoreStep
  <2> HIDE DEF g
  <2>3. RestoredTo(f, g)
    BY <1>3, <2>2 DEF RestoredTo
  <2>4. Handled(f, g)
    BY <1>1, <1>2, <1>3, <1>5, <2>2, <2>3 DEF Handled, Same, Fields
  <2>5. QED
    BY <1>1, <2>4 DEF f
<1>6. CASE h.request.valid /\ h.request.route = "explore"
  <2>1. g = HandleExplore(h)
    BY <1>6
  <2>2. /\ Same(h, g, {"guard", "stage", "view"}) /\ g.stage = "done"
        /\ \E status \in {200, 400, 404} : g.guard = Send(h.guard, status)
        /\ ExploredTo(h, g)
    BY <1>2, <2>1, ExploreStep
  <2> HIDE DEF g
  <2>3. ExploredTo(f, g)
    BY <1>3, <2>2 DEF ExploredTo
  <2>4. Handled(f, g)
    BY <1>1, <1>2, <1>3, <1>6, <2>2, <2>3 DEF Handled, Same, Fields
  <2>5. QED
    BY <1>1, <2>4 DEF f
<1>7. CASE h.request.valid /\ h.request.route \notin {"restore", "explore"}
  <2> DEFINE built == BuiltFor(h.request, Env(h).parser)
  <2>1. g = HandleDisclosure(h)
    BY <1>7
  <2>2. \/ /\ Same(h, g, {"guard", "stage", "built"}) /\ g.stage = "done"
           /\ \/ \E status \in {400, 404} : g.guard = Send(h.guard, status)
              \/ g.guard = Crash(h.guard)
           /\ g.built \in {h.built, built}
        \/ /\ Same(h, g, {"built", "stage", "todo"}) /\ g.stage = "deciding"
           /\ g.built = built /\ built.error = Absent
           /\ h.request.route # "compare" => g.todo = <<built.treatment>>
    BY <1>2, <2>1, DisclosureStep
  <2> HIDE DEF g, built
  <2>3. built = BuiltFor(f.request, Env(f).parser)
    BY <1>3 DEF built
  <2>4. Handled(f, g)
    BY <1>1, <1>2, <1>3, <1>7, <2>2, <2>3 DEF Handled, Same, Fields
  <2>5. QED
    BY <1>1, <2>4 DEF f
<1>8. QED
  BY <1>4, <1>5, <1>6, <1>7

(* A frame one of whose decisions is made, and one that goes to the vault. *)
Concluded(f, g, decision, changed) ==
    /\ Same(f, g, changed \cup {"decision", "todo", "stage"}) /\ g.decision = decision
    /\ g.todo = Tail(f.todo) /\ g.stage = IF Len(f.todo) > 1 THEN "deciding" ELSE "decided"

Chosen(f, g) ==
    /\ f.stage = "deciding"
    /\ \/ \E decision \in {Blocked, Allowed({})} : Concluded(f, g, decision, {})
       \/ /\ Same(f, g, {"stage", "wanted", "decision"}) /\ g.stage = "looking"
          /\ g.decision = Allowed({}) /\ g.wanted # {}
          /\ g.wanted \subseteq f.built.text.values

LEMMA DecidedStep ==
  ASSUME NEW f, DOMAIN f = Fields, NEW decision
  PROVE  Concluded(f, Decided(f, decision), decision, {})
BY DEF Concluded, Decided, Same, Fields

LEMMA ChooseStep ==
  ASSUME NEW c \in Conn, Shaped(frame[c]), Choose(c)
  PROVE  \E g : Goes(c, g) /\ Chosen(frame[c], g)
<1> DEFINE f == frame[c]
           looks(s) == [f EXCEPT !.stage = "looking", !.wanted = s, !.decision = Allowed({})]
<1>1. f.stage = "deciding" /\ DOMAIN f = Fields
  BY DEF Choose, Shaped
<1>2. \/ Goes(c, Decided(f, Blocked))
      \/ \E s \in Selections(f) : Goes(c, IF s = {} THEN Decided(f, Allowed({})) ELSE looks(s))
  BY DEF Choose
<1>3. \A s \in Selections(f) : s # {} => s \subseteq f.built.text.values
  BY DEF Selections
<1>4. \A s : /\ Same(f, looks(s), {"stage", "wanted", "decision"})
             /\ looks(s).stage = "looking" /\ looks(s).wanted = s
             /\ looks(s).decision = Allowed({})
  BY <1>1 DEF Same, Fields
<1> HIDE DEF f, looks
<1>5. CASE Goes(c, Decided(f, Blocked))
  <2>1. Chosen(f, Decided(f, Blocked))
    BY <1>1, DecidedStep DEF Chosen
  <2>2. QED
    BY <1>5, <2>1 DEF f
<1>6. ASSUME NEW s \in Selections(f),
             Goes(c, IF s = {} THEN Decided(f, Allowed({})) ELSE looks(s))
      PROVE  \E g : Goes(c, g) /\ Chosen(frame[c], g)
  <2>1. CASE s = {}
    <3>1. Chosen(f, Decided(f, Allowed({})))
      BY <1>1, DecidedStep DEF Chosen
    <3>2. QED
      BY <1>6, <2>1, <3>1 DEF f
  <2>2. CASE s # {}
    <3>1. Chosen(f, looks(s))
      BY <1>1, <1>3, <1>4, <2>2 DEF Chosen
    <3>2. QED
      BY <1>6, <2>2, <3>1 DEF f
  <2>3. QED
    BY <2>1, <2>2
<1>7. QED
  BY <1>2, <1>5, <1>6

(* What the vault's answer for a span makes of a frame.                    *)
Transformed(f, pseudonym) ==
    [category |-> Span(f).category, original |-> Span(f).value,
     action |-> "pseudonymize", transformed |-> pseudonym]

GivenTo(f, g, pseudonym) ==
    LET wanted == f.wanted \ {Span(f)}
    IN  /\ Same(f, g, {"decision", "wanted", "token", "stage", "todo"})
        /\ g.token = Absent /\ g.wanted = wanted
        /\ DOMAIN g.decision = {"status", "transformations"}
        /\ g.decision.status = f.decision.status
        /\ g.decision.transformations =
             f.decision.transformations \cup {Transformed(f, pseudonym)}
        /\ wanted # {} => g.stage = "looking" /\ g.todo = f.todo
        /\ wanted = {} => /\ g.todo = Tail(f.todo)
                          /\ g.stage = IF Len(f.todo) > 1 THEN "deciding" ELSE "decided"

LEMMA GivenStep ==
  ASSUME NEW f, DOMAIN f = Fields, DOMAIN f.decision = {"status", "transformations"},
         NEW pseudonym
  PROVE  GivenTo(f, Given(f, pseudonym), pseudonym)
<1> DEFINE t == Transformed(f, pseudonym)
           wanted == f.wanted \ {Span(f)}
           h == [f EXCEPT !.decision.transformations = @ \cup {t}, !.wanted = @ \ {Span(f)},
                          !.token = Absent, !.stage = "looking"]
           g == Given(f, pseudonym)
<1>1. /\ DOMAIN h = Fields /\ Same(f, h, {"decision", "wanted", "token", "stage"})
      /\ h.token = Absent /\ h.wanted = wanted /\ h.stage = "looking"
      /\ DOMAIN h.decision = {"status", "transformations"}
      /\ h.decision.status = f.decision.status
      /\ h.decision.transformations = f.decision.transformations \cup {t}
  BY DEF Same, Fields
<1>2. g = IF h.wanted # {} THEN h ELSE Decided(h, h.decision)
  BY DEF Given, Transformed
<1> HIDE DEF t, wanted, h, g
<1>3. Concluded(h, Decided(h, h.decision), h.decision, {})
  BY <1>1, DecidedStep
<1>4. h.todo = f.todo
  BY <1>1 DEF Same, Fields
<1>5. CASE h.wanted # {}
  <2>1. g = h
    BY <1>2, <1>5
  <2>2. QED
    BY <1>1, <1>4, <1>5, <2>1 DEF GivenTo, Same, Fields, t, wanted, g
<1>6. CASE h.wanted = {}
  <2>1. g = Decided(h, h.decision)
    BY <1>2, <1>6
  <2>2. /\ Same(h, g, {"decision", "todo", "stage"}) /\ g.decision = h.decision
        /\ g.todo = Tail(h.todo) /\ g.stage = IF Len(h.todo) > 1 THEN "deciding" ELSE "decided"
    BY <1>3, <2>1 DEF Concluded
  <2>3. Same(f, g, {"decision", "wanted", "token", "stage", "todo"})
    BY <1>1, <2>2 DEF Same, Fields
  <2>4. g.token = Absent /\ g.wanted = wanted
    BY <1>1, <2>2 DEF Same, Fields
  <2>5. QED
    BY <1>1, <1>4, <1>6, <2>2, <2>3, <2>4 DEF GivenTo, t, wanted, g
<1>7. QED
  BY <1>5, <1>6

LookedUp(f, g) ==
    /\ f.stage = "looking"
    /\ \/ \E e \in Stored(f) : GivenTo(f, g, e.pseudonym) /\ drawn' = drawn
       \/ /\ Same(f, g, {"token", "stage"}) /\ drawn' = drawn + 1 /\ drawn < MaxDraws
          /\ g.token = drawn + 1 /\ g.stage = "storing"

LEMMA LookUpStep ==
  ASSUME NEW c \in Conn, Shaped(frame[c]), LookUp(c)
  PROVE  \E g : Goes(c, g) /\ LookedUp(frame[c], g)
<1> DEFINE f == frame[c]
           draws == [f EXCEPT !.token = drawn', !.stage = "storing"]
<1>1. f.stage = "looking" /\ DOMAIN f = Fields
      /\ DOMAIN f.decision = {"status", "transformations"}
  BY DEF LookUp, Shaped, Vaulted
<1>2. \/ \E e \in Stored(f) : Goes(c, Given(f, e.pseudonym)) /\ drawn' = drawn
      \/ Goes(c, draws) /\ drawn < MaxDraws /\ drawn' = drawn + 1
  BY DEF LookUp
<1>3. Same(f, draws, {"token", "stage"}) /\ draws.token = drawn' /\ draws.stage = "storing"
  BY <1>1 DEF Same, Fields
<1> HIDE DEF f, draws
<1>4. ASSUME NEW e \in Stored(f), Goes(c, Given(f, e.pseudonym)), drawn' = drawn
      PROVE  LookedUp(f, Given(f, e.pseudonym))
  BY <1>1, <1>4, GivenStep DEF LookedUp
<1>5. CASE Goes(c, draws) /\ drawn < MaxDraws /\ drawn' = drawn + 1
  <2>1. LookedUp(f, draws)
    BY <1>1, <1>3, <1>5 DEF LookedUp
  <2>2. QED
    BY <1>5, <2>1 DEF f
<1>6. QED
  BY <1>2, <1>4, <1>5 DEF f

StoredForward(f, g) ==
    /\ f.stage = "storing" /\ Same(f, g, {"stage", "wrote"})
    /\ g.stage = "linking" /\ g.wrote = TRUE

LEMMA StoreForwardStep ==
  ASSUME NEW c \in Conn, Shaped(frame[c]), StoreForward(c)
  PROVE  \E g : Goes(c, g) /\ StoredForward(frame[c], g)
<1> DEFINE f == frame[c]
           g == [f EXCEPT !.stage = "linking", !.wrote = TRUE]
<1>1. f.stage = "storing" /\ DOMAIN f = Fields /\ Goes(c, g)
  BY DEF StoreForward, Shaped
<1>2. StoredForward(f, g)
  BY <1>1 DEF StoredForward, Same, Fields
<1>3. QED
  BY <1>1, <1>2

Linked(f, g) == f.stage = "linking" /\ GivenTo(f, g, f.token)

LEMMA StoreReverseStep ==
  ASSUME NEW c \in Conn, Shaped(frame[c]), StoreReverse(c)
  PROVE  \E g : Goes(c, g) /\ Linked(frame[c], g)
<1> DEFINE f == frame[c]
           g == Given(f, f.token)
<1>1. /\ f.stage = "linking" /\ DOMAIN f = Fields /\ Goes(c, g)
      /\ DOMAIN f.decision = {"status", "transformations"}
  BY DEF StoreReverse, Shaped, Vaulted
<1> HIDE DEF f
<1>2. Linked(f, g)
  BY <1>1, GivenStep DEF Linked
<1>3. QED
  BY <1>1, <1>2 DEF f

(* The answers after a decision, and what the client keeps with them.      *)
Finished(f, g, status) ==
    /\ f.stage = "decided" /\ Same(f, g, {"guard", "stage", "called"})
    /\ g.stage = "done" /\ g.guard = Send(f.guard, status)

Reference(f) ==
    IssueReference(process[f.at].id, now, f.decision, Policies, Context(f), reverse[f.at])
Sealed(f) ==
    IssueHandle(Env(f).restoreSecret, HandleTTL(Env(f)), now, Entries(f.decision))

Previewed(f, g) ==
    /\ f.request.route \in Previews /\ Finished(f, g, 200) /\ g.called = f.called
    /\ \/ held' = held
       \/ /\ Reference(f) # Absent
          /\ held' = [held EXCEPT !["reference"] =
                         Grant("reference", Reference(f), f, f.decision)]

Compared(f, g) ==
    /\ f.request.route = "compare" /\ Finished(f, g, 200) /\ g.called = f.called
    /\ held' = held

Executed(f, g) ==
    /\ f.request.route = "execute" /\ Finished(f, g, 200) /\ held' = held
    /\ g.called = (f.decision.status = "allowed" /\ Context(f).provider = ProviderClass(Env(f)))

Exported(f, g) ==
    /\ f.request.route = "export" /\ g.called = f.called
    /\ \/ Finished(f, g, 400) /\ f.decision.status # "allowed" /\ held' = held
       \/ Finished(f, g, 503) /\ held' = held
       \/ /\ Finished(f, g, 200)
          /\ \/ held' = held
             \/ /\ Env(f).restoreSecret # Absent
                /\ held' = [held EXCEPT !["handle"] = Grant("handle", Sealed(f), f, f.decision)]

LEMMA AnswerStep ==
  ASSUME NEW f, f.stage = "decided", DOMAIN f = Fields, NEW status
  PROVE  Finished(f, Answer(f, status), status) /\ Answer(f, status).called = f.called
BY DEF Finished, Answer, Answered, Same, Fields

LEMMA PreviewStep ==
  ASSUME NEW c \in Conn, Shaped(frame[c]), FinishPreview(c)
  PROVE  \E g : Goes(c, g) /\ Previewed(frame[c], g)
<1> DEFINE f == frame[c]
           granted == IF ~Enabled(Env(f).explorer) \/ Reference(f) = Absent THEN Absent
                      ELSE Grant("reference", Reference(f), f, f.decision)
<1>1. /\ f.stage = "decided" /\ f.request.route \in Previews /\ DOMAIN f = Fields
      /\ Goes(c, Answer(f, 200)) /\ Keeps("reference", granted)
  BY DEF FinishPreview, IsDecided, Shaped, Reference
<1> HIDE DEF f
<1>2. held' = held \/ (granted # Absent /\ held' = [held EXCEPT !["reference"] = granted])
  BY <1>1 DEF Keeps
<1>3. Previewed(f, Answer(f, 200))
  BY <1>1, <1>2, AnswerStep DEF Previewed
<1>4. QED
  BY <1>1, <1>3 DEF f

LEMMA CompareStep ==
  ASSUME NEW c \in Conn, Shaped(frame[c]), FinishCompare(c)
  PROVE  \E g : Goes(c, g) /\ Compared(frame[c], g)
<1> DEFINE f == frame[c]
<1>1. /\ f.stage = "decided" /\ f.request.route = "compare" /\ DOMAIN f = Fields
      /\ Goes(c, Answer(f, 200)) /\ held' = held
  BY DEF FinishCompare, IsDecided, Shaped
<1> HIDE DEF f
<1>2. Compared(f, Answer(f, 200))
  BY <1>1, AnswerStep DEF Compared
<1>3. QED
  BY <1>1, <1>2 DEF f

LEMMA ExecuteStep ==
  ASSUME NEW c \in Conn, Shaped(frame[c]), FinishExecute(c)
  PROVE  \E g : Goes(c, g) /\ Executed(frame[c], g)
<1> DEFINE f == frame[c]
           sendable == f.decision.status = "allowed" /\ Context(f).provider = ProviderClass(Env(f))
           g == [Answer(f, 200) EXCEPT !.called = sendable]
<1>1. /\ f.stage = "decided" /\ f.request.route = "execute" /\ DOMAIN f = Fields
      /\ Goes(c, g) /\ held' = held
  BY DEF FinishExecute, IsDecided, Shaped
<1> HIDE DEF f
<1>2. Finished(f, Answer(f, 200), 200) /\ DOMAIN Answer(f, 200) = Fields
  BY <1>1, AnswerStep DEF Finished, Same
<1>3. Finished(f, g, 200) /\ g.called = sendable
  BY <1>2 DEF Finished, Same, Fields
<1> HIDE DEF g
<1>4. Executed(f, g)
  BY <1>1, <1>3 DEF Executed
<1>5. QED
  BY <1>1, <1>4 DEF f

LEMMA ExportStep ==
  ASSUME NEW c \in Conn, Shaped(frame[c]), FinishExport(c)
  PROVE  \E g : Goes(c, g) /\ Exported(frame[c], g)
<1> DEFINE f == frame[c]
<1>1. f.stage = "decided" /\ f.request.route = "export" /\ DOMAIN f = Fields
  BY DEF FinishExport, IsDecided, Shaped
<1>2. IF f.decision.status # "allowed" THEN Goes(c, Answer(f, 400)) /\ held' = held
      ELSE IF Env(f).restoreSecret = Absent THEN Goes(c, Answer(f, 503)) /\ held' = held
      ELSE Goes(c, Answer(f, 200)) /\ Keeps("handle", Grant("handle", Sealed(f), f, f.decision))
  BY DEF FinishExport, Sealed
<1> HIDE DEF f
<1>3. \A status : Finished(f, Answer(f, status), status) /\ Answer(f, status).called = f.called
  BY <1>1, AnswerStep
<1>4. CASE f.decision.status # "allowed"
  <2>1. Exported(f, Answer(f, 400))
    BY <1>1, <1>2, <1>3, <1>4 DEF Exported
  <2>2. QED
    BY <1>2, <1>4, <2>1 DEF f
<1>5. CASE f.decision.status = "allowed" /\ Env(f).restoreSecret = Absent
  <2>1. Exported(f, Answer(f, 503))
    BY <1>1, <1>2, <1>3, <1>5 DEF Exported
  <2>2. QED
    BY <1>2, <1>5, <2>1 DEF f
<1>6. CASE f.decision.status = "allowed" /\ Env(f).restoreSecret # Absent
  <2>1. Exported(f, Answer(f, 200))
    BY <1>1, <1>2, <1>3, <1>6 DEF Exported, Keeps
  <2>2. QED
    BY <1>2, <1>6, <2>1 DEF f
<1>7. QED
  BY <1>4, <1>5, <1>6

-----------------------------------------------------------------------------
(* Every step, as what it makes of each frame.                             *)

Base == Placed /\ \A c \in Conn : frame[c] # Absent => Shaped(frame[c])

Moved(f, g) ==
    \/ \E bytes \in 1..f.left : Received(f, g, bytes)
    \/ Handled(f, g) \/ Chosen(f, g) \/ LookedUp(f, g) \/ StoredForward(f, g) \/ Linked(f, g)
    \/ Previewed(f, g) \/ Compared(f, g) \/ Executed(f, g) \/ Exported(f, g)

LEMMA ServeStep ==
  ASSUME Base, NEW c \in Conn, Serve(c)
  PROVE  /\ frame[c] # Absent /\ UNCHANGED <<campaign, now, process, started, begun>>
         /\ \E g : Goes(c, g) /\ Moved(frame[c], g)
<1>1. frame[c] # Absent /\ UNCHANGED <<campaign, now, process, started, begun>>
  BY DEF Serve, Receive, Handle, Choose, LookUp, StoreForward, StoreReverse, FinishPreview,
         FinishCompare, FinishExecute, FinishExport, IsDecided
<1>2. Placed /\ Shaped(frame[c])
  BY <1>1 DEF Base
<1>3. CASE Receive(c)
  <2>1. \E bytes \in 1..frame[c].left : \E g : Goes(c, g) /\ Received(frame[c], g, bytes)
    BY <1>2, <1>3, ReceiveStep
  <2>2. QED
    BY <1>1, <2>1 DEF Moved
<1>4. CASE Handle(c)
  BY <1>1, <1>2, <1>4, HandleStep DEF Moved
<1>5. CASE Choose(c)
  BY <1>1, <1>2, <1>5, ChooseStep DEF Moved
<1>6. CASE LookUp(c)
  BY <1>1, <1>2, <1>6, LookUpStep DEF Moved
<1>7. CASE StoreForward(c)
  BY <1>1, <1>2, <1>7, StoreForwardStep DEF Moved
<1>8. CASE StoreReverse(c)
  BY <1>1, <1>2, <1>8, StoreReverseStep DEF Moved
<1>9. CASE FinishPreview(c)
  BY <1>1, <1>2, <1>9, PreviewStep DEF Moved
<1>10. CASE FinishCompare(c)
  BY <1>1, <1>2, <1>10, CompareStep DEF Moved
<1>11. CASE FinishExecute(c)
  BY <1>1, <1>2, <1>11, ExecuteStep DEF Moved
<1>12. CASE FinishExport(c)
  BY <1>1, <1>2, <1>12, ExportStep DEF Moved
<1>13. QED
  BY <1>3, <1>4, <1>5, <1>6, <1>7, <1>8, <1>9, <1>10, <1>11, <1>12 DEF Serve

Begun(g) ==
    \E w, request, brought, text : w \in Worker /\ Arrived(w, request, brought, text, g)

LEMMA MovedStaysPut ==
  ASSUME NEW f, NEW g, Moved(f, g)
  PROVE  /\ DOMAIN g = Fields /\ g.at = f.at /\ g.request = f.request
         /\ g.brought = f.brought /\ g.text = f.text
BY DEF Moved, Received, Handled, Chosen, Concluded, LookedUp, GivenTo, StoredForward, Linked,
       Previewed, Compared, Executed, Exported, Finished, Same, Fields

LEMMA BegunThere ==
  ASSUME NEW g, Begun(g)
  PROVE  /\ DOMAIN g = Fields /\ g.at \in Worker /\ process[g.at] # Absent
         /\ g.request \in campaign.requests /\ g.stage \in {"reading", "done"}
<1>1. PICK w, request, brought, text : w \in Worker /\ Arrived(w, request, brought, text, g)
  BY DEF Begun
<1> DEFINE h == Opened(w, request, brought, text)
<1>2. DOMAIN h = Fields /\ h.at = w /\ h.request = request /\ h.stage = "reading"
  BY DEF Opened, Fields
<1>3. \/ Same(h, g, {"guard", "stage"}) /\ g.stage = "done"
      \/ g = h
  BY <1>1 DEF Arrived
<1>4. w \in Worker /\ process[w] # Absent /\ request \in campaign.requests
  BY <1>1 DEF Arrived
<1> HIDE DEF h
<1>5. QED
  BY <1>2, <1>3, <1>4 DEF Same, Fields

LEMMA FrameStep ==
  ASSUME Base, Next
  PROVE  /\ campaign' = campaign
         /\ \A d \in Conn : frame'[d] # Absent =>
              /\ process'[frame'[d].at] = process[frame'[d].at]
              /\ \/ frame'[d] = frame[d]
                 \/ Begun(frame'[d])
                 \/ frame[d] # Absent /\ Moved(frame[d], frame'[d])
<1> DEFINE Goal == /\ campaign' = campaign
                   /\ \A d \in Conn : frame'[d] # Absent =>
                        /\ process'[frame'[d].at] = process[frame'[d].at]
                        /\ \/ frame'[d] = frame[d]
                           \/ Begun(frame'[d])
                           \/ frame[d] # Absent /\ Moved(frame[d], frame'[d])
<1>1. DOMAIN frame = Conn /\ DOMAIN process = Worker
  BY DEF Base, Placed
<1>2. CASE Tick
  BY <1>2 DEF Tick
<1>3. ASSUME NEW w \in Worker, Start(w) PROVE Goal
  <2>1. campaign' = campaign
        /\ frame' = [c \in Conn |-> IF frame[c] # Absent /\ frame[c].at = w THEN Absent
                                    ELSE frame[c]]
        /\ \E p : process' = [process EXCEPT ![w] = p]
    BY <1>3 DEF Start
  <2>2. QED
    BY <1>1, <2>1
<1>4. ASSUME NEW w \in Worker, NEW c \in Conn, Arrive(c, w) PROVE Goal
  <2>1. PICK request, brought, text, g : Goes(c, g) /\ Arrived(w, request, brought, text, g)
    BY <1>4, ArriveStep
  <2>2. Begun(g)
    BY <2>1 DEF Begun
  <2>3. campaign' = campaign /\ process' = process
    BY <1>4 DEF Arrive
  <2>4. QED
    BY <1>1, <2>1, <2>2, <2>3 DEF Goes
<1>5. ASSUME NEW c \in Conn, Serve(c) PROVE Goal
  <2>1. PICK g : Goes(c, g) /\ Moved(frame[c], g)
    BY <1>5, ServeStep
  <2>2. campaign' = campaign /\ process' = process /\ frame[c] # Absent
    BY <1>5, ServeStep
  <2>3. QED
    BY <1>1, <2>1, <2>2 DEF Goes
<1>6. ASSUME NEW c \in Conn, Close(c) PROVE Goal
  BY <1>1, <1>6 DEF Close, Goes
<1>7. QED
  BY <1>2, <1>3, <1>4, <1>5, <1>6 DEF Next

-----------------------------------------------------------------------------
(* The base: processes are apart, and frames have the fields they have.    *)

WellFormed(f) ==
    /\ f.stage \in Stages /\ f.wrote \in BOOLEAN /\ f.called \in BOOLEAN
    /\ f.stage \in Vaulted => DOMAIN f.decision = {"status", "transformations"}

LEMMA MovedWellFormed ==
  ASSUME NEW f, NEW g, WellFormed(f), Moved(f, g)
  PROVE  WellFormed(g)
<1>1. CASE \E bytes \in 1..f.left : Received(f, g, bytes)
  BY <1>1 DEF WellFormed, Received, Stages, Vaulted, Same, Fields
<1>2. CASE Handled(f, g)
  BY <1>2 DEF WellFormed, Handled, Stages, Vaulted, Same, Fields
<1>3. CASE Chosen(f, g)
  BY <1>3 DEF WellFormed, Chosen, Concluded, Stages, Vaulted, Same, Fields, Allowed
<1>4. CASE LookedUp(f, g)
  BY <1>4 DEF WellFormed, LookedUp, GivenTo, Stages, Vaulted, Same, Fields
<1>5. CASE StoredForward(f, g)
  BY <1>5 DEF WellFormed, StoredForward, Stages, Vaulted, Same, Fields
<1>6. CASE Linked(f, g)
  BY <1>6 DEF WellFormed, Linked, GivenTo, Stages, Vaulted, Same, Fields
<1>7. CASE Previewed(f, g)
  BY <1>7 DEF WellFormed, Previewed, Finished, Stages, Vaulted, Same, Fields
<1>8. CASE Compared(f, g)
  BY <1>8 DEF WellFormed, Compared, Finished, Stages, Vaulted, Same, Fields
<1>9. CASE Executed(f, g)
  BY <1>9 DEF WellFormed, Executed, Finished, Stages, Vaulted, Same, Fields
<1>10. CASE Exported(f, g)
  BY <1>10 DEF WellFormed, Exported, Finished, Stages, Vaulted, Same, Fields
<1>11. QED
  BY <1>1, <1>2, <1>3, <1>4, <1>5, <1>6, <1>7, <1>8, <1>9, <1>10, Moved(f, g) DEF Moved

LEMMA BegunWellFormed ==
  ASSUME NEW g, Begun(g)
  PROVE  WellFormed(g)
<1>1. PICK w, request, brought, text : w \in Worker /\ Arrived(w, request, brought, text, g)
  BY DEF Begun
<1> DEFINE h == Opened(w, request, brought, text)
<1>2. DOMAIN h = Fields /\ h.wrote = FALSE /\ h.called = FALSE /\ h.stage = "reading"
  BY DEF Opened, Fields
<1>3. \/ Same(h, g, {"guard", "stage"}) /\ g.stage = "done"
      \/ g = h
  BY <1>1 DEF Arrived
<1> HIDE DEF h
<1>4. QED
  BY <1>2, <1>3 DEF Same, Fields, WellFormed, Stages, Vaulted

LEMMA InitBase == Init => Base
<1>1. Init => Placed
  BY ValuesAssumption, CampaignAssumption DEF Init, Placed
<1>2. Init => \A c \in Conn : frame[c] = Absent
  BY DEF Init
<1>3. QED
  BY <1>1, <1>2 DEF Base

LEMMA ServePlaces ==
  ASSUME Placed, NEW c \in Conn, frame[c] # Absent, Shaped(frame[c]), Serve(c)
  PROVE  /\ DOMAIN frame' = Conn /\ DOMAIN held' = {"handle", "reference"}
         /\ drawn' \in 0..MaxDraws /\ DOMAIN forward' = Worker /\ DOMAIN reverse' = Worker
         /\ \A w \in Worker : process[w] = Absent =>
              forward'[w] = forward[w] /\ reverse'[w] = reverse[w]
<1>1. DOMAIN frame' = Conn
  BY DEF Serve, Receive, Handle, Choose, LookUp, StoreForward, StoreReverse, FinishPreview,
         FinishCompare, FinishExecute, FinishExport, Goes, Placed
<1>2. DOMAIN held' = {"handle", "reference"}
  BY DEF Serve, Receive, Handle, Choose, LookUp, StoreForward, StoreReverse, FinishPreview,
         FinishCompare, FinishExecute, FinishExport, Keeps, Placed
<1>3. drawn' \in 0..MaxDraws
  <2>1. drawn' = drawn \/ (drawn < MaxDraws /\ drawn' = drawn + 1)
    BY DEF Serve, Receive, Handle, Choose, LookUp, StoreForward, StoreReverse,
           FinishPreview, FinishCompare, FinishExecute, FinishExport
  <2>2. QED
    BY <2>1, ValuesAssumption DEF Placed
<1>4. /\ \/ forward' = forward
         \/ \E s : forward' = [forward EXCEPT ![frame[c].at] = s]
      /\ \/ reverse' = reverse
         \/ \E s : reverse' = [reverse EXCEPT ![frame[c].at] = s]
  BY DEF Serve, Receive, Handle, Choose, LookUp, StoreForward, StoreReverse, FinishPreview,
         FinishCompare, FinishExecute, FinishExport
<1>5. process[frame[c].at] # Absent
  BY DEF Shaped
<1>6. QED
  BY <1>1, <1>2, <1>3, <1>4, <1>5 DEF Placed

LEMMA PlacedStep ==
  ASSUME Base, [Next]_vars
  PROVE  Placed'
<1>1. Placed
  BY DEF Base
<1>2. CASE UNCHANGED vars
  BY <1>1, <1>2 DEF Placed, vars
<1>3. CASE Tick
  <2>1. campaign.time \in Nat
    BY <1>1, CampaignAssumption DEF Placed
  <2>2. QED
    BY <1>1, <1>3, <2>1 DEF Placed, Tick
<1>4. ASSUME NEW w \in Worker, Start(w) PROVE Placed'
  <2>1. campaign.starts \in Nat
    BY <1>1, CampaignAssumption DEF Placed
  <2>2. PICK env \in campaign.envs :
          process' = [process EXCEPT ![w] =
                        IF ServiceBuilds(env) THEN [env |-> env, id |-> started + 1] ELSE Absent]
    BY <1>4 DEF Start
  <2>3. /\ campaign' = campaign /\ now' = now /\ drawn' = drawn /\ begun' = begun
        /\ held' = held /\ started' = started + 1 /\ started' \in 0..campaign.starts
        /\ forward' = [forward EXCEPT ![w] = {}] /\ reverse' = [reverse EXCEPT ![w] = {}]
        /\ DOMAIN frame' = Conn
    BY <1>1, <1>4, <2>1 DEF Start, Placed
  <2>4. \A v \in Worker : process'[v] # Absent =>
          \/ v = w /\ process'[v].env = env /\ ServiceBuilds(env) /\ process'[v].id = started + 1
          \/ v # w /\ process'[v] = process[v]
    BY <1>1, <2>2 DEF Placed
  <2>5. \A v \in Worker : process'[v] # Absent =>
          /\ process'[v].env \in campaign.envs /\ ServiceBuilds(process'[v].env)
          /\ process'[v].id \in 1..started'
    BY <1>1, <2>3, <2>4 DEF Placed
  <2>6. \A u, v \in Worker : process'[u] # Absent /\ process'[v] # Absent =>
          (process'[u].id = process'[v].id => u = v)
    BY <1>1, <2>4 DEF Placed
  <2>7. \A v \in Worker : process'[v] = Absent => forward'[v] = {} /\ reverse'[v] = {}
    BY <1>1, <2>2, <2>3 DEF Placed
  <2>8. QED
    BY <1>1, <2>2, <2>3, <2>5, <2>6, <2>7 DEF Placed
<1>5. ASSUME NEW w \in Worker, NEW c \in Conn, Arrive(c, w) PROVE Placed'
  <2>1. campaign.exchanges \in Nat
    BY <1>1, CampaignAssumption DEF Placed
  <2>2. QED
    BY <1>1, <1>5, <2>1 DEF Placed, Arrive, Goes
<1>6. ASSUME NEW c \in Conn, Serve(c) PROVE Placed'
  <2>1. /\ frame[c] # Absent /\ UNCHANGED <<campaign, now, process, started, begun>>
    BY <1>6, ServeStep
  <2>2. Shaped(frame[c])
    BY <2>1 DEF Base
  <2>3. /\ DOMAIN frame' = Conn /\ DOMAIN held' = {"handle", "reference"}
        /\ drawn' \in 0..MaxDraws /\ DOMAIN forward' = Worker /\ DOMAIN reverse' = Worker
        /\ \A w \in Worker : process[w] = Absent =>
             forward'[w] = forward[w] /\ reverse'[w] = reverse[w]
    BY <1>1, <1>6, <2>1, <2>2, ServePlaces
  <2>4. QED
    BY <1>1, <2>1, <2>3 DEF Placed
<1>7. ASSUME NEW c \in Conn, Close(c) PROVE Placed'
  BY <1>1, <1>7 DEF Placed, Close, Goes
<1>8. QED
  BY <1>2, <1>3, <1>4, <1>5, <1>6, <1>7 DEF Next

LEMMA BaseStep ==
  ASSUME Base, [Next]_vars
  PROVE  Base'
<1>1. CASE UNCHANGED vars
  BY <1>1 DEF Base, Placed, Shaped, vars
<1>2. CASE Next
  <2>1. campaign' = campaign /\ Placed'
    BY <1>2, FrameStep, PlacedStep
  <2>2. ASSUME NEW d \in Conn, frame'[d] # Absent
        PROVE  Shaped(frame[d])'
    <3>1. /\ process'[frame'[d].at] = process[frame'[d].at]
          /\ \/ frame'[d] = frame[d]
             \/ Begun(frame'[d])
             \/ frame[d] # Absent /\ Moved(frame[d], frame'[d])
      BY <1>2, <2>2, FrameStep
    <3>2. frame[d] # Absent => Shaped(frame[d])
      BY DEF Base
    <3>3. CASE frame'[d] = frame[d]
      BY <2>1, <2>2, <3>1, <3>2, <3>3 DEF Shaped
    <3>4. CASE Begun(frame'[d])
      BY <2>1, <3>1, <3>4, BegunThere, BegunWellFormed DEF Shaped, WellFormed
    <3>5. CASE frame[d] # Absent /\ Moved(frame[d], frame'[d])
      <4>1. WellFormed(frame[d])
        BY <3>2, <3>5 DEF Shaped, WellFormed
      <4>2. WellFormed(frame'[d])
        BY <3>5, <4>1, MovedWellFormed
      <4>3. QED
        BY <2>1, <3>1, <3>2, <3>5, <4>2, MovedStaysPut DEF Shaped, WellFormed
    <3>6. QED
      BY <3>1, <3>3, <3>4, <3>5
  <2>3. QED
    BY <2>1, <2>2 DEF Base
<1>3. QED
  BY <1>1, <1>2

-----------------------------------------------------------------------------
(* One answer to an exchange, and 413 to the bodies that are too long.     *)

(* The guard of an exchange: nothing is on the wire until one answer is.   *)
Parts == {"received", "exceeded", "started", "answered", "wire"}
Idle(guard, n) ==
    /\ DOMAIN guard = Parts /\ guard.received = n /\ guard.exceeded = FALSE
    /\ guard.started = FALSE /\ guard.answered = FALSE /\ guard.wire = <<>>

TooLong(f) ==
    \/ RefusesDeclared(f.request.declared, UploadLimit(Env(f)))
    \/ f.request.size > UploadLimit(Env(f))

Guarded(f) ==
    /\ f.stage # "done" =>
         /\ f.left \in 0..f.request.size /\ Idle(f.guard, f.request.size - f.left)
         /\ ~RefusesDeclared(f.request.declared, UploadLimit(Env(f)))
         /\ f.request.size - f.left <= UploadLimit(Env(f))
         /\ f.stage # "reading" => f.left = 0
         /\ f.request.route \notin Probes
    /\ f.stage = "done" =>
         /\ f.guard.wire = <<f.guard.wire[1]>>
         /\ Status(f) = 413 <=> TooLong(f)

LEMMA OneAnswer ==
  ASSUME NEW guard, NEW n, Idle(guard, n), NEW status
  PROVE  Send(guard, status).wire = <<status>>
BY DEF Send, Idle, Parts

LEMMA OneRefusal ==
  ASSUME NEW guard, NEW n, Idle(guard, n)
  PROVE  Crash(guard).wire = <<500>> /\ SendTooLarge(guard).wire = <<413>>
BY DEF Crash, SendTooLarge, Idle, Parts

Counted(guard, total, max) ==
    /\ total <= max => Idle(guard, total)
    /\ total > max => /\ guard.exceeded = TRUE /\ Send(guard, 400).wire = <<413>>
                      /\ Unwind(guard).wire = <<413>>

LEMMA CountedOnce ==
  ASSUME NEW old, NEW n \in Nat, Idle(old, n), NEW bytes \in Nat, NEW max \in Nat
  PROVE  Counted(Count(old, bytes, max), n + bytes, max)
<1> DEFINE guard == Count(old, bytes, max)
           flag == old.exceeded \/ old.received + bytes > max
<1>1. /\ DOMAIN guard = Parts /\ guard.received = n + bytes /\ guard.exceeded = flag
      /\ guard.started = FALSE /\ guard.answered = FALSE /\ guard.wire = <<>>
  BY DEF Count, Idle, Parts
<1>2. (n + bytes <= max => flag = FALSE) /\ (n + bytes > max => flag = TRUE)
  BY DEF Idle
<1> HIDE DEF guard, flag
<1>3. n + bytes <= max => Idle(guard, n + bytes)
  BY <1>1, <1>2 DEF Idle
<1>4. ASSUME n + bytes > max
      PROVE /\ guard.exceeded = TRUE /\ Send(guard, 400).wire = <<413>>
  BY <1>1, <1>2, <1>4 DEF Send, SendTooLarge, Parts
<1>5. ASSUME n + bytes > max
      PROVE Unwind(guard).wire = <<413>>
  BY <1>1, <1>2, <1>5 DEF Unwind, SendTooLarge, Parts
<1>9. QED
  BY <1>3, <1>4, <1>5 DEF guard, Counted

LEMMA MovedGuarded ==
  ASSUME NEW f, NEW g, f.request.size \in Nat, Guarded(f), Moved(f, g)
  PROVE  Guarded(g)
<1> DEFINE limit == UploadLimit(Env(f))
           n == f.request.size - f.left
<1>1. limit \in Nat
  BY LimitIsPositive
<1>2. g.request = f.request /\ UploadLimit(Env(g)) = limit /\ (TooLong(g) <=> TooLong(f))
  BY MovedStaysPut DEF Env, TooLong
<1>3. f.stage # "done"
  BY DEF Moved, Received, Handled, Chosen, LookedUp, StoredForward, Linked, Previewed, Compared,
         Executed, Exported, Finished
<1>4. /\ f.left \in 0..f.request.size /\ Idle(f.guard, n) /\ n \in Nat /\ n <= limit
      /\ ~RefusesDeclared(f.request.declared, limit) /\ f.request.route \notin Probes
      /\ f.stage # "reading" => f.left = 0
  BY <1>3 DEF Guarded
<1>5. ASSUME f.stage # "reading", g.stage = "done", NEW status \in {200, 400, 404, 422, 500, 503},
             g.guard.wire = <<status>>
      PROVE  Guarded(g)
  <2>1. ~TooLong(f)
    BY <1>1, <1>4, <1>5 DEF TooLong
  <2>2. Status(g) = status
    BY <1>5 DEF Status
  <2>3. QED
    BY <1>2, <1>5, <2>1, <2>2 DEF Guarded, Status
<1>6. ASSUME f.stage # "reading", g.stage \notin {"reading", "done"}, g.guard = f.guard,
             g.left = f.left
      PROVE  Guarded(g)
  BY <1>1, <1>2, <1>4, <1>6 DEF Guarded
<1>7. ASSUME NEW status \in {200, 400, 503}, Finished(f, g, status)
      PROVE  Guarded(g)
  <2>1. g.guard.wire = <<status>>
    BY <1>4, <1>7, OneAnswer DEF Finished
  <2>2. QED
    BY <1>5, <1>7, <2>1 DEF Finished
<1>8. ASSUME NEW bytes \in 1..f.left, Received(f, g, bytes)
      PROVE  Guarded(g)
  <2> DEFINE guard == Count(f.guard, bytes, limit)
  <2>0. bytes \in Nat /\ f.left = f.request.size - n /\ bytes <= f.left
    BY <1>4, <1>8
  <2> HIDE DEF n
  <2>9. Counted(guard, n + bytes, limit)
    BY <1>1, <1>4, <2>0, CountedOnce
  <2> HIDE DEF guard
  <2>1. /\ n + bytes <= limit => Idle(guard, n + bytes)
        /\ n + bytes > limit => /\ guard.exceeded = TRUE /\ Send(guard, 400).wire = <<413>>
                                /\ Unwind(guard).wire = <<413>>
    BY <2>9 DEF Counted
  <2>2. n + bytes <= limit => ~guard.exceeded
    BY <2>1 DEF Idle
  <2>3. CASE n + bytes > limit
    <3>1. g.stage = "done" /\ g.guard \in {Send(guard, 400), Unwind(guard)}
      BY <1>8, <2>1, <2>3 DEF Received, guard
    <3>2. g.guard.wire = <<413>> /\ Status(g) = 413
      BY <2>1, <2>3, <3>1 DEF Status
    <3>3. TooLong(f)
      BY <1>1, <1>4, <2>0, <2>3 DEF TooLong
    <3>4. QED
      BY <1>2, <3>1, <3>2, <3>3 DEF Guarded, Status
  <2>4. CASE n + bytes <= limit
    <3>1. /\ Idle(g.guard, n + bytes) /\ g.left = f.left - bytes
          /\ g.stage = IF f.left = bytes THEN "handling" ELSE "reading"
      BY <1>8, <2>1, <2>2, <2>4 DEF Received, guard
    <3>2. g.left \in 0..f.request.size /\ n + bytes = f.request.size - g.left
      BY <1>4, <2>0, <3>1
    <3>3. QED
      BY <1>1, <1>2, <1>4, <2>0, <2>4, <3>1, <3>2 DEF Guarded
  <2>5. QED
    BY <1>1, <1>4, <2>0, <2>3, <2>4
<1>9. CASE Handled(f, g)
  <2>1. CASE g.stage = "done"
    <3>1. \E status \in {200, 400, 404, 422, 500, 503} : g.guard.wire = <<status>>
      BY <1>4, <1>9, <2>1, OneAnswer, OneRefusal DEF Handled
    <3>2. QED
      BY <1>5, <1>9, <2>1, <3>1 DEF Handled
  <2>2. CASE g.stage = "deciding"
    BY <1>6, <1>9, <2>2 DEF Handled, Same, Fields
  <2>3. QED
    BY <1>9, <2>1, <2>2 DEF Handled
<1>10. CASE Chosen(f, g)
  BY <1>6, <1>10 DEF Chosen, Concluded, Same, Fields
<1>11. CASE LookedUp(f, g)
  BY <1>6, <1>11 DEF LookedUp, GivenTo, Same, Fields
<1>12. CASE StoredForward(f, g)
  BY <1>6, <1>12 DEF StoredForward, Same, Fields
<1>13. CASE Linked(f, g)
  BY <1>6, <1>13 DEF Linked, GivenTo, Same, Fields
<1>14. CASE Previewed(f, g) \/ Compared(f, g) \/ Executed(f, g) \/ Exported(f, g)
  BY <1>7, <1>14 DEF Previewed, Compared, Executed, Exported
<1>15. QED
  BY <1>8, <1>9, <1>10, <1>11, <1>12, <1>13, <1>14 DEF Moved

LEMMA BegunGuarded ==
  ASSUME Base, NEW g, Begun(g)
  PROVE  Guarded(g)
<1>1. PICK w, request, brought, text : w \in Worker /\ Arrived(w, request, brought, text, g)
  BY DEF Begun
<1> DEFINE h == Opened(w, request, brought, text)
           limit == UploadLimit(Env(h))
<1>2. /\ h.at = w /\ h.request = request /\ h.stage = "reading" /\ DOMAIN h = Fields
      /\ Idle(h.guard, 0) /\ h.left = request.size
  BY DEF Opened, Fields, Fresh, Idle, Parts
<1>3. /\ request.size \in Nat /\ (request.route \in Probes => request.size = 0)
  BY <1>1, CampaignAssumption DEF Arrived, Base, Placed
<1>4. limit \in Nat \ {0}
  BY LimitIsPositive
<1>5. g.request = request /\ g.at = w /\ UploadLimit(Env(g)) = limit
  BY <1>1, <1>2 DEF Arrived, Same, Fields, Env
<1>6. CASE RefusesDeclared(request.declared, limit)
  <2>1. g.stage = "done" /\ g.guard = SendTooLarge(h.guard)
    BY <1>1, <1>6 DEF Arrived
  <2> HIDE DEF h
  <2>3. g.guard.wire = <<413>>
    BY <1>2, <2>1, OneRefusal
  <2>2. QED
    BY <1>5, <1>6, <2>1, <2>3 DEF Guarded, Status, TooLong
<1>7. CASE ~RefusesDeclared(request.declared, limit) /\ request.route \in Probes
  <2>1. g.stage = "done" /\ g.guard = ProbeGuard(h)
    BY <1>1, <1>7 DEF Arrived
  <2> HIDE DEF h
  <2>2. g.guard = Crash(h.guard) \/ \E status \in {200, 503} : g.guard = Send(h.guard, status)
    BY <1>2, <2>1 DEF ProbeGuard
  <2>3. \E status \in {200, 500, 503} : g.guard.wire = <<status>>
    <3>1. CASE g.guard = Crash(h.guard)
      <4>1. g.guard.wire = <<500>>
        BY <1>2, <3>1, OneRefusal
      <4>2. QED
        BY <4>1
    <3>2. ASSUME NEW status \in {200, 503}, g.guard = Send(h.guard, status)
          PROVE  g.guard.wire = <<status>>
      BY <1>2, <3>2, OneAnswer
    <3>3. QED
      BY <2>2, <3>1, <3>2
  <2>4. ~TooLong(g)
    BY <1>3, <1>4, <1>5, <1>7 DEF TooLong
  <2>5. PICK status \in {200, 500, 503} : g.guard.wire = <<status>>
    BY <2>3
  <2>6. QED
    BY <2>1, <2>4, <2>5 DEF Guarded, Status
<1>8. CASE ~RefusesDeclared(request.declared, limit) /\ request.route \notin Probes
  <2>1. g = h
    BY <1>1, <1>8 DEF Arrived
  <2> HIDE DEF h
  <2>2. QED
    BY <1>2, <1>3, <1>4, <1>5, <1>8, <2>1 DEF Guarded
<1>9. QED
  BY <1>6, <1>7, <1>8

-----------------------------------------------------------------------------
(* How far an exchange has come, and what it has done by then.             *)

Accepted(f) ==
    /\ f.built = BuiltFor(f.request, Env(f).parser) /\ f.built.error = Absent
    /\ f.request.valid /\ f.request.route \notin {"restore", "explore"}

Underway(f) ==
    /\ f.stage \in {"reading", "handling"} =>
         /\ f.built = Absent /\ f.decision = Absent /\ f.wrote = FALSE
         /\ f.handledAt = Absent
    /\ f.stage # "done" => f.called = FALSE
    /\ f.stage \in Vaulted =>
         /\ f.decision.status = "allowed" /\ f.wanted # {}
         /\ f.wanted \subseteq f.built.text.values
    /\ f.stage \notin Vaulted => f.wanted = {}
    /\ f.stage \in {"storing", "linking"} <=> f.token # Absent

Alone(f) ==
    f.request.route # "compare" =>
      /\ f.stage \in Vaulted \cup {"deciding"} => Len(f.todo) = 1
      /\ f.stage = "deciding" => f.wrote = FALSE
      /\ f.stage = "decided" => f.wrote = FALSE \/ f.decision.status = "allowed"

Taken(f) ==
    /\ f.stage \in Vaulted \cup {"deciding", "decided"} \/ f.decision # Absent => Accepted(f)
    /\ f.built # Absent => f.built = BuiltFor(f.request, Env(f).parser) /\ ~TooLong(f)

Over(f) ==
    f.stage = "done" =>
      /\ Status(f) \in 400..499 => f.wrote = FALSE /\ f.called = FALSE
      /\ f.request.route = "ready" /\ Status(f) = 503 => UnreadyReason(Env(f)) # Absent
      /\ f.request.route = "execute" /\ f.decision # Absent /\ f.decision.status = "allowed" =>
           (f.called <=> Context(f).provider = ProviderClass(Env(f)))

LEMMA MovedUnderway ==
  ASSUME Placed, NEW f, NEW g, Underway(f), Moved(f, g)
  PROVE  Underway(g)
<1>1. CASE \E bytes \in 1..f.left : Received(f, g, bytes)
  BY <1>1 DEF Underway, Received, Same, Fields, Vaulted
<1>2. CASE Handled(f, g)
  BY <1>2 DEF Underway, Handled, Same, Fields, Vaulted
<1>3. CASE Chosen(f, g)
  BY <1>3 DEF Underway, Chosen, Concluded, Same, Fields, Vaulted, Allowed
<1>4. ASSUME NEW p, GivenTo(f, g, p), f.stage \in Vaulted PROVE Underway(g)
  BY <1>4 DEF Underway, GivenTo, Same, Fields, Vaulted
<1>5. CASE LookedUp(f, g)
  <2>1. CASE \E e \in Stored(f) : GivenTo(f, g, e.pseudonym) /\ drawn' = drawn
    BY <1>4, <1>5, <2>1 DEF LookedUp, Vaulted
  <2>2. CASE ~\E e \in Stored(f) : GivenTo(f, g, e.pseudonym) /\ drawn' = drawn
    <3>1. drawn + 1 # Absent
      BY ValuesAssumption DEF Placed
    <3>2. QED
      BY <1>5, <2>2, <3>1 DEF Underway, LookedUp, Same, Fields, Vaulted
  <2>3. QED
    BY <2>1, <2>2
<1>6. CASE StoredForward(f, g)
  BY <1>6 DEF Underway, StoredForward, Same, Fields, Vaulted
<1>7. CASE Linked(f, g)
  BY <1>4, <1>7 DEF Linked, Vaulted
<1>8. CASE Previewed(f, g) \/ Compared(f, g) \/ Executed(f, g) \/ Exported(f, g)
  BY <1>8 DEF Underway, Previewed, Compared, Executed, Exported, Finished, Same, Fields, Vaulted
<1>9. QED
  BY <1>1, <1>2, <1>3, <1>5, <1>6, <1>7, <1>8 DEF Moved

LEMMA MovedAlone ==
  ASSUME NEW f, NEW g, Underway(f), Alone(f), Moved(f, g)
  PROVE  Alone(g)
<1>1. CASE \E bytes \in 1..f.left : Received(f, g, bytes)
  BY <1>1 DEF Alone, Received, Same, Fields, Vaulted
<1>2. CASE Handled(f, g)
  <2>1. \A x : Len(<<x>>) = 1
    OBVIOUS
  <2>2. QED
    BY <1>2, <2>1 DEF Alone, Underway, Handled, Same, Fields, Vaulted
<1>3. CASE Chosen(f, g)
  <2>1. f.stage = "deciding" /\ g.request = f.request /\ g.wrote = f.wrote
    BY <1>3 DEF Chosen, Concluded, Same, Fields
  <2>2. SUFFICES ASSUME f.request.route # "compare" PROVE Alone(g)
    BY <2>1 DEF Alone
  <2>3. Len(f.todo) = 1 /\ f.wrote = FALSE
    BY <2>1, <2>2 DEF Alone
  <2>4. CASE g.stage = "looking" /\ Same(f, g, {"stage", "wanted", "decision"})
    <3>1. g.todo = f.todo
      BY <2>4 DEF Same, Fields
    <3>2. QED
      BY <2>3, <2>4, <3>1 DEF Alone
  <2>5. CASE g.stage = IF Len(f.todo) > 1 THEN "deciding" ELSE "decided"
    <3>1. g.stage = "decided"
      BY <2>3, <2>5
    <3>2. QED
      BY <2>1, <2>3, <3>1 DEF Alone, Vaulted
  <2>6. QED
    BY <1>3, <2>4, <2>5 DEF Chosen, Concluded
<1>4. ASSUME NEW p, GivenTo(f, g, p), f.stage \in Vaulted PROVE Alone(g)
  <2>1. f.decision.status = "allowed" /\ g.decision.status = "allowed"
    BY <1>4 DEF Underway, GivenTo
  <2>2. g.request = f.request
    BY <1>4 DEF GivenTo, Same, Fields
  <2>3. f.request.route # "compare" =>
          \/ g.stage = "looking" /\ Len(g.todo) = 1
          \/ g.stage = "decided"
    <3>1. f.request.route # "compare" => Len(f.todo) = 1
      BY <1>4 DEF Alone
    <3>2. \/ g.stage = "looking" /\ g.todo = f.todo
          \/ g.stage = IF Len(f.todo) > 1 THEN "deciding" ELSE "decided"
      BY <1>4 DEF GivenTo
    <3>3. CASE g.stage = "looking" /\ g.todo = f.todo
      BY <3>1, <3>3
    <3>4. ASSUME f.request.route # "compare",
                 g.stage = IF Len(f.todo) > 1 THEN "deciding" ELSE "decided"
          PROVE  g.stage = "decided"
      <4>1. Len(f.todo) = 1
        BY <3>1, <3>4
      <4>2. QED
        BY <3>4, <4>1
    <3>5. QED
      BY <3>2, <3>3, <3>4
  <2>4. SUFFICES ASSUME f.request.route # "compare" PROVE Alone(g)
    BY <2>2 DEF Alone
  <2>5. CASE g.stage = "looking" /\ Len(g.todo) = 1
    BY <2>5 DEF Alone
  <2>6. CASE g.stage = "decided"
    BY <2>1, <2>6 DEF Alone, Vaulted
  <2>7. QED
    BY <2>3, <2>4, <2>5, <2>6
<1>5. CASE LookedUp(f, g)
  <2>1. CASE \E e \in Stored(f) : GivenTo(f, g, e.pseudonym)
    BY <1>4, <1>5, <2>1 DEF LookedUp, Vaulted
  <2>2. CASE f.stage = "looking" /\ Same(f, g, {"token", "stage"}) /\ g.stage = "storing"
    BY <2>2 DEF Alone, Same, Fields, Vaulted
  <2>3. QED
    BY <1>5, <2>1, <2>2 DEF LookedUp
<1>6. CASE StoredForward(f, g)
  BY <1>6 DEF Alone, StoredForward, Same, Fields, Vaulted
<1>7. CASE Linked(f, g)
  BY <1>4, <1>7 DEF Linked, Vaulted
<1>8. CASE Previewed(f, g) \/ Compared(f, g) \/ Executed(f, g) \/ Exported(f, g)
  BY <1>8 DEF Alone, Previewed, Compared, Executed, Exported, Finished, Same, Fields, Vaulted
<1>9. QED
  BY <1>1, <1>2, <1>3, <1>5, <1>6, <1>7, <1>8 DEF Moved

LEMMA MovedTaken ==
  ASSUME NEW f, NEW g, f.request.size \in Nat, Guarded(f), Underway(f), Taken(f), Moved(f, g)
  PROVE  Taken(g)
<1>1. g.request = f.request /\ Env(g) = Env(f) /\ (TooLong(g) <=> TooLong(f))
  BY MovedStaysPut DEF Env, TooLong
<1>2. f.stage = "handling" => ~TooLong(f)
  <2>1. UploadLimit(Env(f)) \in Nat
    BY LimitIsPositive
  <2>2. QED
    BY <2>1 DEF Guarded, TooLong
<1>3. CASE g.built = f.built /\ g.stage = "done" /\ g.decision = f.decision
  BY <1>1, <1>3 DEF Taken, Accepted, Vaulted
<1>4. CASE g.built = f.built /\ f.stage \in Vaulted \cup {"deciding", "decided"}
  BY <1>1, <1>4 DEF Taken, Accepted
<1>5. CASE \E bytes \in 1..f.left : Received(f, g, bytes)
  BY <1>1, <1>5 DEF Taken, Underway, Received, Same, Fields, Vaulted
<1>6. CASE Handled(f, g)
  <2>1. /\ f.stage = "handling" /\ f.built = Absent /\ f.decision = Absent /\ g.decision = Absent
    BY <1>6 DEF Underway, Handled, Same, Fields
  <2>2. CASE g.stage = "done"
    BY <1>1, <1>2, <1>6, <2>1, <2>2 DEF Taken, Handled, Vaulted
  <2>3. CASE g.stage = "deciding"
    <3>1. /\ g.built = BuiltFor(f.request, Env(f).parser) /\ g.built.error = Absent
          /\ f.request.valid /\ f.request.route \notin {"restore", "explore"}
      BY <1>6, <2>3 DEF Handled
    <3>2. Accepted(g)
      BY <1>1, <3>1 DEF Accepted
    <3>3. QED
      BY <1>1, <1>2, <2>1, <3>1, <3>2 DEF Taken
  <2>4. QED
    BY <1>6, <2>2, <2>3 DEF Handled
<1>7. CASE Chosen(f, g)
  BY <1>4, <1>7 DEF Chosen, Concluded, Same, Fields
<1>8. CASE LookedUp(f, g)
  BY <1>4, <1>8 DEF LookedUp, GivenTo, Same, Fields, Vaulted
<1>9. CASE StoredForward(f, g)
  BY <1>4, <1>9 DEF StoredForward, Same, Fields, Vaulted
<1>10. CASE Linked(f, g)
  BY <1>4, <1>10 DEF Linked, GivenTo, Same, Fields, Vaulted
<1>11. CASE Previewed(f, g) \/ Compared(f, g) \/ Executed(f, g) \/ Exported(f, g)
  BY <1>3, <1>11 DEF Previewed, Compared, Executed, Exported, Finished, Same, Fields
<1>12. QED
  BY <1>5, <1>6, <1>7, <1>8, <1>9, <1>10, <1>11 DEF Moved

LEMMA MovedOver ==
  ASSUME NEW f, NEW g, Guarded(f), Underway(f), Alone(f), Moved(f, g)
  PROVE  Over(g)
<1>1. g.request = f.request /\ Env(g) = Env(f)
  BY MovedStaysPut DEF Env
<1>2. f.stage # "done"
  BY DEF Moved, Received, Handled, Chosen, LookedUp, StoredForward, Linked, Previewed, Compared,
         Executed, Exported, Finished
<1>3. f.called = FALSE /\ g.request.route # "ready" /\ Idle(f.guard, f.request.size - f.left)
  BY <1>1, <1>2 DEF Underway, Guarded, Probes
<1>4. CASE f.stage \in {"reading", "handling"} /\ g.decision = f.decision /\ g.wrote = f.wrote
           /\ g.called = f.called
  BY <1>3, <1>4 DEF Over, Underway
<1>5. CASE \E bytes \in 1..f.left : Received(f, g, bytes)
  BY <1>4, <1>5 DEF Received, Same, Fields
<1>6. CASE Handled(f, g)
  BY <1>4, <1>6 DEF Handled, Same, Fields
<1>7. ASSUME NEW status, Finished(f, g, status)
      PROVE  /\ Status(g) = status /\ g.wrote = f.wrote /\ g.decision = f.decision
             /\ g.built = f.built
  <2>1. Send(f.guard, status).wire = <<status>>
    BY <1>3, OneAnswer
  <2>2. QED
    BY <1>7, <2>1 DEF Status, Finished, Same, Fields
<1>8. CASE Previewed(f, g) \/ Compared(f, g)
  BY <1>1, <1>3, <1>7, <1>8 DEF Over, Previewed, Compared, Previews
<1>9. CASE Executed(f, g)
  <2>1. Context(g) = Context(f)
    BY <1>1, <1>7, <1>9 DEF Context, Executed
  <2>2. Status(g) = 200
    BY <1>7, <1>9 DEF Executed
  <2>3. f.decision.status = "allowed" => (g.called <=> Context(f).provider = ProviderClass(Env(f)))
    BY <1>9 DEF Executed
  <2>4. Env(g) = Env(f) /\ g.decision = f.decision
    BY <1>1, <1>7, <1>9 DEF Executed
  <2>5. QED
    BY <1>3, <2>1, <2>2, <2>3, <2>4 DEF Over
<1>10. CASE Exported(f, g)
  <2>1. f.decision.status # "allowed" => f.wrote = FALSE
    BY <1>10 DEF Alone, Exported, Finished
  <2>2. g.called = FALSE /\ g.request.route = "export"
    BY <1>1, <1>3, <1>10 DEF Exported
  <2>3. CASE Finished(f, g, 400) /\ f.decision.status # "allowed"
    BY <1>7, <2>1, <2>2, <2>3 DEF Over
  <2>4. CASE Finished(f, g, 503) \/ Finished(f, g, 200)
    <3>1. Status(g) \in {200, 503}
      BY <1>7, <2>4
    <3>2. QED
      BY <2>2, <3>1 DEF Over
  <2>5. QED
    BY <1>10, <2>3, <2>4 DEF Exported
<1>11. CASE Chosen(f, g) \/ LookedUp(f, g) \/ StoredForward(f, g) \/ Linked(f, g)
  <2>1. g.stage # "done"
    BY <1>11 DEF Chosen, Concluded, LookedUp, GivenTo, StoredForward, Linked
  <2>2. QED
    BY <2>1 DEF Over
<1>12. QED
  BY <1>5, <1>6, <1>8, <1>9, <1>10, <1>11 DEF Moved

LEMMA BegunProgress ==
  ASSUME Base, NEW g, Begun(g)
  PROVE  Underway(g) /\ Alone(g) /\ Taken(g) /\ Over(g)
<1>1. PICK w, request, brought, text : w \in Worker /\ Arrived(w, request, brought, text, g)
  BY DEF Begun
<1> DEFINE h == Opened(w, request, brought, text)
           limit == UploadLimit(Env(h))
<1>2. /\ h.at = w /\ h.request = request /\ h.stage = "reading" /\ DOMAIN h = Fields
      /\ h.built = Absent /\ h.decision = Absent /\ h.wrote = FALSE /\ h.called = FALSE
      /\ h.wanted = {} /\ h.token = Absent /\ h.handledAt = Absent /\ Idle(h.guard, 0)
  BY DEF Opened, Fields, Fresh, Idle, Parts
<1> HIDE DEF h
<1>3. /\ g.at = w /\ g.request = request /\ g.stage \in {"reading", "done"}
      /\ g.built = Absent /\ g.decision = Absent /\ g.wrote = FALSE /\ g.called = FALSE
      /\ g.wanted = {} /\ g.token = Absent /\ g.handledAt = Absent
  BY <1>1, <1>2 DEF Arrived, Same, Fields, h
<1>4. Underway(g) /\ Alone(g) /\ Taken(g)
  BY <1>3 DEF Underway, Alone, Taken, Vaulted
<1>5. ASSUME g.stage = "done", request.route = "ready", Status(g) = 503
      PROVE  UnreadyReason(Env(g)) # Absent
  <2>1. Env(g) = Env(h)
    BY <1>2, <1>3 DEF Env
  <2>2. SendTooLarge(h.guard).wire = <<413>> /\ Send(h.guard, 200).wire = <<200>>
    BY <1>2, OneAnswer, OneRefusal
  <2>3. g.guard \in {SendTooLarge(h.guard), ProbeGuard(h)}
    BY <1>1, <1>2, <1>5 DEF Arrived, h
  <2>4. UnreadyReason(Env(h)) = Absent => ProbeGuard(h) = Send(h.guard, 200)
    BY <1>2, <1>5 DEF ProbeGuard
  <2>5. QED
    BY <1>5, <2>1, <2>2, <2>3, <2>4 DEF Status
<1>6. Over(g)
  BY <1>3, <1>5 DEF Over
<1>7. QED
  BY <1>4, <1>6

-----------------------------------------------------------------------------
(* The invariant of a frame, and of all of them.                           *)

Sound(f) == Guarded(f) /\ Underway(f) /\ Alone(f) /\ Taken(f) /\ Over(f)
Sounds == \A c \in Conn : frame[c] # Absent => Sound(frame[c])

LEMMA SoundLater ==
  ASSUME NEW d \in Conn, process'[frame'[d].at] = process[frame'[d].at], Sound(frame'[d])
  PROVE  Sound(frame[d])'
<1>1. Env(frame'[d]) = Env(frame[d])'
  BY DEF Env
<1>2. TooLong(frame'[d]) <=> TooLong(frame[d])'
  BY <1>1 DEF TooLong
<1>3. Context(frame'[d]) = Context(frame[d])'
  BY <1>1 DEF Context
<1>4. Guarded(frame[d])'
  BY <1>1, <1>2 DEF Sound, Guarded, Status
<1>5. Underway(frame[d])' /\ Alone(frame[d])'
  BY DEF Sound, Underway, Alone
<1>6. Taken(frame[d])'
  BY <1>1, <1>2 DEF Sound, Taken, Accepted
<1>7. Over(frame[d])'
  BY <1>1, <1>3 DEF Sound, Over, Status
<1>8. QED
  BY <1>4, <1>5, <1>6, <1>7 DEF Sound

LEMMA SoundsStep ==
  ASSUME Base, Sounds, [Next]_vars
  PROVE  Sounds'
<1>1. SUFFICES ASSUME NEW d \in Conn, frame'[d] # Absent PROVE Sound(frame[d])'
  BY DEF Sounds
<1>2. SUFFICES ASSUME TRUE
               PROVE  process'[frame'[d].at] = process[frame'[d].at] /\ Sound(frame'[d])
  BY SoundLater
<1>3. CASE UNCHANGED vars
  BY <1>1, <1>3 DEF vars, Sounds
<1>4. CASE Next
  <2>1. /\ process'[frame'[d].at] = process[frame'[d].at]
        /\ \/ frame'[d] = frame[d]
           \/ Begun(frame'[d])
           \/ frame[d] # Absent /\ Moved(frame[d], frame'[d])
    BY <1>1, <1>4, FrameStep
  <2>2. CASE frame'[d] = frame[d]
    BY <1>1, <2>1, <2>2 DEF Sounds
  <2>3. CASE Begun(frame'[d])
    BY <2>1, <2>3, BegunGuarded, BegunProgress DEF Sound
  <2>4. CASE frame[d] # Absent /\ Moved(frame[d], frame'[d])
    <3>1. Sound(frame[d]) /\ Placed /\ frame[d].request.size \in Nat
      BY <2>4, CampaignAssumption DEF Sounds, Base, Shaped, Placed
    <3>2. Sound(frame'[d])
      BY <2>4, <3>1, MovedGuarded, MovedUnderway, MovedAlone, MovedTaken, MovedOver DEF Sound
    <3>3. QED
      BY <2>1, <3>2
  <2>5. QED
    BY <2>1, <2>2, <2>3, <2>4
<1>5. QED
  BY <1>3, <1>4

LEMMA SoundsSpec == Spec => [](Base /\ Sounds)
<1>1. Init => Base /\ Sounds
  <2>1. Init => \A c \in Conn : frame[c] = Absent
    BY DEF Init
  <2>2. QED
    BY <2>1, InitBase DEF Sounds
<1>2. Base /\ Sounds /\ [Next]_vars => (Base /\ Sounds)'
  BY BaseStep, SoundsStep
<1>3. QED
  BY <1>1, <1>2, PTL DEF Spec

-----------------------------------------------------------------------------
(* What follows for a client.                                              *)

LEMMA BuiltIsParsed ==
  ASSUME NEW request, NEW parser, BuiltFor(request, parser).parsed
  PROVE  ~(request.body.file.bytes > MaxInputBytes)
<1>1. CASE request.route \in Documents
  BY <1>1, DocumentBuilt DEF BuiltFor
<1>2. CASE request.route \notin Documents
  BY <1>2, ApplicationBuilt DEF BuiltFor
<1>3. QED
  BY <1>1, <1>2

(* Every answer of an exchange is the only one and says what happened      *)
(* (api/limits.py, api/app.py).                                            *)
THEOREM AnswersTruthful == Spec => []AnswersAreTruthful
<1>1. Base /\ Sounds => AnswersAreTruthful
  <2>1. SUFFICES ASSUME Base, Sounds, NEW c \in Conn, frame[c] # Absent
                 PROVE  LET f == frame[c]
                            tooLong == RefusesDeclared(f.request.declared, UploadLimit(Env(f)))
                                       \/ f.request.size > UploadLimit(Env(f))
                            parsed == f.built # Absent /\ f.built.parsed
                        IN  /\ Len(f.guard.wire) = IF f.stage = "done" THEN 1 ELSE 0
                            /\ f.stage = "done" => (Status(f) = 413 <=> tooLong)
                            /\ parsed => ~tooLong /\ ~(f.request.body.file.bytes > MaxInputBytes)
                            /\ f.stage = "done" /\ Status(f) \in 400..499 =>
                                 ~f.wrote /\ ~f.called
                            /\ f.stage = "done" /\ f.request.route = "ready" /\ Status(f) = 503 =>
                                 /\ ProviderName(Env(f)) = "anthropic"
                                 /\ Env(f).credential = Absent \/ ~Env(f).sdk
    BY DEF AnswersAreTruthful
  <2> DEFINE f == frame[c]
             parsed == f.built # Absent /\ f.built.parsed
  <2>2. Sound(f) /\ Shaped(f) /\ Placed
    BY <2>1 DEF Sounds, Base
  <2> HIDE DEF f
  <2>3. Len(f.guard.wire) = IF f.stage = "done" THEN 1 ELSE 0
    <3>1. CASE f.stage = "done"
      <4>1. f.guard.wire = <<f.guard.wire[1]>>
        BY <2>2, <3>1 DEF Sound, Guarded
      <4>2. \A x : Len(<<x>>) = 1
        OBVIOUS
      <4>3. Len(f.guard.wire) = 1
        BY <4>1, <4>2
      <4>4. QED
        BY <3>1, <4>3
    <3>2. CASE f.stage # "done"
      BY <2>2, <3>2 DEF Sound, Guarded, Idle
    <3>3. QED
      BY <3>1, <3>2
  <2>4. f.stage = "done" => (Status(f) = 413 <=> TooLong(f))
    BY <2>2 DEF Sound, Guarded
  <2>5. parsed => ~TooLong(f) /\ ~(f.request.body.file.bytes > MaxInputBytes)
    BY <2>2, BuiltIsParsed DEF Sound, Taken
  <2>6. f.stage = "done" /\ Status(f) \in 400..499 => ~f.wrote /\ ~f.called
    BY <2>2 DEF Sound, Over
  <2>7. f.stage = "done" /\ f.request.route = "ready" /\ Status(f) = 503 =>
          ProviderName(Env(f)) = "anthropic" /\ (Env(f).credential = Absent \/ ~Env(f).sdk)
    <3>1. ServiceBuilds(Env(f))
      BY <2>2 DEF Shaped, Placed, Env
    <3>2. QED
      BY <2>2, <3>1, UnreadyForAReason DEF Sound, Over
  <2>8. QED
    BY <2>3, <2>4, <2>5, <2>6, <2>7 DEF TooLong, f
<1>2. QED
  BY <1>1, SoundsSpec, PTL

LEMMA ContextMerged ==
  ASSUME NEW f
  PROVE  LET c == Context(f)
             o == f.built.overrides
         IN  /\ o.domain # Absent => c.domain = o.domain
             /\ o.policy_version # Absent => c.version = o.policy_version
             /\ o.requester_role # Absent => c.role = o.requester_role
             /\ o.purpose # Absent => c.purpose = o.purpose
             /\ c.provider = IF o.provider_class = Absent THEN ProviderClass(Env(f))
                             ELSE o.provider_class
<1> DEFINE default == DefaultGovernanceContext(Env(f))
           o == f.built.overrides
           merged == MergeOverrides(default, o)
<1>1. default.provider_class = ProviderClass(Env(f))
  BY DEF DefaultGovernanceContext
<1> HIDE DEF default, o
<1>2. \A x \in OverrideFields : merged[x] = IF o[x] = Absent THEN default[x] ELSE o[x]
  BY DEF MergeOverrides
<1> HIDE DEF merged
<1>3. /\ ContextOf(merged).domain = merged.domain /\ ContextOf(merged).version = merged.policy_version
      /\ ContextOf(merged).role = merged.requester_role /\ ContextOf(merged).purpose = merged.purpose
      /\ ContextOf(merged).provider = merged.provider_class
  BY DEF ContextOf
<1>4. Context(f) = ContextOf(merged)
  BY DEF Context, merged, default, o
<1>5. QED
  BY <1>1, <1>2, <1>3, <1>4 DEF OverrideFields, o

LEMMA PresetResolved ==
  ASSUME NEW type, NEW mode, ResolveAnalysisMode(type, mode) # Absent
  PROVE  LET o == ResolveGovernancePreset(type, mode)
             preset == Presets[type]
         IN  /\ o.domain = preset.domain /\ o.domain # Absent
             /\ o.policy_version = preset.policy_version /\ o.policy_version # Absent
             /\ o.requester_role = preset.requester_role /\ o.requester_role # Absent
             /\ o.provider_class = Absent
             /\ o.purpose # Absent /\ \E i \in 1..3 : o.purpose = preset.modes[i]
<1>1. type \in DOMAIN Presets
  BY DEF ResolveAnalysisMode
<1>2. type \in {"contract", "hr_record"}
  BY <1>1 DEF Presets
<1>3. DOMAIN Presets[type].modes = 1..3
  BY <1>2 DEF Presets
<1>4. \E i \in 1..3 : ResolveAnalysisMode(type, mode) = Presets[type].modes[i]
  BY <1>1, <1>3 DEF ResolveAnalysisMode
<1>5. Absent \notin {Presets[type].domain, Presets[type].policy_version,
                    Presets[type].requester_role}
  BY <1>1, ValuesAssumption
<1> DEFINE o == ResolveGovernancePreset(type, mode)
<1>6. /\ o.domain = Presets[type].domain /\ o.policy_version = Presets[type].policy_version
      /\ o.requester_role = Presets[type].requester_role /\ o.provider_class = Absent
      /\ o.purpose = ResolveAnalysisMode(type, mode)
  BY DEF ResolveGovernancePreset, NoOverrides, OverrideFields
<1> HIDE DEF o
<1>7. QED
  BY <1>4, <1>5, <1>6 DEF o

(* A document is governed by its preset alone, and what names no class of  *)
(* provider goes to the one that is there (application/presets.py,         *)
(* requests.py).                                                           *)
THEOREM GovernedDeclared == Spec => []GovernedAsDeclared
<1>1. Base /\ Sounds => GovernedAsDeclared
  <2>1. SUFFICES ASSUME Base, Sounds, NEW c \in Conn, frame[c] # Absent, frame[c].decision # Absent
                 PROVE  LET f == frame[c]
                            body == f.request.body
                        IN  /\ f.request.route \in Documents =>
                                 LET preset == Presets[body.document_type]
                                 IN  /\ Context(f).domain = preset.domain
                                     /\ Context(f).version = preset.policy_version
                                     /\ Context(f).role = preset.requester_role
                                     /\ \E i \in 1..3 : Context(f).purpose = preset.modes[i]
                            /\ \/ f.request.route \in Documents
                               \/ body.governance.provider_class = Absent
                               => Context(f).provider = ProviderClass(Env(f))
                            /\ /\ f.stage = "done" /\ f.request.route = "execute"
                               /\ f.decision.status = "allowed"
                               => (f.called <=> body.governance.provider_class
                                                  \in {Absent, ProviderClass(Env(f))})
    BY DEF GovernedAsDeclared
  <2> DEFINE f == frame[c]
             body == f.request.body
             class == body.governance.provider_class
             o == f.built.overrides
  <2>2. Sound(f) /\ f.decision # Absent
    BY <2>1 DEF Sounds
  <2> HIDE DEF f
  <2>3. f.built = BuiltFor(f.request, Env(f).parser) /\ f.built.error = Absent
    BY <2>2 DEF Sound, Taken, Accepted
  <2>4. CASE f.request.route \in Documents
    <3> DEFINE preset == Presets[body.document_type]
    <3>1. f.built = BuildDocumentRequest(body, Env(f).parser)
      BY <2>3, <2>4 DEF BuiltFor
    <3>2. /\ ResolveAnalysisMode(body.document_type, body.analysis_mode) # Absent
          /\ o = ResolveGovernancePreset(body.document_type, body.analysis_mode)
      BY <2>3, <3>1, DocumentBuilt
    <3> HIDE DEF body
    <3>3. /\ o.domain = preset.domain /\ o.domain # Absent
          /\ o.policy_version = preset.policy_version /\ o.policy_version # Absent
          /\ o.requester_role = preset.requester_role /\ o.requester_role # Absent
          /\ o.provider_class = Absent
          /\ o.purpose # Absent /\ \E i \in 1..3 : o.purpose = preset.modes[i]
      BY <3>2, PresetResolved
    <3> HIDE DEF preset
    <3>4. /\ Context(f).domain = preset.domain /\ Context(f).version = preset.policy_version
          /\ Context(f).role = preset.requester_role
          /\ \E i \in 1..3 : Context(f).purpose = preset.modes[i]
          /\ Context(f).provider = ProviderClass(Env(f))
      BY <3>3, ContextMerged
    <3>5. f.request.route # "execute"
      BY <2>4 DEF Documents
    <3>6. QED
      BY <2>4, <3>4, <3>5 DEF f, body, preset
  <2>5. CASE f.request.route \notin Documents
    <3>1. f.built = BuildApplicationRequest(body, Env(f).parser)
      BY <2>3, <2>5 DEF BuiltFor
    <3>2. o.provider_class = class
      BY <2>3, <3>1, ApplicationBuilt
    <3>3. Context(f).provider = IF class = Absent THEN ProviderClass(Env(f)) ELSE class
      BY <3>2, ContextMerged
    <3>4. f.stage = "done" /\ f.request.route = "execute" /\ f.decision.status = "allowed" =>
            (f.called <=> Context(f).provider = ProviderClass(Env(f)))
      BY <2>2 DEF Sound, Over
    <3> HIDE DEF class
    <3>5. Context(f).provider = ProviderClass(Env(f)) <=> class \in {Absent, ProviderClass(Env(f))}
      BY <3>3
    <3>6. class = Absent => Context(f).provider = ProviderClass(Env(f))
      BY <3>3
    <3>7. QED
      BY <2>5, <3>4, <3>5, <3>6 DEF f, class
  <2>6. QED
    BY <2>4, <2>5
<1>2. QED
  BY <1>1, SoundsSpec, PTL

-----------------------------------------------------------------------------
(* What the pseudonyms mean: one value each, whoever holds them.           *)

Means(m, decision) ==
    \A t \in decision.transformations :
      /\ t.action = "pseudonymize" /\ t.transformed \in DOMAIN m
      /\ t.original = m[t.transformed] /\ t.original # Absent

Grows(m, n) == DOMAIN m \subseteq DOMAIN n /\ \A p \in DOMAIN m : n[p] = m[p]

GrantFields == {"kind", "sealed", "at", "by", "decision"}
SealFields == {"prefix", "key", "intact", "claims"}

HandleIssued(g) ==
    /\ g.kind = "handle" /\ g.by.env.restoreSecret # Absent
    /\ HandleTTL(g.by.env) \in Nat \ {0}
    /\ g.sealed.prefix = "rh1" /\ g.sealed.key = DerivedKey(g.by.env.restoreSecret)
    /\ g.sealed.claims.exp = Expiry(g.at, HandleTTL(g.by.env))
    /\ g.sealed.claims.entries = Entries(g.decision)

ReferenceIssued(g) ==
    /\ g.kind = "reference" /\ g.decision.status = "allowed"
    /\ g.sealed.prefix = "vx1" /\ g.sealed.key = g.by.id
    /\ g.sealed.claims.exp = Expiry(g.at, ExplorerTTL)
    /\ g.sealed.claims.entries = {[pseudonym |-> t.transformed, category |-> t.category] :
                                    t \in g.decision.transformations}

Issued(m, g) ==
    /\ DOMAIN g = GrantFields /\ DOMAIN g.sealed = SealFields /\ g.at \in Nat
    /\ Means(m, g.decision) /\ (HandleIssued(g) \/ ReferenceIssued(g))

LEMMA MeansLater ==
  ASSUME NEW m, NEW n, Grows(m, n), NEW decision, Means(m, decision)
  PROVE  Means(n, decision)
BY DEF Grows, Means

LEMMA IssuedLater ==
  ASSUME NEW m, NEW n, Grows(m, n), NEW g, Issued(m, g)
  PROVE  Issued(n, g)
BY MeansLater DEF Issued

LEMMA DamagedIsNot ==
  ASSUME NEW m, NEW g, Issued(m, g)
  PROVE  [g EXCEPT !.sealed = Damaged(@)].sealed.intact = FALSE
<1>1. DOMAIN g = GrantFields /\ DOMAIN g.sealed = SealFields
  BY DEF Issued
<1>2. Damaged(g.sealed).intact = FALSE
  BY <1>1 DEF Damaged, SealFields
<1>3. [g EXCEPT !.sealed = Damaged(@)].sealed = Damaged(g.sealed)
  BY <1>1 DEF GrantFields
<1>4. QED
  BY <1>2, <1>3

LEMMA Granted ==
  ASSUME NEW kind, NEW sealed, NEW f, NEW decision
  PROVE  LET g == Grant(kind, sealed, f, decision)
         IN  /\ DOMAIN g = GrantFields /\ g.kind = kind /\ g.sealed = sealed /\ g.at = now
             /\ g.by = process[f.at] /\ g.decision = decision
BY DEF Grant, GrantFields

LEMMA HandleIsIssued ==
  ASSUME Placed, NEW f, f.at \in Worker, process[f.at] # Absent, Env(f).restoreSecret # Absent,
         NEW m, Means(m, f.decision)
  PROVE  Issued(m, Grant("handle", Sealed(f), f, f.decision))
<1> DEFINE g == Grant("handle", Sealed(f), f, f.decision)
<1>1. /\ DOMAIN g = GrantFields /\ g.kind = "handle" /\ g.sealed = Sealed(f) /\ g.at = now
      /\ g.by = process[f.at] /\ g.decision = f.decision
  BY Granted
<1> HIDE DEF g
<1>2. /\ DOMAIN Sealed(f) = SealFields /\ Sealed(f).prefix = "rh1"
      /\ Sealed(f).key = DerivedKey(Env(f).restoreSecret)
      /\ Sealed(f).claims.exp = Expiry(now, HandleTTL(Env(f)))
      /\ Sealed(f).claims.entries = Entries(f.decision)
  BY DEF Sealed, IssueHandle, Seal, SealFields
<1>3. g.by.env = Env(f)
  BY <1>1 DEF Env
<1>4. HandleTTL(Env(f)) \in Nat \ {0}
  <2>1. Env(f) \in campaign.envs /\ ServiceBuilds(Env(f)) /\ campaign \in Campaign
    BY DEF Placed, Env
  <2>2. QED
    BY <2>1, CampaignAssumption, LifetimeIsPositive
<1>5. now \in Nat
  BY CampaignAssumption DEF Placed
<1>6. QED
  BY <1>1, <1>2, <1>3, <1>4, <1>5 DEF Issued, HandleIssued, g

LEMMA ReferenceShows ==
  ASSUME NEW key, NEW time, NEW decision, NEW policies, NEW context, NEW entries, NEW m,
         Means(m, decision), DOMAIN m \subseteq Nat,
         IssueReference(key, time, decision, policies, context, entries) # Absent
  PROVE  LET r == IssueReference(key, time, decision, policies, context, entries)
         IN  /\ decision.status = "allowed" /\ DOMAIN r = SealFields /\ r.prefix = "vx1"
             /\ r.key = key /\ r.claims.exp = Expiry(time, ExplorerTTL)
             /\ r.claims.entries = {[pseudonym |-> t.transformed, category |-> t.category] :
                                      t \in decision.transformations}
             /\ \A t \in decision.transformations : \E e \in entries :
                  e.partition = r.claims.partition /\ e.pseudonym = t.transformed
<1> DEFINE r == IssueReference(key, time, decision, policies, context, entries)
           shown == decision.transformations
           partition == PartitionOf(policies, context)
           list(of) == {[pseudonym |-> t.transformed, category |-> t.category] : t \in of}
           sealed(p, e) == Seal("vx1", key, [exp |-> Expiry(time, ExplorerTTL), partition |-> p,
                                             entries |-> e])
           astray == \E t \in shown : Lookup(entries, partition, t.transformed) # t.original
           wide == partition = Absent \/ partition.scope = "organization"
<1>1. Shown(shown) = shown
  <2>1. \A t \in shown : t.action = "pseudonymize" /\ t.transformed # Absent
    BY ValuesAssumption DEF Means
  <2> HIDE DEF shown
  <2>2. QED
    BY <2>1 DEF Shown
<1>2. r = IF decision.status # "allowed" THEN Absent
          ELSE IF shown = {} THEN sealed(Absent, {})
          ELSE IF wide THEN Absent
          ELSE IF astray THEN Absent ELSE sealed(partition, list(shown))
  <2> DEFINE s == Shown(shown)
  <2>1. s = shown
    BY <1>1
  <2>2. r = IF decision.status # "allowed" THEN Absent
            ELSE IF s = {} THEN sealed(Absent, {})
            ELSE IF wide THEN Absent
            ELSE IF \E t \in s : Lookup(entries, partition, t.transformed) # t.original THEN Absent
            ELSE sealed(partition, list(s))
    BY DEF IssueReference
  <2> HIDE DEF s, r, partition, wide, list, sealed
  <2>3. QED
    BY <2>1, <2>2
<1>3. \A p, e : /\ DOMAIN sealed(p, e) = SealFields /\ sealed(p, e).prefix = "vx1"
                /\ sealed(p, e).key = key /\ sealed(p, e).claims.exp = Expiry(time, ExplorerTTL)
                /\ sealed(p, e).claims.entries = e /\ sealed(p, e).claims.partition = p
  BY DEF Seal, SealFields
<1>4. list({}) = {}
  OBVIOUS
<1>5. r # Absent
  OBVIOUS
<1>6. ASSUME ~astray, NEW t \in shown
      PROVE  \E e \in entries : e.partition = partition /\ e.pseudonym = t.transformed
  <2>1. Lookup(entries, partition, t.transformed) = t.original /\ t.original # Absent
    BY <1>6 DEF Means
  <2>2. QED
    BY <2>1 DEF Lookup
<1> HIDE DEF r, partition, sealed, wide, astray
<1>7. /\ decision.status = "allowed"
      /\ \/ r = sealed(Absent, {}) /\ shown = {}
         \/ r = sealed(partition, list(shown)) /\ ~astray
  BY <1>2, <1>5
<1>8. CASE r = sealed(Absent, {}) /\ shown = {}
  BY <1>3, <1>4, <1>7, <1>8 DEF r
<1>9. CASE r = sealed(partition, list(shown)) /\ ~astray
  <2>1. /\ DOMAIN r = SealFields /\ r.prefix = "vx1" /\ r.key = key
        /\ r.claims.exp = Expiry(time, ExplorerTTL) /\ r.claims.entries = list(shown)
        /\ r.claims.partition = partition
    BY <1>3, <1>9
  <2>2. \A t \in shown : \E e \in entries :
          e.partition = r.claims.partition /\ e.pseudonym = t.transformed
    BY <1>6, <1>9, <2>1
  <2>3. QED
    BY <1>7, <2>1, <2>2 DEF r
<1>10. QED
  BY <1>7, <1>8, <1>9

LEMMA ReferenceIsIssued ==
  ASSUME Placed, NEW f, f.at \in Worker, process[f.at] # Absent, NEW m, Means(m, f.decision),
         DOMAIN m \subseteq Nat, Reference(f) # Absent
  PROVE  LET g == Grant("reference", Reference(f), f, f.decision)
         IN  /\ Issued(m, g)
             /\ \A t \in g.decision.transformations : \E e \in reverse[f.at] :
                  e.partition = g.sealed.claims.partition /\ e.pseudonym = t.transformed
<1> DEFINE g == Grant("reference", Reference(f), f, f.decision)
           r == Reference(f)
<1>1. /\ DOMAIN g = GrantFields /\ g.kind = "reference" /\ g.sealed = r /\ g.at = now
      /\ g.by = process[f.at] /\ g.decision = f.decision
  BY Granted
<1>2. /\ f.decision.status = "allowed" /\ DOMAIN r = SealFields /\ r.prefix = "vx1"
      /\ r.key = process[f.at].id /\ r.claims.exp = Expiry(now, ExplorerTTL)
      /\ r.claims.entries = {[pseudonym |-> t.transformed, category |-> t.category] :
                               t \in f.decision.transformations}
      /\ \A t \in f.decision.transformations : \E e \in reverse[f.at] :
           e.partition = r.claims.partition /\ e.pseudonym = t.transformed
  BY ReferenceShows DEF Reference
<1>3. now \in Nat
  BY CampaignAssumption DEF Placed
<1> HIDE DEF g, r
<1>4. QED
  BY <1>1, <1>2, <1>3 DEF Issued, ReferenceIssued, g

(* Everything in memory, under way or kept agrees with one meaning m.      *)
Meant(m, f) ==
    /\ f.stage \in {"storing", "linking"} => f.token \in DOMAIN m /\ m[f.token] = Span(f).value
    /\ f.stage \in Vaulted \cup {"decided"} => Means(m, f.decision)
    /\ f.request.route \in {"restore", "explore"} /\ f.brought.sealed.intact =>
         Issued(m, f.brought)

VaultMeans(m, entries, pairs) ==
    /\ \A e \in entries : e.pseudonym \in DOMAIN m /\ e.span.value = m[e.pseudonym]
    /\ \A e \in pairs : e.pseudonym \in DOMAIN m /\ e.value = m[e.pseudonym]

Agrees(m) ==
    /\ DOMAIN m = 1..drawn
    /\ \A w \in Worker : VaultMeans(m, forward[w], reverse[w])
    /\ \A c \in Conn : frame[c] # Absent => Meant(m, frame[c])
    /\ \A k \in {"handle", "reference"} : held[k] # Absent => Issued(m, held[k])

LEMMA MeantLater ==
  ASSUME NEW m, NEW n, Grows(m, n), NEW f, Meant(m, f)
  PROVE  Meant(n, f)
BY MeansLater, IssuedLater DEF Meant, Grows

LEMMA VaultLater ==
  ASSUME NEW m, NEW n, Grows(m, n), NEW entries, NEW pairs, VaultMeans(m, entries, pairs)
  PROVE  VaultMeans(n, entries, pairs)
BY DEF VaultMeans, Grows

LEMMA AgreesLater ==
  ASSUME NEW m, NEW n, Grows(m, n), DOMAIN n = 1..drawn', Placed, NEW c \in Conn, NEW g, Goes(c, g),
         Agrees(m), Meant(n, g),
         \A w \in Worker : VaultMeans(n, forward'[w], reverse'[w]),
         \A k \in {"handle", "reference"} : held'[k] # Absent => Issued(n, held'[k])
  PROVE  Agrees(n)'
<1>1. \A d \in Conn : frame'[d] # Absent => Meant(n, frame'[d])
  BY MeantLater DEF Agrees, Goes, Placed
<1>2. QED
  BY <1>1 DEF Agrees

(* A span at hand has a value, and the vault entry for it means it.        *)
LEMMA SpanHasValue ==
  ASSUME Base, NEW f, Shaped(f), Sound(f), f.stage \in Vaulted
  PROVE  Span(f) \in f.wanted /\ Span(f).value # Absent
<1>1. /\ f.wanted # {} /\ f.wanted \subseteq f.built.text.values /\ Accepted(f)
      /\ f.request.route \notin Probes
  BY DEF Sound, Underway, Taken, Guarded, Vaulted
<1>2. Span(f) \in f.wanted
  BY <1>1 DEF Span
<1>3. /\ campaign \in Campaign /\ f.request \in campaign.requests /\ Env(f) \in campaign.envs
  BY DEF Base, Placed, Shaped, Env
<1>4. Env(f).parser \in BOOLEAN
  BY <1>3, CampaignAssumption
<1>5. /\ f.request.route \notin Probes \cup {"restore", "explore"} /\ f.request.valid
      /\ f.built = BuiltFor(f.request, Env(f).parser) /\ f.built.error = Absent
  BY <1>1 DEF Accepted
<1>6. \A s \in f.built.text.values : s.value # Absent
  <2>1. LET built == BuiltFor(f.request, Env(f).parser)
        IN  built.error = Absent => \A s \in built.text.values : s.value # Absent
    BY <1>3, <1>4, <1>5, CampaignAssumption
  <2>2. QED
    BY <1>5, <2>1
<1>7. QED
  BY <1>1, <1>2, <1>6

LEMMA GivenMeant ==
  ASSUME NEW m, NEW f, NEW g, NEW p \in DOMAIN m, GivenTo(f, g, p), Meant(m, f),
         f.stage \in Vaulted, m[p] = Span(f).value, Span(f).value # Absent
  PROVE  Meant(m, g)
<1> DEFINE t == Transformed(f, p)
<1>1. /\ t.action = "pseudonymize" /\ t.transformed = p /\ t.original = Span(f).value
  BY DEF Transformed
<1>2. /\ g.decision.transformations = f.decision.transformations \cup {t}
      /\ g.stage \in {"looking", "deciding", "decided"}
      /\ g.request = f.request /\ g.brought = f.brought
  BY DEF GivenTo, Same, Fields
<1> HIDE DEF t
<1>3. Means(m, f.decision)
  BY DEF Meant
<1>4. Means(m, g.decision)
  BY <1>1, <1>2, <1>3 DEF Means
<1>5. QED
  BY <1>2, <1>4 DEF Meant

LEMMA SameVault ==
  ASSUME NEW m, Placed, NEW c \in Conn, NEW g, Goes(c, g), Agrees(m), Meant(m, g),
         UNCHANGED <<forward, reverse, drawn, held>>
  PROVE  Agrees(m)'
<1>1. Grows(m, m) /\ DOMAIN m = 1..drawn'
  BY DEF Grows, Agrees
<1>2. /\ \A w \in Worker : VaultMeans(m, forward'[w], reverse'[w])
      /\ \A k \in {"handle", "reference"} : held'[k] # Absent => Issued(m, held'[k])
  BY DEF Agrees
<1>3. QED
  BY <1>1, <1>2, AgreesLater

LEMMA FinishedMeant ==
  ASSUME NEW m, NEW f, NEW g, Meant(m, f),
         Previewed(f, g) \/ Compared(f, g) \/ Executed(f, g) \/ Exported(f, g)
  PROVE  Meant(m, g) /\ Means(m, f.decision)
<1>1. f.stage = "decided" /\ g.stage = "done" /\ g.request = f.request /\ g.brought = f.brought
  BY DEF Previewed, Compared, Executed, Exported, Finished, Same, Fields
<1>2. QED
  BY <1>1 DEF Meant, Vaulted

LEMMA HandlingMeant ==
  ASSUME NEW m, NEW f, NEW g, Meant(m, f),
         (\E bytes \in 1..f.left : Received(f, g, bytes)) \/ Handled(f, g) \/ Chosen(f, g)
  PROVE  Meant(m, g)
<1>1. g.request = f.request /\ g.brought = f.brought
  BY MovedStaysPut DEF Moved
<1>2. CASE g.stage \in {"reading", "handling", "deciding", "done"}
  BY <1>1, <1>2 DEF Meant, Vaulted
<1>3. CASE g.decision \in {Blocked, Allowed({})} /\ g.stage \in {"looking", "decided"}
  <2>1. g.decision.transformations = {}
    BY <1>3 DEF Blocked, Allowed
  <2>2. Means(m, g.decision)
    BY <2>1 DEF Means
  <2>3. QED
    BY <1>1, <1>3, <2>2 DEF Meant
<1>4. CASE \E bytes \in 1..f.left : Received(f, g, bytes)
  BY <1>2, <1>4 DEF Received
<1>5. CASE Handled(f, g)
  BY <1>2, <1>5 DEF Handled
<1>6. CASE Chosen(f, g)
  <2>1. g.stage \in {"deciding", "decided", "looking"} /\ g.decision \in {Blocked, Allowed({})}
    BY <1>6 DEF Chosen, Concluded
  <2>2. QED
    BY <1>2, <1>3, <2>1
<1>7. QED
  BY <1>4, <1>5, <1>6

LEMMA LookUpAgrees ==
  ASSUME Base, Sounds, NEW m, Agrees(m), NEW c \in Conn, LookUp(c)
  PROVE  \E n : Agrees(n)'
<1> DEFINE f == frame[c]
<1>1. frame[c] # Absent /\ UNCHANGED <<forward, reverse, held>>
  BY DEF LookUp
<1>2. Placed /\ Shaped(f) /\ Sound(f) /\ Meant(m, f)
  BY <1>1 DEF Base, Sounds, Agrees
<1>3. PICK g : Goes(c, g) /\ LookedUp(f, g)
  BY <1>2, LookUpStep
<1> HIDE DEF f
<1>4. f.stage = "looking" /\ f.stage \in Vaulted /\ f.at \in Worker
  BY <1>2, <1>3 DEF LookedUp, Vaulted, Shaped
<1>5. Span(f).value # Absent
  BY <1>2, <1>4, SpanHasValue
<1>6. ASSUME NEW e \in Stored(f), GivenTo(f, g, e.pseudonym), drawn' = drawn
      PROVE  Agrees(m)'
  <2>1. e \in forward[f.at] /\ e.span = Span(f)
    BY DEF Stored
  <2>2. e.pseudonym \in DOMAIN m /\ m[e.pseudonym] = Span(f).value
    BY <1>4, <2>1 DEF Agrees, VaultMeans
  <2>3. Meant(m, g)
    BY <1>2, <1>4, <1>5, <1>6, <2>2, GivenMeant
  <2>4. QED
    BY <1>1, <1>2, <1>3, <1>6, <2>3, SameVault
<1>7. CASE /\ Same(f, g, {"token", "stage"}) /\ drawn' = drawn + 1
           /\ g.token = drawn + 1 /\ g.stage = "storing"
  <2>1. DOMAIN m = 1..drawn /\ drawn \in Nat
    BY <1>2, ValuesAssumption DEF Agrees, Placed
  <2>2. PICK n : n = [p \in 1..(drawn + 1) |-> IF p \in 1..drawn THEN m[p] ELSE Span(f).value]
    OBVIOUS
  <2>3. /\ Grows(m, n) /\ DOMAIN n = 1..drawn' /\ drawn + 1 \in DOMAIN n
        /\ n[drawn + 1] = Span(f).value
    BY <1>7, <2>1, <2>2 DEF Grows
  <2>4. /\ Span(g) = Span(f) /\ g.decision = f.decision
        /\ g.request = f.request /\ g.brought = f.brought
    BY <1>7 DEF Span, Same, Fields
  <2>5. Meant(n, f)
    BY <1>2, <2>3, MeantLater
  <2>6. Meant(n, g)
    BY <1>4, <1>7, <2>3, <2>4, <2>5 DEF Meant
  <2>7. /\ \A w \in Worker : VaultMeans(n, forward'[w], reverse'[w])
        /\ \A k \in {"handle", "reference"} : held'[k] # Absent => Issued(n, held'[k])
    BY <1>1, <2>3, VaultLater, IssuedLater DEF Agrees
  <2>8. Agrees(n)'
    BY <1>2, <1>3, <2>3, <2>6, <2>7, AgreesLater
  <2>9. QED
    BY <2>8
<1>8. QED
  BY <1>3, <1>6, <1>7 DEF LookedUp

LEMMA StoreForwardAgrees ==
  ASSUME Base, NEW m, Agrees(m), NEW c \in Conn, StoreForward(c)
  PROVE  Agrees(m)'
<1> DEFINE f == frame[c]
           entry == [partition |-> Partition(f), span |-> Span(f), pseudonym |-> f.token]
<1>1. /\ frame[c] # Absent /\ UNCHANGED <<reverse, drawn, held>>
      /\ forward' = [forward EXCEPT ![f.at] = (@ \ Stored(f)) \cup {entry}]
  BY DEF StoreForward
<1>2. Placed /\ Shaped(f) /\ Meant(m, f)
  BY <1>1 DEF Base, Agrees
<1>3. PICK g : Goes(c, g) /\ StoredForward(f, g)
  BY <1>2, StoreForwardStep
<1>4. entry.span = Span(f) /\ entry.pseudonym = f.token
  OBVIOUS
<1> HIDE DEF f, entry
<1>5. /\ f.token \in DOMAIN m /\ m[f.token] = Span(f).value /\ Means(m, f.decision)
  BY <1>2, <1>3 DEF Meant, StoredForward, Vaulted
<1>6. /\ g.stage = "linking" /\ Span(g) = Span(f) /\ g.token = f.token
      /\ g.decision = f.decision /\ g.request = f.request /\ g.brought = f.brought
  BY <1>3 DEF StoredForward, Span, Same, Fields
<1>7. Meant(m, g)
  BY <1>2, <1>5, <1>6 DEF Meant
<1>8. \A w \in Worker : VaultMeans(m, forward'[w], reverse'[w])
  <2>1. \A w \in Worker : \A e \in forward'[w] : e \in forward[w] \/ e = entry
    BY <1>1, <1>2 DEF Placed
  <2>2. QED
    BY <1>1, <1>4, <1>5, <2>1 DEF Agrees, VaultMeans
<1>9. Grows(m, m) /\ DOMAIN m = 1..drawn'
  BY <1>1 DEF Grows, Agrees
<1>10. \A k \in {"handle", "reference"} : held'[k] # Absent => Issued(m, held'[k])
  BY <1>1 DEF Agrees
<1>11. QED
  BY <1>2, <1>3, <1>7, <1>8, <1>9, <1>10, AgreesLater

LEMMA StoreReverseAgrees ==
  ASSUME Base, Sounds, NEW m, Agrees(m), NEW c \in Conn, StoreReverse(c)
  PROVE  Agrees(m)'
<1> DEFINE f == frame[c]
           entry == [partition |-> Partition(f), pseudonym |-> f.token, value |-> Span(f).value]
<1>1. /\ frame[c] # Absent /\ UNCHANGED <<forward, drawn, held>>
      /\ reverse' = [reverse EXCEPT ![f.at] = @ \cup {entry}]
  BY DEF StoreReverse
<1>2. Placed /\ Shaped(f) /\ Sound(f) /\ Meant(m, f)
  BY <1>1 DEF Base, Sounds, Agrees
<1>3. PICK g : Goes(c, g) /\ Linked(f, g)
  BY <1>2, StoreReverseStep
<1>4. entry.value = Span(f).value /\ entry.pseudonym = f.token
  OBVIOUS
<1> HIDE DEF f, entry
<1>5. f.stage \in Vaulted /\ f.stage = "linking" /\ GivenTo(f, g, f.token)
  BY <1>3 DEF Linked, Vaulted
<1>6. f.token \in DOMAIN m /\ m[f.token] = Span(f).value
  BY <1>2, <1>5 DEF Meant
<1>7. Meant(m, g)
  BY <1>2, <1>5, <1>6, SpanHasValue, GivenMeant
<1>8. \A w \in Worker : VaultMeans(m, forward'[w], reverse'[w])
  <2>1. \A w \in Worker : \A e \in reverse'[w] : e \in reverse[w] \/ e = entry
    BY <1>1, <1>2 DEF Placed
  <2>2. QED
    BY <1>1, <1>4, <1>6, <2>1 DEF Agrees, VaultMeans
<1>9. Grows(m, m) /\ DOMAIN m = 1..drawn'
  BY <1>1 DEF Grows, Agrees
<1>10. \A k \in {"handle", "reference"} : held'[k] # Absent => Issued(m, held'[k])
  BY <1>1 DEF Agrees
<1>11. QED
  BY <1>2, <1>3, <1>7, <1>8, <1>9, <1>10, AgreesLater

LEMMA FinishAgrees ==
  ASSUME Base, NEW m, Agrees(m), NEW c \in Conn, NEW g, frame[c] # Absent, Goes(c, g),
         UNCHANGED <<forward, reverse, drawn>>,
         \/ Previewed(frame[c], g) \/ Compared(frame[c], g)
         \/ Executed(frame[c], g) \/ Exported(frame[c], g)
  PROVE  Agrees(m)'
<1> DEFINE f == frame[c]
<1>1. Placed /\ Shaped(f) /\ Meant(m, f)
  BY DEF Base, Agrees
<1>2. Meant(m, g) /\ Means(m, f.decision)
  BY <1>1, FinishedMeant
<1>3. f.at \in Worker /\ process[f.at] # Absent /\ DOMAIN m \subseteq Nat
  BY <1>1 DEF Shaped, Agrees
<1>4. \/ held' = held
      \/ Reference(f) # Absent
         /\ held' = [held EXCEPT !["reference"] = Grant("reference", Reference(f), f, f.decision)]
      \/ Env(f).restoreSecret # Absent
         /\ held' = [held EXCEPT !["handle"] = Grant("handle", Sealed(f), f, f.decision)]
  BY DEF Previewed, Compared, Executed, Exported
<1> HIDE DEF f
<1>5. Reference(f) # Absent => Issued(m, Grant("reference", Reference(f), f, f.decision))
  BY <1>1, <1>2, <1>3, ReferenceIsIssued
<1>6. Env(f).restoreSecret # Absent => Issued(m, Grant("handle", Sealed(f), f, f.decision))
  BY <1>1, <1>2, <1>3, HandleIsIssued
<1>7. \A k \in {"handle", "reference"} : held'[k] # Absent => Issued(m, held'[k])
  BY <1>1, <1>4, <1>5, <1>6 DEF Agrees, Placed
<1>8. /\ Grows(m, m) /\ DOMAIN m = 1..drawn'
      /\ \A w \in Worker : VaultMeans(m, forward'[w], reverse'[w])
  BY DEF Grows, Agrees
<1>9. QED
  BY <1>1, <1>2, <1>7, <1>8, AgreesLater

LEMMA ServeAgrees ==
  ASSUME Base, Sounds, NEW m, Agrees(m), NEW c \in Conn, Serve(c)
  PROVE  \E n : Agrees(n)'
<1>1. Placed /\ frame[c] # Absent /\ Shaped(frame[c]) /\ Meant(m, frame[c])
  BY ServeStep DEF Base, Agrees
<1>2. ASSUME NEW g, Goes(c, g), UNCHANGED <<forward, reverse, drawn, held>>,
             (\E bytes \in 1..frame[c].left : Received(frame[c], g, bytes))
             \/ Handled(frame[c], g) \/ Chosen(frame[c], g)
      PROVE  Agrees(m)'
  BY <1>1, <1>2, HandlingMeant, SameVault
<1>3. CASE Receive(c)
  <2>1. PICK g : /\ Goes(c, g)
                 /\ \E bytes \in 1..frame[c].left : Received(frame[c], g, bytes)
    BY <1>1, <1>3, ReceiveStep
  <2>2. UNCHANGED <<forward, reverse, drawn, held>>
    BY <1>3 DEF Receive
  <2>3. QED
    BY <1>2, <2>1, <2>2
<1>4. CASE Handle(c)
  <2>1. PICK g : Goes(c, g) /\ Handled(frame[c], g)
    BY <1>1, <1>4, HandleStep
  <2>2. UNCHANGED <<forward, reverse, drawn, held>>
    BY <1>4 DEF Handle
  <2>3. QED
    BY <1>2, <2>1, <2>2
<1>5. CASE Choose(c)
  <2>1. PICK g : Goes(c, g) /\ Chosen(frame[c], g)
    BY <1>1, <1>5, ChooseStep
  <2>2. UNCHANGED <<forward, reverse, drawn, held>>
    BY <1>5 DEF Choose
  <2>3. QED
    BY <1>2, <2>1, <2>2
<1>6. CASE LookUp(c)
  BY <1>6, LookUpAgrees
<1>7. CASE StoreForward(c)
  BY <1>7, StoreForwardAgrees
<1>8. CASE StoreReverse(c)
  BY <1>8, StoreReverseAgrees
<1>9. CASE FinishPreview(c) \/ FinishCompare(c) \/ FinishExecute(c) \/ FinishExport(c)
  <2>1. UNCHANGED <<forward, reverse, drawn>>
    BY <1>9 DEF FinishPreview, FinishCompare, FinishExecute, FinishExport
  <2>2. PICK g : /\ Goes(c, g)
                 /\ \/ Previewed(frame[c], g) \/ Compared(frame[c], g)
                    \/ Executed(frame[c], g) \/ Exported(frame[c], g)
    BY <1>1, <1>9, PreviewStep, CompareStep, ExecuteStep, ExportStep
  <2>3. QED
    BY <1>1, <2>1, <2>2, FinishAgrees
<1>10. QED
  BY <1>3, <1>4, <1>5, <1>6, <1>7, <1>8, <1>9 DEF Serve

LEMMA BroughtIsIssued ==
  ASSUME NEW m, Agrees(m), NEW route \in {"restore", "explore"}, NEW brought \in Brought(route),
         brought.sealed.intact
  PROVE  /\ brought \in {held["handle"], held["reference"]} /\ brought # Absent
         /\ Issued(m, brought)
<1> DEFINE kept == {held.handle, held.reference} \ {Absent}
<1>1. brought \in {Forged} \cup kept \cup {[g EXCEPT !.sealed = Damaged(@)] : g \in kept}
  BY DEF Brought
<1>2. \A g \in kept : Issued(m, g) /\ g \in {held["handle"], held["reference"]} /\ g # Absent
  BY DEF Agrees
<1>3. Forged.sealed.intact = FALSE
  BY DEF Forged, Garbage
<1>4. \A g \in kept : [g EXCEPT !.sealed = Damaged(@)].sealed.intact = FALSE
  BY <1>2, DamagedIsNot
<1> HIDE DEF kept
<1>5. brought \in kept
  BY <1>1, <1>3, <1>4
<1>6. QED
  BY <1>2, <1>5

LEMMA BegunBrings ==
  ASSUME NEW g, Begun(g)
  PROVE  /\ g.brought \in Brought(g.request.route) /\ g.stage \in {"reading", "done"}
         /\ g.text \in Texts(g.request.route) /\ g.handledAt = Absent
<1>1. PICK w, request, brought, text : w \in Worker /\ Arrived(w, request, brought, text, g)
  BY DEF Begun
<1> DEFINE h == Opened(w, request, brought, text)
<1>2. /\ DOMAIN h = Fields /\ h.request = request /\ h.brought = brought /\ h.text = text
      /\ h.stage = "reading" /\ h.handledAt = Absent
  BY DEF Opened, Fields
<1>3. \/ Same(h, g, {"guard", "stage"}) /\ g.stage = "done"
      \/ g = h
  BY <1>1 DEF Arrived
<1>4. brought \in Brought(request.route) /\ text \in Texts(request.route)
  BY <1>1 DEF Arrived
<1> HIDE DEF h
<1>5. QED
  BY <1>2, <1>3, <1>4 DEF Same, Fields

LEMMA AgreesStep ==
  ASSUME Base, Sounds, NEW m, Agrees(m), [Next]_vars
  PROVE  \E n : Agrees(n)'
<1>1. Placed
  BY DEF Base
<1>2. CASE UNCHANGED vars \/ Tick
  <2>1. Agrees(m)'
    BY <1>2 DEF vars, Tick, Agrees
  <2>2. QED
    BY <2>1
<1>3. ASSUME NEW w \in Worker, Start(w) PROVE \E n : Agrees(n)'
  <2>1. /\ drawn' = drawn /\ held' = held
        /\ forward' = [forward EXCEPT ![w] = {}] /\ reverse' = [reverse EXCEPT ![w] = {}]
        /\ \A c \in Conn : frame'[c] \in {Absent, frame[c]}
    BY <1>3 DEF Start
  <2>2. \A v \in Worker : VaultMeans(m, forward'[v], reverse'[v])
    BY <1>1, <2>1 DEF Agrees, VaultMeans, Placed
  <2>3. Agrees(m)'
    BY <2>1, <2>2 DEF Agrees
  <2>4. QED
    BY <2>3
<1>4. ASSUME NEW w \in Worker, NEW c \in Conn, Arrive(c, w) PROVE \E n : Agrees(n)'
  <2>1. PICK request, brought, text, g : Goes(c, g) /\ Arrived(w, request, brought, text, g)
    BY <1>4, ArriveStep
  <2>2. Begun(g)
    BY <2>1 DEF Begun
  <2>3. Meant(m, g)
    BY <2>2, BegunBrings, BroughtIsIssued DEF Meant, Vaulted
  <2>4. UNCHANGED <<forward, reverse, drawn, held>>
    BY <1>4 DEF Arrive
  <2>5. Agrees(m)'
    BY <1>1, <2>1, <2>3, <2>4, SameVault
  <2>6. QED
    BY <2>5
<1>5. ASSUME NEW c \in Conn, Serve(c) PROVE \E n : Agrees(n)'
  BY <1>5, ServeAgrees
<1>6. ASSUME NEW c \in Conn, Close(c) PROVE \E n : Agrees(n)'
  <2>1. Agrees(m)'
    BY <1>1, <1>6 DEF Close, Goes, Agrees, Placed
  <2>2. QED
    BY <2>1
<1>7. QED
  BY <1>2, <1>3, <1>4, <1>5, <1>6 DEF Next

LEMMA AgreesInit == Init => \E m : Agrees(m)
<1>1. SUFFICES ASSUME Init PROVE \E m : Agrees(m)
  OBVIOUS
<1>2. PICK m : m = [p \in 1..0 |-> 0]
  OBVIOUS
<1>3. DOMAIN m = 1..drawn
  BY <1>1, <1>2 DEF Init
<1>4. /\ \A w \in Worker : forward[w] = {} /\ reverse[w] = {}
      /\ \A c \in Conn : frame[c] = Absent
      /\ held["handle"] = Absent /\ held["reference"] = Absent
  BY <1>1 DEF Init
<1>5. Agrees(m)
  BY <1>3, <1>4 DEF Agrees, VaultMeans
<1>6. QED
  BY <1>5

-----------------------------------------------------------------------------
(* What was issued with a reference stays where its process can find it.   *)

Findable(g, processes, pairs, count) ==
    /\ g.by.id \in 1..count
    /\ \A w \in Worker : processes[w] # Absent /\ processes[w].id = g.by.id =>
         /\ processes[w] = g.by
         /\ g.kind = "reference" =>
              \A t \in g.decision.transformations : \E e \in pairs[w] :
                e.partition = g.sealed.claims.partition /\ e.pseudonym = t.transformed

Found(g) == Findable(g, process, reverse, started)

Findables ==
    /\ \A k \in {"handle", "reference"} : held[k] # Absent => Found(held[k])
    /\ \A c \in Conn : frame[c] # Absent =>
         (frame[c].request.route \in {"restore", "explore"} /\ frame[c].brought.sealed.intact =>
            Found(frame[c].brought))

LEMMA FindableLater ==
  ASSUME Base, Next, NEW g, Findable(g, process, reverse, started)
  PROVE  Findable(g, process', reverse', started')
<1>1. Placed /\ started \in Nat
  BY CampaignAssumption DEF Base, Placed
<1>2. ASSUME process' = process, started' = started,
             \A w \in Worker : process[w] # Absent => reverse[w] \subseteq reverse'[w]
      PROVE  Findable(g, process', reverse', started')
  BY <1>2 DEF Findable
<1>3. CASE Tick
  BY <1>2, <1>3 DEF Tick
<1>4. ASSUME NEW w \in Worker, Start(w) PROVE Findable(g, process', reverse', started')
  <2>1. PICK env : process' = [process EXCEPT ![w] =
                       IF ServiceBuilds(env) THEN [env |-> env, id |-> started + 1] ELSE Absent]
    BY <1>4 DEF Start
  <2>2. started' = started + 1 /\ reverse' = [reverse EXCEPT ![w] = {}]
    BY <1>4 DEF Start
  <2>3. process'[w] # Absent => process'[w].id = started + 1
    BY <1>1, <2>1 DEF Placed
  <2>4. \A v \in Worker \ {w} : process'[v] = process[v] /\ reverse'[v] = reverse[v]
    BY <1>1, <2>1, <2>2 DEF Placed
  <2>5. g.by.id \in 1..started' /\ g.by.id # started + 1
    BY <1>1, <2>2 DEF Findable
  <2>6. QED
    BY <2>3, <2>4, <2>5 DEF Findable
<1>5. ASSUME NEW w \in Worker, NEW c \in Conn, Arrive(c, w)
      PROVE  Findable(g, process', reverse', started')
  BY <1>2, <1>5 DEF Arrive
<1>6. ASSUME NEW c \in Conn, Serve(c) PROVE Findable(g, process', reverse', started')
  <2>1. process' = process /\ started' = started
    BY <1>6, ServeStep
  <2>2. reverse' = reverse \/ \E v, e : reverse' = [reverse EXCEPT ![v] = @ \cup {e}]
    BY <1>6 DEF Serve, Receive, Handle, Choose, LookUp, StoreForward, StoreReverse, FinishPreview,
                FinishCompare, FinishExecute, FinishExport
  <2>3. \A w \in Worker : reverse[w] \subseteq reverse'[w]
    BY <1>1, <2>2 DEF Placed
  <2>4. QED
    BY <1>2, <2>1, <2>3
<1>7. ASSUME NEW c \in Conn, Close(c) PROVE Findable(g, process', reverse', started')
  BY <1>2, <1>7 DEF Close
<1>8. QED
  BY <1>3, <1>4, <1>5, <1>6, <1>7 DEF Next

LEMMA GrantIsFindable ==
  ASSUME Placed, NEW f, f.at \in Worker, process[f.at] # Absent, NEW g, g.by = process[f.at],
         g.kind = "reference" =>
           \A t \in g.decision.transformations : \E e \in reverse[f.at] :
             e.partition = g.sealed.claims.partition /\ e.pseudonym = t.transformed
  PROVE  Found(g)
BY DEF Placed, Found, Findable

LEMMA HeldStep ==
  ASSUME Base, Next, NEW m, Agrees(m), NEW k \in {"handle", "reference"}
  PROVE  \/ held'[k] = held[k]
         \/ /\ Found(held'[k])
            /\ UNCHANGED <<process, reverse, started>>
<1>1. Placed
  BY DEF Base
<1>2. CASE Tick \/ (\E w \in Worker : Start(w) \/ \E c \in Conn : Arrive(c, w))
           \/ \E c \in Conn : Close(c)
  BY <1>2 DEF Tick, Start, Arrive, Close
<1>3. ASSUME NEW c \in Conn, Serve(c)
      PROVE  \/ held'[k] = held[k]
             \/ Found(held'[k]) /\ UNCHANGED <<process, reverse, started>>
  <2> DEFINE f == frame[c]
             handle == Grant("handle", Sealed(f), f, f.decision)
             reference == Grant("reference", Reference(f), f, f.decision)
  <2>1. /\ Shaped(f) /\ Meant(m, f) /\ frame[c] # Absent
        /\ process' = process /\ started' = started
    BY <1>3, ServeStep DEF Base, Agrees
  <2>2. CASE Receive(c) \/ Handle(c) \/ Choose(c) \/ LookUp(c) \/ StoreForward(c)
             \/ StoreReverse(c) \/ FinishCompare(c) \/ FinishExecute(c)
    BY <2>2 DEF Receive, Handle, Choose, LookUp, StoreForward, StoreReverse, FinishCompare,
                FinishExecute
  <2>3. f.at \in Worker /\ process[f.at] # Absent /\ DOMAIN m \subseteq Nat
    BY <2>1 DEF Shaped, Agrees
  <2>4. CASE FinishPreview(c)
    <3>1. PICK g : Goes(c, g) /\ Previewed(f, g)
      BY <2>1, <2>4, PreviewStep
    <3>2. reverse' = reverse
      BY <2>4 DEF FinishPreview
    <3> HIDE DEF f
    <3>3. held' = held \/ (Reference(f) # Absent /\ held' = [held EXCEPT !["reference"] = reference])
      BY <3>1 DEF Previewed
    <3>4. Means(m, f.decision)
      BY <2>1, <3>1, FinishedMeant
    <3>5. ASSUME Reference(f) # Absent PROVE Found(reference)
      <4>1. \A t \in reference.decision.transformations : \E e \in reverse[f.at] :
              e.partition = reference.sealed.claims.partition /\ e.pseudonym = t.transformed
        BY <1>1, <2>3, <3>4, <3>5, ReferenceIsIssued
      <4>2. reference.by = process[f.at]
        BY Granted
      <4> HIDE DEF reference
      <4>3. QED
        BY <1>1, <2>3, <4>1, <4>2, GrantIsFindable
    <3> HIDE DEF reference
    <3>6. QED
      BY <1>1, <2>1, <3>2, <3>3, <3>5 DEF Placed
  <2>5. CASE FinishExport(c)
    <3>1. PICK g : Goes(c, g) /\ Exported(f, g)
      BY <2>1, <2>5, ExportStep
    <3>2. reverse' = reverse
      BY <2>5 DEF FinishExport
    <3> HIDE DEF f
    <3>3. held' = held \/ held' = [held EXCEPT !["handle"] = handle]
      BY <3>1 DEF Exported
    <3>4. handle.by = process[f.at] /\ handle.kind = "handle"
      BY Granted
    <3> HIDE DEF handle
    <3>5. Found(handle)
      BY <1>1, <2>3, <3>4, GrantIsFindable
    <3>6. QED
      BY <1>1, <2>1, <3>2, <3>3, <3>5 DEF Placed
  <2>6. QED
    BY <1>3, <2>2, <2>4, <2>5 DEF Serve
<1>4. QED
  BY <1>2, <1>3 DEF Next

LEMMA FindablesStep ==
  ASSUME Base, NEW m, Agrees(m), Findables, [Next]_vars
  PROVE  Findables'
<1>1. CASE UNCHANGED vars
  BY <1>1 DEF vars, Findables, Found, Findable
<1>2. CASE Next
  <2>1. ASSUME NEW k \in {"handle", "reference"}, held'[k] # Absent
        PROVE  Findable(held'[k], process', reverse', started')
    <3>1. CASE held'[k] = held[k]
      <4>1. Findable(held[k], process, reverse, started)
        BY <2>1, <3>1 DEF Findables, Found
      <4>2. QED
        BY <1>2, <3>1, <4>1, FindableLater
    <3>2. CASE Found(held'[k]) /\ UNCHANGED <<process, reverse, started>>
      BY <3>2 DEF Found
    <3>3. QED
      BY <1>2, <3>1, <3>2, HeldStep
  <2>2. ASSUME NEW c \in Conn, frame'[c] # Absent,
               frame'[c].request.route \in {"restore", "explore"}, frame'[c].brought.sealed.intact
        PROVE  Findable(frame'[c].brought, process', reverse', started')
    <3>1. SUFFICES ASSUME TRUE
                   PROVE  Findable(frame'[c].brought, process, reverse, started)
      BY <1>2, FindableLater
    <3>2. \/ frame'[c] = frame[c]
          \/ Begun(frame'[c])
          \/ frame[c] # Absent /\ Moved(frame[c], frame'[c])
      BY <1>2, <2>2, FrameStep
    <3>3. CASE frame'[c] = frame[c]
      BY <2>2, <3>3 DEF Findables, Found
    <3>4. CASE Begun(frame'[c])
      <4>1. frame'[c].brought \in Brought(frame'[c].request.route)
        BY <3>4, BegunBrings
      <4>2. /\ frame'[c].brought \in {held["handle"], held["reference"]}
            /\ frame'[c].brought # Absent
        BY <2>2, <4>1, BroughtIsIssued
      <4>3. QED
        BY <4>2 DEF Findables, Found
    <3>5. CASE frame[c] # Absent /\ Moved(frame[c], frame'[c])
      <4>1. frame'[c].request = frame[c].request /\ frame'[c].brought = frame[c].brought
        BY <3>5, MovedStaysPut
      <4>2. QED
        BY <2>2, <3>5, <4>1 DEF Findables, Found
    <3>6. QED
      BY <3>2, <3>3, <3>4, <3>5
  <2>3. QED
    BY <2>1, <2>2 DEF Findables, Found
<1>3. QED
  BY <1>1, <1>2

-----------------------------------------------------------------------------
(* The whole invariant.                                                    *)

Whole == Base /\ Sounds /\ (\E m : Agrees(m)) /\ Findables

LEMMA WholeSpec == Spec => []Whole
<1>1. Init => Whole
  <2>1. SUFFICES ASSUME Init PROVE Whole
    OBVIOUS
  <2>2. /\ \A c \in Conn : frame[c] = Absent
        /\ held["handle"] = Absent /\ held["reference"] = Absent
    BY <2>1 DEF Init
  <2>3. Sounds
    BY <2>2 DEF Sounds
  <2>4. Findables
    BY <2>2 DEF Findables
  <2>5. QED
    BY <2>1, <2>3, <2>4, InitBase, AgreesInit DEF Whole
<1>2. Whole /\ [Next]_vars => Whole'
  <2>1. SUFFICES ASSUME Base, Sounds, NEW m, Agrees(m), Findables, [Next]_vars
                 PROVE  Base' /\ Sounds' /\ (\E n : Agrees(n)') /\ Findables'
    BY DEF Whole
  <2>2. Base' /\ Sounds'
    BY <2>1, BaseStep, SoundsStep
  <2>3. \E n : Agrees(n)'
    BY <2>1, AgreesStep
  <2>4. Findables'
    BY <2>1, FindablesStep
  <2>5. QED
    BY <2>2, <2>3, <2>4
<1>3. QED
  BY <1>1, <1>2, PTL DEF Spec

(* Every part of the state has its shape, and no exchange is without the   *)
(* process that serves it (api/app.py, application/service.py).            *)
THEOREM TypeCorrect == Spec => []TypeOK
<1>1. Whole => TypeOK
  <2>1. SUFFICES ASSUME Base, Sounds, NEW m, Agrees(m) PROVE TypeOK
    BY DEF Whole
  <2>2. Placed
    BY <2>1 DEF Base
  <2>3. \A w \in Worker : \A e \in forward[w] \cup reverse[w] : e.pseudonym \in 1..drawn
    BY <2>1 DEF Agrees, VaultMeans
  <2>4. ASSUME NEW c \in Conn, frame[c] # Absent
        PROVE  /\ process[frame[c].at] # Absent
               /\ frame[c].request \in campaign.requests
               /\ frame[c].stage \in {"reading", "handling", "deciding", "looking", "storing",
                                      "linking", "decided", "done"}
               /\ frame[c].stage \in {"storing", "linking"} <=> frame[c].token # Absent
               /\ frame[c].wanted # {} <=> frame[c].stage \in {"looking", "storing", "linking"}
    <3>1. Shaped(frame[c]) /\ Underway(frame[c])
      BY <2>1, <2>4 DEF Base, Sounds, Sound
    <3>2. QED
      BY <3>1 DEF Shaped, Underway, Stages, Vaulted
  <2>5. QED
    BY <2>2, <2>3, <2>4 DEF TypeOK, Placed
<1>2. QED
  BY <1>1, WholeSpec, PTL

-----------------------------------------------------------------------------
(* What the answers of the two handlers that open an envelope tell, for a  *)
(* frame whose process is home.                                            *)

RestoreTells(f, home) ==
    LET g == f.brought
        secret == home.env.restoreSecret
        mine == /\ secret # Absent /\ g.kind = "handle" /\ g.sealed.intact
                /\ g.by.env.restoreSecret = secret
        ttl == HandleTTL(g.by.env)
        sent == {t.transformed : t \in g.decision.transformations}
    IN  /\ Status(f) = 503 <=> secret = Absent
        /\ Status(f) = 200 =>
             /\ mine /\ f.handledAt <= g.at + ttl * Second
             /\ \A t \in g.decision.transformations :
                  Bare(t.transformed) \in f.text => f.view[Bare(t.transformed)] = t.original
             /\ \A token \in f.text :
                  token.pseudonym \notin sent \/ Bare(token.pseudonym) \notin f.text =>
                    f.view[token] = Absent
        /\ mine /\ f.handledAt <= g.at + (ttl - 1) * Second => Status(f) = 200

ExploreTells(f, home) ==
    LET g == f.brought
        mine == /\ Enabled(home.env.explorer) /\ g.kind = "reference" /\ g.sealed.intact
                /\ g.by = home
    IN  /\ Status(f) = 404 <=> ~Enabled(home.env.explorer)
        /\ Status(f) = 200 =>
             /\ mine /\ f.handledAt <= g.at + ExplorerTTL * Second
             /\ g.decision.status = "allowed"
             /\ f.view = {[category |-> t.category, pseudonym |-> t.transformed,
                           original |-> t.original] : t \in g.decision.transformations}
        /\ mine /\ f.handledAt <= g.at + (ExplorerTTL - 1) * Second => Status(f) = 200

Tells(f, home) ==
    f.stage = "done" /\ f.handledAt # Absent /\ f.request.valid =>
      /\ f.request.route = "restore" => RestoreTells(f, home)
      /\ f.request.route = "explore" => ExploreTells(f, home)

(* A handle opens where its secret is known, and for its lifetime.         *)
HandleFits(m, g, secret, time) ==
    LET mine == /\ secret # Absent /\ g.kind = "handle" /\ g.sealed.intact
                /\ g.by.env.restoreSecret = secret
        verdict == HandleVerdict(g.sealed, secret, time)
        ttl == HandleTTL(g.by.env)
    IN  /\ verdict = "unavailable" <=> secret = Absent
        /\ verdict = "ok" => /\ mine /\ HandleIssued(g) /\ Means(m, g.decision)
                             /\ time <= g.at + ttl * Second
        /\ mine /\ time <= g.at + (ttl - 1) * Second => verdict = "ok"

LEMMA HandleOpens ==
  ASSUME NEW m, NEW g, g.sealed.intact => Issued(m, g), NEW secret, NEW time \in Nat
  PROVE  HandleFits(m, g, secret, time)
<1> DEFINE mine == /\ secret # Absent /\ g.kind = "handle" /\ g.sealed.intact
                   /\ g.by.env.restoreSecret = secret
           verdict == HandleVerdict(g.sealed, secret, time)
           ttl == HandleTTL(g.by.env)
<1>1. verdict = "unavailable" <=> secret = Absent
  BY DEF HandleVerdict
<1>2. verdict = "ok" <=> /\ secret # Absent /\ Authentic(g.sealed, "rh1", DerivedKey(secret))
                         /\ ~Expired(g.sealed.claims, time)
  BY DEF HandleVerdict
<1>3. \A s, t : DerivedKey(s) = DerivedKey(t) => s = t
  <2>1. \A s : DerivedKey(s).of = s
    BY DEF DerivedKey
  <2>2. QED
    BY <2>1
<1>4. ASSUME g.sealed.intact, HandleIssued(g), g.at \in Nat
      PROVE  /\ ~Expired(g.sealed.claims, time) => time <= g.at + ttl * Second
             /\ time <= g.at + (ttl - 1) * Second => ~Expired(g.sealed.claims, time)
  <2>1. ttl \in Nat /\ g.sealed.claims.exp = Expiry(g.at, ttl)
    BY <1>4 DEF HandleIssued
  <2> HIDE DEF ttl
  <2>2. QED
    BY <1>4, <2>1, WindowIsWhole
<1>5. ASSUME verdict = "ok"
      PROVE  mine /\ HandleIssued(g) /\ Means(m, g.decision) /\ g.at \in Nat
  <2>1. /\ secret # Absent /\ g.sealed.prefix = "rh1" /\ g.sealed.intact
        /\ g.sealed.key = DerivedKey(secret)
    BY <1>2, <1>5 DEF Authentic
  <2>2. HandleIssued(g) /\ Means(m, g.decision) /\ g.at \in Nat
    BY <2>1 DEF Issued, ReferenceIssued
  <2>3. g.by.env.restoreSecret = secret
    BY <1>3, <2>1, <2>2 DEF HandleIssued
  <2>4. QED
    BY <2>1, <2>2, <2>3 DEF HandleIssued
<1>6. ASSUME mine, time <= g.at + (ttl - 1) * Second PROVE verdict = "ok"
  <2>1. HandleIssued(g) /\ g.at \in Nat
    BY <1>6 DEF Issued, ReferenceIssued
  <2>2. Authentic(g.sealed, "rh1", DerivedKey(secret))
    BY <1>6, <2>1 DEF Authentic, HandleIssued
  <2>3. ~Expired(g.sealed.claims, time)
    BY <1>4, <1>6, <2>1
  <2>4. QED
    BY <1>2, <1>6, <2>2, <2>3
<1>7. verdict = "ok" => time <= g.at + ttl * Second
  BY <1>2, <1>4, <1>5
<1>8. QED
  BY <1>1, <1>5, <1>6, <1>7 DEF HandleFits

(* The entries of a handle restore what they are for and nothing else.     *)
LEMMA RestoredAsMeant ==
  ASSUME NEW m, NEW decision, Means(m, decision), NEW text
  PROVE  LET view == Restored(text, Entries(decision))
             sent == {t.transformed : t \in decision.transformations}
         IN  /\ \A t \in decision.transformations :
                  Bare(t.transformed) \in text => view[Bare(t.transformed)] = t.original
             /\ \A token \in text :
                  token.pseudonym \notin sent \/ Bare(token.pseudonym) \notin text =>
                    view[token] = Absent
<1> DEFINE entries == Entries(decision)
           view == Restored(text, entries)
           sent == {t.transformed : t \in decision.transformations}
<1>1. DOMAIN entries = sent
  BY DEF Entries
<1>2. \A t \in decision.transformations : entries[t.transformed] = t.original
  <2>1. SUFFICES ASSUME NEW t \in decision.transformations
                 PROVE  entries[t.transformed] = t.original
    OBVIOUS
  <2>2. PICK u : /\ u = CHOOSE v \in decision.transformations : v.transformed = t.transformed
                 /\ TRUE
    OBVIOUS
  <2>3. u \in decision.transformations /\ u.transformed = t.transformed
    BY <2>2
  <2>4. entries[t.transformed] = u.original
    BY <2>2 DEF Entries
  <2>5. QED
    BY <2>3, <2>4 DEF Means
<1>3. \A p : Bare(p).pseudonym = p
  BY DEF Bare
<1> HIDE DEF entries
<1>4. \A token \in text :
        view[token] = IF token.pseudonym \in DOMAIN entries /\ Bare(token.pseudonym) \in text
                      THEN entries[token.pseudonym] ELSE Absent
  BY DEF Restored, Resolvable
<1> HIDE DEF view, sent
<1>5. \A t \in decision.transformations : t.transformed \in sent
  BY DEF sent
<1>6. \A t \in decision.transformations :
        Bare(t.transformed) \in text => view[Bare(t.transformed)] = t.original
  BY <1>1, <1>2, <1>3, <1>4, <1>5
<1>7. \A token \in text :
        token.pseudonym \notin sent \/ Bare(token.pseudonym) \notin text => view[token] = Absent
  BY <1>1, <1>4
<1>8. QED
  BY <1>6, <1>7 DEF view, sent, entries

LEMMA HandledRestores ==
  ASSUME now \in Nat, NEW m, NEW f, NEW g, Handled(f, g), Guarded(f), Meant(m, f),
         g.stage = "done", f.request.route = "restore", f.request.valid
  PROVE  RestoreTells(g, process[f.at])
<1> DEFINE b == f.brought
           secret == Env(f).restoreSecret
           verdict == HandleVerdict(b.sealed, secret, now)
           mine == /\ secret # Absent /\ b.kind = "handle" /\ b.sealed.intact
                   /\ b.by.env.restoreSecret = secret
           ttl == HandleTTL(b.by.env)
<1>1. RestoredTo(f, g) /\ g.handledAt = now
  BY DEF Handled
<1>2. g.brought = b /\ g.text = f.text
  BY MovedStaysPut DEF Moved
<1>3. b.sealed.intact => Issued(m, b)
  BY DEF Meant
<1>4. \A status : g.guard = Send(f.guard, status) => Status(g) = status
  <2>1. Idle(f.guard, f.request.size - f.left)
    BY DEF Handled, Guarded
  <2>2. \A status : g.guard = Send(f.guard, status) => g.guard.wire = <<status>>
    BY <2>1, OneAnswer
  <2>3. QED
    BY <2>2 DEF Status
<1> HIDE DEF b, secret
<1>5. /\ verdict = "unavailable" <=> secret = Absent
      /\ verdict = "ok" => /\ mine /\ HandleIssued(b) /\ Means(m, b.decision)
                           /\ now <= b.at + ttl * Second
      /\ mine /\ now <= b.at + (ttl - 1) * Second => verdict = "ok"
  <2>1. HandleFits(m, b, secret, now)
    BY <1>3, HandleOpens
  <2>2. QED
    BY <2>1 DEF HandleFits
<1>6. /\ verdict = "unavailable" => Status(g) = 503
      /\ verdict \notin {"unavailable", "ok"} => Status(g) = 400
      /\ verdict = "ok" => /\ Status(g) = 200
                           /\ g.view = Restored(g.text, b.sealed.claims.entries)
  BY <1>1, <1>2, <1>4 DEF RestoredTo, b, secret
<1> HIDE DEF verdict, mine, ttl
<1>7. /\ Status(g) = 503 <=> secret = Absent
      /\ Status(g) = 200 <=> verdict = "ok"
  BY <1>5, <1>6
<1>8. ASSUME verdict = "ok"
      PROVE  /\ \A t \in b.decision.transformations :
                  Bare(t.transformed) \in g.text => g.view[Bare(t.transformed)] = t.original
             /\ \A token \in g.text :
                  \/ token.pseudonym \notin {t.transformed : t \in b.decision.transformations}
                  \/ Bare(token.pseudonym) \notin g.text
                  => g.view[token] = Absent
  <2>1. g.view = Restored(g.text, Entries(b.decision))
    BY <1>5, <1>6, <1>8 DEF HandleIssued
  <2>2. QED
    BY <1>5, <1>8, <2>1, RestoredAsMeant
<1>9. QED
  BY <1>1, <1>2, <1>5, <1>7, <1>8 DEF RestoreTells, mine, ttl, secret, Env

(* A reference opens in the process it comes from, and for its lifetime.   *)
ReferenceFits(m, g, home, time) ==
    LET opens == Opens(g.sealed, home.id, time)
    IN  /\ opens => /\ g.kind = "reference" /\ g.sealed.intact /\ g.by = home
                    /\ ReferenceIssued(g) /\ Means(m, g.decision)
                    /\ time <= g.at + ExplorerTTL * Second
        /\ g.kind = "reference" /\ g.sealed.intact /\ g.by = home
             /\ time <= g.at + (ExplorerTTL - 1) * Second => opens

LEMMA ReferenceOpens ==
  ASSUME NEW m, NEW g, g.sealed.intact => Issued(m, g), NEW time \in Nat, NEW home,
         g.sealed.intact /\ home.id = g.by.id => home = g.by
  PROVE  ReferenceFits(m, g, home, time)
<1> DEFINE opens == Opens(g.sealed, home.id, time)
<1>1. opens <=> /\ Authentic(g.sealed, "vx1", home.id) /\ ~Expired(g.sealed.claims, time)
  BY DEF Opens
<1>2. ASSUME g.sealed.intact, ReferenceIssued(g), g.at \in Nat
      PROVE  /\ ~Expired(g.sealed.claims, time) => time <= g.at + ExplorerTTL * Second
             /\ time <= g.at + (ExplorerTTL - 1) * Second => ~Expired(g.sealed.claims, time)
  <2>1. g.sealed.claims.exp = Expiry(g.at, ExplorerTTL) /\ ExplorerTTL \in Nat
    BY <1>2, SealedAssumption DEF ReferenceIssued
  <2>2. QED
    BY <1>2, <2>1, WindowIsWhole
<1>3. ASSUME opens
      PROVE  /\ g.kind = "reference" /\ g.sealed.intact /\ g.by = home
             /\ ReferenceIssued(g) /\ Means(m, g.decision) /\ g.at \in Nat
  <2>1. g.sealed.prefix = "vx1" /\ g.sealed.intact /\ g.sealed.key = home.id
    BY <1>1, <1>3 DEF Authentic
  <2>2. ReferenceIssued(g) /\ Means(m, g.decision) /\ g.at \in Nat
    BY <2>1 DEF Issued, HandleIssued
  <2>3. QED
    BY <2>1, <2>2 DEF ReferenceIssued
<1>4. ASSUME g.kind = "reference", g.sealed.intact, g.by = home,
             time <= g.at + (ExplorerTTL - 1) * Second
      PROVE  opens
  <2>1. ReferenceIssued(g) /\ g.at \in Nat
    BY <1>4 DEF Issued, HandleIssued
  <2>2. Authentic(g.sealed, "vx1", home.id)
    BY <1>4, <2>1 DEF Authentic, ReferenceIssued
  <2>3. QED
    BY <1>1, <1>2, <1>4, <2>1, <2>2
<1>5. opens => time <= g.at + ExplorerTTL * Second
  BY <1>1, <1>2, <1>3
<1>6. QED
  BY <1>3, <1>4, <1>5 DEF ReferenceFits

(* What it shows is what its result pseudonymized.                         *)
FullyResolves(m, g, pairs) ==
    /\ Means(m, g.decision) /\ ReferenceIssued(g)
    /\ \A e \in pairs : e.pseudonym \in DOMAIN m /\ e.value = m[e.pseudonym]
    /\ \A t \in g.decision.transformations : \E e \in pairs :
         e.partition = g.sealed.claims.partition /\ e.pseudonym = t.transformed

LEMMA ExploredAsMeant ==
  ASSUME NEW m, NEW g, NEW pairs, FullyResolves(m, g, pairs)
  PROVE  Explored(g.sealed, pairs) =
           {[category |-> t.category, pseudonym |-> t.transformed, original |-> t.original] :
              t \in g.decision.transformations}
<1> DEFINE shown == g.decision.transformations
           partition == g.sealed.claims.partition
           entry(t) == [pseudonym |-> t.transformed, category |-> t.category]
           row(e) == [category |-> e.category, pseudonym |-> e.pseudonym,
                      original |-> Lookup(pairs, partition, e.pseudonym)]
           want(t) == [category |-> t.category, pseudonym |-> t.transformed,
                       original |-> t.original]
<1>1. \A t \in shown : Lookup(pairs, partition, t.transformed) = t.original
  <2>1. SUFFICES ASSUME NEW t \in shown
                 PROVE  Lookup(pairs, partition, t.transformed) = t.original
    OBVIOUS
  <2> DEFINE found == {e \in pairs : e.partition = partition /\ e.pseudonym = t.transformed}
  <2>2. found # {}
    BY DEF FullyResolves
  <2>3. \A e \in found : e.value = t.original
    BY DEF FullyResolves, Means
  <2>4. Lookup(pairs, partition, t.transformed) = (CHOOSE e \in found : TRUE).value
    BY <2>2 DEF Lookup
  <2> HIDE DEF found
  <2>5. QED
    BY <2>2, <2>3, <2>4
<1>2. \A t \in shown : row(entry(t)) = want(t)
  BY <1>1
<1>3. Explored(g.sealed, pairs) = {row(e) : e \in {entry(t) : t \in shown}}
  BY DEF Explored, ReferenceIssued, FullyResolves
<1> HIDE DEF row, entry, want
<1>4. {row(e) : e \in {entry(t) : t \in shown}} = {want(t) : t \in shown}
  BY <1>2
<1>5. QED
  BY <1>3, <1>4 DEF want

LEMMA HandledExplores ==
  ASSUME now \in Nat, NEW m, NEW f, NEW g, Handled(f, g), Guarded(f), Meant(m, f),
         f.at \in Worker, process[f.at] # Absent, VaultMeans(m, forward[f.at], reverse[f.at]),
         f.brought.sealed.intact /\ f.request.route = "explore" => Found(f.brought),
         g.stage = "done", f.request.route = "explore", f.request.valid
  PROVE  ExploreTells(g, process[f.at])
<1> DEFINE b == f.brought
           home == process[f.at]
           opens == Opens(b.sealed, home.id, now)
           enabled == Enabled(home.env.explorer)
<1>1. ExploredTo(f, g) /\ g.handledAt = now
  BY DEF Handled
<1>2. g.brought = b
  BY MovedStaysPut DEF Moved
<1>3. b.sealed.intact => Issued(m, b)
  BY DEF Meant
<1>4. \A status : g.guard = Send(f.guard, status) => Status(g) = status
  <2>1. Idle(f.guard, f.request.size - f.left)
    BY DEF Handled, Guarded
  <2>2. \A status : g.guard = Send(f.guard, status) => g.guard.wire = <<status>>
    BY <2>1, OneAnswer
  <2>3. QED
    BY <2>2 DEF Status
<1>5. b.sealed.intact /\ home.id = b.by.id =>
        /\ home = b.by
        /\ b.kind = "reference" =>
             \A t \in b.decision.transformations : \E e \in reverse[f.at] :
               e.partition = b.sealed.claims.partition /\ e.pseudonym = t.transformed
  BY DEF Found, Findable
<1>6. /\ ~enabled => Status(g) = 404
      /\ enabled /\ ~opens => Status(g) = 400
      /\ enabled /\ opens => Status(g) = 200 /\ g.view = Explored(b.sealed, reverse[f.at])
  BY <1>1, <1>4 DEF ExploredTo, Env
<1> HIDE DEF b, home
<1>7. ReferenceFits(m, b, home, now)
  BY <1>3, <1>5, ReferenceOpens
<1>8. /\ opens => /\ b.kind = "reference" /\ b.sealed.intact /\ b.by = home
                  /\ ReferenceIssued(b) /\ Means(m, b.decision)
                  /\ now <= b.at + ExplorerTTL * Second
      /\ b.kind = "reference" /\ b.sealed.intact /\ b.by = home
           /\ now <= b.at + (ExplorerTTL - 1) * Second => opens
  BY <1>7 DEF ReferenceFits
<1> HIDE DEF opens, enabled
<1>9. /\ Status(g) = 404 <=> ~enabled
      /\ Status(g) = 200 <=> enabled /\ opens
  BY <1>6
<1>10. ASSUME enabled, opens
       PROVE  g.view = {[category |-> t.category, pseudonym |-> t.transformed,
                         original |-> t.original] : t \in b.decision.transformations}
  <2>1. \A e \in reverse[f.at] : e.pseudonym \in DOMAIN m /\ e.value = m[e.pseudonym]
    BY DEF VaultMeans
  <2>2. \A t \in b.decision.transformations : \E e \in reverse[f.at] :
          e.partition = b.sealed.claims.partition /\ e.pseudonym = t.transformed
    BY <1>5, <1>8, <1>10
  <2>3. g.view = Explored(b.sealed, reverse[f.at])
    BY <1>6, <1>10
  <2>4. Means(m, b.decision) /\ ReferenceIssued(b)
    BY <1>8, <1>10
  <2>5. FullyResolves(m, b, reverse[f.at])
    BY <2>1, <2>2, <2>4 DEF FullyResolves
  <2>6. QED
    BY <2>3, <2>5, ExploredAsMeant
<1>11. opens => b.decision.status = "allowed"
  BY <1>8 DEF ReferenceIssued
<1>12. ExploreTells(g, home)
  BY <1>1, <1>2, <1>8, <1>9, <1>10, <1>11 DEF ExploreTells, enabled
<1>13. QED
  BY <1>12 DEF home

(* The invariant of the two handlers.                                      *)
Told == \A c \in Conn : frame[c] # Absent => Tells(frame[c], process[frame[c].at])

LEMMA MovedTells ==
  ASSUME Base, Sounds, NEW m, Agrees(m), Findables, NEW c \in Conn, frame[c] # Absent,
         NEW g, Moved(frame[c], g)
  PROVE  Tells(g, process[frame[c].at])
<1> DEFINE f == frame[c]
<1>1. /\ Sound(f) /\ Shaped(f) /\ Placed /\ Meant(m, f)
      /\ VaultMeans(m, forward[f.at], reverse[f.at])
      /\ f.request.route \in {"restore", "explore"} /\ f.brought.sealed.intact =>
           Found(f.brought)
  BY DEF Base, Sounds, Shaped, Agrees, Findables
<1> HIDE DEF f
<1>2. SUFFICES ASSUME g.stage = "done", g.handledAt # Absent, g.request.valid,
                      g.request.route \in {"restore", "explore"}
               PROVE  /\ g.request.route = "restore" => RestoreTells(g, process[f.at])
                      /\ g.request.route = "explore" => ExploreTells(g, process[f.at])
  BY DEF Tells, f
<1>3. Moved(f, g) /\ g.request = f.request
  BY MovedStaysPut DEF f
<1>4. now \in Nat
  BY <1>1, CampaignAssumption DEF Placed
<1>5. CASE Handled(f, g)
  <2>1. g.request.route = "restore" => RestoreTells(g, process[f.at])
    BY <1>1, <1>2, <1>3, <1>4, <1>5, HandledRestores DEF Sound
  <2>2. g.request.route = "explore" => ExploreTells(g, process[f.at])
    <3>1. f.at \in Worker /\ process[f.at] # Absent /\ Guarded(f)
      BY <1>1 DEF Shaped, Sound
    <3>2. QED
      BY <1>1, <1>2, <1>3, <1>4, <1>5, <3>1, HandledExplores
  <2>3. QED
    BY <2>1, <2>2
<1>6. CASE \E bytes \in 1..f.left : Received(f, g, bytes)
  <2>1. f.stage = "reading" /\ g.handledAt = f.handledAt
    BY <1>6 DEF Received, Same, Fields
  <2>2. f.handledAt = Absent
    BY <1>1, <2>1 DEF Sound, Underway
  <2>3. QED
    BY <1>2, <2>1, <2>2
<1>7. CASE \/ Chosen(f, g) \/ LookedUp(f, g) \/ StoredForward(f, g) \/ Linked(f, g)
  <2>1. g.stage # "done"
    BY <1>7 DEF Chosen, Concluded, LookedUp, StoredForward, Linked, GivenTo
  <2>2. QED
    BY <1>2, <2>1
<1>8. CASE Previewed(f, g) \/ Compared(f, g) \/ Executed(f, g) \/ Exported(f, g)
  BY <1>2, <1>3, <1>8 DEF Previewed, Compared, Executed, Exported, Previews
<1>9. QED
  BY <1>3, <1>5, <1>6, <1>7, <1>8 DEF Moved

LEMMA ToldStep ==
  ASSUME Whole, Told, [Next]_vars
  PROVE  Told'
<1>1. CASE UNCHANGED vars
  BY <1>1 DEF vars, Told
<1>2. CASE Next
  <2>1. PICK m : Agrees(m)
    BY DEF Whole
  <2>2. SUFFICES ASSUME NEW c \in Conn, frame'[c] # Absent
                 PROVE  Tells(frame'[c], process'[frame'[c].at])
    BY DEF Told
  <2>3. /\ process'[frame'[c].at] = process[frame'[c].at]
        /\ \/ frame'[c] = frame[c]
           \/ Begun(frame'[c])
           \/ frame[c] # Absent /\ Moved(frame[c], frame'[c])
    BY <1>2, <2>2, FrameStep DEF Whole
  <2>4. CASE frame'[c] = frame[c]
    BY <2>2, <2>3, <2>4 DEF Told
  <2>5. CASE Begun(frame'[c])
    <3>1. frame'[c].handledAt = Absent
      BY <2>5, BegunBrings
    <3>2. QED
      BY <3>1 DEF Tells
  <2>6. CASE frame[c] # Absent /\ Moved(frame[c], frame'[c])
    <3>1. frame'[c].at = frame[c].at
      BY <2>6, MovedStaysPut
    <3>2. QED
      BY <2>1, <2>3, <2>6, <3>1, MovedTells DEF Whole
  <2>7. QED
    BY <2>3, <2>4, <2>5, <2>6
<1>3. QED
  BY <1>1, <1>2

LEMMA ToldSpec == Spec => [](Whole /\ Told)
<1>1. Init => Told
  BY DEF Init, Told
<1>2. QED
  BY <1>1, ToldStep, WholeSpec, PTL DEF Spec

(* A handle restores its export and nothing else, for as long as it is     *)
(* said to, at every process that knows its secret                         *)
(* (application/restore_handle.py).                                        *)
THEOREM RestoresAreTrue == Spec => []RestoreRoundTrips
<1>1. Told => RestoreRoundTrips
  <2>1. SUFFICES ASSUME Told, NEW f \in Done("restore"), f.handledAt # Absent, f.request.valid
                 PROVE  RestoreTells(f, process[f.at])
    BY DEF RestoreRoundTrips, RestoreTells, Env
  <2>2. QED
    BY <2>1 DEF Done, Told, Tells
<1>2. QED
  BY <1>1, ToldSpec, PTL

(* The explorer shows what the result of its reference pseudonymized, all  *)
(* of it and nothing else, and only in the process that showed the result  *)
(* (application/vault_explorer.py).                                        *)
THEOREM ExplorerConfined == Spec => []ExplorerIsConfined
<1>1. Told => ExplorerIsConfined
  <2>1. SUFFICES ASSUME Told, NEW f \in Done("explore"), f.handledAt # Absent, f.request.valid
                 PROVE  ExploreTells(f, process[f.at])
    BY DEF ExplorerIsConfined, ExploreTells, Env
  <2>2. QED
    BY <2>1 DEF Done, Told, Tells
<1>2. QED
  BY <1>1, ToldSpec, PTL
=============================================================================
