----------------------------- MODULE GuidedFlow -----------------------------
(***************************************************************************)
(* The guided flow of the web client: the reducer of web/lib/flow.ts, the  *)
(* requests GuidedFlow.tsx makes for it, and the browser's history, which  *)
(* it writes and which the user moves through at any time.                 *)
(*                                                                         *)
(* A flow state has three lives: latest is what the queued updates amount  *)
(* to, shown is what React has committed (and the popstate listener reads),*)
(* and a history entry names a snapshot of one.  A click or a popstate is  *)
(* committed, effects included, before the next event; the answer to a     *)
(* request changes latest, is rendered later, and the effect that writes   *)
(* the history runs later still (due).                                     *)
(*                                                                         *)
(* Errors shown beside a screen, and what the client loads once (examples, *)
(* document types, health, features), are left out; the document types     *)
(* are known before the first Compose.  React runs the effect of an answer *)
(* right after painting: what the user does next, a click or a move, is    *)
(* taken to come after it.  A move that corrects another, and a move that  *)
(* is corrected, may come before.                                          *)
(***************************************************************************)
EXTENDS Integers, Sequences, SequencesExt

CONSTANTS
    Text,          \* contents of the example and paste modes
    Upload,        \* contents of the upload mode
    Delta,         \* how far one press of the browser's buttons may move
    Waits,         \* the user leaves no preview or comparison under way
    MaxRevisions,  \* bound on the compose objects made
    MaxRequests,   \* bound on the requests made
    MaxMoves,      \* bound on the user's moves through the history
    MaxReloads,    \* bound on the reloads of the page
    None           \* null

ASSUME FlowAssumption ==
    /\ Text \cap Upload = {} /\ Delta \subseteq Int \ {0} /\ Waits \in BOOLEAN
    /\ {MaxRevisions, MaxRequests, MaxMoves, MaxReloads} \subseteq Nat
    /\ None \notin {"intro", "prepare", "review", "send", "result", "comparison", "technical"}

VARIABLES
    latest,      \* the flow state after every queued update
    shown,       \* the committed flow state: stateRef.current
    panel,       \* the step of the recovery panel after every queued update
    shownPanel,  \* the step of the recovery panel on the screen
    due,         \* the committed render's history effect has not run yet
    nav,         \* the browser's history and the references that track it
    asked,       \* requests without an answer
    done,        \* previews whose execution has succeeded (history)
    revisions, requests, moves, reloads   \* counters of the bounds

screens == <<latest, shown, panel, shownPanel, due>>
counters == <<revisions, requests, moves, reloads>>
vars == <<screens, nav, asked, done, counters>>

Content == Text \cup Upload
NoId == -1

-----------------------------------------------------------------------------
(* The reducer.  A flow state holds what its screen carries and None for   *)
(* the rest; rev is the identity of a compose object.  The confirmation    *)
(* token of a preview is that of its content, so an upload's preview has   *)
(* one and any other has none.                                             *)

Welcome == [screen |-> "welcome", compose |-> None, preview |-> None, sent |-> None, compared |-> None]

Compose(compose) == [Welcome EXCEPT !.screen = "compose", !.compose = compose]

FreshCompose == Compose([rev |-> revisions + 1, content |-> None])

PreviewSucceeded(s, preview) ==
    IF s.screen = "previewing" THEN [s EXCEPT !.screen = "review", !.preview = preview] ELSE s

PreviewFailed(s) == IF s.screen = "previewing" THEN Compose(s.compose) ELSE s

ExecuteSucceeded(s, content) ==
    IF s.screen = "executing" THEN [s EXCEPT !.screen = "result", !.sent = content] ELSE s

ExecuteFailed(s, requiresNewPreview) ==
    IF s.screen # "executing" THEN s
    ELSE IF requiresNewPreview THEN Compose(s.compose)
    ELSE [s EXCEPT !.screen = "review"]

CompareSucceeded(s, content) ==
    IF s.screen = "comparing" THEN [s EXCEPT !.screen = "comparison", !.compared = content] ELSE s

CompareFailed(s) == IF s.screen = "comparing" THEN [s EXCEPT !.screen = "result"] ELSE s

Stable(s) == s.screen \notin {"previewing", "executing", "comparing"}

UrlStep(s) ==
    CASE s.screen = "welcome"                    -> "intro"
      [] s.screen \in {"compose", "previewing"}  -> "prepare"
      [] s.screen \in {"review", "approvedReview"} -> "review"
      [] s.screen = "executing"                  -> "send"
      [] s.screen \in {"result", "comparing"}    -> "result"
      [] s.screen = "comparison"                 -> "comparison"
      [] s.screen = "technicalDetails"           -> "technical"

-----------------------------------------------------------------------------
(* The history.  entries, pos and queue are the browser's: its entries with *)
(* the id and the step written into each, the one it is at, and the        *)
(* traversals it has not performed.  The rest are the component's          *)
(* references: ids, index and current (where it believes to be),           *)
(* snapshots, barred (non-restorable ids), correcting (the entry a         *)
(* corrective history.go is to reach), suppress and last.                  *)

IndexOf(n, id) == IF Contains(n.ids, id) THEN CHOOSE i \in DOMAIN n.ids : n.ids[i] = id ELSE 0

Dropped(snapshots, gone) == [id \in DOMAIN snapshots \ gone |-> snapshots[id]]

Kept(n) == SubSeq(n.ids, 1, n.index)
Forward(n) == {n.ids[i] : i \in n.index + 1 .. Len(n.ids)}

Invalidated(n, gone) ==
    [n EXCEPT !.snapshots = Dropped(@, gone), !.barred = @ \cup gone]

Recorded(n, s) ==
    [n EXCEPT !.snapshots = [id \in DOMAIN @ \cup {n.current} |-> IF id = n.current THEN s ELSE @[id]]]

Restorable(n, id) == id \in DOMAIN n.snapshots \ n.barred /\ Stable(n.snapshots[id])

\* A bug: an edit is written like any other change of the entry.
IsComposeEditMutant1(n, s) == FALSE

\* The same entry, but another compose object.
IsComposeEdit(n, s) ==
    /\ n.current \in DOMAIN n.snapshots
    /\ n.snapshots[n.current].screen = "compose" /\ s.screen = "compose"
    /\ n.snapshots[n.current].compose # s.compose

\* What the effect does on an entry whose step is the state's own.
Rewritten(n, s) ==
    IF n.current \in DOMAIN n.snapshots /\ n.snapshots[n.current] = s THEN n
    ELSE LET valid == IF IsComposeEdit(n, s) THEN Invalidated(n, Forward(n)) ELSE n
         IN  [Recorded(valid, s) EXCEPT !.entries[n.pos].id = n.current]

\* Otherwise it opens a branch: nothing forward of the index is reachable.
Pushed(n, s) ==
    LET id == n.last + 1
        at == [n EXCEPT !.ids = Append(Kept(n), id), !.index = @ + 1, !.current = id, !.last = id,
                        !.snapshots = Dropped(@, Forward(n)), !.barred = @ \ Forward(n),
                        !.entries = Append(SubSeq(@, 1, n.pos), [id |-> id, step |-> UrlStep(s)]),
                        !.pos = @ + 1]
    IN  Recorded(at, s)

\* The history-sync effect, run for a committed state and panel.
Synced(n, s, onPanel) ==
    IF onPanel # None \/ ~Stable(s) \/ n.correcting # NoId THEN n
    ELSE IF n.suppress THEN [n EXCEPT !.suppress = FALSE]
    ELSE IF n.current # NoId /\ n.entries[n.pos].step = UrlStep(s) THEN Rewritten(n, s)
    ELSE Pushed(n, s)

-----------------------------------------------------------------------------
(* Rendering.  A commit first runs the effect the commit before it left.   *)

Flushed(n) == IF due THEN Synced(n, shown, shownPanel) ELSE n

\* The end of a click or a popstate whose handler left n, s and onPanel.
Commit(n, s, onPanel, bumped) ==
    /\ latest' = s /\ panel' = onPanel /\ shown' = s /\ shownPanel' = onPanel
    /\ IF s # shown \/ onPanel # shownPanel \/ bumped
       THEN nav' = Synced(Flushed(n), s, onPanel) /\ due' = FALSE
       ELSE nav' = n /\ due' = due

\* The dispatch of an answer.
Dispatch(s) ==
    /\ latest' = s /\ panel' = None
    /\ UNCHANGED <<shown, shownPanel, due>>

Render ==
    /\ <<latest, panel>> # <<shown, shownPanel>>
    /\ nav' = Flushed(nav)
    /\ shown' = latest /\ shownPanel' = panel /\ due' = TRUE
    /\ UNCHANGED <<latest, panel, asked, done, counters>>

Effect ==
    /\ due
    /\ nav' = Synced(nav, shown, shownPanel) /\ due' = FALSE
    /\ UNCHANGED <<latest, shown, panel, shownPanel, asked, done, counters>>

-----------------------------------------------------------------------------
(* The buttons of the screens.                                             *)

OnScreen(screen) == shown.screen = screen /\ shownPanel = None /\ ~due
Click(s) == Commit(nav, s, None, FALSE)

Ask(kind, compose, preview) ==
    /\ requests < MaxRequests
    /\ requests' = requests + 1
    /\ asked' = asked \cup {[kind |-> kind, n |-> requests + 1, compose |-> compose,
                             preview |-> preview, at |-> nav.current]}

\* A user who waits has no move pending when a request other than a send is
\* made, and makes none before it is answered.
Settled == Waits => nav.queue = <<>>
Attentive == Waits => \A q \in asked : q.kind = "execute"

Revise ==
    /\ revisions < MaxRevisions
    /\ revisions' = revisions + 1

Start ==
    /\ OnScreen("welcome")
    /\ Revise /\ Click(FreshCompose)
    /\ UNCHANGED <<asked, done, requests, moves, reloads>>

Edit(content) ==
    /\ OnScreen("compose") /\ content # shown.compose.content
    /\ Revise /\ Click(Compose([rev |-> revisions + 1, content |-> content]))
    /\ UNCHANGED <<asked, done, requests, moves, reloads>>

Submit ==
    /\ OnScreen("compose") /\ shown.compose.content # None /\ Settled
    /\ Click([shown EXCEPT !.screen = "previewing"])
    /\ Ask("preview", shown.compose, None)
    /\ UNCHANGED <<done, revisions, moves, reloads>>

\* An upload without a token is settled without a request.
Confirm ==
    /\ OnScreen("review")
    /\ IF shown.compose.content \in Upload /\ shown.preview.content \notin Upload
       THEN /\ Commit(Invalidated(nav, {nav.current}), Compose(shown.compose), None, FALSE)
            /\ UNCHANGED <<asked, requests>>
       ELSE /\ Click([shown EXCEPT !.screen = "executing"])
            /\ Ask("execute", shown.compose, shown.preview)
    /\ UNCHANGED <<done, revisions, moves, reloads>>

\* The comparison of an upload fails before it is asked for.
RequestComparison ==
    /\ OnScreen("result") /\ nav.correcting = NoId /\ Settled
    /\ shown.compose.content \in Text
    /\ Click([shown EXCEPT !.screen = "comparing"])
    /\ Ask("compare", shown.compose, None)
    /\ UNCHANGED <<done, revisions, moves, reloads>>

ViewTechnicalDetails ==
    /\ OnScreen("result") /\ nav.correcting = NoId
    /\ Click([shown EXCEPT !.screen = "technicalDetails"])
    /\ UNCHANGED <<asked, done, counters>>

Restart ==
    /\ OnScreen("result") /\ nav.correcting = NoId
    /\ Revise /\ Click(FreshCompose)
    /\ UNCHANGED <<asked, done, requests, moves, reloads>>

ResetAfterUnrecoverableStep ==
    /\ shownPanel # None /\ ~due
    /\ Click(Welcome)
    /\ UNCHANGED <<asked, done, counters>>

-----------------------------------------------------------------------------
(* Answers, in any order and at any time.                                  *)

AnswerPreview(q) ==
    /\ q \in asked /\ q.kind = "preview"
    /\ asked' = asked \ {q}
    /\ \/ Dispatch(PreviewSucceeded(latest, [n |-> q.n, content |-> q.compose.content]))
       \/ Dispatch(PreviewFailed(latest))
    /\ UNCHANGED <<nav, done, counters>>

\* A bug: the Review keeps its confirm button.
ApprovedMutant1(n, q) == n

\* The Review that was confirmed becomes the Approved Review, unless its
\* entry is gone or cannot be restored any more.
Approved(n, q) ==
    IF q.at \notin DOMAIN n.snapshots \/ q.at \in n.barred THEN n
    ELSE [n EXCEPT !.snapshots[q.at] =
             [Welcome EXCEPT !.screen = "approvedReview", !.compose = q.compose, !.preview = q.preview]]

ExecutionSucceeds(q) ==
    /\ q \in asked /\ q.kind = "execute"
    /\ q.compose.content \in Upload => q.preview.content = q.compose.content
    /\ asked' = asked \ {q} /\ done' = done \cup {q.preview.n}
    /\ nav' = Approved(nav, q)
    /\ Dispatch(ExecuteSucceeded(latest, q.compose.content))
    /\ UNCHANGED counters

\* The gateway refuses the token: it has expired or is not this document's.
ExecutionRefused(q) ==
    /\ q \in asked /\ q.kind = "execute" /\ q.compose.content \in Upload
    /\ asked' = asked \ {q}
    /\ nav' = IF q.at = NoId THEN nav ELSE Invalidated(nav, {q.at})
    /\ Dispatch(ExecuteFailed(latest, TRUE))
    /\ UNCHANGED <<done, counters>>

ExecutionFails(q) ==
    /\ q \in asked /\ q.kind = "execute"
    /\ asked' = asked \ {q}
    /\ Dispatch(ExecuteFailed(latest, FALSE))
    /\ UNCHANGED <<nav, done, counters>>

AnswerComparison(q) ==
    /\ q \in asked /\ q.kind = "compare"
    /\ asked' = asked \ {q}
    /\ \/ Dispatch(CompareSucceeded(latest, q.compose.content))
       \/ Dispatch(CompareFailed(latest))
    /\ UNCHANGED <<nav, done, counters>>

-----------------------------------------------------------------------------
(* The browser's history.  The screens' Back, Edit and Go to result are    *)
(* moves too.  A move is performed some time after it is asked for; one    *)
(* that would leave the entries of this page is dropped.                   *)

Move(delta) ==
    /\ moves < MaxMoves /\ Attentive
    /\ moves' = moves + 1
    /\ nav' = [nav EXCEPT !.queue = Append(@, delta)]
    /\ UNCHANGED <<screens, asked, done, revisions, requests, reloads>>

Landing == nav.pos + Head(nav.queue)
Arrived == [nav EXCEPT !.pos = Landing, !.queue = Tail(@)]
ArrivedId == nav.entries[Landing].id
InsidePage == nav.queue # <<>> /\ Landing \in DOMAIN nav.entries

MoveDropped ==
    /\ nav.queue # <<>> /\ ~InsidePage
    /\ nav' = [nav EXCEPT !.queue = Tail(@)]
    /\ UNCHANGED <<screens, asked, done, counters>>

CorrectionArrives ==
    /\ InsidePage /\ nav.correcting # NoId /\ ArrivedId = nav.correcting
    /\ Commit([Arrived EXCEPT !.correcting = NoId], latest, panel, TRUE)
    /\ UNCHANGED <<asked, done, counters>>

\* During a send, and until the browser is back where it was sent from, every
\* other arrival is answered with a move to that entry.
Locked ==
    /\ InsidePage
    /\ nav.correcting # NoId \/ shown.screen = "executing"
    /\ nav.correcting = NoId \/ ArrivedId # nav.correcting

\* A bug: while a correction is under way every other arrival is swallowed.
CorrectionMutant1(n, id) ==
    LET home == IndexOf(n, n.current) IN
    IF n.correcting # NoId \/ IndexOf(n, id) = home THEN n
    ELSE [n EXCEPT !.correcting = n.current, !.queue = Append(@, home - IndexOf(n, id))]

\* One step is the guess for an entry that is not tracked.
Correction(n, id) ==
    LET expected == IF n.correcting # NoId THEN n.correcting ELSE n.current
        target   == IndexOf(n, id)
        home     == IndexOf(n, expected)
    IN  IF expected = NoId \/ (target > 0 /\ target = home) THEN n
        ELSE [n EXCEPT !.correcting = expected,
                       !.queue = Append(@, IF target > 0 THEN home - target ELSE 1)]

MoveCorrected ==
    /\ Locked
    /\ Commit(Correction(Arrived, ArrivedId), latest, panel, FALSE)
    /\ UNCHANGED <<asked, done, counters>>

Free == InsidePage /\ nav.correcting = NoId /\ shown.screen # "executing" /\ ~due
At(n, id) == [n EXCEPT !.index = IndexOf(n, id), !.current = id]

MoveUnknown ==
    /\ Free /\ IndexOf(nav, ArrivedId) = 0
    /\ Commit(Arrived, latest, nav.entries[Landing].step, FALSE)
    /\ UNCHANGED <<asked, done, counters>>

MoveUnrestorable ==
    /\ Free /\ IndexOf(nav, ArrivedId) > 0 /\ ~Restorable(nav, ArrivedId)
    /\ Commit(At(Arrived, ArrivedId), latest, nav.entries[Landing].step, FALSE)
    /\ UNCHANGED <<asked, done, counters>>

\* A bug: the flag is armed though no change of state will clear it.
RestoredMutant1(n, s) == [n EXCEPT !.suppress = TRUE]

\* Landing on what is shown already changes no state, so nothing may be armed.
Restored(n, s) == [n EXCEPT !.suppress = s # shown]

MoveRestored ==
    /\ Free /\ IndexOf(nav, ArrivedId) > 0 /\ Restorable(nav, ArrivedId)
    /\ LET s == nav.snapshots[ArrivedId]
       IN  Commit(Restored(At(Arrived, ArrivedId), s), IF s = shown THEN latest ELSE s, None, FALSE)
    /\ UNCHANGED <<asked, done, counters>>

Land ==
    MoveDropped \/ CorrectionArrives \/ MoveCorrected \/ MoveUnknown \/ MoveUnrestorable \/ MoveRestored

\* The page starts over, its requests are forgotten whatever becomes of them at
\* the gateway, ids are counted from the beginning, and the browser keeps its
\* entries: the current one loses its id, or gets the first one on the intro.
Mounted(entries, pos) ==
    LET intro == entries[pos].step = "intro"
        id    == IF intro THEN 0 ELSE NoId
    IN  [entries |-> [entries EXCEPT ![pos].id = id], pos |-> pos, queue |-> <<>>,
         ids |-> IF intro THEN <<0>> ELSE <<>>, index |-> IF intro THEN 1 ELSE 0, current |-> id,
         snapshots |-> [i \in IF intro THEN {0} ELSE {} |-> Welcome], barred |-> {},
         correcting |-> NoId, suppress |-> FALSE, last |-> 0]

Reload ==
    /\ reloads < MaxReloads
    /\ reloads' = reloads + 1
    /\ nav' = Mounted(nav.entries, nav.pos)
    /\ latest' = Welcome /\ shown' = Welcome /\ due' = FALSE
    /\ panel' = IF nav.entries[nav.pos].step = "intro" THEN None ELSE nav.entries[nav.pos].step
    /\ shownPanel' = panel' /\ asked' = {}
    /\ UNCHANGED <<done, revisions, requests, moves>>

-----------------------------------------------------------------------------
Init ==
    /\ latest = Welcome /\ shown = Welcome /\ panel = None /\ shownPanel = None /\ due = FALSE
    /\ nav = Mounted(<<[id |-> NoId, step |-> "intro"]>>, 1)
    /\ asked = {} /\ done = {}
    /\ revisions = 0 /\ requests = 0 /\ moves = 0 /\ reloads = 0

Answer ==
    \E q \in asked : \/ AnswerPreview(q) \/ ExecutionSucceeds(q) \/ ExecutionRefused(q)
                     \/ ExecutionFails(q) \/ AnswerComparison(q)

Next ==
    \/ Start \/ Submit \/ Confirm \/ RequestComparison \/ ViewTechnicalDetails \/ Restart
    \/ \E content \in Content : Edit(content)
    \/ ResetAfterUnrecoverableStep
    \/ Answer \/ Render \/ Effect
    \/ \E delta \in Delta : Move(delta)
    \/ Land \/ Reload

\* React renders what is queued and runs its effects, and the browser performs
\* the moves it was asked for; nobody is made to click, and no request is made
\* to be answered.
Spec == Init /\ [][Next]_vars /\ WF_vars(Render) /\ WF_vars(Effect) /\ WF_vars(Land)

-----------------------------------------------------------------------------
(* Properties.                                                             *)

\* Nothing is queued, to be rendered, to be recorded or to be corrected.
AtRest == latest = shown /\ panel = shownPanel /\ ~due /\ nav.correcting = NoId

Restorables == {nav.snapshots[id] : id \in {i \in DOMAIN nav.snapshots : Restorable(nav, i)}}

\* However the user moves, there is at most one execution under way, and while
\* there is, and only then, the flow is in sending.
OneSendAtATime ==
    /\ \A q, r \in asked : q.kind = "execute" /\ r.kind = "execute" => q = r
    /\ latest.screen = "executing" <=> \E q \in asked : q.kind = "execute"

\* A preview whose execution has succeeded is never executed again: once the
\* answer is recorded, no live Review of it is on the screen or can be come
\* back to (on a page that was not reloaded), and no other execution is under
\* way.
NoResend ==
    /\ AtRest /\ reloads = 0 => \A s \in {shown} \cup Restorables :
          s.screen \in {"review", "executing"} => s.preview.n \notin done
    /\ OneSendAtATime

\* Whenever nothing is pending, on a page that was not reloaded, the browser's
\* entry is the one the component believes to be at, its snapshot is the
\* screen, its step is the screen's, and the next change will be written.
HistoryIsHonest ==
    AtRest /\ nav.queue = <<>> /\ shownPanel = None /\ Stable(shown) /\ reloads = 0 =>
        /\ nav.entries[nav.pos] = [id |-> nav.current, step |-> UrlStep(shown)]
        /\ nav.ids[nav.index] = nav.current
        /\ nav.current \in DOMAIN nav.snapshots /\ nav.snapshots[nav.current] = shown
        /\ ~nav.suppress

\* The live Reviews Forward reaches from a Compose are of that very compose:
\* an edit, whenever it is recorded, puts the earlier ones out of reach (on a
\* page that was not reloaded).
ForwardReviewsAreCurrent ==
    reloads = 0 => \A i, j \in DOMAIN nav.ids :
        LET Holds(k, screen) == Restorable(nav, nav.ids[k]) /\ nav.snapshots[nav.ids[k]].screen = screen
        IN  /\ i < j /\ Holds(i, "compose") /\ Holds(j, "review")
            /\ \A k \in i + 1 .. j - 1 : ~Holds(k, "compose")
            => nav.snapshots[nav.ids[j]].compose = nav.snapshots[nav.ids[i]].compose

\* A user who moves away during a send, however often, is brought back to the
\* entry it was sent from (on a page that was not reloaded).
CorrectionEnds == (nav.correcting # NoId /\ reloads = 0) ~> (nav.correcting = NoId)

\* What is sent is what was reviewed: after any edit "a new preview" is
\* required "before a send action exists again" (GuidedFlow.tsx:303).
OnlyReviewedIsSent ==
    \A q \in asked : q.kind = "execute" => q.preview.content = q.compose.content
=============================================================================
