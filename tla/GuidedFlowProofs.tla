-------------------------- MODULE GuidedFlowProofs --------------------------
(***************************************************************************)
(* Proofs about GuidedFlow, for any contents and bounds (GuidedFlow.tsx:   *)
(* the handlers, the history effect and the popstate listener).            *)
(*                                                                         *)
(* Of any user, waiting or not: one send at most is under way (Sending:    *)
(* what is queued is never ahead of the screen in sending, no panel hides  *)
(* a send, and no snapshot that can be restored is one); and, until the    *)
(* page is reloaded, entries, references and screen agree (OnTrack).       *)
(*                                                                         *)
(* Of a user who waits (Waiting): every live Review is of the last live    *)
(* Compose before it, a preview has one live Review at most, and none      *)
(* that was sent.  Attended says how little can happen at a time.          *)
(***************************************************************************)
EXTENDS GuidedFlow, SequenceTheorems, TLAPS

-----------------------------------------------------------------------------
(* Shapes.                                                                 *)

(* All that matters of a flow state is its screen, and of the references   *)
(* their snapshots.                                                        *)
IsState(s) == "screen" \in DOMAIN s
IsNav(n) == "snapshots" \in DOMAIN n /\ \A id \in DOMAIN n.snapshots : IsState(n.snapshots[id])

LEMMA StatesMade ==
  /\ IsState(Welcome) /\ Welcome.screen = "welcome"
  /\ \A compose : IsState(Compose(compose)) /\ Compose(compose).screen = "compose"
  /\ \A s, screen : IsState(s) =>
       IsState([s EXCEPT !.screen = screen]) /\ [s EXCEPT !.screen = screen].screen = screen
BY DEF IsState, Welcome, Compose

LEMMA InvalidatedIsNav ==
  ASSUME NEW n, IsNav(n), NEW gone PROVE IsNav(Invalidated(n, gone))
BY DEF IsNav, Invalidated, Dropped

LEMMA RecordedIsNav ==
  ASSUME NEW n, IsNav(n), NEW s, IsState(s) PROVE IsNav(Recorded(n, s))
BY DEF IsNav, Recorded

LEMMA RewrittenIsNav ==
  ASSUME NEW n, IsNav(n), NEW s, IsState(s) PROVE IsNav(Rewritten(n, s))
<1>1. ASSUME NEW m, IsNav(m) PROVE IsNav([Recorded(m, s) EXCEPT !.entries[n.pos].id = n.current])
  <2>1. IsNav(Recorded(m, s))
    BY <1>1, RecordedIsNav
  <2>2. QED
    BY <2>1 DEF IsNav
<1>2. QED
  BY <1>1, InvalidatedIsNav DEF Rewritten

LEMMA PushedIsNav ==
  ASSUME NEW n, IsNav(n), NEW s, IsState(s) PROVE IsNav(Pushed(n, s))
<1> DEFINE id == n.last + 1
           at == [n EXCEPT !.ids = Append(Kept(n), id), !.index = @ + 1, !.current = id, !.last = id,
                           !.snapshots = Dropped(@, Forward(n)), !.barred = @ \ Forward(n),
                           !.entries = Append(SubSeq(@, 1, n.pos), [id |-> id, step |-> UrlStep(s)]),
                           !.pos = @ + 1]
<1>1. IsNav(at)
  BY DEF IsNav, Dropped
<1>2. Pushed(n, s) = Recorded(at, s)
  BY DEF Pushed
<1> HIDE DEF at
<1>3. QED
  BY <1>1, <1>2, RecordedIsNav

LEMMA SyncedIsNav ==
  ASSUME NEW n, IsNav(n), NEW s, IsState(s), NEW onPanel PROVE IsNav(Synced(n, s, onPanel))
<1>1. IsNav([n EXCEPT !.suppress = FALSE])
  BY DEF IsNav
<1>2. Synced(n, s, onPanel) \in {n, [n EXCEPT !.suppress = FALSE], Rewritten(n, s), Pushed(n, s)}
  BY DEF Synced
<1>3. QED
  BY <1>1, <1>2, RewrittenIsNav, PushedIsNav

LEMMA ApprovedIsNav ==
  ASSUME NEW n, IsNav(n), NEW q PROVE IsNav(Approved(n, q))
<1> DEFINE s == [Welcome EXCEPT !.screen = "approvedReview", !.compose = q.compose,
                                !.preview = q.preview]
<1>1. IsState(s)
  BY DEF IsState, Welcome
<1>2. Approved(n, q) \in {n, [n EXCEPT !.snapshots[q.at] = s]}
  BY DEF Approved
<1> HIDE DEF s
<1>3. IsNav([n EXCEPT !.snapshots[q.at] = s])
  BY <1>1 DEF IsNav
<1>4. QED
  BY <1>2, <1>3

LEMMA CorrectionIsNav ==
  ASSUME NEW n, IsNav(n), NEW id PROVE IsNav(Correction(n, id))
BY DEF IsNav, Correction

LEMMA MountedIsNav ==
  ASSUME NEW entries, NEW pos PROVE IsNav(Mounted(entries, pos))
BY StatesMade DEF IsNav, Mounted

Shapes == IsState(latest) /\ IsState(shown) /\ IsNav(nav)

(* What every click and every popstate does.                               *)
LEMMA Committed ==
  ASSUME Shapes, NEW n, IsNav(n), NEW s, IsState(s), NEW onPanel, NEW bumped,
         Commit(n, s, onPanel, bumped)
  PROVE  Shapes' /\ latest' = s /\ shown' = s /\ panel' = onPanel /\ shownPanel' = onPanel
<1>1. IsNav(Flushed(n))
  BY SyncedIsNav DEF Shapes, Flushed
<1>2. IsNav(Synced(Flushed(n), s, onPanel))
  BY <1>1, SyncedIsNav
<1>3. QED
  BY <1>2 DEF Commit, Shapes

(* What the answers do to a flow state.                                    *)
LEMMA Reduced ==
  ASSUME NEW s, IsState(s), NEW x, NEW required \in BOOLEAN
  PROVE  /\ \A t \in {PreviewSucceeded(s, x), PreviewFailed(s), CompareSucceeded(s, x),
                       CompareFailed(s)} :
              IsState(t) /\ (t.screen = "executing" <=> s.screen = "executing")
         /\ \A t \in {ExecuteSucceeded(s, x), ExecuteFailed(s, required)} :
              IsState(t) /\ t.screen # "executing"
BY StatesMade
   DEF IsState, PreviewSucceeded, PreviewFailed, CompareSucceeded, CompareFailed,
       ExecuteSucceeded, ExecuteFailed

-----------------------------------------------------------------------------
(* One send at a time.                                                     *)

SendIsShown ==
    latest.screen = "executing" =>
      shown.screen = "executing" /\ panel = None /\ shownPanel = None

Sending == Shapes /\ OneSendAtATime /\ SendIsShown

(* A click or a popstate that neither begins nor ends a send.              *)
LEMMA QuietCommit ==
  ASSUME Sending, latest.screen # "executing",
         NEW n, IsNav(n), NEW s, IsState(s), s.screen # "executing", NEW onPanel, NEW bumped,
         Commit(n, s, onPanel, bumped),
         \A q \in asked' : q \in asked \/ q.kind # "execute"
  PROVE  Sending'
<1>1. Shapes' /\ latest' = s
  BY Committed DEF Sending
<1>2. \A q \in asked' : q.kind # "execute"
  BY DEF Sending, OneSendAtATime
<1>3. QED
  BY <1>1, <1>2 DEF Sending, OneSendAtATime, SendIsShown

(* A popstate that shows what is queued.                                   *)
LEMMA StayingCommit ==
  ASSUME Sending, NEW n, IsNav(n), NEW bumped, Commit(n, latest, panel, bumped), asked' = asked
  PROVE  Sending'
<1>1. /\ Shapes' /\ latest' = latest /\ shown' = latest /\ panel' = panel
      /\ shownPanel' = panel
  BY Committed DEF Sending, Shapes
<1>2. QED
  BY <1>1 DEF Sending, OneSendAtATime, SendIsShown

(* An answer that is not a send's.                                         *)
LEMMA QuietAnswer ==
  ASSUME Sending, NEW q \in asked, q.kind # "execute", asked' = asked \ {q},
         NEW s, IsState(s), s.screen = "executing" <=> latest.screen = "executing",
         Dispatch(s), nav' = nav
  PROVE  Sending'
BY DEF Sending, OneSendAtATime, SendIsShown, Shapes, Dispatch

(* The answer to a send.                                                   *)
LEMMA SendAnswered ==
  ASSUME Sending, NEW q \in asked, q.kind = "execute", asked' = asked \ {q},
         NEW s, IsState(s), s.screen # "executing", Dispatch(s), IsNav(nav')
  PROVE  Sending'
<1>1. \A r \in asked' : r.kind # "execute"
  BY DEF Sending, OneSendAtATime
<1>2. QED
  BY <1>1 DEF Sending, OneSendAtATime, SendIsShown, Shapes, Dispatch

LEMMA SendingInit == Init => Sending
BY StatesMade, MountedIsNav DEF Init, Sending, Shapes, OneSendAtATime, SendIsShown

LEMMA SendingStep == Sending /\ [Next]_vars => Sending'
<1> SUFFICES ASSUME Sending, [Next]_vars PROVE Sending'
  OBVIOUS
<1>0. /\ IsState(latest) /\ IsState(shown) /\ IsNav(nav)
      /\ shown.screen # "executing" \/ shownPanel # None => latest.screen # "executing"
  BY DEF Sending, Shapes, SendIsShown
<1>1. CASE Start \/ Restart \/ \E content \in Content : Edit(content)
  <2>1. /\ shown.screen # "executing" /\ asked' = asked
        /\ \E compose : Click(Compose(compose))
    BY <1>1 DEF Start, Restart, Edit, OnScreen, FreshCompose
  <2>2. QED
    BY <2>1, <1>0, StatesMade, QuietCommit DEF Click
<1>2. CASE Submit \/ RequestComparison \/ ViewTechnicalDetails
  <2>1. /\ shown.screen # "executing"
        /\ \A q \in asked' : q \in asked \/ q.kind # "execute"
        /\ \E screen \in {"previewing", "comparing", "technicalDetails"} :
             Click([shown EXCEPT !.screen = screen])
    BY <1>2 DEF Submit, RequestComparison, ViewTechnicalDetails, OnScreen, Ask
  <2>2. PICK screen \in {"previewing", "comparing", "technicalDetails"} :
                 Click([shown EXCEPT !.screen = screen])
    BY <2>1
  <2>3. IsState([shown EXCEPT !.screen = screen]) /\ [shown EXCEPT !.screen = screen].screen = screen
    BY <1>0, StatesMade
  <2>4. QED
    BY <2>1, <2>2, <2>3, <1>0, QuietCommit DEF Click
<1>3. CASE Confirm
  <2>1. shown.screen = "review" /\ latest.screen # "executing"
    BY <1>3, <1>0 DEF Confirm, OnScreen
  <2>2. CASE /\ Commit(Invalidated(nav, {nav.current}), Compose(shown.compose), None, FALSE)
             /\ asked' = asked
    BY <2>1, <2>2, <1>0, StatesMade, InvalidatedIsNav, QuietCommit
  <2>3. CASE Click([shown EXCEPT !.screen = "executing"]) /\ Ask("execute", shown.compose, shown.preview)
    <3> DEFINE s == [shown EXCEPT !.screen = "executing"]
    <3>1. IsState(s) /\ s.screen = "executing"
      BY <1>0, StatesMade
    <3> HIDE DEF s
    <3>2. /\ Shapes' /\ latest' = s /\ shown' = s /\ panel' = None /\ shownPanel' = None
      BY <2>3, <3>1, <1>0, Committed DEF Click, Sending, s
    <3>3. \A q \in asked : q.kind # "execute"
      BY <2>1 DEF Sending, OneSendAtATime
    <3> DEFINE sent == [kind |-> "execute", n |-> requests + 1, compose |-> shown.compose,
                        preview |-> shown.preview, at |-> nav.current]
    <3>4. asked' = asked \cup {sent} /\ sent.kind = "execute"
      BY <2>3 DEF Ask
    <3> HIDE DEF sent
    <3>5. QED
      BY <3>1, <3>2, <3>3, <3>4 DEF Sending, OneSendAtATime, SendIsShown
  <2>4. QED
    BY <1>3, <2>2, <2>3 DEF Confirm
<1>4. CASE ResetAfterUnrecoverableStep
  BY <1>4, <1>0, StatesMade, QuietCommit DEF ResetAfterUnrecoverableStep, Click
<1>5. ASSUME NEW q \in asked, AnswerPreview(q) \/ AnswerComparison(q) PROVE Sending'
  <2>1. /\ q.kind # "execute" /\ asked' = asked \ {q} /\ nav' = nav
        /\ \E x : \E s \in {PreviewSucceeded(latest, x), PreviewFailed(latest),
                            CompareSucceeded(latest, x), CompareFailed(latest)} : Dispatch(s)
    BY <1>5 DEF AnswerPreview, AnswerComparison
  <2>2. QED
    BY <2>1, <1>0, Reduced, QuietAnswer
<1>6. ASSUME NEW q \in asked, ExecutionSucceeds(q) \/ ExecutionRefused(q) \/ ExecutionFails(q)
      PROVE  Sending'
  <2>1. /\ q.kind = "execute" /\ asked' = asked \ {q}
        /\ \E x : \E required \in BOOLEAN :
             \E s \in {ExecuteSucceeded(latest, x), ExecuteFailed(latest, required)} : Dispatch(s)
    BY <1>6 DEF ExecutionSucceeds, ExecutionRefused, ExecutionFails
  <2>2. IsNav(nav')
    BY <1>6, <1>0, ApprovedIsNav, InvalidatedIsNav
    DEF ExecutionSucceeds, ExecutionRefused, ExecutionFails
  <2>3. QED
    BY <2>1, <2>2, <1>0, Reduced, SendAnswered
<1>7. CASE Render
  <2>1. IsNav(nav')
    BY <1>7, <1>0, SyncedIsNav DEF Render, Flushed
  <2>2. QED
    BY <1>7, <2>1 DEF Render, Sending, Shapes, OneSendAtATime, SendIsShown
<1>8. CASE Effect
  <2>1. IsNav(nav')
    BY <1>8, <1>0, SyncedIsNav DEF Effect
  <2>2. QED
    BY <1>8, <2>1 DEF Effect, Sending, Shapes, OneSendAtATime, SendIsShown
<1>9. CASE (\E delta \in Delta : Move(delta)) \/ MoveDropped
  <2>1. IsNav(nav') /\ UNCHANGED <<screens, asked>>
    BY <1>9, <1>0 DEF Move, MoveDropped, IsNav
  <2>2. QED
    BY <2>1 DEF screens, Sending, Shapes, OneSendAtATime, SendIsShown
<1>10. IsNav(Arrived) /\ IsNav([Arrived EXCEPT !.correcting = NoId])
  BY <1>0 DEF Arrived, IsNav
<1>11. CASE CorrectionArrives
  BY <1>10, <1>11, StayingCommit DEF CorrectionArrives
<1>12. CASE MoveCorrected
  BY <1>10, <1>12, CorrectionIsNav, StayingCommit DEF MoveCorrected
<1>13. ASSUME NEW id PROVE IsNav(At(Arrived, id)) /\ \A s : IsNav(Restored(At(Arrived, id), s))
  BY <1>10 DEF At, Restored, IsNav
<1>14. CASE MoveUnknown \/ MoveUnrestorable
  <2>1. /\ shown.screen # "executing" /\ asked' = asked
        /\ \E n \in {Arrived, At(Arrived, ArrivedId)} :
             Commit(n, latest, nav.entries[Landing].step, FALSE)
    BY <1>14 DEF MoveUnknown, MoveUnrestorable, Free
  <2>2. QED
    BY <2>1, <1>0, <1>10, <1>13, QuietCommit
<1>15. CASE MoveRestored
  <2> DEFINE s == nav.snapshots[ArrivedId]
             next == IF s = shown THEN latest ELSE s
  <2>1. /\ shown.screen # "executing" /\ asked' = asked /\ Restorable(nav, ArrivedId)
        /\ Commit(Restored(At(Arrived, ArrivedId), s), next, None, FALSE)
    BY <1>15 DEF MoveRestored, Free
  <2>2. IsState(next) /\ next.screen # "executing"
    BY <2>1, <1>0 DEF Restorable, IsNav, Stable
  <2> HIDE DEF s, next
  <2>3. QED
    BY <2>1, <2>2, <1>0, <1>13, QuietCommit
<1>16. CASE Reload
  <2>1. /\ latest' = Welcome /\ shown' = Welcome /\ asked' = {} /\ IsNav(nav')
    BY <1>16, MountedIsNav DEF Reload
  <2>2. QED
    BY <2>1, StatesMade DEF Sending, Shapes, OneSendAtATime, SendIsShown
<1>17. CASE UNCHANGED vars
  BY <1>17 DEF vars, screens, Sending, Shapes, OneSendAtATime, SendIsShown
<1>18. QED
  BY <1>1, <1>2, <1>3, <1>4, <1>5, <1>6, <1>7, <1>8, <1>9, <1>11, <1>12, <1>14, <1>15, <1>16, <1>17
  DEF Next, Answer, Land

(* However the user moves through the history, clicks or reloads, there is *)
(* at most one execution under way, and while there is, and only then, the *)
(* flow is in sending.                                                     *)
THEOREM SendsAreExclusive == Spec => []OneSendAtATime
<1>1. Sending => OneSendAtATime
  BY DEF Sending
<1>2. QED
  BY SendingInit, SendingStep, <1>1, PTL DEF Spec

-----------------------------------------------------------------------------
(* Flow states and histories in full.                                      *)

Screens == {"welcome", "compose", "previewing", "review", "approvedReview", "executing",
            "result", "comparing", "comparison", "technicalDetails"}
Steps == {"intro", "prepare", "review", "send", "result", "comparison", "technical"}
Entry == [id : Int, step : Steps]

Parts == {"screen", "compose", "preview", "sent", "compared"}
IsFlow(s) == s = [f \in Parts |-> s[f]] /\ s.screen \in Screens

Fields == {"entries", "pos", "queue", "ids", "index", "current", "snapshots", "barred",
           "correcting", "suppress", "last"}
HasFields(n) == n = [f \in Fields |-> n[f]]

IsTrack(n) ==
    /\ HasFields(n)
    /\ n.entries \in Seq(Entry) /\ n.queue \in Seq(Int) /\ n.ids \in Seq(Int) /\ n.last \in Nat
    /\ n.snapshots = [id \in DOMAIN n.snapshots |-> n.snapshots[id]]
    /\ DOMAIN n.snapshots \subseteq 0 .. n.last /\ n.barred \subseteq 0 .. n.last
    /\ \A id \in DOMAIN n.snapshots : IsFlow(n.snapshots[id])

LEMMA FlowsMade ==
  /\ IsFlow(Welcome) /\ Welcome.screen = "welcome"
  /\ \A c : IsFlow(Compose(c)) /\ Compose(c).screen = "compose" /\ Compose(c).compose = c
<1>1. IsFlow(Welcome) /\ Welcome.screen = "welcome"
  BY DEF IsFlow, Parts, Screens, Welcome
<1>2. ASSUME NEW c
      PROVE  IsFlow(Compose(c)) /\ Compose(c).screen = "compose" /\ Compose(c).compose = c
  BY <1>1 DEF IsFlow, Parts, Screens, Compose
<1>3. QED
  BY <1>1, <1>2

LEMMA FlowsChanged ==
  ASSUME NEW s, IsFlow(s), NEW screen \in Screens
  PROVE  LET t == [s EXCEPT !.screen = screen]
         IN  IsFlow(t) /\ t.screen = screen /\ t.compose = s.compose /\ t.preview = s.preview
BY DEF IsFlow, Parts

(* What an answer makes of a flow state: nothing, or the end of what it    *)
(* was waiting for.                                                        *)
LEMMA Answered ==
  ASSUME NEW s, IsFlow(s), NEW x
  PROVE  /\ LET t == PreviewSucceeded(s, x)
            IN  IF s.screen = "previewing"
                THEN IsFlow(t) /\ t.screen = "review" /\ t.preview = x /\ t.compose = s.compose
                ELSE t = s
         /\ PreviewFailed(s) = IF s.screen = "previewing" THEN Compose(s.compose) ELSE s
         /\ LET t == ExecuteSucceeded(s, x)
            IN  IF s.screen = "executing" THEN IsFlow(t) /\ t.screen = "result" ELSE t = s
         /\ ExecuteFailed(s, TRUE) = IF s.screen = "executing" THEN Compose(s.compose) ELSE s
         /\ LET t == ExecuteFailed(s, FALSE)
            IN  IF s.screen = "executing"
                THEN IsFlow(t) /\ t.screen = "review" /\ t.preview = s.preview /\ t.compose = s.compose
                ELSE t = s
         /\ LET t == CompareSucceeded(s, x)
            IN  IF s.screen = "comparing" THEN IsFlow(t) /\ t.screen = "comparison" ELSE t = s
         /\ LET t == CompareFailed(s)
            IN  IF s.screen = "comparing" THEN IsFlow(t) /\ t.screen = "result" ELSE t = s
<1>1. CASE s.screen = "previewing"
  BY <1>1 DEF IsFlow, Parts, Screens, PreviewSucceeded, PreviewFailed, ExecuteSucceeded,
              ExecuteFailed, CompareSucceeded, CompareFailed
<1>2. CASE s.screen = "executing"
  BY <1>2 DEF IsFlow, Parts, Screens, PreviewSucceeded, PreviewFailed, ExecuteSucceeded,
              ExecuteFailed, CompareSucceeded, CompareFailed
<1>3. CASE s.screen = "comparing"
  BY <1>3 DEF IsFlow, Parts, Screens, PreviewSucceeded, PreviewFailed, ExecuteSucceeded,
              ExecuteFailed, CompareSucceeded, CompareFailed
<1>4. CASE s.screen \notin {"previewing", "executing", "comparing"}
  BY <1>4 DEF PreviewSucceeded, PreviewFailed, ExecuteSucceeded, ExecuteFailed,
              CompareSucceeded, CompareFailed
<1>5. QED
  BY <1>1, <1>2, <1>3, <1>4

LEMMA StepsOfFlows ==
  ASSUME NEW s, IsFlow(s) PROVE UrlStep(s) \in Steps /\ UrlStep(s) # None
BY FlowAssumption DEF IsFlow, Screens, Steps, UrlStep

(* A sequence cut at k and continued with e.                               *)
LEMMA CutAndAppend ==
  ASSUME NEW T, NEW q \in Seq(T), NEW k \in 0 .. Len(q), NEW e \in T
  PROVE  LET r == Append(SubSeq(q, 1, k), e)
         IN  /\ r \in Seq(T) /\ Len(r) = k + 1 /\ r[k + 1] = e
             /\ \A i \in 1 .. k : r[i] = q[i]
<1> DEFINE c == SubSeq(q, 1, k)
<1>1. c \in Seq(T) /\ Len(c) = k /\ \A i \in 1 .. k : c[i] = q[i]
  OBVIOUS
<1> HIDE DEF c
<1>2. /\ Append(c, e) \in Seq(T) /\ Len(Append(c, e)) = k + 1 /\ Append(c, e)[k + 1] = e
      /\ \A i \in 1 .. k : Append(c, e)[i] = c[i]
  BY <1>1, AppendProperties
<1>3. QED
  BY <1>1, <1>2 DEF c

LEMMA FlowsAnswered ==
  ASSUME NEW s, IsFlow(s), NEW x
  PROVE  \A t \in {PreviewSucceeded(s, x), PreviewFailed(s), CompareSucceeded(s, x),
                   CompareFailed(s), ExecuteSucceeded(s, x), ExecuteFailed(s, TRUE),
                   ExecuteFailed(s, FALSE)} : IsFlow(t)
<1>1. IsFlow(PreviewSucceeded(s, x)) /\ IsFlow(PreviewFailed(s))
  BY Answered, FlowsMade
<1>2. IsFlow(CompareSucceeded(s, x)) /\ IsFlow(CompareFailed(s))
  BY Answered
<1>3. IsFlow(ExecuteSucceeded(s, x)) /\ IsFlow(ExecuteFailed(s, TRUE)) /\ IsFlow(ExecuteFailed(s, FALSE))
  BY Answered, FlowsMade
<1>4. QED
  BY Zenon, <1>1, <1>2, <1>3

-----------------------------------------------------------------------------
(* What the history effect does, as a relation between the references       *)
(* before it and after it.                                                 *)

(* s is recorded at the current entry and the snapshots of gone are lost.  *)
Records(n, m, s, gone) ==
    /\ DOMAIN m.snapshots = (DOMAIN n.snapshots \ gone) \cup {m.current}
    /\ m.snapshots[m.current] = s
    /\ \A id \in DOMAIN n.snapshots \ gone : id # m.current => m.snapshots[id] = n.snapshots[id]

Rewrites(n, m, s, gone) ==
    /\ m.entries = n.entries /\ m.pos = n.pos /\ m.queue = n.queue /\ m.ids = n.ids
    /\ m.index = n.index /\ m.current = n.current /\ m.correcting = n.correcting
    /\ m.suppress = n.suppress /\ m.last = n.last
    /\ m.barred = n.barred \cup gone
    /\ Records(n, m, s, gone)

Opens(n, m, s) ==
    /\ m.pos = n.pos + 1 /\ m.index = n.index + 1 /\ m.current = n.last + 1 /\ m.last = n.last + 1
    /\ m.queue = n.queue /\ m.correcting = n.correcting /\ m.suppress = n.suppress
    /\ Len(m.ids) = m.index /\ Len(m.entries) = m.pos
    /\ \A i \in 1 .. n.index : m.ids[i] = n.ids[i]
    /\ \A i \in 1 .. n.pos : m.entries[i] = n.entries[i]
    /\ m.ids[m.index] = m.current /\ m.entries[m.pos] = [id |-> m.current, step |-> UrlStep(s)]
    /\ m.barred = n.barred \ Forward(n)
    /\ Records(n, m, s, Forward(n))

(* The entries and the references agree, except for where the browser is   *)
(* while a correction is under way.                                        *)
Aligned(n) ==
    /\ Len(n.entries) = Len(n.ids)
    /\ \A i \in 1 .. Len(n.ids) : n.entries[i].id = n.ids[i] /\ n.ids[i] \in 0 .. n.last
    /\ \A i, j \in 1 .. Len(n.ids) : n.ids[i] = n.ids[j] => i = j
    /\ n.index \in 1 .. Len(n.ids) /\ n.current = n.ids[n.index] /\ n.pos \in 1 .. Len(n.ids)
    /\ IF n.correcting = NoId THEN n.pos = n.index ELSE n.correcting = n.current
    /\ n.suppress = FALSE
    /\ \A i \in 1 .. Len(n.ids) :
          n.ids[i] \in DOMAIN n.snapshots => n.entries[i].step = UrlStep(n.snapshots[n.ids[i]])

(* The current entry tells of s.                                           *)
Written(n, s) ==
    /\ n.current \in DOMAIN n.snapshots /\ n.snapshots[n.current] = s
    /\ n.entries[n.index].step = UrlStep(s)

LEMMA AlignedAtHome ==
  ASSUME NEW n, Aligned(n), NEW m, m.entries = n.entries, m.ids = n.ids, m.index = n.index,
         m.current = n.current, m.snapshots = n.snapshots, m.suppress = n.suppress,
         m.last = n.last, m.correcting = NoId, m.pos = m.index
  PROVE  Aligned(m)
BY DEF Aligned

LEMMA ForwardIds ==
  ASSUME NEW n, IsTrack(n), Aligned(n)
  PROVE  /\ Forward(n) \subseteq 0 .. n.last /\ n.current \notin Forward(n)
         /\ \A i \in 1 .. Len(n.ids) : n.ids[i] \in Forward(n) <=> i > n.index
         /\ n.current \in 0 .. n.last /\ n.current # NoId
<1>1. /\ n.index \in 1 .. Len(n.ids) /\ n.current = n.ids[n.index] /\ Len(n.ids) \in Nat
      /\ \A i \in 1 .. Len(n.ids) : n.ids[i] \in 0 .. n.last
      /\ \A i, j \in 1 .. Len(n.ids) : n.ids[i] = n.ids[j] => i = j
  BY DEF IsTrack, Aligned
<1>2. \A id : id \in Forward(n) <=> \E i \in n.index + 1 .. Len(n.ids) : id = n.ids[i]
  BY DEF Forward
<1>3. \A i \in 1 .. Len(n.ids) : n.ids[i] \in Forward(n) <=> i > n.index
  BY <1>1, <1>2
<1>4. QED
  BY <1>1, <1>2, <1>3 DEF NoId

LEMMA RecordedTrack ==
  ASSUME NEW n, IsTrack(n), n.current \in 0 .. n.last, NEW s, IsFlow(s)
  PROVE  IsTrack(Recorded(n, s)) /\ Rewrites(n, Recorded(n, s), s, {})
<1> DEFINE snapshots == [id \in DOMAIN n.snapshots \cup {n.current} |->
                           IF id = n.current THEN s ELSE n.snapshots[id]]
<1>1. Recorded(n, s) = [n EXCEPT !.snapshots = snapshots]
  BY DEF Recorded, IsTrack, HasFields, Fields
<1>2. /\ DOMAIN snapshots = DOMAIN n.snapshots \cup {n.current} /\ snapshots[n.current] = s
      /\ \A id \in DOMAIN n.snapshots : id # n.current => snapshots[id] = n.snapshots[id]
      /\ snapshots = [id \in DOMAIN snapshots |-> snapshots[id]]
  OBVIOUS
<1> HIDE DEF snapshots
<1>3. QED
  BY <1>1, <1>2 DEF IsTrack, HasFields, Fields, Rewrites, Records

LEMMA InvalidatedTrack ==
  ASSUME NEW n, IsTrack(n), NEW gone, gone \subseteq 0 .. n.last
  PROVE  LET m == Invalidated(n, gone)
         IN  /\ IsTrack(m)
             /\ m.entries = n.entries /\ m.pos = n.pos /\ m.queue = n.queue /\ m.ids = n.ids
             /\ m.index = n.index /\ m.current = n.current /\ m.correcting = n.correcting
             /\ m.suppress = n.suppress /\ m.last = n.last
             /\ m.barred = n.barred \cup gone
             /\ DOMAIN m.snapshots = DOMAIN n.snapshots \ gone
             /\ \A id \in DOMAIN m.snapshots : m.snapshots[id] = n.snapshots[id]
<1> DEFINE snapshots == Dropped(n.snapshots, gone)
           m == [n EXCEPT !.snapshots = snapshots, !.barred = n.barred \cup gone]
<1>1. Invalidated(n, gone) = m
  BY DEF Invalidated, IsTrack, HasFields, Fields
<1>2. /\ DOMAIN snapshots = DOMAIN n.snapshots \ gone
      /\ \A id \in DOMAIN snapshots : snapshots[id] = n.snapshots[id]
      /\ snapshots = [id \in DOMAIN snapshots |-> snapshots[id]]
  BY DEF Dropped
<1> HIDE DEF snapshots
<1>3. QED
  BY <1>1, <1>2 DEF IsTrack, HasFields, Fields

LEMMA RewrittenTrack ==
  ASSUME NEW n, IsTrack(n), Aligned(n), n.correcting = NoId, NEW s, IsFlow(s)
  PROVE  /\ IsTrack(Rewritten(n, s))
         /\ \E gone \in {{}, Forward(n)} :
              /\ Rewrites(n, Rewritten(n, s), s, gone)
              /\ gone = Forward(n) \/ ~IsComposeEdit(n, s)
<1> DEFINE write == [m \in {n, Invalidated(n, Forward(n))} |->
                       [Recorded(m, s) EXCEPT !.entries[n.pos].id = n.current]]
<1>0. /\ n.current \in 0 .. n.last /\ Forward(n) \subseteq 0 .. n.last /\ n.current \notin Forward(n)
      /\ n.pos \in DOMAIN n.entries /\ n.entries[n.pos].id = n.current
  <2>1. /\ n.pos \in 1 .. Len(n.ids) /\ n.pos = n.index /\ n.current = n.ids[n.index]
        /\ n.entries[n.pos].id = n.ids[n.pos] /\ Len(n.entries) = Len(n.ids)
        /\ n.entries \in Seq(Entry)
    BY DEF Aligned, IsTrack
  <2>2. QED
    BY <2>1, ForwardIds
<1>1. ASSUME NEW m, IsTrack(m), m.current = n.current, m.last = n.last, m.entries = n.entries
      PROVE  /\ [Recorded(m, s) EXCEPT !.entries[n.pos].id = n.current] = Recorded(m, s)
             /\ IsTrack(Recorded(m, s)) /\ Rewrites(m, Recorded(m, s), s, {})
  <2>1. IsTrack(Recorded(m, s)) /\ Rewrites(m, Recorded(m, s), s, {})
    BY <1>0, <1>1, RecordedTrack
  <2>2. Recorded(m, s).entries = n.entries /\ n.entries \in Seq(Entry)
    BY <2>1, <1>1 DEF Rewrites, IsTrack, HasFields, Fields
  <2>3. [n.entries EXCEPT ![n.pos].id = n.current] = n.entries
    <3>1. n.entries[n.pos] \in Entry
      BY <1>0, <2>2
    <3>2. [n.entries[n.pos] EXCEPT !.id = n.current] = n.entries[n.pos]
      BY <3>1, <1>0 DEF Entry
    <3>3. QED
      BY <3>2, <1>0, <2>2
  <2>4. QED
    BY <2>1, <2>2, <2>3 DEF IsTrack, HasFields, Fields
<1>2. CASE n.current \in DOMAIN n.snapshots /\ n.snapshots[n.current] = s
  <2>1. Rewritten(n, s) = n /\ ~IsComposeEdit(n, s)
    BY <1>2 DEF Rewritten, IsComposeEdit
  <2>2. Rewrites(n, n, s, {})
    BY <1>2 DEF Rewrites, Records
  <2>3. QED
    BY <2>1, <2>2
<1>3. CASE ~(n.current \in DOMAIN n.snapshots /\ n.snapshots[n.current] = s) /\ ~IsComposeEdit(n, s)
  BY <1>1, <1>3 DEF Rewritten
<1>4. CASE ~(n.current \in DOMAIN n.snapshots /\ n.snapshots[n.current] = s) /\ IsComposeEdit(n, s)
  <2> DEFINE m == Invalidated(n, Forward(n))
  <2>1. Rewritten(n, s) = [Recorded(m, s) EXCEPT !.entries[n.pos].id = n.current]
    BY <1>4 DEF Rewritten
  <2>2. /\ IsTrack(m)
        /\ m.entries = n.entries /\ m.pos = n.pos /\ m.queue = n.queue /\ m.ids = n.ids
        /\ m.index = n.index /\ m.current = n.current /\ m.correcting = n.correcting
        /\ m.suppress = n.suppress /\ m.last = n.last
        /\ m.barred = n.barred \cup Forward(n)
        /\ DOMAIN m.snapshots = DOMAIN n.snapshots \ Forward(n)
        /\ \A id \in DOMAIN m.snapshots : m.snapshots[id] = n.snapshots[id]
    BY <1>0, InvalidatedTrack
  <2> HIDE DEF m
  <2>3. IsTrack(Rewritten(n, s)) /\ Rewrites(m, Rewritten(n, s), s, {})
    BY <2>1, <2>2, <1>1
  <2>4. Rewrites(n, Rewritten(n, s), s, Forward(n))
    BY <2>2, <2>3 DEF Rewrites, Records
  <2>5. QED
    BY <2>3, <2>4
<1>5. QED
  BY <1>2, <1>3, <1>4

LEMMA PushedTrack ==
  ASSUME NEW n, IsTrack(n), Aligned(n), n.correcting = NoId, NEW s, IsFlow(s)
  PROVE  IsTrack(Pushed(n, s)) /\ Opens(n, Pushed(n, s), s)
<1> DEFINE id == n.last + 1
           ids == Append(SubSeq(n.ids, 1, n.index), id)
           entries == Append(SubSeq(n.entries, 1, n.pos), [id |-> id, step |-> UrlStep(s)])
           snapshots == Dropped(n.snapshots, Forward(n))
           a == [n EXCEPT !.ids = ids, !.index = n.index + 1]
           b == [a EXCEPT !.current = id, !.last = id]
           c == [b EXCEPT !.snapshots = snapshots, !.barred = n.barred \ Forward(n)]
           at == [c EXCEPT !.entries = entries, !.pos = n.pos + 1]
<1>0. /\ n.index \in 0 .. Len(n.ids) /\ n.pos \in 0 .. Len(n.entries) /\ id \in Int
      /\ [id |-> id, step |-> UrlStep(s)] \in Entry /\ n.last \in Nat
      /\ n.ids \in Seq(Int) /\ n.entries \in Seq(Entry)
  BY StepsOfFlows DEF IsTrack, HasFields, Fields, Aligned, Entry
<1>1. /\ ids \in Seq(Int) /\ Len(ids) = n.index + 1 /\ ids[n.index + 1] = id
      /\ \A i \in 1 .. n.index : ids[i] = n.ids[i]
  BY <1>0, CutAndAppend
<1>2. /\ entries \in Seq(Entry) /\ Len(entries) = n.pos + 1
      /\ entries[n.pos + 1] = [id |-> id, step |-> UrlStep(s)]
      /\ \A i \in 1 .. n.pos : entries[i] = n.entries[i]
  BY <1>0, CutAndAppend
<1>3. /\ DOMAIN snapshots = DOMAIN n.snapshots \ Forward(n)
      /\ \A x \in DOMAIN snapshots : snapshots[x] = n.snapshots[x]
      /\ snapshots = [x \in DOMAIN snapshots |-> snapshots[x]]
  BY DEF Dropped
<1>4. Pushed(n, s) = Recorded(at, s)
  BY DEF Pushed, Kept, IsTrack, HasFields, Fields
<1> HIDE DEF ids, entries, snapshots
<1>5. /\ HasFields(a) /\ a.ids = ids /\ a.index = n.index + 1
      /\ a.entries = n.entries /\ a.pos = n.pos /\ a.queue = n.queue
      /\ a.correcting = n.correcting /\ a.suppress = n.suppress
  BY DEF IsTrack, HasFields, Fields
<1> HIDE DEF a
<1>6. /\ HasFields(b) /\ b.current = id /\ b.last = id /\ b.ids = ids /\ b.index = n.index + 1
      /\ b.entries = n.entries /\ b.pos = n.pos /\ b.queue = n.queue
      /\ b.correcting = n.correcting /\ b.suppress = n.suppress
  BY <1>5 DEF HasFields, Fields
<1> HIDE DEF b
<1>7. /\ HasFields(c) /\ c.snapshots = snapshots /\ c.barred = n.barred \ Forward(n)
      /\ c.current = id /\ c.last = id /\ c.ids = ids /\ c.index = n.index + 1
      /\ c.queue = n.queue /\ c.correcting = n.correcting /\ c.suppress = n.suppress
  BY <1>6 DEF HasFields, Fields
<1> HIDE DEF c
<1>8. /\ HasFields(at) /\ at.entries = entries /\ at.pos = n.pos + 1 /\ at.queue = n.queue
      /\ at.ids = ids /\ at.index = n.index + 1 /\ at.current = id /\ at.correcting = n.correcting
      /\ at.suppress = n.suppress /\ at.last = id
      /\ at.snapshots = snapshots /\ at.barred = n.barred \ Forward(n)
  BY <1>7 DEF HasFields, Fields
<1> HIDE DEF at, id
<1>9. IsTrack(at)
  <2>1. id \in Nat /\ 0 .. n.last \subseteq 0 .. id
    BY <1>0 DEF id
  <2>2. DOMAIN snapshots \subseteq 0 .. id /\ n.barred \ Forward(n) \subseteq 0 .. id
    BY <1>3, <2>1 DEF IsTrack
  <2>3. \A x \in DOMAIN snapshots : IsFlow(snapshots[x])
    BY <1>3 DEF IsTrack
  <2>4. at.queue \in Seq(Int)
    BY <1>8 DEF IsTrack
  <2>5. QED
    BY <1>1, <1>2, <1>3, <1>8, <2>1, <2>2, <2>3, <2>4 DEF IsTrack
<1>10. IsTrack(Pushed(n, s)) /\ Rewrites(at, Pushed(n, s), s, {})
  <2>1. at.current \in 0 .. at.last
    BY <1>0, <1>8 DEF id
  <2>2. QED
    BY <2>1, <1>4, <1>9, RecordedTrack
<1>11. Opens(n, Pushed(n, s), s)
  BY <1>0, <1>1, <1>2, <1>3, <1>8, <1>10 DEF Opens, Rewrites, Records, id
<1>12. QED
  BY <1>10, <1>11

LEMMA RewritingAligns ==
  ASSUME NEW n, IsTrack(n), Aligned(n), n.correcting = NoId, NEW s, n.entries[n.pos].step = UrlStep(s),
         NEW m, NEW gone, Rewrites(n, m, s, gone)
  PROVE  Aligned(m) /\ Written(m, s)
<1>1. /\ m.entries = n.entries /\ m.pos = n.pos /\ m.ids = n.ids /\ m.index = n.index
      /\ m.current = n.current /\ m.correcting = n.correcting /\ m.suppress = n.suppress
      /\ m.last = n.last
  BY DEF Rewrites
<1>2. /\ n.index \in 1 .. Len(n.ids) /\ n.current = n.ids[n.index] /\ n.pos = n.index
      /\ \A i, j \in 1 .. Len(n.ids) : n.ids[i] = n.ids[j] => i = j
      /\ \A i \in 1 .. Len(n.ids) :
            n.ids[i] \in DOMAIN n.snapshots => n.entries[i].step = UrlStep(n.snapshots[n.ids[i]])
  BY DEF Aligned
<1>3. /\ DOMAIN m.snapshots \subseteq DOMAIN n.snapshots \cup {n.current}
      /\ m.snapshots[n.current] = s /\ n.current \in DOMAIN m.snapshots
      /\ \A id \in DOMAIN m.snapshots :
            id # n.current => id \in DOMAIN n.snapshots /\ m.snapshots[id] = n.snapshots[id]
  BY <1>1 DEF Rewrites, Records
<1>4. ASSUME NEW i \in 1 .. Len(n.ids), n.ids[i] \in DOMAIN m.snapshots
      PROVE  n.entries[i].step = UrlStep(m.snapshots[n.ids[i]])
  <2>1. CASE n.ids[i] = n.current
    BY <2>1, <1>2, <1>3
  <2>2. CASE n.ids[i] # n.current
    BY <2>2, <1>2, <1>3, <1>4
  <2>3. QED
    BY <2>1, <2>2
<1>5. Aligned(m)
  BY <1>1, <1>4 DEF Aligned
<1>6. QED
  BY <1>1, <1>2, <1>3, <1>5 DEF Written

LEMMA OpeningAligns ==
  ASSUME NEW n, IsTrack(n), Aligned(n), n.correcting = NoId, NEW s, NEW m, Opens(n, m, s)
  PROVE  Aligned(m) /\ Written(m, s)
<1> DEFINE k == n.index
<1>1. /\ m.pos = k + 1 /\ m.index = k + 1 /\ m.current = n.last + 1 /\ m.last = n.last + 1
      /\ m.correcting = NoId /\ m.suppress = FALSE /\ Len(m.ids) = k + 1 /\ Len(m.entries) = k + 1
      /\ \A i \in 1 .. k : m.ids[i] = n.ids[i] /\ m.entries[i] = n.entries[i]
      /\ m.ids[k + 1] = m.current /\ m.entries[k + 1] = [id |-> m.current, step |-> UrlStep(s)]
  BY DEF Opens, Aligned
<1>2. /\ k \in 1 .. Len(n.ids) /\ Len(n.ids) \in Nat /\ n.last \in Nat
      /\ \A i \in 1 .. k : n.entries[i].id = n.ids[i] /\ n.ids[i] \in 0 .. n.last
      /\ \A i, j \in 1 .. k : n.ids[i] = n.ids[j] => i = j
      /\ \A i \in 1 .. k :
            n.ids[i] \in DOMAIN n.snapshots => n.entries[i].step = UrlStep(n.snapshots[n.ids[i]])
  <2>1. /\ k \in 1 .. Len(n.ids) /\ Len(n.ids) \in Nat /\ n.last \in Nat
    BY DEF Aligned, IsTrack
  <2>2. \A i \in 1 .. k : i \in 1 .. Len(n.ids)
    BY <2>1
  <2> HIDE DEF k
  <2>3. QED
    BY <2>1, <2>2 DEF Aligned
<1>3. /\ m.snapshots[m.current] = s /\ m.current \in DOMAIN m.snapshots
      /\ \A id \in DOMAIN m.snapshots :
            id # m.current => id \in DOMAIN n.snapshots /\ m.snapshots[id] = n.snapshots[id]
  BY DEF Opens, Records
<1> HIDE DEF k
<1>4. \A i \in 1 .. k + 1 : i \in 1 .. k \/ i = k + 1
  BY <1>2
<1>5. \A i \in 1 .. k : m.ids[i] \in 0 .. n.last /\ m.ids[i] # m.current
  BY <1>1, <1>2
<1>6. \A i \in 1 .. k + 1 : m.entries[i].id = m.ids[i] /\ m.ids[i] \in 0 .. m.last
  BY <1>1, <1>2, <1>4, <1>5
<1>7. \A i, j \in 1 .. k + 1 : m.ids[i] = m.ids[j] => i = j
  BY <1>1, <1>2, <1>4, <1>5
<1>8. ASSUME NEW i \in 1 .. k + 1, m.ids[i] \in DOMAIN m.snapshots
      PROVE  m.entries[i].step = UrlStep(m.snapshots[m.ids[i]])
  <2>1. CASE i \in 1 .. k
    <3>1. /\ m.ids[i] = n.ids[i] /\ m.entries[i] = n.entries[i]
          /\ n.ids[i] \in DOMAIN n.snapshots /\ m.snapshots[n.ids[i]] = n.snapshots[n.ids[i]]
      BY <2>1, <1>1, <1>3, <1>5, <1>8
    <3>2. QED
      BY <2>1, <3>1, <1>2
  <2>2. CASE i = k + 1
    BY <2>2, <1>1, <1>3
  <2>3. QED
    BY <2>1, <2>2, <1>4
<1>9. Aligned(m)
  BY <1>1, <1>2, <1>6, <1>7, <1>8 DEF Aligned
<1>10. QED
  BY <1>1, <1>3, <1>9 DEF Written

(* The history effect writes the screen wherever it may, and keeps all else. *)
LEMMA SyncedTrack ==
  ASSUME NEW n, IsTrack(n), Aligned(n), NEW s, IsFlow(s), NEW onPanel
  PROVE  LET m == Synced(n, s, onPanel)
         IN  /\ IsTrack(m) /\ Aligned(m) /\ m.queue = n.queue /\ m.correcting = n.correcting
             /\ IF onPanel # None \/ ~Stable(s) \/ n.correcting # NoId
                THEN m = n
                ELSE /\ Written(m, s)
                     /\ \/ /\ n.entries[n.index].step = UrlStep(s)
                           /\ \E gone \in {{}, Forward(n)} :
                                /\ Rewrites(n, m, s, gone)
                                /\ gone = Forward(n) \/ ~IsComposeEdit(n, s)
                        \/ n.entries[n.index].step # UrlStep(s) /\ Opens(n, m, s)
<1>1. CASE onPanel # None \/ ~Stable(s) \/ n.correcting # NoId
  <2>1. Synced(n, s, onPanel) = n
    BY <1>1 DEF Synced
  <2>2. QED
    BY <1>1, <2>1
<1>2. CASE ~(onPanel # None \/ ~Stable(s) \/ n.correcting # NoId)
  <2>0. n.pos = n.index /\ n.suppress = FALSE /\ n.current # NoId /\ n.correcting = NoId
    BY <1>2, ForwardIds DEF Aligned
  <2>1. CASE n.entries[n.pos].step = UrlStep(s)
    <3> DEFINE m == Rewritten(n, s)
    <3>1. Synced(n, s, onPanel) = m
      BY <1>2, <2>0, <2>1 DEF Synced
    <3>2. /\ IsTrack(m)
          /\ \E gone \in {{}, Forward(n)} :
               Rewrites(n, m, s, gone) /\ (gone = Forward(n) \/ ~IsComposeEdit(n, s))
      BY <2>0, RewrittenTrack
    <3> HIDE DEF m
    <3>3. PICK gone \in {{}, Forward(n)} :
               Rewrites(n, m, s, gone) /\ (gone = Forward(n) \/ ~IsComposeEdit(n, s))
      BY <3>2
    <3>4. Aligned(m) /\ Written(m, s)
      BY <2>0, <2>1, <3>3, RewritingAligns
    <3>5. m.queue = n.queue /\ m.correcting = n.correcting
      BY <3>3 DEF Rewrites
    <3>6. QED
      BY <1>2, <2>0, <2>1, <3>1, <3>2, <3>3, <3>4, <3>5
  <2>2. CASE n.entries[n.pos].step # UrlStep(s)
    <3> DEFINE m == Pushed(n, s)
    <3>1. Synced(n, s, onPanel) = m
      BY <1>2, <2>0, <2>2 DEF Synced
    <3>2. IsTrack(m) /\ Opens(n, m, s)
      BY <2>0, PushedTrack
    <3> HIDE DEF m
    <3>3. Aligned(m) /\ Written(m, s)
      BY <2>0, <3>2, OpeningAligns
    <3>4. m.queue = n.queue /\ m.correcting = n.correcting
      BY <3>2 DEF Opens
    <3>5. QED
      BY <1>2, <2>0, <2>2, <3>1, <3>2, <3>3, <3>4
  <2>3. QED
    BY <2>1, <2>2
<1>3. QED
  BY <1>1, <1>2

-----------------------------------------------------------------------------
(* Where the flow is.                                                      *)

(* What is on the screen and nothing keeps from being written is written.  *)
Sync == ~due /\ nav.correcting = NoId /\ shownPanel = None /\ Stable(shown) => Written(nav, shown)

(* A send, and the correction of a move made during one, is at the entry   *)
(* of a Review.                                                            *)
AtSend ==
    /\ \A q \in asked : q.kind = "execute" => q.at = nav.current
    /\ nav.correcting # NoId \/ shown.screen = "executing" => nav.entries[nav.index].step = "review"

OnTrack ==
    IsFlow(latest) /\ IsFlow(shown) /\ IsTrack(nav) /\ Aligned(nav) /\ Sync /\ AtSend

LEMMA CommitTracks ==
  ASSUME IsFlow(shown), NEW n, IsTrack(n), Aligned(n), NEW s, IsFlow(s), NEW onPanel, NEW bumped,
         Commit(n, s, onPanel, bumped),
         s = shown /\ onPanel = shownPanel /\ ~bumped /\ ~due /\ n.correcting = NoId
           /\ onPanel = None /\ Stable(s) => Written(n, s)
  PROVE  /\ IsFlow(latest') /\ IsFlow(shown') /\ IsTrack(nav') /\ Aligned(nav') /\ Sync'
         /\ nav'.queue = n.queue /\ nav'.correcting = n.correcting
         /\ n.correcting # NoId \/ (~Stable(s) /\ (due => ~Stable(shown))) => nav' = n
<1>1. latest' = s /\ panel' = onPanel /\ shown' = s /\ shownPanel' = onPanel
  BY DEF Commit
<1>2. CASE s # shown \/ onPanel # shownPanel \/ bumped
  <2> DEFINE f == Flushed(n)
  <2>1. nav' = Synced(f, s, onPanel) /\ due' = FALSE
    BY <1>2 DEF Commit
  <2>2. /\ IsTrack(f) /\ Aligned(f) /\ f.queue = n.queue /\ f.correcting = n.correcting
        /\ n.correcting # NoId \/ (due => ~Stable(shown)) => f = n
    BY SyncedTrack DEF Flushed
  <2> HIDE DEF f
  <2>3. /\ IsTrack(nav') /\ Aligned(nav') /\ nav'.queue = f.queue /\ nav'.correcting = f.correcting
        /\ onPanel # None \/ ~Stable(s) \/ f.correcting # NoId => nav' = f
        /\ onPanel = None /\ Stable(s) /\ f.correcting = NoId => Written(nav', s)
    BY <2>1, <2>2, SyncedTrack
  <2>4. Sync'
    BY <1>1, <2>3 DEF Sync
  <2>5. QED
    BY <1>1, <2>2, <2>3, <2>4
<1>3. CASE ~(s # shown \/ onPanel # shownPanel \/ bumped)
  <2>1. nav' = n /\ due' = due
    BY <1>3 DEF Commit
  <2>2. Sync'
    BY <1>1, <1>3, <2>1 DEF Sync
  <2>3. QED
    BY <1>1, <2>1, <2>2
<1>4. QED
  BY <1>2, <1>3

(* Where a move arrives.                                                   *)
LEMMA IdsFound ==
  ASSUME NEW n, IsTrack(n), Aligned(n), NEW m, m.ids = n.ids, NEW i \in 1 .. Len(n.ids)
  PROVE  IndexOf(m, n.ids[i]) = i
<1>1. /\ DOMAIN n.ids = 1 .. Len(n.ids)
      /\ \A j, k \in 1 .. Len(n.ids) : n.ids[j] = n.ids[k] => j = k
  BY DEF IsTrack, Aligned
<1>2. Contains(m.ids, n.ids[i])
  BY DEF Contains
<1>3. \A j \in DOMAIN m.ids : m.ids[j] = n.ids[i] <=> j = i
  BY <1>1
<1>4. (CHOOSE j \in DOMAIN m.ids : m.ids[j] = n.ids[i]) = i
  BY <1>1, <1>3
<1>5. QED
  BY <1>2, <1>4 DEF IndexOf

LEMMA Arriving ==
  ASSUME IsTrack(nav), Aligned(nav), InsidePage
  PROVE  /\ Landing \in 1 .. Len(nav.ids) /\ ArrivedId = nav.ids[Landing]
         /\ \A m : m.ids = nav.ids => IndexOf(m, ArrivedId) = Landing
                                      /\ IndexOf(m, nav.current) = nav.index
         /\ IsTrack(Arrived) /\ Arrived.pos = Landing /\ Arrived.queue = Tail(nav.queue)
         /\ Arrived.entries = nav.entries /\ Arrived.ids = nav.ids /\ Arrived.index = nav.index
         /\ Arrived.current = nav.current /\ Arrived.snapshots = nav.snapshots
         /\ Arrived.barred = nav.barred /\ Arrived.correcting = nav.correcting
         /\ Arrived.suppress = nav.suppress /\ Arrived.last = nav.last
<1>1. Landing \in 1 .. Len(nav.ids) /\ ArrivedId = nav.ids[Landing]
  BY DEF InsidePage, ArrivedId, IsTrack, Aligned
<1>2. nav.index \in 1 .. Len(nav.ids) /\ nav.current = nav.ids[nav.index]
  BY DEF Aligned
<1>3. \A m : m.ids = nav.ids => IndexOf(m, ArrivedId) = Landing /\ IndexOf(m, nav.current) = nav.index
  BY <1>1, <1>2, IdsFound
<1>4. Tail(nav.queue) \in Seq(Int)
  BY DEF InsidePage, IsTrack
<1>5. /\ IsTrack(Arrived) /\ Arrived.pos = Landing /\ Arrived.queue = Tail(nav.queue)
      /\ Arrived.entries = nav.entries /\ Arrived.ids = nav.ids /\ Arrived.index = nav.index
      /\ Arrived.current = nav.current /\ Arrived.snapshots = nav.snapshots
      /\ Arrived.barred = nav.barred /\ Arrived.correcting = nav.correcting
      /\ Arrived.suppress = nav.suppress /\ Arrived.last = nav.last
  BY <1>4 DEF IsTrack, HasFields, Fields, Arrived
<1>6. QED
  BY <1>1, <1>3, <1>5

(* A move that is let through makes the component follow the browser.      *)
LEMMA Following ==
  ASSUME IsTrack(nav), Aligned(nav), InsidePage, nav.correcting = NoId
  PROVE  LET m == At(Arrived, ArrivedId)
         IN  /\ IsTrack(m) /\ Aligned(m) /\ m.pos = Landing /\ m.index = Landing
             /\ m.current = ArrivedId /\ m.queue = Tail(nav.queue) /\ m.entries = nav.entries
             /\ m.ids = nav.ids /\ m.snapshots = nav.snapshots /\ m.barred = nav.barred
             /\ m.correcting = NoId /\ m.suppress = FALSE /\ m.last = nav.last
<1> DEFINE m == At(Arrived, ArrivedId)
<1>1. m = [[Arrived EXCEPT !.index = Landing] EXCEPT !.current = ArrivedId]
  BY Arriving DEF At
<1>2. /\ IsTrack(m) /\ m.pos = Landing /\ m.index = Landing
      /\ m.current = ArrivedId /\ m.queue = Tail(nav.queue) /\ m.entries = nav.entries
      /\ m.ids = nav.ids /\ m.snapshots = nav.snapshots /\ m.barred = nav.barred
      /\ m.correcting = NoId /\ m.suppress = nav.suppress /\ m.last = nav.last
  BY <1>1, Arriving DEF IsTrack, HasFields, Fields
<1> HIDE DEF m
<1>3. Landing \in 1 .. Len(nav.ids) /\ ArrivedId = nav.ids[Landing]
  BY Arriving
<1>4. Aligned(m) /\ m.suppress = FALSE
  BY <1>2, <1>3 DEF Aligned
<1>5. QED
  BY <1>2, <1>4 DEF m

(* A move that is answered with another one leaves all but the browser's   *)
(* place as it was, and the answer leads back.                             *)
LEMMA Correcting ==
  ASSUME IsTrack(nav), Aligned(nav), InsidePage, nav.correcting = NoId \/ ArrivedId # nav.correcting
  PROVE  LET m == Correction(Arrived, ArrivedId)
         IN  /\ IsTrack(m) /\ Aligned(m) /\ m.pos = Landing /\ m.index = nav.index
             /\ m.current = nav.current /\ m.entries = nav.entries
             /\ m.ids = nav.ids /\ m.snapshots = nav.snapshots /\ m.barred = nav.barred
             /\ m.last = nav.last
             /\ IF m.correcting = NoId THEN nav.correcting = NoId
                ELSE m.queue = Append(Tail(nav.queue), m.index - m.pos)
<1> DEFINE m == Correction(Arrived, ArrivedId)
           expected == IF nav.correcting # NoId THEN nav.correcting ELSE nav.current
<1>1. expected = nav.current /\ nav.current # NoId
  BY ForwardIds DEF Aligned
<1>2. Landing \in 1 .. Len(nav.ids) /\ nav.index \in 1 .. Len(nav.ids) /\ Landing > 0
  <2>1. Landing \in 1 .. Len(nav.ids)
    BY Arriving
  <2>2. Len(nav.ids) \in Nat /\ nav.index \in 1 .. Len(nav.ids)
    BY DEF Aligned, IsTrack
  <2>3. QED
    BY <2>1, <2>2
<1>3. m = IF Landing = nav.index THEN Arrived
          ELSE [Arrived EXCEPT !.correcting = nav.current,
                               !.queue = Append(@, nav.index - Landing)]
  BY <1>1, <1>2, Arriving DEF Correction
<1>4. CASE Landing = nav.index
  <2>1. nav.correcting = NoId
    BY <1>4, Arriving DEF Aligned
  <2>2. m = Arrived
    BY <1>3, <1>4
  <2>3. Aligned(Arrived)
    BY <1>4, <2>1, Arriving DEF Aligned
  <2>4. QED
    BY <2>1, <2>2, <2>3, Arriving
<1>5. CASE Landing # nav.index
  <2> DEFINE queue == Append(Tail(nav.queue), nav.index - Landing)
  <2>1. queue \in Seq(Int)
    <3>1. Tail(nav.queue) \in Seq(Int) /\ nav.index - Landing \in Int
      BY <1>2 DEF InsidePage, IsTrack
    <3>2. QED
      BY <3>1
  <2>2. m = [[Arrived EXCEPT !.correcting = nav.current] EXCEPT !.queue = queue]
    BY <1>3, <1>5, Arriving
  <2> HIDE DEF m, queue
  <2>3. /\ IsTrack(m) /\ m.pos = Landing /\ m.index = nav.index
        /\ m.current = nav.current /\ m.queue = queue /\ m.entries = nav.entries
        /\ m.ids = nav.ids /\ m.snapshots = nav.snapshots /\ m.barred = nav.barred
        /\ m.correcting = nav.current /\ m.suppress = nav.suppress /\ m.last = nav.last
    BY <2>1, <2>2, Arriving DEF IsTrack, HasFields, Fields
  <2>4. Aligned(m)
    BY <2>3, <1>1, <1>2 DEF Aligned
  <2>5. QED
    BY <2>3, <2>4, <1>1 DEF m, queue
<1>6. QED
  BY <1>4, <1>5

(* A click or a popstate with no send under way.                           *)
LEMMA QuietOnTrack ==
  ASSUME OnTrack, \A q \in asked' : q.kind # "execute",
         NEW n, IsTrack(n), Aligned(n),
         n.correcting # NoId =>
           nav.correcting # NoId /\ n.index = nav.index /\ n.entries = nav.entries,
         NEW s, IsFlow(s), s.screen # "executing", NEW onPanel, NEW bumped,
         Commit(n, s, onPanel, bumped),
         s = shown /\ onPanel = shownPanel /\ ~bumped /\ ~due /\ n.correcting = NoId
           /\ onPanel = None /\ Stable(s) => Written(n, s)
  PROVE  OnTrack'
<1>1. /\ IsFlow(latest') /\ IsFlow(shown') /\ IsTrack(nav') /\ Aligned(nav') /\ Sync'
      /\ nav'.correcting = n.correcting
      /\ n.correcting # NoId => nav' = n
  BY CommitTracks DEF OnTrack
<1>2. shown'.screen # "executing"
  BY DEF Commit
<1>3. AtSend'
  BY <1>1, <1>2 DEF OnTrack, AtSend
<1>4. QED
  BY <1>1, <1>3 DEF OnTrack

(* An answer, which leaves the screen and the browser alone.               *)
LEMMA AnswerOnTrack ==
  ASSUME OnTrack, asked' \subseteq asked, NEW s, IsFlow(s), Dispatch(s),
         IsTrack(nav'), Aligned(nav'), nav'.entries = nav.entries, nav'.index = nav.index,
         nav'.current = nav.current, nav'.correcting = nav.correcting,
         nav' = nav \/ ~Stable(shown)
  PROVE  OnTrack'
<1>1. IsFlow(latest') /\ shown' = shown /\ shownPanel' = shownPanel /\ due' = due
  BY DEF Dispatch
<1>2. Sync'
  BY <1>1 DEF OnTrack, Sync
<1>3. AtSend'
  BY <1>1 DEF OnTrack, AtSend
<1>4. QED
  BY <1>1, <1>2, <1>3 DEF OnTrack

LEMMA OnTrackInit == Init => OnTrack
<1> SUFFICES ASSUME Init PROVE OnTrack
  OBVIOUS
<1>1. /\ latest = Welcome /\ shown = Welcome /\ IsFlow(Welcome) /\ Welcome.screen = "welcome"
      /\ asked = {} /\ due = FALSE
  BY FlowsMade DEF Init
<1> DEFINE entries == <<[id |-> 0, step |-> "intro"]>>
<1>2. nav = [entries |-> entries, pos |-> 1, queue |-> <<>>, ids |-> <<0>>, index |-> 1,
             current |-> 0, snapshots |-> [i \in {0} |-> Welcome], barred |-> {},
             correcting |-> NoId, suppress |-> FALSE, last |-> 0]
  <2> DEFINE first == <<[id |-> NoId, step |-> "intro"]>>
  <2>1. first[1].step = "intro" /\ nav = Mounted(first, 1)
    BY DEF Init
  <2>2. [first EXCEPT ![1].id = 0] = entries
    OBVIOUS
  <2> HIDE DEF first, entries
  <2>3. QED
    BY <2>1, <2>2 DEF Mounted
<1>3. entries \in Seq(Entry) /\ Len(entries) = 1 /\ entries[1] = [id |-> 0, step |-> "intro"]
  BY DEF Entry, Steps
<1> HIDE DEF entries
<1>4. /\ nav.entries = entries /\ nav.pos = 1 /\ nav.queue = <<>> /\ nav.ids = <<0>> /\ nav.index = 1
      /\ nav.current = 0 /\ nav.snapshots = [i \in {0} |-> Welcome] /\ nav.barred = {}
      /\ nav.correcting = NoId /\ nav.suppress = FALSE /\ nav.last = 0 /\ HasFields(nav)
  BY <1>2 DEF HasFields, Fields
<1>5. IsTrack(nav)
  BY <1>1, <1>3, <1>4 DEF IsTrack
<1>6. UrlStep(Welcome) = "intro"
  BY <1>1 DEF UrlStep
<1>7. Aligned(nav)
  BY <1>3, <1>4, <1>6 DEF Aligned
<1>8. Written(nav, Welcome)
  BY <1>3, <1>4, <1>6 DEF Written
<1>9. QED
  BY <1>1, <1>4, <1>5, <1>7, <1>8 DEF OnTrack, Sync, AtSend, NoId

LEMMA ApprovedTrack ==
  ASSUME IsTrack(nav), Aligned(nav), NEW q, q.at = nav.current,
         nav.entries[nav.index].step = "review"
  PROVE  LET m == Approved(nav, q)
         IN  /\ IsTrack(m) /\ Aligned(m)
             /\ m.entries = nav.entries /\ m.pos = nav.pos /\ m.queue = nav.queue /\ m.ids = nav.ids
             /\ m.index = nav.index /\ m.current = nav.current /\ m.correcting = nav.correcting
             /\ m.suppress = nav.suppress /\ m.last = nav.last /\ m.barred = nav.barred
             /\ DOMAIN m.snapshots = DOMAIN nav.snapshots
             /\ \A id \in DOMAIN m.snapshots :
                  \/ m.snapshots[id] = nav.snapshots[id] /\ (id # nav.current \/ id \in nav.barred)
                  \/ id = nav.current /\ m.snapshots[id].screen = "approvedReview"
<1> DEFINE m == Approved(nav, q)
           s == [Welcome EXCEPT !.screen = "approvedReview", !.compose = q.compose,
                                !.preview = q.preview]
<1>1. CASE q.at \notin DOMAIN nav.snapshots \/ q.at \in nav.barred
  <2>1. m = nav
    BY <1>1 DEF Approved
  <2>2. QED
    BY <1>1, <2>1
<1>2. CASE ~(q.at \notin DOMAIN nav.snapshots \/ q.at \in nav.barred)
  <2>1. IsFlow(s) /\ s.screen = "approvedReview"
    BY FlowsMade DEF IsFlow, Parts, Screens
  <2>2. UrlStep(s) = "review"
    BY <2>1 DEF UrlStep
  <2> DEFINE snapshots == [nav.snapshots EXCEPT ![nav.current] = s]
  <2>3. m = [nav EXCEPT !.snapshots = snapshots]
    BY <1>2 DEF Approved
  <2> HIDE DEF s
  <2>4. /\ snapshots = [id \in DOMAIN snapshots |-> snapshots[id]]
        /\ DOMAIN snapshots = DOMAIN nav.snapshots /\ snapshots[nav.current] = s
        /\ \A id \in DOMAIN snapshots : id # nav.current => snapshots[id] = nav.snapshots[id]
    BY <1>2 DEF IsTrack
  <2> HIDE DEF m, snapshots
  <2>5. /\ IsTrack(m)
        /\ m.entries = nav.entries /\ m.pos = nav.pos /\ m.queue = nav.queue /\ m.ids = nav.ids
        /\ m.index = nav.index /\ m.current = nav.current /\ m.correcting = nav.correcting
        /\ m.suppress = nav.suppress /\ m.last = nav.last /\ m.barred = nav.barred
        /\ m.snapshots = snapshots
    BY <2>1, <2>3, <2>4 DEF IsTrack, HasFields, Fields
  <2>6. \A i \in 1 .. Len(nav.ids) : nav.ids[i] = nav.current => i = nav.index
    BY DEF Aligned
  <2>7. \A i \in 1 .. Len(nav.ids) :
           nav.ids[i] \in DOMAIN snapshots => nav.entries[i].step = UrlStep(snapshots[nav.ids[i]])
    BY <2>2, <2>4, <2>6 DEF Aligned
  <2>8. Aligned(m)
    BY <2>5, <2>7 DEF Aligned
  <2>9. QED
    BY <2>1, <2>4, <2>5, <2>8 DEF m
<1>3. QED
  BY <1>1, <1>2

LEMMA OnTrackStep == Sending /\ OnTrack /\ [Next]_vars /\ ~Reload => OnTrack'
<1> SUFFICES ASSUME Sending, OnTrack, [Next]_vars, ~Reload PROVE OnTrack'
  OBVIOUS
<1>0. /\ IsFlow(latest) /\ IsFlow(shown) /\ IsTrack(nav) /\ Aligned(nav) /\ Sync /\ AtSend
      /\ latest.screen = "executing" => shown.screen = "executing" /\ shownPanel = None
      /\ latest.screen # "executing" => \A q \in asked : q.kind # "execute"
      /\ \A q \in asked : q.kind = "execute" => latest.screen = "executing"
      /\ shown.screen = "executing" => ~Stable(shown)
  BY DEF OnTrack, Sending, SendIsShown, OneSendAtATime, Stable
(* What is on a screen that waits for nothing.                             *)
<1>1. ASSUME shownPanel = None, ~due, Stable(shown), nav.correcting = NoId PROVE Written(nav, shown)
  BY <1>0, <1>1 DEF Sync
(* A click that asks for no send.                                          *)
<1>2. ASSUME NEW s, IsFlow(s), s.screen # "executing", shown.screen # "executing", Click(s),
             shownPanel # None \/ ~due, \A q \in asked' : q \in asked \/ q.kind # "execute"
      PROVE  OnTrack'
  <2>1. \A q \in asked' : q.kind # "execute"
    BY <1>0, <1>2
  <2>2. Commit(nav, s, None, FALSE)
    BY <1>2 DEF Click
  <2>3. QED
    BY <1>0, <1>1, <1>2, <2>1, <2>2, QuietOnTrack
<1>3. CASE Start \/ Restart \/ \E content \in Content : Edit(content)
  <2>1. /\ shown.screen # "executing" /\ asked' = asked /\ ~due
        /\ \E compose : Click(Compose(compose))
    BY <1>3 DEF Start, Restart, Edit, OnScreen, FreshCompose
  <2>2. QED
    BY <2>1, <1>2, FlowsMade
<1>4. CASE Submit \/ RequestComparison \/ ViewTechnicalDetails
  <2>1. /\ shown.screen # "executing" /\ ~due
        /\ \A q \in asked' : q \in asked \/ q.kind # "execute"
        /\ \E screen \in {"previewing", "comparing", "technicalDetails"} :
             Click([shown EXCEPT !.screen = screen])
    BY <1>4 DEF Submit, RequestComparison, ViewTechnicalDetails, OnScreen, Ask
  <2>2. PICK screen \in {"previewing", "comparing", "technicalDetails"} :
                 Click([shown EXCEPT !.screen = screen])
    BY <2>1
  <2>3. screen \in Screens /\ screen # "executing"
    BY DEF Screens
  <2>4. IsFlow([shown EXCEPT !.screen = screen]) /\ [shown EXCEPT !.screen = screen].screen = screen
    BY <1>0, <2>3, FlowsChanged
  <2>5. QED
    BY <2>1, <2>2, <2>3, <2>4, <1>2
<1>5. CASE Confirm
  <2>1. shown.screen = "review" /\ shownPanel = None /\ ~due /\ Stable(shown)
    BY <1>5 DEF Confirm, OnScreen, Stable
  <2>2. CASE /\ Commit(Invalidated(nav, {nav.current}), Compose(shown.compose), None, FALSE)
             /\ asked' = asked
    <3> DEFINE n == Invalidated(nav, {nav.current})
    <3>1. nav.current \in 0 .. nav.last
      BY <1>0, ForwardIds
    <3>2. /\ IsTrack(n) /\ n.entries = nav.entries /\ n.pos = nav.pos /\ n.ids = nav.ids
          /\ n.index = nav.index /\ n.current = nav.current /\ n.correcting = nav.correcting
          /\ n.suppress = nav.suppress /\ n.last = nav.last
          /\ DOMAIN n.snapshots \subseteq DOMAIN nav.snapshots
          /\ \A id \in DOMAIN n.snapshots : n.snapshots[id] = nav.snapshots[id]
      BY <1>0, <3>1, InvalidatedTrack
    <3> HIDE DEF n
    <3>3. Aligned(n)
      BY <1>0, <3>2 DEF Aligned
    <3>4. Compose(shown.compose) # shown /\ IsFlow(Compose(shown.compose))
          /\ Compose(shown.compose).screen # "executing"
      BY <2>1, FlowsMade
    <3>5. Commit(n, Compose(shown.compose), None, FALSE)
      BY <2>2 DEF n
    <3>6. \A q \in asked' : q.kind # "execute"
      BY <1>0, <2>1, <2>2
    <3>7. QED
      BY <3>2, <3>3, <3>4, <3>5, <3>6, QuietOnTrack
  <2>3. CASE Click([shown EXCEPT !.screen = "executing"]) /\ Ask("execute", shown.compose, shown.preview)
    <3> DEFINE s == [shown EXCEPT !.screen = "executing"]
    <3>1. IsFlow(s) /\ s.screen = "executing"
      BY <1>0, FlowsChanged DEF Screens
    <3> HIDE DEF s
    <3>2. ~Stable(s) /\ s # shown /\ shown' = s
      BY <2>1, <2>3, <3>1 DEF Stable, Click, Commit, s
    <3>3. Commit(nav, s, None, FALSE)
      BY <2>3 DEF Click, s
    <3>4. /\ IsFlow(latest') /\ IsFlow(shown') /\ IsTrack(nav') /\ Aligned(nav') /\ Sync'
          /\ nav' = nav
      BY <1>0, <2>1, <3>1, <3>2, <3>3, CommitTracks
    <3>5. nav.entries[nav.index].step = "review"
      <4>1. UrlStep(shown) = "review"
        BY <2>1 DEF UrlStep
      <4>2. QED
        BY <2>1, <4>1, <1>0, <1>1 DEF AtSend, Written
    <3>6. \A q \in asked' : q \in asked \/ q.at = nav.current
      BY <2>3 DEF Ask
    <3>7. AtSend'
      BY <3>4, <3>5, <3>6, <1>0 DEF AtSend
    <3>8. QED
      BY <3>4, <3>7 DEF OnTrack
  <2>4. QED
    BY <1>5, <2>2, <2>3 DEF Confirm
<1>6. CASE ResetAfterUnrecoverableStep
  <2>1. shownPanel # None /\ Click(Welcome) /\ asked' = asked /\ latest.screen # "executing"
    BY <1>6, <1>0 DEF ResetAfterUnrecoverableStep
  <2>2. \A q \in asked' : q.kind # "execute"
    BY <2>1, <1>0
  <2>3. Commit(nav, Welcome, None, FALSE)
    BY <2>1 DEF Click
  <2>4. QED
    BY <1>0, <2>1, <2>2, <2>3, FlowsMade, QuietOnTrack
<1>7. ASSUME NEW q \in asked, AnswerPreview(q) \/ AnswerComparison(q) PROVE OnTrack'
  <2>1. /\ asked' \subseteq asked /\ nav' = nav
        /\ \E x : \E s \in {PreviewSucceeded(latest, x), PreviewFailed(latest),
                            CompareSucceeded(latest, x), CompareFailed(latest)} : Dispatch(s)
    BY <1>7 DEF AnswerPreview, AnswerComparison
  <2>2. \A x : \A s \in {PreviewSucceeded(latest, x), PreviewFailed(latest),
                         CompareSucceeded(latest, x), CompareFailed(latest)} : IsFlow(s)
    BY <1>0, FlowsAnswered
  <2>3. QED
    BY <2>1, <2>2, <1>0, AnswerOnTrack
<1>8. ASSUME NEW q \in asked, ExecutionSucceeds(q) \/ ExecutionRefused(q) \/ ExecutionFails(q)
      PROVE  OnTrack'
  <2>1. /\ q.kind = "execute" /\ asked' \subseteq asked
        /\ \E x : \E s \in {ExecuteSucceeded(latest, x), ExecuteFailed(latest, TRUE),
                            ExecuteFailed(latest, FALSE)} : Dispatch(s)
        /\ nav' \in {nav, Approved(nav, q), Invalidated(nav, {q.at})}
    BY <1>8 DEF ExecutionSucceeds, ExecutionRefused, ExecutionFails
  <2>2. \A x : \A s \in {ExecuteSucceeded(latest, x), ExecuteFailed(latest, TRUE),
                         ExecuteFailed(latest, FALSE)} : IsFlow(s)
    BY <1>0, FlowsAnswered
  <2>3. /\ shown.screen = "executing" /\ ~Stable(shown) /\ q.at = nav.current
        /\ nav.entries[nav.index].step = "review" /\ nav.current \in 0 .. nav.last
    BY <1>0, <2>1, ForwardIds DEF AtSend
  <2> DEFINE m == Invalidated(nav, {q.at})
  <2>4. /\ IsTrack(m) /\ m.entries = nav.entries /\ m.pos = nav.pos /\ m.ids = nav.ids
        /\ m.index = nav.index /\ m.current = nav.current /\ m.correcting = nav.correcting
        /\ m.suppress = nav.suppress /\ m.last = nav.last
        /\ DOMAIN m.snapshots \subseteq DOMAIN nav.snapshots
        /\ \A id \in DOMAIN m.snapshots : m.snapshots[id] = nav.snapshots[id]
    BY <1>0, <2>3, InvalidatedTrack
  <2> HIDE DEF m
  <2>5. Aligned(m)
    BY <1>0, <2>4 DEF Aligned
  <2>6. /\ IsTrack(nav') /\ Aligned(nav') /\ nav'.entries = nav.entries /\ nav'.index = nav.index
        /\ nav'.current = nav.current /\ nav'.correcting = nav.correcting
    BY <1>0, <2>1, <2>3, <2>4, <2>5, ApprovedTrack DEF m
  <2>7. QED
    BY <2>1, <2>2, <2>3, <2>6, AnswerOnTrack
<1>9. CASE Render
  <2>1. /\ shown' = latest /\ latest' = latest /\ due' = TRUE /\ asked' = asked
        /\ nav' = IF due THEN Synced(nav, shown, shownPanel) ELSE nav
    BY <1>9 DEF Render, Flushed
  <2>2. /\ IsTrack(nav') /\ Aligned(nav') /\ nav'.correcting = nav.correcting
        /\ ~Stable(shown) \/ nav.correcting # NoId => nav' = nav
    BY <2>1, <1>0, SyncedTrack
  <2>3. Sync'
    BY <2>1 DEF Sync
  <2>4. AtSend'
    BY <2>1, <2>2, <1>0 DEF AtSend
  <2>5. QED
    BY <2>1, <2>2, <2>3, <2>4, <1>0 DEF OnTrack
<1>10. CASE Effect
  <2>1. /\ shown' = shown /\ latest' = latest /\ asked' = asked /\ shownPanel' = shownPanel
        /\ nav' = Synced(nav, shown, shownPanel)
    BY <1>10 DEF Effect
  <2>2. /\ IsTrack(nav') /\ Aligned(nav') /\ nav'.correcting = nav.correcting
        /\ ~Stable(shown) \/ nav.correcting # NoId => nav' = nav
        /\ shownPanel = None /\ Stable(shown) /\ nav.correcting = NoId => Written(nav', shown)
    BY <2>1, <1>0, SyncedTrack
  <2>3. Sync'
    BY <2>1, <2>2 DEF Sync
  <2>4. AtSend'
    BY <2>1, <2>2, <1>0 DEF AtSend
  <2>5. QED
    BY <2>1, <2>2, <2>3, <2>4, <1>0 DEF OnTrack
<1>11. CASE (\E delta \in Delta : Move(delta)) \/ MoveDropped
  <2>1. \E queue \in Seq(Int) : nav' = [nav EXCEPT !.queue = queue]
    <3>1. nav.queue \in Seq(Int) /\ Delta \subseteq Int
      BY <1>0, FlowAssumption DEF IsTrack
    <3>2. CASE \E delta \in Delta : Move(delta)
      <4>1. PICK delta \in Delta : nav' = [nav EXCEPT !.queue = Append(nav.queue, delta)]
        BY <3>2, <1>0 DEF Move, IsTrack, HasFields, Fields
      <4>2. Append(nav.queue, delta) \in Seq(Int)
        BY <3>1
      <4>3. QED
        BY Zenon, <4>1, <4>2
    <3>3. CASE MoveDropped
      <4>1. nav.queue # <<>> /\ nav' = [nav EXCEPT !.queue = Tail(nav.queue)]
        BY <3>3, <1>0 DEF MoveDropped, IsTrack, HasFields, Fields
      <4>2. Tail(nav.queue) \in Seq(Int)
        BY <3>1, <4>1
      <4>3. QED
        BY Zenon, <4>1, <4>2
    <3>4. QED
      BY <1>11, <3>2, <3>3
  <2>2. /\ IsTrack(nav') /\ nav'.entries = nav.entries /\ nav'.pos = nav.pos
        /\ nav'.ids = nav.ids /\ nav'.index = nav.index /\ nav'.current = nav.current
        /\ nav'.snapshots = nav.snapshots /\ nav'.correcting = nav.correcting
        /\ nav'.suppress = nav.suppress /\ nav'.last = nav.last
    BY <2>1, <1>0 DEF IsTrack, HasFields, Fields
  <2>3. UNCHANGED <<latest, shown, shownPanel, due, asked>>
    BY <1>11 DEF Move, MoveDropped, screens
  <2>4. Aligned(nav')
    BY <2>2, <1>0 DEF Aligned
  <2>5. QED
    BY <2>2, <2>3, <2>4, <1>0 DEF OnTrack, Sync, Written, AtSend
<1>12. CASE CorrectionArrives
  <2> DEFINE n == [Arrived EXCEPT !.correcting = NoId]
  <2>1. /\ InsidePage /\ nav.correcting # NoId /\ ArrivedId = nav.correcting
        /\ Commit(n, latest, panel, TRUE) /\ asked' = asked
    BY <1>12 DEF CorrectionArrives
  <2>2. /\ IsTrack(n) /\ n.pos = Landing /\ n.correcting = NoId
        /\ n.entries = nav.entries /\ n.ids = nav.ids /\ n.index = nav.index
        /\ n.current = nav.current /\ n.snapshots = nav.snapshots
        /\ n.suppress = nav.suppress /\ n.last = nav.last
    BY <1>0, <2>1, Arriving DEF IsTrack, HasFields, Fields
  <2> HIDE DEF n
  <2>3. Landing = nav.index
    <3>1. Landing \in 1 .. Len(nav.ids) /\ ArrivedId = nav.ids[Landing]
      BY <1>0, <2>1, Arriving
    <3>2. QED
      BY <3>1, <2>1, <1>0 DEF Aligned
  <2>4. Aligned(n)
    <3>1. n.pos = n.index
      BY <2>2, <2>3
    <3>2. QED
      BY <1>0, <2>2, <3>1, AlignedAtHome
  <2>5. /\ IsFlow(latest') /\ IsFlow(shown') /\ IsTrack(nav') /\ Aligned(nav') /\ Sync'
        /\ nav'.correcting = NoId
        /\ ~Stable(latest) /\ (due => ~Stable(shown)) => nav' = n
    BY <1>0, <2>1, <2>2, <2>4, CommitTracks
  <2>6. latest' = latest /\ shown' = latest
    BY <2>1 DEF Commit
  <2>7. latest.screen = "executing" => nav' = n
    BY <1>0, <2>5 DEF Stable
  <2>8. AtSend'
    BY <2>1, <2>2, <2>5, <2>6, <2>7, <1>0 DEF AtSend
  <2>9. QED
    BY <2>5, <2>8 DEF OnTrack
<1>13. CASE MoveCorrected
  <2> DEFINE n == Correction(Arrived, ArrivedId)
  <2>1. /\ InsidePage
        /\ nav.correcting # NoId \/ shown.screen = "executing"
        /\ nav.correcting = NoId \/ ArrivedId # nav.correcting
        /\ Commit(n, latest, panel, FALSE) /\ asked' = asked
    BY <1>13 DEF MoveCorrected, Locked
  <2>2. /\ IsTrack(n) /\ Aligned(n) /\ n.entries = nav.entries /\ n.index = nav.index
        /\ n.current = nav.current
        /\ n.correcting = NoId => nav.correcting = NoId
    BY <1>0, <2>1, Correcting
  <2> HIDE DEF n
  <2>3. n.correcting = NoId => ~Stable(shown)
    BY <1>0, <2>1, <2>2
  <2>4. /\ IsFlow(latest') /\ IsFlow(shown') /\ IsTrack(nav') /\ Aligned(nav') /\ Sync'
        /\ nav'.correcting = n.correcting
        /\ n.correcting # NoId \/ (~Stable(latest) /\ (due => ~Stable(shown))) => nav' = n
    BY <1>0, <2>1, <2>2, <2>3, CommitTracks
  <2>5. latest' = latest /\ shown' = latest
    BY <2>1 DEF Commit
  <2>6. latest.screen = "executing" => nav' = n
    BY <1>0, <2>4 DEF Stable
  <2>7. AtSend'
    BY <2>1, <2>2, <2>4, <2>5, <2>6, <1>0 DEF AtSend
  <2>8. QED
    BY <2>4, <2>7 DEF OnTrack
<1>14. ASSUME Free, asked' = asked
       PROVE  /\ InsidePage /\ nav.correcting = NoId /\ ~due
              /\ \A q \in asked' : q.kind # "execute"
  BY <1>0, <1>14 DEF Free
<1>15. CASE MoveUnknown
  <2>1. InsidePage /\ IndexOf(nav, ArrivedId) = 0
    BY <1>15 DEF MoveUnknown, Free
  <2>2. Landing \in 1 .. Len(nav.ids) /\ IndexOf(nav, ArrivedId) = Landing
    BY <1>0, <2>1, Arriving
  <2>3. QED
    BY <2>1, <2>2
<1>16. CASE MoveUnrestorable
  <2> DEFINE n == At(Arrived, ArrivedId)
  <2>1. /\ Free /\ asked' = asked /\ Commit(n, latest, nav.entries[Landing].step, FALSE)
    BY <1>16 DEF MoveUnrestorable
  <2>2. IsTrack(n) /\ Aligned(n) /\ n.correcting = NoId
    BY <1>0, <1>14, <2>1, Following
  <2> HIDE DEF n
  <2>3. nav.entries[Landing].step # None
    <3>1. Landing \in DOMAIN nav.entries /\ nav.entries \in Seq(Entry)
      BY <2>1, <1>0 DEF Free, InsidePage, IsTrack
    <3>2. nav.entries[Landing] \in Entry
      BY <3>1
    <3>3. nav.entries[Landing].step \in Steps
      BY <3>2 DEF Entry
    <3>4. QED
      BY <3>3, FlowAssumption DEF Steps
  <2>4. latest.screen # "executing"
    BY <2>1, <1>0 DEF Free
  <2>5. QED
    BY <1>0, <1>14, <2>1, <2>2, <2>3, <2>4, QuietOnTrack
<1>17. CASE MoveRestored
  <2> DEFINE n == At(Arrived, ArrivedId)
             s == nav.snapshots[ArrivedId]
             next == IF s = shown THEN latest ELSE s
             armed == Restored(n, s)
  <2>1. /\ Free /\ asked' = asked /\ Restorable(nav, ArrivedId)
        /\ latest' = next /\ panel' = None /\ shown' = next /\ shownPanel' = None
        /\ IF next # shown \/ shownPanel # None
           THEN nav' = Synced(Flushed(armed), next, None) /\ due' = FALSE
           ELSE nav' = armed /\ due' = due
    BY <1>17 DEF MoveRestored, Commit
  <2>2. /\ IsTrack(n) /\ Aligned(n) /\ n.index = Landing /\ n.current = ArrivedId
        /\ n.snapshots = nav.snapshots /\ n.correcting = NoId /\ n.suppress = FALSE
    BY <1>0, <1>14, <2>1, Following
  <2>3. IsFlow(s) /\ Stable(s) /\ s.screen # "executing" /\ ArrivedId \in DOMAIN n.snapshots
    BY <2>1, <2>2, <1>0 DEF Restorable, IsTrack, Stable
  <2>4. Written(n, s)
    <3>1. /\ n.index \in 1 .. Len(n.ids) /\ n.current = n.ids[n.index]
          /\ n.entries[n.index].step = UrlStep(n.snapshots[n.ids[n.index]])
      BY <2>2, <2>3 DEF Aligned
    <3>2. QED
      BY <3>1, <2>2, <2>3 DEF Written
  <2> HIDE DEF n, s, next, armed
  <2>5. CASE s = shown
    <3>1. armed = n
      BY <2>2, <2>5 DEF armed, Restored, IsTrack, HasFields, Fields
    <3>2. Commit(n, latest, None, FALSE) /\ latest.screen # "executing"
      BY <2>1, <2>5, <3>1, <1>0 DEF Free, next, Commit
    <3>3. QED
      BY <3>2, <2>1, <2>2, <2>4, <2>5, <1>0, <1>14, QuietOnTrack
  <2>6. CASE s # shown
    <3>1. /\ armed.suppress = TRUE /\ armed.correcting = NoId
          /\ [armed EXCEPT !.suppress = FALSE] = n
      BY <2>2, <2>6 DEF armed, Restored, IsTrack, HasFields, Fields
    <3>2. next = s
      BY <2>6 DEF next
    <3>3. ~due
      BY <2>1, <1>14
    <3>4. /\ nav' = Synced(armed, s, None) /\ due' = FALSE
          /\ latest' = s /\ shown' = s /\ shownPanel' = None
      BY <2>1, <2>6, <3>2, <3>3 DEF Flushed
    <3>5. nav' = n
      BY <3>1, <3>4, <2>3 DEF Synced
    <3>6. Sync'
      BY <3>4, <3>5, <2>4 DEF Sync
    <3>7. AtSend'
      BY <3>4, <3>5, <2>1, <2>2, <2>3, <1>14 DEF AtSend
    <3>8. QED
      BY <3>4, <3>5, <3>6, <3>7, <2>2, <2>3 DEF OnTrack
  <2>7. QED
    BY <2>5, <2>6
<1>18. CASE UNCHANGED vars
  BY <1>18, <1>0 DEF vars, screens, OnTrack, Sync, AtSend, Written
<1>19. QED
  BY <1>3, <1>4, <1>5, <1>6, <1>7, <1>8, <1>9, <1>10, <1>11, <1>12, <1>13, <1>15, <1>16, <1>17, <1>18
  DEF Next, Answer, Land

(* Until the page is reloaded.                                             *)
Tracked == reloads \in Nat /\ (reloads = 0 => OnTrack)

LEMMA ReloadsCount ==
  [Next]_vars /\ reloads \in Nat => reloads' \in Nat /\ (reloads' = 0 => reloads = 0 /\ ~Reload)
<1> SUFFICES ASSUME [Next]_vars, reloads \in Nat
             PROVE  reloads' \in Nat /\ (reloads' = 0 => reloads = 0 /\ ~Reload)
  OBVIOUS
<1>1. CASE Reload
  BY <1>1 DEF Reload
<1>2. CASE ~Reload
  <2>1. Next \/ UNCHANGED vars
    OBVIOUS
  <2>2. reloads' = reloads
    BY Zenon, <1>2, <2>1
    DEF Next, Start, Restart, Edit, Submit, Confirm, RequestComparison, ViewTechnicalDetails,
        ResetAfterUnrecoverableStep, Answer, AnswerPreview, AnswerComparison, ExecutionSucceeds,
        ExecutionRefused, ExecutionFails, Render, Effect, Move, Land, MoveDropped,
        CorrectionArrives, MoveCorrected, MoveUnknown, MoveUnrestorable, MoveRestored, counters, vars
  <2>3. QED
    BY <1>2, <2>2
<1>3. QED
  BY <1>1, <1>2

LEMMA TrackedStep == Sending /\ Tracked /\ [Next]_vars => Tracked'
BY ReloadsCount, OnTrackStep DEF Tracked

(* Whenever nothing is pending, on a page that was not reloaded, the       *)
(* browser's entry, the component's references and the screen agree: for   *)
(* any user, waiting or not, any contents and bounds.                      *)
THEOREM HistoryTellsTheScreen == Spec => []HistoryIsHonest
<1>1. Init => Tracked
  BY OnTrackInit DEF Init, Tracked
<1>2. Tracked => HistoryIsHonest
  <2> SUFFICES ASSUME Tracked, AtRest, shownPanel = None, Stable(shown), reloads = 0
               PROVE  /\ nav.entries[nav.pos] = [id |-> nav.current, step |-> UrlStep(shown)]
                      /\ nav.ids[nav.index] = nav.current
                      /\ nav.current \in DOMAIN nav.snapshots /\ nav.snapshots[nav.current] = shown
                      /\ ~nav.suppress
    BY DEF HistoryIsHonest
  <2>1. IsTrack(nav) /\ Aligned(nav) /\ Written(nav, shown) /\ nav.correcting = NoId
    BY DEF Tracked, OnTrack, Sync, AtRest
  <2>2. /\ nav.pos = nav.index /\ nav.index \in 1 .. Len(nav.ids) /\ nav.current = nav.ids[nav.index]
        /\ nav.entries[nav.index].id = nav.current /\ ~nav.suppress
        /\ Len(nav.entries) = Len(nav.ids)
    BY <2>1 DEF Aligned
  <2>3. nav.entries[nav.index] \in Entry
    BY <2>1, <2>2 DEF IsTrack
  <2>4. nav.entries[nav.index] = [id |-> nav.current, step |-> UrlStep(shown)]
    BY <2>1, <2>2, <2>3 DEF Entry, Written
  <2>5. QED
    BY <2>1, <2>2, <2>4 DEF Written
<1>3. QED
  BY SendingInit, SendingStep, TrackedStep, <1>1, <1>2, PTL DEF Spec

-----------------------------------------------------------------------------
(* A user who waits.                                                       *)

(* A correction under way is queued: its step leads to where the flow is.  *)
HomeQueued(n) ==
    n.correcting # NoId => \E k \in 1 .. Len(n.queue) : n.queue[k] = n.index - n.pos

(* The screen and the panel lag behind only while an answer is rendered; a *)
(* request that is no send is the only one, and nothing happens before its *)
(* answer.                                                                 *)
Attended ==
    /\ HomeQueued(nav)
    /\ nav.correcting # NoId \/ shown.screen = "executing" => panel = None
    /\ panel = shownPanel
    /\ Stable(shown) => latest = shown
    /\ \A q \in asked : q.kind # "execute" =>
          /\ latest = shown /\ panel = None /\ nav.queue = <<>>
          /\ \/ q.kind = "preview" /\ latest.screen = "previewing" /\ q.compose = latest.compose
             \/ q.kind = "compare" /\ latest.screen = "comparing"
          /\ \A r \in asked : r = q

(* Back or Forward finds this screen at the entry.                         *)
Live(n, id, screen) ==
    id \in DOMAIN n.snapshots /\ id \notin n.barred /\ n.snapshots[id].screen = screen

(* The last Compose that can be come back to, up to the entry k, is of c.  *)
LastCompose(n, k, c) ==
    \A i \in 1 .. k :
       /\ Live(n, n.ids[i], "compose")
       /\ \A l \in i + 1 .. k : ~Live(n, n.ids[l], "compose")
       => n.snapshots[n.ids[i]].compose = c

(* A live Review is of the Compose one comes from.                         *)
OfItsCompose(n) ==
    \A j \in 1 .. Len(n.ids) :
       Live(n, n.ids[j], "review") => LastCompose(n, j, n.snapshots[n.ids[j]].compose)

(* No two entries have a live Review of one preview, and that of the       *)
(* preview at hand, if any, is where the flow is.                          *)
OneReview(n) ==
    \A x, y \in DOMAIN n.snapshots :
       Live(n, x, "review") /\ Live(n, y, "review")
         /\ n.snapshots[x].preview.n = n.snapshots[y].preview.n => x = y

ReviewIsHere(n, s) ==
    \A x \in DOMAIN n.snapshots :
       Live(n, x, "review") /\ n.snapshots[x].preview.n = s.preview.n => x = n.current

(* An entry has a snapshot or is barred, and no snapshot waits for anything. *)
Complete(n) ==
    /\ \A i \in 1 .. Len(n.ids) : n.ids[i] \in DOMAIN n.snapshots \/ n.ids[i] \in n.barred
    /\ \A x \in DOMAIN n.snapshots : Stable(n.snapshots[x])

Orderly(n, s, onPanel) ==
    /\ Complete(n) /\ OfItsCompose(n) /\ OneReview(n)
    /\ onPanel = None /\ s.screen \in {"previewing", "review", "executing"} =>
          LastCompose(n, n.index, s.compose)
    /\ onPanel = None /\ s.screen \in {"review", "executing"} => ReviewIsHere(n, s)

(* No Compose on the screen is written where nothing can be restored.      *)
ComposeIsOpen(n, onPanel) ==
    onPanel = None => ~(n.current \in n.barred /\ n.entries[n.index].step = "prepare")

(* The previews that may still be sent.                                    *)
Unsent == 1 .. requests \ done

(* Every Review on the screen or in the history is of one of them.         *)
Sendable(n, s, unsent) ==
    /\ \A x \in DOMAIN n.snapshots : Live(n, x, "review") => n.snapshots[x].preview.n \in unsent
    /\ s.screen \in {"review", "executing"} => s.preview.n \in unsent

(* What is sent is what is shown, and a preview asked for is nobody's yet. *)
Requested ==
    /\ requests \in Nat /\ done \subseteq 1 .. requests
    /\ \A q \in asked :
          /\ q.kind = "execute" => q.preview = latest.preview
          /\ q.kind = "preview" =>
               /\ q.n \in Unsent
               /\ \A x \in DOMAIN nav.snapshots : Live(nav, x, "review") => nav.snapshots[x].preview.n # q.n

Tidy(n, s, onPanel, unsent) == Orderly(n, s, onPanel) /\ Sendable(n, s, unsent)

Waiting ==
    /\ OnTrack /\ Attended /\ Requested
    /\ Tidy(nav, latest, panel, Unsent) /\ ComposeIsOpen(nav, panel)

WaitedFor == reloads \in Nat /\ (reloads = 0 => Waiting)

(* What becomes of the Composes decides what becomes of the last of them.  *)
LEMMA SameComposes ==
  ASSUME NEW n, NEW m, NEW k, NEW c, LastCompose(n, k, c),
         \A l \in 1 .. k :
            /\ Live(m, m.ids[l], "compose") <=> Live(n, n.ids[l], "compose")
            /\ Live(n, n.ids[l], "compose") =>
                 m.snapshots[m.ids[l]].compose = n.snapshots[n.ids[l]].compose
  PROVE  LastCompose(m, k, c)
<1> SUFFICES ASSUME NEW i \in 1 .. k, Live(m, m.ids[i], "compose"),
                    \A l \in i + 1 .. k : ~Live(m, m.ids[l], "compose")
             PROVE  m.snapshots[m.ids[i]].compose = c
  BY DEF LastCompose
<1>1. \A l \in i + 1 .. k : l \in 1 .. k
  OBVIOUS
<1>2. QED
  BY <1>1 DEF LastCompose

(* What a live Compose or Review says of the step of its entry.            *)
LEMMA LiveSteps ==
  ASSUME NEW n, IsTrack(n), Aligned(n)
  PROVE  /\ Live(n, n.current, "compose") => n.entries[n.index].step = "prepare"
         /\ Live(n, n.current, "review") => n.entries[n.index].step = "review"
<1>1. n.current \in DOMAIN n.snapshots => n.entries[n.index].step = UrlStep(n.snapshots[n.current])
  BY DEF Aligned
<1>2. QED
  BY <1>1 DEF Live, UrlStep

LEMMA PrepareOrReview ==
  ASSUME NEW s, IsFlow(s)
  PROVE  /\ UrlStep(s) = "prepare" <=> s.screen \in {"compose", "previewing"}
         /\ UrlStep(s) = "review" <=> s.screen \in {"review", "approvedReview"}
<1>1. CASE s.screen \in {"compose", "previewing"}
  BY <1>1 DEF UrlStep
<1>2. CASE s.screen \in {"review", "approvedReview"}
  BY <1>2 DEF UrlStep
<1>3. CASE s.screen \in {"welcome", "executing", "result"}
  BY <1>3 DEF UrlStep
<1>4. CASE s.screen \in {"comparing", "comparison", "technicalDetails"}
  BY <1>4 DEF UrlStep
<1>5. QED
  BY <1>1, <1>2, <1>3, <1>4 DEF IsFlow, Screens

(* The history effect, entry by entry: it writes where it is, or opens an  *)
(* entry after it.                                                         *)
LEMMA RewritingKeepsOrder ==
  ASSUME NEW n, IsTrack(n), Aligned(n), NEW s, IsFlow(s), Stable(s), Orderly(n, s, None),
         n.correcting = NoId, n.entries[n.index].step = UrlStep(s),
         NEW m, NEW gone \in {{}, Forward(n)}, Rewrites(n, m, s, gone),
         gone = Forward(n) \/ ~IsComposeEdit(n, s)
  PROVE  Orderly(m, s, None)
<1>1. /\ m.ids = n.ids /\ m.index = n.index /\ m.current = n.current
      /\ m.barred = n.barred \cup gone
      /\ DOMAIN m.snapshots = (DOMAIN n.snapshots \ gone) \cup {n.current}
      /\ m.snapshots[n.current] = s
      /\ \A x \in DOMAIN n.snapshots \ gone : x # n.current => m.snapshots[x] = n.snapshots[x]
  BY DEF Rewrites, Records
<1>2. /\ n.index \in 1 .. Len(n.ids) /\ Len(n.ids) \in Nat /\ n.current = n.ids[n.index]
      /\ \A i, j \in 1 .. Len(n.ids) : n.ids[i] = n.ids[j] => i = j
  BY DEF Aligned, IsTrack
<1>3. /\ n.current \notin gone
      /\ gone = Forward(n) => \A i \in 1 .. Len(n.ids) : n.ids[i] \in gone <=> i > n.index
      /\ gone # Forward(n) => gone = {}
  BY ForwardIds
<1>4. \A x, screen : x # n.current => (Live(m, x, screen) <=> Live(n, x, screen) /\ x \notin gone)
  BY <1>1 DEF Live
<1>5. \A screen : Live(m, n.current, screen) <=> n.current \notin n.barred /\ s.screen = screen
  BY <1>1, <1>3 DEF Live
<1>6. \A x, screen : x # n.current /\ Live(m, x, screen) => m.snapshots[x] = n.snapshots[x]
  BY <1>1, <1>4 DEF Live
<1>7. Complete(n) /\ OfItsCompose(n) /\ OneReview(n)
      /\ (s.screen = "review" => LastCompose(n, n.index, s.compose) /\ ReviewIsHere(n, s))
  BY DEF Orderly
(* The Composes before the current entry are what they were.               *)
<1>8. ASSUME NEW l \in 1 .. Len(n.ids), l # n.index, n.ids[l] \notin gone
      PROVE  /\ Live(m, m.ids[l], "compose") <=> Live(n, n.ids[l], "compose")
             /\ Live(n, n.ids[l], "compose") =>
                  m.snapshots[m.ids[l]].compose = n.snapshots[n.ids[l]].compose
  <2>1. n.ids[l] # n.current
    BY <1>2, <1>8
  <2>2. QED
    BY <2>1, <1>1, <1>4, <1>6, <1>8
<1>9. ASSUME s.screen # "compose"
      PROVE  ~Live(m, m.ids[n.index], "compose") /\ ~Live(n, n.ids[n.index], "compose")
  <2>1. UrlStep(s) # "prepare"
    BY <1>9 DEF IsFlow, Screens, Stable, UrlStep
  <2>2. ~Live(n, n.current, "compose")
    BY <2>1, LiveSteps
  <2>3. QED
    BY <2>2, <1>1, <1>2, <1>5, <1>9
<1>10. ASSUME s.screen = "compose", ~IsComposeEdit(n, s)
       PROVE  /\ Live(m, n.current, "compose") <=> Live(n, n.current, "compose")
              /\ Live(n, n.current, "compose") => n.snapshots[n.current].compose = s.compose
  <2>1. CASE n.current \in n.barred
    BY <2>1, <1>5 DEF Live
  <2>2. CASE n.current \notin n.barred
    <3>1. n.current \in DOMAIN n.snapshots /\ Stable(n.snapshots[n.current])
      BY <2>2, <1>2, <1>7 DEF Complete
    <3>2. n.entries[n.index].step = UrlStep(n.snapshots[n.current])
      BY <3>1 DEF Aligned
    <3>3. IsFlow(n.snapshots[n.current])
      BY <3>1 DEF IsTrack
    <3>4. n.snapshots[n.current].screen = "compose"
      BY <3>1, <3>2, <3>3, <1>10, PrepareOrReview DEF Stable
    <3>5. QED
      BY <3>1, <3>4, <2>2, <1>5, <1>10 DEF IsComposeEdit, Live
  <2>3. QED
    BY <2>1, <2>2
<1>11. Complete(m)
  BY <1>1, <1>7 DEF Complete
<1>12. s.screen = "review" => LastCompose(m, n.index, s.compose)
  <2> SUFFICES ASSUME s.screen = "review" PROVE LastCompose(m, n.index, s.compose)
    OBVIOUS
  <2>1. \A l \in 1 .. n.index : l \in 1 .. Len(n.ids) /\ (l # n.index => n.ids[l] \notin gone)
    BY <1>2, <1>3
  <2>2. \A l \in 1 .. n.index :
           /\ Live(m, m.ids[l], "compose") <=> Live(n, n.ids[l], "compose")
           /\ Live(n, n.ids[l], "compose") =>
                m.snapshots[m.ids[l]].compose = n.snapshots[n.ids[l]].compose
    BY <2>1, <1>8, <1>9
  <2>3. QED
    BY <2>2, <1>7, SameComposes
<1>13. ASSUME NEW j \in 1 .. Len(n.ids), Live(m, m.ids[j], "review")
       PROVE  LastCompose(m, j, m.snapshots[m.ids[j]].compose)
  <2>1. CASE j = n.index
    <3>1. s.screen = "review" /\ m.snapshots[m.ids[j]] = s
      BY <2>1, <1>1, <1>2, <1>5, <1>13
    <3>2. QED
      BY <2>1, <3>1, <1>12
  <2>2. CASE j # n.index
    <3>1. /\ n.ids[j] # n.current /\ Live(n, n.ids[j], "review") /\ n.ids[j] \notin gone
          /\ m.snapshots[m.ids[j]] = n.snapshots[n.ids[j]]
      BY <2>2, <1>1, <1>2, <1>4, <1>6, <1>13
    <3>2. LastCompose(n, j, n.snapshots[n.ids[j]].compose)
      BY <3>1, <1>7 DEF OfItsCompose
    <3>3. \A l \in 1 .. j : l \in 1 .. Len(n.ids) /\ n.ids[l] \notin gone
      BY <3>1, <1>2, <1>3
    <3>4. ASSUME n.index \in 1 .. j
          PROVE  /\ Live(m, m.ids[n.index], "compose") <=> Live(n, n.ids[n.index], "compose")
                 /\ Live(n, n.ids[n.index], "compose") =>
                      m.snapshots[m.ids[n.index]].compose = n.snapshots[n.ids[n.index]].compose
      <4>1. gone # Forward(n) \/ ~IsComposeEdit(n, s)
        BY <3>1, <3>4, <2>2, <1>2, <1>3
      <4>2. QED
        BY <4>1, <1>1, <1>2, <1>9, <1>10
    <3>5. \A l \in 1 .. j :
             /\ Live(m, m.ids[l], "compose") <=> Live(n, n.ids[l], "compose")
             /\ Live(n, n.ids[l], "compose") =>
                  m.snapshots[m.ids[l]].compose = n.snapshots[n.ids[l]].compose
      BY <3>3, <3>4, <1>8
    <3>6. QED
      BY <3>1, <3>2, <3>5, SameComposes
  <2>3. QED
    BY <2>1, <2>2
<1>14. OfItsCompose(m)
  BY <1>1, <1>13 DEF OfItsCompose
<1>15. ASSUME NEW x \in DOMAIN m.snapshots, x # n.current, Live(m, x, "review"), s.screen = "review"
       PROVE  m.snapshots[x].preview.n # s.preview.n
  BY <1>4, <1>6, <1>7, <1>15 DEF ReviewIsHere, Live
<1>16. s.screen = "review" => ReviewIsHere(m, s)
  BY <1>1, <1>15 DEF ReviewIsHere
<1>17. OneReview(m)
  <2> SUFFICES ASSUME NEW x \in DOMAIN m.snapshots, NEW y \in DOMAIN m.snapshots,
                      Live(m, x, "review"), Live(m, y, "review"),
                      m.snapshots[x].preview.n = m.snapshots[y].preview.n, x # y
               PROVE  FALSE
    BY DEF OneReview
  <2>1. CASE x = n.current \/ y = n.current
    BY <2>1, <1>1, <1>5, <1>15
  <2>2. CASE x # n.current /\ y # n.current
    BY <2>2, <1>4, <1>6, <1>7 DEF OneReview, Live
  <2>3. QED
    BY <2>1, <2>2
<1>18. QED
  BY <1>1, <1>11, <1>12, <1>14, <1>16, <1>17 DEF Orderly, Stable

LEMMA OneFurther ==
  ASSUME NEW n, NEW k \in Nat, NEW c, LastCompose(n, k, c), ~Live(n, n.ids[k + 1], "compose")
  PROVE  LastCompose(n, k + 1, c)
<1> SUFFICES ASSUME NEW i \in 1 .. k + 1, Live(n, n.ids[i], "compose"),
                    \A l \in i + 1 .. k + 1 : ~Live(n, n.ids[l], "compose")
             PROVE  n.snapshots[n.ids[i]].compose = c
  BY DEF LastCompose
<1>1. i \in 1 .. k /\ \A l \in i + 1 .. k : l \in i + 1 .. k + 1
  OBVIOUS
<1>2. QED
  BY <1>1 DEF LastCompose

LEMMA OpeningKeepsOrder ==
  ASSUME NEW n, IsTrack(n), Aligned(n), NEW s, IsFlow(s), Stable(s), Orderly(n, s, None),
         n.correcting = NoId, n.entries[n.index].step # UrlStep(s), NEW m, Opens(n, m, s)
  PROVE  Orderly(m, s, None) /\ m.current \notin m.barred
<1> DEFINE k == n.index
<1>1. /\ m.index = k + 1 /\ m.current = n.last + 1 /\ Len(m.ids) = k + 1
      /\ \A i \in 1 .. k : m.ids[i] = n.ids[i]
      /\ m.ids[k + 1] = m.current /\ m.barred = n.barred \ Forward(n)
      /\ DOMAIN m.snapshots = (DOMAIN n.snapshots \ Forward(n)) \cup {m.current}
      /\ m.snapshots[m.current] = s
      /\ \A x \in DOMAIN n.snapshots \ Forward(n) :
            x # m.current => m.snapshots[x] = n.snapshots[x]
  BY DEF Opens, Records
<1>2. /\ k \in 1 .. Len(n.ids) /\ Len(n.ids) \in Nat /\ n.current = n.ids[k]
      /\ n.last \in Nat /\ n.barred \subseteq 0 .. n.last
      /\ \A i \in 1 .. Len(n.ids) : n.ids[i] \in 0 .. n.last
  BY DEF Aligned, IsTrack
<1>3. Complete(n) /\ OfItsCompose(n) /\ OneReview(n)
      /\ (s.screen = "review" => LastCompose(n, k, s.compose) /\ ReviewIsHere(n, s))
  BY DEF Orderly
<1>4. \A i \in 1 .. Len(n.ids) : n.ids[i] \in Forward(n) <=> i > k
  BY ForwardIds
<1> HIDE DEF k
<1>5. \A i \in 1 .. k : i \in 1 .. Len(n.ids) /\ n.ids[i] \notin Forward(n) /\ n.ids[i] # m.current
  BY <1>1, <1>2, <1>4
<1>6. m.current \notin m.barred /\ \A screen : Live(m, m.current, screen) <=> s.screen = screen
  BY <1>1, <1>2 DEF Live
<1>7. \A x, screen : x # m.current =>
        /\ Live(m, x, screen) <=> Live(n, x, screen) /\ x \notin Forward(n)
        /\ Live(m, x, screen) => m.snapshots[x] = n.snapshots[x]
  BY <1>1 DEF Live
<1>8. ASSUME NEW l \in 1 .. k
      PROVE  /\ Live(m, m.ids[l], "compose") <=> Live(n, n.ids[l], "compose")
             /\ Live(n, n.ids[l], "compose") =>
                  m.snapshots[m.ids[l]].compose = n.snapshots[n.ids[l]].compose
  BY <1>1, <1>5, <1>7
<1>9. Complete(m)
  <2>1. \A i \in 1 .. k : n.ids[i] \in DOMAIN n.snapshots \/ n.ids[i] \in n.barred
    BY <1>3, <1>5 DEF Complete
  <2>2. \A i \in 1 .. k + 1 : m.ids[i] \in DOMAIN m.snapshots \/ m.ids[i] \in m.barred
    <3>1. \A i \in 1 .. k + 1 : i \in 1 .. k \/ i = k + 1
      BY <1>2
    <3>2. QED
      BY <3>1, <2>1, <1>1, <1>5
  <2>3. \A x \in DOMAIN m.snapshots : Stable(m.snapshots[x])
    BY <1>1, <1>3 DEF Complete
  <2>4. QED
    BY <2>2, <2>3, <1>1 DEF Complete
<1>10. s.screen = "review" => LastCompose(m, k + 1, s.compose)
  <2> SUFFICES ASSUME s.screen = "review" PROVE LastCompose(m, k + 1, s.compose)
    OBVIOUS
  <2>1. LastCompose(m, k, s.compose)
    BY <1>3, <1>8, SameComposes
  <2>2. ~Live(m, m.ids[k + 1], "compose") /\ k \in Nat
    BY <1>1, <1>2, <1>6
  <2>3. QED
    BY <2>1, <2>2, OneFurther
<1>11. ASSUME NEW j \in 1 .. k + 1, Live(m, m.ids[j], "review")
       PROVE  LastCompose(m, j, m.snapshots[m.ids[j]].compose)
  <2>1. CASE j = k + 1
    BY <2>1, <1>1, <1>6, <1>10, <1>11
  <2>2. CASE j \in 1 .. k
    <3>1. Live(n, n.ids[j], "review") /\ m.snapshots[m.ids[j]] = n.snapshots[n.ids[j]]
      BY <2>2, <1>1, <1>5, <1>7, <1>11
    <3>2. LastCompose(n, j, n.snapshots[n.ids[j]].compose)
      BY <2>2, <3>1, <1>3, <1>5 DEF OfItsCompose
    <3>3. \A l \in 1 .. j : l \in 1 .. k
      BY <2>2, <1>2
    <3>4. QED
      BY <3>1, <3>2, <3>3, <1>8, SameComposes
  <2>3. QED
    BY <2>1, <2>2, <1>2
<1>12. OfItsCompose(m)
  BY <1>1, <1>11 DEF OfItsCompose
<1>13. ASSUME NEW x \in DOMAIN m.snapshots, x # m.current, Live(m, x, "review"), s.screen = "review"
       PROVE  m.snapshots[x].preview.n # s.preview.n
  <2>1. Live(n, x, "review") /\ x \in DOMAIN n.snapshots /\ m.snapshots[x] = n.snapshots[x]
    BY <1>7, <1>13 DEF Live
  <2>2. UrlStep(s) = "review"
    BY <1>13, PrepareOrReview
  <2>3. x # n.current
    BY <2>1, <2>2, LiveSteps
  <2>4. QED
    BY <2>1, <2>3, <1>3, <1>13 DEF ReviewIsHere
<1>14. s.screen = "review" => ReviewIsHere(m, s)
  BY <1>13 DEF ReviewIsHere
<1>15. OneReview(m)
  <2> SUFFICES ASSUME NEW x \in DOMAIN m.snapshots, NEW y \in DOMAIN m.snapshots,
                      Live(m, x, "review"), Live(m, y, "review"),
                      m.snapshots[x].preview.n = m.snapshots[y].preview.n, x # y
               PROVE  FALSE
    BY DEF OneReview
  <2>1. CASE x = m.current \/ y = m.current
    BY <2>1, <1>1, <1>6, <1>13
  <2>2. CASE x # m.current /\ y # m.current
    BY <2>2, <1>3, <1>7 DEF OneReview, Live
  <2>3. QED
    BY <2>1, <2>2
<1>16. QED
  BY <1>1, <1>6, <1>9, <1>10, <1>12, <1>14, <1>15 DEF Orderly, Stable

(* The history effect keeps the order, and no Compose closed.              *)
LEMMA SyncedTidy ==
  ASSUME NEW n, IsTrack(n), Aligned(n), NEW s, IsFlow(s), NEW onPanel, NEW unsent,
         Tidy(n, s, onPanel, unsent)
  PROVE  LET m == Synced(n, s, onPanel)
         IN  Tidy(m, s, onPanel, unsent) /\ (ComposeIsOpen(n, onPanel) => ComposeIsOpen(m, onPanel))
<1> DEFINE m == Synced(n, s, onPanel)
<1>1. IF onPanel # None \/ ~Stable(s) \/ n.correcting # NoId
      THEN m = n
      ELSE \/ /\ n.entries[n.index].step = UrlStep(s)
              /\ \E gone \in {{}, Forward(n)} :
                   /\ Rewrites(n, m, s, gone)
                   /\ gone = Forward(n) \/ ~IsComposeEdit(n, s)
           \/ n.entries[n.index].step # UrlStep(s) /\ Opens(n, m, s)
  BY SyncedTrack
<1> HIDE DEF m
<1>2. CASE m = n
  BY <1>2 DEF m
<1>3. ASSUME onPanel = None, Stable(s), n.correcting = NoId, n.entries[n.index].step = UrlStep(s),
             NEW gone \in {{}, Forward(n)}, Rewrites(n, m, s, gone),
             gone = Forward(n) \/ ~IsComposeEdit(n, s)
      PROVE  Tidy(m, s, onPanel, unsent) /\ (ComposeIsOpen(n, onPanel) => ComposeIsOpen(m, onPanel))
  <2>1. Orderly(m, s, None)
    BY <1>3, RewritingKeepsOrder DEF Tidy
  <2>2. n.current \notin gone
    BY ForwardIds
  <2>3. Sendable(m, s, unsent)
    BY <1>3, <2>2 DEF Tidy, Sendable, Live, Rewrites, Records
  <2>4. ComposeIsOpen(n, onPanel) => ComposeIsOpen(m, onPanel)
    BY <1>3, <2>2 DEF ComposeIsOpen, Rewrites
  <2>5. QED
    BY <1>3, <2>1, <2>3, <2>4 DEF Tidy
<1>4. ASSUME onPanel = None, Stable(s), n.correcting = NoId, n.entries[n.index].step # UrlStep(s),
             Opens(n, m, s)
      PROVE  Tidy(m, s, onPanel, unsent) /\ ComposeIsOpen(m, onPanel)
  <2>1. Orderly(m, s, None) /\ m.current \notin m.barred
    BY <1>4, OpeningKeepsOrder DEF Tidy
  <2>2. Sendable(m, s, unsent)
    BY <1>4 DEF Tidy, Sendable, Live, Opens, Records
  <2>3. QED
    BY <1>4, <2>1, <2>2 DEF Tidy, ComposeIsOpen
<1>5. QED
  BY <1>1, <1>2, <1>3, <1>4 DEF m

(* A click or a popstate.                                                  *)
LEMMA CommitTidy ==
  ASSUME IsFlow(shown), NEW n, IsTrack(n), Aligned(n), NEW s, IsFlow(s), NEW onPanel, NEW bumped,
         Commit(n, s, onPanel, bumped), NEW unsent, Tidy(n, s, onPanel, unsent),
         due /\ Stable(shown) => shown = s /\ shownPanel = onPanel
  PROVE  /\ Tidy(nav', latest', panel', unsent)
         /\ ComposeIsOpen(n, onPanel) => ComposeIsOpen(nav', panel')
<1> DEFINE f == Flushed(n)
<1>1. /\ latest' = s /\ panel' = onPanel
      /\ nav' = Synced(f, s, onPanel) \/ nav' = n
  BY DEF Commit
<1>2. CASE f = n
  BY <1>1, <1>2, SyncedTidy
<1>3. CASE f # n
  <2>1. due /\ Stable(shown)
    BY <1>3 DEF Flushed, Synced
  <2>2. f = Synced(n, s, onPanel)
    BY <2>1 DEF Flushed
  <2> HIDE DEF f
  <2>3. Tidy(f, s, onPanel, unsent) /\ (ComposeIsOpen(n, onPanel) => ComposeIsOpen(f, onPanel))
    BY <2>2, SyncedTidy
  <2>4. IsTrack(f) /\ Aligned(f)
    BY <2>2, SyncedTrack
  <2>5. QED
    BY <1>1, <2>3, <2>4, SyncedTidy
<1>4. QED
  BY <1>2, <1>3

(* What moves, but records nothing, keeps the order.                       *)
LEMMA SameRecords ==
  ASSUME NEW n, NEW m, m.ids = n.ids, m.snapshots = n.snapshots, m.barred = n.barred
  PROVE  /\ \A x, screen : Live(m, x, screen) <=> Live(n, x, screen)
         /\ \A k, c : LastCompose(n, k, c) => LastCompose(m, k, c)
         /\ Complete(n) /\ OfItsCompose(n) /\ OneReview(n) =>
              Complete(m) /\ OfItsCompose(m) /\ OneReview(m)
         /\ \A s, unsent : Sendable(n, s, unsent) => Sendable(m, s, unsent)
         /\ \A s, onPanel, unsent :
              m.index = n.index /\ m.current = n.current /\ Tidy(n, s, onPanel, unsent)
                => Tidy(m, s, onPanel, unsent)
<1>1. \A x, screen : Live(m, x, screen) <=> Live(n, x, screen)
  BY DEF Live
<1>2. \A k, c : LastCompose(n, k, c) => LastCompose(m, k, c)
  BY <1>1 DEF LastCompose
<1>3. Complete(n) /\ OfItsCompose(n) /\ OneReview(n) =>
        Complete(m) /\ OfItsCompose(m) /\ OneReview(m)
  BY <1>1, <1>2 DEF Complete, OfItsCompose, OneReview
<1>4. \A s, unsent : Sendable(n, s, unsent) => Sendable(m, s, unsent)
  BY <1>1 DEF Sendable
<1>5. \A s : m.current = n.current /\ ReviewIsHere(n, s) => ReviewIsHere(m, s)
  BY <1>1 DEF ReviewIsHere
<1>6. QED
  BY <1>1, <1>2, <1>3, <1>4, <1>5 DEF Tidy, Orderly

(* Fewer live Reviews, and the same Composes.                              *)
LEMMA FewerReviews ==
  ASSUME NEW n, IsTrack(n), Aligned(n), n.entries[n.index].step = "review",
         NEW m, m.ids = n.ids, m.index = n.index, m.current = n.current, m.entries = n.entries,
         n.barred \subseteq m.barred, \A x \in m.barred : x = n.current \/ x \in n.barred,
         DOMAIN m.snapshots \subseteq DOMAIN n.snapshots,
         \A x \in DOMAIN n.snapshots : x # n.current => x \in DOMAIN m.snapshots,
         \A x \in DOMAIN m.snapshots : x # n.current => m.snapshots[x] = n.snapshots[x],
         ~Live(m, n.current, "compose"), ~Live(m, n.current, "review"),
         Complete(m), OfItsCompose(n), OneReview(n)
  PROVE  /\ OfItsCompose(m) /\ OneReview(m)
         /\ \A onPanel : ComposeIsOpen(m, onPanel)
         /\ \A x : Live(m, x, "review") =>
              x # n.current /\ Live(n, x, "review") /\ m.snapshots[x] = n.snapshots[x]
<1>1. ~Live(n, n.current, "compose")
  BY LiveSteps
<1>2. \A x, screen : x # n.current =>
        /\ Live(m, x, screen) <=> Live(n, x, screen)
        /\ Live(m, x, screen) => m.snapshots[x] = n.snapshots[x]
  BY DEF Live
<1>3. \A x : /\ Live(m, x, "compose") <=> Live(n, x, "compose")
             /\ Live(n, x, "compose") => m.snapshots[x].compose = n.snapshots[x].compose
  BY <1>1, <1>2
<1>4. \A x : Live(m, x, "review") =>
         x # n.current /\ Live(n, x, "review") /\ m.snapshots[x] = n.snapshots[x]
  BY <1>2
<1>5. \A k, c : LastCompose(n, k, c) => LastCompose(m, k, c)
  BY <1>3, SameComposes
<1>6. OfItsCompose(m)
  BY <1>4, <1>5 DEF OfItsCompose
<1>7. OneReview(m)
  BY <1>4 DEF OneReview, Live
<1>8. QED
  BY <1>4, <1>6, <1>7 DEF ComposeIsOpen

(* What is known of the other variables by what is on the screen, or asked. *)
LEMMA NothingAsked ==
  ASSUME Sending, Waiting, Stable(shown) PROVE latest = shown /\ panel = shownPanel /\ asked = {}
<1>1. latest = shown /\ panel = shownPanel
  BY DEF Waiting, Attended
<1>2. ASSUME NEW q \in asked PROVE FALSE
  <2>1. CASE q.kind = "execute"
    BY <1>1, <2>1 DEF Sending, OneSendAtATime, Stable
  <2>2. CASE q.kind # "execute"
    BY <1>1, <2>2 DEF Waiting, Attended, Stable
  <2>3. QED
    BY <2>1, <2>2
<1>3. QED
  BY <1>1, <1>2

LEMMA OnlyRequest ==
  ASSUME Sending, Waiting, NEW q \in asked, q.kind # "execute"
  PROVE  /\ asked = {q} /\ latest = shown /\ ~Stable(shown)
         /\ panel = None /\ shownPanel = None /\ nav.queue = <<>> /\ nav.correcting = NoId
         /\ \/ q.kind = "preview" /\ latest.screen = "previewing" /\ q.compose = latest.compose
            \/ q.kind = "compare" /\ latest.screen = "comparing"
<1>1. /\ latest = shown /\ panel = None /\ shownPanel = None /\ nav.queue = <<>>
      /\ \/ q.kind = "preview" /\ latest.screen = "previewing" /\ q.compose = latest.compose
         \/ q.kind = "compare" /\ latest.screen = "comparing"
      /\ \A r \in asked : r = q
  BY DEF Waiting, Attended
<1>2. nav.correcting = NoId
  BY <1>1 DEF Waiting, Attended, HomeQueued
<1>3. QED
  BY <1>1, <1>2 DEF Stable

LEMMA OnlySend ==
  ASSUME Sending, Waiting, NEW q \in asked, q.kind = "execute"
  PROVE  /\ asked = {q} /\ latest.screen = "executing" /\ shown.screen = "executing"
         /\ panel = None /\ shownPanel = None /\ q.preview = latest.preview
         /\ q.at = nav.current /\ nav.entries[nav.index].step = "review"
<1>1. /\ latest.screen = "executing" /\ shown.screen = "executing"
      /\ panel = None /\ shownPanel = None
      /\ \A r \in asked : r.kind = "execute" => r = q
  BY DEF Sending, OneSendAtATime, SendIsShown
<1>2. \A r \in asked : r.kind = "execute"
  BY <1>1, OnlyRequest
<1>3. q.preview = latest.preview /\ q.at = nav.current /\ nav.entries[nav.index].step = "review"
  BY <1>1 DEF Waiting, Requested, OnTrack, AtSend
<1>4. QED
  BY <1>1, <1>2, <1>3

LEMMA CommitParts ==
  ASSUME IsFlow(shown), NEW n, IsTrack(n), Aligned(n), NEW s, IsFlow(s), NEW onPanel, NEW bumped,
         Commit(n, s, onPanel, bumped)
  PROVE  /\ nav'.queue = n.queue /\ nav'.correcting = n.correcting
         /\ n.correcting # NoId => nav' = n
<1> DEFINE f == Flushed(n)
<1>1. /\ IsTrack(f) /\ Aligned(f) /\ f.queue = n.queue /\ f.correcting = n.correcting
      /\ n.correcting # NoId => f = n
  BY SyncedTrack DEF Flushed
<1>2. nav' = Synced(f, s, onPanel) \/ nav' = n
  BY DEF Commit
<1> HIDE DEF f
<1>3. QED
  BY <1>1, <1>2, SyncedTrack

(* A click that asks for nothing, or a popstate.                           *)
LEMMA WaitingCommit ==
  ASSUME Sending, Waiting, Sending', OnTrack',
         NEW n, IsTrack(n), Aligned(n), HomeQueued(n), NEW s, IsFlow(s), NEW onPanel, NEW bumped,
         Commit(n, s, onPanel, bumped),
         n.correcting # NoId \/ s.screen = "executing" => onPanel = None,
         Tidy(n, s, onPanel, Unsent), ComposeIsOpen(n, onPanel) \/ ComposeIsOpen(nav', panel'),
         due /\ Stable(shown) => shown = s /\ shownPanel = onPanel,
         \A q \in asked : q.kind = "execute" /\ s = latest,
         asked' = asked, done' = done, requests' = requests
  PROVE  Waiting'
<1>1. latest' = s /\ panel' = onPanel /\ shown' = s /\ shownPanel' = onPanel
  BY DEF Commit
<1>0. IsFlow(shown)
  BY DEF Waiting, OnTrack
<1>2. /\ nav'.correcting = n.correcting
      /\ n.correcting # NoId => nav' = n
  BY <1>0, CommitParts
<1>3. HomeQueued(nav')
  BY <1>2 DEF HomeQueued
<1>4. Attended'
  BY <1>1, <1>2, <1>3 DEF Attended
<1>5. Tidy(nav', latest', panel', Unsent) /\ ComposeIsOpen(nav', panel') /\ Unsent' = Unsent
  BY <1>0, CommitTidy DEF Unsent
<1>6. Requested'
  BY <1>1, <1>5 DEF Waiting, Requested
<1>7. QED
  BY <1>4, <1>5, <1>6 DEF Waiting

(* A click that asks for something.                                        *)
LEMMA RequestMade ==
  ASSUME Sending, Waiting, ~due, shownPanel = None, Stable(shown),
         NEW screen \in {"previewing", "executing", "comparing"},
         Click([shown EXCEPT !.screen = screen])
  PROVE  /\ nav' = nav /\ latest' = shown' /\ panel' = None /\ shownPanel' = None /\ asked = {}
         /\ latest'.screen = screen /\ latest'.compose = shown.compose
         /\ latest'.preview = shown.preview /\ latest = shown /\ panel = None
         /\ nav.correcting = NoId => Written(nav, shown)
<1> DEFINE s == [shown EXCEPT !.screen = screen]
<1>1. IsFlow(shown) /\ screen \in Screens
  BY DEF Waiting, OnTrack, Screens
<1>2. s.screen = screen /\ s.compose = shown.compose /\ s.preview = shown.preview
  BY <1>1, FlowsChanged
<1>3. ~Stable(s) /\ s # shown
  BY <1>2 DEF Stable
<1>4. latest' = s /\ shown' = s /\ panel' = None /\ shownPanel' = None /\ nav' = Synced(nav, s, None)
  BY <1>3 DEF Click, Commit, Flushed
<1> HIDE DEF s
<1>5. nav' = nav
  BY <1>3, <1>4 DEF Synced
<1>6. nav.correcting = NoId => Written(nav, shown)
  BY DEF Waiting, OnTrack, Sync
<1>7. QED
  BY <1>2, <1>4, <1>5, <1>6, NothingAsked

(* The preview that is asked for is one nobody has a Review of, and that of *)
(* the Compose it is asked from.                                           *)
LEMMA SubmitWaits ==
  ASSUME Waits, Sending, Waiting, OnTrack', Submit PROVE Waiting'
<1>0. /\ shown.screen = "compose" /\ shownPanel = None /\ ~due /\ nav.queue = <<>> /\ Stable(shown)
      /\ Click([shown EXCEPT !.screen = "previewing"]) /\ Ask("preview", shown.compose, None)
      /\ done' = done
  BY DEF Submit, OnScreen, Settled, Stable
<1>1. /\ nav' = nav /\ latest' = shown' /\ panel' = None /\ shownPanel' = None /\ asked = {}
      /\ latest'.screen = "previewing" /\ latest'.compose = shown.compose
      /\ latest = shown /\ panel = None
      /\ nav.correcting = NoId => Written(nav, shown)
  BY <1>0, RequestMade
<1> DEFINE q == [kind |-> "preview", n |-> requests + 1, compose |-> shown.compose,
                 preview |-> None, at |-> nav.current]
<1>2. asked' = {q} /\ q.kind = "preview" /\ q.n = requests + 1 /\ q.compose = shown.compose
  BY <1>0, <1>1 DEF Ask
<1> HIDE DEF q
<1>3. nav.correcting = NoId
  BY <1>0 DEF Waiting, Attended, HomeQueued
<1>4. Attended'
  BY <1>0, <1>1, <1>2, <1>3 DEF Attended, HomeQueued
<1>5. /\ requests \in Nat /\ requests' = requests + 1 /\ done \subseteq 1 .. requests
      /\ Unsent \subseteq Unsent' /\ q.n \in Unsent' /\ q.n \notin Unsent
  BY <1>0, <1>2 DEF Waiting, Requested, Ask, Unsent
<1>6. Requested'
  BY <1>0, <1>1, <1>2, <1>5 DEF Waiting, Requested, Tidy, Sendable
<1>7. LastCompose(nav, nav.index, shown.compose)
  <2>1. /\ nav.index \in 1 .. Len(nav.ids) /\ nav.current = nav.ids[nav.index] /\ Len(nav.ids) \in Nat
    BY DEF Waiting, OnTrack, Aligned, IsTrack
  <2>2. UrlStep(shown) = "prepare"
    BY <1>0 DEF UrlStep
  <2>3. nav.current \notin nav.barred
    BY <1>1, <1>3, <2>2 DEF Waiting, ComposeIsOpen, Written
  <2>4. Live(nav, nav.ids[nav.index], "compose") /\ nav.snapshots[nav.ids[nav.index]] = shown
    BY <1>0, <1>1, <1>3, <2>1, <2>3 DEF Live, Written
  <2>5. ASSUME NEW i \in 1 .. nav.index, \A l \in i + 1 .. nav.index : ~Live(nav, nav.ids[l], "compose")
        PROVE  i = nav.index
    BY <2>1, <2>4, <2>5
  <2>6. QED
    BY <2>4, <2>5 DEF LastCompose
<1>8. Tidy(nav, latest', None, Unsent')
  BY <1>1, <1>5, <1>7 DEF Waiting, Tidy, Orderly, Sendable
<1>9. QED
  BY <1>1, <1>4, <1>6, <1>8 DEF Waiting, ComposeIsOpen

LEMMA ConfirmWaits ==
  ASSUME Sending, Waiting, OnTrack', shown.screen = "review", shownPanel = None, ~due,
         Click([shown EXCEPT !.screen = "executing"]), Ask("execute", shown.compose, shown.preview),
         done' = done
  PROVE  Waiting'
<1>0. Stable(shown)
  BY DEF Stable
<1>1. /\ nav' = nav /\ latest' = shown' /\ panel' = None /\ shownPanel' = None /\ asked = {}
      /\ latest'.screen = "executing" /\ latest'.compose = shown.compose
      /\ latest'.preview = shown.preview /\ latest = shown /\ panel = None
  BY <1>0, RequestMade
<1>2. \A q \in asked' : q.kind = "execute" /\ q.preview = shown.preview
  BY <1>1 DEF Ask
<1>3. Attended'
  BY <1>0, <1>1, <1>2 DEF Waiting, Attended, HomeQueued, Stable
<1>4. /\ requests \in Nat /\ requests' = requests + 1 /\ done \subseteq 1 .. requests
      /\ Unsent \subseteq Unsent'
  BY DEF Waiting, Requested, Ask, Unsent
<1>5. Requested'
  BY <1>1, <1>2, <1>4 DEF Requested
<1>6. Tidy(nav, latest', None, Unsent')
  BY <1>1, <1>4 DEF Waiting, Tidy, Orderly, Sendable, ReviewIsHere
<1>7. QED
  BY <1>1, <1>3, <1>5, <1>6 DEF Waiting, ComposeIsOpen

LEMMA ComparisonWaits ==
  ASSUME Waits, Sending, Waiting, OnTrack', RequestComparison PROVE Waiting'
<1>0. /\ shown.screen = "result" /\ shownPanel = None /\ ~due /\ nav.queue = <<>> /\ Stable(shown)
      /\ Click([shown EXCEPT !.screen = "comparing"]) /\ Ask("compare", shown.compose, None)
      /\ done' = done
  BY DEF RequestComparison, OnScreen, Settled, Stable
<1>1. /\ nav' = nav /\ latest' = shown' /\ panel' = None /\ shownPanel' = None /\ asked = {}
      /\ latest'.screen = "comparing" /\ panel = None
  BY <1>0, RequestMade
<1> DEFINE q == [kind |-> "compare", n |-> requests + 1, compose |-> shown.compose,
                 preview |-> None, at |-> nav.current]
<1>2. asked' = {q} /\ q.kind = "compare"
  BY <1>0, <1>1 DEF Ask
<1> HIDE DEF q
<1>3. Attended'
  BY <1>0, <1>1, <1>2 DEF Waiting, Attended, HomeQueued, Stable
<1>4. /\ requests \in Nat /\ requests' = requests + 1 /\ done \subseteq 1 .. requests
      /\ Unsent \subseteq Unsent'
  BY <1>0 DEF Waiting, Requested, Ask, Unsent
<1>5. Requested'
  BY <1>0, <1>2, <1>4 DEF Requested
<1>6. Tidy(nav, latest', None, Unsent')
  BY <1>1, <1>4 DEF Waiting, Tidy, Orderly, Sendable
<1>7. QED
  BY <1>1, <1>3, <1>5, <1>6 DEF Waiting, ComposeIsOpen

(* A preview, or a comparison, is answered where it was asked for.         *)
LEMMA PreviewAnswered ==
  ASSUME Sending, Waiting, OnTrack', NEW q \in asked, AnswerPreview(q) PROVE Waiting'
<1>1. /\ asked = {q} /\ latest = shown /\ ~Stable(shown) /\ panel = None /\ shownPanel = None
      /\ nav.queue = <<>> /\ nav.correcting = NoId
      /\ latest.screen = "previewing" /\ q.compose = latest.compose
  BY OnlyRequest DEF AnswerPreview
<1>2. /\ asked' = {} /\ UNCHANGED <<nav, done, requests>> /\ q.kind = "preview"
      /\ \/ Dispatch(PreviewSucceeded(latest, [n |-> q.n, content |-> q.compose.content]))
         \/ Dispatch(PreviewFailed(latest))
  BY <1>1 DEF AnswerPreview, counters
<1>3. PICK s : /\ Dispatch(s) /\ s.screen \in {"compose", "review"}
               /\ s.screen = "review" => s.compose = latest.compose /\ s.preview.n = q.n
  <2> DEFINE preview == [n |-> q.n, content |-> q.compose.content]
  <2>1. IsFlow(latest) /\ preview.n = q.n
    BY DEF Waiting, OnTrack
  <2> HIDE DEF preview
  <2>2. /\ PreviewSucceeded(latest, preview).screen = "review"
        /\ PreviewSucceeded(latest, preview).compose = latest.compose
        /\ PreviewSucceeded(latest, preview).preview = preview
        /\ PreviewFailed(latest) = Compose(latest.compose)
    BY <1>1, <2>1, Answered
  <2>3. PreviewFailed(latest).screen = "compose"
    BY <2>2, FlowsMade
  <2>4. QED
    BY <1>2, <2>1, <2>2, <2>3 DEF preview
<1>4. latest' = s /\ panel' = None /\ UNCHANGED <<shown, shownPanel, due>>
  BY <1>3 DEF Dispatch
<1>5. Attended'
  BY <1>1, <1>2, <1>4 DEF Waiting, Attended, HomeQueued
<1>6. Requested' /\ Unsent' = Unsent
  BY <1>2 DEF Waiting, Requested, Unsent
<1>7. Tidy(nav, s, None, Unsent)
  BY <1>1, <1>2, <1>3 DEF Waiting, Tidy, Orderly, Sendable, ReviewIsHere, Requested
<1>8. QED
  BY <1>1, <1>2, <1>4, <1>5, <1>6, <1>7 DEF Waiting

LEMMA ComparisonAnswered ==
  ASSUME Sending, Waiting, OnTrack', NEW q \in asked, AnswerComparison(q) PROVE Waiting'
<1>1. /\ asked = {q} /\ latest = shown /\ ~Stable(shown) /\ panel = None /\ shownPanel = None
      /\ nav.queue = <<>> /\ nav.correcting = NoId /\ latest.screen = "comparing"
  BY OnlyRequest DEF AnswerComparison
<1>2. /\ asked' = {} /\ UNCHANGED <<nav, done, requests>>
      /\ \/ Dispatch(CompareSucceeded(latest, q.compose.content))
         \/ Dispatch(CompareFailed(latest))
  BY <1>1 DEF AnswerComparison, counters
<1>3. PICK s : Dispatch(s) /\ s.screen \in {"comparison", "result"}
  <2>1. IsFlow(latest)
    BY DEF Waiting, OnTrack
  <2>2. /\ CompareSucceeded(latest, q.compose.content).screen = "comparison"
        /\ CompareFailed(latest).screen = "result"
    BY <1>1, <2>1, Answered
  <2>3. QED
    BY <1>2, <2>2
<1>4. latest' = s /\ panel' = None /\ UNCHANGED <<shown, shownPanel, due>>
  BY <1>3 DEF Dispatch
<1>5. Attended'
  BY <1>1, <1>2, <1>4 DEF Waiting, Attended, HomeQueued
<1>6. Requested' /\ Unsent' = Unsent
  BY <1>2 DEF Waiting, Requested, Unsent
<1>7. Tidy(nav, s, None, Unsent)
  BY <1>3 DEF Waiting, Tidy, Orderly, Sendable
<1>8. QED
  BY <1>1, <1>2, <1>4, <1>5, <1>6, <1>7 DEF Waiting

(* The answer to a send: the rest of the state, and what becomes of its    *)
(* Review.                                                                 *)
LEMMA SendEnds ==
  ASSUME Sending, Waiting, NEW q \in asked, q.kind = "execute", asked' = asked \ {q},
         requests' = requests, NEW s, Dispatch(s), s.screen # "executing",
         nav'.queue = nav.queue, nav'.index = nav.index, nav'.pos = nav.pos,
         nav'.correcting = nav.correcting
  PROVE  /\ Attended' /\ (done' \subseteq 1 .. requests => Requested')
         /\ latest' = s /\ panel' = None
<1>1. /\ asked = {q} /\ shown.screen = "executing" /\ panel = None /\ shownPanel = None
  BY OnlySend
<1>2. /\ asked' = {} /\ latest' = s /\ panel' = None /\ UNCHANGED <<shown, shownPanel, due>>
  BY <1>1 DEF Dispatch
<1>3. Attended'
  BY <1>1, <1>2 DEF Waiting, Attended, HomeQueued, Stable
<1>4. QED
  BY <1>2, <1>3 DEF Waiting, Requested

LEMMA SuccessWaits ==
  ASSUME Sending, Waiting, OnTrack', NEW q \in asked, ExecutionSucceeds(q) PROVE Waiting'
<1> DEFINE s == ExecuteSucceeded(latest, q.compose.content)
<1>1. /\ q.kind = "execute" /\ asked' = asked \ {q} /\ done' = done \cup {q.preview.n}
      /\ nav' = Approved(nav, q) /\ Dispatch(s) /\ requests' = requests
  BY DEF ExecutionSucceeds, counters
<1>2. /\ latest.screen = "executing" /\ panel = None /\ q.preview = latest.preview
      /\ q.at = nav.current /\ nav.entries[nav.index].step = "review"
  BY <1>1, OnlySend
<1>3. IsFlow(latest) /\ IsTrack(nav) /\ Aligned(nav)
  BY DEF Waiting, OnTrack
<1>4. s.screen = "result"
  BY <1>2, <1>3, Answered
<1> HIDE DEF s
<1>5. /\ nav'.entries = nav.entries /\ nav'.pos = nav.pos /\ nav'.queue = nav.queue
      /\ nav'.ids = nav.ids /\ nav'.index = nav.index /\ nav'.current = nav.current
      /\ nav'.correcting = nav.correcting /\ nav'.barred = nav.barred
      /\ DOMAIN nav'.snapshots = DOMAIN nav.snapshots
      /\ \A id \in DOMAIN nav'.snapshots :
           \/ nav'.snapshots[id] = nav.snapshots[id] /\ (id # nav.current \/ id \in nav.barred)
           \/ id = nav.current /\ nav'.snapshots[id].screen = "approvedReview"
  BY <1>1, <1>2, <1>3, ApprovedTrack
<1>6. Complete(nav) /\ OfItsCompose(nav) /\ OneReview(nav) /\ ReviewIsHere(nav, latest)
  BY <1>2 DEF Waiting, Tidy, Orderly
<1>7. Complete(nav')
  BY <1>5, <1>6 DEF Complete, Stable
<1>8. ~Live(nav', nav.current, "compose") /\ ~Live(nav', nav.current, "review")
  BY <1>5 DEF Live
<1>9. /\ OfItsCompose(nav') /\ OneReview(nav') /\ ComposeIsOpen(nav', None)
      /\ \A x : Live(nav', x, "review") =>
           x # nav.current /\ Live(nav, x, "review") /\ nav'.snapshots[x] = nav.snapshots[x]
  BY <1>2, <1>3, <1>5, <1>6, <1>7, <1>8, FewerReviews
<1>10. latest.preview.n \in Unsent /\ Unsent' = Unsent \ {latest.preview.n}
  BY <1>1, <1>2 DEF Waiting, Tidy, Sendable, Unsent
<1>11. Sendable(nav', s, Unsent')
  <2>1. ASSUME NEW x, Live(nav', x, "review") PROVE nav'.snapshots[x].preview.n \in Unsent'
    <3>1. nav.snapshots[x].preview.n \in Unsent /\ nav.snapshots[x].preview.n # latest.preview.n
      BY <2>1, <1>6, <1>9 DEF Waiting, Tidy, Sendable, ReviewIsHere, Live
    <3>2. QED
      BY <2>1, <3>1, <1>9, <1>10
  <2>2. QED
    BY <2>1, <1>4 DEF Sendable
<1>12. Tidy(nav', s, None, Unsent')
  BY <1>4, <1>7, <1>9, <1>11 DEF Tidy, Orderly
<1>13. done' \subseteq 1 .. requests
  BY <1>1, <1>2, <1>10 DEF Waiting, Requested, Unsent
<1>14. Attended' /\ Requested' /\ latest' = s /\ panel' = None
  BY <1>1, <1>4, <1>5, <1>13, SendEnds
<1>15. QED
  BY <1>9, <1>12, <1>14 DEF Waiting

(* A Review whose token is refused is gone, the flow is in its Compose.    *)
LEMMA ReviewDropped ==
  ASSUME Waiting, panel = None, latest.screen \in {"review", "executing"},
         nav.entries[nav.index].step = "review", NEW c
  PROVE  LET n == Invalidated(nav, {nav.current})
         IN  /\ IsTrack(n) /\ Aligned(n)
             /\ n.queue = nav.queue /\ n.index = nav.index /\ n.pos = nav.pos
             /\ n.correcting = nav.correcting
             /\ Tidy(n, Compose(c), None, Unsent) /\ ComposeIsOpen(n, None)
<1> DEFINE n == Invalidated(nav, {nav.current})
<1>1. IsTrack(nav) /\ Aligned(nav) /\ nav.current \in 0 .. nav.last
  BY ForwardIds DEF Waiting, OnTrack
<1>2. /\ IsTrack(n) /\ n.entries = nav.entries /\ n.pos = nav.pos /\ n.queue = nav.queue
      /\ n.ids = nav.ids /\ n.index = nav.index /\ n.current = nav.current
      /\ n.correcting = nav.correcting /\ n.suppress = nav.suppress /\ n.last = nav.last
      /\ n.barred = nav.barred \cup {nav.current}
      /\ DOMAIN n.snapshots = DOMAIN nav.snapshots \ {nav.current}
      /\ \A id \in DOMAIN n.snapshots : n.snapshots[id] = nav.snapshots[id]
  BY <1>1, InvalidatedTrack
<1> HIDE DEF n
<1>3. Aligned(n)
  BY <1>1, <1>2 DEF Aligned
<1>4. Complete(nav) /\ OfItsCompose(nav) /\ OneReview(nav) /\ Sendable(nav, latest, Unsent)
  BY DEF Waiting, Tidy, Orderly
<1>5. Complete(n)
  BY <1>2, <1>4 DEF Complete
<1>6. ~Live(n, nav.current, "compose") /\ ~Live(n, nav.current, "review")
  BY <1>2 DEF Live
<1>7. /\ OfItsCompose(n) /\ OneReview(n) /\ ComposeIsOpen(n, None)
      /\ \A x : Live(n, x, "review") => Live(nav, x, "review") /\ n.snapshots[x] = nav.snapshots[x]
  BY <1>1, <1>2, <1>4, <1>5, <1>6, FewerReviews
<1>8. Compose(c).screen = "compose"
  BY FlowsMade
<1>9. Sendable(n, Compose(c), Unsent)
  BY <1>4, <1>7, <1>8 DEF Sendable, Live
<1>10. Tidy(n, Compose(c), None, Unsent)
  BY <1>5, <1>7, <1>8, <1>9 DEF Tidy, Orderly
<1>11. QED
  BY <1>2, <1>3, <1>7, <1>10 DEF n

LEMMA RefusalWaits ==
  ASSUME Sending, Waiting, OnTrack', NEW q \in asked, ExecutionRefused(q) PROVE Waiting'
<1> DEFINE s == Compose(latest.compose)
           n == Invalidated(nav, {nav.current})
<1>1. /\ q.kind = "execute" /\ asked' = asked \ {q} /\ done' = done
      /\ nav' = IF q.at = NoId THEN nav ELSE Invalidated(nav, {q.at})
      /\ Dispatch(ExecuteFailed(latest, TRUE)) /\ requests' = requests
  BY DEF ExecutionRefused, counters
<1>2. /\ latest.screen = "executing" /\ panel = None
      /\ q.at = nav.current /\ nav.entries[nav.index].step = "review"
  BY <1>1, OnlySend
<1>3. IsFlow(latest) /\ nav.current # NoId
  BY ForwardIds DEF Waiting, OnTrack
<1>4. Dispatch(s) /\ s.screen # "executing"
  <2>1. ExecuteFailed(latest, TRUE) = s
    BY <1>2, <1>3, Answered
  <2>2. QED
    BY <1>1, <2>1, FlowsMade
<1>5. nav' = n
  BY <1>1, <1>2, <1>3
<1>6. /\ n.queue = nav.queue /\ n.index = nav.index /\ n.pos = nav.pos
      /\ n.correcting = nav.correcting
      /\ Tidy(n, s, None, Unsent) /\ ComposeIsOpen(n, None)
  BY <1>2, ReviewDropped
<1> HIDE DEF s, n
<1>7. done' \subseteq 1 .. requests /\ Unsent' = Unsent
  BY <1>1 DEF Waiting, Requested, Unsent
<1>8. Attended' /\ Requested' /\ latest' = s /\ panel' = None
  BY <1>1, <1>4, <1>5, <1>6, <1>7, SendEnds
<1>9. QED
  BY <1>5, <1>6, <1>7, <1>8 DEF Waiting

LEMMA FailureWaits ==
  ASSUME Sending, Waiting, OnTrack', NEW q \in asked, ExecutionFails(q) PROVE Waiting'
<1> DEFINE s == ExecuteFailed(latest, FALSE)
<1>1. /\ q.kind = "execute" /\ asked' = asked \ {q} /\ done' = done /\ nav' = nav
      /\ Dispatch(s) /\ requests' = requests
  BY DEF ExecutionFails, counters
<1>2. latest.screen = "executing" /\ panel = None
  BY <1>1, OnlySend
<1>3. s.screen = "review" /\ s.preview = latest.preview /\ s.compose = latest.compose
  <2>1. IsFlow(latest)
    BY DEF Waiting, OnTrack
  <2>2. QED
    BY <1>2, <2>1, FlowsChanged DEF ExecuteFailed, Screens
<1> HIDE DEF s
<1>4. done' \subseteq 1 .. requests /\ Unsent' = Unsent
  BY <1>1 DEF Waiting, Requested, Unsent
<1>5. Attended' /\ Requested' /\ latest' = s /\ panel' = None
  BY <1>1, <1>3, <1>4, SendEnds
<1>6. Tidy(nav, s, None, Unsent)
  BY <1>2, <1>3 DEF Waiting, Tidy, Orderly, Sendable, ReviewIsHere
<1>7. QED
  BY <1>1, <1>2, <1>4, <1>5, <1>6 DEF Waiting

LEMMA RenderWaits == ASSUME Sending, Waiting, OnTrack', Render PROVE Waiting'
<1>1. /\ shown' = latest /\ latest' = latest /\ panel' = panel /\ shownPanel' = panel
      /\ asked' = asked /\ done' = done /\ requests' = requests
      /\ nav' = IF due THEN Synced(nav, shown, shownPanel) ELSE nav
      /\ <<latest, panel>> # <<shown, shownPanel>>
  BY DEF Render, Flushed, counters
<1>2. panel = shownPanel /\ latest # shown /\ ~Stable(shown)
  BY <1>1 DEF Waiting, Attended
<1>3. nav' = nav
  BY <1>1, <1>2 DEF Synced
<1>4. \A q \in asked : q.kind = "execute"
  BY <1>2, OnlyRequest
<1>5. latest.screen = "executing" => panel = None
  BY DEF Sending, SendIsShown
<1>6. Attended'
  BY <1>1, <1>3, <1>4, <1>5 DEF Waiting, Attended, HomeQueued
<1>7. QED
  BY <1>1, <1>3, <1>6 DEF Waiting, Requested, Unsent

LEMMA EffectWaits == ASSUME Sending, Waiting, OnTrack', Effect PROVE Waiting'
<1>1. /\ shown' = shown /\ latest' = latest /\ panel' = panel /\ shownPanel' = shownPanel
      /\ asked' = asked /\ done' = done /\ requests' = requests
      /\ nav' = Synced(nav, shown, shownPanel)
  BY DEF Effect, counters
<1>2. /\ panel = shownPanel
      /\ Stable(shown) => latest = shown
      /\ IsFlow(latest) /\ IsTrack(nav) /\ Aligned(nav)
  BY DEF Waiting, Attended, OnTrack
<1>3. nav' = nav \/ (nav' = Synced(nav, latest, panel) /\ Stable(shown))
  BY <1>1, <1>2 DEF Synced
<1>4. /\ Tidy(nav', latest, panel, Unsent) /\ ComposeIsOpen(nav', panel)
      /\ nav'.correcting = nav.correcting /\ nav'.queue = nav.queue
      /\ nav.correcting # NoId => nav' = nav
  BY <1>2, <1>3, SyncedTidy, SyncedTrack DEF Waiting
<1>5. Stable(shown) => asked = {}
  BY NothingAsked
<1>6. Attended'
  BY <1>1, <1>4 DEF Waiting, Attended, HomeQueued
<1>7. Requested' /\ Unsent' = Unsent
  BY <1>1, <1>3, <1>5 DEF Waiting, Requested, Unsent
<1>8. QED
  BY <1>1, <1>4, <1>6, <1>7 DEF Waiting

(* What is queued for the browser, and a move that leads nowhere.          *)
LEMMA QueueWaits ==
  ASSUME Waits, Sending, Waiting, OnTrack', (\E delta \in Delta : Move(delta)) \/ MoveDropped
  PROVE  Waiting'
<1>0. IsTrack(nav) /\ Aligned(nav)
  BY DEF Waiting, OnTrack
<1>1. UNCHANGED <<latest, shown, panel, shownPanel, due, asked, done, requests>>
  BY DEF Move, MoveDropped, screens, counters
<1>2. \A q \in asked : q.kind = "execute"
  <2>1. CASE \E delta \in Delta : Move(delta)
    BY <2>1 DEF Move, Attentive
  <2>2. CASE MoveDropped
    BY <2>2, OnlyRequest DEF MoveDropped
  <2>3. QED
    BY <2>1, <2>2
<1>3. /\ HomeQueued(nav') /\ nav'.entries = nav.entries /\ nav'.ids = nav.ids
      /\ nav'.index = nav.index /\ nav'.current = nav.current /\ nav'.snapshots = nav.snapshots
      /\ nav'.barred = nav.barred /\ nav'.correcting = nav.correcting
  <2>1. HomeQueued(nav) /\ nav.queue \in Seq(Int) /\ nav.pos \in Nat /\ nav.index \in DOMAIN nav.entries
    BY <1>0 DEF Waiting, Attended, IsTrack, Aligned
  <2>2. CASE \E delta \in Delta : Move(delta)
    <3>1. PICK delta \in Delta : nav' = [nav EXCEPT !.queue = Append(nav.queue, delta)]
      BY <2>2, <1>0 DEF Move, IsTrack, HasFields, Fields
    <3>2. delta \in Int
      BY FlowAssumption
    <3>3. /\ nav'.queue = Append(nav.queue, delta) /\ nav'.pos = nav.pos /\ nav'.entries = nav.entries
          /\ nav'.ids = nav.ids /\ nav'.index = nav.index /\ nav'.current = nav.current
          /\ nav'.snapshots = nav.snapshots
          /\ nav'.barred = nav.barred /\ nav'.correcting = nav.correcting
      BY <3>1, <1>0 DEF IsTrack, HasFields, Fields
    <3>4. /\ Len(Append(nav.queue, delta)) = Len(nav.queue) + 1
          /\ \A k \in 1 .. Len(nav.queue) : Append(nav.queue, delta)[k] = nav.queue[k]
      BY <2>1, <3>2, AppendProperties
    <3>5. \A k \in 1 .. Len(nav.queue) : k \in 1 .. Len(nav.queue) + 1
      BY <2>1
    <3>6. QED
      BY <2>1, <3>3, <3>4, <3>5 DEF HomeQueued
  <2>3. CASE MoveDropped
    <3>1. nav.queue # <<>> /\ ~InsidePage /\ nav' = [nav EXCEPT !.queue = Tail(nav.queue)]
      BY <2>3, <1>0 DEF MoveDropped, IsTrack, HasFields, Fields
    <3>2. /\ nav'.queue = Tail(nav.queue) /\ nav'.pos = nav.pos /\ nav'.entries = nav.entries
          /\ nav'.ids = nav.ids /\ nav'.index = nav.index /\ nav'.current = nav.current
          /\ nav'.snapshots = nav.snapshots
          /\ nav'.barred = nav.barred /\ nav'.correcting = nav.correcting
      BY <3>1, <1>0 DEF IsTrack, HasFields, Fields
    <3>3. /\ Len(Tail(nav.queue)) = Len(nav.queue) - 1
          /\ \A k \in 1 .. Len(nav.queue) - 1 : Tail(nav.queue)[k] = nav.queue[k + 1]
      BY <2>1, <3>1
    <3>4. ASSUME NEW k \in 1 .. Len(nav.queue), nav.queue[k] = nav.index - nav.pos
          PROVE  k - 1 \in 1 .. Len(nav.queue) - 1 /\ Tail(nav.queue)[k - 1] = nav.queue[k]
      <4>1. k # 1
        <5>1. nav.pos + nav.queue[1] \notin DOMAIN nav.entries
          BY <2>1, <3>1 DEF InsidePage, Landing
        <5>2. nav.pos + (nav.index - nav.pos) = nav.index
          BY <1>0, <2>1 DEF IsTrack
        <5>3. QED
          BY <2>1, <3>4, <5>1, <5>2
      <4>2. QED
        BY <2>1, <3>3, <4>1
    <3>5. QED
      BY <2>1, <3>2, <3>3, <3>4 DEF HomeQueued
  <2>4. QED
    BY <2>2, <2>3
<1>4. Attended'
  BY <1>1, <1>2, <1>3 DEF Waiting, Attended
<1>5. Requested' /\ Unsent' = Unsent
  BY <1>1, <1>3 DEF Waiting, Requested, Unsent, Live
<1>6. Tidy(nav', latest', panel', Unsent)
  BY <1>1, <1>3, SameRecords DEF Waiting
<1>7. QED
  BY <1>1, <1>3, <1>4, <1>5, <1>6 DEF Waiting, ComposeIsOpen

(* Where a pending correction leads when the browser is somewhere else.    *)
LEMMA CorrectionsWait ==
  ASSUME Sending, Waiting, Sending', OnTrack', CorrectionArrives \/ MoveCorrected
  PROVE  Waiting'
<1>0. /\ IsTrack(nav) /\ Aligned(nav) /\ IsFlow(latest) /\ HomeQueued(nav)
      /\ Tidy(nav, latest, panel, Unsent) /\ ComposeIsOpen(nav, panel)
      /\ nav.correcting # NoId \/ shown.screen = "executing" => panel = None
      /\ panel = shownPanel
      /\ Stable(shown) => latest = shown
  BY DEF Waiting, Attended, OnTrack
<1>1. /\ InsidePage
      /\ nav.correcting # NoId \/ shown.screen = "executing"
      /\ nav.queue # <<>> /\ asked' = asked /\ done' = done /\ requests' = requests
  BY DEF CorrectionArrives, MoveCorrected, Locked, InsidePage, counters
<1>2. panel = None /\ \A q \in asked : q.kind = "execute"
  BY <1>0, <1>1, OnlyRequest
<1>3. ASSUME NEW n, IsTrack(n), Aligned(n), HomeQueued(n), n.ids = nav.ids, n.index = nav.index,
             n.snapshots = nav.snapshots, n.barred = nav.barred, n.current = nav.current,
             n.entries = nav.entries, NEW bumped, Commit(n, latest, panel, bumped)
      PROVE  Waiting'
  <2>1. Tidy(n, latest, panel, Unsent)
    BY <1>0, <1>3, SameRecords
  <2>2. ComposeIsOpen(n, panel)
    BY <1>0, <1>3 DEF ComposeIsOpen
  <2>3. QED
    BY <1>0, <1>1, <1>2, <1>3, <2>1, <2>2, WaitingCommit
<1>4. CASE CorrectionArrives
  <2> DEFINE n == [Arrived EXCEPT !.correcting = NoId]
  <2>1. ArrivedId = nav.correcting /\ nav.correcting # NoId /\ Commit(n, latest, panel, TRUE)
    BY <1>4 DEF CorrectionArrives
  <2>2. /\ IsTrack(n) /\ n.pos = Landing /\ n.correcting = NoId
        /\ n.entries = nav.entries /\ n.ids = nav.ids /\ n.index = nav.index
        /\ n.current = nav.current /\ n.snapshots = nav.snapshots /\ n.barred = nav.barred
        /\ n.suppress = nav.suppress /\ n.last = nav.last
    BY <1>0, <1>1, Arriving DEF IsTrack, HasFields, Fields
  <2> HIDE DEF n
  <2>3. Landing = nav.index
    <3>1. Landing \in 1 .. Len(nav.ids) /\ ArrivedId = nav.ids[Landing]
      BY <1>0, <1>1, Arriving
    <3>2. QED
      BY <3>1, <2>1, <1>0 DEF Aligned
  <2>4. n.pos = n.index
    BY <2>2, <2>3
  <2>5. Aligned(n) /\ HomeQueued(n)
    BY <1>0, <2>2, <2>4, AlignedAtHome DEF HomeQueued
  <2>6. QED
    BY <2>1, <2>2, <2>5, <1>3
<1>5. CASE MoveCorrected
  <2> DEFINE n == Correction(Arrived, ArrivedId)
  <2>1. /\ nav.correcting = NoId \/ ArrivedId # nav.correcting
        /\ Commit(n, latest, panel, FALSE)
    BY <1>5 DEF MoveCorrected, Locked
  <2>2. /\ IsTrack(n) /\ Aligned(n) /\ n.pos = Landing /\ n.index = nav.index
        /\ n.current = nav.current /\ n.entries = nav.entries
        /\ n.ids = nav.ids /\ n.snapshots = nav.snapshots /\ n.barred = nav.barred
        /\ IF n.correcting = NoId THEN nav.correcting = NoId
           ELSE n.queue = Append(Tail(nav.queue), n.index - n.pos)
    BY <1>0, <1>1, <2>1, Correcting
  <2> HIDE DEF n
  <2>3. HomeQueued(n)
    <3>1. Tail(nav.queue) \in Seq(Int) /\ n.index - n.pos \in Int
      BY <1>0, <1>1, <2>2 DEF IsTrack, Aligned
    <3> DEFINE e == n.index - n.pos
               t == Tail(nav.queue)
    <3> HIDE DEF e, t
    <3>2. Len(Append(t, e)) = Len(t) + 1 /\ Append(t, e)[Len(t) + 1] = e /\ Len(t) \in Nat
      BY <3>1, AppendProperties DEF t, e
    <3>3. QED
      BY <2>2, <3>2 DEF HomeQueued, t, e
  <2>4. QED
    BY <2>1, <2>2, <2>3, <1>3
<1>6. QED
  BY <1>4, <1>5

(* A move that is let through.                                             *)
LEMMA UnrestorableWaits ==
  ASSUME Sending, Waiting, Sending', OnTrack', MoveUnrestorable PROVE Waiting'
<1> DEFINE n == At(Arrived, ArrivedId)
           step == nav.entries[Landing].step
<1>1. /\ InsidePage /\ nav.queue # <<>> /\ nav.correcting = NoId /\ shown.screen # "executing" /\ ~due
      /\ Commit(n, latest, step, FALSE)
      /\ asked' = asked /\ done' = done /\ requests' = requests
  BY DEF MoveUnrestorable, Free, InsidePage, counters
<1>2. /\ IsTrack(nav) /\ Aligned(nav) /\ IsFlow(latest) /\ Tidy(nav, latest, panel, Unsent)
      /\ latest.screen # "executing"
  BY <1>1 DEF Waiting, OnTrack, Sending, SendIsShown
<1>3. \A q \in asked : q.kind = "execute" /\ latest = latest
  BY <1>1, OnlyRequest
<1>4. /\ IsTrack(n) /\ Aligned(n) /\ n.ids = nav.ids /\ n.snapshots = nav.snapshots
      /\ n.barred = nav.barred /\ n.correcting = NoId
  BY <1>1, <1>2, Following
<1>5. step # None
  <2>1. Landing \in DOMAIN nav.entries /\ nav.entries \in Seq(Entry)
    BY <1>1, <1>2 DEF InsidePage, IsTrack
  <2>2. nav.entries[Landing] \in Entry
    BY <2>1
  <2>3. step \in Steps
    BY <2>2 DEF Entry
  <2>4. QED
    BY <2>3, FlowAssumption DEF Steps
<1> HIDE DEF n, step
<1>6. Tidy(n, latest, step, Unsent)
  BY <1>2, <1>4, <1>5, SameRecords DEF Tidy, Orderly
<1>7. HomeQueued(n) /\ ComposeIsOpen(n, step)
  BY <1>4, <1>5 DEF HomeQueued, ComposeIsOpen
<1>8. QED
  BY <1>1, <1>2, <1>3, <1>4, <1>6, <1>7, WaitingCommit

LEMMA RestoredWaits ==
  ASSUME Sending, Waiting, Sending', OnTrack', MoveRestored PROVE Waiting'
<1> DEFINE n == At(Arrived, ArrivedId)
           s == nav.snapshots[ArrivedId]
           next == IF s = shown THEN latest ELSE s
           armed == Restored(n, s)
<1>1. /\ InsidePage /\ nav.queue # <<>> /\ nav.correcting = NoId /\ shown.screen # "executing" /\ ~due
      /\ Restorable(nav, ArrivedId) /\ Commit(armed, next, None, FALSE)
      /\ asked' = asked /\ done' = done /\ requests' = requests
  BY DEF MoveRestored, Free, InsidePage, counters
<1>2. /\ IsTrack(nav) /\ Aligned(nav) /\ IsFlow(latest) /\ Tidy(nav, latest, panel, Unsent)
      /\ panel = shownPanel
      /\ Stable(shown) => latest = shown
      /\ latest.screen # "executing"
  BY <1>1 DEF Waiting, Attended, OnTrack, Sending, SendIsShown
<1>3. asked = {}
  BY <1>1, OnlyRequest, OnlySend
<1>4. /\ IsTrack(n) /\ Aligned(n) /\ n.index = Landing /\ n.current = ArrivedId
      /\ n.ids = nav.ids /\ n.snapshots = nav.snapshots /\ n.barred = nav.barred
      /\ n.correcting = NoId /\ n.suppress = FALSE
  BY <1>1, <1>2, Following
<1>5. Landing \in 1 .. Len(nav.ids) /\ ArrivedId = nav.ids[Landing]
  BY <1>1, <1>2, Arriving
<1>6. /\ ArrivedId \in DOMAIN nav.snapshots /\ ArrivedId \notin nav.barred
      /\ IsFlow(s) /\ Stable(s) /\ next = s
  <2>1. ArrivedId \in DOMAIN nav.snapshots /\ ArrivedId \notin nav.barred /\ Stable(s)
    BY <1>1 DEF Restorable
  <2>2. IsFlow(s) /\ next = s
    BY <1>2, <2>1 DEF IsTrack
  <2>3. QED
    BY <2>1, <2>2
<1> HIDE DEF n, s, next, armed
<1>7. s.screen = "review" => Live(nav, ArrivedId, "review")
  BY <1>6 DEF Live, s
<1>8. Tidy(n, s, None, Unsent)
  <2>1. /\ Complete(nav) /\ OfItsCompose(nav) /\ OneReview(nav) /\ Sendable(nav, latest, Unsent)
    BY <1>2 DEF Tidy, Orderly
  <2>2. Complete(n) /\ OfItsCompose(n) /\ OneReview(n)
    BY <1>4, <2>1, SameRecords
  <2>3. \A x, screen : Live(n, x, screen) <=> Live(nav, x, screen)
    BY <1>4, SameRecords
  <2>4. ASSUME s.screen = "review"
        PROVE  LastCompose(n, n.index, s.compose) /\ ReviewIsHere(n, s) /\ s.preview.n \in Unsent
    <3>1. LastCompose(nav, Landing, s.compose)
      BY <1>5, <1>7, <2>1, <2>4 DEF OfItsCompose, s
    <3>2. LastCompose(n, n.index, s.compose)
      BY <3>1, <1>4, SameRecords
    <3>3. ReviewIsHere(n, s)
      BY <1>4, <1>6, <1>7, <2>1, <2>3, <2>4 DEF OneReview, ReviewIsHere, s
    <3>4. s.preview.n \in Unsent
      BY <1>6, <1>7, <2>1, <2>4 DEF Sendable, s
    <3>5. QED
      BY <3>2, <3>3, <3>4
  <2>5. Sendable(n, s, Unsent)
    BY <1>4, <1>6, <2>1, <2>3, <2>4 DEF Sendable, Stable
  <2>6. QED
    BY <1>6, <2>2, <2>4, <2>5 DEF Tidy, Orderly, Stable
<1>9. HomeQueued(n) /\ ComposeIsOpen(n, None) /\ s.screen # "executing"
  BY <1>4, <1>6 DEF HomeQueued, ComposeIsOpen, Stable
<1>10. CASE s = shown
  <2>1. armed = n
    BY <1>4, <1>10 DEF armed, Restored, IsTrack, HasFields, Fields
  <2>2. Commit(n, s, None, FALSE)
    BY <1>1, <1>6, <2>1
  <2>3. QED
    BY <2>2, <1>1, <1>3, <1>4, <1>6, <1>8, <1>9, WaitingCommit
<1>11. CASE s # shown
  <2>1. /\ armed.suppress = TRUE /\ armed.correcting = NoId
        /\ [armed EXCEPT !.suppress = FALSE] = n
    BY <1>4, <1>11 DEF armed, Restored, IsTrack, HasFields, Fields
  <2>2. /\ nav' = Synced(armed, s, None)
        /\ latest' = s /\ shown' = s /\ panel' = None /\ shownPanel' = None
    BY <1>1, <1>6, <1>11 DEF Commit, Flushed
  <2>3. nav' = n
    BY <2>1, <2>2, <1>6 DEF Synced
  <2>4. Attended' /\ Requested' /\ Unsent' = Unsent
    BY <1>1, <1>3, <1>9, <2>2, <2>3 DEF Waiting, Attended, Requested, Unsent
  <2>5. QED
    BY <1>8, <1>9, <2>2, <2>3, <2>4 DEF Waiting
<1>12. QED
  BY <1>10, <1>11

LEMMA WaitingStep ==
  ASSUME Waits, Sending, Waiting, [Next]_vars, ~Reload PROVE Waiting'
<1>0. /\ Sending' /\ OnTrack' /\ OnTrack /\ IsFlow(shown) /\ IsTrack(nav) /\ Aligned(nav)
      /\ HomeQueued(nav) /\ Tidy(nav, latest, panel, Unsent) /\ ComposeIsOpen(nav, panel)
  BY SendingStep, OnTrackStep DEF Waiting, OnTrack, Attended
(* A click that asks for nothing.                                          *)
<1>1. ASSUME shownPanel = None, ~due, Stable(shown), NEW s, IsFlow(s), s.screen # "executing",
             s.screen # "review", s.screen # "previewing", Click(s),
             asked' = asked, done' = done, requests' = requests
      PROVE  Waiting'
  <2>1. latest = shown /\ panel = None /\ asked = {}
    BY <1>0, <1>1, NothingAsked
  <2>2. Commit(nav, s, None, FALSE)
    BY <1>1 DEF Click
  <2>3. Tidy(nav, s, None, Unsent)
    BY <1>0, <1>1 DEF Tidy, Orderly, Sendable
  <2>4. QED
    BY <1>0, <1>1, <2>1, <2>2, <2>3, WaitingCommit
<1>2. CASE Start \/ Restart \/ \E content \in Content : Edit(content)
  <2>1. /\ Stable(shown) /\ shownPanel = None /\ ~due
        /\ asked' = asked /\ done' = done /\ requests' = requests
        /\ \E c : Click(Compose(c))
    BY <1>2 DEF Start, Restart, Edit, OnScreen, FreshCompose, Stable
  <2>2. QED
    BY <2>1, <1>1, FlowsMade
<1>3. CASE ViewTechnicalDetails
  <2>1. /\ Stable(shown) /\ shownPanel = None /\ ~due
        /\ asked' = asked /\ done' = done /\ requests' = requests
        /\ Click([shown EXCEPT !.screen = "technicalDetails"])
    BY <1>3 DEF ViewTechnicalDetails, OnScreen, Stable, counters
  <2>2. "technicalDetails" \in Screens
    BY DEF Screens
  <2>3. /\ IsFlow([shown EXCEPT !.screen = "technicalDetails"])
        /\ [shown EXCEPT !.screen = "technicalDetails"].screen = "technicalDetails"
    BY <1>0, <2>2, FlowsChanged
  <2>4. QED
    BY <2>1, <2>3, <1>1
<1>4. CASE Submit
  BY <1>0, <1>4, SubmitWaits
<1>5. CASE RequestComparison
  BY <1>0, <1>5, ComparisonWaits
<1>6. CASE Confirm
  <2>1. /\ shown.screen = "review" /\ shownPanel = None /\ ~due /\ Stable(shown) /\ done' = done
    BY <1>6 DEF Confirm, OnScreen, Stable
  <2>2. CASE /\ Commit(Invalidated(nav, {nav.current}), Compose(shown.compose), None, FALSE)
             /\ UNCHANGED <<asked, requests>>
    <3> DEFINE n == Invalidated(nav, {nav.current})
               s == Compose(shown.compose)
    <3>1. latest = shown /\ panel = None /\ asked = {}
      BY <1>0, <2>1, NothingAsked
    <3>2. nav.entries[nav.index].step = "review"
      <4>1. CASE nav.correcting = NoId
        <5>1. Written(nav, shown)
          BY <1>0, <2>1, <4>1 DEF OnTrack, Sync
        <5>2. QED
          BY <5>1, <2>1, <1>0, PrepareOrReview DEF Written
      <4>2. CASE nav.correcting # NoId
        BY <4>2, <1>0 DEF OnTrack, AtSend
      <4>3. QED
        BY <4>1, <4>2
    <3>3. /\ IsTrack(n) /\ Aligned(n)
          /\ n.queue = nav.queue /\ n.index = nav.index /\ n.pos = nav.pos
          /\ n.correcting = nav.correcting
          /\ Tidy(n, s, None, Unsent) /\ ComposeIsOpen(n, None)
      BY <2>1, <3>1, <3>2, ReviewDropped
    <3>4. IsFlow(s) /\ s.screen # "executing" /\ Commit(n, s, None, FALSE)
      BY <2>2, FlowsMade
    <3> HIDE DEF n, s
    <3>5. HomeQueued(n)
      BY <1>0, <3>3 DEF HomeQueued
    <3>6. QED
      BY <1>0, <2>1, <2>2, <3>1, <3>3, <3>4, <3>5, WaitingCommit
  <2>3. CASE Click([shown EXCEPT !.screen = "executing"]) /\ Ask("execute", shown.compose, shown.preview)
    BY <1>0, <2>1, <2>3, ConfirmWaits
  <2>4. QED
    BY <1>6, <2>2, <2>3 DEF Confirm
<1>7. CASE ResetAfterUnrecoverableStep
  <2>1. /\ shownPanel # None /\ ~due /\ Click(Welcome)
        /\ asked' = asked /\ done' = done /\ requests' = requests
    BY <1>7 DEF ResetAfterUnrecoverableStep, counters
  <2>2. asked = {} /\ nav.correcting = NoId
    BY <2>1, OnlyRequest, OnlySend DEF Waiting, Attended
  <2>3. Commit(nav, Welcome, None, FALSE) /\ IsFlow(Welcome) /\ Welcome.screen = "welcome"
    BY <2>1, FlowsMade DEF Click
  <2>4. Tidy(nav, Welcome, None, Unsent)
    BY <1>0, <2>3 DEF Tidy, Orderly, Sendable
  <2>5. ComposeIsOpen(nav', panel')
    <3>1. shown' = Welcome /\ shownPanel' = None /\ due' = FALSE /\ nav'.correcting = NoId
      BY <1>0, <2>1, <2>2, <2>3, CommitParts DEF Commit
    <3>2. Written(nav', Welcome)
      BY <1>0, <2>3, <3>1 DEF OnTrack, Sync, Stable
    <3>3. QED
      BY <2>3, <3>2, PrepareOrReview DEF Written, ComposeIsOpen
  <2>6. QED
    BY <1>0, <2>1, <2>2, <2>3, <2>4, <2>5, WaitingCommit
<1>8. ASSUME NEW q \in asked,
             \/ AnswerPreview(q) \/ ExecutionSucceeds(q) \/ ExecutionRefused(q)
             \/ ExecutionFails(q) \/ AnswerComparison(q)
      PROVE  Waiting'
  BY Zenon, <1>0, <1>8, PreviewAnswered, SuccessWaits, RefusalWaits, FailureWaits, ComparisonAnswered
<1>9. CASE Render
  BY <1>0, <1>9, RenderWaits
<1>10. CASE Effect
  BY <1>0, <1>10, EffectWaits
<1>11. CASE (\E delta \in Delta : Move(delta)) \/ MoveDropped
  BY Zenon, <1>0, <1>11, QueueWaits
<1>12. CASE CorrectionArrives \/ MoveCorrected
  BY <1>0, <1>12, CorrectionsWait
<1>13. CASE MoveUnknown
  <2>1. InsidePage /\ IndexOf(nav, ArrivedId) = 0
    BY <1>13 DEF MoveUnknown, Free
  <2>2. Landing \in 1 .. Len(nav.ids) /\ IndexOf(nav, ArrivedId) = Landing
    BY <1>0, <2>1, Arriving
  <2>3. QED
    BY <2>1, <2>2
<1>14. CASE MoveUnrestorable
  BY <1>0, <1>14, UnrestorableWaits
<1>15. CASE MoveRestored
  BY <1>0, <1>15, RestoredWaits
<1>16. CASE UNCHANGED vars
  BY <1>16, <1>0 DEF vars, screens, counters, Waiting, Attended, Requested, Unsent
<1>17. QED
  BY Zenon, <1>2, <1>3, <1>4, <1>5, <1>6, <1>7, <1>8, <1>9, <1>10, <1>11, <1>12, <1>13, <1>14,
     <1>15, <1>16
  DEF Next, Answer, Land

LEMMA WaitingInit == Init => Waiting
<1> SUFFICES ASSUME Init PROVE Waiting
  OBVIOUS
<1>1. OnTrack
  BY OnTrackInit
<1>2. /\ latest = Welcome /\ shown = Welcome /\ panel = None /\ shownPanel = None
      /\ asked = {} /\ done = {} /\ requests = 0
      /\ nav = Mounted(<<[id |-> NoId, step |-> "intro"]>>, 1)
  BY DEF Init
<1>3. /\ nav.ids = <<0>> /\ nav.snapshots = [i \in {0} |-> Welcome] /\ nav.barred = {}
      /\ nav.correcting = NoId
  <2> DEFINE first == <<[id |-> NoId, step |-> "intro"]>>
  <2>1. first[1].step = "intro" /\ nav = Mounted(first, 1)
    BY <1>2
  <2> HIDE DEF first
  <2>2. QED
    BY <2>1 DEF Mounted
<1>4. Welcome.screen = "welcome" /\ Stable(Welcome)
  BY FlowsMade DEF Stable
<1>5. \A x : ~Live(nav, x, "review")
  BY <1>3, <1>4 DEF Live
<1>6. Attended /\ Requested
  BY <1>2, <1>3, <1>4 DEF Attended, HomeQueued, Requested
<1>7. Complete(nav)
  BY <1>3, <1>4 DEF Complete
<1>8. Tidy(nav, latest, panel, Unsent)
  BY <1>2, <1>4, <1>5, <1>7 DEF Tidy, Orderly, OfItsCompose, OneReview, Sendable
<1>9. ComposeIsOpen(nav, panel)
  BY <1>3 DEF ComposeIsOpen
<1>10. QED
  BY <1>1, <1>6, <1>8, <1>9 DEF Waiting

LEMMA WaitedForAlways == ASSUME Waits PROVE Spec => [](Sending /\ WaitedFor)
<1>1. Init => Sending /\ WaitedFor
  BY SendingInit, WaitingInit DEF Init, WaitedFor
<1>2. Sending /\ WaitedFor /\ [Next]_vars => Sending' /\ WaitedFor'
  BY SendingStep, ReloadsCount, WaitingStep DEF WaitedFor
<1>3. QED
  BY <1>1, <1>2, PTL DEF Spec

(* When the user waits for previews and comparisons: once nothing is        *)
(* pending, on a page that was not reloaded, no Review of a preview that   *)
(* was executed is on the screen or can be come back to, and no other      *)
(* execution is under way.                                                 *)
THEOREM NothingIsResent == ASSUME Waits PROVE Spec => []NoResend
<1>1. Sending /\ WaitedFor => NoResend
  <2> SUFFICES ASSUME Sending, WaitedFor PROVE NoResend
    OBVIOUS
  <2>1. ASSUME AtRest, reloads = 0, NEW s \in {shown} \cup Restorables,
               s.screen \in {"review", "executing"}
        PROVE  s.preview.n \notin done
    <3>1. Sendable(nav, latest, Unsent)
      BY <2>1 DEF WaitedFor, Waiting, Tidy
    <3>2. CASE s = shown
      BY <2>1, <3>1, <3>2 DEF AtRest, Sendable, Unsent
    <3>3. CASE s \in Restorables
      <4>1. PICK x \in DOMAIN nav.snapshots : Restorable(nav, x) /\ s = nav.snapshots[x]
        BY <3>3 DEF Restorables
      <4>2. Live(nav, x, "review")
        BY <4>1, <2>1 DEF Restorable, Live, Stable
      <4>3. QED
        BY <3>1, <4>1, <4>2 DEF Sendable, Unsent
    <3>4. QED
      BY <3>2, <3>3
  <2>2. QED
    BY <2>1 DEF NoResend, Sending
<1>2. QED
  BY <1>1, WaitedForAlways, PTL

(* When the user waits: the live Reviews Forward reaches from a Compose, on *)
(* a page that was not reloaded, are of that very compose.                 *)
THEOREM ReviewsFollowTheirCompose == ASSUME Waits PROVE Spec => []ForwardReviewsAreCurrent
<1> DEFINE Holds(k, screen) ==
             Restorable(nav, nav.ids[k]) /\ nav.snapshots[nav.ids[k]].screen = screen
<1>1. Sending /\ WaitedFor => ForwardReviewsAreCurrent
  <2> SUFFICES ASSUME WaitedFor, reloads = 0, NEW i \in DOMAIN nav.ids, NEW j \in DOMAIN nav.ids,
                      i < j, Holds(i, "compose"), Holds(j, "review"),
                      \A k \in i + 1 .. j - 1 : ~Holds(k, "compose")
               PROVE  nav.snapshots[nav.ids[j]].compose = nav.snapshots[nav.ids[i]].compose
    BY DEF ForwardReviewsAreCurrent
  <2>1. OfItsCompose(nav) /\ DOMAIN nav.ids = 1 .. Len(nav.ids) /\ Len(nav.ids) \in Nat
    BY DEF WaitedFor, Waiting, Tidy, Orderly, OnTrack, IsTrack
  <2>2. /\ Live(nav, nav.ids[i], "compose") /\ Live(nav, nav.ids[j], "review")
        /\ \A k : Live(nav, nav.ids[k], "compose") => Holds(k, "compose")
    BY DEF Live, Restorable, Stable
  <2> HIDE DEF Holds
  <2>3. LastCompose(nav, j, nav.snapshots[nav.ids[j]].compose)
    BY <2>1, <2>2 DEF OfItsCompose
  <2>4. ~Live(nav, nav.ids[j], "compose")
    BY <2>2 DEF Live
  <2>5. \A k \in i + 1 .. j : k = j \/ k \in i + 1 .. j - 1
    BY <2>1
  <2>6. i \in 1 .. j /\ \A k \in i + 1 .. j : ~Live(nav, nav.ids[k], "compose")
    BY <2>1, <2>2, <2>4, <2>5
  <2>7. QED
    BY <2>2, <2>3, <2>6 DEF LastCompose
<1>2. QED
  BY <1>1, WaitedForAlways, PTL
=============================================================================
