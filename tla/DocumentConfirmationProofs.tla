--------------------- MODULE DocumentConfirmationProofs ---------------------
(***************************************************************************)
(* Proofs about DocumentConfirmation, for any workers, handlers, documents *)
(* and tokens, durable secret or not.                                      *)
(***************************************************************************)
EXTENDS DocumentConfirmation, TLAPS

USE DEF Steps, Strategy, Provider

LEMMA StateType ==
  ASSUME TypeOK, NEW h \in Handler, pc[h] # "idle"
  PROVE  /\ at[h] \in Worker /\ request[h] \in Request
         /\ KeyOf(at[h]) \in Key
         /\ StateOf(h) \in State
<1>1. at[h] \in Worker /\ request[h] \in Request
  BY DEF TypeOK
<1>2. KeyOf(at[h]) \in Key
  BY <1>1, ConfirmationAssumption DEF TypeOK, KeyOf, Key
<1>3. PayloadOf(request[h], pseudonym[h]) \in Payload
  BY <1>1 DEF TypeOK, PayloadOf, Payload
<1>4. StateOf(h) \in State
  BY <1>1, <1>3 DEF TypeOK, StateOf, State
<1>5. QED
  BY <1>1, <1>2, <1>4

LEMMA TypeInit == Init => TypeOK
  BY ConfirmationAssumption DEF Init, TypeOK

LEMMA ReturnType ==
  ASSUME TypeOK, NEW h \in Handler, Return(h)
  PROVE  /\ pc' \in [Handler -> Steps]
         /\ at' \in [Handler -> Worker \cup {Absent}]
         /\ request' \in [Handler -> Request \cup {Absent}]
         /\ presented' \in [Handler -> issued \cup {Absent}]
         /\ pseudonym' \in [Handler -> Pseudonym \cup {Absent}]
         /\ verifiedAt' \in [Handler -> 0 .. MaxTime]
         /\ \A g \in Handler : pc'[g] # "idle" => at'[g] \in Worker /\ request'[g] \in Request
  BY ConfirmationAssumption DEF TypeOK, Return

LEMMA TypeStep == TypeOK /\ [Next]_vars => TypeOK'
<1> SUFFICES ASSUME TypeOK, [Next]_vars PROVE TypeOK'
  OBVIOUS
<1> USE ConfirmationAssumption
<1>1. CASE UNCHANGED vars
  BY <1>1 DEF vars, workers, frames, TypeOK
<1>2. ASSUME NEW h \in Handler, NEW w \in Worker, NEW r \in Request,
             NEW tok \in issued \cup {Absent}, Begin(h, w, r, tok)
      PROVE  TypeOK'
  BY <1>2 DEF Begin, workers, TypeOK
<1>3. ASSUME NEW h \in Handler, DecideHit(h) PROVE TypeOK'
  <2>1. at[h] \in Worker /\ request[h] \in Request /\ request[h].doc \in Doc
    BY <1>3, StateType DEF DecideHit, Request
  <2> DEFINE ps == IF UsesVault(request[h]) THEN vault[at[h]][request[h].doc] ELSE Absent
  <2>2. ps \in Pseudonym \cup {Absent}
    BY <2>1 DEF TypeOK
  <2>3. /\ pseudonym' = [pseudonym EXCEPT ![h] = ps]
        /\ pc' = [pc EXCEPT ![h] = "decided"]
        /\ UNCHANGED <<workers, at, request, presented, verifiedAt, issued, sent, rejected>>
    BY <1>3 DEF DecideHit
  <2> HIDE DEF ps
  <2>4. QED
    BY <2>1, <2>2, <2>3 DEF workers, TypeOK
<1>4. ASSUME NEW h \in Handler, NEW ps \in Pseudonym, DecideMiss(h, ps) PROVE TypeOK'
  BY <1>4 DEF DecideMiss, TypeOK
<1>5. ASSUME NEW h \in Handler, Store(h) PROVE TypeOK'
  <2>1. at[h] \in Worker /\ request[h] \in Request /\ request[h].doc \in Doc
    BY <1>5, StateType DEF Store, Request
  <2>2. vault' \in [Worker -> [Doc -> Pseudonym \cup {Absent}]]
    BY <1>5, <2>1 DEF Store, TypeOK
  <2>3. QED
    BY <1>5, <2>1, <2>2 DEF Store, TypeOK
<1>6. ASSUME NEW h \in Handler, Issue(h) PROVE TypeOK'
  <2>1. [key |-> KeyOf(at[h]), state |-> StateOf(h), issuedAt |-> now] \in Token
    BY <1>6, StateType DEF Issue, Token, TypeOK
  <2>2. presented' \in [Handler -> issued' \cup {Absent}]
    BY <1>6, ReturnType DEF Issue
  <2>3. QED
    BY <1>6, <2>1, <2>2, ReturnType DEF Issue, TypeOK, workers
<1>7. ASSUME NEW h \in Handler, Verify(h) PROVE TypeOK'
  BY <1>7 DEF Verify, TypeOK, workers
<1>8. ASSUME NEW h \in Handler, Reject(h) \/ RefuseDirect(h) PROVE TypeOK'
  BY <1>8, ReturnType DEF Reject, RefuseDirect, TypeOK, workers
<1>9. ASSUME NEW h \in Handler, Finish(h) PROVE TypeOK'
  <2>1. SentBy(h) \in Sent
    BY <1>9, StateType DEF Finish, SentBy, Sent, TypeOK
  <2>2. QED
    BY <1>9, <2>1, ReturnType DEF Finish, TypeOK, workers
<1>10. ASSUME NEW w \in Worker, NEW prov \in Provider, Restart(w, prov) PROVE TypeOK'
  BY <1>10 DEF Restart, TypeOK
<1>11. CASE Tick
  BY <1>11 DEF Tick, TypeOK, frames
<1>12. QED
  BY <1>1, <1>2, <1>3, <1>4, <1>5, <1>6, <1>7, <1>8, <1>9, <1>10, <1>11 DEF Next, Handle

(* Every reachable state is well typed.                                    *)
THEOREM TypeCorrect == Spec => []TypeOK
  BY TypeInit, TypeStep, PTL DEF Spec

-----------------------------------------------------------------------------
(* A verified handler holds the decision that a token approves, and that   *)
(* token is still one this worker would verify.                            *)
Approves(tok, h) ==
    /\ tok.key = KeyOf(at[h])
    /\ tok.state = StateOf(h)
    /\ tok.issuedAt <= verifiedAt[h] /\ verifiedAt[h] <= tok.issuedAt + TTL

VerifiedIsApproved ==
    \A h \in Handler : pc[h] = "verified" => \E tok \in issued : Approves(tok, h)

IssuedInThePast == \A tok \in issued : tok.issuedAt <= now

ApprovalInv ==
    TypeOK /\ IssuedInThePast /\ VerifiedIsApproved /\ OnlyApprovedIsSent /\ UnsafeStaysInside

LEMMA ApprovalInit == Init => ApprovalInv
<1> SUFFICES ASSUME Init PROVE ApprovalInv
  OBVIOUS
<1>1. TypeOK
  BY TypeInit
<1>2. IssuedInThePast /\ VerifiedIsApproved /\ OnlyApprovedIsSent /\ UnsafeStaysInside
  BY DEF Init, IssuedInThePast, VerifiedIsApproved, OnlyApprovedIsSent, UnsafeStaysInside
<1>3. QED
  BY <1>1, <1>2 DEF ApprovalInv

(* A handler that a step leaves alone keeps its approval.                  *)
LEMMA ApprovalKept ==
  ASSUME TypeOK, VerifiedIsApproved, NEW g \in Handler, pc[g] = "verified",
         issued \subseteq issued',
         at'[g] = at[g], request'[g] = request[g], pseudonym'[g] = pseudonym[g],
         verifiedAt'[g] = verifiedAt[g],
         provider'[at[g]] = provider[at[g]], incarnation'[at[g]] = incarnation[at[g]]
  PROVE  \E tok \in issued' : Approves(tok, g)'
<1>1. PICK tok \in issued : Approves(tok, g)
  BY DEF VerifiedIsApproved
<1>2. (KeyOf(at[g]))' = KeyOf(at[g])
  BY DEF KeyOf
<1>3. StateOf(g)' = StateOf(g)
  BY DEF StateOf
<1>4. Approves(tok, g)'
  BY <1>1, <1>2, <1>3 DEF Approves
<1>5. QED
  BY <1>1, <1>4

LEMMA ApprovalStep == ApprovalInv /\ [Next]_vars => ApprovalInv'
<1> SUFFICES ASSUME ApprovalInv, [Next]_vars PROVE ApprovalInv'
  OBVIOUS
<1> USE DEF ApprovalInv
<1>0. TypeOK'
  BY TypeStep
<1> SUFFICES IssuedInThePast' /\ VerifiedIsApproved' /\ OnlyApprovedIsSent' /\ UnsafeStaysInside'
  BY <1>0
<1> USE ConfirmationAssumption
<1>1. CASE UNCHANGED vars
  <2>1. UNCHANGED <<workers, frames, issued, sent, rejected>>
    BY <1>1 DEF vars
  <2>2. VerifiedIsApproved'
    BY <2>1, ApprovalKept DEF workers, frames, VerifiedIsApproved
  <2>3. QED
    BY <2>1, <2>2 DEF workers, IssuedInThePast, OnlyApprovedIsSent, UnsafeStaysInside
<1>2. ASSUME NEW h \in Handler, NEW w \in Worker, NEW r \in Request,
             NEW tok \in issued \cup {Absent}, Begin(h, w, r, tok)
      PROVE  IssuedInThePast' /\ VerifiedIsApproved' /\ OnlyApprovedIsSent' /\ UnsafeStaysInside'
  <2>1. VerifiedIsApproved'
    BY <1>2, ApprovalKept DEF Begin, workers, VerifiedIsApproved, TypeOK
  <2>2. QED
    BY <1>2, <2>1 DEF Begin, workers, IssuedInThePast, OnlyApprovedIsSent, UnsafeStaysInside
<1>3. ASSUME NEW h \in Handler, DecideHit(h) \/ Store(h)
      PROVE  IssuedInThePast' /\ VerifiedIsApproved' /\ OnlyApprovedIsSent' /\ UnsafeStaysInside'
  <2>1. VerifiedIsApproved'
    BY <1>3, ApprovalKept DEF DecideHit, Store, workers, VerifiedIsApproved, TypeOK
  <2>2. QED
    BY <1>3, <2>1 DEF DecideHit, Store, workers, IssuedInThePast, OnlyApprovedIsSent,
                      UnsafeStaysInside
<1>4. ASSUME NEW h \in Handler, NEW ps \in Pseudonym, DecideMiss(h, ps)
      PROVE  IssuedInThePast' /\ VerifiedIsApproved' /\ OnlyApprovedIsSent' /\ UnsafeStaysInside'
  <2>1. VerifiedIsApproved'
    BY <1>4, ApprovalKept DEF DecideMiss, VerifiedIsApproved, TypeOK
  <2>2. QED
    BY <1>4, <2>1 DEF DecideMiss, IssuedInThePast, OnlyApprovedIsSent, UnsafeStaysInside
<1>5. ASSUME NEW h \in Handler, Issue(h)
      PROVE  IssuedInThePast' /\ VerifiedIsApproved' /\ OnlyApprovedIsSent' /\ UnsafeStaysInside'
  <2>1. VerifiedIsApproved'
    BY <1>5, ApprovalKept DEF Issue, Return, workers, VerifiedIsApproved, TypeOK
  <2>2. IssuedInThePast'
    BY <1>5 DEF Issue, workers, IssuedInThePast, TypeOK
  <2>3. QED
    BY <1>5, <2>1, <2>2 DEF Issue, OnlyApprovedIsSent, UnsafeStaysInside
<1>6. ASSUME NEW h \in Handler, Verify(h)
      PROVE  IssuedInThePast' /\ VerifiedIsApproved' /\ OnlyApprovedIsSent' /\ UnsafeStaysInside'
  <2>1. ASSUME NEW g \in Handler, pc'[g] = "verified"
        PROVE  \E tok \in issued' : Approves(tok, g)'
    <3>1. CASE g # h
      BY <1>6, <2>1, <3>1, ApprovalKept DEF Verify, workers, TypeOK
    <3>2. CASE g = h
      <4>1. presented[h] \in issued /\ presented[h].issuedAt <= now
        BY <1>6 DEF Verify, TypeOK, IssuedInThePast
      <4>2. verifiedAt'[h] = now
        BY <1>6 DEF Verify, TypeOK
      <4>3. (KeyOf(at[h]))' = KeyOf(at[h]) /\ StateOf(h)' = StateOf(h)
        BY <1>6 DEF Verify, workers, KeyOf, StateOf
      <4>4. Approves(presented[h], h)'
        <5>1. presented' = presented
          BY <1>6 DEF Verify
        <5>2. QED
          BY <1>6, <4>1, <4>2, <4>3, <5>1 DEF Verify, Verifies, Approves
      <4>5. presented'[h] = presented[h] /\ issued' = issued
        BY <1>6 DEF Verify
      <4>6. QED
        BY <3>2, <4>1, <4>4, <4>5
    <3>3. QED
      BY <3>1, <3>2
  <2>2. VerifiedIsApproved'
    BY <2>1 DEF VerifiedIsApproved
  <2>3. QED
    BY <1>6, <2>2 DEF Verify, workers, IssuedInThePast, OnlyApprovedIsSent, UnsafeStaysInside
<1>7. ASSUME NEW h \in Handler, Reject(h) \/ RefuseDirect(h)
      PROVE  IssuedInThePast' /\ VerifiedIsApproved' /\ OnlyApprovedIsSent' /\ UnsafeStaysInside'
  <2>1. VerifiedIsApproved'
    BY <1>7, ApprovalKept DEF Reject, RefuseDirect, Return, workers, VerifiedIsApproved, TypeOK
  <2>2. QED
    BY <1>7, <2>1 DEF Reject, RefuseDirect, workers, IssuedInThePast, OnlyApprovedIsSent,
                      UnsafeStaysInside
<1>8. ASSUME NEW h \in Handler, Finish(h)
      PROVE  IssuedInThePast' /\ VerifiedIsApproved' /\ OnlyApprovedIsSent' /\ UnsafeStaysInside'
  <2>1. VerifiedIsApproved'
    BY <1>8, ApprovalKept DEF Finish, Return, workers, VerifiedIsApproved, TypeOK
  <2>2. IssuedInThePast'
    BY <1>8 DEF Finish, workers, IssuedInThePast
  <2>3. CASE Blocked(request[h])
    BY <1>8, <2>1, <2>2, <2>3 DEF Finish, OnlyApprovedIsSent, UnsafeStaysInside
  <2>4. CASE ~Blocked(request[h])
    <3>1. sent' = SentBy(h) /\ issued' = issued
      BY <1>8, <2>4 DEF Finish
    <3>2. PICK tok \in issued : Approves(tok, h)
      BY <1>8 DEF Finish, VerifiedIsApproved
    <3>3. OnlyApprovedIsSent'
      BY <3>1, <3>2 DEF SentBy, Approves, OnlyApprovedIsSent
    <3>4. at[h] \in Worker /\ provider[at[h]] \in Provider
      BY <1>8, StateType DEF Finish, TypeOK
    <3>5. PayloadOf(request[h], pseudonym[h]).form = "raw" => provider[at[h]] = "fake"
      BY <1>8, <2>4, <3>4 DEF Finish, RefusesDirect, PayloadOf, Blocked
    <3>6. UnsafeStaysInside'
      BY <2>4, <3>1, <3>5 DEF SentBy, StateOf, UnsafeStaysInside, Blocked
    <3>7. QED
      BY <2>1, <2>2, <3>3, <3>6
  <2>5. QED
    BY <2>3, <2>4
<1>9. ASSUME NEW w \in Worker, NEW prov \in Provider, Restart(w, prov)
      PROVE  IssuedInThePast' /\ VerifiedIsApproved' /\ OnlyApprovedIsSent' /\ UnsafeStaysInside'
  <2>1. ASSUME NEW g \in Handler, pc'[g] = "verified"
        PROVE  \E tok \in issued' : Approves(tok, g)'
    <3>1. at[g] # w /\ pc[g] = "verified"
      BY <1>9, <2>1 DEF Restart, TypeOK
    <3>2. at[g] \in Worker
      BY <3>1 DEF TypeOK
    <3>3. QED
      BY <1>9, <3>1, <3>2, ApprovalKept DEF Restart, TypeOK
  <2>2. VerifiedIsApproved'
    BY <2>1 DEF VerifiedIsApproved
  <2>3. QED
    BY <1>9, <2>2 DEF Restart, IssuedInThePast, OnlyApprovedIsSent, UnsafeStaysInside
<1>10. CASE Tick
  <2>1. VerifiedIsApproved'
    BY <1>10, ApprovalKept DEF Tick, frames, VerifiedIsApproved
  <2>2. IssuedInThePast'
    BY <1>10 DEF Tick, IssuedInThePast, TypeOK, Token
  <2>3. QED
    BY <1>10, <2>1, <2>2 DEF Tick, OnlyApprovedIsSent, UnsafeStaysInside
<1>11. QED
  BY <1>1, <1>2, <1>3, <1>4, <1>5, <1>6, <1>7, <1>8, <1>9, <1>10 DEF Next, Handle

LEMMA ApprovalInvariant == Spec => []ApprovalInv
  BY ApprovalInit, ApprovalStep, PTL DEF Spec

(* What reaches a provider was approved, under the same key and in time.   *)
THEOREM SentIsApproved == Spec => []OnlyApprovedIsSent
<1>1. ApprovalInv => OnlyApprovedIsSent
  BY DEF ApprovalInv
<1>2. QED
  BY <1>1, ApprovalInvariant, PTL

(* No raw document leaves the trust boundary, and nothing blocked is sent. *)
THEOREM NothingUnsafeIsSent == Spec => []UnsafeStaysInside
<1>1. ApprovalInv => UnsafeStaysInside
  BY DEF ApprovalInv
<1>2. QED
  BY <1>1, ApprovalInvariant, PTL

-----------------------------------------------------------------------------
(* Without a configured secret and with one handler, an approval is        *)
(* honoured.  What a decision takes from the vault ...                     *)
Taken(w, r) == IF UsesVault(r) THEN vault[w][r.doc] ELSE Absent

(* ... and that it finds it there.                                         *)
Stored(w, r) == UsesVault(r) => vault[w][r.doc] # Absent

(* A token under the key of a worker as it runs now holds the payload that *)
(* worker would decide again, for its vault has kept the pseudonym; any    *)
(* other token is of an earlier incarnation or of another worker.          *)
TokensStand ==
    \A tok \in issued :
        /\ tok.key.holder \in Worker
        /\ tok.key.incarnation \in Nat /\ tok.key.incarnation <= incarnation[tok.key.holder]
        /\ \A w \in Worker : tok.key = KeyOf(w) =>
              /\ Stored(w, tok.state.request)
              /\ tok.state.payload = PayloadOf(tok.state.request, Taken(w, tok.state.request))

(* A handler that has decided holds what the vault holds, and one that is  *)
(* about to store a pseudonym stores it where there is none.               *)
FramesStand ==
    \A h \in Handler :
        /\ pc[h] = "store" =>
              /\ UsesVault(request[h]) /\ vault[at[h]][request[h].doc] = Absent
              /\ pseudonym[h] # Absent
        /\ pc[h] \in {"decided", "verified"} =>
              pseudonym[h] = Taken(at[h], request[h]) /\ Stored(at[h], request[h])

HonourInv == TypeOK /\ TokensStand /\ FramesStand /\ ApprovalHonoured

LEMMA HonourInit == Init => HonourInv
  BY TypeInit DEF Init, HonourInv, TokensStand, FramesStand, ApprovalHonoured

(* A step that changes no vault and no incarnation keeps the tokens.       *)
LEMMA TokensKept ==
  ASSUME TokensStand, vault' = vault, incarnation' = incarnation, issued' = issued
  PROVE  TokensStand'
  BY DEF TokensStand, Stored, Taken, KeyOf

(* A handler that a step leaves alone keeps its frame.                     *)
LEMMA FrameKept ==
  ASSUME FramesStand, vault' = vault, UNCHANGED <<pc, at, request, pseudonym>>
  PROVE  FramesStand'
  BY DEF FramesStand, Stored, Taken

LEMMA HonourStep ==
  ASSUME ~Durable, \A h, g \in Handler : h = g, HonourInv, [Next]_vars
  PROVE  HonourInv'
<1> USE ConfirmationAssumption DEF HonourInv
<1>0. TypeOK'
  BY TypeStep
<1> SUFFICES TokensStand' /\ FramesStand' /\ ApprovalHonoured'
  BY <1>0
<1>1. CASE UNCHANGED vars
  BY <1>1, TokensKept, FrameKept DEF vars, workers, frames, ApprovalHonoured
<1>2. ASSUME NEW h \in Handler, NEW w \in Worker, NEW r \in Request,
             NEW tok \in issued \cup {Absent}, Begin(h, w, r, tok)
      PROVE  TokensStand' /\ FramesStand' /\ ApprovalHonoured'
  <2>1. FramesStand'
    BY <1>2 DEF Begin, FramesStand, TypeOK
  <2>2. QED
    BY <1>2, <2>1, TokensKept DEF Begin, workers, ApprovalHonoured
<1>3. ASSUME NEW h \in Handler, DecideHit(h)
      PROVE  TokensStand' /\ FramesStand' /\ ApprovalHonoured'
  <2>1. pseudonym'[h] = Taken(at[h], request[h]) /\ Stored(at[h], request[h])
    BY <1>3 DEF DecideHit, Taken, Stored, TypeOK
  <2>2. pc'[h] = "decided" /\ UNCHANGED <<workers, at, request, issued, rejected>>
    BY <1>3 DEF DecideHit, TypeOK
  <2>3. FramesStand'
    BY <2>1, <2>2 DEF workers, FramesStand, Taken, Stored
  <2>4. QED
    BY <2>2, <2>3, TokensKept DEF workers, ApprovalHonoured
<1>4. ASSUME NEW h \in Handler, NEW ps \in Pseudonym, DecideMiss(h, ps)
      PROVE  TokensStand' /\ FramesStand' /\ ApprovalHonoured'
  <2>1. /\ pc'[h] = "store" /\ pseudonym'[h] = ps /\ ps # Absent
        /\ UNCHANGED <<vault, incarnation, at, request, issued, rejected>>
    BY <1>4 DEF DecideMiss, TypeOK
  <2>2. UsesVault(request[h]) /\ vault[at[h]][request[h].doc] = Absent
    BY <1>4 DEF DecideMiss
  <2>3. FramesStand'
    BY <2>1, <2>2 DEF FramesStand
  <2>4. QED
    BY <2>1, <2>3, TokensKept DEF ApprovalHonoured
<1>5. ASSUME NEW h \in Handler, Store(h)
      PROVE  TokensStand' /\ FramesStand' /\ ApprovalHonoured'
  <2>1. at[h] \in Worker /\ request[h] \in Request /\ request[h].doc \in Doc
    BY <1>5, StateType DEF Store, Request
  <2>2. /\ UsesVault(request[h]) /\ vault[at[h]][request[h].doc] = Absent
        /\ pseudonym[h] # Absent
    BY <1>5 DEF Store, FramesStand
  <2>3. /\ vault' = [vault EXCEPT ![at[h]][request[h].doc] = pseudonym[h]]
        /\ pc'[h] = "decided" /\ UNCHANGED <<incarnation, at, request, pseudonym, issued, rejected>>
    BY <1>5 DEF Store, TypeOK
  <2>4. vault'[at[h]][request[h].doc] = pseudonym[h]
    BY <2>1, <2>3 DEF TypeOK
  <2>5. FramesStand'
    BY <2>2, <2>3, <2>4 DEF FramesStand, Taken, Stored
  <2>6. ASSUME NEW w \in Worker, NEW r \in Request, Stored(w, r)
        PROVE  Stored(w, r)' /\ Taken(w, r)' = Taken(w, r)
    <3>1. CASE UsesVault(r)
      <4>1. r.doc \in Doc /\ (w # at[h] \/ r.doc # request[h].doc)
        BY <2>2, <2>6, <3>1 DEF Stored, Request
      <4>2. vault'[w][r.doc] = vault[w][r.doc]
        BY <2>1, <2>3, <4>1 DEF TypeOK
      <4>3. QED
        BY <2>6, <4>2 DEF Stored, Taken
    <3>2. CASE ~UsesVault(r)
      BY <3>2 DEF Stored, Taken
    <3>3. QED
      BY <3>1, <3>2
  <2>7. TokensStand'
    <3>1. ASSUME NEW tok \in issued, NEW w \in Worker, tok.key = KeyOf(w)
          PROVE  /\ Stored(w, tok.state.request)'
                 /\ tok.state.payload = PayloadOf(tok.state.request, Taken(w, tok.state.request))'
      <4>1. tok.state.request \in Request
        BY DEF TypeOK, Token, State
      <4>2. /\ Stored(w, tok.state.request)
            /\ tok.state.payload = PayloadOf(tok.state.request, Taken(w, tok.state.request))
        BY <3>1 DEF TokensStand
      <4>3. Stored(w, tok.state.request)' /\ Taken(w, tok.state.request)' = Taken(w, tok.state.request)
        BY <2>6, <4>1, <4>2
      <4>4. QED
        BY <4>2, <4>3 DEF PayloadOf
    <3>2. \A w \in Worker : KeyOf(w)' = KeyOf(w)
      BY <2>3 DEF KeyOf
    <3>3. QED
      BY <2>3, <3>1, <3>2 DEF TokensStand
  <2>8. QED
    BY <2>3, <2>5, <2>7 DEF ApprovalHonoured
<1>6. ASSUME NEW h \in Handler, Issue(h)
      PROVE  TokensStand' /\ FramesStand' /\ ApprovalHonoured'
  <2>1. FramesStand'
    BY <1>6 DEF Issue, Return, FramesStand, TypeOK
  <2> DEFINE new == [key |-> KeyOf(at[h]), state |-> StateOf(h), issuedAt |-> now]
  <2>2. issued' = issued \cup {new} /\ UNCHANGED <<vault, incarnation, rejected>>
    BY <1>6 DEF Issue, workers
  <2>3. at[h] \in Worker /\ incarnation[at[h]] \in Nat
    BY <1>6, StateType DEF Issue, TypeOK
  <2>4. /\ new.key.holder = at[h] /\ new.key.incarnation = incarnation[at[h]]
        /\ new.state.request = request[h]
        /\ new.state.payload = PayloadOf(request[h], pseudonym[h])
    BY DEF KeyOf, StateOf
  <2>5. pseudonym[h] = Taken(at[h], request[h]) /\ Stored(at[h], request[h])
    BY <1>6 DEF Issue, FramesStand
  <2>6. ASSUME NEW w \in Worker, new.key = KeyOf(w) PROVE w = at[h]
    BY <2>6 DEF KeyOf
  <2>7. TokensStand'
    <3> HIDE DEF new
    <3>1. /\ new.key.holder \in Worker
          /\ new.key.incarnation \in Nat /\ new.key.incarnation <= incarnation[new.key.holder]
          /\ \A w \in Worker : new.key = KeyOf(w) =>
                /\ Stored(w, new.state.request)
                /\ new.state.payload = PayloadOf(new.state.request, Taken(w, new.state.request))
      BY <2>3, <2>4, <2>5, <2>6
    <3>2. \A tok \in issued \cup {new} :
              /\ tok.key.holder \in Worker
              /\ tok.key.incarnation \in Nat /\ tok.key.incarnation <= incarnation[tok.key.holder]
              /\ \A w \in Worker : tok.key = KeyOf(w) =>
                    /\ Stored(w, tok.state.request)
                    /\ tok.state.payload = PayloadOf(tok.state.request, Taken(w, tok.state.request))
      BY <3>1 DEF TokensStand
    <3>3. QED
      BY <2>2, <3>2 DEF TokensStand, Stored, Taken, KeyOf
  <2>8. QED
    BY <2>1, <2>2, <2>7 DEF ApprovalHonoured
<1>7. ASSUME NEW h \in Handler, Verify(h)
      PROVE  TokensStand' /\ FramesStand' /\ ApprovalHonoured'
  <2>1. FramesStand'
    BY <1>7 DEF Verify, workers, FramesStand, Taken, Stored, TypeOK
  <2>2. QED
    BY <1>7, <2>1, TokensKept DEF Verify, workers, ApprovalHonoured
<1>8. ASSUME NEW h \in Handler, Reject(h)
      PROVE  TokensStand' /\ FramesStand' /\ ApprovalHonoured'
  <2>1. FramesStand'
    BY <1>8 DEF Reject, Return, FramesStand, TypeOK
  <2>2. TokensStand'
    BY <1>8, TokensKept DEF Reject, workers
  <2> DEFINE tok == presented[h]
  <2>3. tok \in issued /\ at[h] \in Worker /\ tok \in Token
    BY <1>8, StateType DEF Reject, TypeOK
  <2>4. ASSUME tok.key = KeyOf(at[h]), tok.state.request = request[h],
               tok.state.provider = provider[at[h]], now <= tok.issuedAt + TTL
        PROVE  FALSE
    <3>1. tok.state.payload = PayloadOf(request[h], Taken(at[h], request[h]))
      BY <2>3, <2>4 DEF TokensStand
    <3>2. pseudonym[h] = Taken(at[h], request[h])
      BY <1>8 DEF Reject, FramesStand
    <3>3. tok.state \in State
      BY <2>3 DEF Token
    <3>4. tok.state = StateOf(h)
      BY <2>4, <3>1, <3>2, <3>3 DEF State, StateOf
    <3>5. QED
      BY <1>8, <2>4, <3>4 DEF Reject, Verifies
  <2>5. rejected' = [token |-> tok, key |-> KeyOf(at[h]), request |-> request[h],
                     provider |-> provider[at[h]], at |-> now]
    BY <1>8 DEF Reject
  <2>6. ApprovalHonoured'
    BY <2>4, <2>5 DEF ApprovalHonoured
  <2>7. QED
    BY <2>1, <2>2, <2>6
<1>9. ASSUME NEW h \in Handler, RefuseDirect(h) \/ Finish(h)
      PROVE  TokensStand' /\ FramesStand' /\ ApprovalHonoured'
  <2>1. FramesStand'
    BY <1>9 DEF RefuseDirect, Finish, Return, FramesStand, TypeOK
  <2>2. QED
    BY <1>9, <2>1, TokensKept DEF RefuseDirect, Finish, workers, ApprovalHonoured
<1>10. ASSUME NEW w \in Worker, NEW prov \in Provider, Restart(w, prov)
       PROVE  TokensStand' /\ FramesStand' /\ ApprovalHonoured'
  <2>1. /\ incarnation' = [incarnation EXCEPT ![w] = @ + 1]
        /\ \A v \in Worker \ {w} : vault'[v] = vault[v]
        /\ issued' = issued /\ rejected' = rejected
    BY <1>10 DEF Restart, TypeOK
  <2>2. ASSUME NEW tok \in issued
        PROVE  /\ tok.key.incarnation <= incarnation'[tok.key.holder]
               /\ tok.key # KeyOf(w)'
               /\ \A v \in Worker \ {w} : KeyOf(v)' = KeyOf(v)
    BY <2>1 DEF TokensStand, KeyOf, TypeOK
  <2>3. TokensStand'
    BY <2>1, <2>2 DEF TokensStand, Stored, Taken
  <2>4. FramesStand'
    <3>1. ASSUME NEW h \in Handler, at[h] # w, pc[h] # "idle"
          PROVE  /\ at[h] \in Worker \ {w} /\ UNCHANGED <<pc[h], at[h], request[h], pseudonym[h]>>
                 /\ vault'[at[h]] = vault[at[h]]
      BY <1>10, <2>1, <3>1 DEF Restart, TypeOK
    <3>2. \A h \in Handler : at[h] = w \/ pc[h] = "idle" => pc'[h] = "idle"
      BY <1>10 DEF Restart, TypeOK
    <3>3. QED
      BY <3>1, <3>2 DEF FramesStand, Stored, Taken
  <2>5. QED
    BY <2>1, <2>3, <2>4 DEF ApprovalHonoured
<1>11. CASE Tick
  BY <1>11, TokensKept, FrameKept DEF Tick, frames, ApprovalHonoured
<1>12. QED
  BY <1>1, <1>2, <1>3, <1>4, <1>5, <1>6, <1>7, <1>8, <1>9, <1>10, <1>11 DEF Next, Handle

(* Under a key of its own, a worker that serves one request at a time      *)
(* refuses no unexpired approval of the request it is presented with.      *)
THEOREM OwnApprovalHonoured ==
  ASSUME ~Durable, \A h, g \in Handler : h = g
  PROVE  Spec => []ApprovalHonoured
<1>1. HonourInv /\ [Next]_vars => HonourInv'
  BY HonourStep
<1>2. HonourInv => ApprovalHonoured
  BY DEF HonourInv
<1>3. QED
  BY HonourInit, <1>1, <1>2, PTL DEF Spec
=============================================================================
