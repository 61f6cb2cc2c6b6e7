------------------------ MODULE ProviderCallProofs ------------------------
(***************************************************************************)
(* Proofs about ProviderCall, for any number of requests, any decisions    *)
(* and any timeouts that satisfy ProviderAssumption.                       *)
(***************************************************************************)
EXTENDS ProviderCall, TLAPS

USE DEF Live, Failed

LEMMA TypeInit == Init => TypeOK
  BY ProviderAssumption DEF Init, TypeOK

LEMMA SettleType ==
  ASSUME TypeOK, NEW r \in Req, NEW called \in BOOLEAN,
         NEW kind \in FailureKinds \cup {Absent},
         NEW response \in BOOLEAN, NEW reconstructed \in BOOLEAN,
         Settle(r, called, kind, response, reconstructed)
  PROVE  /\ caller' \in [Req -> {"ready", "waiting", "settled"}]
         /\ audit' \in [Req -> AuditRecord \cup {Absent}]
  BY DEF TypeOK, Settle, AuditRecord

LEMMA TypeStep == TypeOK /\ [Next]_vars => TypeOK'
<1> SUFFICES ASSUME TypeOK, [Next]_vars PROVE TypeOK'
  OBVIOUS
<1>1. CASE UNCHANGED vars
  BY <1>1 DEF vars, TypeOK
<1>2. CASE Tick
  BY <1>2, ProviderAssumption DEF Tick, TypeOK
<1>3. ASSUME NEW r \in Req, SettleBlocked(r) PROVE TypeOK'
  BY <1>3, SettleType DEF SettleBlocked, TypeOK
<1>4. ASSUME NEW r \in Req, SettleMismatch(r) PROVE TypeOK'
  BY <1>4, SettleType DEF SettleMismatch, TypeOK, FailureKinds
<1>5. ASSUME NEW r \in Req, Submit(r) PROVE TypeOK'
  BY <1>5 DEF Submit, TypeOK
<1>6. ASSUME NEW r \in Req, TakeAnswer(r) PROVE TypeOK'
  <2>1. decision[r].reconstructs \in BOOLEAN
    BY DEF TypeOK, Decision
  <2>2. QED
    BY <1>6, <2>1, SettleType DEF TakeAnswer, TypeOK
<1>7. ASSUME NEW r \in Req, TakeFailure(r) PROVE TypeOK'
  BY <1>7, SettleType DEF TakeFailure, TypeOK, FailureKinds
<1>8. ASSUME NEW r \in Req, GiveUp(r) PROVE TypeOK'
  BY <1>8, SettleType DEF GiveUp, TypeOK, FailureKinds
<1>9. ASSUME NEW r \in Req, WorkerStart(r) PROVE TypeOK'
  BY <1>9 DEF WorkerStart, SendFails, Send, TypeOK
<1>10. ASSUME NEW r \in Req, WorkerEnd(r) PROVE TypeOK'
  BY <1>10 DEF WorkerEnd, NativeTimeout, Finish, TypeOK
<1>11. QED
  BY <1>1, <1>2, <1>3, <1>4, <1>5, <1>6, <1>7, <1>8, <1>9, <1>10
     DEF Next, CallerStep

(* Every reachable state is well typed.                                    *)
THEOREM TypeCorrect == Spec => []TypeOK
  BY TypeInit, TypeStep, PTL DEF Spec

-----------------------------------------------------------------------------
(* The caller, its worker, the wire and the audit record agree.            *)
Agreement ==
    \A r \in Req :
        /\ (caller[r] = "settled") <=> (audit[r] # Absent)
        /\ caller[r] = "ready" => worker[r] = "none"
        /\ caller[r] = "waiting" => worker[r] # "none"
        /\ worker[r] # "none" => r \in Permitted
        /\ worker[r] = "none" => (caller[r] = "settled" => r \notin Permitted)
        /\ worker[r] \in {"none", "queued"} => wire[r] = 0
        /\ worker[r] \in {"sent", "answered"} => wire[r] = 1
        /\ wire[r] \in {0, 1}

AuditInv == TypeOK /\ Agreement /\ AuditTellsTheTruth

LEMMA AuditInit == Init => AuditInv
<1> SUFFICES ASSUME Init PROVE AuditInv
  OBVIOUS
<1>1. TypeOK
  BY TypeInit
<1>2. Agreement /\ AuditTellsTheTruth
  BY DEF Init, Agreement, AuditTellsTheTruth
<1>3. QED
  BY <1>1, <1>2 DEF AuditInv

LEMMA SettleRecord ==
  ASSUME TypeOK, NEW r \in Req, NEW called \in BOOLEAN,
         NEW kind \in FailureKinds \cup {Absent},
         NEW response \in BOOLEAN, NEW reconstructed \in BOOLEAN,
         Settle(r, called, kind, response, reconstructed)
  PROVE  /\ caller'[r] = "settled"
         /\ audit'[r] # Absent
         /\ audit'[r].called = called /\ audit'[r].kind = kind
         /\ audit'[r].response = response /\ audit'[r].reconstructed = reconstructed
         /\ \A q \in Req \ {r} : caller'[q] = caller[q] /\ audit'[q] = audit[q]
<1>1. [called |-> called, kind |-> kind, response |-> response,
       reconstructed |-> reconstructed] \in AuditRecord
  BY DEF AuditRecord
<1>2. QED
  BY <1>1, ProviderAssumption DEF Settle, TypeOK

(* Settling with a record that fits the worker keeps the agreement.        *)
LEMMA SettleFits ==
  ASSUME AuditInv, NEW r \in Req, NEW called \in BOOLEAN,
         NEW kind \in FailureKinds \cup {Absent},
         NEW response \in BOOLEAN, NEW reconstructed \in BOOLEAN,
         Settle(r, called, kind, response, reconstructed),
         UNCHANGED <<decision, worker, age, sentAt, wire>>,
         called <=> worker[r] # "none",
         ~called => r \notin Permitted /\ ~response,
         response => worker[r] = "answered" /\ kind = Absent,
         called => (response <=> kind = Absent),
         reconstructed => response
  PROVE  Agreement' /\ AuditTellsTheTruth'
<1> USE DEF AuditInv
<1>1. /\ caller'[r] = "settled"
      /\ audit'[r] # Absent
      /\ audit'[r].called = called /\ audit'[r].kind = kind
      /\ audit'[r].response = response /\ audit'[r].reconstructed = reconstructed
      /\ \A q \in Req \ {r} : caller'[q] = caller[q] /\ audit'[q] = audit[q]
  BY SettleRecord
<1>2. Permitted' = Permitted
  BY DEF Permitted
<1>3. Agreement'
  BY <1>1, <1>2 DEF Agreement
<1>4. ASSUME NEW q \in Req PROVE AuditTellsTheTruth!(q)'
  <2>1. CASE q = r
    BY <1>1, <2>1 DEF AuditTellsTheTruth, Agreement
  <2>2. CASE q # r
    BY <1>1, <2>2 DEF AuditTellsTheTruth
  <2>3. QED
    BY <2>1, <2>2
<1>5. AuditTellsTheTruth'
  BY <1>4 DEF AuditTellsTheTruth
<1>6. QED
  BY <1>3, <1>5

LEMMA AuditStep == AuditInv /\ [Next]_vars => AuditInv'
<1> SUFFICES ASSUME AuditInv, [Next]_vars PROVE Agreement' /\ AuditTellsTheTruth'
  BY TypeStep DEF AuditInv
<1> USE DEF AuditInv
<1>1. CASE UNCHANGED vars
  BY <1>1 DEF vars, Agreement, AuditTellsTheTruth, Permitted
<1>2. CASE Tick
  BY <1>2 DEF Tick, Agreement, AuditTellsTheTruth, Permitted
<1>3. ASSUME NEW r \in Req, SettleBlocked(r) PROVE Agreement' /\ AuditTellsTheTruth'
  <2>1. worker[r] = "none" /\ r \notin Permitted
    BY <1>3 DEF SettleBlocked, MayStart, Agreement, Permitted
  <2>2. QED
    BY <1>3, <2>1, SettleFits DEF SettleBlocked
<1>4. ASSUME NEW r \in Req, SettleMismatch(r) PROVE Agreement' /\ AuditTellsTheTruth'
  <2>1. worker[r] = "none" /\ r \notin Permitted
    BY <1>4 DEF SettleMismatch, MayStart, Agreement, Permitted
  <2>2. QED
    BY <1>4, <2>1, SettleFits DEF SettleMismatch, FailureKinds
<1>5. ASSUME NEW r \in Req, Submit(r) PROVE Agreement' /\ AuditTellsTheTruth'
  <2>1. r \in Permitted
    BY <1>5 DEF Submit, Permitted
  <2>2. audit[r] = Absent
    BY <1>5 DEF Submit, MayStart, Agreement
  <2>3. QED
    BY <1>5, <2>1, <2>2 DEF Submit, MayStart, Agreement, AuditTellsTheTruth, Permitted, TypeOK
<1>6. ASSUME NEW r \in Req, TakeAnswer(r) PROVE Agreement' /\ AuditTellsTheTruth'
  <2>1. decision[r].reconstructs \in BOOLEAN
    BY DEF TypeOK, Decision
  <2>2. QED
    BY <1>6, <2>1, SettleFits DEF TakeAnswer
<1>7. ASSUME NEW r \in Req, TakeFailure(r) PROVE Agreement' /\ AuditTellsTheTruth'
  <2>1. Absent \notin {"ProviderTimeoutError", "ProviderError"}
    BY ProviderAssumption DEF FailureKinds
  <2>2. QED
    BY <1>7, <2>1, SettleFits DEF TakeFailure, FailureKinds
<1>8. ASSUME NEW r \in Req, GiveUp(r) PROVE Agreement' /\ AuditTellsTheTruth'
  <2>1. Absent # "ProviderTimeoutError"
    BY ProviderAssumption DEF FailureKinds
  <2>2. QED
    BY <1>8, <2>1, SettleFits DEF GiveUp, FailureKinds
<1>9. ASSUME NEW r \in Req, WorkerStart(r) PROVE Agreement' /\ AuditTellsTheTruth'
  BY <1>9 DEF WorkerStart, SendFails, Send, Agreement, AuditTellsTheTruth, Permitted, TypeOK
<1>10. ASSUME NEW r \in Req, WorkerEnd(r) PROVE Agreement' /\ AuditTellsTheTruth'
  BY <1>10 DEF WorkerEnd, NativeTimeout, Finish, Agreement, AuditTellsTheTruth, Permitted, TypeOK
<1>11. QED
  BY <1>1, <1>2, <1>3, <1>4, <1>5, <1>6, <1>7, <1>8, <1>9, <1>10
     DEF Next, CallerStep

LEMMA AuditInvariant == Spec => []AuditInv
  BY AuditInit, AuditStep, PTL DEF Spec

(* Every audit record is true for good, whatever an abandoned worker still *)
(* does.                                                                   *)
THEOREM AuditIsTrue == Spec => []AuditTellsTheTruth
<1>1. AuditInv => AuditTellsTheTruth
  BY DEF AuditInv
<1>2. QED
  BY <1>1, AuditInvariant, PTL

-----------------------------------------------------------------------------
(* The boundary implements its contract: each step is a step of the        *)
(* contract or changes nothing the contract sees.                          *)
LEMMA OutcomeOfAbsent == Outcome(Absent) = "pending"
  BY DEF Outcome

LEMMA ContractInit == Init => Contract!Init
<1> SUFFICES ASSUME Init PROVE Contract!Init
  OBVIOUS
<1>1. [r \in Req |-> Outcome(audit[r])] = [r \in Req |-> "pending"]
  BY OutcomeOfAbsent DEF Init
<1>2. QED
  BY <1>1 DEF Contract!Init, Init, Permitted

LEMMA ContractSettle ==
  ASSUME AuditInv, NEW r \in Req, NEW called \in BOOLEAN,
         NEW kind \in FailureKinds \cup {Absent},
         NEW response \in BOOLEAN, NEW reconstructed \in BOOLEAN,
         Settle(r, called, kind, response, reconstructed),
         UNCHANGED <<decision, wire>>, caller[r] # "settled",
         called <=> r \in Permitted,
         called /\ kind = Absent => wire[r] = 1
  PROVE  \E o \in {"refused", "failed", "answered"} : Contract!Settle(r, o)
<1> USE DEF AuditInv
<1>1. /\ audit'[r] # Absent
      /\ audit'[r].called = called /\ audit'[r].kind = kind
      /\ \A q \in Req \ {r} : audit'[q] = audit[q]
  BY SettleRecord
<1> DEFINE o == IF ~called THEN "refused" ELSE IF kind # Absent THEN "failed" ELSE "answered"
<1>2. audit[r] = Absent
  BY DEF Agreement
<1>3. Outcome(audit'[r]) = o
  BY <1>1 DEF Outcome
<1>4. [q \in Req |-> Outcome(audit[q])]' = [[q \in Req |-> Outcome(audit[q])] EXCEPT ![r] = o]
  <2> HIDE DEF o
  <2>1. QED
    BY <1>1, <1>3
<1>5. Permitted' = Permitted
  BY DEF Permitted
<1>6. Contract!Settle(r, o)
  BY <1>2, <1>4, <1>5, OutcomeOfAbsent DEF Contract!Settle
<1>7. QED
  BY <1>6

LEMMA ContractStep ==
  AuditInv /\ [Next]_vars => [Contract!Next]_(Contract!contractVars)
<1> SUFFICES ASSUME AuditInv, [Next]_vars
    PROVE  Contract!Next \/ UNCHANGED <<decision, wire, audit>>
  BY DEF Contract!contractVars, Permitted
<1> USE DEF AuditInv
<1>1. CASE UNCHANGED vars
  BY <1>1 DEF vars
<1>2. CASE Tick
  BY <1>2 DEF Tick
<1>3. ASSUME NEW r \in Req, SettleBlocked(r) PROVE Contract!Next
  <2>1. r \notin Permitted /\ caller[r] # "settled"
    BY <1>3 DEF SettleBlocked, MayStart, Permitted
  <2>2. QED
    BY <1>3, <2>1, ContractSettle DEF SettleBlocked, Contract!Next
<1>4. ASSUME NEW r \in Req, SettleMismatch(r) PROVE Contract!Next
  <2>1. r \notin Permitted /\ caller[r] # "settled"
    BY <1>4 DEF SettleMismatch, MayStart, Permitted
  <2>2. QED
    BY <1>4, <2>1, ContractSettle DEF SettleMismatch, FailureKinds, Contract!Next
<1>5. ASSUME NEW r \in Req, Submit(r) PROVE UNCHANGED <<decision, wire, audit>>
  BY <1>5 DEF Submit
<1>6. ASSUME NEW r \in Req, TakeAnswer(r) PROVE Contract!Next
  <2>1. decision[r].reconstructs \in BOOLEAN
    BY DEF TypeOK, Decision
  <2>2. r \in Permitted /\ wire[r] = 1 /\ caller[r] # "settled"
    BY <1>6 DEF TakeAnswer, Agreement
  <2>3. QED
    BY <1>6, <2>1, <2>2, ContractSettle DEF TakeAnswer, Contract!Next
<1>7. ASSUME NEW r \in Req, TakeFailure(r) PROVE Contract!Next
  <2>1. r \in Permitted /\ caller[r] # "settled"
    BY <1>7 DEF TakeFailure, Agreement
  <2>2. Absent \notin {"ProviderTimeoutError", "ProviderError"}
    BY ProviderAssumption DEF FailureKinds
  <2>3. QED
    BY <1>7, <2>1, <2>2, ContractSettle DEF TakeFailure, FailureKinds, Contract!Next
<1>8. ASSUME NEW r \in Req, GiveUp(r) PROVE Contract!Next
  <2>1. r \in Permitted /\ caller[r] # "settled"
    BY <1>8 DEF GiveUp, Agreement
  <2>2. Absent # "ProviderTimeoutError"
    BY ProviderAssumption DEF FailureKinds
  <2>3. QED
    BY <1>8, <2>1, <2>2, ContractSettle DEF GiveUp, FailureKinds, Contract!Next
<1>9. ASSUME NEW r \in Req, Send(r) PROVE Contract!Next
  <2>1. r \in Permitted /\ wire[r] = 0
    BY <1>9 DEF Send, Agreement
  <2>2. Outcome(audit[r]) \in {"pending", "failed"}
    <3>1. CASE audit[r] = Absent
      BY <3>1, OutcomeOfAbsent
    <3>2. CASE audit[r] # Absent
      <4>1. audit[r].called /\ audit[r].kind # Absent
        BY <1>9, <3>2 DEF Send, AuditTellsTheTruth, TypeOK, AuditRecord
      <4>2. QED
        BY <3>2, <4>1 DEF Outcome
    <3>3. QED
      BY <3>1, <3>2
  <2>3. Contract!Transmit(r)
    BY <1>9, <2>1, <2>2 DEF Send, Contract!Transmit, Permitted, TypeOK
  <2>4. QED
    BY <2>3 DEF Contract!Next
<1>10. ASSUME NEW r \in Req, SendFails(r) \/ WorkerEnd(r)
       PROVE  UNCHANGED <<decision, wire, audit>>
  BY <1>10 DEF SendFails, WorkerEnd, NativeTimeout, Finish
<1>11. QED
  BY <1>1, <1>2, <1>3, <1>4, <1>5, <1>6, <1>7, <1>8, <1>9, <1>10
     DEF Next, CallerStep, WorkerStart

THEOREM BoundaryImplementsContract == Spec => ImplementsContract
  BY ContractInit, ContractStep, AuditInvariant, PTL
     DEF Spec, ImplementsContract, Contract!Spec

-----------------------------------------------------------------------------
(* How old a live call can be: it was picked up within StartLag, and the   *)
(* native timeout ends it, if the provider has one.                        *)
Timed == {r \in Runner : Native[r] > 0}

LiveIsYoung ==
    \A r \in Timed :
        /\ worker[r] = "none" => age[r] = 0
        /\ worker[r] = "queued" => age[r] <= StartLag
        /\ worker[r] = "sent" => sentAt[r] <= StartLag /\ age[r] <= sentAt[r] + Native[r]

(* While such a call is live its caller waits for it.                      *)
LiveIsAwaited ==
    \A r \in Timed : worker[r] \in Live => caller[r] = "waiting"

AgeInv == AuditInv /\ LiveIsYoung /\ LiveIsAwaited

LEMMA AgeInit == Init => AgeInv
  BY AuditInit, ProviderAssumption DEF Init, AgeInv, LiveIsYoung, LiveIsAwaited, Timed, Live

LEMMA AgeStep ==
  ASSUME AgeInv, [Next]_vars
  PROVE  AgeInv'
<1> USE DEF AgeInv, AuditInv
<1>0. AuditInv'
  BY AuditStep
<1> SUFFICES LiveIsYoung' /\ LiveIsAwaited'
  BY <1>0
<1> USE ProviderAssumption DEF Timed
<1>1. CASE UNCHANGED vars
  BY <1>1 DEF vars, LiveIsYoung, LiveIsAwaited
<1>2. CASE Tick
  <2>1. LiveIsYoung'
    BY <1>2 DEF Tick, LiveIsYoung, LiveIsAwaited, Running, TypeOK, Agreement
  <2>2. QED
    BY <1>2, <2>1 DEF Tick, LiveIsAwaited
<1>3. ASSUME NEW r \in Req, SettleBlocked(r) \/ SettleMismatch(r) \/ TakeAnswer(r) \/ TakeFailure(r)
      PROVE  LiveIsYoung' /\ LiveIsAwaited'
  <2>1. worker[r] \notin Live /\ caller' = [caller EXCEPT ![r] = "settled"]
    BY <1>3 DEF SettleBlocked, SettleMismatch, TakeAnswer, TakeFailure, Settle, MayStart,
                Agreement
  <2>2. UNCHANGED <<worker, age, sentAt>>
    BY <1>3 DEF SettleBlocked, SettleMismatch, TakeAnswer, TakeFailure
  <2>3. QED
    BY <2>1, <2>2 DEF LiveIsYoung, LiveIsAwaited, TypeOK
<1>4. ASSUME NEW r \in Req, Submit(r) PROVE LiveIsYoung' /\ LiveIsAwaited'
  BY <1>4 DEF Submit, MayStart, LiveIsYoung, LiveIsAwaited, TypeOK, Agreement
<1>5. ASSUME NEW r \in Req, GiveUp(r) PROVE LiveIsYoung' /\ LiveIsAwaited'
  <2>1. r \notin Timed
    <3> SUFFICES ASSUME r \in Timed PROVE FALSE
      OBVIOUS
    <3>1. Native[r] \in Nat /\ Deadline(r) = Native[r] + Grace
      BY DEF Deadline, CallerTimeoutForProvider
    <3>2. age[r] <= StartLag + Native[r]
      BY <1>5, <3>1 DEF GiveUp, LiveIsYoung, TypeOK
    <3>3. QED
      BY <1>5, <3>1, <3>2 DEF GiveUp, TypeOK
  <2>2. caller' = [caller EXCEPT ![r] = "settled"] /\ UNCHANGED <<worker, age, sentAt>>
    BY <1>5 DEF GiveUp, Settle
  <2>3. QED
    BY <2>1, <2>2 DEF LiveIsYoung, LiveIsAwaited, TypeOK
<1>6. ASSUME NEW r \in Req, WorkerStart(r) PROVE LiveIsYoung' /\ LiveIsAwaited'
  BY <1>6 DEF WorkerStart, SendFails, Send, LiveIsYoung, LiveIsAwaited, TypeOK
<1>7. ASSUME NEW r \in Req, WorkerEnd(r) PROVE LiveIsYoung' /\ LiveIsAwaited'
  BY <1>7 DEF WorkerEnd, NativeTimeout, Finish, LiveIsYoung, LiveIsAwaited, TypeOK
<1>8. QED
  BY <1>1, <1>2, <1>3, <1>4, <1>5, <1>6, <1>7 DEF Next, CallerStep

(* Where every provider with a native timeout is called by the experiment  *)
(* runner, no call outlives its caller, whatever the timeouts are: the     *)
(* grace period covers the start of the worker.                            *)
THEOREM RunnerOutlastsCall ==
  ASSUME \A r \in Req : Native[r] > 0 => r \in Runner
  PROVE  Spec => []NoCallOutlivesItsCaller
<1>1. AgeInv /\ [Next]_vars => AgeInv'
  BY AgeStep
<1>2. AgeInv => NoCallOutlivesItsCaller
  BY DEF AgeInv, LiveIsAwaited, NoCallOutlivesItsCaller, Timed
<1>3. QED
  BY AgeInit, <1>1, <1>2, PTL DEF Spec

-----------------------------------------------------------------------------
(* The runner makes one request at a time: at most one of its callers      *)
(* waits, whatever the service does meanwhile.                             *)
OneWaits ==
    \A q, r \in Runner : caller[q] = "waiting" /\ caller[r] = "waiting" => q = r

LEMMA OneWaitsStep ==
  ASSUME TypeOK, OneWaits, [Next]_vars
  PROVE  OneWaits'
<1> USE ProviderAssumption
<1>1. CASE UNCHANGED vars
  BY <1>1 DEF vars, OneWaits
<1>2. ASSUME NEW r \in Req, Submit(r) PROVE OneWaits'
  BY <1>2 DEF Submit, MayStart, OneWaits, TypeOK
<1>3. ASSUME NEW r \in Req, CallerStep(r), ~Submit(r) PROVE OneWaits'
  <2>1. caller' = [caller EXCEPT ![r] = "settled"]
    BY <1>3 DEF CallerStep, SettleBlocked, SettleMismatch, TakeAnswer, TakeFailure, GiveUp, Settle
  <2>2. QED
    BY <2>1 DEF OneWaits, TypeOK
<1>4. ASSUME NEW r \in Req, Tick \/ WorkerStart(r) \/ WorkerEnd(r) PROVE OneWaits'
  BY <1>4 DEF Tick, WorkerStart, SendFails, Send, WorkerEnd, NativeTimeout, Finish, OneWaits
<1>5. CASE Tick
  BY <1>5 DEF Tick, OneWaits
<1>6. QED
  BY <1>1, <1>2, <1>3, <1>4, <1>5 DEF Next

(* A batch against providers with native timeouts never has two provider   *)
(* calls under way.                                                        *)
THEOREM BatchHasOneLiveCall ==
  ASSUME \A r \in Runner : Native[r] > 0
  PROVE  Spec => []OneLiveCall
<1> DEFINE Inv == AgeInv /\ OneWaits
<1>1. Init => Inv
  BY AgeInit, ProviderAssumption DEF Init, OneWaits
<1>2. Inv /\ [Next]_vars => Inv'
  BY AgeStep, OneWaitsStep DEF AgeInv, AuditInv
<1>3. Inv => OneLiveCall
  BY DEF AgeInv, LiveIsAwaited, OneWaits, OneLiveCall, Timed
<1>4. QED
  <2> HIDE DEF Inv
  <2>1. QED
    BY <1>1, <1>2, <1>3, PTL DEF Spec
=============================================================================
