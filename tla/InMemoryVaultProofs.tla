------------------------ MODULE InMemoryVaultProofs ------------------------
(***************************************************************************)
(* Proofs about InMemoryVault, for every set of threads, partitions,       *)
(* categories, values and tokens, and every deployment:                    *)
(*   - with one call at a time and any token factory, the vault keeps its  *)
(*     contract (Stable, RoundTrip) and implements the abstract            *)
(*     VaultContract;                                                      *)
(*   - with any number of interleaving calls and production tokens,        *)
(*     PartitionIsolation;                                                 *)
(*   - in both, Injective, ResolvesOrPending and the action property       *)
(*     ReverseWriteOnce.                                                   *)
(***************************************************************************)
EXTENDS InMemoryVault, TLAPS

-----------------------------------------------------------------------------
(* Type correctness: every step of every thread keeps the dictionaries,    *)
(* frames and histories within their types.                                *)
THEOREM TypeCorrect == Spec => []TypeOK
<1>1. Init => TypeOK
  BY VaultAssumption DEF Init, TypeOK, Steps
<1>2. TypeOK /\ [Next]_vars => TypeOK'
  <2> SUFFICES ASSUME TypeOK, [Next]_vars PROVE TypeOK'
    OBVIOUS
  <2> USE VaultAssumption DEF TypeOK, Steps
  <2>1. ASSUME NEW t \in Thread, NEW e \in Entry, Begin(t, e) PROVE TypeOK'
    BY <2>1 DEF Begin
  <2>2. ASSUME NEW t \in Thread, LookupHit(t) PROVE TypeOK'
    BY <2>2 DEF LookupHit, Return, ForwardKey, Answer
  <2>3. ASSUME NEW t \in Thread, LookupMiss(t) PROVE TypeOK'
    BY <2>3 DEF LookupMiss, ForwardKey
  <2>4. ASSUME NEW t \in Thread, NEW tok \in Token, CandidateTaken(t, tok) PROVE TypeOK'
    BY <2>4 DEF CandidateTaken, DrawToken, MakePseudonym
  <2>5. ASSUME NEW t \in Thread, NEW tok \in Token, CandidateFree(t, tok) PROVE TypeOK'
    <3>1. call[t] \in Entry /\ suffix[t] \in 0 .. MaxSuffix
      BY <2>5 DEF CandidateFree
    <3>2. MakePseudonym(call[t].category, tok, suffix[t]) \in Pseudonym
      BY <3>1 DEF MakePseudonym, Entry, Pseudonym
    <3>. QED
      BY <2>5, <3>2 DEF CandidateFree, DrawToken
  <2>6. ASSUME NEW t \in Thread, WriteForward(t) PROVE TypeOK'
    BY <2>6 DEF WriteForward, ForwardKey
  <2>7. ASSUME NEW t \in Thread, WriteReverse(t) PROVE TypeOK'
    <3>1. call[t] \in Entry /\ candidate[t] \in Pseudonym
      BY <2>7 DEF WriteReverse
    <3>2. call[t].partition \in Partition /\ call[t].value \in Value
      BY <3>1 DEF Entry
    <3>3. [entry |-> call[t], pseudonym |-> candidate[t]] \in Answer
      BY <3>1 DEF Answer
    <3>4. reverse' \in [Partition -> [Pseudonym -> Value \cup {Absent}]]
      BY <2>7, <3>1, <3>2 DEF WriteReverse
    <3>. QED
      BY <2>7, <3>1, <3>3, <3>4 DEF WriteReverse, Return
  <2>8. CASE UNCHANGED vars
    BY <2>8 DEF vars
  <2>9. deployment.tokens \subseteq Token
    OBVIOUS
  <2>. QED
    BY <2>1, <2>2, <2>3, <2>4, <2>5, <2>6, <2>7, <2>8, <2>9 DEF Next, Step, Generate
<1>. QED
  BY <1>1, <1>2, PTL DEF Spec

(* No step changes how the process uses its vault.                         *)
LEMMA DeploymentStays ==
  ASSUME TypeOK, [Next]_vars
  PROVE  deployment' = deployment /\ deployment.tokens \subseteq Token
BY VaultAssumption
   DEF TypeOK, Next, Step, Generate, Begin, LookupHit, LookupMiss, CandidateTaken,
       CandidateFree, WriteForward, WriteReverse, vars

-----------------------------------------------------------------------------
(* One call at a time.                                                     *)

OneCallAtATime ==
    \A t, u \in Thread : pc[t] # "idle" /\ pc[u] # "idle" => t = u

(* What the running call knows between its steps: its entry is still       *)
(* unissued, and the candidate it carries is free in its partition.        *)
CallSound ==
    \A t \in Thread :
        /\ pc[t] \in {"generate", "writeForward"} => forward[call[t]] = Absent
        /\ pc[t] \in {"writeForward", "writeReverse"} =>
              reverse[call[t].partition][candidate[t]] = Absent
        /\ pc[t] = "writeReverse" => forward[call[t]] = candidate[t]

(* Every stored pseudonym has been answered, and can be reconstructed,     *)
(* unless the call that stored it is about to finish.                      *)
ForwardSound ==
    \A e \in Entry :
        forward[e] # Absent =>
            \/ /\ [entry |-> e, pseudonym |-> forward[e]] \in answers
               /\ reverse[e.partition][forward[e]] = e.value
            \/ \E t \in Thread : pc[t] = "writeReverse" /\ call[t] = e

AnswersSound ==
    \A a \in answers :
        /\ forward[a.entry] = a.pseudonym
        /\ reverse[a.entry.partition][a.pseudonym] = a.entry.value

SerialInv == OneCallAtATime /\ CallSound /\ ForwardSound /\ AnswersSound

(* The inductive invariant of the serial vault.                            *)
LEMMA SerialInduction == Spec => [](TypeOK /\ (Serial => SerialInv))
<1>1. Init => SerialInv
  BY VaultAssumption
     DEF Init, SerialInv, OneCallAtATime, CallSound, ForwardSound, AnswersSound
<1>2. TypeOK /\ TypeOK' /\ (Serial => SerialInv) /\ [Next]_vars => (Serial => SerialInv)'
  <2> SUFFICES ASSUME TypeOK, TypeOK', Serial, SerialInv, [Next]_vars PROVE SerialInv'
    BY DeploymentStays DEF Serial
  <2> USE VaultAssumption DEF SerialInv, ForwardKey
  <2>1. ASSUME NEW t \in Thread, NEW e \in Entry, Begin(t, e) PROVE SerialInv'
    BY <2>1 DEF Begin, TypeOK, OneCallAtATime, CallSound, ForwardSound, AnswersSound
  <2>2. ASSUME NEW t \in Thread, LookupHit(t) PROVE SerialInv'
    <3>1. call[t] \in Entry /\ pc[t] = "lookup"
      BY <2>2 DEF LookupHit, TypeOK
    <3>2. \A u \in Thread : pc[u] # "writeReverse"
      BY <3>1 DEF OneCallAtATime
    <3>3. /\ [entry |-> call[t], pseudonym |-> forward[call[t]]] \in answers
          /\ answers' = answers
      BY <2>2, <3>1, <3>2 DEF ForwardSound, LookupHit, Return
    <3>. QED
      BY <2>2, <3>1, <3>2, <3>3
         DEF LookupHit, Return, TypeOK, OneCallAtATime, CallSound, ForwardSound, AnswersSound
  <2>3. ASSUME NEW t \in Thread, LookupMiss(t) PROVE SerialInv'
    BY <2>3 DEF LookupMiss, TypeOK, OneCallAtATime, CallSound, ForwardSound, AnswersSound
  <2>4. ASSUME NEW t \in Thread, NEW tok \in Token, CandidateTaken(t, tok) PROVE SerialInv'
    BY <2>4 DEF CandidateTaken, TypeOK, OneCallAtATime, CallSound, ForwardSound, AnswersSound
  <2>5. ASSUME NEW t \in Thread, NEW tok \in Token, CandidateFree(t, tok) PROVE SerialInv'
    BY <2>5 DEF CandidateFree, TypeOK, OneCallAtATime, CallSound, ForwardSound, AnswersSound
  <2>6. ASSUME NEW t \in Thread, WriteForward(t) PROVE SerialInv'
    <3>1. call[t] \in Entry /\ pc[t] = "writeForward" /\ candidate[t] \in Pseudonym
      BY <2>6 DEF WriteForward, TypeOK
    <3>2. \A a \in answers : a \in Answer /\ a.entry # call[t]
      BY <3>1 DEF CallSound, AnswersSound, TypeOK, Answer
    <3>. QED
      BY <2>6, <3>1, <3>2
         DEF WriteForward, TypeOK, OneCallAtATime, CallSound, ForwardSound, AnswersSound, Answer
  <2>7. ASSUME NEW t \in Thread, WriteReverse(t) PROVE SerialInv'
    <3> DEFINE new == [entry |-> call[t], pseudonym |-> candidate[t]]
    <3>1. /\ call[t] \in Entry /\ call[t].partition \in Partition /\ call[t].value \in Value
          /\ pc[t] = "writeReverse" /\ candidate[t] \in Pseudonym
      BY <2>7 DEF WriteReverse, TypeOK, Entry
    <3>2. /\ forward' = forward /\ forward[call[t]] = candidate[t]
          /\ answers' = answers \cup {new}
          /\ reverse[call[t].partition][candidate[t]] = Absent
      BY <2>7, <3>1 DEF WriteReverse, Return, CallSound
    <3>3. \A p \in Partition, ps \in Pseudonym :
             reverse'[p][ps] = IF p = call[t].partition /\ ps = candidate[t]
                               THEN call[t].value ELSE reverse[p][ps]
      BY <2>7, <3>1 DEF WriteReverse, TypeOK
    <3>4. \A u \in Thread : pc'[u] = "idle"
      BY <2>7, <3>1 DEF WriteReverse, Return, OneCallAtATime, TypeOK
    <3>5. OneCallAtATime' /\ CallSound'
      BY <3>4 DEF OneCallAtATime, CallSound
    <3>6. ASSUME NEW a \in answers PROVE /\ a \in Answer
                                         /\ a.entry \in Entry /\ a.entry.partition \in Partition
                                         /\ a.entry.value \in Value /\ a.pseudonym \in Pseudonym
      BY DEF TypeOK, Answer, Entry
    <3>7. AnswersSound'
      BY <3>1, <3>2, <3>3, <3>6 DEF AnswersSound
    <3>8. ForwardSound'
      <4> SUFFICES ASSUME NEW e \in Entry, forward[e] # Absent
                   PROVE  /\ [entry |-> e, pseudonym |-> forward[e]] \in answers'
                          /\ reverse'[e.partition][forward[e]] = e.value
        BY <3>2 DEF ForwardSound
      <4>1. CASE e = call[t]
        BY <4>1, <3>1, <3>2, <3>3
      <4>2. CASE e # call[t]
        <5>1. \A u \in Thread : ~(pc[u] = "writeReverse" /\ call[u] = e)
          BY <3>1, <4>2 DEF OneCallAtATime
        <5>2. /\ [entry |-> e, pseudonym |-> forward[e]] \in answers
              /\ reverse[e.partition][forward[e]] = e.value
          BY <5>1 DEF ForwardSound
        <5>3. e.partition \in Partition /\ e.value \in Value /\ forward[e] \in Pseudonym
          BY DEF Entry, TypeOK
        <5>. QED
          BY <5>2, <5>3, <3>2, <3>3
      <4>. QED
        BY <4>1, <4>2
    <3>. QED
      BY <3>5, <3>7, <3>8
  <2>8. CASE UNCHANGED vars
    BY <2>8 DEF vars, OneCallAtATime, CallSound, ForwardSound, AnswersSound
  <2>. QED
    BY <2>1, <2>2, <2>3, <2>4, <2>5, <2>6, <2>7, <2>8, DeploymentStays DEF Next, Step, Generate
<1>. QED
  BY <1>1, <1>2, TypeCorrect, PTL DEF Spec

(* With one call at a time, and whatever the token factory returns, the    *)
(* same four arguments get the same pseudonym for ever.                    *)
THEOREM SerialStable == Spec => [](Serial => Stable)
<1>1. SerialInv => Stable
  BY DEF SerialInv, AnswersSound, Stable
<1>. QED
  BY <1>1, SerialInduction, PTL

(* With one call at a time every issued pseudonym is reconstructed to the  *)
(* value it was issued for.                                                *)
THEOREM SerialRoundTrip == Spec => [](Serial => RoundTrip)
<1>1. SerialInv => RoundTrip
  BY DEF SerialInv, AnswersSound, RoundTrip, Reconstruct
<1>. QED
  BY <1>1, SerialInduction, PTL

(* With one call at a time the vault implements VaultContract: the step    *)
(* that stores the reverse mapping and returns is the contract's Issue,    *)
(* and every other step changes nothing a caller can observe.              *)
THEOREM SerialImplementsContract == Spec => ImplementsContract
<1>1. Init => Contract!Init
  BY DEF Init, Contract!Init, Observed
<1>2. ASSUME TypeOK, [Next]_vars, ~Serial PROVE UNCHANGED Contract!contractVars
  BY <1>2, DeploymentStays DEF Contract!contractVars, Observed, Serial
<1>3. ASSUME TypeOK, Serial, SerialInv, [Next]_vars
      PROVE  Contract!Next \/ UNCHANGED Contract!contractVars
  <2>0. Serial'
    BY <1>3, DeploymentStays DEF Serial
  <2> USE <1>3, <2>0 DEF Contract!contractVars, Observed
  <2>1. ASSUME NEW t \in Thread, NEW e \in Entry, Begin(t, e)
        PROVE  UNCHANGED Contract!contractVars
    BY <2>1 DEF Begin
  <2>2. ASSUME NEW t \in Thread, LookupHit(t) PROVE UNCHANGED Contract!contractVars
    <3>1. call[t] \in Entry /\ pc[t] = "lookup"
      BY <2>2 DEF LookupHit, TypeOK
    <3>2. [entry |-> call[t], pseudonym |-> forward[call[t]]] \in answers
      BY <2>2, <3>1 DEF SerialInv, OneCallAtATime, ForwardSound, LookupHit, ForwardKey
    <3>. QED
      BY <2>2, <3>2 DEF LookupHit, Return, ForwardKey
  <2>3. ASSUME NEW t \in Thread, LookupMiss(t) PROVE UNCHANGED Contract!contractVars
    BY <2>3 DEF LookupMiss
  <2>4. ASSUME NEW t \in Thread, NEW tok \in Token, CandidateTaken(t, tok)
        PROVE  UNCHANGED Contract!contractVars
    BY <2>4 DEF CandidateTaken
  <2>5. ASSUME NEW t \in Thread, NEW tok \in Token, CandidateFree(t, tok)
        PROVE  UNCHANGED Contract!contractVars
    BY <2>5 DEF CandidateFree
  <2>6. ASSUME NEW t \in Thread, WriteForward(t) PROVE UNCHANGED Contract!contractVars
    BY <2>6 DEF WriteForward
  <2>7. ASSUME NEW t \in Thread, WriteReverse(t) PROVE Contract!Next
    <3>1. /\ call[t] \in Entry /\ candidate[t] \in Pseudonym
          /\ forward[call[t]] = candidate[t]
          /\ reverse[call[t].partition][candidate[t]] = Absent
      BY <2>7 DEF WriteReverse, TypeOK, SerialInv, CallSound
    <3>2. \A a \in answers : a.entry # call[t]
      <4> SUFFICES ASSUME NEW a \in answers, a.entry = call[t] PROVE FALSE
        OBVIOUS
      <4>1. /\ a.pseudonym = candidate[t]
            /\ reverse[call[t].partition][candidate[t]] = call[t].value
        BY <3>1 DEF SerialInv, AnswersSound
      <4>. QED
        BY <4>1, <3>1, VaultAssumption DEF Entry
    <3>3. Contract!Issue(call[t], candidate[t])
      BY <2>7, <3>1, <3>2 DEF WriteReverse, Return, Contract!Issue
    <3>. QED
      BY <3>1, <3>3 DEF Contract!Next
  <2>8. CASE UNCHANGED vars
    BY <2>8 DEF vars
  <2>. QED
    BY <2>1, <2>2, <2>3, <2>4, <2>5, <2>6, <2>7, <2>8, DeploymentStays DEF Next, Step, Generate
<1>4. TypeOK /\ (Serial => SerialInv) /\ [Next]_vars => [Contract!Next]_(Contract!contractVars)
  BY <1>2, <1>3
<1>. QED
  BY <1>1, <1>4, SerialInduction, PTL DEF Spec, ImplementsContract, Contract!Spec

-----------------------------------------------------------------------------
(* Any number of interleaving calls, with production tokens.               *)

Holding(t) == pc[t] \in {"writeForward", "writeReverse"}

(* Every token in use was drawn, and no two threads hold one token.        *)
TokensSound ==
    /\ \A p \in Partition, ps \in Pseudonym : reverse[p][ps] # Absent => ps.token \in drawn
    /\ \A t \in Thread : Holding(t) => candidate[t].token \in drawn
    /\ \A t, u \in Thread :
          Holding(t) /\ Holding(u) /\ candidate[t] = candidate[u] => t = u

(* A candidate not yet stored is known to no partition, and a stored       *)
(* pseudonym to one partition only.                                        *)
ReverseSound ==
    /\ \A t \in Thread, p \in Partition : Holding(t) => reverse[p][candidate[t]] = Absent
    /\ \A p, q \in Partition, ps \in Pseudonym :
          reverse[p][ps] # Absent /\ reverse[q][ps] # Absent => p = q

(* ps stands for entry e, or is about to.                                  *)
StandsFor(ps, e) ==
    \/ reverse[e.partition][ps] = e.value
    \/ \E t \in Thread : pc[t] = "writeReverse" /\ call[t] = e /\ candidate[t] = ps

ConcurrentInv ==
    /\ TokensSound
    /\ ReverseSound
    /\ \A e \in Entry : forward[e] # Absent => StandsFor(forward[e], e)
    /\ \A a \in answers : StandsFor(a.pseudonym, a.entry)

(* Storing a candidate in the reverse map keeps what every other pseudonym *)
(* stands for, because no partition knew the candidate.                    *)
LEMMA WriteReverseKeeps ==
  ASSUME TypeOK, ConcurrentInv, NEW t \in Thread, WriteReverse(t),
         NEW e \in Entry, NEW ps \in Pseudonym, StandsFor(ps, e)
  PROVE  StandsFor(ps, e)'
<1>1. /\ call[t] \in Entry /\ call[t].partition \in Partition /\ candidate[t] \in Pseudonym
      /\ pc[t] = "writeReverse" /\ e.partition \in Partition /\ e.value \in Value
  BY DEF WriteReverse, TypeOK, Entry
<1>2. \A p \in Partition, x \in Pseudonym :
         reverse'[p][x] = IF p = call[t].partition /\ x = candidate[t]
                          THEN call[t].value ELSE reverse[p][x]
  BY <1>1 DEF WriteReverse, TypeOK
<1>3. CASE reverse[e.partition][ps] = e.value
  <2>1. ps # candidate[t]
    BY <1>1, <1>3, VaultAssumption DEF ConcurrentInv, ReverseSound, Holding
  <2>. QED
    BY <1>1, <1>2, <1>3, <2>1 DEF StandsFor
<1>4. ASSUME NEW u \in Thread, pc[u] = "writeReverse", call[u] = e, candidate[u] = ps
      PROVE  StandsFor(ps, e)'
  <2>1. CASE u = t
    BY <1>1, <1>2, <1>4, <2>1 DEF StandsFor
  <2>2. CASE u # t
    <3>1. pc'[u] = "writeReverse" /\ call'[u] = e /\ candidate'[u] = ps
      BY <1>4, <2>2 DEF WriteReverse, Return, TypeOK
    <3>. QED
      BY <3>1 DEF StandsFor
  <2>. QED
    BY <2>1, <2>2
<1>. QED
  BY <1>3, <1>4 DEF StandsFor

(* The inductive invariant of the shared vault.                            *)
LEMMA ConcurrentInduction == Spec => [](TypeOK /\ (CsprngTokens => ConcurrentInv))
<1>1. Init => ConcurrentInv
  BY DEF Init, ConcurrentInv, TokensSound, ReverseSound, Holding
<1>2. TypeOK /\ TypeOK' /\ (CsprngTokens => ConcurrentInv) /\ [Next]_vars
        => (CsprngTokens => ConcurrentInv)'
  <2> SUFFICES ASSUME TypeOK, TypeOK', CsprngTokens, ConcurrentInv, [Next]_vars
               PROVE  ConcurrentInv'
    BY DeploymentStays DEF CsprngTokens
  <2> USE VaultAssumption DEF ForwardKey
  <2> DEFINE Stands == /\ \A e \in Entry : forward[e] # Absent => StandsFor(forward[e], e)
                       /\ \A a \in answers : StandsFor(a.pseudonym, a.entry)
  <2>1. ASSUME NEW t \in Thread, NEW e \in Entry, Begin(t, e) PROVE ConcurrentInv'
    BY <2>1 DEF Begin, TypeOK, ConcurrentInv, TokensSound, ReverseSound, Holding, StandsFor
  <2>2. ASSUME NEW t \in Thread, LookupHit(t) PROVE ConcurrentInv'
    <3>1. call[t] \in Entry /\ StandsFor(forward[call[t]], call[t])
      BY <2>2 DEF LookupHit, TypeOK, ConcurrentInv
    <3>2. \A u \in Thread : pc[u] = "writeReverse" =>
             pc'[u] = pc[u] /\ call'[u] = call[u] /\ candidate'[u] = candidate[u]
      BY <2>2 DEF LookupHit, Return, TypeOK
    <3>3. UNCHANGED <<forward, reverse, drawn>>
          /\ answers' = answers \cup {[entry |-> call[t], pseudonym |-> forward[call[t]]]}
      BY <2>2 DEF LookupHit, Return
    <3>4. Stands'
      BY <3>1, <3>2, <3>3 DEF ConcurrentInv, StandsFor
    <3>5. TokensSound' /\ ReverseSound'
      BY <2>2 DEF LookupHit, Return, TypeOK, ConcurrentInv, TokensSound, ReverseSound, Holding
    <3>. QED
      BY <3>4, <3>5 DEF ConcurrentInv
  <2>3. ASSUME NEW t \in Thread, LookupMiss(t) PROVE ConcurrentInv'
    BY <2>3 DEF LookupMiss, TypeOK, ConcurrentInv, TokensSound, ReverseSound, Holding, StandsFor
  <2>4. ASSUME NEW t \in Thread, NEW tok \in Token, CandidateTaken(t, tok) PROVE ConcurrentInv'
    BY <2>4 DEF CandidateTaken, DrawToken, TypeOK, ConcurrentInv, TokensSound, ReverseSound,
                Holding, StandsFor
  <2>5. ASSUME NEW t \in Thread, NEW tok \in Token, CandidateFree(t, tok) PROVE ConcurrentInv'
    <3> DEFINE ps == MakePseudonym(call[t].category, tok, suffix[t])
    <3>1. /\ pc[t] = "generate" /\ call[t] \in Entry /\ suffix[t] \in 0 .. MaxSuffix
          /\ tok \notin drawn
      BY <2>5 DEF CandidateFree, DrawToken, TypeOK
    <3>2. ps \in Pseudonym /\ ps.token = tok
      BY <3>1 DEF MakePseudonym, Pseudonym, Entry
    <3>3. /\ drawn' = drawn \cup {tok}
          /\ candidate' = [candidate EXCEPT ![t] = ps]
          /\ pc' = [pc EXCEPT ![t] = "writeForward"]
          /\ UNCHANGED <<forward, reverse, call, answers>>
      BY <2>5 DEF CandidateFree, DrawToken
    <3>4. \A p \in Partition : reverse[p][ps] = Absent
      BY <3>1, <3>2 DEF ConcurrentInv, TokensSound
    <3>5. \A u \in Thread : Holding(u) => candidate[u] # ps
      BY <3>1, <3>2 DEF ConcurrentInv, TokensSound
    <3>6. TokensSound'
      <4> HIDE DEF ps
      <4>1. \A u \in Thread : u # t => candidate'[u] = candidate[u] /\ (Holding(u)' <=> Holding(u))
        BY <3>3 DEF TypeOK, Holding
      <4>2. candidate'[t] = ps
        BY <3>3 DEF TypeOK
      <4>3. \A p \in Partition, x \in Pseudonym : reverse'[p][x] # Absent => x.token \in drawn'
        BY <3>3 DEF ConcurrentInv, TokensSound
      <4>4. \A u \in Thread : Holding(u)' => candidate'[u].token \in drawn'
        BY <3>2, <3>3, <4>1, <4>2 DEF ConcurrentInv, TokensSound
      <4>5. ASSUME NEW u \in Thread, NEW v \in Thread,
                   Holding(u)', Holding(v)', candidate'[u] = candidate'[v]
            PROVE  u = v
        BY <3>5, <4>1, <4>2, <4>5 DEF ConcurrentInv, TokensSound
      <4>. QED
        BY <4>3, <4>4, <4>5 DEF TokensSound
    <3>7. ReverseSound'
      <4> HIDE DEF ps
      <4>. QED
        BY <3>3, <3>4 DEF TypeOK, ConcurrentInv, ReverseSound, Holding
    <3>8. Stands'
      <4> HIDE DEF ps
      <4>1. \A u \in Thread : pc[u] = "writeReverse" => pc'[u] = pc[u] /\ candidate'[u] = candidate[u]
        BY <3>1, <3>3 DEF TypeOK
      <4>. QED
        BY <3>3, <4>1 DEF ConcurrentInv, StandsFor
    <3>. QED
      BY <3>6, <3>7, <3>8 DEF ConcurrentInv
  <2>6. ASSUME NEW t \in Thread, WriteForward(t) PROVE ConcurrentInv'
    <3>1. /\ call[t] \in Entry /\ pc[t] = "writeForward"
          /\ forward' = [forward EXCEPT ![call[t]] = candidate[t]]
          /\ pc' = [pc EXCEPT ![t] = "writeReverse"]
          /\ UNCHANGED <<reverse, call, candidate, drawn, answers>>
      BY <2>6 DEF WriteForward, TypeOK
    <3>2. \A u \in Thread : Holding(u)' <=> Holding(u)
      BY <3>1 DEF TypeOK, Holding
    <3>3. TokensSound' /\ ReverseSound'
      BY <3>1, <3>2 DEF ConcurrentInv, TokensSound, ReverseSound
    <3>4. \A e \in Entry, ps \in Pseudonym : StandsFor(ps, e) => StandsFor(ps, e)'
      BY <3>1 DEF TypeOK, StandsFor
    <3>5. StandsFor(candidate[t], call[t])'
      BY <3>1 DEF TypeOK, StandsFor
    <3>6. Stands'
      BY <3>1, <3>4, <3>5 DEF ConcurrentInv, TypeOK, Answer
    <3>. QED
      BY <3>3, <3>6 DEF ConcurrentInv
  <2>7. ASSUME NEW t \in Thread, WriteReverse(t) PROVE ConcurrentInv'
    <3>1. /\ call[t] \in Entry /\ call[t].partition \in Partition /\ call[t].value \in Value
          /\ candidate[t] \in Pseudonym /\ pc[t] = "writeReverse"
          /\ UNCHANGED <<forward, drawn>>
          /\ answers' = answers \cup {[entry |-> call[t], pseudonym |-> candidate[t]]}
      BY <2>7 DEF WriteReverse, Return, TypeOK, Entry
    <3>2. \A p \in Partition, x \in Pseudonym :
             reverse'[p][x] = IF p = call[t].partition /\ x = candidate[t]
                              THEN call[t].value ELSE reverse[p][x]
      BY <2>7, <3>1 DEF WriteReverse, TypeOK
    <3>3. \A u \in Thread : Holding(u)' => u # t /\ Holding(u) /\ candidate'[u] = candidate[u]
      BY <2>7 DEF WriteReverse, Return, TypeOK, Holding
    <3>4. \A u \in Thread : u # t /\ Holding(u) => candidate[u] # candidate[t]
      BY <3>1 DEF ConcurrentInv, TokensSound, Holding
    <3>5. TokensSound'
      BY <3>1, <3>2, <3>3 DEF ConcurrentInv, TokensSound, Holding
    <3>6. ReverseSound'
      <4>1. ASSUME NEW u \in Thread, NEW p \in Partition, Holding(u)'
            PROVE  reverse'[p][candidate'[u]] = Absent
        <5>1. candidate[u] \in Pseudonym
          BY <3>3, <4>1 DEF Holding, TypeOK
        <5>. QED
          BY <3>2, <3>3, <3>4, <4>1, <5>1 DEF ConcurrentInv, ReverseSound
      <4>2. \A p \in Partition : reverse[p][candidate[t]] = Absent
        BY <3>1 DEF ConcurrentInv, ReverseSound, Holding
      <4>3. ASSUME NEW p \in Partition, NEW q \in Partition, NEW x \in Pseudonym,
                   reverse'[p][x] # Absent, reverse'[q][x] # Absent
            PROVE  p = q
        BY <3>2, <4>2, <4>3 DEF ConcurrentInv, ReverseSound
      <4>. QED
        BY <4>1, <4>3 DEF ReverseSound
    <3>7. \A e \in Entry, ps \in Pseudonym : StandsFor(ps, e) => StandsFor(ps, e)'
      BY <2>7, WriteReverseKeeps
    <3>8. \A e \in Entry, ps \in Pseudonym :
             e = call[t] /\ ps = candidate[t] => StandsFor(ps, e)'
      BY <3>1, <3>2 DEF StandsFor
    <3>9. Stands'
      <4>1. ASSUME NEW e \in Entry, forward[e] # Absent PROVE StandsFor(forward[e], e)'
        <5>1. forward[e] \in Pseudonym /\ forward'[e] = forward[e] /\ StandsFor(forward[e], e)
          BY <3>1, <4>1 DEF ConcurrentInv, TypeOK
        <5>. QED
          BY <3>1, <3>7, <5>1 DEF StandsFor
      <4>2. ASSUME NEW a \in answers PROVE StandsFor(a.pseudonym, a.entry)'
        BY <3>7 DEF ConcurrentInv, TypeOK, Answer
      <4>3. ASSUME NEW a \in answers' PROVE StandsFor(a.pseudonym, a.entry)'
        <5>1. CASE a \in answers
          BY <4>2, <5>1
        <5>2. CASE a = [entry |-> call[t], pseudonym |-> candidate[t]]
          <6>1. a.entry = call[t] /\ a.pseudonym = candidate[t]
            BY <5>2
          <6>. QED
            BY <3>1, <3>8, <6>1
        <5>. QED
          BY <3>1, <5>1, <5>2
      <4>4. (\A e \in Entry : forward[e] # Absent => StandsFor(forward[e], e))'
        BY <3>1, <4>1 DEF StandsFor
      <4>. QED
        BY <4>3, <4>4
    <3>. QED
      BY <3>5, <3>6, <3>9 DEF ConcurrentInv
  <2>8. CASE UNCHANGED vars
    BY <2>8 DEF vars, ConcurrentInv, TokensSound, ReverseSound, Holding, StandsFor
  <2>. QED
    BY <2>1, <2>2, <2>3, <2>4, <2>5, <2>6, <2>7, <2>8, DeploymentStays DEF Next, Step, Generate
<1>. QED
  BY <1>1, <1>2, TypeCorrect, PTL DEF Spec

-----------------------------------------------------------------------------
(* Both ways of use.                                                       *)

(* Two values of a partition never share a pseudonym: with one call at a   *)
(* time whatever the token factory returns, and however calls interleave   *)
(* if the factory never repeats a token.                                   *)
THEOREM VaultInjective == Spec => []Injective
<1>1. SerialInv => Injective
  BY DEF SerialInv, AnswersSound, Injective
<1>2. TypeOK /\ ConcurrentInv => Injective
  <2> SUFFICES ASSUME TypeOK, ConcurrentInv, NEW a \in answers, NEW b \in answers,
                      a.entry.partition = b.entry.partition, a.pseudonym = b.pseudonym
               PROVE  a.entry.value = b.entry.value
    BY DEF Injective
  <2>1. StandsFor(a.pseudonym, a.entry) /\ StandsFor(b.pseudonym, b.entry)
    BY DEF ConcurrentInv
  <2>2. /\ a.entry \in Entry /\ a.entry.partition \in Partition
        /\ a.entry.value \in Value /\ b.entry.value \in Value
    BY DEF TypeOK, Answer, Entry
  <2>3. ASSUME NEW t \in Thread, pc[t] = "writeReverse", candidate[t] = a.pseudonym
        PROVE  reverse[a.entry.partition][a.pseudonym] = Absent
    BY <2>2, <2>3 DEF ConcurrentInv, ReverseSound, Holding
  <2>4. ASSUME NEW t \in Thread, pc[t] = "writeReverse", candidate[t] = a.pseudonym,
               NEW u \in Thread, pc[u] = "writeReverse", candidate[u] = a.pseudonym
        PROVE  t = u
    BY <2>4 DEF ConcurrentInv, TokensSound, Holding
  <2>. QED
    BY <2>1, <2>2, <2>3, <2>4, VaultAssumption DEF StandsFor
<1>3. ~Separated => Injective
  BY DEF Injective
<1>4. TypeOK /\ (Serial => SerialInv) /\ (CsprngTokens => ConcurrentInv) => Injective
  BY <1>1, <1>2, <1>3 DEF Separated
<1>. QED
  BY <1>4, SerialInduction, ConcurrentInduction, PTL

(* In both, an issued pseudonym resolves to its value or is one step of    *)
(* another thread away from it.                                            *)
THEOREM VaultResolves == Spec => []ResolvesOrPending
<1>1. SerialInv => ResolvesOrPending
  BY DEF SerialInv, AnswersSound, ResolvesOrPending, Reconstruct
<1>2. TypeOK /\ ConcurrentInv => ResolvesOrPending
  <2> SUFFICES ASSUME TypeOK, ConcurrentInv, NEW a \in answers,
                      Reconstruct(a.entry.partition, a.pseudonym) # a.entry.value
               PROVE  /\ Reconstruct(a.entry.partition, a.pseudonym) = Absent
                      /\ \E t \in Thread : /\ pc[t] = "writeReverse" /\ call[t] = a.entry
                                           /\ candidate[t] = a.pseudonym
    BY DEF ResolvesOrPending
  <2>1. PICK t \in Thread :
           pc[t] = "writeReverse" /\ call[t] = a.entry /\ candidate[t] = a.pseudonym
    BY DEF ConcurrentInv, StandsFor, Reconstruct
  <2>2. a.entry.partition \in Partition
    BY DEF TypeOK, Answer, Entry
  <2>. QED
    BY <2>1, <2>2 DEF ConcurrentInv, ReverseSound, Holding, Reconstruct
<1>3. ~Separated => ResolvesOrPending
  BY DEF ResolvesOrPending
<1>4. TypeOK /\ (Serial => SerialInv) /\ (CsprngTokens => ConcurrentInv) => ResolvesOrPending
  BY <1>1, <1>2, <1>3 DEF Separated
<1>. QED
  BY <1>4, SerialInduction, ConcurrentInduction, PTL

(* With production tokens, however calls interleave, a pseudonym resolves  *)
(* in no partition but the one it was issued in.                           *)
THEOREM SharedPartitionIsolation == Spec => []PartitionIsolation
<1>1. TypeOK /\ (CsprngTokens => ConcurrentInv) => PartitionIsolation
  <2> SUFFICES ASSUME TypeOK, ConcurrentInv, NEW a \in answers,
                      NEW p \in Partition \ {a.entry.partition}
               PROVE  reverse[p][a.pseudonym] = Absent
    BY DEF PartitionIsolation, Reconstruct
  <2>1. /\ a.entry \in Entry /\ a.entry.partition \in Partition /\ a.entry.value \in Value
        /\ a.pseudonym \in Pseudonym
    BY DEF TypeOK, Answer, Entry
  <2>2. StandsFor(a.pseudonym, a.entry)
    BY DEF ConcurrentInv
  <2>. QED
    BY <2>1, <2>2, VaultAssumption DEF StandsFor, ConcurrentInv, ReverseSound, Holding
<1>. QED
  BY <1>1, ConcurrentInduction, PTL

(* In both, a pseudonym never changes what it stands for: what a call      *)
(* stores in the reverse map was free.                                     *)
THEOREM VaultReverseWriteOnce == Spec => ReverseWriteOnce
<1> DEFINE Once == Separated => \A p \in Partition, ps \in Pseudonym :
                     Reconstruct(p, ps) # Absent => Reconstruct(p, ps)' = Reconstruct(p, ps)
<1>1. TypeOK /\ (Serial => SerialInv) /\ (CsprngTokens => ConcurrentInv) /\ [Next]_vars
        => [Once]_vars
  <2> SUFFICES ASSUME TypeOK, Serial => SerialInv, CsprngTokens => ConcurrentInv,
                      Separated, Next
               PROVE  Once
    OBVIOUS
  <2>1. CASE reverse' = reverse
    BY <2>1 DEF Reconstruct
  <2>2. ASSUME NEW t \in Thread, WriteReverse(t) PROVE Once
    <3>1. /\ call[t].partition \in Partition /\ candidate[t] \in Pseudonym
          /\ pc[t] = "writeReverse"
      BY <2>2 DEF WriteReverse, TypeOK, Entry
    <3>2. reverse[call[t].partition][candidate[t]] = Absent
      <4>1. CASE Serial
        BY <3>1, <4>1 DEF SerialInv, CallSound
      <4>2. CASE CsprngTokens
        BY <3>1, <4>2 DEF ConcurrentInv, ReverseSound, Holding
      <4>. QED
        BY <4>1, <4>2 DEF Separated
    <3>. QED
      BY <2>2, <3>1, <3>2 DEF WriteReverse, TypeOK, Reconstruct
  <2>3. (\E t \in Thread : WriteReverse(t)) \/ reverse' = reverse
    BY DEF Next, Step, Generate, Begin, LookupHit, LookupMiss, CandidateTaken, CandidateFree,
           WriteForward
  <2>. QED
    BY <2>1, <2>2, <2>3
<1>. QED
  BY <1>1, SerialInduction, ConcurrentInduction, PTL DEF Spec, ReverseWriteOnce
=============================================================================
