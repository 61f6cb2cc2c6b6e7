--------------------------- MODULE InMemoryVault ---------------------------
(***************************************************************************)
(* InMemoryVault (vault/in_memory.py): the process-local pseudonym store   *)
(* that every request of one process shares.  pseudonymize takes no lock,  *)
(* and the API runs its handlers in a thread pool, so its dictionary reads *)
(* and writes are separate steps that calls of other threads interleave    *)
(* with.  One dictionary operation is atomic, as it is under the GIL.      *)
(*                                                                         *)
(* A pseudonym is the record of the three parts its string is formatted    *)
(* from; the format is injective because a token is 32 hexadecimal digits. *)
(***************************************************************************)
EXTENDS Naturals

CONSTANTS
    Thread,        \* threads that call the vault
    Partition,     \* (scope, scope_key) pairs
    Category,
    Value,         \* original sensitive values
    Token,         \* what a token factory can return
    MaxSuffix,     \* bound on the disambiguating counter
    Deployment,    \* how processes may construct and use a vault
    Absent         \* None

Entry == [partition : Partition, category : Category, value : Value]

Pseudonym == [category : Category, token : Token, suffix : 0 .. MaxSuffix]

ASSUME VaultAssumption ==
    /\ MaxSuffix \in Nat
    /\ Deployment \subseteq [serial : BOOLEAN, csprng : BOOLEAN, tokens : SUBSET Token]
    /\ Absent \notin Value
    /\ Absent \notin Pseudonym
    /\ Absent \notin Entry

VARIABLES
    deployment, \* how this process uses its vault, and its token factory
    forward,    \* the dict (partition, category, value) -> pseudonym
    reverse,    \* the dict partition -> pseudonym -> value
    pc,         \* where each thread is in pseudonymize
    call,       \* the arguments of each thread's call
    suffix,     \* each thread's local counter
    candidate,  \* each thread's local candidate
    drawn,      \* tokens the factory has returned (history)
    answers     \* what pseudonymize has returned (history)

vars == <<deployment, forward, reverse, pc, call, suffix, candidate, drawn, answers>>

Answer == [entry : Entry, pseudonym : Pseudonym]

(* One call at a time (the command line and the experiment runner), or a   *)
(* thread pool (the API).                                                  *)
Serial == deployment.serial

(* The production factory, which never repeats a token, or an injected one *)
(* that may (the forced-collision case of tests/test_vault.py).            *)
CsprngTokens == deployment.csprng

Init ==
    /\ deployment \in Deployment
    /\ forward = [e \in Entry |-> Absent]
    /\ reverse = [p \in Partition |-> [ps \in Pseudonym |-> Absent]]
    /\ pc = [t \in Thread |-> "idle"]
    /\ call = [t \in Thread |-> Absent]
    /\ suffix = [t \in Thread |-> 0]
    /\ candidate = [t \in Thread |-> Absent]
    /\ drawn = {}
    /\ answers = {}

(* A variant named ...Mutant<n> is the definition after it with one         *)
(* plausible slip; no specification uses it.                               *)
ForwardKeyMutant1(e) == [e EXCEPT !.value = CHOOSE v \in Value : TRUE]

ForwardKeyMutant2(e) == [e EXCEPT !.partition = CHOOSE p \in Partition : TRUE]

(* The forward-map key under which an entry is looked up and stored.       *)
ForwardKey(e) == e

(* The string emitted for a category, a freshly drawn token and a counter. *)
MakePseudonym(c, tok, n) == [category |-> c, token |-> tok, suffix |-> n]

(* What reconstruct(scope, scope_key, pseudonym) returns.                  *)
Reconstruct(p, ps) == reverse[p][ps]

-----------------------------------------------------------------------------
(* pseudonymize(scope, scope_key, category, value) is called.              *)
Begin(t, e) ==
    /\ pc[t] = "idle"
    /\ Serial => \A u \in Thread : pc[u] = "idle"
    /\ pc' = [pc EXCEPT ![t] = "lookup"]
    /\ call' = [call EXCEPT ![t] = e]
    /\ UNCHANGED <<deployment, forward, reverse, suffix, candidate, drawn, answers>>

(* Return ps to the caller; the thread's locals die with the frame.        *)
Return(t, ps) ==
    /\ answers' = answers \cup {[entry |-> call[t], pseudonym |-> ps]}
    /\ pc' = [pc EXCEPT ![t] = "idle"]
    /\ call' = [call EXCEPT ![t] = Absent]
    /\ suffix' = [suffix EXCEPT ![t] = 0]
    /\ candidate' = [candidate EXCEPT ![t] = Absent]

\* The None check is dropped.
LookupHitMutant1(t) ==
    /\ pc[t] = "lookup"
    /\ Return(t, forward[ForwardKey(call[t])])
    /\ UNCHANGED <<deployment, forward, reverse, drawn>>

(* existing = forward.get(entry_key): a hit is returned at once.           *)
LookupHit(t) ==
    /\ pc[t] = "lookup"
    /\ forward[ForwardKey(call[t])] # Absent
    /\ Return(t, forward[ForwardKey(call[t])])
    /\ UNCHANGED <<deployment, forward, reverse, drawn>>

LookupMiss(t) ==
    /\ pc[t] = "lookup"
    /\ forward[ForwardKey(call[t])] = Absent
    /\ pc' = [pc EXCEPT ![t] = "generate"]
    /\ UNCHANGED <<deployment, forward, reverse, call, suffix, candidate, drawn, answers>>

\* Tokens are not random.
DrawTokenMutant1(tok) == drawn' = drawn \cup {tok}

(* Draw a token: the production factory never returns one twice.           *)
DrawToken(tok) ==
    /\ CsprngTokens => tok \notin drawn
    /\ drawn' = drawn \cup {tok}

\* The counter is not incremented.
CandidateTakenMutant1(t, tok) ==
    /\ pc[t] = "generate"
    /\ DrawToken(tok)
    /\ reverse[call[t].partition][MakePseudonym(call[t].category, tok, suffix[t])] # Absent
    /\ UNCHANGED <<deployment, forward, reverse, pc, call, suffix, candidate, answers>>

(* `while candidate in reverse`: taken, so count up and draw again.        *)
CandidateTaken(t, tok) ==
    /\ pc[t] = "generate"
    /\ suffix[t] < MaxSuffix
    /\ DrawToken(tok)
    /\ reverse[call[t].partition][MakePseudonym(call[t].category, tok, suffix[t])] # Absent
    /\ suffix' = [suffix EXCEPT ![t] = @ + 1]
    /\ UNCHANGED <<deployment, forward, reverse, pc, call, candidate, answers>>

\* The first candidate is taken unchecked.
CandidateFreeMutant1(t, tok) ==
    /\ pc[t] = "generate"
    /\ DrawToken(tok)
    /\ candidate' = [candidate EXCEPT ![t] = MakePseudonym(call[t].category, tok, suffix[t])]
    /\ pc' = [pc EXCEPT ![t] = "writeForward"]
    /\ UNCHANGED <<deployment, forward, reverse, call, suffix, answers>>

(* The candidate is not in reverse: the loop is left with it.              *)
CandidateFree(t, tok) ==
    LET ps == MakePseudonym(call[t].category, tok, suffix[t])
    IN  /\ pc[t] = "generate"
        /\ DrawToken(tok)
        /\ reverse[call[t].partition][ps] = Absent
        /\ candidate' = [candidate EXCEPT ![t] = ps]
        /\ pc' = [pc EXCEPT ![t] = "writeForward"]
        /\ UNCHANGED <<deployment, forward, reverse, call, suffix, answers>>

(* forward[entry_key] = candidate                                          *)
WriteForward(t) ==
    /\ pc[t] = "writeForward"
    /\ forward' = [forward EXCEPT ![ForwardKey(call[t])] = candidate[t]]
    /\ pc' = [pc EXCEPT ![t] = "writeReverse"]
    /\ UNCHANGED <<deployment, reverse, call, suffix, candidate, drawn, answers>>

\* The reverse write is forgotten.
WriteReverseMutant1(t) ==
    /\ pc[t] = "writeReverse"
    /\ Return(t, candidate[t])
    /\ UNCHANGED <<deployment, forward, reverse, drawn>>

(* reverse[candidate] = value; return candidate                            *)
WriteReverse(t) ==
    /\ pc[t] = "writeReverse"
    /\ reverse' = [reverse EXCEPT ![call[t].partition][candidate[t]] = call[t].value]
    /\ Return(t, candidate[t])
    /\ UNCHANGED <<deployment, forward, drawn>>

Generate(t) ==
    \E tok \in deployment.tokens : CandidateTaken(t, tok) \/ CandidateFree(t, tok)

Step(t) ==
    \/ LookupHit(t)
    \/ LookupMiss(t)
    \/ Generate(t)
    \/ WriteForward(t)
    \/ WriteReverse(t)

Next == \E t \in Thread : Step(t) \/ \E e \in Entry : Begin(t, e)

Spec == Init /\ [][Next]_vars

(* A started call runs on: the interpreter schedules every runnable        *)
(* thread.  Nothing makes anyone start another call.                       *)
FairSpec == Spec /\ \A t \in Thread : WF_vars(Step(t))

-----------------------------------------------------------------------------
Steps == {"idle", "lookup", "generate", "writeForward", "writeReverse"}

(* The types of the two dictionaries, of each thread's frame and of the    *)
(* two histories.                                                          *)
TypeOK ==
    /\ deployment \in Deployment
    /\ forward \in [Entry -> Pseudonym \cup {Absent}]
    /\ reverse \in [Partition -> [Pseudonym -> Value \cup {Absent}]]
    /\ pc \in [Thread -> Steps]
    /\ call \in [Thread -> Entry \cup {Absent}]
    /\ \A t \in Thread : (call[t] = Absent) <=> (pc[t] = "idle")
    /\ suffix \in [Thread -> 0 .. MaxSuffix]
    /\ candidate \in [Thread -> Pseudonym \cup {Absent}]
    /\ \A t \in Thread :
          (candidate[t] # Absent) <=> (pc[t] \in {"writeForward", "writeReverse"})
    /\ drawn \in SUBSET Token
    /\ answers \in SUBSET Answer

(* Calling pseudonymize again with the same four arguments returns the     *)
(* exact same pseudonym (Vault.pseudonymize's contract).                   *)
Stable ==
    \A a, b \in answers : a.entry = b.entry => a.pseudonym = b.pseudonym

(* Two calls never hold one candidate: they do not overlap, or no token    *)
(* is drawn twice.  A pool of threads over a factory that repeats tokens   *)
(* is neither, and nothing keeps its values apart: two calls may both find *)
(* a candidate free before either stores it.                               *)
Separated == Serial \/ CsprngTokens

(* Two different values of one partition never receive the same pseudonym  *)
(* (Vault.pseudonymize's contract): by the collision loop when calls do    *)
(* not overlap, whatever the factory returns, and by the tokens when they  *)
(* do.                                                                     *)
Injective ==
    Separated =>
        \A a, b \in answers :
            /\ a.entry.partition = b.entry.partition
            /\ a.pseudonym = b.pseudonym
            => a.entry.value = b.entry.value

(* reconstruct answers the original value for every pseudonym this vault   *)
(* has issued (Vault.reconstruct's contract: None only for one it never    *)
(* issued in that partition).                                              *)
RoundTrip ==
    \A a \in answers : Reconstruct(a.entry.partition, a.pseudonym) = a.entry.value

(* What is left of RoundTrip when calls interleave: an issued pseudonym    *)
(* resolves to its own value, or the thread that stored it in the forward  *)
(* map is one step away from storing it in the reverse map.                *)
ResolvesOrPending ==
    Separated =>
        \A a \in answers :
            \/ Reconstruct(a.entry.partition, a.pseudonym) = a.entry.value
            \/ /\ Reconstruct(a.entry.partition, a.pseudonym) = Absent
               /\ \E t \in Thread : /\ pc[t] = "writeReverse" /\ call[t] = a.entry
                                    /\ candidate[t] = a.pseudonym

(* With production tokens, a pseudonym issued in one partition never       *)
(* resolves in another (the class docstring's partitioning).               *)
PartitionIsolation ==
    CsprngTokens =>
        \A a \in answers : \A p \in Partition \ {a.entry.partition} :
            Reconstruct(p, a.pseudonym) = Absent

(* A pseudonym never changes what it stands for: no step of any thread     *)
(* overwrites or drops a reverse mapping.                                  *)
ReverseWriteOnce ==
    [][Separated => \A p \in Partition, ps \in Pseudonym :
          Reconstruct(p, ps) # Absent => Reconstruct(p, ps)' = Reconstruct(p, ps)]_vars

(* pseudonymize returns: the collision loop ends even against a factory    *)
(* that returns one token for ever (the comment on the loop).  With fresh  *)
(* tokens the loop is never taken, and the finite pool of the model may    *)
(* leave a call without a token, which the real factory does not.          *)
CallsReturn == \A t \in Thread : (~CsprngTokens /\ pc[t] # "idle") ~> pc[t] = "idle"

AnswersWith(ps) == {a \in answers : a.pseudonym = ps}

(* Every issued pseudonym can in the end be reconstructed, and stays so.   *)
IssuedEventuallyResolves ==
    \A ps \in Pseudonym :
        (Separated /\ AnswersWith(ps) # {})
            ~> [](\A a \in AnswersWith(ps) :
                     Reconstruct(a.entry.partition, ps) = a.entry.value)

(* With one call at a time the vault implements its contract; a vault that *)
(* a thread pool shares is not held to it, and shows it nothing.           *)
Observed(seen, nothing) == IF Serial THEN seen ELSE nothing
Contract == INSTANCE VaultContract WITH
    answers <- Observed(answers, {}),
    resolves <- Observed(reverse, [p \in Partition |-> [ps \in Pseudonym |-> Absent]])
ImplementsContract == Contract!Spec
=============================================================================
