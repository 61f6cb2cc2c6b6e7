-------------------------- MODULE SealedReferences --------------------------
(***************************************************************************)
(* The two kinds of sealed text a client carries from one request to a     *)
(* later one (application/restore_handle.py, application/                  *)
(* vault_explorer.py).  A restore handle holds the originals of an export  *)
(* under a key of the deployment; an explorer reference holds pseudonyms   *)
(* only, under a key of the process, and is resolved in its vault.         *)
(*                                                                         *)
(* The envelope is ideal: it opens exactly under the key and the label it  *)
(* was sealed with, and only if no byte of it was changed.  Time is        *)
(* counted in ticks, Second of them to the second, because an expiry is    *)
(* computed from a clock cut down to the second and compared with one that *)
(* is not.                                                                 *)
(***************************************************************************)
EXTENDS PolicyEngine

CONSTANTS
    Second,          \* ticks of the clock to the second
    MaxTTL,          \* MAX_TTL_SECONDS
    DefaultTTL,      \* DEFAULT_TTL_SECONDS
    ExplorerTTL      \* VAULT_EXPLORER_REFERENCE_TTL_SECONDS

ASSUME SealedAssumption ==
    /\ Second \in Nat \ {0} /\ MaxTTL \in Nat \ {0} /\ ExplorerTTL \in Nat
    /\ DefaultTTL \in 1..MaxTTL

-----------------------------------------------------------------------------
(* Envelopes.                                                              *)

Seal(prefix, key, claims) == [prefix |-> prefix, key |-> key, intact |-> TRUE, claims |-> claims]

(* Text that is no envelope, or one that was cut or changed on the way.    *)
Garbage == [prefix |-> "none", key |-> Absent, intact |-> FALSE, claims |-> Absent]
Damaged(sealed) == [sealed EXCEPT !.intact = FALSE]

Authentic(sealed, prefix, key) ==
    sealed.prefix = prefix /\ sealed.intact /\ sealed.key = key

Expired(claims, now) == now > claims.exp * Second

Expiry(now, ttl) == now \div Second + ttl

-----------------------------------------------------------------------------
(* Restore handles.                                                        *)

(* RestoreHandleSealer.__init__: an unset secret is allowed.               *)
SealerBuilds(secret, ttl) ==
    /\ 0 < ttl /\ ttl <= MaxTTL
    /\ secret = Absent \/ secret.long

(* _derive_key: a key for handles only, whatever else the secret is for.   *)
DerivedKey(secret) == [use |-> "adg-restore-handle-v1", of |-> secret]

IssueHandle(secret, ttl, now, entries) ==
    Seal("rh1", DerivedKey(secret), [exp |-> Expiry(now, ttl), entries |-> entries])

(* open: unavailable, invalid, expired or ok.                              *)
HandleVerdict(sealed, secret, now) ==
    IF secret = Absent THEN "unavailable"
    ELSE IF ~Authentic(sealed, "rh1", DerivedKey(secret)) THEN "invalid"
    ELSE IF Expired(sealed.claims, now) THEN "expired" ELSE "ok"

(* A token in a text is a pseudonym and what the pattern takes for the     *)
(* number at its end; a bare one has none.                                 *)
Bare(pseudonym) == [pseudonym |-> pseudonym, tail |-> 0]

Resolvable(text, entries) == {p \in DOMAIN entries : Bare(p) \in text}

\* Replaces every pseudonym of the handle, in the text or not.
RestoredMutant1(text, entries) ==
    [token \in text |->
       IF token.pseudonym \in DOMAIN entries THEN entries[token.pseudonym] ELSE Absent]

(* restore_pseudonyms and replace_ordered: what stands in the place of     *)
(* each token, None where it was left alone.  Replacement is by substring, *)
(* so a pseudonym that is in the text on its own is replaced inside a      *)
(* longer token too.                                                       *)
Restored(text, entries) ==
    [token \in text |->
       IF token.pseudonym \in Resolvable(text, entries) THEN entries[token.pseudonym] ELSE Absent]

-----------------------------------------------------------------------------
(* Explorer references.                                                    *)

(* What the vault gives back, as a set of entries of partition, pseudonym  *)
(* and value.                                                              *)
Lookup(reverse, partition, pseudonym) ==
    LET held == {e \in reverse : e.partition = partition /\ e.pseudonym = pseudonym}
    IN  IF held = {} THEN Absent ELSE (CHOOSE e \in held : TRUE).value

(* The pseudonymizations a reference is for, duplicates dropped.           *)
Shown(transformations) ==
    {t \in transformations : t.action = "pseudonymize" /\ t.transformed # Absent}

\* Issues one for a partition whose entries it has not looked up.
IssueReferenceMutant1(key, now, decision, policies, context, reverse) ==
    LET shown == Shown(decision.transformations)
        partition == PartitionOf(policies, context)
        sealed(p, e) == Seal("vx1", key, [exp |-> Expiry(now, ExplorerTTL), partition |-> p,
                                          entries |-> e])
    IN  IF decision.status # "allowed" THEN Absent
        ELSE IF shown = {} THEN sealed(Absent, {})
        ELSE IF partition = Absent \/ partition.scope = "organization" THEN Absent
        ELSE sealed(partition, {[pseudonym |-> t.transformed, category |-> t.category] : t \in shown})

(* issue_reference: None for a blocked decision, for a scope as wide as    *)
(* the organization, without a partition, or when the vault does not give  *)
(* back what was transformed.                                              *)
IssueReference(key, now, decision, policies, context, reverse) ==
    LET shown == Shown(decision.transformations)
        partition == PartitionOf(policies, context)
        sealed(p, e) == Seal("vx1", key, [exp |-> Expiry(now, ExplorerTTL), partition |-> p,
                                          entries |-> e])
    IN  IF decision.status # "allowed" THEN Absent
        ELSE IF shown = {} THEN sealed(Absent, {})
        ELSE IF partition = Absent \/ partition.scope = "organization" THEN Absent
        ELSE IF \E t \in shown : Lookup(reverse, partition, t.transformed) # t.original THEN Absent
        ELSE sealed(partition, {[pseudonym |-> t.transformed, category |-> t.category] : t \in shown})

(* _open: one refusal for every cause.                                     *)
Opens(sealed, key, now) ==
    Authentic(sealed, "vx1", key) /\ ~Expired(sealed.claims, now)

(* explore: a lookup in the vault as it is now for each sealed entry.      *)
Explored(sealed, reverse) ==
    {[category |-> e.category, pseudonym |-> e.pseudonym,
      original |-> Lookup(reverse, sealed.claims.partition, e.pseudonym)] : e \in sealed.claims.entries}
=============================================================================
