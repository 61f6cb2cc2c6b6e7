--------------------------- MODULE VaultContract ---------------------------
(***************************************************************************)
(* What the abstract class Vault promises (vault/base.py), as a state      *)
(* machine over what its callers can observe: the answers pseudonymize has *)
(* given, and what reconstruct would answer now.  An entry is asked about  *)
(* any number of times; the first answer fixes its pseudonym for good, the *)
(* pseudonym is one no other value of the partition holds, and it can be   *)
(* reconstructed from the moment it is answered.                           *)
(***************************************************************************)
CONSTANTS Entry,      \* the (partition, category, value) triples asked about
          Partition,  \* (scope, scope_key) pairs
          Pseudonym,  \* every string the vault can emit
          Absent      \* Python's None

VARIABLES answers,    \* the pseudonymize answers given so far
          resolves    \* what reconstruct answers, per partition and pseudonym

contractVars == <<answers, resolves>>

Init ==
    /\ answers = {}
    /\ resolves = [p \in Partition |-> [ps \in Pseudonym |-> Absent]]

(* A first answer for entry e: it has none yet, and ps is free in its      *)
(* partition.                                                              *)
Issue(e, ps) ==
    /\ \A a \in answers : a.entry # e
    /\ resolves[e.partition][ps] = Absent
    /\ answers' = answers \cup {[entry |-> e, pseudonym |-> ps]}
    /\ resolves' = [resolves EXCEPT ![e.partition][ps] = e.value]

(* A repeated question gets an answer already given, which changes nothing *)
(* observable: it is a stuttering step, and needs no action.               *)
Next == \E e \in Entry, ps \in Pseudonym : Issue(e, ps)

Spec == Init /\ [][Next]_contractVars
=============================================================================
