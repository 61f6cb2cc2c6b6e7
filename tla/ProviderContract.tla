-------------------------- MODULE ProviderContract --------------------------
(***************************************************************************)
(* What the provider boundary promises about each request (the docstrings  *)
(* of invoke_provider and ProviderError, providers/base.py): a payload is  *)
(* transmitted at most once and only when it is permitted; the request is  *)
(* settled once; a request settled as refused was never transmitted and    *)
(* never will be; an answer is only ever the answer to a transmission.  A  *)
(* failed request promises nothing about the wire: its call may still be   *)
(* under way.                                                              *)
(***************************************************************************)
EXTENDS Naturals

CONSTANT Req    \* disclosure requests

VARIABLES permitted,  \* the requests decided "allowed", for this provider's class
          wire,       \* how often each request's payload was transmitted
          outcome     \* "pending", "refused", "failed" or "answered"

contractVars == <<permitted, wire, outcome>>

Init ==
    /\ permitted \in SUBSET Req
    /\ wire = [r \in Req |-> 0]
    /\ outcome = [r \in Req |-> "pending"]

Transmit(r) ==
    /\ r \in permitted
    /\ wire[r] = 0
    /\ outcome[r] \in {"pending", "failed"}
    /\ wire' = [wire EXCEPT ![r] = 1]
    /\ UNCHANGED <<permitted, outcome>>

Settle(r, o) ==
    /\ outcome[r] = "pending"
    /\ o = "refused" <=> r \notin permitted
    /\ o = "answered" => wire[r] = 1
    /\ outcome' = [outcome EXCEPT ![r] = o]
    /\ UNCHANGED <<permitted, wire>>

Next == \E r \in Req : Transmit(r) \/ \E o \in {"refused", "failed", "answered"} : Settle(r, o)

Spec == Init /\ [][Next]_contractVars
=============================================================================
