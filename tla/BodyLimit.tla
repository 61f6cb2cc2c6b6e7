------------------------------ MODULE BodyLimit ------------------------------
(***************************************************************************)
(* RequestBodySizeLimitMiddleware and the middlewares around it            *)
(* (api/limits.py, api/app.py), as what each does to the state it keeps of *)
(* one HTTP exchange.  A guard has the bytes received, the three flags of  *)
(* __call__, and the responses started on the wire, of which a correct     *)
(* exchange has one.                                                       *)
(***************************************************************************)
EXTENDS Naturals, Sequences

CONSTANT DefaultMaxBytes   \* DEFAULT_MAX_UPLOAD_BYTES
ASSUME LimitAssumption == DefaultMaxBytes \in Nat \ {0}

(* max_upload_bytes: a limit that is unset, unreadable or not positive is  *)
(* the default.                                                            *)
MaxUploadBytes(configured) ==
    IF configured \in Nat \ {0} THEN configured ELSE DefaultMaxBytes

Fresh == [received |-> 0, exceeded |-> FALSE, started |-> FALSE, answered |-> FALSE, wire |-> <<>>]

(* What the declared length says, before a byte is received.               *)
RefusesDeclared(declared, max) == declared \in Nat /\ declared > max

SendTooLarge(guard) ==
    [guard EXCEPT !.answered = TRUE, !.wire = Append(@, 413)]

\* Counts the chunk after it has compared.
CountMutant1(guard, bytes, max) ==
    [guard EXCEPT !.received = @ + bytes, !.exceeded = @ \/ guard.received > max]

(* counting_receive; it raises exactly when the guard is exceeded.         *)
Count(guard, bytes, max) ==
    [guard EXCEPT !.received = @ + bytes, !.exceeded = @ \/ guard.received + bytes > max]

(* guarded_send of the application's response.                             *)
Send(guard, status) ==
    IF guard.exceeded /\ ~guard.started
    THEN IF guard.answered THEN guard ELSE SendTooLarge(guard)
    ELSE [guard EXCEPT !.started = TRUE, !.wire = Append(@, status)]

(* The counter's exception comes through the application.                  *)
Unwind(guard) ==
    IF guard.started \/ guard.answered THEN guard ELSE SendTooLarge(guard)

(* Any other exception goes through this middleware to the outermost one,  *)
(* which answers 500 if nothing was.                                       *)
Crash(guard) ==
    IF guard.wire # <<>> THEN guard ELSE [guard EXCEPT !.wire = Append(@, 500)]
=============================================================================
