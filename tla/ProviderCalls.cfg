\* A request of the experiment runner beside one of the service, which calls a
\* provider that may hang for ever.
CONSTANTS
    r1 = r1
    r2 = r2
    Req = {r1, r2}
    DefaultTimeout = 6
    Grace = 2
    Native <- Mixed
    StartLag = 1
    MaxAge = 14
    Runner = {r1}
    Absent = Absent
SPECIFICATION FairSpec
INVARIANTS TypeOK AuditTellsTheTruth NoCallOutlivesItsCaller
PROPERTIES ImplementsContract EveryRequestSettles
\* Every request may be settled.
CHECK_DEADLOCK FALSE
