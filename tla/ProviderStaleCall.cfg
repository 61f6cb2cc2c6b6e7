\* The application service, 30 s, against a provider with a native timeout of 60 s.
CONSTANTS
    r1 = r1
    r2 = r2
    Req = {r1, r2}
    DefaultTimeout = 6
    Grace = 2
    Native <- Equal
    StartLag = 1
    MaxAge = 14
    Runner = {}
    Absent = Absent
SPECIFICATION Spec
INVARIANT NoCallOutlivesItsCaller
CHECK_DEADLOCK FALSE
