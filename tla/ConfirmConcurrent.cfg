\* One worker with two pool threads that race in the vault, redeployed once,
\* perhaps with another provider, under a configured secret; approvals expire.
CONSTANTS
    Worker = {w1}
    Handler = {h1, h2}
    Doc = {d1, d2}
    Task = {k1}
    NamedDoc = {d1}
    BlockedDoc = {d2}
    SensitiveTask = {}
    Pseudonym = {s1, s2}
    Durable = TRUE
    TTL = 1
    MaxTime = 2
    MaxRestarts = 1
    MaxIssued = 2
    Absent = Absent
SPECIFICATION Spec
SYMMETRY Symmetry
INVARIANTS TypeOK OnlyApprovedIsSent UnsafeStaysInside
\* The pools of tokens, pseudonyms and time run out.
CHECK_DEADLOCK FALSE
