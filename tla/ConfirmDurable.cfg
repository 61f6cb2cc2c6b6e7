\* Two workers that share a configured secret.
CONSTANTS
    Worker = {w1, w2}
    Handler = {h1}
    Doc = {d1}
    Task = {k1, k2}
    NamedDoc = {d1}
    BlockedDoc = {}
    SensitiveTask = {k2}
    Pseudonym = {s1, s2}
    Durable = TRUE
    TTL = 1
    MaxTime = 0
    MaxRestarts = 0
    MaxIssued = 2
    Absent = Absent
SPECIFICATION Spec
SYMMETRY Symmetry
INVARIANT ApprovalHonoured
\* The pools of tokens, pseudonyms and time run out.
CHECK_DEADLOCK FALSE
