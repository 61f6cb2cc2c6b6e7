\* Three values, so that the counter of a degenerate factory reaches 2; two
\* threads that keep being scheduled.
CONSTANTS
    Thread = {t1, t2}
    Partition = {p1, p2}
    Category = {c1}
    Value = {v1, v2, v3}
    k1 = k1
    k2 = k2
    k3 = k3
    Token = {k1, k2, k3}
    MaxSuffix = 2
    Deployment <- MCDeployment
    Absent = Absent
SPECIFICATION FairSpec
INVARIANTS TypeOK Injective ResolvesOrPending PartitionIsolation
PROPERTIES ImplementsContract CallsReturn ReverseWriteOnce IssuedEventuallyResolves
\* The pool of fresh tokens runs out.
CHECK_DEADLOCK FALSE
