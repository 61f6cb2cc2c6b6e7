\* Two pool threads pseudonymize the same entry of one partition.
CONSTANTS
    Thread = {t1, t2}
    Partition = {p1}
    Category = {c1}
    Value = {v1}
    k1 = k1
    k2 = k2
    k3 = k3
    Token = {k1, k2, k3}
    MaxSuffix = 1
    Deployment <- MCOnlyShared
    Absent = Absent
SPECIFICATION Spec
INVARIANT Stable
CHECK_DEADLOCK FALSE
