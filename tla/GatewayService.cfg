\* Two ticks to the second, so that a clock cut to the second matters.
SPECIFICATION Spec
CONSTANTS
    Absent = Absent
    Malformed = Malformed
    w1 = w1
    w2 = w2
    c1 = c1
    c2 = c2
    Worker = {w1, w2}
    Conn = {c1, c2}
    Second = 2
    MaxTTL = 2
    DefaultTTL = 1
    ExplorerTTL = 1
    DefaultMaxBytes = 3
    MaxInputBytes = 2
    MaxNormalizedCharacters = 2
    MaxDraws = 2
    Policies <- MCPolicies
    Campaign <- MCCampaign
SYMMETRY MCSymmetry
INVARIANTS
    TypeOK
    RestoreRoundTrips
    ExplorerIsConfined
    
    GovernedAsDeclared
\* The clock, the starts and the tokens are bounded.
CHECK_DEADLOCK FALSE
