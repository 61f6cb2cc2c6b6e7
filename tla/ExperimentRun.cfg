SPECIFICATION Spec
CONSTANTS
    Absent = Absent
    run1 = run1
    run2 = run2
    Point = 2
    MinBandWidth = 1
    BandWidth <- MCBandWidth
    Session <- Sessions
    RunId = {run1, run2}
INVARIANTS
    TypeOK
    NoWastedCalls
    AnswerableIsDecided
    RowsTellTheirOwnCase
    BundleIsWhole
PROPERTIES
    EveryRunSettles
\* A session ends when its last invocation has.
CHECK_DEADLOCK FALSE
