SPECIFICATION Spec
CONSTANTS
    Absent = Absent
    Unreadable = Unreadable
    r1 = r1
    r2 = r2
    Request = {r1, r2}
    Context <- MCContext
    SpanLists <- MCSpanLists
    Parseable = {"9000"}
    Document <- MCDocument
    Directory <- MCDirectory
SYMMETRY Symmetry
INVARIANTS TypeOK PolicyBinds OnlyAdmittedReachTheVault
    LinkedOnlyWithinCeilings ShowsOnlyOwn RoundTrip DisclosureIsMonotone
    ImpossibleIsRestricted
CHECK_DEADLOCK FALSE
