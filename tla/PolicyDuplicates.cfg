\* One request; one of the directories has three files of one version.
SPECIFICATION Spec
CONSTANTS
    Absent = Absent
    Unreadable = Unreadable
    r1 = r1
    r2 = r2
    Request = {r1}
    Context <- MCContext
    SpanLists <- MCSpanLists
    Parseable = {"9000"}
    Document <- MCDocument
    Directory <- MCDirectory
INVARIANT AmbiguousIsBlocked
CHECK_DEADLOCK FALSE
