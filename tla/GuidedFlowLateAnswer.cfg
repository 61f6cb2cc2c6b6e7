\* The user goes back while a preview is under way and asks for another one.
CONSTANTS
    Text = {a, b}
    Upload = {}
    Delta <- Presses
    Waits = FALSE
    MaxRevisions = 4
    MaxRequests = 3
    MaxMoves = 1
    MaxReloads = 0
    None = None
SPECIFICATION Spec
INVARIANT OnlyReviewedIsSent
CHECK_DEADLOCK FALSE
