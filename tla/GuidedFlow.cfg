\* A user who waits for previews and comparisons, but moves through the history
\* during sends and at any other time, and may reload the page once.
CONSTANTS
    Text = {a}
    Upload = {u}
    Delta <- Presses
    Waits = TRUE
    MaxRevisions = 4
    MaxRequests = 3
    MaxMoves = 3
    MaxReloads = 1
    None = None
SPECIFICATION Spec
INVARIANTS NoResend HistoryIsHonest ForwardReviewsAreCurrent
PROPERTY CorrectionEnds
\* The pools of revisions, requests and moves run out.
CHECK_DEADLOCK FALSE
