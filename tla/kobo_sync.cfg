SPECIFICATION Spec
CONSTANTS
    Submissions = {s1, s2}
    Runs = {r1, r2}
    None = None
    Overlap = 1
    Lease = 2
    PageSize = 2
    TraversalLimit = 1
    MaxClock = 4
    MaxEdits = 3
SYMMETRY MCSymmetry
CONSTRAINT MCOneOrMany
INVARIANT RunningOwnsLease
INVARIANT NoEditIsLost
PROPERTY WatermarkNeverRegresses
PROPERTY StagedNeverOlder
PROPERTY NewerStaysFlagged
CHECK_DEADLOCK FALSE
