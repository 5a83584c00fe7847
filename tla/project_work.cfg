SPECIFICATION WorkSpec
CONSTANTS
    Projects = {p1, p2}
    Advances = {u1}
    Files = {k1, k2}
    Milestones = {m1, m2, m3}
    Workers = {w1, w2}
    None = None
SYMMETRY IdSymmetry
CONSTRAINTS
    MCOneAfterTheOther
    MCFewFiles
CHECK_DEADLOCK FALSE
INVARIANTS
    DocumentsStandOnEachOther
    DeadlocksAreKnown
    MilestonesStayMovable
    LastCrossingIsTrue
PROPERTIES
    PublishedStaysAsItWas
    ClosedProjectIsFrozen
