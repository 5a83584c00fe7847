SPECIFICATION WorkSpec
CONSTANTS
    Projects = {p1}
    Advances = {u1}
    Files = {}
    Milestones = {}
    Workers = {w1, w2}
    None = None
SYMMETRY IdSymmetry
CHECK_DEADLOCK FALSE
PROPERTIES
    PublishedIsNeverDeleted
