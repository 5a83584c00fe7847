SPECIFICATION MCSpec
CONSTANTS
    Users = {u1, u2}
    Superusers = {s1, s2}
    Given = {"operator", "committee"}
    MaxPasswords = 2
    None = None
    Requests = {r1}
    Papers = {k1}
    Tabs = {t1, t2}
    Processes = {p1, p2}
    Threads = {h1}
    Timeout = 2
    RenderTime = 1
    MaxClock = 5
    NoPage = NoPage
    Creators = {c1, c2}
    Legacy <- MCLegacy
    MaxCode = 3
CONSTRAINT MCFewCalls
SYMMETRY MCSymmetry
CHECK_DEADLOCK FALSE
INVARIANTS
    OneFunctionalRole
    OfferedWorkOpens
    HiddenAgesOut
    AlarmsAreReal
PROPERTIES
    EvidenceFrozen
    ActsWithinRole
