SPECIFICATION Spec
CONSTANTS
    m1 = m1
    m2 = m2
    p2 = p2
    c1 = c1
    c2 = c2
    z1 = z1
    z2 = z2
    None = None
    Masters = {m1, m2}
    Dependents = {d1}
    Payloads <- MCOneCode
    Codes = {c1}
    Zones = {z1, z2}
    Projects = {p1, p2}
    Workers = {w1, w2}
SYMMETRY MCSymmetry
CONSTRAINT MCOneOrTwo
INVARIANT MaterialFollowsIdentity
INVARIANT ImportedHasRecord
PROPERTY ImportedOnce
CHECK_DEADLOCK FALSE
