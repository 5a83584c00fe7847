SPECIFICATION Spec
CONSTANTS
    m1 = m1
    m2 = m2
    p2 = p2
    c1 = c1
    c2 = c2
    z1 = z1
    z2 = z2
    None = None
    Masters = {m1, m2}
    Dependents = {}
    Payloads <- MCTwoCodes
    Codes = {c1, c2}
    Zones = {z1, z2}
    Projects = {p1, p2}
    Workers = {w1}
PROPERTY ImportedNotReassigned
CHECK_DEADLOCK FALSE
