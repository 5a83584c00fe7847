SPECIFICATION Spec
CONSTANTS
    Donations = {d1}
    Projects = {p1}
    Allocations = {a1}
    Requests = {r1}
    Expenses = {e1}
    Edits = {x1}
    None = None
    MaxMoney = 1
SYMMETRY IdSymmetry
CHECK_DEADLOCK FALSE
PROPERTIES
    ClosedIsIrreversible
