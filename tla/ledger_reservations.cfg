SPECIFICATION Spec
CONSTANTS
    Donations = {d1, d2}
    Projects = {p1}
    Allocations = {a1, a2}
    Requests = {r1, r2}
    Expenses = {e1, e2}
    Edits = {}
    None = None
    MaxMoney = 2
SYMMETRY IdSymmetry
CONSTRAINT MCDeepOrWide
CHECK_DEADLOCK FALSE
INVARIANTS
    FulfilmentIsOneToOne
    OffersWork
    AllocationNotOverExecuted
    TrailMatchesRows
PROPERTIES
    ReservationsStayCovered
    KeepsCustody
