SPECIFICATION Spec
CONSTANTS
    Donations = {d1, d2}
    Projects = {p1, p2}
    Allocations = {a1, a2}
    Requests = {r1}
    Expenses = {e1}
    Edits = {x1, x2}
    None = None
    MaxMoney = 2
SYMMETRY IdSymmetry
CONSTRAINTS MCEditsAreCheap MCMovesOrSpends
CHECK_DEADLOCK FALSE
INVARIANTS
    DonationNotOverAllocated
    FundedByReceivedDonation
    TerminalAllocationIsSettled
    FiguresAgree
PROPERTIES
    ClosedProjectIsQuiet
