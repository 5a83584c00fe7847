SPECIFICATION FairLocksSpec
CONSTANTS
    Donations = {1, 2, 3}
    Projects = {1, 2, 3}
    Allocations = {1, 2, 3}
    Requests = {1, 2, 3}
    Expenses = {1, 2}
    Edits = {}
    None = None
    MaxMoney = 2
    Workers = {w1, w2}
    MaxCalls = 2
    Enabled = {"update_donation", "annul_donation", "create_allocation", "update_allocation", "finish_allocation", "annul_allocation", "finish_project", "create_request", "update_request", "approve_request", "annul_request", "withdraw_request", "fulfill_request", "create_expense_legacy", "update_expense", "annul_expense"}
CHECK_DEADLOCK FALSE
INVARIANTS
    ChecksStillHold
    DecidedWhereChecked
    DeadlocksAreOutOfOrder
PROPERTIES
    EveryCallEnds
