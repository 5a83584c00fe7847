-------------------------------- MODULE Ledger --------------------------------
(***************************************************************************)
(* The money of apps/operations: donations, the allocations that split     *)
(* them over projects, the requests that reserve money of an allocation,   *)
(* and the expenses that spend it.                                         *)
(*                                                                         *)
(* Each action is one committed transaction of services.py or              *)
(* expense_request_services.py: its guard, named May..., is the            *)
(* conjunction of the checks the service makes under its row locks, its    *)
(* primed variables are the rows it saves.  LedgerLocks takes the same     *)
(* transactions apart into their lock steps.  The one operation that       *)
(* checks outside its transaction, the expense delete view, is two actions *)
(* here as well, and the project edit form, which saves a row it loaded    *)
(* earlier, is three.                                                      *)
(*                                                                         *)
(* Abstracted: texts, dates, codes, permissions and the identity of the    *)
(* requester, the donor, the currency (USD is the only one admitted), the  *)
(* audit log, and the events of a request that no property reads.          *)
(***************************************************************************)
EXTENDS Integers, MoneySums

CONSTANTS Donations, Projects, Allocations, Requests, Expenses,  \* row ids
          Edits,                                                 \* project edit requests in flight
          None                                                   \* SQL NULL

ASSUME LedgerAssumption ==
    /\ IsFiniteSet(Allocations)
    /\ IsFiniteSet(Requests)
    /\ IsFiniteSet(Expenses)
    /\ None \notin Donations \cup Projects \cup Allocations \cup Expenses

VARIABLES
    donation,     \* Donation rows: status, amount
    project,      \* Project rows: status, is_public
    allocation,   \* FundAllocation rows: status, amount, donation, project
    request,      \* ExpenseRequest rows: status, requested_amount, reserved_amount, ...
    expense,      \* Expense rows: status, amount, allocation
    trail,        \* the reservation events appended for each request
    deleting,     \* expenses a delete view has found deletable, not yet deleted
    edit          \* the project edits in flight: phase, project, the row loaded

vars == <<donation, project, allocation, request, expense, trail, deleting, edit>>

-------------------------------------------------------------------------------
(* Row types.  "absent" is an id the sequence has not handed out yet,      *)
(* "deleted" one whose row was physically deleted: an id is never reused.  *)

NoRow == {"absent", "deleted"}

DonationStatus   == NoRow \cup {"registered", "received", "annulled"}
ProjectStatus    == {"absent", "active", "closed"}
AllocationStatus == NoRow \cup {"active", "finished", "annulled"}
RequestStatus    == {"absent", "pending_decision", "approved_reserved", "denied",
                     "withdrawn", "fulfilled", "annulled"}
ExpenseStatus    == NoRow \cup {"registered", "annulled"}

OpenFinancialStatuses   == {"pending_decision", "approved_reserved"}
TerminalRequestStatuses == {"denied", "withdrawn", "fulfilled", "annulled"}

ReservationEvent ==
    {"RESERVATION_CREATED", "RESERVATION_CONSUMED", "RESERVATION_RELEASED",
     "LINKED_EXPENSE_ANNULLED"}

DonationRow   == [status : DonationStatus, amount : Money]
ProjectRow    == [status : ProjectStatus, public : BOOLEAN]
AllocationRow == [status : AllocationStatus, amount : Money,
                  donation : Donations \cup {None}, project : Projects \cup {None}]
RequestRow    == [status : RequestStatus, requested : Money, reserved : Money,
                  allocation : Allocations \cup {None}, expense : Expenses \cup {None}]
ExpenseRow    == [status : ExpenseStatus, amount : Money,
                  allocation : Allocations \cup {None}]

\* A project edit: found editable, then loaded, then saved.
Idle    == [phase |-> "idle", project |-> None, row |-> [status |-> "absent", public |-> FALSE]]
EditRow == [phase : {"idle", "checked", "loaded"}, project : Projects \cup {None},
            row : ProjectRow]

Init ==
    /\ donation   = [d \in Donations |-> [status |-> "absent", amount |-> 0]]
    /\ project    = [p \in Projects |-> [status |-> "absent", public |-> FALSE]]
    /\ allocation = [a \in Allocations |-> [status |-> "absent", amount |-> 0,
                                            donation |-> None, project |-> None]]
    /\ request    = [r \in Requests |-> [status |-> "absent", requested |-> 0, reserved |-> 0,
                                         allocation |-> None, expense |-> None]]
    /\ expense    = [e \in Expenses |-> [status |-> "absent", amount |-> 0, allocation |-> None]]
    /\ trail      = [r \in Requests |-> {}]
    /\ deleting   = {}
    /\ edit       = [x \in Edits |-> Idle]

-------------------------------------------------------------------------------
(* The balances.                                                           *)

AllocationAmounts == [a \in Allocations |-> allocation[a].amount]
ExpenseAmounts    == [e \in Expenses |-> expense[e].amount]
ReservedAmounts   == [r \in Requests |-> request[r].reserved]

\* donation.allocations.exclude(status=ANNULLED)
AllocationsOf(d) ==
    {a \in Allocations : /\ allocation[a].donation = d
                         /\ allocation[a].status \in {"active", "finished"}}

\* allocation.expenses.exclude(status__in=non_executing_statuses())
ExecutingExpenses(a) ==
    {e \in Expenses : expense[e].allocation = a /\ expense[e].status = "registered"}

\* The APPROVED_RESERVED requests of an allocation.
ReservingRequests(a) ==
    {r \in Requests : request[r].allocation = a /\ request[r].status = "approved_reserved"}

\* open_expense_requests_for_allocation
OpenRequests(a) ==
    {r \in Requests : request[r].allocation = a /\ request[r].status \in OpenFinancialStatuses}

Assigned(d) == Total(AllocationsOf(d), AllocationAmounts)
Executed(a) == Total(ExecutingExpenses(a), ExpenseAmounts)
Reserved(a) == Total(ReservingRequests(a), ReservedAmounts)

\* What is left of an allocation, negative when it is over-committed.
Unreserved(a) == allocation[a].amount - Executed(a) - Reserved(a)

\* max(..., ZERO_MONEY): the balance the app shows and records in events.
Clamp(balance)  == IF balance > 0 THEN balance ELSE 0
Available(a)    == Clamp(Unreserved(a))

\* The defensive equation of approve, fulfil and annul: after the rows are
\* saved the clamped balance must have moved by exactly change, or the
\* transaction is rolled back.  after is the unclamped balance then.
Consolidates(a, after, change) == Clamp(after) = Available(a) + change

HasRow(row)        == row.status \notin NoRow
Editable(a)        == allocation[a].status = "active"
Closed(p)          == project[p].status = "closed"
AcceptsRequests(a) == /\ Editable(a)
                      /\ donation[allocation[a].donation].status = "received"
                      /\ ~Closed(allocation[a].project)

-------------------------------------------------------------------------------
(* Donations.                                                              *)

\* create_donation: always REGISTERED, with a positive amount.
CreateDonation(d, m) ==
    /\ donation[d].status = "absent"
    /\ donation' = [donation EXCEPT ![d] = [status |-> "registered", amount |-> m]]
    /\ UNCHANGED <<project, allocation, request, expense, trail, deleting, edit>>

\* transition_donation_status: RECEIVED is reached from REGISTERED only.
MayReceiveDonation(d) == donation[d].status = "registered"

\* transition_donation_status: its only target that is not terminal is RECEIVED.
ReceiveDonation(d) ==
    /\ MayReceiveDonation(d)
    /\ donation' = [donation EXCEPT ![d].status = "received"]
    /\ UNCHANGED <<project, allocation, request, expense, trail, deleting, edit>>

\* Mutant of MayUpdateDonation: only the sign of the new amount is checked.
MayUpdateDonationUnchecked(d, m) == donation[d].status \in {"registered", "received"}

\* _validate_donation_amount_against_allocations and Donation.clean: the new
\* amount is not below what is assigned.
MayUpdateDonation(d, m) ==
    /\ donation[d].status \in {"registered", "received"}
    /\ m >= Assigned(d)

\* update_donation
UpdateDonation(d, m) ==
    /\ MayUpdateDonation(d, m)
    /\ donation' = [donation EXCEPT ![d].amount = m]
    /\ UNCHANGED <<project, allocation, request, expense, trail, deleting, edit>>

\* Mutant of MayAnnulDonation: only ACTIVE allocations block it.
MayAnnulDonationUnderFinished(d) ==
    /\ donation[d].status \in {"registered", "received"}
    /\ \A a \in AllocationsOf(d) : allocation[a].status # "active"

\* Neither annulled yet nor allocated, finished allocations included.
MayAnnulDonation(d) ==
    /\ donation[d].status \in {"registered", "received"}
    /\ AllocationsOf(d) = {}

\* annul_donation
AnnulDonation(d) ==
    /\ MayAnnulDonation(d)
    /\ donation' = [donation EXCEPT ![d].status = "annulled"]
    /\ UNCHANGED <<project, allocation, request, expense, trail, deleting, edit>>

\* DonationDeleteView: whatever the status, unless an allocation row, annulled
\* ones included, still points at the donation (on_delete=PROTECT).
DeleteDonation(d) ==
    /\ HasRow(donation[d])
    /\ \A a \in Allocations : HasRow(allocation[a]) => allocation[a].donation # d
    /\ donation' = [donation EXCEPT ![d] = [status |-> "deleted", amount |-> 0]]
    /\ UNCHANGED <<project, allocation, request, expense, trail, deleting, edit>>

-------------------------------------------------------------------------------
(* Projects.  Project.delete always refuses.                               *)

CreateProject(p) ==
    /\ project[p].status = "absent"
    /\ project' = [project EXCEPT ![p].status = "active"]
    /\ UNCHANGED <<donation, allocation, request, expense, trail, deleting, edit>>

MayPublishProject(p) ==
    /\ project[p].status = "active"
    /\ ~project[p].public

PublishProject(p) ==
    /\ MayPublishProject(p)
    /\ project' = [project EXCEPT ![p].public = TRUE]
    /\ UNCHANGED <<donation, allocation, request, expense, trail, deleting, edit>>

MayUnpublishProject(p) ==
    /\ project[p].status = "active"
    /\ project[p].public

UnpublishProject(p) ==
    /\ MayUnpublishProject(p)
    /\ project' = [project EXCEPT ![p].public = FALSE]
    /\ UNCHANGED <<donation, allocation, request, expense, trail, deleting, edit>>

\* Mutant of MayFinishProject: open requests are not looked at.
MayFinishProjectWithRequests(p) ==
    /\ project[p].status = "active"
    /\ \A a \in Allocations : allocation[a].project = p => allocation[a].status # "active"

\* No active allocation, and no open request under any allocation of the
\* project, whatever the status of that allocation.
MayFinishProject(p) ==
    /\ project[p].status = "active"
    /\ \A a \in Allocations : allocation[a].project = p =>
           allocation[a].status # "active" /\ OpenRequests(a) = {}

\* finish_project: closed and private at once.
FinishProject(p) ==
    /\ MayFinishProject(p)
    /\ project' = [project EXCEPT ![p] = [status |-> "closed", public |-> FALSE]]
    /\ UNCHANGED <<donation, allocation, request, expense, trail, deleting, edit>>

\* ProjectUpdateView.dispatch: the project is found editable, without a lock.
CheckProjectEdit(x, p) ==
    /\ edit[x].phase = "idle"
    /\ project[p].status = "active"
    /\ edit' = [edit EXCEPT ![x] = [Idle EXCEPT !.phase = "checked", !.project = p]]
    /\ UNCHANGED <<donation, project, allocation, request, expense, trail, deleting>>

\* UpdateView.get_object: the whole row is loaded a second time, still unlocked.
LoadProjectEdit(x, p) ==
    /\ edit[x].phase = "checked"
    /\ edit[x].project = p
    /\ edit' = [edit EXCEPT ![x].phase = "loaded", ![x].row = project[p]]
    /\ UNCHANGED <<donation, project, allocation, request, expense, trail, deleting>>

\* AuditMixin.form_valid: form.save() writes every column of the loaded row,
\* status and is_public included, over whatever the row holds by now.
SaveProjectEdit(x) ==
    /\ edit[x].phase = "loaded"
    /\ project' = [project EXCEPT ![edit[x].project] = edit[x].row]
    /\ edit' = [edit EXCEPT ![x] = Idle]
    /\ UNCHANGED <<donation, allocation, request, expense, trail, deleting>>

\* The request ends without saving: the form is invalid, or was only shown.
EndProjectEdit(x) ==
    /\ edit[x].phase # "idle"
    /\ edit' = [edit EXCEPT ![x] = Idle]
    /\ UNCHANGED <<donation, project, allocation, request, expense, trail, deleting>>

-------------------------------------------------------------------------------
(* Allocations.                                                            *)

\* _validate_donation_can_fund_allocations, _validate_project_accepts_allocations
\* and _validate_allocation_balance, with the allocation itself left out.
CanFund(d, p, m, a) ==
    /\ donation[d].status = "received"
    /\ project[p].status = "active"
    /\ m <= donation[d].amount - Total(AllocationsOf(d) \ {a}, AllocationAmounts)

MayCreateAllocation(a, d, p, m) ==
    /\ allocation[a].status = "absent"
    /\ CanFund(d, p, m, a)

\* create_fund_allocation; the view always passes ACTIVE.
CreateAllocation(a, d, p, m) ==
    /\ MayCreateAllocation(a, d, p, m)
    /\ allocation' = [allocation EXCEPT ![a] =
                         [status |-> "active", amount |-> m, donation |-> d, project |-> p]]
    /\ UNCHANGED <<donation, project, request, expense, trail, deleting, edit>>

\* Mutant of MayUpdateAllocation: the money already executed is not looked at.
MayUpdateAllocationBelowExecuted(a, d, p, m) == Editable(a) /\ CanFund(d, p, m, a)

\* The amount may fall below what is reserved: _validate_allocation_execution
\* looks at expenses only.
MayUpdateAllocation(a, d, p, m) ==
    /\ Editable(a)
    /\ CanFund(d, p, m, a)
    /\ m >= Executed(a)

\* update_fund_allocation: a complete replacement; the row may move to another
\* donation and project.
UpdateAllocation(a, d, p, m) ==
    /\ MayUpdateAllocation(a, d, p, m)
    /\ allocation' = [allocation EXCEPT ![a] =
                         [status |-> "active", amount |-> m, donation |-> d, project |-> p]]
    /\ UNCHANGED <<donation, project, request, expense, trail, deleting, edit>>

MayFinishAllocation(a) ==
    /\ Editable(a)
    /\ OpenRequests(a) = {}

\* finish_fund_allocation
FinishAllocation(a) ==
    /\ MayFinishAllocation(a)
    /\ allocation' = [allocation EXCEPT ![a].status = "finished"]
    /\ UNCHANGED <<donation, project, request, expense, trail, deleting, edit>>

\* Expenses that execute block it, open requests do not.
MayAnnulAllocation(a) ==
    /\ Editable(a)
    /\ ExecutingExpenses(a) = {}

\* annul_fund_allocation
AnnulAllocation(a) ==
    /\ MayAnnulAllocation(a)
    /\ allocation' = [allocation EXCEPT ![a].status = "annulled"]
    /\ UNCHANGED <<donation, project, request, expense, trail, deleting, edit>>

\* FundAllocationDeleteView: any status, unless an expense or a request row
\* points at the allocation (on_delete=PROTECT).
DeleteAllocation(a) ==
    /\ HasRow(allocation[a])
    /\ \A e \in Expenses : expense[e].allocation # a
    /\ \A r \in Requests : request[r].allocation # a
    /\ allocation' = [allocation EXCEPT ![a] = [status |-> "deleted", amount |-> 0,
                                                donation |-> None, project |-> None]]
    /\ UNCHANGED <<donation, project, request, expense, trail, deleting, edit>>

-------------------------------------------------------------------------------
(* Expense requests.                                                       *)

MayCreateRequest(r, a) ==
    /\ request[r].status = "absent"
    /\ AcceptsRequests(a)

\* create_expense_request: nothing is reserved, the amount is not compared
\* with the balance.
CreateRequest(r, a, m) ==
    /\ MayCreateRequest(r, a)
    /\ request' = [request EXCEPT ![r] =
                      [status |-> "pending_decision", requested |-> m, reserved |-> 0,
                       allocation |-> a, expense |-> None]]
    /\ UNCHANGED <<donation, project, allocation, expense, trail, deleting, edit>>

\* Mutant of MayUpdateRequest: the allocation the request moves to is not validated.
MayUpdateRequestAnywhere(r, a) ==
    request[r].status = "pending_decision" /\ HasRow(allocation[a])

\* The target allocation is validated, the one the request leaves is not.
MayUpdateRequest(r, a) ==
    /\ request[r].status = "pending_decision"
    /\ AcceptsRequests(a)

\* update_expense_request
UpdateRequest(r, a, m) ==
    /\ MayUpdateRequest(r, a)
    /\ request' = [request EXCEPT ![r].allocation = a, ![r].requested = m]
    /\ UNCHANGED <<donation, project, allocation, expense, trail, deleting, edit>>

MayWithdrawRequest(r) == request[r].status = "pending_decision"

\* withdraw_expense_request: no check of the allocation.
WithdrawRequest(r) ==
    /\ MayWithdrawRequest(r)
    /\ request' = [request EXCEPT ![r].status = "withdrawn"]
    /\ UNCHANGED <<donation, project, allocation, expense, trail, deleting, edit>>

\* deny_expense_request
DenyRequest(r) ==
    /\ request[r].status = "pending_decision"
    /\ request' = [request EXCEPT ![r].status = "denied"]
    /\ UNCHANGED <<donation, project, allocation, expense, trail, deleting, edit>>

MayApproveRequest(r) ==
    LET a == request[r].allocation
        m == request[r].requested
    IN  /\ request[r].status = "pending_decision"
        /\ AcceptsRequests(a)
        /\ m <= Available(a)
        /\ Consolidates(a, Unreserved(a) - m, -m)

\* approve_expense_request: the whole requested amount is reserved.
ApproveRequest(r) ==
    /\ MayApproveRequest(r)
    /\ request' = [request EXCEPT ![r].status = "approved_reserved",
                                  ![r].reserved = request[r].requested]
    /\ trail' = [trail EXCEPT ![r] = @ \cup {"RESERVATION_CREATED"}]
    /\ UNCHANGED <<donation, project, allocation, expense, deleting, edit>>

\* Mutant of MayFulfillRequest: the expense may take from the free balance of
\* the allocation what the reservation lacks.
MayFulfillRequestAboveReserved(r, e, m) ==
    /\ request[r].status = "approved_reserved"
    /\ AcceptsRequests(request[r].allocation)
    /\ expense[e].status = "absent"
    /\ m <= Unreserved(request[r].allocation) + request[r].reserved

\* The expense e is new, and of at most what is reserved.
MayFulfillRequest(r, e, m) ==
    LET a    == request[r].allocation
        held == request[r].reserved
    IN  /\ request[r].status = "approved_reserved"
        /\ AcceptsRequests(a)
        /\ m <= held
        /\ expense[e].status = "absent"
        /\ m <= Unreserved(a) + held
        /\ Consolidates(a, Unreserved(a) + held - m, held - m)

\* fulfill_expense_request: registers the expense, consumes the reservation
\* and releases the rest of it.
FulfillRequest(r, e, m) ==
    /\ MayFulfillRequest(r, e, m)
    /\ expense' = [expense EXCEPT ![e] = [status |-> "registered", amount |-> m,
                                          allocation |-> request[r].allocation]]
    /\ request' = [request EXCEPT ![r].status = "fulfilled", ![r].expense = e]
    /\ trail' = [trail EXCEPT ![r] = @ \cup {"RESERVATION_CONSUMED"}]
    /\ UNCHANGED <<donation, project, allocation, deleting, edit>>

\* What annulling the request gives back.
Held(r) == IF request[r].status = "approved_reserved" THEN request[r].reserved ELSE 0

\* Pending or approved, on an allocation of any status.
MayAnnulRequest(r) ==
    LET a == request[r].allocation
    IN  /\ request[r].status \in OpenFinancialStatuses
        /\ Consolidates(a, Unreserved(a) + Held(r), Held(r))

\* Mutant of AnnulRequest: had_active_reservation is read after the new status
\* was assigned, so no release is recorded.
AnnulRequestLateRead(r) ==
    /\ MayAnnulRequest(r)
    /\ request' = [request EXCEPT ![r].status = "annulled"]
    /\ UNCHANGED <<donation, project, allocation, expense, trail, deleting, edit>>

\* annul_expense_request: the reserved amount stays in the row as history.
AnnulRequest(r) ==
    /\ MayAnnulRequest(r)
    /\ request' = [request EXCEPT ![r].status = "annulled"]
    /\ trail' = [trail EXCEPT ![r] = IF Held(r) > 0 THEN @ \cup {"RESERVATION_RELEASED"} ELSE @]
    /\ UNCHANGED <<donation, project, allocation, expense, deleting, edit>>

-------------------------------------------------------------------------------
(* Expenses.                                                               *)

\* Mutant of MayCreateExpenseLegacy: the balance forgets the reservations.
MayCreateExpenseLegacyOverReserved(e, a, m) ==
    /\ expense[e].status = "absent"
    /\ Editable(a)
    /\ ~Closed(allocation[a].project)
    /\ m <= allocation[a].amount - Executed(a)

\* _validate_expense_balance: the expense cannot touch a reservation.  The
\* donation's status is not looked at.
MayCreateExpenseLegacy(e, a, m) ==
    /\ expense[e].status = "absent"
    /\ Editable(a)
    /\ ~Closed(allocation[a].project)
    /\ m <= Unreserved(a)

\* create_expense_legacy: an expense that comes from no request.
CreateExpenseLegacy(e, a, m) ==
    /\ MayCreateExpenseLegacy(e, a, m)
    /\ expense' = [expense EXCEPT ![e] =
                      [status |-> "registered", amount |-> m, allocation |-> a]]
    /\ UNCHANGED <<donation, project, allocation, request, trail, deleting, edit>>

Linked(e) == \E r \in Requests : request[r].expense = e

\* validate_fund_allocation_for_new_operational_use
EligibleForReassignment(a) ==
    /\ allocation[a].status = "active"
    /\ project[allocation[a].project].status = "active"
    /\ donation[allocation[a].donation].status = "received"

\* Mutant of MayUpdateExpense: the expense of a request may be moved as well.
MayUpdateExpenseMovesLinked(e, a, m) ==
    /\ expense[e].status = "registered"
    /\ expense[e].allocation # a => EligibleForReassignment(a)
    /\ m <= Unreserved(a) + (IF expense[e].allocation = a THEN expense[e].amount ELSE 0)

\* The allocation may change only for an expense no request produced; an
\* expense that keeps its allocation is corrected even when that allocation
\* has become terminal.
MayUpdateExpense(e, a, m) ==
    LET own == IF expense[e].allocation = a THEN expense[e].amount ELSE 0
    IN  /\ expense[e].status = "registered"
        /\ expense[e].allocation # a => ~Linked(e) /\ EligibleForReassignment(a)
        /\ m <= Unreserved(a) + own

\* update_expense
UpdateExpense(e, a, m) ==
    /\ MayUpdateExpense(e, a, m)
    /\ expense' = [expense EXCEPT ![e].allocation = a, ![e].amount = m]
    /\ UNCHANGED <<donation, project, allocation, request, trail, deleting, edit>>

\* A request that points at the expense is FULFILLED.
MayAnnulExpense(e) ==
    /\ expense[e].status = "registered"
    /\ \A r \in Requests : request[r].expense = e => request[r].status = "fulfilled"

\* annul_expense: the money goes back to the allocation; a linked request stays
\* FULFILLED and its reservation is not recreated.
AnnulExpense(e) ==
    /\ MayAnnulExpense(e)
    /\ expense' = [expense EXCEPT ![e].status = "annulled"]
    /\ trail' = [r \in Requests |->
                    IF request[r].expense = e THEN trail[r] \cup {"LINKED_EXPENSE_ANNULLED"}
                                              ELSE trail[r]]
    /\ UNCHANGED <<donation, project, allocation, request, deleting, edit>>

\* ensure_expense_is_deletable
MayDeleteExpense(e) == expense[e].status = "registered"

\* ExpenseDeleteView.dispatch: ensure_expense_is_deletable on a row read
\* without a lock and outside the transaction of the deletion.
ConfirmExpenseDeletion(e) ==
    /\ MayDeleteExpense(e)
    /\ deleting' = deleting \cup {e}
    /\ UNCHANGED <<donation, project, allocation, request, expense, trail, edit>>

\* DeleteAuditMixin.form_valid: deletes the row, or reports the request that
\* protects it; get_object finds no row when another view deleted it first.
DeleteExpense(e) ==
    /\ e \in deleting
    /\ deleting' = deleting \ {e}
    /\ expense' = IF HasRow(expense[e]) /\ ~Linked(e)
                    THEN [expense EXCEPT ![e] = [status |-> "deleted", amount |-> 0,
                                                 allocation |-> None]]
                    ELSE expense
    /\ UNCHANGED <<donation, project, allocation, request, trail, edit>>

-------------------------------------------------------------------------------

DonationStep ==
    \E d \in Donations :
        \/ \E m \in Positive : CreateDonation(d, m) \/ UpdateDonation(d, m)
        \/ ReceiveDonation(d)
        \/ AnnulDonation(d)
        \/ DeleteDonation(d)

ProjectStep ==
    \E p \in Projects :
        CreateProject(p) \/ PublishProject(p) \/ UnpublishProject(p) \/ FinishProject(p)

AllocationStep ==
    \E a \in Allocations :
        \/ \E d \in Donations, p \in Projects, m \in Positive :
               CreateAllocation(a, d, p, m) \/ UpdateAllocation(a, d, p, m)
        \/ FinishAllocation(a)
        \/ AnnulAllocation(a)
        \/ DeleteAllocation(a)

RequestStep ==
    \E r \in Requests :
        \/ \E a \in Allocations, m \in Positive : CreateRequest(r, a, m) \/ UpdateRequest(r, a, m)
        \/ WithdrawRequest(r)
        \/ DenyRequest(r)
        \/ ApproveRequest(r)
        \/ \E e \in Expenses, m \in Positive : FulfillRequest(r, e, m)
        \/ AnnulRequest(r)

EditStep ==
    \E x \in Edits :
        \/ \E p \in Projects : CheckProjectEdit(x, p) \/ LoadProjectEdit(x, p)
        \/ SaveProjectEdit(x)
        \/ EndProjectEdit(x)

ExpenseStep ==
    \E e \in Expenses :
        \/ \E a \in Allocations, m \in Positive :
               CreateExpenseLegacy(e, a, m) \/ UpdateExpense(e, a, m)
        \/ AnnulExpense(e)
        \/ ConfirmExpenseDeletion(e)
        \/ DeleteExpense(e)

Next ==
    \/ DonationStep
    \/ ProjectStep
    \/ EditStep
    \/ AllocationStep
    \/ RequestStep
    \/ ExpenseStep

Spec == Init /\ [][Next]_vars

-------------------------------------------------------------------------------
(* Invariants.                                                             *)

\* Every table holds rows of its type: the statuses each model declares,
\* amounts a money column can carry, references to ids of the right table.
TypeOK ==
    /\ donation   \in [Donations -> DonationRow]
    /\ project    \in [Projects -> ProjectRow]
    /\ allocation \in [Allocations -> AllocationRow]
    /\ request    \in [Requests -> RequestRow]
    /\ expense    \in [Expenses -> ExpenseRow]
    /\ trail      \in [Requests -> SUBSET ReservationEvent]
    /\ deleting   \in SUBSET Expenses
    /\ edit       \in [Edits -> EditRow]

\* The foreign keys of one row: they lead to rows while it exists, and are
\* NULL while it does not.
AllocationReferences(a) ==
    IF HasRow(allocation[a])
      THEN /\ allocation[a].donation \in Donations
           /\ HasRow(donation[allocation[a].donation])
           /\ allocation[a].project \in Projects
           /\ HasRow(project[allocation[a].project])
      ELSE allocation[a].donation = None /\ allocation[a].project = None

RequestReferences(r) ==
    IF HasRow(request[r])
      THEN /\ request[r].allocation \in Allocations
           /\ HasRow(allocation[request[r].allocation])
      ELSE request[r].allocation = None

ExpenseReferences(e) ==
    IF HasRow(expense[e])
      THEN /\ expense[e].allocation \in Allocations
           /\ HasRow(allocation[expense[e].allocation])
      ELSE expense[e].allocation = None

RowReferences ==
    /\ \A a \in Allocations : AllocationReferences(a)
    /\ \A r \in Requests : RequestReferences(r)
    /\ \A e \in Expenses : ExpenseReferences(e)

\* A project edit in flight holds a project that exists, and a real row of it.
EditReferences(x) ==
    edit[x].phase # "idle" =>
        /\ edit[x].project \in Projects
        /\ HasRow(project[edit[x].project])
        /\ edit[x].phase = "loaded" => HasRow(edit[x].row)

\* Physical deletion never leaves a dangling reference: as long as an
\* allocation, request or expense row exists, the rows it points at exist,
\* and only a row that exists points at anything.  (The PROTECT rules behind
\* the delete views, against every service that creates or moves rows.)
ReferencesExist == RowReferences /\ \A x \in Edits : EditReferences(x)

\* The allocations of a donation that are not annulled never add up to more
\* than the donation, whatever is created, resized, moved between donations
\* or annulled, and however the amount of the donation itself is edited.
DonationNotOverAllocated ==
    \A d \in Donations : HasRow(donation[d]) => Assigned(d) <= donation[d].amount

\* The registered expenses of an allocation never add up to more than the
\* allocation, whichever of the legacy, fulfilment and correction paths
\* registered them and however the allocation was resized in between.
AllocationNotOverExecuted ==
    \A a \in Allocations : HasRow(allocation[a]) => Executed(a) <= allocation[a].amount

\* Money in use comes from a RECEIVED donation: as long as an allocation is
\* not annulled its donation is received, so it was neither annulled nor
\* deleted under it.
FundedByReceivedDonation ==
    \A a \in Allocations :
        allocation[a].status \in {"active", "finished"} =>
            donation[allocation[a].donation].status = "received"

\* A finished allocation has no open request, an annulled one no expense that
\* executes: what was checked when it became terminal cannot come back.
TerminalAllocationIsSettled ==
    \A a \in Allocations :
        /\ allocation[a].status = "finished" => OpenRequests(a) = {}
        /\ allocation[a].status = "annulled" => ExecutingExpenses(a) = {}

\* A request is FULFILLED exactly when it has an expense; the expense exists,
\* belongs to that request only and lies in the allocation that was reserved,
\* although expenses can be corrected, moved and deleted on their own.
FulfilmentIsOneToOne ==
    \A r \in Requests :
        /\ (request[r].status = "fulfilled") <=> (request[r].expense # None)
        /\ request[r].expense # None =>
               /\ HasRow(expense[request[r].expense])
               /\ expense[request[r].expense].allocation = request[r].allocation
               /\ \A q \in Requests : request[q].expense = request[r].expense => q = r

\* The append-only event trail tells the same story as the rows: the requests
\* whose trail opened a reservation and neither consumed nor released it are
\* the ones that reserve money now, and a fulfilled request carries the event
\* LINKED_EXPENSE_ANNULLED exactly when its expense is annulled.
TrailMatchesRows ==
    \A r \in Requests :
        /\ (request[r].status = "approved_reserved") <=>
               trail[r] \cap {"RESERVATION_CREATED", "RESERVATION_CONSUMED",
                              "RESERVATION_RELEASED"} = {"RESERVATION_CREATED"}
        /\ ("LINKED_EXPENSE_ANNULLED" \in trail[r]) <=>
               (/\ request[r].expense # None
                /\ expense[request[r].expense].status = "annulled")

-------------------------------------------------------------------------------
(* What a step may never do.                                               *)

\* Executed plus reserved money can outgrow an allocation in one way only:
\* update_fund_allocation making the allocation smaller.  Approvals, legacy
\* expenses and corrections never take money another request has reserved.
ReservationsStayCovered ==
    [][\A a \in Allocations :
           /\ Unreserved(a) >= 0
           /\ allocation'[a].amount >= allocation[a].amount
           => Unreserved(a)' >= 0]_vars

\* Terminal means terminal: an annulled donation and a finished or annulled
\* allocation can only be deleted, and a decided, withdrawn, fulfilled or
\* annulled request keeps every field, the reserved amount kept as history
\* included.  (For projects see ClosedIsIrreversible.)
TerminalIsForever ==
    [][/\ \A d \in Donations : donation[d].status = "annulled" =>
              donation'[d] = donation[d] \/ donation'[d].status = "deleted"
       /\ \A a \in Allocations : allocation[a].status \in {"finished", "annulled"} =>
              allocation'[a] = allocation[a] \/ allocation'[a].status = "deleted"
       /\ \A r \in Requests : request[r].status \in TerminalRequestStatuses =>
              request'[r] = request[r]]_vars

\* No publication, no active allocation and no open request under any allocation.
Quiet(p) ==
    /\ ~project[p].public
    /\ \A a \in Allocations : allocation[a].project = p =>
           allocation[a].status # "active" /\ OpenRequests(a) = {}

\* Finishing a project leaves it quiet, and a quiet closed project stays quiet for as long as
\* it is closed, although allocations and requests can be moved from project to project and
\* an edit saves a row loaded earlier.  (An edit can also close again, unquiet, a project
\* that another edit had reopened: see ClosedIsIrreversible.)
ClosedProjectIsQuiet ==
    [][\A p \in Projects : Closed(p)' /\ (Closed(p) => Quiet(p)) =>
           Quiet(p)' \/ (~Closed(p) /\ edit' # edit)]_vars

\* A project that was terminated stays so: "Terminar es terminal e
\* irreversible: fija `status=CLOSED`, `is_public=False`"
\* (docs/DOMAIN_MODEL.md:89).
ClosedIsIrreversible ==
    [][\A p \in Projects : Closed(p) => project'[p] = project[p]]_vars

\* Annulled expenses are kept: "Los gastos validados o anulados no se pueden
\* eliminar." (services.py:655).
AnnulledExpensesAreKept ==
    [][\A e \in Expenses : expense[e].status = "annulled" => expense'[e].status = "annulled"]_vars

\* An approved request can be annulled and releases its whole reservation:
\* "Aprobada: libera la reserva completa" (docs/FLOWS.md:386), in every state
\* the ledger can reach.
ApprovedRequestsCanBeAnnulled ==
    \A r \in Requests : request[r].status = "approved_reserved" =>
        Consolidates(request[r].allocation, Unreserved(request[r].allocation) + Held(r), Held(r))

==============================================================================
