----------------------------- MODULE LedgerPages -----------------------------
(***************************************************************************)
(* The detail pages of donations, allocations, projects and expenses: the  *)
(* buttons a role is offered there, as the views and templates decide them,*)
(* and the amounts and targets their forms let through, beside the steps of*)
(* Ledger these lead to.  Deletions are left out: their buttons are always *)
(* there and PROTECT answers.                                              *)
(***************************************************************************)
EXTENDS Ledger, PanelRoles

-----------------------------------------------------------------------------
(* Donations                                                               *)

AvailableOf(d) == donation[d].amount - Assigned(d)

CanReceive(role, d) == Holds(role, "change", "donation") /\ donation[d].status = "registered"

CanAllocate(role, d) ==
    /\ Holds(role, "add", "fundallocation")
    /\ donation[d].status = "received"
    /\ AvailableOf(d) > 0

\* In the menu when CanAllocate takes its place, and a button of its own otherwise.
CanEditDonation(role, d) ==
    Holds(role, "change", "donation") /\ donation[d].status # "annulled"

CanAnnulDonation(role, d) ==
    /\ Holds(role, "change", "donation")
    /\ donation[d].status \in {"registered", "received"}
    /\ AllocationsOf(d) = {}

-----------------------------------------------------------------------------
(* Allocations                                                             *)

\* expense_request_allocation_choices
OffersBalance(a) ==
    /\ allocation[a].status = "active"
    /\ project[allocation[a].project].status = "active"
    /\ donation[allocation[a].donation].status = "received"
    /\ Available(a) > 0

CanEditAllocation(role, a) ==
    Holds(role, "change", "fundallocation") /\ allocation[a].status \notin {"finished", "annulled"}

CanFinishAllocation(role, a) ==
    /\ Holds(role, "change", "fundallocation")
    /\ allocation[a].status = "active"
    /\ OpenRequests(a) = {}

CanAnnulAllocation(role, a) ==
    /\ Holds(role, "change", "fundallocation")
    /\ allocation[a].status = "active"
    /\ ExecutingExpenses(a) = {}

CanRequestFrom(role, a) == Holds(role, "add", "expenserequest") /\ OffersBalance(a)

-----------------------------------------------------------------------------
(* Projects                                                                *)

HasOpenFinancialWork(p) ==
    \E a \in Allocations :
        /\ allocation[a].project = p
        /\ allocation[a].status = "active" \/ OpenRequests(a) # {}

CanEditProject(role, p) == Holds(role, "change", "project") /\ ~Closed(p)

\* Mutant of CanFinishProject: the page looks at active allocations only.
CanFinishWithRequests(role, p) ==
    /\ Holds(role, "change", "project")
    /\ project[p].status = "active"
    /\ \A a \in Allocations : allocation[a].project = p => allocation[a].status # "active"

CanFinishProject(role, p) ==
    /\ Holds(role, "change", "project")
    /\ project[p].status = "active"
    /\ ~HasOpenFinancialWork(p)

CanPublish(role, p) ==
    /\ Holds(role, "manage", "project_publication")
    /\ project[p].status = "active"
    /\ ~project[p].public

CanUnpublish(role, p) ==
    /\ Holds(role, "manage", "project_publication")
    /\ project[p].status = "active"
    /\ project[p].public

\* "Solicitar gasto": the project has an allocation to choose.
CanRequestFor(role, p) ==
    /\ Holds(role, "add", "expenserequest")
    /\ project[p].status = "active"
    /\ \E a \in Allocations : allocation[a].project = p /\ OffersBalance(a)

-----------------------------------------------------------------------------
(* Expenses                                                                *)

CanEditExpense(role, e) == Holds(role, "change", "expense") /\ expense[e].status # "annulled"

CanAnnulExpense(role, e) == Holds(role, "change", "expense") /\ expense[e].status = "registered"

CanDeleteExpense(role, e) == Holds(role, "delete", "expense") /\ expense[e].status # "annulled"

-----------------------------------------------------------------------------
(* Forms: what they let through to the services                            *)

\* DonationForm.clean
DonationFormAccepts(d, m) == m >= Assigned(d)

\* FundAllocationForm, of allocation a, or None for a new one; the form of an allocation
\* offers the donation and the project it has.
AllocationFormAccepts(a, d, p, m) ==
    LET own == IF a # None /\ allocation[a].donation = d THEN allocation[a].amount ELSE 0
    IN  /\ donation[d].status = "received"
        /\ project[p].status = "active" \/ (a # None /\ allocation[a].project = p)
        /\ m <= Clamp(AvailableOf(d)) + own

\* ExpenseForm
ExpenseFormAccepts(e, a, m) ==
    LET own == IF expense[e].allocation = a THEN expense[e].amount ELSE 0
    IN  /\ EligibleForReassignment(a) \/ expense[e].allocation = a
        /\ m <= Available(a) + own

\* ExpenseRequestForm: the form of request r keeps the allocation it has, unless that has
\* become terminal.
RequestFormOffers(r, a) ==
    EligibleForReassignment(a) /\ (Available(a) > 0 \/ request[r].allocation = a)

\* ExpenseRequestFulfillmentForm
FulfillmentFormAccepts(r, m) == m <= request[r].reserved

-----------------------------------------------------------------------------
(* The offers and the ledger                                               *)

DonationOffersWork(role, d) ==
    /\ CanReceive(role, d) => MayReceiveDonation(d)
    /\ CanAllocate(role, d) => \A p \in Projects : project[p].status = "active" => CanFund(d, p, 1, None)
    /\ CanEditDonation(role, d) => MayUpdateDonation(d, donation[d].amount)
    /\ CanAnnulDonation(role, d) <=> Holds(role, "change", "donation") /\ MayAnnulDonation(d)

AllocationOffersWork(role, a) ==
    LET row == allocation[a] IN
    /\ CanEditAllocation(role, a) => MayUpdateAllocation(a, row.donation, row.project, row.amount)
    /\ CanFinishAllocation(role, a) <=>
           Holds(role, "change", "fundallocation") /\ MayFinishAllocation(a)
    /\ CanAnnulAllocation(role, a) <=>
           Holds(role, "change", "fundallocation") /\ MayAnnulAllocation(a)
    /\ CanRequestFrom(role, a) => CanRequestFor(role, row.project) /\ AcceptsRequests(a)

ProjectOffersWork(role, p) ==
    /\ CanEditProject(role, p) => project[p].status = "active"
    /\ CanFinishProject(role, p) <=> Holds(role, "change", "project") /\ MayFinishProject(p)
    /\ CanPublish(role, p) => MayPublishProject(p)
    /\ CanUnpublish(role, p) => MayUnpublishProject(p)

\* The form of an over-committed allocation's expense accepts only what reduces it.
ExpenseOffersWork(role, e) ==
    LET row == expense[e] IN
    /\ CanEditExpense(role, e) /\ Unreserved(row.allocation) >= 0 =>
           MayUpdateExpense(e, row.allocation, row.amount)
    /\ CanAnnulExpense(role, e) => MayAnnulExpense(e)
    /\ CanDeleteExpense(role, e) => MayDeleteExpense(e)

DonationFormFits(d, m) ==
    CanEditDonation("admin", d) => (DonationFormAccepts(d, m) <=> MayUpdateDonation(d, m))

\* What the form leaves to the service is what was executed.
AllocationFormFits(d, p, m) ==
    \A a \in Allocations \cup {None} :
        (a # None => HasRow(allocation[a]) /\ CanEditAllocation("admin", a)) =>
            (AllocationFormAccepts(a, d, p, m) <=> CanFund(d, p, m, a))

\* What it leaves to the service is that the expense of a request stays where it is, and
\* that an over-committed allocation takes nothing more.
ExpenseFormFits(e, a, m) ==
    LET stays == expense[e].allocation = a \/ ~Linked(e)
        ok    == MayUpdateExpense(e, a, m)
    IN  expense[e].status = "registered" =>
            IF Unreserved(a) >= 0 THEN ok <=> ExpenseFormAccepts(e, a, m) /\ stays
                                  ELSE ok => ExpenseFormAccepts(e, a, m)

\* The form of a request may refuse more than the service: allocations without a balance.
RequestFormFits(r, a) ==
    request[r].status = "pending_decision" =>
        /\ RequestFormOffers(r, a) => MayUpdateRequest(r, a)
        /\ request[r].allocation = a /\ AcceptsRequests(a) => RequestFormOffers(r, a)

\* As long as its allocation works and is not over-committed, a reservation can be spent
\* down to any amount the form accepts.
FulfillmentFormFits(r, e, m) ==
    LET a == request[r].allocation IN
    /\ request[r].status = "approved_reserved"
    /\ FulfillmentFormAccepts(r, m)
    /\ AcceptsRequests(a) /\ Unreserved(a) >= 0
    /\ expense[e].status = "absent"
    => MayFulfillRequest(r, e, m)

FormsFit ==
    /\ \A m \in Positive :
          /\ \A d \in Donations : HasRow(donation[d]) => DonationFormFits(d, m)
          /\ \A d \in Donations, p \in Projects :
                HasRow(donation[d]) /\ HasRow(project[p]) => AllocationFormFits(d, p, m)
          /\ \A e \in Expenses, a \in Allocations : HasRow(allocation[a]) => ExpenseFormFits(e, a, m)
          /\ \A r \in Requests, e \in Expenses : FulfillmentFormFits(r, e, m)
    /\ \A r \in Requests, a \in Allocations : HasRow(allocation[a]) => RequestFormFits(r, a)

\* In every state the ledger can reach, whatever a role is offered on a detail page can be
\* done, an edit that changes nothing included, and where a donation, an allocation or a
\* project can be annulled or finished the page of whoever may do it offers it; and the forms
\* let through what the services accept, and nothing they would refuse but for what is said
\* above: the flags of the views, the clean methods of the forms and the guards of the
\* services, written apart, agree.
OffersWork ==
    /\ FormsFit
    /\ \A role \in Roles :
        /\ \A d \in Donations : HasRow(donation[d]) => DonationOffersWork(role, d)
        /\ \A a \in Allocations : HasRow(allocation[a]) => AllocationOffersWork(role, a)
        /\ \A p \in Projects : HasRow(project[p]) => ProjectOffersWork(role, p)
        /\ \A e \in Expenses : HasRow(expense[e]) => ExpenseOffersWork(role, e)
=============================================================================
