----------------------------- MODULE LedgerFigures -----------------------------
(***************************************************************************)
(* The amounts the panel and the public portal show.  The list of          *)
(* donations, the page of a project, the dashboard and the portal each     *)
(* aggregate the tables with filters of their own (selectors.py and        *)
(* services.py of operations, selectors.py of public_portal), written      *)
(* apart from each other and from the balances the services decide with.   *)
(***************************************************************************)
EXTENDS Ledger

ASSUME FiguresAssumption == IsFiniteSet(Donations)

DonationAmounts == [d \in Donations |-> donation[d].amount]

-------------------------------------------------------------------------------
(* Donations and allocations.                                              *)

\* with_donation_list_metrics: annotated_available_balance
DonationBalance(d) == Clamp(donation[d].amount - Assigned(d))

DonationBalances == [d \in Donations |-> DonationBalance(d)]

\* with_allocation_list_metrics: the reservations are a subquery of their own, so that
\* joining them does not multiply the expenses.
AllocationBalances ==
    [a \in Allocations |-> Clamp(allocation[a].amount - Executed(a) - Reserved(a))]

-------------------------------------------------------------------------------
(* Projects.                                                               *)

\* operating_allocations: not annulled
ProjectAllocations(p) ==
    {a \in Allocations : /\ allocation[a].project = p
                         /\ allocation[a].status \in {"active", "finished"}}

\* Mutant of ProjectExpenses: what was spent from finished allocations is left out.
ProjectExpensesOfActive(p) ==
    {e \in Expenses : /\ expense[e].status = "registered"
                      /\ allocation[expense[e].allocation].project = p
                      /\ allocation[expense[e].allocation].status = "active"}

\* _project_executed_amount_subquery: expenses of annulled allocations are left out.
ProjectExpenses(p) ==
    {e \in Expenses : /\ expense[e].status = "registered"
                      /\ allocation[expense[e].allocation].project = p
                      /\ allocation[expense[e].allocation].status # "annulled"}

\* _project_reserved_amount_subquery: whatever the status of the allocation
ProjectReservations(p) ==
    {r \in Requests : /\ request[r].status = "approved_reserved"
                      /\ allocation[request[r].allocation].project = p}

Funded(p)   == Total(ProjectAllocations(p), AllocationAmounts)
Spent(p)    == Total(ProjectExpenses(p), ExpenseAmounts)
SetAside(p) == Total(ProjectReservations(p), ReservedAmounts)

\* with_project_financial_metrics: annotated_available_amount
ProjectBalance(p) == Clamp(Funded(p) - Spent(p) - SetAside(p))

-------------------------------------------------------------------------------
(* The dashboard.                                                          *)

ReceivedDonations == {d \in Donations : donation[d].status = "received"}

\* Whatever their project and donation, not annulled.
AllAllocations == {a \in Allocations : allocation[a].status \in {"active", "finished"}}

\* Not annulled, whatever the status of the allocation.
AllExpenses == {e \in Expenses : expense[e].status = "registered"}

TotalReceived == Total(ReceivedDonations, DonationAmounts)
TotalAssigned == Total(AllAllocations, AllocationAmounts)
TotalSpent    == Total(AllExpenses, ExpenseAmounts)

\* "Fondos sin asignar"
Unallocated == Clamp(TotalReceived - TotalAssigned)

\* dashboard_ratio_percentage: tenths of a percent, rounded half up; nothing is shown
\* of a zero denominator.
Tenths(part, whole) == (2000 * part + whole) \div (2 * whole)

\* _dashboard_visual_percentage: the bar ends at 100 %.
Bar(part, whole) ==
    IF whole = 0 THEN 0 ELSE IF Tenths(part, whole) > 1000 THEN 1000 ELSE Tenths(part, whole)

\* "Asignación de fondos", "Ejecución financiera", and the execution of one project.
AssignmentBar    == Bar(TotalAssigned, TotalReceived)
ExecutionBar     == Bar(TotalSpent, TotalAssigned)
ProjectBar(p)    == Bar(Spent(p), Funded(p))

-------------------------------------------------------------------------------
(* Expense requests.                                                       *)

\* get_expense_request_financial_display: what the page of a request calls released.  The
\* amount in a RESERVATION_RELEASED event is the reserved one.
Released(r) ==
    CASE request[r].status = "fulfilled" ->
             Clamp(request[r].reserved - expense[request[r].expense].amount)
      [] request[r].status = "annulled" ->
             IF "RESERVATION_RELEASED" \in trail[r] THEN request[r].reserved ELSE 0
      [] OTHER -> 0

-------------------------------------------------------------------------------
(* The public portal.                                                      *)

\* get_public_projects
Shown(p) == project[p].public /\ project[p].status = "active"

\* _get_public_allocations
PublicAllocations ==
    {a \in Allocations : /\ HasRow(allocation[a])
                         /\ Shown(allocation[a].project)
                         /\ allocation[a].status # "annulled"
                         /\ donation[allocation[a].donation].status # "annulled"}

\* _get_public_expenses
PublicExpenses ==
    {e \in Expenses : expense[e].status = "registered" /\ expense[e].allocation \in PublicAllocations}

\* get_public_transparency_summary: each donation once, however many allocations it has.
LinkedDonations ==
    {d \in ReceivedDonations : \E a \in PublicAllocations : allocation[a].donation = d}

PublicReceived == Total(LinkedDonations, DonationAmounts)
PublicAssigned == Total(PublicAllocations, AllocationAmounts)
PublicSpent    == Total(PublicExpenses, ExpenseAmounts)

\* _get_public_project_financial_summary
PublicAllocationsOf(p) == {a \in PublicAllocations : allocation[a].project = p}
PublicExpensesOf(p) ==
    {e \in PublicExpenses : expense[e].allocation \in PublicAllocationsOf(p)}

-------------------------------------------------------------------------------
(* Properties.                                                             *)

\* A share is never above the whole: where no share is shown there is nothing to show, and
\* no bar is cut at 100 %.
ShareFits(part, whole, bar) == part <= whole /\ (whole # 0 => bar = Tenths(part, whole))

\* The dashboard counts the allocations and the expenses the projects count.
RowsOfProjects ==
    /\ AllAllocations = UNION {ProjectAllocations(p) : p \in Projects}
    /\ AllExpenses = UNION {ProjectExpenses(p) : p \in Projects}

\* What the dashboard says is not assigned is what the list of donations says, row by row.
UnallocatedIsThere == Unallocated = Total(ReceivedDonations, DonationBalances)

\* Nothing is reserved under an annulled allocation of p and none is over-committed.
InBalance(p) ==
    /\ \A a \in ProjectAllocations(p) : Unreserved(a) >= 0
    /\ \A r \in ProjectReservations(p) : allocation[request[r].allocation].status # "annulled"

\* What a project has left is what its allocations have left.
ProjectsAddUp ==
    \A p \in Projects :
        InBalance(p) => ProjectBalance(p) = Total(ProjectAllocations(p), AllocationBalances)

SharesFit ==
    /\ ShareFits(TotalAssigned, TotalReceived, AssignmentBar)
    /\ ShareFits(TotalSpent, TotalAssigned, ExecutionBar)
    /\ \A p \in Projects : ShareFits(Spent(p), Funded(p), ProjectBar(p))

\* The portal shows of a project what the panel shows, and not more assigned than was
\* received or more spent than assigned.
PortalAgrees ==
    /\ \A p \in Projects :
           Shown(p) => /\ PublicAllocationsOf(p) = ProjectAllocations(p)
                       /\ PublicExpensesOf(p) = ProjectExpenses(p)
    /\ PublicAssigned <= PublicReceived
    /\ PublicSpent <= PublicAssigned

\* An annulled request released everything it had reserved.
ReleasesAreWhole ==
    \A r \in Requests : request[r].status = "annulled" => Released(r) = request[r].reserved

\* The figures of the lists, the project pages, the dashboard and the portal agree in every
\* state the services can reach, although each has filters of its own: leaving out the
\* expenses of annulled allocations or the allocations of annulled donations leaves nothing
\* out, no clamp hides a negative amount, no share exceeds 100 %.
FiguresAgree ==
    /\ RowsOfProjects
    /\ UnallocatedIsThere
    /\ ProjectsAddUp
    /\ SharesFit
    /\ PortalAgrees
    /\ ReleasesAreWhole

==============================================================================
