--------------------------- MODULE LedgerLocksProofs ---------------------------
(***************************************************************************)
(* Theorems about LedgerLocks, for any tables, any number of workers and   *)
(* calls: the locks a service takes keep its checks true until it commits. *)
(*                                                                         *)
(* Secured names the rows whose locks matter for each call, which are      *)
(* fewer than the services lock.  Any committing call that holds what is   *)
(* Secured for it leaves the rows another worker holds, and the balances   *)
(* behind them, no worse than they were (Frame); and a check that passed   *)
(* on secured rows stays true across such a commit.                        *)
(*                                                                         *)
(* And transactions that lock in order never wait for each other in a      *)
(* circle: the row each waits for comes After all the rows it holds.       *)
(***************************************************************************)
EXTENDS LedgerLocks, LedgerProofs

\* The rows that keep the checks of a call true while it holds them.
Secured(c) ==
    CASE c.name \in {"update_donation", "annul_donation"} -> {<<"donation", c.d>>}
      [] c.name = "create_allocation" -> {<<"donation", c.d>>, <<"project", c.p>>}
      [] c.name = "update_allocation" ->
             {<<"allocation", c.a>>, <<"donation", c.d>>, <<"project", c.p>>}
      [] c.name \in {"finish_allocation", "annul_allocation", "create_request",
                     "create_expense_legacy"} -> {<<"allocation", c.a>>}
      [] c.name = "finish_project" -> {<<"project", c.p>>}
      [] c.name = "update_request" -> {<<"request", c.r>>, <<"allocation", c.a>>}
      [] c.name \in {"approve_request", "fulfill_request"} ->
             {<<"request", c.r>>, <<"allocation", request[c.r].allocation>>}
      [] c.name = "annul_request" ->
             {<<"request", c.r>>}
                 \cup (IF Held(c.r) > 0 THEN {<<"allocation", request[c.r].allocation>>} ELSE {})
      [] c.name = "withdraw_request" -> {<<"request", c.r>>}
      [] c.name = "update_expense" -> {<<"expense", c.e>>, <<"allocation", c.a>>}
      [] c.name = "annul_expense" -> {<<"expense", c.e>>}

-------------------------------------------------------------------------------
(* What a step leaves of the rows in held, and of the ids in fresh that    *)
(* nobody has inserted yet.                                                *)

KeepsDonation(d) ==
    /\ donation'[d] = donation[d]
    /\ AllocationsOf(d)' \subseteq AllocationsOf(d)
    /\ \A a \in AllocationsOf(d)' : allocation'[a].amount = allocation[a].amount

\* No allocation comes to the project, none of it becomes active.
KeepsProject(p) ==
    /\ project'[p] = project[p]
    /\ \A a \in Allocations : allocation'[a].project = p =>
           /\ allocation[a].project = p
           /\ allocation'[a].status = "active" => allocation[a].status = "active"

\* Requests and expenses leave the allocation, none comes; what an active one
\* stands on stays.
KeepsAllocation(a) ==
    /\ allocation'[a] = allocation[a]
    /\ OpenRequests(a)' \subseteq OpenRequests(a)
    /\ ReservingRequests(a)' \subseteq ReservingRequests(a)
    /\ \A r \in ReservingRequests(a)' : request'[r].reserved = request[r].reserved
    /\ ExecutingExpenses(a)' \subseteq ExecutingExpenses(a)
    /\ \A e \in ExecutingExpenses(a)' : expense'[e].amount = expense[e].amount
    /\ allocation[a].status = "active" =>
           /\ donation'[allocation[a].donation].status = donation[allocation[a].donation].status
           /\ project'[allocation[a].project].status = project[allocation[a].project].status

KeepsExpense(e) ==
    /\ expense'[e] = expense[e]
    /\ Linked(e)' => Linked(e)

Keeps(held) ==
    /\ \A d \in Donations : <<"donation", d>> \in held => KeepsDonation(d)
    /\ \A p \in Projects : <<"project", p>> \in held => KeepsProject(p)
    /\ \A a \in Allocations :
           <<"allocation", a>> \in held /\ allocation[a].status # "absent" => KeepsAllocation(a)
    /\ \A r \in Requests :
           <<"request", r>> \in held /\ request[r].status # "absent" => request'[r] = request[r]
    /\ \A e \in Expenses :
           <<"expense", e>> \in held /\ expense[e].status # "absent" => KeepsExpense(e)

KeepsFree(fresh) ==
    /\ \A a \in Allocations :
           <<"allocation", a>> \in fresh /\ allocation[a].status = "absent" =>
               allocation'[a] = allocation[a]
    /\ \A r \in Requests :
           <<"request", r>> \in fresh /\ request[r].status = "absent" => request'[r] = request[r]
    /\ \A e \in Expenses :
           <<"expense", e>> \in fresh /\ expense[e].status = "absent" => expense'[e] = expense[e]

\* Nobody works on an allocation that is not active.
KeepsTerminal ==
    \A a \in Allocations :
        allocation[a].status # "active" => OpenRequests(a)' \subseteq OpenRequests(a)

Frame(held, fresh) == Keeps(held) /\ KeepsFree(fresh) /\ KeepsTerminal

-------------------------------------------------------------------------------
(* The sixteen transactions, by the tables they write.                     *)

\* Writes to other tables than requests and expenses leave what is under an allocation.
LEMMA NothingUnder ==
    ASSUME UNCHANGED <<request, expense>>, NEW a
    PROVE  /\ OpenRequests(a)' = OpenRequests(a)
           /\ ReservingRequests(a)' = ReservingRequests(a)
           /\ ExecutingExpenses(a)' = ExecutingExpenses(a)
           /\ \A e : Linked(e)' => Linked(e)
  BY DEF OpenRequests, ReservingRequests, ExecutingExpenses, Linked

\* update_donation and annul_donation.
LEMMA DonationFrame ==
    ASSUME TypeOK, NEW held, NEW fresh, NEW d \in Donations, <<"donation", d>> \notin held,
           \/ \E m \in Positive : UpdateDonation(d, m)
           \/ AnnulDonation(d)
    PROVE  Frame(held, fresh)
  <1>1. UNCHANGED <<project, allocation, request, expense>>
    BY DEF UpdateDonation, AnnulDonation
  <1>2. \A x \in Donations : x # d => donation'[x] = donation[x]
    BY DEF UpdateDonation, AnnulDonation, TypeOK
  <1>3. ASSUME NEW a \in Allocations, allocation[a].status = "active"
        PROVE  donation'[allocation[a].donation].status = donation[allocation[a].donation].status
    <2>1. CASE AnnulDonation(d)
      <3>1. allocation[a].donation # d
        BY <1>3, <2>1 DEF AnnulDonation, MayAnnulDonation, AllocationsOf
      <3> QED BY <2>1, <3>1 DEF AnnulDonation, TypeOK
    <2>2. ASSUME NEW m \in Positive, UpdateDonation(d, m)
          PROVE  donation'[allocation[a].donation].status
                     = donation[allocation[a].donation].status
      BY <2>2 DEF UpdateDonation, TypeOK, DonationRow
    <2> QED BY <2>1, <2>2
  <1>4. \A x : AllocationsOf(x)' = AllocationsOf(x)
    BY <1>1 DEF AllocationsOf
  <1>5. Keeps(held)
    BY <1>1, <1>2, <1>3, <1>4, NothingUnder
       DEF Keeps, KeepsDonation, KeepsProject, KeepsAllocation, KeepsExpense
  <1> QED BY <1>1, <1>5, NothingUnder DEF Frame, KeepsFree, KeepsTerminal

\* finish_project.
LEMMA ProjectFrame ==
    ASSUME TypeOK, NEW held, NEW fresh, NEW p \in Projects, <<"project", p>> \notin held,
           FinishProject(p)
    PROVE  Frame(held, fresh)
  <1>1. UNCHANGED <<donation, allocation, request, expense>>
    BY DEF FinishProject
  <1>2. \A x \in Projects : x # p => project'[x] = project[x]
    BY DEF FinishProject, TypeOK
  <1>3. ASSUME NEW a \in Allocations, allocation[a].status = "active"
        PROVE  project'[allocation[a].project].status = project[allocation[a].project].status
    <2>1. allocation[a].project # p
      BY <1>3 DEF FinishProject, MayFinishProject
    <2> QED BY <2>1 DEF FinishProject, TypeOK
  <1>4. \A x : AllocationsOf(x)' = AllocationsOf(x)
    BY <1>1 DEF AllocationsOf
  <1>5. Keeps(held)
    BY <1>1, <1>2, <1>3, <1>4, NothingUnder
       DEF Keeps, KeepsDonation, KeepsProject, KeepsAllocation, KeepsExpense
  <1> QED BY <1>1, <1>5, NothingUnder DEF Frame, KeepsFree, KeepsTerminal

\* An allocation row is written whose lock is held, or which nobody has yet.
LEMMA AllocationFrame ==
    ASSUME TypeOK, NEW held, NEW fresh, NEW a \in Allocations,
           \/ /\ <<"allocation", a>> \notin held
              /\ allocation[a].status # "absent"
           \/ /\ <<"allocation", a>> \notin fresh
              /\ allocation[a].status = "absent",
           UNCHANGED <<donation, project, request, expense>>,
           \A b \in Allocations : b # a => allocation'[b] = allocation[b],
           \A d \in Donations :
               /\ <<"donation", d>> \in held
               /\ allocation'[a].donation = d
               /\ allocation'[a].status \in {"active", "finished"}
               => /\ allocation[a].donation = d
                  /\ allocation[a].status \in {"active", "finished"}
                  /\ allocation'[a].amount = allocation[a].amount,
           \A p \in Projects :
               /\ <<"project", p>> \in held
               /\ allocation'[a].project = p
               => /\ allocation[a].project = p
                  /\ allocation'[a].status = "active" => allocation[a].status = "active"
    PROVE  Frame(held, fresh)
  <1>1. ASSUME NEW d \in Donations, <<"donation", d>> \in held PROVE KeepsDonation(d)
    <2>1. ASSUME NEW b \in AllocationsOf(d)'
          PROVE  b \in AllocationsOf(d) /\ allocation'[b].amount = allocation[b].amount
      <3>1. CASE b = a
        BY <1>1, <2>1, <3>1 DEF AllocationsOf
      <3>2. CASE b # a
        BY <2>1, <3>2 DEF AllocationsOf
      <3> QED BY <3>1, <3>2
    <2> QED BY <2>1 DEF KeepsDonation
  <1>2. ASSUME NEW p \in Projects, <<"project", p>> \in held PROVE KeepsProject(p)
    BY <1>2 DEF KeepsProject
  <1>3. ASSUME NEW b \in Allocations, <<"allocation", b>> \in held,
               allocation[b].status # "absent"
        PROVE  KeepsAllocation(b)
    <2>1. allocation'[b] = allocation[b]
      BY <1>3
    <2> QED BY <2>1, NothingUnder DEF KeepsAllocation, ReservingRequests, ExecutingExpenses
  <1>4. ASSUME NEW e \in Expenses PROVE KeepsExpense(e)
    BY NothingUnder DEF KeepsExpense
  <1>5. Keeps(held)
    BY <1>1, <1>2, <1>3, <1>4 DEF Keeps
  <1> QED BY <1>5, NothingUnder DEF Frame, KeepsFree, KeepsTerminal

\* create_fund_allocation.
LEMMA CreationFrame ==
    ASSUME TypeOK, NEW held, NEW fresh, NEW a \in Allocations, NEW d \in Donations,
           NEW p \in Projects, NEW m \in Positive, CreateAllocation(a, d, p, m),
           <<"donation", d>> \notin held, <<"project", p>> \notin held,
           <<"allocation", a>> \notin fresh
    PROVE  Frame(held, fresh)
  <1>1. /\ UNCHANGED <<donation, project, request, expense>>
        /\ \A b \in Allocations : b # a => allocation'[b] = allocation[b]
        /\ allocation'[a] = [status |-> "active", amount |-> m, donation |-> d, project |-> p]
        /\ allocation[a].status = "absent"
    BY DEF CreateAllocation, MayCreateAllocation, TypeOK
  <1>2. /\ \A x \in Donations : <<"donation", x>> \in held => x # d
        /\ \A x \in Projects : <<"project", x>> \in held => x # p
    OBVIOUS
  <1> QED BY <1>1, <1>2, AllocationFrame

\* update_fund_allocation.
LEMMA ReplacementFrame ==
    ASSUME TypeOK, NEW held, NEW fresh, NEW a \in Allocations, NEW d \in Donations,
           NEW p \in Projects, NEW m \in Positive, UpdateAllocation(a, d, p, m),
           <<"donation", d>> \notin held, <<"project", p>> \notin held,
           <<"allocation", a>> \notin held
    PROVE  Frame(held, fresh)
  <1>1. /\ UNCHANGED <<donation, project, request, expense>>
        /\ \A b \in Allocations : b # a => allocation'[b] = allocation[b]
        /\ allocation'[a] = [status |-> "active", amount |-> m, donation |-> d, project |-> p]
        /\ allocation[a].status = "active"
    BY DEF UpdateAllocation, MayUpdateAllocation, Editable, TypeOK
  <1>2. /\ \A x \in Donations : <<"donation", x>> \in held => x # d
        /\ \A x \in Projects : <<"project", x>> \in held => x # p
    OBVIOUS
  <1>3. /\ allocation'[a].donation = d
        /\ allocation'[a].project = p
    BY <1>1
  <1>4. allocation[a].status # "absent"
    BY <1>1
  <1> QED BY <1>1, <1>2, <1>3, <1>4, AllocationFrame

\* finish_fund_allocation and annul_fund_allocation.
LEMMA EndOfAllocationFrame ==
    ASSUME TypeOK, NEW held, NEW fresh, NEW a \in Allocations,
           FinishAllocation(a) \/ AnnulAllocation(a), <<"allocation", a>> \notin held
    PROVE  Frame(held, fresh)
  <1>1. /\ UNCHANGED <<donation, project, request, expense>>
        /\ \A b \in Allocations : b # a => allocation'[b] = allocation[b]
        /\ allocation[a].status = "active"
        /\ allocation'[a].status \in {"finished", "annulled"}
        /\ allocation'[a].amount = allocation[a].amount
        /\ allocation'[a].donation = allocation[a].donation
        /\ allocation'[a].project = allocation[a].project
    BY DEF FinishAllocation, AnnulAllocation, MayFinishAllocation, MayAnnulAllocation,
           Editable, TypeOK, AllocationRow
  <1> QED BY <1>1, AllocationFrame

\* A request row is written whose lock is held, or which nobody has yet, and
\* it works on its allocation only when that one is held.
LEMMA RequestFrame ==
    ASSUME TypeOK, NEW held, NEW fresh, NEW r \in Requests,
           \/ /\ <<"request", r>> \notin held
              /\ request[r].status # "absent"
           \/ /\ <<"request", r>> \notin fresh
              /\ request[r].status = "absent",
           UNCHANGED <<donation, project, allocation, expense>>,
           \A q \in Requests : q # r => request'[q] = request[q],
           \A e \in Expenses : request'[r].expense = e => request[r].expense = e,
           \A a \in Allocations :
               /\ request'[r].allocation = a
               /\ request'[r].status \in OpenFinancialStatuses
               => \/ /\ request[r].allocation = a
                     /\ request[r].status \in OpenFinancialStatuses
                     /\ request'[r].status = "approved_reserved" =>
                            /\ request[r].status = "approved_reserved"
                            /\ request'[r].reserved = request[r].reserved
                  \/ /\ <<"allocation", a>> \notin held
                     /\ allocation[a].status = "active"
    PROVE  Frame(held, fresh)
  <1>1. \A d : AllocationsOf(d)' = AllocationsOf(d)
    BY DEF AllocationsOf
  <1>2. ASSUME NEW a \in Allocations,
               <<"allocation", a>> \in held \/ allocation[a].status # "active"
        PROVE  /\ OpenRequests(a)' \subseteq OpenRequests(a)
               /\ ReservingRequests(a)' \subseteq ReservingRequests(a)
               /\ \A q \in ReservingRequests(a)' : request'[q].reserved = request[q].reserved
    <2>1. ASSUME NEW q \in Requests, q # r
          PROVE  request'[q] = request[q]
      BY <2>1
    <2>2. r \in OpenRequests(a)' => r \in OpenRequests(a)
      BY <1>2 DEF OpenRequests
    <2>3. r \in ReservingRequests(a)' =>
              r \in ReservingRequests(a) /\ request'[r].reserved = request[r].reserved
      BY <1>2 DEF ReservingRequests, OpenFinancialStatuses
    <2>4. OpenRequests(a)' \subseteq OpenRequests(a)
      BY <2>1, <2>2 DEF OpenRequests
    <2>5. ReservingRequests(a)' \subseteq ReservingRequests(a)
      BY <2>1, <2>3 DEF ReservingRequests
    <2>6. \A q \in ReservingRequests(a)' : request'[q].reserved = request[q].reserved
      BY <2>1, <2>3 DEF ReservingRequests
    <2> QED BY <2>4, <2>5, <2>6
  <1>3. \A a : ExecutingExpenses(a)' = ExecutingExpenses(a)
    BY DEF ExecutingExpenses
  <1>4. ASSUME NEW e \in Expenses PROVE KeepsExpense(e)
    BY DEF KeepsExpense, Linked
  <1>5. ASSUME NEW a \in Allocations, <<"allocation", a>> \in held PROVE KeepsAllocation(a)
    BY <1>2, <1>3, <1>5 DEF KeepsAllocation
  <1>6. Keeps(held)
    BY <1>1, <1>4, <1>5 DEF Keeps, KeepsDonation, KeepsProject
  <1> QED BY <1>2, <1>6 DEF Frame, KeepsFree, KeepsTerminal

\* create_expense_request.
LEMMA RequestCreationFrame ==
    ASSUME TypeOK, NEW held, NEW fresh, NEW r \in Requests, NEW a \in Allocations,
           NEW m \in Positive, CreateRequest(r, a, m),
           <<"allocation", a>> \notin held, <<"request", r>> \notin fresh
    PROVE  Frame(held, fresh)
  <1>1. /\ UNCHANGED <<donation, project, allocation, expense>>
        /\ \A q \in Requests : q # r => request'[q] = request[q]
        /\ request[r].status = "absent"
        /\ allocation[a].status = "active"
    BY DEF CreateRequest, MayCreateRequest, AcceptsRequests, Editable, TypeOK
  <1>2. request'[r] = [status |-> "pending_decision", requested |-> m, reserved |-> 0,
                       allocation |-> a, expense |-> None]
    BY DEF CreateRequest, TypeOK
  <1>3. /\ request'[r].allocation = a
        /\ request'[r].expense \notin Expenses
    BY <1>2, LedgerAssumption
  <1> QED BY <1>1, <1>3, RequestFrame

\* update_expense_request.
LEMMA RequestEditFrame ==
    ASSUME TypeOK, NEW held, NEW fresh, NEW r \in Requests, NEW a \in Allocations,
           NEW m \in Positive, UpdateRequest(r, a, m),
           <<"allocation", a>> \notin held, <<"request", r>> \notin held
    PROVE  Frame(held, fresh)
  <1>1. /\ UNCHANGED <<donation, project, allocation, expense>>
        /\ \A q \in Requests : q # r => request'[q] = request[q]
        /\ request[r].status # "absent"
        /\ allocation[a].status = "active"
    BY DEF UpdateRequest, MayUpdateRequest, AcceptsRequests, Editable, TypeOK
  <1>2. /\ request'[r].allocation = a
        /\ request'[r].expense = request[r].expense
    BY DEF UpdateRequest, TypeOK, RequestRow
  <1>3. \A b \in Allocations : request'[r].allocation = b =>
            <<"allocation", b>> \notin held /\ allocation[b].status = "active"
    BY <1>1, <1>2
  <1>4. \A b \in Allocations :
            /\ request'[r].allocation = b
            /\ request'[r].status \in OpenFinancialStatuses
            => \/ /\ request[r].allocation = b
                  /\ request[r].status \in OpenFinancialStatuses
                  /\ request'[r].status = "approved_reserved" =>
                         /\ request[r].status = "approved_reserved"
                         /\ request'[r].reserved = request[r].reserved
               \/ /\ <<"allocation", b>> \notin held
                  /\ allocation[b].status = "active"
    BY <1>3
  <1>5. \A e \in Expenses : request'[r].expense = e => request[r].expense = e
    BY <1>2
  <1> QED BY <1>1, <1>4, <1>5, RequestFrame

\* approve_expense_request.
LEMMA ApprovalFrame ==
    ASSUME TypeOK, NEW held, NEW fresh, NEW r \in Requests, ApproveRequest(r),
           <<"request", r>> \notin held, <<"allocation", request[r].allocation>> \notin held
    PROVE  Frame(held, fresh)
  <1>1. /\ UNCHANGED <<donation, project, allocation, expense>>
        /\ \A q \in Requests : q # r => request'[q] = request[q]
        /\ request[r].status # "absent"
        /\ allocation[request[r].allocation].status = "active"
    BY DEF ApproveRequest, MayApproveRequest, AcceptsRequests, Editable, TypeOK
  <1>2. /\ request'[r].allocation = request[r].allocation
        /\ request'[r].expense = request[r].expense
    BY DEF ApproveRequest, TypeOK, RequestRow
  <1>3. \A b \in Allocations : request'[r].allocation = b =>
            <<"allocation", b>> \notin held /\ allocation[b].status = "active"
    BY <1>1, <1>2
  <1> QED BY <1>1, <1>2, <1>3, RequestFrame

\* annul_expense_request and withdraw_expense_request.
LEMMA EndOfRequestFrame ==
    ASSUME TypeOK, NEW held, NEW fresh, NEW r \in Requests,
           AnnulRequest(r) \/ WithdrawRequest(r), <<"request", r>> \notin held
    PROVE  Frame(held, fresh)
  <1>1. /\ UNCHANGED <<donation, project, allocation, expense>>
        /\ \A q \in Requests : q # r => request'[q] = request[q]
        /\ request[r].status # "absent"
    BY DEF AnnulRequest, MayAnnulRequest, WithdrawRequest, MayWithdrawRequest,
           OpenFinancialStatuses, TypeOK
  <1>2. /\ request'[r].status \notin OpenFinancialStatuses
        /\ request'[r].expense = request[r].expense
    BY DEF AnnulRequest, WithdrawRequest, OpenFinancialStatuses, TypeOK, RequestRow
  <1> QED BY <1>1, <1>2, RequestFrame

\* An expense row is written whose lock is held, or which nobody has yet, and
\* it takes money of an allocation only when that one is held.  A request may
\* end with it.
LEMMA ExpenseFrame ==
    ASSUME TypeOK, NEW held, NEW fresh, NEW e \in Expenses,
           \/ /\ <<"expense", e>> \notin held
              /\ expense[e].status # "absent"
           \/ /\ <<"expense", e>> \notin fresh
              /\ expense[e].status = "absent",
           UNCHANGED <<donation, project, allocation>>,
           \A f \in Expenses : f # e => expense'[f] = expense[f],
           \A a \in Allocations :
               /\ expense'[e].allocation = a
               /\ expense'[e].status = "registered"
               => <<"allocation", a>> \notin held,
           \/ UNCHANGED request
           \/ \E r \in Requests :
                  /\ \A q \in Requests : q # r => request'[q] = request[q]
                  /\ <<"request", r>> \notin held
                  /\ request[r].status # "absent"
                  /\ request'[r].status \notin OpenFinancialStatuses
                  /\ request'[r].expense = e
                  /\ expense[e].status = "absent"
    PROVE  Frame(held, fresh)
  <1>1. \A d : AllocationsOf(d)' = AllocationsOf(d)
    BY DEF AllocationsOf
  <1>2. ASSUME NEW a \in Allocations
        PROVE  /\ OpenRequests(a)' \subseteq OpenRequests(a)
               /\ ReservingRequests(a)' \subseteq ReservingRequests(a)
               /\ \A q \in ReservingRequests(a)' : request'[q].reserved = request[q].reserved
    <2>1. ASSUME NEW q \in Requests
          PROVE  request'[q] = request[q] \/ request'[q].status \notin OpenFinancialStatuses
      OBVIOUS
    <2> QED BY <2>1 DEF OpenRequests, ReservingRequests, OpenFinancialStatuses
  <1>3. ASSUME NEW a \in Allocations, <<"allocation", a>> \in held
        PROVE  /\ ExecutingExpenses(a)' \subseteq ExecutingExpenses(a)
               /\ \A f \in ExecutingExpenses(a)' : expense'[f].amount = expense[f].amount
    <2>1. e \notin ExecutingExpenses(a)'
      BY <1>3 DEF ExecutingExpenses
    <2> QED BY <2>1 DEF ExecutingExpenses
  <1>4. ASSUME NEW a \in Allocations, <<"allocation", a>> \in held PROVE KeepsAllocation(a)
    BY <1>2, <1>3, <1>4 DEF KeepsAllocation
  <1>5. ASSUME NEW f \in Expenses, <<"expense", f>> \in held, expense[f].status # "absent"
        PROVE  KeepsExpense(f)
    <2>1. f # e
      BY <1>5
    <2>2. ASSUME NEW r \in Requests, request'[r].expense = f PROVE request[r].expense = f
      BY <2>1, <2>2
    <2> QED BY <2>1, <2>2 DEF KeepsExpense, Linked
  <1>6. ASSUME NEW r \in Requests, <<"request", r>> \in held PROVE request'[r] = request[r]
    BY <1>6
  <1>7. Keeps(held)
    BY <1>1, <1>4, <1>5, <1>6 DEF Keeps, KeepsDonation, KeepsProject
  <1>8. KeepsFree(fresh)
    BY DEF KeepsFree
  <1> QED BY <1>2, <1>7, <1>8 DEF Frame, KeepsTerminal

\* fulfill_expense_request.
LEMMA FulfilmentFrame ==
    ASSUME TypeOK, NEW held, NEW fresh, NEW r \in Requests, NEW e \in Expenses,
           NEW m \in Positive, FulfillRequest(r, e, m),
           <<"request", r>> \notin held, <<"allocation", request[r].allocation>> \notin held,
           <<"expense", e>> \notin fresh
    PROVE  Frame(held, fresh)
  <1>1. /\ UNCHANGED <<donation, project, allocation>>
        /\ \A f \in Expenses : f # e => expense'[f] = expense[f]
        /\ expense[e].status = "absent"
        /\ expense'[e] = [status |-> "registered", amount |-> m,
                          allocation |-> request[r].allocation]
    BY DEF FulfillRequest, MayFulfillRequest, TypeOK
  <1>2. \A b \in Allocations : expense'[e].allocation = b => <<"allocation", b>> \notin held
    BY <1>1
  <1>3. /\ \A q \in Requests : q # r => request'[q] = request[q]
        /\ request[r].status # "absent"
    BY DEF FulfillRequest, MayFulfillRequest, TypeOK
  <1>4. /\ request'[r].status \notin OpenFinancialStatuses
        /\ request'[r].expense = e
    BY DEF FulfillRequest, OpenFinancialStatuses, TypeOK, RequestRow
  <1> QED BY <1>1, <1>2, <1>3, <1>4, ExpenseFrame

\* create_expense_legacy.
LEMMA LegacyExpenseFrame ==
    ASSUME TypeOK, NEW held, NEW fresh, NEW e \in Expenses, NEW a \in Allocations,
           NEW m \in Positive, CreateExpenseLegacy(e, a, m),
           <<"allocation", a>> \notin held, <<"expense", e>> \notin fresh
    PROVE  Frame(held, fresh)
  <1>1. /\ UNCHANGED <<donation, project, allocation, request>>
        /\ \A f \in Expenses : f # e => expense'[f] = expense[f]
        /\ expense[e].status = "absent"
        /\ expense'[e] = [status |-> "registered", amount |-> m, allocation |-> a]
    BY DEF CreateExpenseLegacy, MayCreateExpenseLegacy, TypeOK
  <1>2. \A b \in Allocations : expense'[e].allocation = b => <<"allocation", b>> \notin held
    BY <1>1
  <1> QED BY <1>1, <1>2, ExpenseFrame

\* update_expense.
LEMMA CorrectionFrame ==
    ASSUME TypeOK, NEW held, NEW fresh, NEW e \in Expenses, NEW a \in Allocations,
           NEW m \in Positive, UpdateExpense(e, a, m),
           <<"expense", e>> \notin held, <<"allocation", a>> \notin held
    PROVE  Frame(held, fresh)
  <1>1. /\ UNCHANGED <<donation, project, allocation, request>>
        /\ \A f \in Expenses : f # e => expense'[f] = expense[f]
        /\ expense[e].status # "absent"
        /\ expense'[e].allocation = a
    BY DEF UpdateExpense, MayUpdateExpense, TypeOK, ExpenseRow
  <1>2. \A b \in Allocations : expense'[e].allocation = b => <<"allocation", b>> \notin held
    BY <1>1
  <1> QED BY <1>1, <1>2, ExpenseFrame

\* annul_expense.
LEMMA ExpenseAnnulmentFrame ==
    ASSUME TypeOK, NEW held, NEW fresh, NEW e \in Expenses, AnnulExpense(e),
           <<"expense", e>> \notin held
    PROVE  Frame(held, fresh)
  <1>1. /\ UNCHANGED <<donation, project, allocation, request>>
        /\ \A f \in Expenses : f # e => expense'[f] = expense[f]
        /\ expense[e].status # "absent"
        /\ expense'[e].status # "registered"
    BY DEF AnnulExpense, MayAnnulExpense, TypeOK, ExpenseRow
  <1> QED BY <1>1, ExpenseFrame

-------------------------------------------------------------------------------
(* The calls.                                                              *)

\* What a call carries, by its name.
CallFields(c) ==
    /\ c.name \in {"update_donation", "annul_donation", "create_allocation", "update_allocation",
                   "finish_allocation", "annul_allocation", "finish_project", "create_request",
                   "create_expense_legacy", "update_expense", "annul_expense"} \cup RequestCalls
    /\ c.name = "update_donation" => c.d \in Donations /\ c.m \in Positive
    /\ c.name = "annul_donation" => c.d \in Donations
    /\ c.name \in {"create_allocation", "update_allocation"} =>
           c.a \in Allocations /\ c.d \in Donations /\ c.p \in Projects /\ c.m \in Positive
    /\ c.name \in {"finish_allocation", "annul_allocation"} => c.a \in Allocations
    /\ c.name = "finish_project" => c.p \in Projects
    /\ c.name \in {"create_request", "update_request"} =>
           c.r \in Requests /\ c.a \in Allocations /\ c.m \in Positive
    /\ c.name \in {"approve_request", "annul_request", "withdraw_request"} => c.r \in Requests
    /\ c.name = "fulfill_request" => c.r \in Requests /\ c.e \in Expenses /\ c.m \in Positive
    /\ c.name \in {"create_expense_legacy", "update_expense"} =>
           c.e \in Expenses /\ c.a \in Allocations /\ c.m \in Positive
    /\ c.name = "annul_expense" => c.e \in Expenses

LEMMA CallsAreTyped == \A c \in Call : CallFields(c)
  BY DEF Call, CallFields, RequestCalls, DecisionCalls

\* What a committing call holds and inserts keeps clear of another worker's rows.
Apart(c, held, fresh) == Secured(c) \cap held = {} /\ Inserted(c) \cap fresh = {}

\* Whatever another worker commits, the rows a worker has locked and the ids
\* it is about to insert are as good as before.
LEMMA CommitFrame ==
    ASSUME TypeOK, NEW held, NEW fresh, NEW c, CallFields(c), Effect(c), Apart(c, held, fresh)
    PROVE  Frame(held, fresh)
  <1> USE DEF CallFields, Apart
  <1>1. CASE c.name = "update_donation" /\ UpdateDonation(c.d, c.m)
    <2>1. <<"donation", c.d>> \notin held
      BY <1>1 DEF Secured
    <2> QED BY <1>1, <2>1, DonationFrame
  <1>2. CASE c.name = "annul_donation" /\ AnnulDonation(c.d)
    <2>1. <<"donation", c.d>> \notin held
      BY <1>2 DEF Secured
    <2> QED BY <1>2, <2>1, DonationFrame
  <1>3. CASE c.name = "create_allocation" /\ CreateAllocation(c.a, c.d, c.p, c.m)
    <2>1. <<"donation", c.d>> \notin held /\ <<"project", c.p>> \notin held
      BY <1>3 DEF Secured
    <2>2. <<"allocation", c.a>> \notin fresh
      BY <1>3 DEF Inserted
    <2> QED BY <1>3, <2>1, <2>2, CreationFrame
  <1>4. CASE c.name = "update_allocation" /\ UpdateAllocation(c.a, c.d, c.p, c.m)
    <2>1. /\ <<"donation", c.d>> \notin held
          /\ <<"project", c.p>> \notin held
          /\ <<"allocation", c.a>> \notin held
      BY <1>4 DEF Secured
    <2> QED BY <1>4, <2>1, ReplacementFrame
  <1>5. CASE \/ c.name = "finish_allocation" /\ FinishAllocation(c.a)
             \/ c.name = "annul_allocation" /\ AnnulAllocation(c.a)
    <2>1. <<"allocation", c.a>> \notin held
      BY <1>5 DEF Secured
    <2> QED BY <1>5, <2>1, EndOfAllocationFrame
  <1>6. CASE c.name = "finish_project" /\ FinishProject(c.p)
    <2>1. <<"project", c.p>> \notin held
      BY <1>6 DEF Secured
    <2> QED BY <1>6, <2>1, ProjectFrame
  <1>7. CASE c.name = "create_request" /\ CreateRequest(c.r, c.a, c.m)
    <2>1. <<"allocation", c.a>> \notin held
      BY <1>7 DEF Secured
    <2>2. <<"request", c.r>> \notin fresh
      BY <1>7 DEF Inserted
    <2> QED BY <1>7, <2>1, <2>2, RequestCreationFrame
  <1>8. CASE c.name = "update_request" /\ UpdateRequest(c.r, c.a, c.m)
    <2>1. <<"request", c.r>> \notin held /\ <<"allocation", c.a>> \notin held
      BY <1>8 DEF Secured
    <2> QED BY <1>8, <2>1, RequestEditFrame
  <1>9. CASE c.name = "approve_request" /\ ApproveRequest(c.r)
    <2>1. /\ <<"request", c.r>> \notin held
          /\ <<"allocation", request[c.r].allocation>> \notin held
      BY <1>9 DEF Secured
    <2> QED BY <1>9, <2>1, ApprovalFrame
  <1>10. CASE \/ c.name = "annul_request" /\ AnnulRequest(c.r)
              \/ c.name = "withdraw_request" /\ WithdrawRequest(c.r)
    <2>1. <<"request", c.r>> \notin held
      BY <1>10 DEF Secured
    <2> QED BY <1>10, <2>1, EndOfRequestFrame
  <1>11. CASE c.name = "fulfill_request" /\ FulfillRequest(c.r, c.e, c.m)
    <2>1. /\ <<"request", c.r>> \notin held
          /\ <<"allocation", request[c.r].allocation>> \notin held
      BY <1>11 DEF Secured
    <2>2. <<"expense", c.e>> \notin fresh
      BY <1>11 DEF Inserted
    <2> QED BY <1>11, <2>1, <2>2, FulfilmentFrame
  <1>12. CASE c.name = "create_expense_legacy" /\ CreateExpenseLegacy(c.e, c.a, c.m)
    <2>1. <<"allocation", c.a>> \notin held
      BY <1>12 DEF Secured
    <2>2. <<"expense", c.e>> \notin fresh
      BY <1>12 DEF Inserted
    <2> QED BY <1>12, <2>1, <2>2, LegacyExpenseFrame
  <1>13. CASE c.name = "update_expense" /\ UpdateExpense(c.e, c.a, c.m)
    <2>1. <<"expense", c.e>> \notin held /\ <<"allocation", c.a>> \notin held
      BY <1>13 DEF Secured
    <2> QED BY <1>13, <2>1, CorrectionFrame
  <1>14. CASE c.name = "annul_expense" /\ AnnulExpense(c.e)
    <2>1. <<"expense", c.e>> \notin held
      BY <1>14 DEF Secured
    <2> QED BY <1>14, <2>1, ExpenseAnnulmentFrame
  <1> QED BY <1>1, <1>2, <1>3, <1>4, <1>5, <1>6, <1>7, <1>8, <1>9, <1>10, <1>11, <1>12,
             <1>13, <1>14 DEF Effect

\* Every transaction of LedgerLocks is one of Ledger.
LEMMA EffectIsStep ==
    ASSUME NEW c, CallFields(c), Effect(c)
    PROVE  Next
  <1> USE DEF CallFields
  <1>1. CASE c.name \in {"update_donation", "annul_donation"}
    <2>1. DonationStep
      BY <1>1 DEF Effect, DonationStep
    <2> QED BY <2>1 DEF Next
  <1>2. CASE c.name \in {"create_allocation", "update_allocation", "finish_allocation",
                         "annul_allocation"}
    <2>1. AllocationStep
      BY <1>2 DEF Effect, AllocationStep
    <2> QED BY <2>1 DEF Next
  <1>3. CASE c.name = "finish_project"
    <2>1. ProjectStep
      BY <1>3 DEF Effect, ProjectStep
    <2> QED BY <2>1 DEF Next
  <1>4. CASE c.name \in {"create_request", "update_request", "approve_request",
                         "annul_request", "withdraw_request", "fulfill_request"}
    <2>1. RequestStep
      BY <1>4 DEF Effect, RequestStep
    <2> QED BY <2>1 DEF Next
  <1>5. CASE c.name \in {"create_expense_legacy", "update_expense", "annul_expense"}
    <2>1. ExpenseStep
      BY <1>5 DEF Effect, ExpenseStep
    <2> QED BY <2>1 DEF Next
  <1> QED BY <1>1, <1>2, <1>3, <1>4, <1>5 DEF Effect

-------------------------------------------------------------------------------
(* What was checked on secured rows stays true.                            *)

\* The other allocations of a donation whose row is kept hold no more than before.
LEMMA OthersAssignNoMore ==
    ASSUME NEW d, KeepsDonation(d), NEW a
    PROVE  Total(AllocationsOf(d) \ {a}, AllocationAmounts)'
               <= Total(AllocationsOf(d) \ {a}, AllocationAmounts)
  <1> DEFINE before == AllocationsOf(d) \ {a}
             after  == AllocationsOf(d)' \ {a}
  <1>1. after \subseteq before
    BY DEF KeepsDonation
  <1>2. \A b \in after : AllocationAmounts'[b] = AllocationAmounts[b]
    BY DEF KeepsDonation, AllocationAmounts, AllocationsOf
  <1>3. Total(after, AllocationAmounts') = Total(after, AllocationAmounts)
    BY <1>2, TotalCongruence
  <1>4. IsFiniteSet(before)
    BY BalancesAreNatural, FS_Subset DEF NaturalBalances
  <1>5. Total(after, AllocationAmounts) <= Total(before, AllocationAmounts)
    BY <1>1, <1>4, TotalMonotone
  <1> QED BY <1>3, <1>5

\* What is reserved does not grow when requests only leave the allocation.
LEMMA ReservesNoMore ==
    ASSUME NEW a, ReservingRequests(a)' \subseteq ReservingRequests(a),
           \A r \in ReservingRequests(a)' : request'[r].reserved = request[r].reserved
    PROVE  Reserved(a)' <= Reserved(a)
  <1>1. ReservingRequests(a)' \subseteq Requests
    BY DEF ReservingRequests
  <1>2. Reserved(a)' = Total(ReservingRequests(a)', ReservedAmounts)
    BY <1>1, TotalCongruence DEF Reserved, ReservedAmounts
  <1>3. Total(ReservingRequests(a)', ReservedAmounts) <= Reserved(a)
    BY BalancesAreNatural, TotalMonotone DEF NaturalBalances, Reserved
  <1> QED BY <1>2, <1>3

\* A kept allocation has at least the money it had.
LEMMA KeptBalance ==
    ASSUME TypeOK, NEW a \in Allocations, KeepsAllocation(a)
    PROVE  /\ Unreserved(a) \in Int
           /\ Unreserved(a)' \in Int
           /\ Unreserved(a)' >= Unreserved(a)
           /\ Executed(a) \in Nat
           /\ Executed(a)' \in Nat
           /\ Executed(a)' <= Executed(a)
  <1>1. Executed(a)' <= Executed(a)
    BY ExecutesNoMore DEF KeepsAllocation
  <1>2. Reserved(a)' <= Reserved(a)
    BY ReservesNoMore DEF KeepsAllocation
  <1>3. /\ Executed(a) \in Nat
        /\ Reserved(a) \in Nat
        /\ Executed(a)' \in Nat
        /\ Reserved(a)' \in Nat
    BY BalancesAreNatural, BalancesStayNatural DEF NaturalBalances
  <1>4. allocation[a].amount \in Nat /\ allocation'[a].amount = allocation[a].amount
    BY MaxMoneyAssumption DEF TypeOK, AllocationRow, Money, KeepsAllocation
  <1> QED BY <1>1, <1>2, <1>3, <1>4 DEF Unreserved

\* A kept allocation that accepts requests still does.
LEMMA KeptAccepts ==
    ASSUME TypeOK, NEW a \in Allocations, KeepsAllocation(a), AcceptsRequests(a)
    PROVE  AcceptsRequests(a)'
  BY DEF KeepsAllocation, AcceptsRequests, Editable, Closed

\* The defensive equation: reserving m needs m to be left, and giving a
\* reservation back or spending of it needs a balance that is not negative.
Equations ==
    \A a \in Allocations : Unreserved(a) \in Int =>
        /\ \A m \in Positive :
               /\ m <= Available(a)
               /\ Consolidates(a, Unreserved(a) - m, -m)
               <=> m <= Unreserved(a)
        /\ \A m \in Positive : Consolidates(a, Unreserved(a) + m, m) <=> Unreserved(a) >= 0
        /\ Consolidates(a, Unreserved(a) + 0, 0)
        /\ \A reserved, m \in Positive : m <= reserved =>
               (/\ m <= Unreserved(a) + reserved
                /\ Consolidates(a, Unreserved(a) + reserved - m, reserved - m)
                <=> Unreserved(a) >= 0)

LEMMA EquationsHold == Equations
  <1>1. SUFFICES ASSUME NEW a \in Allocations, Unreserved(a) \in Int
        PROVE  /\ \A m \in Positive :
                      /\ m <= Available(a)
                      /\ Consolidates(a, Unreserved(a) - m, -m)
                      <=> m <= Unreserved(a)
               /\ \A m \in Positive :
                      Consolidates(a, Unreserved(a) + m, m) <=> Unreserved(a) >= 0
               /\ Consolidates(a, Unreserved(a) + 0, 0)
               /\ \A reserved, m \in Positive : m <= reserved =>
                      (/\ m <= Unreserved(a) + reserved
                       /\ Consolidates(a, Unreserved(a) + reserved - m, reserved - m)
                       <=> Unreserved(a) >= 0)
    BY DEF Equations
  <1>2. \A m \in Positive : m \in Nat /\ m > 0
    BY MaxMoneyAssumption DEF Positive
  <1> DEFINE left == Unreserved(a)
  <1>3. left \in Int
    BY <1>1
  <1>4. \A m \in Positive :
            /\ m <= Clamp(left)
            /\ Clamp(left - m) = Clamp(left) + (-m)
            <=> m <= left
    <2> HIDE DEF left
    <2> QED BY <1>2, <1>3 DEF Clamp
  <1>5. \A m \in Positive : Clamp(left + m) = Clamp(left) + m <=> left >= 0
    <2> HIDE DEF left
    <2> QED BY <1>2, <1>3 DEF Clamp
  <1>6. Clamp(left + 0) = Clamp(left) + 0
    BY <1>1 DEF Clamp
  <1>7. \A reserved, m \in Positive : m <= reserved =>
            (/\ m <= left + reserved
             /\ Clamp(left + reserved - m) = Clamp(left) + (reserved - m)
             <=> left >= 0)
    <2> HIDE DEF left
    <2> QED BY <1>2, <1>3 DEF Clamp
  <1> QED BY <1>4, <1>5, <1>6, <1>7 DEF Consolidates, Available

LEMMA EquationsHoldLater == Equations'
  BY EquationsHold, PTL

LEMMA DonationChecksStay ==
    ASSUME NEW d \in Donations, KeepsDonation(d)
    PROVE  /\ \A m \in Positive : MayUpdateDonation(d, m) => MayUpdateDonation(d, m)'
           /\ MayAnnulDonation(d) => MayAnnulDonation(d)'
  <1>1. Assigned(d)' <= Assigned(d)
    BY AssignsNoMore DEF KeepsDonation
  <1>2. Assigned(d) \in Nat /\ Assigned(d)' \in Nat
    BY BalancesAreNatural, BalancesStayNatural DEF NaturalBalances
  <1>3. \A m \in Positive : m \in Nat
    BY MaxMoneyAssumption DEF Positive
  <1>4. ASSUME NEW m \in Positive, MayUpdateDonation(d, m) PROVE MayUpdateDonation(d, m)'
    <2>1. m >= Assigned(d)'
      BY <1>1, <1>2, <1>3, <1>4 DEF MayUpdateDonation
    <2> QED BY <1>4, <2>1 DEF MayUpdateDonation, KeepsDonation
  <1>5. MayAnnulDonation(d) => MayAnnulDonation(d)'
    BY DEF MayAnnulDonation, KeepsDonation
  <1> QED BY <1>4, <1>5


NaturalOthers == \A d, a : Total(AllocationsOf(d) \ {a}, AllocationAmounts) \in Nat

LEMMA OthersAreNatural == NaturalOthers
  BY BalancesAreNatural, FS_Subset, TotalType DEF NaturalBalances, NaturalOthers

LEMMA OthersStayNatural == NaturalOthers'
  BY OthersAreNatural, PTL

\* The donation and the project an allocation is given to.
LEMMA FundingStays ==
    ASSUME TypeOK, NEW d \in Donations, NEW p \in Projects, NEW m \in Positive, NEW a,
           KeepsDonation(d), KeepsProject(p), CanFund(d, p, m, a)
    PROVE  CanFund(d, p, m, a)'
  <1> DEFINE others == Total(AllocationsOf(d) \ {a}, AllocationAmounts)
  <1>1. others' <= others
    BY OthersAssignNoMore
  <1>2. others \in Nat
    BY OthersAreNatural DEF NaturalOthers
  <1>3. others' \in Nat
    BY OthersStayNatural DEF NaturalOthers
  <1>4. /\ donation'[d] = donation[d]
        /\ project'[p] = project[p]
        /\ donation[d].amount \in Int
        /\ m \in Int
    BY MaxMoneyAssumption DEF KeepsDonation, KeepsProject, TypeOK, DonationRow, Money, Positive
  <1>5. m <= donation[d].amount - others
    BY DEF CanFund
  <1>6. m <= donation'[d].amount - others'
    <2> HIDE DEF others
    <2> QED BY <1>1, <1>2, <1>3, <1>4, <1>5
  <1> QED BY <1>4, <1>6 DEF CanFund

LEMMA AllocationChecksStay ==
    ASSUME TypeOK, NEW a \in Allocations, KeepsAllocation(a)
    PROVE  /\ MayFinishAllocation(a) => MayFinishAllocation(a)'
           /\ MayAnnulAllocation(a) => MayAnnulAllocation(a)'
           /\ \A d \in Donations, p \in Projects, m \in Positive :
                  /\ KeepsDonation(d)
                  /\ KeepsProject(p)
                  /\ MayUpdateAllocation(a, d, p, m)
                  => MayUpdateAllocation(a, d, p, m)'
  <1>1. Editable(a) => Editable(a)'
    BY DEF Editable, KeepsAllocation
  <1>2. MayFinishAllocation(a) => MayFinishAllocation(a)'
    BY <1>1 DEF MayFinishAllocation, KeepsAllocation
  <1>3. MayAnnulAllocation(a) => MayAnnulAllocation(a)'
    BY <1>1 DEF MayAnnulAllocation, KeepsAllocation
  <1>4. ASSUME NEW d \in Donations, NEW p \in Projects, NEW m \in Positive,
               KeepsDonation(d), KeepsProject(p), MayUpdateAllocation(a, d, p, m)
        PROVE  MayUpdateAllocation(a, d, p, m)'
    <2>1. CanFund(d, p, m, a)'
      BY <1>4, FundingStays DEF MayUpdateAllocation
    <2>2. m \in Int
      BY MaxMoneyAssumption DEF Positive
    <2>3. m >= Executed(a)'
      BY <1>4, <2>2, KeptBalance DEF MayUpdateAllocation
    <2> QED BY <1>1, <1>4, <2>1, <2>3 DEF MayUpdateAllocation
  <1> QED BY <1>2, <1>3, <1>4

LEMMA CreationCheckStays ==
    ASSUME TypeOK, NEW a \in Allocations, allocation'[a] = allocation[a],
           NEW d \in Donations, KeepsDonation(d), NEW p \in Projects, KeepsProject(p),
           NEW m \in Positive, MayCreateAllocation(a, d, p, m)
    PROVE  MayCreateAllocation(a, d, p, m)'
  BY FundingStays DEF MayCreateAllocation

LEMMA ProjectCheckStays ==
    ASSUME NEW p \in Projects, KeepsProject(p), KeepsTerminal, MayFinishProject(p)
    PROVE  MayFinishProject(p)'
  <1>1. ASSUME NEW a \in Allocations, allocation'[a].project = p
        PROVE  allocation'[a].status # "active" /\ OpenRequests(a)' = {}
    <2>1. /\ allocation[a].project = p
          /\ allocation'[a].status = "active" => allocation[a].status = "active"
      BY <1>1 DEF KeepsProject
    <2>2. allocation[a].status # "active" /\ OpenRequests(a) = {}
      BY <2>1 DEF MayFinishProject
    <2> QED BY <2>1, <2>2 DEF KeepsTerminal
  <1> QED BY <1>1 DEF MayFinishProject, KeepsProject

\* A request that exists lies in an allocation that exists.
LEMMA RequestPlace ==
    ASSUME TypeOK, ReferencesExist, NEW r \in Requests, request[r].status # "absent"
    PROVE  /\ request[r].allocation \in Allocations
           /\ allocation[request[r].allocation].status # "absent"
  BY DEF ReferencesExist, RowReferences, RequestReferences, HasRow, NoRow, TypeOK, RequestRow,
         RequestStatus

LEMMA RequestChecksStay ==
    ASSUME TypeOK, NEW r \in Requests, request'[r] = request[r]
    PROVE  /\ \A a \in Allocations :
                  KeepsAllocation(a) /\ MayCreateRequest(r, a) => MayCreateRequest(r, a)'
           /\ \A a \in Allocations :
                  KeepsAllocation(a) /\ MayUpdateRequest(r, a) => MayUpdateRequest(r, a)'
           /\ MayWithdrawRequest(r) => MayWithdrawRequest(r)'
  BY KeptAccepts DEF MayCreateRequest, MayUpdateRequest, MayWithdrawRequest

\* approve_expense_request.
LEMMA ApprovalCheckStays ==
    ASSUME TypeOK, LifeInv, NEW r \in Requests, request'[r] = request[r],
           request[r].allocation \in Allocations, KeepsAllocation(request[r].allocation),
           MayApproveRequest(r)
    PROVE  MayApproveRequest(r)'
  <1> DEFINE a == request[r].allocation
             m == request[r].requested
  <1>1. m \in Positive
    BY MaxMoneyAssumption
       DEF MayApproveRequest, LifeInv, LifeOf, TypeOK, RequestRow, Money, Positive
  <1>2. /\ Unreserved(a) \in Int
        /\ Unreserved(a)' \in Int
        /\ Unreserved(a)' >= Unreserved(a)
    BY KeptBalance
  <1>3. a' = a /\ m' = m
    OBVIOUS
  <1>4. m <= Unreserved(a)
    BY <1>1, <1>2, EquationsHold DEF Equations, MayApproveRequest
  <1>5. m <= Unreserved(a)'
    BY <1>1, <1>2, <1>4, MaxMoneyAssumption DEF Positive
  <1>6. m <= Available(a)' /\ Consolidates(a, Unreserved(a) - m, -m)'
    BY <1>1, <1>2, <1>3, <1>5, EquationsHoldLater DEF Equations
  <1>7. AcceptsRequests(a)'
    BY KeptAccepts DEF MayApproveRequest
  <1> QED BY <1>3, <1>6, <1>7 DEF MayApproveRequest

\* fulfill_expense_request.
LEMMA FulfilmentCheckStays ==
    ASSUME TypeOK, LifeInv, NEW r \in Requests, request'[r] = request[r],
           NEW e \in Expenses, expense'[e] = expense[e], NEW m \in Positive,
           request[r].allocation \in Allocations, KeepsAllocation(request[r].allocation),
           MayFulfillRequest(r, e, m)
    PROVE  MayFulfillRequest(r, e, m)'
  <1> DEFINE a == request[r].allocation
             reserved == request[r].reserved
  <1>1. reserved \in Positive
    BY MaxMoneyAssumption
       DEF MayFulfillRequest, LifeInv, LifeOf, TypeOK, RequestRow, Money, Positive
  <1>2. /\ Unreserved(a) \in Int
        /\ Unreserved(a)' \in Int
        /\ Unreserved(a)' >= Unreserved(a)
    BY KeptBalance
  <1>3. a' = a /\ reserved' = reserved /\ m <= reserved
    BY DEF MayFulfillRequest
  <1>4. Unreserved(a) >= 0
    BY <1>1, <1>2, <1>3, EquationsHold DEF Equations, MayFulfillRequest
  <1>5. Unreserved(a)' >= 0
    BY <1>2, <1>4
  <1>6. /\ m <= Unreserved(a)' + reserved
        /\ Consolidates(a, Unreserved(a) + reserved - m, reserved - m)'
    BY <1>1, <1>2, <1>3, <1>5, EquationsHoldLater DEF Equations
  <1>7. AcceptsRequests(a)'
    BY KeptAccepts DEF MayFulfillRequest
  <1> QED BY <1>3, <1>6, <1>7 DEF MayFulfillRequest

\* annul_expense_request: with no reservation to give back, the allocation does not matter.
LEMMA AnnulmentCheckStays ==
    ASSUME TypeOK, NEW r \in Requests, request'[r] = request[r],
           request[r].allocation \in Allocations,
           Held(r) = 0 \/ KeepsAllocation(request[r].allocation),
           Unreserved(request[r].allocation) \in Int,
           Unreserved(request[r].allocation)' \in Int,
           MayAnnulRequest(r)
    PROVE  MayAnnulRequest(r)'
  <1> DEFINE a == request[r].allocation
  <1>1. Held(r)' = Held(r) /\ a' = a
    BY DEF Held
  <1>2. CASE Held(r) = 0
    <2>1. Consolidates(a, Unreserved(a) + 0, 0)'
      BY <1>1, EquationsHoldLater DEF Equations
    <2> QED BY <1>1, <1>2, <2>1 DEF MayAnnulRequest
  <1>3. CASE Held(r) # 0
    <2>1. Held(r) \in Positive
      BY <1>3, MaxMoneyAssumption DEF Held, TypeOK, RequestRow, Money, Positive
    <2>2. Unreserved(a) >= 0
      BY <2>1, EquationsHold DEF Equations, MayAnnulRequest
    <2>3. Unreserved(a)' >= 0
      BY <1>3, <2>2, KeptBalance
    <2>4. Consolidates(a, Unreserved(a) + Held(r), Held(r))'
      BY <1>1, <2>1, <2>3, EquationsHoldLater DEF Equations
    <2> QED BY <1>1, <2>4 DEF MayAnnulRequest
  <1> QED BY <1>2, <1>3

\* create_expense_legacy.
LEMMA LegacyCheckStays ==
    ASSUME TypeOK, NEW e \in Expenses, expense'[e] = expense[e], NEW a \in Allocations,
           KeepsAllocation(a), NEW m \in Positive, MayCreateExpenseLegacy(e, a, m)
    PROVE  MayCreateExpenseLegacy(e, a, m)'
  <1>1. m <= Unreserved(a)'
    BY KeptBalance, MaxMoneyAssumption DEF MayCreateExpenseLegacy, Positive
  <1>2. Editable(a)' /\ ~Closed(allocation[a].project)'
    BY DEF MayCreateExpenseLegacy, KeepsAllocation, Editable, Closed
  <1> QED BY <1>1, <1>2 DEF MayCreateExpenseLegacy

\* update_expense.
LEMMA CorrectionCheckStays ==
    ASSUME TypeOK, NEW e \in Expenses, KeepsExpense(e), NEW a \in Allocations,
           KeepsAllocation(a), NEW m \in Positive, MayUpdateExpense(e, a, m)
    PROVE  MayUpdateExpense(e, a, m)'
  <1> DEFINE own == IF expense[e].allocation = a THEN expense[e].amount ELSE 0
  <1>1. expense'[e] = expense[e] /\ own' = own
    BY DEF KeepsExpense
  <1>2. own \in Nat
    BY MaxMoneyAssumption DEF TypeOK, ExpenseRow, Money
  <1>3. m <= Unreserved(a) + own
    BY DEF MayUpdateExpense
  <1>4. m <= Unreserved(a)' + own
    <2>1. m \in Int
      BY MaxMoneyAssumption DEF Positive
    <2> HIDE DEF own
    <2> QED BY <1>2, <1>3, <2>1, KeptBalance
  <1>5. EligibleForReassignment(a) => EligibleForReassignment(a)'
    BY DEF EligibleForReassignment, KeepsAllocation
  <1>6. expense[e].allocation # a => ~Linked(e)' /\ EligibleForReassignment(a)'
    BY <1>5 DEF MayUpdateExpense, KeepsExpense
  <1> QED BY <1>1, <1>4, <1>6 DEF MayUpdateExpense

\* annul_expense: no step can link an expense to a request that is not fulfilled.
LEMMA ExpenseAnnulmentCheckStays ==
    ASSUME LifeInv', None \notin Expenses, NEW e \in Expenses, expense'[e] = expense[e],
           MayAnnulExpense(e)
    PROVE  MayAnnulExpense(e)'
  BY DEF MayAnnulExpense, LifeInv, LifeOf

-------------------------------------------------------------------------------
(* A checked call and the commit of another worker.                        *)

BalancesTyped == \A a \in Allocations : Unreserved(a) \in Int

LEMMA BalanceType == TypeOK => BalancesTyped
  BY BalancesAreNatural, MaxMoneyAssumption
     DEF NaturalBalances, BalancesTyped, Unreserved, TypeOK, AllocationRow, Money

LEMMA BalanceTypeLater == TypeOK' => BalancesTyped'
  BY BalanceType, PTL

\* The request of a decision stays where it is while its row is locked.
LEMMA SecuredStays ==
    ASSUME TypeOK, NEW held, NEW fresh, Frame(held, fresh), NEW c, CallFields(c),
           c.name \in DecisionCalls, request[c.r].status # "absent", Secured(c) \subseteq held
    PROVE  request'[c.r] = request[c.r]
  <1>1. c.r \in Requests /\ <<"request", c.r>> \in held
    BY DEF CallFields, Secured, DecisionCalls
  <1> QED BY <1>1 DEF Frame, Keeps

\* Guards of calls about donations, allocations and projects.
LEMMA FundCheckStays ==
    ASSUME TypeOK, NEW held, NEW fresh, Frame(held, fresh), NEW c, CallFields(c), Guard(c),
           Secured(c) \subseteq held, Inserted(c) \subseteq fresh,
           c.name \in {"update_donation", "annul_donation", "create_allocation",
                       "update_allocation", "finish_allocation", "annul_allocation",
                       "finish_project"}
    PROVE  Guard(c)'
  <1> USE DEF CallFields
  <1>1. CASE c.name \in {"update_donation", "annul_donation"}
    <2>1. KeepsDonation(c.d)
      BY <1>1 DEF Secured, Frame, Keeps
    <2> QED BY <1>1, <2>1, DonationChecksStay DEF Guard
  <1>2. CASE c.name = "create_allocation"
    <2>1. KeepsDonation(c.d) /\ KeepsProject(c.p)
      BY <1>2 DEF Secured, Frame, Keeps
    <2>2. MayCreateAllocation(c.a, c.d, c.p, c.m)
      BY <1>2 DEF Guard
    <2>3. allocation'[c.a] = allocation[c.a]
      BY <1>2, <2>2 DEF Inserted, Frame, KeepsFree, MayCreateAllocation
    <2> QED BY <1>2, <2>1, <2>2, <2>3, CreationCheckStays DEF Guard
  <1>3. CASE c.name = "update_allocation"
    <2>1. KeepsDonation(c.d) /\ KeepsProject(c.p)
      BY <1>3 DEF Secured, Frame, Keeps
    <2>2. MayUpdateAllocation(c.a, c.d, c.p, c.m)
      BY <1>3 DEF Guard
    <2>3. KeepsAllocation(c.a)
      BY <1>3, <2>2 DEF Secured, Frame, Keeps, MayUpdateAllocation, Editable
    <2> QED BY <1>3, <2>1, <2>2, <2>3, AllocationChecksStay DEF Guard
  <1>4. CASE c.name = "finish_allocation"
    <2>1. KeepsAllocation(c.a)
      BY <1>4 DEF Guard, Secured, Frame, Keeps, MayFinishAllocation, Editable
    <2> QED BY <1>4, <2>1, AllocationChecksStay DEF Guard
  <1>5. CASE c.name = "annul_allocation"
    <2>1. KeepsAllocation(c.a)
      BY <1>5 DEF Guard, Secured, Frame, Keeps, MayAnnulAllocation, Editable
    <2> QED BY <1>5, <2>1, AllocationChecksStay DEF Guard
  <1>6. CASE c.name = "finish_project"
    <2>1. KeepsProject(c.p) /\ KeepsTerminal
      BY <1>6 DEF Secured, Frame, Keeps
    <2> QED BY <1>6, <2>1, ProjectCheckStays DEF Guard
  <1> QED BY <1>1, <1>2, <1>3, <1>4, <1>5, <1>6

\* Guards of calls about requests.
LEMMA RequestCheckStays ==
    ASSUME TypeOK, ReferencesExist, LifeInv, TypeOK', NEW held, NEW fresh, Frame(held, fresh),
           NEW c, CallFields(c), Guard(c), Secured(c) \subseteq held, Inserted(c) \subseteq fresh,
           c.name \in {"create_request"} \cup RequestCalls
    PROVE  Guard(c)'
  <1> USE DEF CallFields, RequestCalls, DecisionCalls
  <1>1. CASE c.name = "create_request"
    <2>1. MayCreateRequest(c.r, c.a)
      BY <1>1 DEF Guard
    <2>2. KeepsAllocation(c.a)
      BY <1>1, <2>1 DEF Secured, Frame, Keeps, MayCreateRequest, AcceptsRequests, Editable
    <2>3. request'[c.r] = request[c.r]
      BY <1>1, <2>1 DEF Inserted, Frame, KeepsFree, MayCreateRequest
    <2> QED BY <1>1, <2>1, <2>2, <2>3, RequestChecksStay DEF Guard
  <1>2. CASE c.name = "update_request"
    <2>1. MayUpdateRequest(c.r, c.a)
      BY <1>2 DEF Guard
    <2>2. KeepsAllocation(c.a)
      BY <1>2, <2>1 DEF Secured, Frame, Keeps, MayUpdateRequest, AcceptsRequests, Editable
    <2>3. request'[c.r] = request[c.r]
      BY <1>2, <2>1 DEF Secured, Frame, Keeps, MayUpdateRequest
    <2> QED BY <1>2, <2>1, <2>2, <2>3, RequestChecksStay DEF Guard
  <1>3. CASE c.name = "withdraw_request"
    <2>1. MayWithdrawRequest(c.r)
      BY <1>3 DEF Guard
    <2>2. request'[c.r] = request[c.r]
      BY <1>3, <2>1, SecuredStays DEF MayWithdrawRequest
    <2> QED BY <1>3, <2>1, <2>2, RequestChecksStay DEF Guard
  <1>4. CASE c.name = "approve_request"
    <2>1. MayApproveRequest(c.r) /\ request[c.r].status # "absent"
      BY <1>4 DEF Guard, MayApproveRequest
    <2>2. request'[c.r] = request[c.r]
      BY <1>4, <2>1, SecuredStays
    <2>3. /\ request[c.r].allocation \in Allocations
          /\ allocation[request[c.r].allocation].status # "absent"
      BY <1>4, <2>1, RequestPlace
    <2>4. KeepsAllocation(request[c.r].allocation)
      BY <1>4, <2>3 DEF Secured, Frame, Keeps
    <2> QED BY <1>4, <2>1, <2>2, <2>3, <2>4, ApprovalCheckStays DEF Guard
  <1>5. CASE c.name = "fulfill_request"
    <2>1. MayFulfillRequest(c.r, c.e, c.m) /\ request[c.r].status # "absent"
      BY <1>5 DEF Guard, MayFulfillRequest
    <2>2. request'[c.r] = request[c.r]
      BY <1>5, <2>1, SecuredStays
    <2>3. /\ request[c.r].allocation \in Allocations
          /\ allocation[request[c.r].allocation].status # "absent"
      BY <1>5, <2>1, RequestPlace
    <2>4. KeepsAllocation(request[c.r].allocation)
      BY <1>5, <2>3 DEF Secured, Frame, Keeps
    <2>5. expense'[c.e] = expense[c.e]
      BY <1>5, <2>1 DEF Inserted, Frame, KeepsFree, MayFulfillRequest
    <2> QED BY <1>5, <2>1, <2>2, <2>3, <2>4, <2>5, FulfilmentCheckStays DEF Guard
  <1>6. CASE c.name = "annul_request"
    <2>1. MayAnnulRequest(c.r) /\ request[c.r].status # "absent"
      BY <1>6 DEF Guard, MayAnnulRequest, OpenFinancialStatuses
    <2>2. request'[c.r] = request[c.r]
      BY <1>6, <2>1, SecuredStays
    <2>3. /\ request[c.r].allocation \in Allocations
          /\ allocation[request[c.r].allocation].status # "absent"
      BY <1>6, <2>1, RequestPlace
    <2>4. Held(c.r) = 0 \/ Held(c.r) > 0
      BY <1>6, MaxMoneyAssumption DEF Held, TypeOK, RequestRow, Money
    <2>5. Held(c.r) = 0 \/ KeepsAllocation(request[c.r].allocation)
      BY <1>6, <2>3, <2>4 DEF Secured, Frame, Keeps
    <2>6. /\ Unreserved(request[c.r].allocation) \in Int
          /\ Unreserved(request[c.r].allocation)' \in Int
      BY <2>2, <2>3, BalanceType, BalanceTypeLater DEF BalancesTyped
    <2> QED BY <1>6, <2>1, <2>2, <2>3, <2>5, <2>6, AnnulmentCheckStays DEF Guard
  <1> QED BY <1>1, <1>2, <1>3, <1>4, <1>5, <1>6

\* Guards of calls about expenses.
LEMMA ExpenseCheckStays ==
    ASSUME TypeOK, ReferencesExist, LifeInv', NEW held, NEW fresh, Frame(held, fresh),
           NEW c, CallFields(c), Guard(c), Secured(c) \subseteq held, Inserted(c) \subseteq fresh,
           c.name \in {"create_expense_legacy", "update_expense", "annul_expense"}
    PROVE  Guard(c)'
  <1> USE DEF CallFields
  <1>1. CASE c.name = "create_expense_legacy"
    <2>1. MayCreateExpenseLegacy(c.e, c.a, c.m)
      BY <1>1 DEF Guard
    <2>2. KeepsAllocation(c.a)
      BY <1>1, <2>1 DEF Secured, Frame, Keeps, MayCreateExpenseLegacy, Editable
    <2>3. expense'[c.e] = expense[c.e]
      BY <1>1, <2>1 DEF Inserted, Frame, KeepsFree, MayCreateExpenseLegacy
    <2> QED BY <1>1, <2>1, <2>2, <2>3, LegacyCheckStays DEF Guard
  <1>2. CASE c.name = "update_expense"
    <2>1. MayUpdateExpense(c.e, c.a, c.m)
      BY <1>2 DEF Guard
    <2>2. KeepsExpense(c.e)
      BY <1>2, <2>1 DEF Secured, Frame, Keeps, MayUpdateExpense
    <2>3. allocation[c.a].status # "absent"
      BY <1>2, <2>1 DEF MayUpdateExpense, EligibleForReassignment, ReferencesExist, RowReferences,
                        ExpenseReferences, HasRow, NoRow
    <2>4. KeepsAllocation(c.a)
      BY <1>2, <2>3 DEF Secured, Frame, Keeps
    <2> QED BY <1>2, <2>1, <2>2, <2>4, CorrectionCheckStays DEF Guard
  <1>3. CASE c.name = "annul_expense"
    <2>1. MayAnnulExpense(c.e)
      BY <1>3 DEF Guard
    <2>2. expense'[c.e] = expense[c.e]
      BY <1>3, <2>1 DEF Secured, Frame, Keeps, KeepsExpense, MayAnnulExpense
    <2> QED BY <1>3, <2>1, <2>2, LedgerAssumption, ExpenseAnnulmentCheckStays DEF Guard
  <1> QED BY <1>1, <1>2, <1>3

\* Whatever another worker commits, the checks of a call stay true, the rows
\* secured for it are the same, and its request stays where it was decided.
Placed(c, as) ==
    \/ c.name \in {"approve_request", "fulfill_request"}
    \/ c.name = "annul_request" /\ Held(c.r) > 0
    => as = {request[c.r].allocation}

Passed(t, c) ==
    /\ Guard(c)
    /\ Secured(c) \subseteq t.held
    /\ Placed(c, t.allocations)

LEMMA PassedStays ==
    ASSUME TypeOK, ReferencesExist, LifeInv, TypeOK', LifeInv', NEW t, NEW c, CallFields(c),
           Passed(t, c), Frame(t.held, Inserted(c))
    PROVE  Passed(t, c)'
  <1>1. Guard(c) /\ Secured(c) \subseteq t.held /\ Placed(c, t.allocations)
    BY DEF Passed
  <1>2. Guard(c)'
    <2>1. CASE c.name \in {"create_request"} \cup RequestCalls
      BY <1>1, <2>1, RequestCheckStays
    <2>2. CASE c.name \in {"update_donation", "annul_donation", "create_allocation",
                           "update_allocation", "finish_allocation", "annul_allocation",
                           "finish_project"}
      BY <1>1, <2>2, FundCheckStays
    <2>3. CASE c.name \in {"create_expense_legacy", "update_expense", "annul_expense"}
      BY <1>1, <2>3, ExpenseCheckStays
    <2> QED BY <2>1, <2>2, <2>3 DEF CallFields
  <1>3. c.name \in DecisionCalls => request'[c.r] = request[c.r]
    <2>1. c.name \in DecisionCalls => request[c.r].status # "absent"
      BY <1>1 DEF Guard, DecisionCalls, MayApproveRequest, MayFulfillRequest, MayAnnulRequest,
                  MayWithdrawRequest, OpenFinancialStatuses
    <2> QED BY <1>1, <2>1, SecuredStays
  <1>4. Secured(c)' = Secured(c)
    <2>1. CASE c.name \in {"approve_request", "fulfill_request", "annul_request"}
      BY <1>3, <2>1 DEF Secured, DecisionCalls, Held
    <2>2. CASE c.name \notin {"approve_request", "fulfill_request", "annul_request"}
      BY <2>2 DEF Secured
    <2> QED BY <2>1, <2>2
  <1>5. Placed(c, t.allocations)'
    BY <1>1, <1>3 DEF Placed, DecisionCalls, Held
  <1> QED BY <1>1, <1>2, <1>4, <1>5 DEF Passed

-------------------------------------------------------------------------------
(* The checks of a transaction that holds all its locks.                   *)

\* What the reference reads found for the call.
Reads(t) ==
    /\ t.call.name \in {"finish_allocation", "annul_allocation", "create_request",
                        "update_request", "create_expense_legacy", "update_expense"} =>
           t.call.a \in t.allocations
    /\ t.call.name \in DecisionCalls => \E a \in Allocations : t.allocations = {a}

\* Every row of the plan is held.
LEMMA PlanIsHeld ==
    ASSUME NEW t, Missing(t) = {}, NEW stage, NEW table, NEW ids,
           ByPk(stage, table, ids) \subseteq LockPlan(t), NEW id \in ids
    PROVE  <<table, id>> \in t.held
  <1>1. LockAt(stage, id, 0, table, id) \in LockPlan(t)
    BY DEF ByPk
  <1>2. LockAt(stage, id, 0, table, id).row \in t.held
    BY <1>1 DEF Missing
  <1> QED BY <1>2 DEF LockAt

LEMMA ParentsAreHeld ==
    ASSUME NEW t, Missing(t) = {}, Parents(t) \subseteq LockPlan(t), NEW a \in t.allocations
    PROVE  <<"allocation", a>> \in t.held
  <1>1. LockAt(2, a, 0, "allocation", a) \in LockPlan(t)
    BY DEF Parents, Joined
  <1>2. LockAt(2, a, 0, "allocation", a).row \in t.held
    BY <1>1 DEF Missing
  <1> QED BY <1>2 DEF LockAt

\* A decision that moves money, made on another allocation than the request
\* has by now, fails on the defensive equation.
LEMMA DecisionsConsolidate ==
    ASSUME TypeOK, LifeInv, NEW r \in Requests, NEW a \in Allocations,
           request[r].allocation # a
    PROVE  /\ ~ApprovalChecks(r, a)
           /\ \A m \in Positive : ~FulfilmentChecks(r, a, m)
           /\ AnnulmentChecks(r, a) => Held(r) = 0
  <1> DEFINE left == Unreserved(a)
             asked == request[r].requested
             reserved == request[r].reserved
  <1>1. left \in Int /\ asked \in Nat /\ reserved \in Nat /\ LifeOf(r)
    BY BalanceType, MaxMoneyAssumption
       DEF BalancesTyped, LifeInv, TypeOK, RequestRow, Money
  <1>2. ASSUME ApprovalChecks(r, a) PROVE FALSE
    <2>1. asked # 0
      BY <1>1, <1>2 DEF ApprovalChecks, LifeOf
    <2>2. Clamp(left - 0) = Clamp(left) + (-asked)
      BY <1>2 DEF ApprovalChecks, Consolidates, Available
    <2> HIDE DEF left, asked
    <2> QED BY <1>1, <2>1, <2>2 DEF Clamp
  <1>3. ASSUME NEW m \in Positive, FulfilmentChecks(r, a, m) PROVE FALSE
    <2>1. reserved # 0
      BY <1>1, <1>3 DEF FulfilmentChecks, LifeOf
    <2>2. /\ Clamp(left + 0 - m) = Clamp(left) + (reserved - m)
          /\ m <= Clamp(left + 0)
      BY <1>3 DEF FulfilmentChecks, Consolidates, Available, Own
    <2>3. m \in Nat /\ m > 0
      BY MaxMoneyAssumption DEF Positive
    <2> HIDE DEF left, reserved
    <2> QED BY <1>1, <2>1, <2>2, <2>3 DEF Clamp
  <1>4. ASSUME AnnulmentChecks(r, a) PROVE Held(r) = 0
    <2>1. Clamp(left + 0) = Clamp(left) + Held(r)
      BY <1>4 DEF AnnulmentChecks, Consolidates, Available, Own
    <2>2. Held(r) \in Nat
      BY <1>1 DEF Held
    <2> HIDE DEF left
    <2> QED BY <1>1, <2>1, <2>2 DEF Clamp
  <1> QED BY <1>2, <1>3, <1>4

\* The rows secured for a call are among those its plan locks.
LEMMA PlanSecures ==
    ASSUME TypeOK, NEW t, CallFields(t.call), Reads(t), Missing(t) = {},
           Placed(t.call, t.allocations)
    PROVE  Secured(t.call) \subseteq t.held
  <1> DEFINE c == t.call
  <1>1. CASE c.name \in {"update_donation", "annul_donation"}
    <2>1. ByPk(1, "donation", {c.d}) \subseteq LockPlan(t)
      BY <1>1 DEF LockPlan, DecisionCalls
    <2> QED BY <1>1, <2>1, PlanIsHeld DEF Secured
  <1>2. CASE c.name = "create_allocation"
    <2>1. /\ ByPk(1, "donation", {c.d}) \subseteq LockPlan(t)
          /\ ByPk(2, "project", {c.p}) \subseteq LockPlan(t)
      BY <1>2 DEF LockPlan, CreationLocks, DecisionCalls
    <2>2. <<"donation", c.d>> \in t.held /\ <<"project", c.p>> \in t.held
      BY <2>1, PlanIsHeld
    <2> QED BY <1>2, <2>2 DEF Secured
  <1>3. CASE c.name = "update_allocation"
    <2>1. /\ ByPk(1, "allocation", {c.a}) \subseteq LockPlan(t)
          /\ ByPk(2, "donation", {allocation[c.a].donation, c.d}) \subseteq LockPlan(t)
          /\ ByPk(3, "project", {c.p}) \subseteq LockPlan(t)
      BY <1>3 DEF LockPlan, ReplacementLocks, DecisionCalls
    <2>2. /\ <<"allocation", c.a>> \in t.held
          /\ <<"donation", c.d>> \in t.held
          /\ <<"project", c.p>> \in t.held
      BY <2>1, PlanIsHeld
    <2> QED BY <1>3, <2>2 DEF Secured
  <1>4. CASE c.name \in {"finish_allocation", "create_request", "create_expense_legacy"}
    <2>1. Parents(t) \subseteq LockPlan(t)
      BY <1>4 DEF LockPlan, DecisionCalls
    <2>2. <<"allocation", c.a>> \in t.held
      BY <1>4, <2>1, ParentsAreHeld DEF Reads
    <2> QED BY <1>4, <2>2 DEF Secured
  <1>5. CASE c.name = "annul_allocation"
    <2>1. ByPk(2, "allocation", t.allocations) \subseteq LockPlan(t)
      BY <1>5 DEF LockPlan, Referred, DecisionCalls
    <2>2. <<"allocation", c.a>> \in t.held
      BY <1>5, <2>1, PlanIsHeld DEF Reads
    <2> QED BY <1>5, <2>2 DEF Secured
  <1>6. CASE c.name = "finish_project"
    <2>1. ByPk(3, "project", {c.p}) \subseteq LockPlan(t)
      BY <1>6 DEF LockPlan, DecisionCalls
    <2>2. <<"project", c.p>> \in t.held
      BY <2>1, PlanIsHeld
    <2> QED BY <1>6, <2>2 DEF Secured
  <1>7. CASE c.name = "update_request"
    <2>1. /\ Parents(t) \subseteq LockPlan(t)
          /\ ByPk(3, "request", {c.r}) \subseteq LockPlan(t)
      BY <1>7 DEF LockPlan, RequestEditLocks
    <2>2. <<"allocation", c.a>> \in t.held
      BY <1>7, <2>1, ParentsAreHeld DEF Reads
    <2>3. <<"request", c.r>> \in t.held
      BY <2>1, PlanIsHeld
    <2> QED BY <1>7, <2>2, <2>3 DEF Secured
  <1>8. CASE c.name \in DecisionCalls
    <2>1. /\ Parents(t) \subseteq LockPlan(t)
          /\ ByPk(3, "request", {c.r}) \subseteq LockPlan(t)
      BY <1>8 DEF LockPlan, DecisionCalls
    <2>2. <<"request", c.r>> \in t.held
      BY <2>1, PlanIsHeld
    <2>3. \A a \in t.allocations : <<"allocation", a>> \in t.held
      BY <2>1, ParentsAreHeld
    <2>4. CASE c.name \in {"approve_request", "fulfill_request"}
      <3>1. request[c.r].allocation \in t.allocations
        BY <2>4 DEF Placed
      <3> QED BY <2>2, <2>3, <2>4, <3>1 DEF Secured
    <2>5. CASE c.name = "annul_request"
      <3>1. Held(c.r) > 0 => request[c.r].allocation \in t.allocations
        BY <2>5 DEF Placed
      <3> QED BY <2>2, <2>3, <2>5, <3>1 DEF Secured
    <2>6. CASE c.name = "withdraw_request"
      BY <2>2, <2>6 DEF Secured
    <2> QED BY <1>8, <2>4, <2>5, <2>6 DEF DecisionCalls
  <1>9. CASE c.name = "update_expense"
    <2>1. /\ ByPk(2, "allocation", t.allocations) \subseteq LockPlan(t)
          /\ ByPk(3, "expense", {c.e}) \subseteq LockPlan(t)
      BY <1>9 DEF LockPlan, Referred, DecisionCalls
    <2>2. <<"allocation", c.a>> \in t.held
      BY <1>9, <2>1, PlanIsHeld DEF Reads
    <2>3. <<"expense", c.e>> \in t.held
      BY <2>1, PlanIsHeld
    <2> QED BY <1>9, <2>2, <2>3 DEF Secured
  <1>10. CASE c.name = "annul_expense"
    <2>1. ByPk(3, "expense", {c.e}) \subseteq LockPlan(t)
      BY <1>10 DEF LockPlan, Referred, DecisionCalls
    <2>2. <<"expense", c.e>> \in t.held
      BY <2>1, PlanIsHeld
    <2> QED BY <1>10, <2>2 DEF Secured
  <1> QED BY <1>1, <1>2, <1>3, <1>4, <1>5, <1>6, <1>7, <1>8, <1>9, <1>10
          DEF CallFields, RequestCalls

\* What a transaction checks on its locks is the guard of its call, made where
\* the request is.
LEMMA ChecksPass ==
    ASSUME TypeOK, ReferencesExist, LifeInv, NEW t, CallFields(t.call), Reads(t),
           Missing(t) = {}, Checks(t)
    PROVE  Passed(t, t.call)
  <1> DEFINE c == t.call
             r == t.call.r
  <1>1. Guard(c) /\ Placed(c, t.allocations)
    <2>1. CASE c.name = "approve_request"
      <3>1. r \in Requests
        BY <2>1 DEF CallFields
      <3>2. PICK a \in Allocations : t.allocations = {a}
        BY <2>1 DEF Reads, DecisionCalls
      <3>3. ApprovalChecks(r, a)
        BY <2>1, <3>2 DEF Checks
      <3>4. request[r].allocation = a
        BY <3>1, <3>3, DecisionsConsolidate
      <3>5. MayApproveRequest(r)
        BY <3>3, <3>4 DEF ApprovalChecks, MayApproveRequest
      <3> QED BY <2>1, <3>2, <3>4, <3>5 DEF Guard, Placed
    <2>2. CASE c.name = "fulfill_request"
      <3>1. r \in Requests /\ c.m \in Positive
        BY <2>2 DEF CallFields
      <3>2. PICK a \in Allocations : t.allocations = {a}
        BY <2>2 DEF Reads, DecisionCalls
      <3>3. FulfilmentChecks(r, a, c.m) /\ expense[c.e].status = "absent"
        BY <2>2, <3>2 DEF Checks
      <3>4. request[r].allocation = a
        BY <3>1, <3>3, DecisionsConsolidate
      <3>5. MayFulfillRequest(r, c.e, c.m)
        BY <3>3, <3>4 DEF FulfilmentChecks, MayFulfillRequest, Own, Held
      <3> QED BY <2>2, <3>2, <3>4, <3>5 DEF Guard, Placed
    <2>3. CASE c.name = "annul_request"
      <3>1. r \in Requests
        BY <2>3 DEF CallFields
      <3>2. PICK a \in Allocations : t.allocations = {a}
        BY <2>3 DEF Reads, DecisionCalls
      <3>3. AnnulmentChecks(r, a)
        BY <2>3, <3>2 DEF Checks
      <3>4. CASE request[r].allocation = a
        <4>1. MayAnnulRequest(r)
          BY <3>3, <3>4 DEF AnnulmentChecks, MayAnnulRequest, Own
        <4> QED BY <2>3, <3>2, <3>4, <4>1 DEF Guard, Placed
      <3>5. CASE request[r].allocation # a
        <4>1. Held(r) = 0
          BY <3>1, <3>3, <3>5, DecisionsConsolidate
        <4>2. request[r].allocation \in Allocations
          BY <3>1, <3>3, RequestPlace DEF AnnulmentChecks, OpenFinancialStatuses
        <4>3. Consolidates(request[r].allocation, Unreserved(request[r].allocation) + 0, 0)
          BY <4>2, BalanceType, EquationsHold DEF BalancesTyped, Equations
        <4>4. MayAnnulRequest(r)
          BY <3>3, <4>1, <4>3 DEF AnnulmentChecks, MayAnnulRequest
        <4> QED BY <2>3, <4>1, <4>4 DEF Guard, Placed
      <3> QED BY <3>4, <3>5
    <2>4. CASE c.name \notin {"approve_request", "fulfill_request", "annul_request"}
      BY <2>4 DEF Checks, Placed
    <2> QED BY <2>1, <2>2, <2>3, <2>4
  <1>2. Secured(c) \subseteq t.held
    BY <1>1, PlanSecures
  <1> QED BY <1>1, <1>2 DEF Passed

-------------------------------------------------------------------------------
(* The inductive invariant of the transactions.                            *)

LedgerInv == TypeOK /\ ReferencesExist /\ LifeInv

Shape ==
    /\ DOMAIN tx = Workers
    /\ \A w \in Workers :
           /\ DOMAIN tx[w] = DOMAIN NoTx
           /\ tx[w].phase \in {"idle", "begun", "locking", "checked"}
           /\ tx[w].phase # "idle" => tx[w].call \in Call /\ Reads(tx[w])

\* A row is locked by one transaction, and an id handed out to one.
Exclusive ==
    \A v, w \in Workers : v # w =>
        /\ tx[v].held \cap tx[w].held = {}
        /\ tx[v].phase # "idle" /\ tx[w].phase # "idle" =>
               Inserted(tx[v].call) \cap Inserted(tx[w].call) = {}

ChecksKept ==
    \A w \in Workers, c \in Call :
        tx[w].phase = "checked" /\ tx[w].call = c => Passed(tx[w], c)

LocksInv == LedgerInv /\ Shape /\ Exclusive /\ ChecksKept

LEMMA LedgerKept ==
    ASSUME LedgerInv, [Next]_vars
    PROVE  LedgerInv'
  BY StepType, StepReferences, StepLife DEF LedgerInv

\* A step that leaves the tables alone leaves every row as it was.
LEMMA UnchangedFrame ==
    ASSUME UNCHANGED vars, NEW held, NEW fresh
    PROVE  Frame(held, fresh)
  BY DEF vars, Frame, Keeps, KeepsFree, KeepsTerminal, KeepsDonation, KeepsProject,
         KeepsAllocation, KeepsExpense, AllocationsOf, OpenRequests, ReservingRequests,
         ExecutingExpenses, Linked

\* What a transaction has checked is still true after a step of another one.
LEMMA OthersKeepPassed ==
    ASSUME LocksInv, LedgerInv', NEW w \in Workers, NEW v \in Workers, v # w,
           UNCHANGED vars \/ (tx[w].phase = "checked" /\ Effect(tx[w].call)),
           tx[v].phase = "checked", tx'[v] = tx[v], NEW c \in Call, tx[v].call = c
    PROVE  Passed(tx[v], c)'
  <1>1. PICK t : t = tx[v]
    OBVIOUS
  <1>2. CallFields(c) /\ Passed(t, c)
    BY <1>1, CallsAreTyped DEF LocksInv, ChecksKept
  <1>3. Frame(t.held, Inserted(c))
    <2>1. CASE UNCHANGED vars
      BY <2>1, UnchangedFrame
    <2>2. CASE tx[w].phase = "checked" /\ Effect(tx[w].call)
      <3>1. PICK o \in Call : o = tx[w].call
        BY <2>2 DEF LocksInv, Shape
      <3>2. CallFields(o) /\ Secured(o) \subseteq tx[w].held
        BY <2>2, <3>1, CallsAreTyped DEF LocksInv, ChecksKept, Passed
      <3>3. Apart(o, t.held, Inserted(c))
        BY <1>1, <2>2, <3>1, <3>2 DEF LocksInv, Exclusive, Apart
      <3> QED BY <2>2, <3>1, <3>2, <3>3, CommitFrame DEF LocksInv, LedgerInv
    <2> QED BY <2>1, <2>2
  <1>4. Passed(t, c)'
    BY <1>2, <1>3, PassedStays DEF LocksInv, LedgerInv
  <1> QED BY <1>1, <1>4 DEF Passed, Placed

\* A step of worker w, which leaves the invariant for w and its locks disjoint.
LEMMA StepOfOne ==
    ASSUME LocksInv, LedgerInv', NEW w \in Workers,
           UNCHANGED vars \/ (tx[w].phase = "checked" /\ Effect(tx[w].call)),
           NEW row, tx' = [tx EXCEPT ![w] = row],
           DOMAIN row = DOMAIN NoTx,
           row.phase \in {"idle", "begun", "locking", "checked"},
           row.phase # "idle" => row.call \in Call /\ Reads(row),
           \A v \in Workers \ {w} :
               /\ tx[v].held \cap row.held = {}
               /\ tx[v].phase # "idle" /\ row.phase # "idle" =>
                      Inserted(tx[v].call) \cap Inserted(row.call) = {},
           row.phase = "checked" => UNCHANGED vars /\ Passed(row, row.call)
    PROVE  LocksInv'
  <1>1. /\ DOMAIN tx' = Workers
        /\ tx'[w] = row
        /\ \A v \in Workers \ {w} : tx'[v] = tx[v]
    BY DEF LocksInv, Shape
  <1>2. Shape'
    BY <1>1 DEF LocksInv, Shape, Reads
  <1>3. Exclusive'
    BY <1>1 DEF LocksInv, Exclusive, Inserted
  <1>4. ASSUME NEW v \in Workers, NEW c \in Call, tx'[v].phase = "checked", tx'[v].call = c
        PROVE  Passed(tx[v], c)'
    <2>1. CASE v # w
      <3>1. tx'[v] = tx[v]
        BY <1>1, <2>1
      <3> QED BY <1>4, <2>1, <3>1, OthersKeepPassed
    <2>2. CASE v = w
      <3>1. UNCHANGED vars /\ Passed(row, c)
        BY <1>1, <1>4, <2>2
      <3>2. CallFields(c)
        BY CallsAreTyped
      <3>3. PICK t : t = row
        OBVIOUS
      <3>4. Frame(t.held, Inserted(c))
        BY <3>1, UnchangedFrame
      <3>5. Passed(t, c)'
        BY <3>1, <3>2, <3>3, <3>4, PassedStays DEF LocksInv, LedgerInv
      <3> QED BY <1>1, <2>2, <3>3, <3>5 DEF Passed, Placed
    <2> QED BY <2>1, <2>2
  <1> QED BY <1>2, <1>3, <1>4 DEF LocksInv, ChecksKept

\* A step that leaves the tables alone.
LEMMA QuietLedger ==
    ASSUME LedgerInv, UNCHANGED vars
    PROVE  LedgerInv'
  BY LedgerKept

\* The rows Found are those the reference reads need.
LEMMA BeginKeeps ==
    ASSUME LocksInv, NEW w \in Workers, NEW c \in Call, Begin(w, c)
    PROVE  LocksInv'
  <1>1. CallFields(c) /\ LedgerInv
    BY CallsAreTyped DEF LocksInv
  <1> DEFINE row == [NoTx EXCEPT !.phase = IF c.name \in DirectCalls THEN "locking" ELSE "begun",
                                 !.call = c,
                                 !.allocations = FirstReference(c)]
  <1>2. /\ row.phase \in {"begun", "locking"}
        /\ row.call = c
        /\ row.allocations = FirstReference(c)
        /\ row.held = {}
        /\ DOMAIN row = DOMAIN NoTx
    BY DEF NoTx
  <1>3. ASSUME c.name \in {"finish_allocation", "annul_allocation", "create_request",
                           "update_request", "create_expense_legacy", "update_expense"}
        PROVE  c.a \in row.allocations
    <2>1. "a" \in DOMAIN c
      BY <1>3 DEF Call
    <2> QED BY <1>2, <2>1 DEF FirstReference
  <1>4. ASSUME c.name \in DecisionCalls PROVE \E a \in Allocations : row.allocations = {a}
    <2>1. "a" \notin DOMAIN c /\ "r" \in DOMAIN c /\ c.name # "update_expense"
      BY <1>4 DEF Call, DecisionCalls
    <2>2. row.allocations = {request[c.r].allocation}
      BY <1>2, <1>4, <2>1 DEF FirstReference, RequestCalls
    <2>3. HasRow(request[c.r]) /\ c.r \in Requests
      <3>1. c.r \in Requests
        BY <1>1, <1>4 DEF CallFields, DecisionCalls
      <3>2. <<"request", c.r>> \notin Inserted(c)
        BY <1>4 DEF Inserted, DecisionCalls
      <3>3. HasRow(request[c.r]) <=> <<"request", c.r>> \notin Inserted(c)
        BY <2>1 DEF Begin, Found
      <3> QED BY <3>1, <3>2, <3>3
    <2>4. request[c.r].allocation \in Allocations
      BY <1>1, <2>3, RequestPlace DEF LedgerInv, HasRow, NoRow
    <2> QED BY <2>2, <2>4
  <1>5. Reads(row)
    BY <1>2, <1>3, <1>4 DEF Reads
  <1>6. \A v \in Workers \ {w} :
            /\ tx[v].held \cap row.held = {}
            /\ tx[v].phase # "idle" => Inserted(tx[v].call) \cap Inserted(row.call) = {}
    BY <1>2 DEF Begin
  <1>7. UNCHANGED vars /\ tx' = [tx EXCEPT ![w] = row]
    BY DEF Begin
  <1> HIDE DEF row
  <1>8. LedgerInv'
    BY <1>1, <1>7, QuietLedger
  <1> QED BY <1>2, <1>5, <1>6, <1>7, <1>8, StepOfOne

LEMMA ReferKeeps ==
    ASSUME LocksInv, NEW w \in Workers, Refer(w)
    PROVE  LocksInv'
  <1>1. PICK t : t = tx[w]
    OBVIOUS
  <1>2. /\ t.phase = "begun" /\ t.call \in Call /\ Reads(t)
        /\ DOMAIN t = DOMAIN NoTx
        /\ DOMAIN tx = Workers
    BY <1>1 DEF Refer, LocksInv, Shape
  <1> DEFINE as == SecondReference(t)
             row == [t EXCEPT !.phase = "locking", !.allocations = as,
                              !.donations = {allocation[a].donation : a \in as}]
  <1>3. /\ row.phase = "locking" /\ row.call = t.call /\ row.held = t.held
        /\ row.allocations = as
        /\ DOMAIN row = DOMAIN NoTx
    BY <1>2 DEF NoTx
  <1>4. Reads(row)
    <2>1. t.call.name \in {"finish_allocation", "annul_allocation", "create_request",
                           "update_request", "create_expense_legacy", "update_expense"}
              \cup DecisionCalls => as = t.allocations
      BY DEF SecondReference, DecisionCalls
    <2> QED BY <1>2, <1>3, <2>1 DEF Reads
  <1>5. \A v \in Workers \ {w} :
            /\ tx[v].held \cap row.held = {}
            /\ tx[v].phase # "idle" => Inserted(tx[v].call) \cap Inserted(row.call) = {}
    BY <1>1, <1>2, <1>3 DEF LocksInv, Exclusive
  <1>6. UNCHANGED vars /\ tx' = [tx EXCEPT ![w] = row]
    BY <1>1, <1>2 DEF Refer
  <1> HIDE DEF row
  <1>7. LedgerInv'
    BY <1>6, QuietLedger DEF LocksInv
  <1> QED BY <1>2, <1>3, <1>4, <1>5, <1>6, <1>7, StepOfOne

LEMMA LockKeeps ==
    ASSUME LocksInv, NEW w \in Workers, Lock(w)
    PROVE  LocksInv'
  <1>1. PICK t : t = tx[w]
    OBVIOUS
  <1>2. /\ t.phase = "locking" /\ t.call \in Call /\ Reads(t)
        /\ DOMAIN t = DOMAIN NoTx
        /\ DOMAIN tx = Workers
    BY <1>1 DEF Lock, LocksInv, Shape
  <1> DEFINE row == [t EXCEPT !.held = @ \cup {NextLock(t)}]
  <1>3. /\ row.phase = "locking" /\ row.call = t.call /\ row.held = t.held \cup {NextLock(t)}
        /\ row.allocations = t.allocations
        /\ DOMAIN row = DOMAIN NoTx
    BY <1>2 DEF NoTx
  <1>4. Reads(row)
    BY <1>2, <1>3 DEF Reads
  <1>5. \A v \in Workers \ {w} :
            /\ tx[v].held \cap row.held = {}
            /\ tx[v].phase # "idle" => Inserted(tx[v].call) \cap Inserted(row.call) = {}
    <2>1. \A v \in Workers \ {w} :
              /\ NextLock(t) \notin tx[v].held
              /\ tx[v].held \cap t.held = {}
              /\ tx[v].phase # "idle" => Inserted(tx[v].call) \cap Inserted(t.call) = {}
      BY <1>1, <1>2 DEF Lock, LocksInv, Exclusive
    <2> QED BY <1>3, <2>1
  <1>6. UNCHANGED vars /\ tx' = [tx EXCEPT ![w] = row]
    BY <1>1, <1>2 DEF Lock
  <1> HIDE DEF row
  <1>7. LedgerInv'
    BY <1>6, QuietLedger DEF LocksInv
  <1>8. /\ row.phase \in {"idle", "begun", "locking", "checked"}
        /\ row.phase # "idle" => row.call \in Call /\ Reads(row)
        /\ \A v \in Workers \ {w} :
               /\ tx[v].held \cap row.held = {}
               /\ tx[v].phase # "idle" /\ row.phase # "idle" =>
                      Inserted(tx[v].call) \cap Inserted(row.call) = {}
        /\ row.phase = "checked" => UNCHANGED vars /\ Passed(row, row.call)
    BY ONLY <1>2, <1>3, <1>4, <1>5
  <1> QED BY ONLY LocksInv, w \in Workers, <1>3, <1>6, <1>7, <1>8, StepOfOne

\* Here the checks become the guard of the call, on the locks it stands on.
LEMMA PassKeeps ==
    ASSUME LocksInv, NEW w \in Workers, Pass(w)
    PROVE  LocksInv'
  <1>1. PICK t : t = tx[w]
    OBVIOUS
  <1>2. /\ t.phase = "locking" /\ t.call \in Call /\ Reads(t)
        /\ Missing(t) = {} /\ Checks(t)
        /\ DOMAIN t = DOMAIN NoTx
        /\ DOMAIN tx = Workers
    BY <1>1 DEF Pass, LocksInv, Shape
  <1>3. Passed(t, t.call)
    BY <1>2, CallsAreTyped, ChecksPass DEF LocksInv, LedgerInv
  <1> DEFINE row == [t EXCEPT !.phase = "checked"]
  <1>4. /\ row.phase = "checked" /\ row.call = t.call /\ row.held = t.held
        /\ row.allocations = t.allocations
        /\ DOMAIN row = DOMAIN NoTx
    BY <1>2 DEF NoTx
  <1>5. Reads(row)
    BY <1>2, <1>4 DEF Reads
  <1>6. Passed(row, row.call)
    BY <1>3, <1>4 DEF Passed
  <1>7. \A v \in Workers \ {w} :
            /\ tx[v].held \cap row.held = {}
            /\ tx[v].phase # "idle" => Inserted(tx[v].call) \cap Inserted(row.call) = {}
    BY <1>1, <1>2, <1>4 DEF LocksInv, Exclusive
  <1>8. UNCHANGED vars /\ tx' = [tx EXCEPT ![w] = row]
    BY <1>1, <1>2 DEF Pass
  <1> HIDE DEF row
  <1>9. LedgerInv'
    BY <1>8, QuietLedger DEF LocksInv
  <1> QED BY <1>2, <1>4, <1>5, <1>6, <1>7, <1>8, <1>9, StepOfOne

\* The end of a transaction, with its commit or without.
LEMMA EndKeeps ==
    ASSUME LocksInv, NEW w \in Workers, Commit(w) \/ Reject(w) \/ Abort(w)
    PROVE  LocksInv'
  <1>1. UNCHANGED vars \/ (tx[w].phase = "checked" /\ Effect(tx[w].call))
    BY DEF Commit, Reject, Abort
  <1>2. tx' = [tx EXCEPT ![w] = NoTx]
    BY DEF Commit, Reject, Abort
  <1>3. LedgerInv'
    <2>1. CASE UNCHANGED vars
      BY <2>1, QuietLedger DEF LocksInv
    <2>2. CASE tx[w].phase = "checked" /\ Effect(tx[w].call)
      <3>1. PICK o \in Call : o = tx[w].call
        BY <2>2 DEF LocksInv, Shape
      <3>2. Next
        BY <2>2, <3>1, CallsAreTyped, EffectIsStep
      <3> QED BY <3>2, LedgerKept DEF LocksInv
    <2> QED BY <1>1, <2>1, <2>2
  <1>4. NoTx.phase = "idle" /\ NoTx.held = {}
    BY DEF NoTx
  <1> QED BY <1>1, <1>2, <1>3, <1>4, StepOfOne

LEMMA StepLocks ==
    ASSUME LocksInv, [LocksNext]_allVars
    PROVE  LocksInv'
  <1>1. CASE UNCHANGED allVars
    <2>1. UNCHANGED vars /\ UNCHANGED tx
      BY <1>1 DEF allVars
    <2>2. LedgerInv'
      BY <2>1, QuietLedger DEF LocksInv
    <2>3. Shape' /\ Exclusive'
      BY <2>1 DEF LocksInv, Shape, Exclusive, Reads, Inserted
    <2>4. ASSUME NEW v \in Workers, NEW c \in Call, tx'[v].phase = "checked", tx'[v].call = c
          PROVE  Passed(tx[v], c)'
      <3>1. CallFields(c)
        BY CallsAreTyped
      <3>2. PICK t : t = tx[v]
        OBVIOUS
      <3>3. Passed(t, c) /\ Frame(t.held, Inserted(c))
        BY <2>1, <2>4, <3>2, UnchangedFrame DEF LocksInv, ChecksKept
      <3>4. Passed(t, c)'
        BY <2>2, <3>1, <3>3, PassedStays DEF LocksInv, LedgerInv
      <3> QED BY <2>1, <3>2, <3>4 DEF Passed, Placed
    <2> QED BY <2>2, <2>3, <2>4 DEF LocksInv, ChecksKept
  <1>2. CASE LocksNext
    BY <1>2, BeginKeeps, ReferKeeps, LockKeeps, PassKeeps, EndKeeps DEF LocksNext
  <1> QED BY <1>1, <1>2

LEMMA LocksStepIsLedgerStep ==
    ASSUME LocksInv, [LocksNext]_allVars
    PROVE  [Next]_vars
  <1>1. CASE UNCHANGED allVars
    BY <1>1 DEF allVars
  <1>2. ASSUME NEW w \in Workers, Commit(w) PROVE Next
    <2>1. PICK c \in Call : c = tx[w].call
      BY <1>2 DEF Commit, LocksInv, Shape
    <2> QED BY <1>2, <2>1, CallsAreTyped, EffectIsStep DEF Commit
  <1>3. ASSUME NEW w \in Workers,
               \/ \E c \in Call : Begin(w, c)
               \/ Refer(w) \/ Lock(w) \/ Pass(w) \/ Reject(w) \/ Abort(w)
        PROVE  UNCHANGED vars
    BY <1>3 DEF Begin, Refer, Lock, Pass, Reject, Abort
  <1> QED BY <1>1, <1>2, <1>3 DEF LocksNext

-------------------------------------------------------------------------------
(* The order of the locks: what a plan locks, and where.                   *)

Ids    == Donations \cup Projects \cup Allocations \cup Requests \cup Expenses

ParentCalls ==
    {"finish_allocation", "create_request", "create_expense_legacy", "update_request"}
        \cup DecisionCalls
ReferredCalls == {"annul_allocation", "finish_project", "update_expense", "annul_expense"}

\* The donations a call locks first.
FirstDonations(t) == IF t.call.name \in DirectCalls THEN {t.call.d} ELSE t.donations

Under(p) == {a \in Allocations : allocation[a].project = p}

\* The requests whose rows a call locks in the order of their pk.
SweptRequests(c) ==
    CASE c.name = "finish_allocation" -> OpenRequests(c.a)
      [] c.name = "finish_project"    -> OpenUnder(Under(c.p))
      [] c.name = "annul_expense"     -> {r \in Requests : request[r].expense = c.e}
      [] OTHER                        -> {}

DonationEntry(t, lock, d) ==
    /\ lock.row = <<"donation", d>>
    /\ \/ lock.at = <<1, d, 0>> /\ d \in FirstDonations(t)
       \/ /\ t.call.name \in ParentCalls
          /\ \E a \in t.allocations : lock.at = <<2, a, 1>> /\ d = allocation[a].donation

AllocationEntry(t, lock, a) ==
    /\ lock.row = <<"allocation", a>>
    /\ t.call.name \in ParentCalls \cup ReferredCalls
    /\ \/ lock.at = <<2, a, 0>> /\ a \in t.allocations
       \/ /\ t.call.name = "update_request"
          /\ lock.at = <<4, a, 0>>
          /\ a = request[t.call.r].allocation

ProjectEntry(t, lock, p) ==
    /\ lock.row = <<"project", p>>
    /\ \/ /\ t.call.name \in ParentCalls
          /\ \E a \in t.allocations : lock.at = <<2, a, 2>> /\ p = allocation[a].project
       \/ t.call.name = "create_allocation" /\ lock.at = <<2, p, 0>> /\ p = t.call.p
       \/ t.call.name = "finish_project" /\ lock.at = <<3, p, 0>> /\ p = t.call.p
       \/ /\ t.call.name = "update_expense"
          /\ lock.at = <<4, p, 0>>
          /\ p \in ProjectOf(t.allocations)

ExpenseEntry(t, lock, e) ==
    /\ lock.row = <<"expense", e>>
    /\ t.call.name \in {"update_expense", "annul_expense"}
    /\ lock.at = <<3, e, 0>>
    /\ e = t.call.e

RequestEntry(t, lock, r) ==
    /\ lock.row = <<"request", r>>
    /\ \/ t.call.name \in RequestCalls /\ lock.at = <<3, r, 0>> /\ r = t.call.r
       \/ /\ t.call.name = "finish_allocation"
          /\ lock.at = <<3, r, 0>>
          /\ r \in SweptRequests(t.call)
       \/ /\ t.call.name \in {"finish_project", "annul_expense"}
          /\ lock.at = <<4, r, 0>>
          /\ r \in SweptRequests(t.call)

Entry(t, lock) ==
    \/ \E d \in Ids : DonationEntry(t, lock, d)
    \/ \E a \in Ids : AllocationEntry(t, lock, a)
    \/ \E p \in Ids : ProjectEntry(t, lock, p)
    \/ \E e \in Ids : ExpenseEntry(t, lock, e)
    \/ \E r \in Ids : RequestEntry(t, lock, r)

\* The rows the reference reads and the call itself name exist.
RowsThere(t) ==
    /\ t.call.name \notin DirectCalls =>
           \A a \in t.allocations : a \in Allocations /\ HasRow(allocation[a])
    /\ t.call.name \in RequestCalls => HasRow(request[t.call.r])
    /\ t.call.name = "annul_expense" => HasRow(expense[t.call.e])

LEMMA RequestRowPlace ==
    ASSUME LedgerInv, NEW r \in Requests, HasRow(request[r])
    PROVE  request[r].allocation \in Allocations
  BY RequestPlace DEF LedgerInv, HasRow, NoRow

\* An allocation that exists is joined to rows that exist.
LEMMA JoinedIds ==
    ASSUME LedgerInv, NEW a \in Allocations, HasRow(allocation[a])
    PROVE  a \in Ids /\ allocation[a].donation \in Donations /\ allocation[a].project \in Projects
  BY DEF LedgerInv, ReferencesExist, RowReferences, AllocationReferences, Ids

LEMMA ParentEntries ==
    ASSUME LedgerInv, NEW t, t.call.name \in ParentCalls, RowsThere(t),
           t.donations \subseteq Donations, NEW lock \in Parents(t)
    PROVE  Entry(t, lock)
  <1>1. t.call.name \notin DirectCalls
    BY DEF ParentCalls, DirectCalls, DecisionCalls
  <1>2. CASE lock \in ByPk(1, "donation", t.donations)
    <2>1. PICK d \in t.donations : lock = LockAt(1, d, 0, "donation", d)
      BY <1>2 DEF ByPk
    <2>2. DonationEntry(t, lock, d) /\ d \in Ids
      BY <1>1, <2>1 DEF DonationEntry, LockAt, FirstDonations, Ids
    <2> QED BY <2>2 DEF Entry
  <1>3. ASSUME NEW a \in t.allocations, lock \in Joined(2, a)
        PROVE  Entry(t, lock)
    <2>1. /\ a \in Allocations /\ a \in Ids
          /\ allocation[a].donation \in Ids /\ allocation[a].project \in Ids
      BY <1>1, <1>3, JoinedIds DEF RowsThere, Ids
    <2>2. CASE lock = LockAt(2, a, 0, "allocation", a)
      BY <2>1, <2>2 DEF Entry, AllocationEntry, LockAt
    <2>3. CASE lock = LockAt(2, a, 1, "donation", allocation[a].donation)
      <3>1. DonationEntry(t, lock, allocation[a].donation)
        BY <2>3 DEF DonationEntry, LockAt
      <3> QED BY <2>1, <3>1 DEF Entry
    <2>4. CASE lock = LockAt(2, a, 2, "project", allocation[a].project)
      <3>1. ProjectEntry(t, lock, allocation[a].project)
        BY <2>4 DEF ProjectEntry, LockAt
      <3> QED BY <2>1, <3>1 DEF Entry
    <2> QED BY <1>3, <2>2, <2>3, <2>4 DEF Joined
  <1> QED BY <1>2, <1>3 DEF Parents

LEMMA ReferredEntries ==
    ASSUME LedgerInv, NEW t, t.call.name \in ReferredCalls, RowsThere(t),
           t.donations \subseteq Donations, NEW lock \in Referred(t)
    PROVE  Entry(t, lock)
  <1>1. t.call.name \notin DirectCalls
    BY DEF ReferredCalls, DirectCalls
  <1>2. CASE lock \in ByPk(1, "donation", t.donations)
    <2>1. PICK d \in t.donations : lock = LockAt(1, d, 0, "donation", d)
      BY <1>2 DEF ByPk
    <2>2. DonationEntry(t, lock, d) /\ d \in Ids
      BY <1>1, <2>1 DEF DonationEntry, LockAt, FirstDonations, Ids
    <2> QED BY <2>2 DEF Entry
  <1>3. CASE lock \in ByPk(2, "allocation", t.allocations)
    <2>1. PICK a \in t.allocations : lock = LockAt(2, a, 0, "allocation", a)
      BY <1>3 DEF ByPk
    <2>2. AllocationEntry(t, lock, a) /\ a \in Ids
      BY <1>1, <2>1 DEF AllocationEntry, LockAt, RowsThere, Ids
    <2> QED BY <2>2 DEF Entry
  <1> QED BY <1>2, <1>3 DEF Referred

\* Every lock of a plan, update_fund_allocation aside, is one of these.
LEMMA PlanEntries ==
    ASSUME LedgerInv, NEW t, CallFields(t.call), t.call.name # "update_allocation", RowsThere(t),
           t.donations \subseteq Donations, NEW lock \in LockPlan(t)
    PROVE  Entry(t, lock)
  <1> DEFINE c == t.call
  <1> USE DEF CallFields
  <1>1. CASE c.name \in {"update_donation", "annul_donation"}
    <2>1. lock = LockAt(1, c.d, 0, "donation", c.d)
      BY <1>1 DEF LockPlan, ByPk, DecisionCalls
    <2>2. DonationEntry(t, lock, c.d) /\ c.d \in Ids
      BY <1>1, <2>1 DEF DonationEntry, LockAt, FirstDonations, DirectCalls, Ids
    <2> QED BY <2>2 DEF Entry
  <1>2. CASE c.name = "create_allocation"
    <2>1. \/ lock = LockAt(1, c.d, 0, "donation", c.d)
          \/ lock = LockAt(2, c.p, 0, "project", c.p)
      BY <1>2 DEF LockPlan, CreationLocks, ByPk, DecisionCalls
    <2>2. \/ DonationEntry(t, lock, c.d)
          \/ ProjectEntry(t, lock, c.p)
      BY <1>2, <2>1 DEF DonationEntry, ProjectEntry, LockAt, FirstDonations, DirectCalls
    <2>3. c.d \in Ids /\ c.p \in Ids
      BY <1>2 DEF Ids
    <2> QED BY <2>2, <2>3 DEF Entry
  <1>3. CASE c.name = "finish_allocation"
    <2>1. CASE lock \in Parents(t)
      BY <1>3, <2>1, ParentEntries DEF ParentCalls
    <2>2. CASE lock \in ByPk(3, "request", OpenRequests(c.a))
      <3>1. PICK r \in OpenRequests(c.a) : lock = LockAt(3, r, 0, "request", r)
        BY <2>2 DEF ByPk
      <3>2. r \in SweptRequests(c) /\ r \in Ids
        BY <1>3 DEF SweptRequests, OpenRequests, Ids
      <3>3. RequestEntry(t, lock, r)
        BY <1>3, <3>1, <3>2 DEF RequestEntry, LockAt
      <3> QED BY <3>2, <3>3 DEF Entry
    <2> QED BY <1>3, <2>1, <2>2 DEF LockPlan, DecisionCalls
  <1>4. CASE c.name = "annul_allocation"
    <2>1. lock \in Referred(t)
      BY <1>4 DEF LockPlan, DecisionCalls
    <2> QED BY <1>4, <2>1, ReferredEntries DEF ReferredCalls
  <1>5. CASE c.name = "finish_project"
    <2>1. CASE lock \in Referred(t)
      BY <1>5, <2>1, ReferredEntries DEF ReferredCalls
    <2>2. CASE lock \in ByPk(3, "project", {c.p})
      <3>1. lock = LockAt(3, c.p, 0, "project", c.p)
        BY <2>2 DEF ByPk
      <3>2. ProjectEntry(t, lock, c.p) /\ c.p \in Ids
        BY <1>5, <3>1 DEF ProjectEntry, LockAt, Ids
      <3> QED BY <3>2 DEF Entry
    <2>3. CASE lock \in ByPk(4, "request", OpenUnder(Under(c.p)))
      <3>1. PICK r \in OpenUnder(Under(c.p)) : lock = LockAt(4, r, 0, "request", r)
        BY <2>3 DEF ByPk
      <3>2. r \in SweptRequests(c) /\ r \in Ids
        BY <1>5 DEF SweptRequests, OpenUnder, OpenRequests, Ids
      <3>3. RequestEntry(t, lock, r)
        BY <1>5, <3>1, <3>2 DEF RequestEntry, LockAt
      <3> QED BY <3>2, <3>3 DEF Entry
    <2>4. \/ lock \in Referred(t)
          \/ lock \in ByPk(3, "project", {c.p})
          \/ lock \in ByPk(4, "request", OpenUnder(Under(c.p)))
      BY <1>5 DEF LockPlan, DecisionCalls, Under
    <2> QED BY <2>1, <2>2, <2>3, <2>4
  <1>6. CASE c.name \in {"create_request", "create_expense_legacy"}
    <2>1. lock \in Parents(t)
      BY <1>6 DEF LockPlan, DecisionCalls
    <2> QED BY <1>6, <2>1, ParentEntries DEF ParentCalls
  <1>7. CASE c.name = "update_request"
    <2>1. CASE lock \in Parents(t)
      BY <1>7, <2>1, ParentEntries DEF ParentCalls
    <2>2. CASE lock \in ByPk(3, "request", {c.r})
      <3>1. lock = LockAt(3, c.r, 0, "request", c.r)
        BY <2>2 DEF ByPk
      <3>2. RequestEntry(t, lock, c.r) /\ c.r \in Ids
        BY <1>7, <3>1 DEF RequestEntry, LockAt, Ids, RequestCalls
      <3> QED BY <3>2 DEF Entry
    <2>3. CASE lock \in ByPk(4, "allocation", {request[c.r].allocation})
      <3>1. lock = LockAt(4, request[c.r].allocation, 0, "allocation", request[c.r].allocation)
        BY <2>3 DEF ByPk
      <3>2. request[c.r].allocation \in Allocations
        BY <1>7, RequestRowPlace DEF RowsThere, RequestCalls
      <3>3. AllocationEntry(t, lock, request[c.r].allocation) /\ request[c.r].allocation \in Ids
        BY <1>7, <3>1, <3>2 DEF AllocationEntry, LockAt, Ids, ParentCalls
      <3> QED BY <3>3 DEF Entry
    <2> QED BY <1>7, <2>1, <2>2, <2>3 DEF LockPlan, RequestEditLocks
  <1>8. CASE c.name \in DecisionCalls
    <2>1. CASE lock \in Parents(t)
      BY <1>8, <2>1, ParentEntries DEF ParentCalls
    <2>2. CASE lock \in ByPk(3, "request", {c.r})
      <3>1. lock = LockAt(3, c.r, 0, "request", c.r)
        BY <2>2 DEF ByPk
      <3>2. RequestEntry(t, lock, c.r) /\ c.r \in Ids
        BY <1>8, <3>1 DEF RequestEntry, LockAt, Ids, RequestCalls, DecisionCalls
      <3> QED BY <3>2 DEF Entry
    <2> QED BY <1>8, <2>1, <2>2 DEF LockPlan, DecisionCalls
  <1>9. CASE c.name = "update_expense"
    <2>1. CASE lock \in Referred(t)
      BY <1>9, <2>1, ReferredEntries DEF ReferredCalls
    <2>2. CASE lock \in ByPk(3, "expense", {c.e})
      <3>1. lock = LockAt(3, c.e, 0, "expense", c.e)
        BY <2>2 DEF ByPk
      <3>2. ExpenseEntry(t, lock, c.e) /\ c.e \in Ids
        BY <1>9, <3>1 DEF ExpenseEntry, LockAt, Ids
      <3> QED BY <3>2 DEF Entry
    <2>3. CASE lock \in ByPk(4, "project", ProjectOf(t.allocations))
      <3>1. PICK p \in ProjectOf(t.allocations) : lock = LockAt(4, p, 0, "project", p)
        BY <2>3 DEF ByPk
      <3>2. p \in Ids
        BY <1>9, JoinedIds DEF ProjectOf, RowsThere, DirectCalls, Ids
      <3>3. ProjectEntry(t, lock, p)
        BY <1>9, <3>1 DEF ProjectEntry, LockAt
      <3> QED BY <3>2, <3>3 DEF Entry
    <2> QED BY <1>9, <2>1, <2>2, <2>3 DEF LockPlan, DecisionCalls
  <1>10. CASE c.name = "annul_expense"
    <2>1. CASE lock \in Referred(t)
      BY <1>10, <2>1, ReferredEntries DEF ReferredCalls
    <2>2. CASE lock \in ByPk(3, "expense", {c.e})
      <3>1. lock = LockAt(3, c.e, 0, "expense", c.e)
        BY <2>2 DEF ByPk
      <3>2. ExpenseEntry(t, lock, c.e) /\ c.e \in Ids
        BY <1>10, <3>1 DEF ExpenseEntry, LockAt, Ids
      <3> QED BY <3>2 DEF Entry
    <2>3. CASE lock \in ByPk(4, "request", SweptRequests(c))
      <3>1. PICK r \in SweptRequests(c) : lock = LockAt(4, r, 0, "request", r)
        BY <2>3 DEF ByPk
      <3>2. r \in Ids
        BY <1>10 DEF SweptRequests, Ids
      <3>3. RequestEntry(t, lock, r)
        BY <1>10, <3>1 DEF RequestEntry, LockAt
      <3> QED BY <3>2, <3>3 DEF Entry
    <2>4. SweptRequests(c) = {r \in Requests : request[r].expense = c.e}
      BY <1>10 DEF SweptRequests
    <2> QED BY <1>10, <2>1, <2>2, <2>3, <2>4 DEF LockPlan, DecisionCalls
  <1> QED BY <1>1, <1>2, <1>3, <1>4, <1>5, <1>6, <1>7, <1>8, <1>9, <1>10 DEF RequestCalls

LEMMA PlanStarts ==
    ASSUME NEW t, CallFields(t.call), t.call.name # "update_allocation"
    PROVE  ByPk(1, "donation", FirstDonations(t)) \subseteq LockPlan(t)
  <1>1. CASE t.call.name \in {"update_donation", "annul_donation"}
    BY <1>1 DEF LockPlan, DecisionCalls, FirstDonations, DirectCalls
  <1>2. CASE t.call.name = "create_allocation"
    BY <1>2 DEF LockPlan, DecisionCalls, FirstDonations, DirectCalls, CreationLocks
  <1>3. CASE t.call.name \notin DirectCalls
    <2>1. ByPk(1, "donation", FirstDonations(t)) \subseteq Parents(t)
      BY <1>3 DEF Parents, FirstDonations
    <2>2. ByPk(1, "donation", FirstDonations(t)) \subseteq Referred(t)
      BY <1>3 DEF Referred, FirstDonations
    <2>3. Parents(t) \subseteq LockPlan(t) \/ Referred(t) \subseteq LockPlan(t)
      BY <1>3 DEF CallFields, RequestCalls, DecisionCalls, DirectCalls, LockPlan, RequestEditLocks
    <2> QED BY <2>1, <2>2, <2>3
  <1> QED BY <1>1, <1>2, <1>3 DEF DirectCalls

LEMMA ParentPlan ==
    ASSUME NEW t, t.call.name \in ParentCalls, NEW a \in t.allocations
    PROVE  Joined(2, a) \subseteq LockPlan(t)
  <1>1. Parents(t) \subseteq LockPlan(t)
    BY DEF ParentCalls, DecisionCalls, LockPlan, RequestEditLocks
  <1> QED BY <1>1 DEF Parents

LEMMA RestOfPlan ==
    ASSUME NEW t
    PROVE  /\ t.call.name = "finish_project" =>
                  LockAt(3, t.call.p, 0, "project", t.call.p) \in LockPlan(t)
           /\ t.call.name \in {"update_expense", "annul_expense"} =>
                  LockAt(3, t.call.e, 0, "expense", t.call.e) \in LockPlan(t)
           /\ t.call.name = "update_expense" =>
                  /\ ByPk(2, "allocation", t.allocations) \subseteq LockPlan(t)
                  /\ ByPk(4, "project", ProjectOf(t.allocations)) \subseteq LockPlan(t)
           /\ t.call.name = "update_request" =>
                  LockAt(3, t.call.r, 0, "request", t.call.r) \in LockPlan(t)
           /\ t.call.name = "finish_allocation" =>
                  ByPk(3, "request", SweptRequests(t.call)) \subseteq LockPlan(t)
           /\ t.call.name = "finish_project" =>
                  ByPk(4, "request", SweptRequests(t.call)) \subseteq LockPlan(t)
  BY DEF LockPlan, DecisionCalls, ByPk, Referred, RequestEditLocks, SweptRequests, Under

-------------------------------------------------------------------------------
(* The next lock is the first one that is missing.                         *)

\* lock is missing, whatever comes before it is held.
First(t, lock) ==
    /\ lock \in Missing(t)
    /\ \A other \in LockPlan(t) : Before(other.at, lock.at) => other.row \in t.held

PlaceTyped(lock) == lock.at[1] \in Nat /\ lock.at[2] \in Nat /\ lock.at[3] \in Nat

LEMMA EntriesArePlaced ==
    ASSUME NEW t, NEW lock, Entry(t, lock),
           \A a \in t.allocations : t.call.name \in DirectCalls \/ a \in Allocations
    PROVE  PlaceTyped(lock)
  <1>1. Ids \subseteq Nat /\ Allocations \subseteq Nat
    BY LocksAssumption DEF Ids
  <1>2. t.call.name \in ParentCalls => t.call.name \notin DirectCalls
    BY DEF ParentCalls, DirectCalls, DecisionCalls
  <1>3. \A k, i, j \in Nat : lock.at = <<k, i, j>> => PlaceTyped(lock)
    BY DEF PlaceTyped
  <1>4. t.call.name \in ParentCalls \cup ReferredCalls => \A a \in t.allocations : a \in Nat
    BY <1>1, <1>2 DEF ReferredCalls, DirectCalls
  <1>5. ASSUME NEW i \in Ids, DonationEntry(t, lock, i) PROVE PlaceTyped(lock)
    BY <1>1, <1>3, <1>4, <1>5 DEF DonationEntry
  <1>6. ASSUME NEW i \in Ids, AllocationEntry(t, lock, i) PROVE PlaceTyped(lock)
    BY <1>1, <1>3, <1>4, <1>6 DEF AllocationEntry
  <1>7. ASSUME NEW i \in Ids, ProjectEntry(t, lock, i) PROVE PlaceTyped(lock)
    BY <1>1, <1>3, <1>4, <1>7 DEF ProjectEntry
  <1>8. ASSUME NEW i \in Ids, ExpenseEntry(t, lock, i) PROVE PlaceTyped(lock)
    BY <1>1, <1>3, <1>8 DEF ExpenseEntry
  <1>9. ASSUME NEW i \in Ids, RequestEntry(t, lock, i) PROVE PlaceTyped(lock)
    BY <1>1, <1>3, <1>9 DEF RequestEntry
  <1> QED BY <1>5, <1>6, <1>7, <1>8, <1>9 DEF Entry

LEMMA Smallest ==
    ASSUME NEW S, S \subseteq Nat, S # {}
    PROVE  \E x \in S : \A y \in S : x <= y
  <1>1. PICK x \in S : \A y \in S : ~ (<<y, x>> \in OpToRel(<, Nat))
    BY NatLessThanWellFounded, WFMin
  <1>2. \A y \in S : ~(y < x)
    BY <1>1 DEF OpToRel
  <1>3. \A y \in S : x <= y
    BY <1>2
  <1> QED BY <1>3

LEMMA NextLockIsFirst ==
    ASSUME NEW t, Missing(t) # {}, \A lock \in LockPlan(t) : PlaceTyped(lock)
    PROVE  \E lock : First(t, lock) /\ lock.row = NextLock(t)
  <1>1. \A lock \in Missing(t) : lock \in LockPlan(t) /\ PlaceTyped(lock)
    BY DEF Missing
  <1> DEFINE S1 == {lock.at[1] : lock \in Missing(t)}
  <1>2. PICK x \in Missing(t) : \A y \in Missing(t) : x.at[1] <= y.at[1]
    <2>1. S1 \subseteq Nat /\ S1 # {}
      BY <1>1 DEF PlaceTyped
    <2>2. PICK n \in S1 : \A m \in S1 : n <= m
      BY <2>1, Smallest
    <2> QED BY <2>2
  <1> DEFINE M2 == {lock \in Missing(t) : lock.at[1] = x.at[1]}
             S2 == {lock.at[2] : lock \in M2}
  <1>3. PICK y \in M2 : \A z \in M2 : y.at[2] <= z.at[2]
    <2>1. S2 \subseteq Nat /\ S2 # {}
      BY <1>1, <1>2 DEF PlaceTyped
    <2>2. PICK n \in S2 : \A m \in S2 : n <= m
      BY <2>1, Smallest
    <2> QED BY <2>2
  <1> DEFINE M3 == {lock \in M2 : lock.at[2] = y.at[2]}
             S3 == {lock.at[3] : lock \in M3}
  <1>4. PICK z \in M3 : \A u \in M3 : z.at[3] <= u.at[3]
    <2>1. S3 \subseteq Nat /\ S3 # {}
      BY <1>1, <1>3 DEF PlaceTyped
    <2>2. PICK n \in S3 : \A m \in S3 : n <= m
      BY <2>1, Smallest
    <2> QED BY <2>2
  <1>5. z \in Missing(t) /\ \A other \in Missing(t) : ~Before(other.at, z.at)
    <2>1. z \in M2 /\ z.at[1] = x.at[1] /\ z.at[2] = y.at[2] /\ z \in Missing(t)
      BY <1>4
    <2>2. ASSUME NEW other \in Missing(t), Before(other.at, z.at) PROVE FALSE
      <3>1. /\ x.at[1] <= other.at[1]
            /\ PlaceTyped(other) /\ PlaceTyped(z) /\ PlaceTyped(x) /\ PlaceTyped(y)
        BY <1>1, <1>2, <1>3, <2>1
      <3>2. ~(other.at[1] < z.at[1])
        BY <2>1, <3>1 DEF PlaceTyped
      <3>3. other.at[1] = z.at[1]
        BY <2>2, <3>2 DEF Before
      <3>4. y.at[2] <= other.at[2]
        BY <1>3, <2>1, <3>3
      <3>5. ~(other.at[2] < z.at[2])
        BY <2>1, <3>1, <3>4 DEF PlaceTyped
      <3>6. other.at[2] = z.at[2] /\ other.at[3] < z.at[3]
        BY <2>2, <3>2, <3>5 DEF Before
      <3>7. z.at[3] <= other.at[3]
        BY <1>4, <2>1, <3>3, <3>6
      <3> QED BY <3>1, <3>6, <3>7 DEF PlaceTyped
    <2> QED BY <2>1, <2>2
  <1> DEFINE next == CHOOSE lock \in Missing(t) :
                         \A other \in Missing(t) : ~Before(other.at, lock.at)
  <1>6. next \in Missing(t) /\ \A other \in Missing(t) : ~Before(other.at, next.at)
    <2> HIDE DEF M2, M3, S1, S2, S3
    <2> QED BY <1>5
  <1>7. next.row = NextLock(t)
    BY DEF NextLock
  <1>8. First(t, next)
    <2> HIDE DEF next
    <2> QED BY <1>6 DEF First, Missing
  <1> HIDE DEF next
  <1> QED BY <1>7, <1>8

-------------------------------------------------------------------------------
(* What a transaction holds while it waits for more.                       *)

JoinedRows(a) ==
    {<<"allocation", a>>, <<"donation", allocation[a].donation>>,
     <<"project", allocation[a].project>>}

\* Donations by pk, and all of them before anything else.
DonationsFirst(t) ==
    /\ \A d \in Ids, e \in FirstDonations(t) :
           <<"donation", d>> \in t.held /\ <<"donation", e>> \notin t.held => d < e
    /\ \A table \in {"allocation", "project", "expense", "request"}, id \in Ids :
           <<table, id>> \in t.held =>
               \A e \in FirstDonations(t) : <<"donation", e>> \in t.held

AllocationsHeld(t) ==
    \A a \in Ids : <<"allocation", a>> \in t.held =>
        /\ t.call.name \in ParentCalls \cup ReferredCalls
        /\ \/ a \in t.allocations
           \/ /\ t.call.name = "update_request"
              /\ <<"request", t.call.r>> \in t.held
              /\ request[t.call.r].allocation = a

\* Allocations by pk, each with the rows joined to it, and all of them before requests.
ParentsInOrder(t) ==
    t.call.name \in ParentCalls =>
        /\ \A a, b \in t.allocations : b < a /\ <<"allocation", a>> \in t.held =>
               JoinedRows(b) \subseteq t.held
        /\ \A p \in Ids : <<"project", p>> \in t.held =>
               \E a \in t.allocations :
                   <<"allocation", a>> \in t.held /\ allocation[a].project = p
        /\ \A r \in Ids : <<"request", r>> \in t.held =>
               \A a \in t.allocations : JoinedRows(a) \subseteq t.held

ProjectsHeld(t) ==
    \A p \in Ids : <<"project", p>> \in t.held =>
        /\ t.call.name \in ParentCalls \cup {"create_allocation", "finish_project",
                                             "update_expense"}
        /\ t.call.name \in {"create_allocation", "finish_project"} => p = t.call.p
        /\ t.call.name = "update_expense" =>
               /\ <<"expense", t.call.e>> \in t.held
               /\ \A a \in t.allocations : <<"allocation", a>> \in t.held
               /\ \A q \in ProjectOf(t.allocations) : <<"project", q>> \notin t.held => p < q

ExpensesHeld(t) ==
    \A e \in Ids : <<"expense", e>> \in t.held =>
        t.call.name \in {"update_expense", "annul_expense"} /\ e = t.call.e

RequestsHeld(t) ==
    \A r \in Ids : <<"request", r>> \in t.held =>
        /\ t.call.name \in RequestCalls \cup {"finish_allocation", "finish_project",
                                              "annul_expense"}
        /\ t.call.name \in RequestCalls => r = t.call.r
        /\ t.call.name \in {"finish_allocation", "finish_project"} =>
               \A q \in SweptRequests(t.call) : <<"request", q>> \notin t.held => r < q
        /\ t.call.name = "finish_project" => <<"project", t.call.p>> \in t.held
        /\ t.call.name = "annul_expense" =>
               <<"expense", t.call.e>> \in t.held /\ r \in SweptRequests(t.call)

Ordered(t) ==
    /\ DonationsFirst(t)
    /\ AllocationsHeld(t)
    /\ ParentsInOrder(t)
    /\ ProjectsHeld(t)
    /\ ExpensesHeld(t)
    /\ RequestsHeld(t)

\* u is t with its next lock.
Locked(t, u, lock) ==
    /\ First(t, lock)
    /\ Entry(t, lock)
    /\ u.call = t.call
    /\ u.allocations = t.allocations
    /\ u.donations = t.donations
    /\ u.held = t.held \cup {lock.row}

LEMMA EntryByTable ==
    ASSUME NEW t, NEW lock, Entry(t, lock), NEW i
    PROVE  /\ lock.row = <<"donation", i>> => DonationEntry(t, lock, i)
           /\ lock.row = <<"allocation", i>> => AllocationEntry(t, lock, i)
           /\ lock.row = <<"project", i>> => ProjectEntry(t, lock, i)
           /\ lock.row = <<"expense", i>> => ExpenseEntry(t, lock, i)
           /\ lock.row = <<"request", i>> => RequestEntry(t, lock, i)
  <1>1. ASSUME NEW j, DonationEntry(t, lock, j) PROVE lock.row = <<"donation", j>>
    BY <1>1 DEF DonationEntry
  <1>2. ASSUME NEW j, AllocationEntry(t, lock, j) PROVE lock.row = <<"allocation", j>>
    BY <1>2 DEF AllocationEntry
  <1>3. ASSUME NEW j, ProjectEntry(t, lock, j) PROVE lock.row = <<"project", j>>
    BY <1>3 DEF ProjectEntry
  <1>4. ASSUME NEW j, ExpenseEntry(t, lock, j) PROVE lock.row = <<"expense", j>>
    BY <1>4 DEF ExpenseEntry
  <1>5. ASSUME NEW j, RequestEntry(t, lock, j) PROVE lock.row = <<"request", j>>
    BY <1>5 DEF RequestEntry
  <1> QED BY <1>1, <1>2, <1>3, <1>4, <1>5 DEF Entry

LEMMA Earlier ==
    ASSUME NEW t, NEW lock, First(t, lock), NEW s, NEW i, NEW k, NEW table, NEW id,
           LockAt(s, i, k, table, id) \in LockPlan(t), Before(<<s, i, k>>, lock.at)
    PROVE  <<table, id>> \in t.held
  <1>1. /\ LockAt(s, i, k, table, id).at = <<s, i, k>>
        /\ LockAt(s, i, k, table, id).row = <<table, id>>
    BY DEF LockAt
  <1> QED BY <1>1 DEF First

LEMMA EarlierByPk ==
    ASSUME NEW t, NEW lock, First(t, lock), NEW s, NEW table, NEW ids, NEW id \in ids,
           ByPk(s, table, ids) \subseteq LockPlan(t),
           s < lock.at[1] \/ (s = lock.at[1] /\ id < lock.at[2])
    PROVE  <<table, id>> \in t.held
  <1>1. LockAt(s, id, 0, table, id) \in LockPlan(t)
    BY DEF ByPk
  <1>2. Before(<<s, id, 0>>, lock.at)
    BY DEF Before
  <1> QED BY <1>1, <1>2, Earlier

LEMMA EarlierJoined ==
    ASSUME NEW t, t.call.name \in ParentCalls, NEW lock, First(t, lock), NEW b \in t.allocations,
           2 < lock.at[1] \/ (2 = lock.at[1] /\ b < lock.at[2])
    PROVE  JoinedRows(b) \subseteq t.held
  <1>1. Joined(2, b) \subseteq LockPlan(t)
    BY ParentPlan
  <1>2. \A k : Before(<<2, b, k>>, lock.at)
    BY DEF Before
  <1>3. <<"allocation", b>> \in t.held
    BY <1>1, <1>2, Earlier DEF Joined
  <1>4. <<"donation", allocation[b].donation>> \in t.held
    BY <1>1, <1>2, Earlier DEF Joined
  <1>5. <<"project", allocation[b].project>> \in t.held
    BY <1>1, <1>2, Earlier DEF Joined
  <1> QED BY <1>3, <1>4, <1>5 DEF JoinedRows

LEMMA IdsAreNat == Ids \subseteq Nat
  BY LocksAssumption DEF Ids

LEMMA EarlierDonations ==
    ASSUME NEW t, CallFields(t.call), t.call.name # "update_allocation", NEW lock, First(t, lock),
           NEW e \in FirstDonations(t), 1 < lock.at[1] \/ (1 = lock.at[1] /\ e < lock.at[2])
    PROVE  <<"donation", e>> \in t.held
  BY PlanStarts, EarlierByPk

LEMMA FirstDonationIds ==
    ASSUME NEW t, CallFields(t.call), t.donations \subseteq Donations
    PROVE  FirstDonations(t) \subseteq Nat
  BY LocksAssumption DEF FirstDonations, CallFields, DirectCalls

LEMMA LockDonationsFirst ==
    ASSUME NEW t, CallFields(t.call), t.call.name # "update_allocation",
           t.donations \subseteq Donations, DonationsFirst(t), NEW u, NEW lock, Locked(t, u, lock)
    PROVE  DonationsFirst(u)
  <1>1. FirstDonations(u) = FirstDonations(t)
    BY DEF Locked, FirstDonations
  <1>2. ASSUME NEW d \in Ids, NEW e \in FirstDonations(t), <<"donation", d>> \in u.held,
               <<"donation", e>> \notin u.held
        PROVE  d < e
    <2>1. d \in Nat /\ e \in Nat
      BY IdsAreNat, FirstDonationIds
    <2>2. CASE <<"donation", d>> \in t.held
      BY <1>2, <2>2 DEF Locked, DonationsFirst
    <2>3. CASE lock.row = <<"donation", d>>
      <3>1. d # e /\ <<"donation", e>> \notin t.held /\ First(t, lock)
        BY <1>2, <2>3 DEF Locked
      <3>2. DonationEntry(t, lock, d)
        BY <2>3, EntryByTable DEF Locked
      <3>3. (lock.at[1] = 1 /\ lock.at[2] = d) \/ lock.at[1] = 2
        BY <3>2 DEF DonationEntry
      <3>4. ~(1 < lock.at[1]) /\ ~(1 = lock.at[1] /\ e < lock.at[2])
        BY <3>1, EarlierDonations
      <3> QED BY <2>1, <3>1, <3>3, <3>4
    <2> QED BY <1>2, <2>2, <2>3 DEF Locked
  <1>3. ASSUME NEW table \in {"allocation", "project", "expense", "request"}, NEW id \in Ids,
               <<table, id>> \in u.held, NEW e \in FirstDonations(t)
        PROVE  <<"donation", e>> \in u.held
    <2>1. CASE <<table, id>> \in t.held
      BY <1>3, <2>1 DEF Locked, DonationsFirst
    <2>2. CASE lock.row = <<table, id>>
      <3>1. lock.at[1] \in {2, 3, 4}
        <4>1. CASE table = "allocation"
          BY <2>2, <4>1, EntryByTable DEF Locked, AllocationEntry
        <4>2. CASE table = "project"
          BY <2>2, <4>2, EntryByTable DEF Locked, ProjectEntry
        <4>3. CASE table = "expense"
          BY <2>2, <4>3, EntryByTable DEF Locked, ExpenseEntry
        <4>4. CASE table = "request"
          BY <2>2, <4>4, EntryByTable DEF Locked, RequestEntry
        <4> QED BY <4>1, <4>2, <4>3, <4>4
      <3> QED BY <3>1, EarlierDonations DEF Locked
    <2> QED BY <1>3, <2>1, <2>2 DEF Locked
  <1> QED BY <1>1, <1>2, <1>3 DEF DonationsFirst

LEMMA LockAllocationsHeld ==
    ASSUME NEW t, AllocationsHeld(t), NEW u, NEW lock, Locked(t, u, lock)
    PROVE  AllocationsHeld(u)
  <1> SUFFICES ASSUME NEW a \in Ids, <<"allocation", a>> \in u.held
               PROVE  /\ t.call.name \in ParentCalls \cup ReferredCalls
                      /\ \/ a \in t.allocations
                         \/ /\ t.call.name = "update_request"
                            /\ <<"request", t.call.r>> \in u.held
                            /\ request[t.call.r].allocation = a
    BY DEF Locked, AllocationsHeld
  <1>1. CASE <<"allocation", a>> \in t.held
    BY <1>1 DEF Locked, AllocationsHeld
  <1>2. CASE lock.row = <<"allocation", a>>
    <2>1. AllocationEntry(t, lock, a)
      BY <1>2, EntryByTable DEF Locked
    <2>2. t.call.name = "update_request" /\ lock.at[1] = 4 => <<"request", t.call.r>> \in t.held
      <3>1. lock.at[1] = 4 => Before(<<3, t.call.r, 0>>, lock.at)
        BY DEF Before
      <3> QED BY <3>1, RestOfPlan, Earlier DEF Locked
    <2> QED BY <2>1, <2>2 DEF AllocationEntry, Locked
  <1> QED BY <1>1, <1>2 DEF Locked

LEMMA LockParentsInOrder ==
    ASSUME NEW t, ParentsInOrder(t), NEW u, NEW lock, Locked(t, u, lock)
    PROVE  ParentsInOrder(u)
  <1> SUFFICES ASSUME t.call.name \in ParentCalls PROVE ParentsInOrder(u)
    BY DEF Locked, ParentsInOrder
  <1>1. /\ u.allocations = t.allocations /\ u.call = t.call
        /\ u.held = t.held \cup {lock.row} /\ First(t, lock)
    BY DEF Locked
  <1>2. ASSUME NEW a \in t.allocations, NEW b \in t.allocations, b < a,
               <<"allocation", a>> \in u.held
        PROVE  JoinedRows(b) \subseteq u.held
    <2>1. CASE <<"allocation", a>> \in t.held
      BY <1>1, <1>2, <2>1 DEF ParentsInOrder
    <2>2. CASE lock.row = <<"allocation", a>>
      <3>1. AllocationEntry(t, lock, a)
        BY <2>2, EntryByTable DEF Locked
      <3>2. 2 < lock.at[1] \/ (2 = lock.at[1] /\ b < lock.at[2])
        BY <1>2, <3>1 DEF AllocationEntry
      <3>3. JoinedRows(b) \subseteq t.held
        BY <1>1, <3>2, EarlierJoined
      <3> QED BY <1>1, <3>3
    <2> QED BY <1>1, <1>2, <2>1, <2>2
  <1>3. ASSUME NEW p \in Ids, <<"project", p>> \in u.held
        PROVE  \E a \in t.allocations :
                   <<"allocation", a>> \in u.held /\ allocation[a].project = p
    <2>1. CASE <<"project", p>> \in t.held
      BY <1>1, <2>1 DEF ParentsInOrder
    <2>2. CASE lock.row = <<"project", p>>
      <3>1. ProjectEntry(t, lock, p)
        BY <2>2, EntryByTable DEF Locked
      <3>2. PICK a \in t.allocations : lock.at = <<2, a, 2>> /\ p = allocation[a].project
        BY <3>1 DEF ProjectEntry, ParentCalls, DecisionCalls
      <3>3. LockAt(2, a, 0, "allocation", a) \in LockPlan(t)
        BY ParentPlan DEF Joined
      <3>4. Before(<<2, a, 0>>, lock.at)
        BY <3>2 DEF Before
      <3>5. <<"allocation", a>> \in t.held
        BY <1>1, <3>3, <3>4, Earlier
      <3> QED BY <1>1, <3>2, <3>5
    <2> QED BY <1>1, <1>3, <2>1, <2>2
  <1>4. ASSUME NEW r \in Ids, <<"request", r>> \in u.held, NEW a \in t.allocations
        PROVE  JoinedRows(a) \subseteq u.held
    <2>1. CASE <<"request", r>> \in t.held
      BY <1>1, <2>1 DEF ParentsInOrder
    <2>2. CASE lock.row = <<"request", r>>
      <3>1. RequestEntry(t, lock, r)
        BY <2>2, EntryByTable DEF Locked
      <3>2. 2 < lock.at[1]
        BY <3>1 DEF RequestEntry
      <3>3. JoinedRows(a) \subseteq t.held
        BY <1>1, <3>2, EarlierJoined
      <3> QED BY <1>1, <3>3
    <2> QED BY <1>1, <1>4, <2>1, <2>2
  <1> QED BY <1>1, <1>2, <1>3, <1>4 DEF ParentsInOrder

LEMMA LockProjectsHeld ==
    ASSUME LedgerInv, NEW t, RowsThere(t), ProjectsHeld(t), NEW u, NEW lock, Locked(t, u, lock)
    PROVE  ProjectsHeld(u)
  <1> DEFINE c == t.call
  <1>1. /\ u.allocations = t.allocations /\ u.call = t.call
        /\ u.held = t.held \cup {lock.row} /\ First(t, lock)
    BY DEF Locked
  <1> SUFFICES ASSUME NEW p \in Ids, <<"project", p>> \in u.held
               PROVE  /\ c.name \in ParentCalls \cup {"create_allocation", "finish_project",
                                                      "update_expense"}
                      /\ c.name \in {"create_allocation", "finish_project"} => p = c.p
                      /\ c.name = "update_expense" =>
                             /\ <<"expense", c.e>> \in u.held
                             /\ \A a \in t.allocations : <<"allocation", a>> \in u.held
                             /\ \A q \in ProjectOf(t.allocations) :
                                    <<"project", q>> \notin u.held => p < q
    BY <1>1 DEF ProjectsHeld
  <1>2. CASE <<"project", p>> \in t.held
    BY <1>1, <1>2 DEF ProjectsHeld
  <1>3. CASE lock.row = <<"project", p>>
    <2>1. ProjectEntry(t, lock, p)
      BY <1>3, EntryByTable DEF Locked
    <2>2. CASE c.name = "update_expense"
      <3>1. lock.at = <<4, p, 0>>
        BY <2>1, <2>2 DEF ProjectEntry, ParentCalls, DecisionCalls
      <3>2. Before(<<3, c.e, 0>>, lock.at) /\ lock.at[1] = 4 /\ lock.at[2] = p
        BY <3>1 DEF Before
      <3>3. <<"expense", c.e>> \in t.held
        BY <1>1, <2>2, <3>2, RestOfPlan, Earlier
      <3>4. ASSUME NEW a \in t.allocations PROVE <<"allocation", a>> \in t.held
        <4>1. ByPk(2, "allocation", t.allocations) \subseteq LockPlan(t)
          BY <2>2, RestOfPlan
        <4>2. 2 < lock.at[1]
          BY <3>2
        <4> QED BY <1>1, <4>1, <4>2, EarlierByPk
      <3>5. ASSUME NEW q \in ProjectOf(t.allocations), <<"project", q>> \notin u.held
            PROVE  p < q
        <4>1. q \in Nat /\ p \in Nat
          BY <2>2, JoinedIds, LocksAssumption, IdsAreNat DEF ProjectOf, RowsThere, DirectCalls
        <4>2. q # p
          BY <1>1, <1>3, <3>5
        <4>3. ~(q < p)
          BY <1>1, <2>2, <3>2, <3>5, RestOfPlan, EarlierByPk
        <4> QED BY <4>1, <4>2, <4>3
      <3> QED BY <1>1, <2>2, <3>3, <3>4, <3>5
    <2>3. CASE c.name # "update_expense"
      BY <2>1, <2>3 DEF ProjectEntry, ParentCalls, DecisionCalls
    <2> QED BY <2>2, <2>3
  <1> QED BY <1>1, <1>2, <1>3

LEMMA LockExpensesHeld ==
    ASSUME NEW t, ExpensesHeld(t), NEW u, NEW lock, Locked(t, u, lock)
    PROVE  ExpensesHeld(u)
  <1>1. \A e \in Ids : lock.row = <<"expense", e>> =>
            t.call.name \in {"update_expense", "annul_expense"} /\ e = t.call.e
    BY EntryByTable DEF Locked, ExpenseEntry
  <1> QED BY <1>1 DEF Locked, ExpensesHeld

LEMMA SweptRequestIds == ASSUME NEW c PROVE SweptRequests(c) \subseteq Requests
  BY DEF SweptRequests, OpenUnder, OpenRequests

LEMMA LockRequestsHeld ==
    ASSUME NEW t, RequestsHeld(t), NEW u, NEW lock, Locked(t, u, lock)
    PROVE  RequestsHeld(u)
  <1> DEFINE c == t.call
  <1>1. /\ u.call = t.call /\ u.held = t.held \cup {lock.row} /\ First(t, lock)
    BY DEF Locked
  <1> SUFFICES ASSUME NEW r \in Ids, <<"request", r>> \in u.held
               PROVE  /\ c.name \in RequestCalls \cup {"finish_allocation", "finish_project",
                                                       "annul_expense"}
                      /\ c.name \in RequestCalls => r = c.r
                      /\ c.name \in {"finish_allocation", "finish_project"} =>
                             \A q \in SweptRequests(c) : <<"request", q>> \notin u.held => r < q
                      /\ c.name = "finish_project" => <<"project", c.p>> \in u.held
                      /\ c.name = "annul_expense" =>
                             <<"expense", c.e>> \in u.held /\ r \in SweptRequests(c)
    BY <1>1 DEF RequestsHeld
  <1>2. CASE <<"request", r>> \in t.held
    BY <1>1, <1>2 DEF RequestsHeld
  <1>3. CASE lock.row = <<"request", r>>
    <2>1. RequestEntry(t, lock, r)
      BY <1>3, EntryByTable DEF Locked
    <2>2. CASE c.name \in RequestCalls
      BY <2>1, <2>2 DEF RequestEntry, RequestCalls, DecisionCalls
    <2>3. CASE c.name \in {"finish_allocation", "finish_project"}
      <3>1. /\ lock.at[1] = IF c.name = "finish_allocation" THEN 3 ELSE 4
            /\ lock.at[2] = r
        BY <2>1, <2>3 DEF RequestEntry, RequestCalls, DecisionCalls
      <3>2. ASSUME NEW q \in SweptRequests(c), <<"request", q>> \notin u.held PROVE r < q
        <4>1. q \in Nat /\ r \in Nat /\ q # r
          BY <1>1, <1>3, <3>2, SweptRequestIds, LocksAssumption, IdsAreNat
        <4>2. ~(q < r)
          BY <1>1, <2>3, <3>1, <3>2, RestOfPlan, EarlierByPk
        <4> QED BY <4>1, <4>2
      <3>3. c.name = "finish_project" => <<"project", c.p>> \in t.held
        <4>1. lock.at[1] = 4 => Before(<<3, c.p, 0>>, lock.at)
          BY DEF Before
        <4> QED BY <1>1, <3>1, <4>1, RestOfPlan, Earlier
      <3> QED BY <1>1, <2>3, <3>2, <3>3 DEF RequestCalls, DecisionCalls
    <2>4. CASE c.name = "annul_expense"
      <3>1. lock.at[1] = 4 /\ r \in SweptRequests(c)
        BY <2>1, <2>4 DEF RequestEntry, RequestCalls, DecisionCalls
      <3>2. <<"expense", c.e>> \in t.held
        <4>1. Before(<<3, c.e, 0>>, lock.at)
          BY <3>1 DEF Before
        <4> QED BY <1>1, <2>4, <4>1, RestOfPlan, Earlier
      <3> QED BY <1>1, <2>4, <3>1, <3>2 DEF RequestCalls, DecisionCalls
    <2> QED BY <2>1, <2>2, <2>3, <2>4 DEF RequestEntry
  <1> QED BY <1>1, <1>2, <1>3

\* The next lock of a plan keeps the order.
LEMMA LockOrdered ==
    ASSUME LedgerInv, NEW t, CallFields(t.call), t.call.name # "update_allocation",
           RowsThere(t), t.donations \subseteq Donations, Ordered(t),
           NEW u, NEW lock, Locked(t, u, lock)
    PROVE  Ordered(u)
  BY LockDonationsFirst, LockAllocationsHeld, LockParentsInOrder, LockProjectsHeld,
     LockExpensesHeld, LockRequestsHeld DEF Ordered

-------------------------------------------------------------------------------
(* Another transaction commits.                                            *)

\* No open request comes under a project in held.
KeepsOpen(held) ==
    \A p \in Projects : <<"project", p>> \in held =>
        OpenUnder(Under(p))' \subseteq OpenUnder(Under(p))

LEMMA HeldAllocationStays ==
    ASSUME NEW held, NEW fresh, Frame(held, fresh), NEW a \in Allocations, HasRow(allocation[a]),
           <<"allocation", a>> \in held
    PROVE  allocation'[a] = allocation[a] /\ OpenRequests(a)' \subseteq OpenRequests(a)
  <1>1. KeepsAllocation(a)
    BY DEF Frame, Keeps, HasRow, NoRow
  <1> QED BY <1>1 DEF KeepsAllocation

LEMMA HeldRequestStays ==
    ASSUME NEW held, NEW fresh, Frame(held, fresh), NEW r \in Requests, HasRow(request[r]),
           <<"request", r>> \in held
    PROVE  request'[r] = request[r]
  BY DEF Frame, Keeps, HasRow, NoRow

LEMMA FrameParentsInOrder ==
    ASSUME NEW t, NEW fresh, RowsThere(t), Frame(t.held, fresh), ParentsInOrder(t)
    PROVE  ParentsInOrder(t)'
  <1> SUFFICES ASSUME t.call.name \in ParentCalls PROVE ParentsInOrder(t)'
    BY DEF ParentsInOrder
  <1>1. \A a \in t.allocations : a \in Allocations /\ HasRow(allocation[a])
    BY DEF RowsThere, ParentCalls, DirectCalls, DecisionCalls
  <1>2. ASSUME NEW a \in t.allocations, <<"allocation", a>> \in t.held
        PROVE  allocation'[a] = allocation[a] /\ JoinedRows(a)' = JoinedRows(a)
    BY <1>1, <1>2, HeldAllocationStays DEF JoinedRows
  <1>3. ASSUME NEW a \in t.allocations, JoinedRows(a) \subseteq t.held
        PROVE  JoinedRows(a)' \subseteq t.held
    <2>1. <<"allocation", a>> \in t.held
      BY <1>3 DEF JoinedRows
    <2> QED BY <1>2, <1>3, <2>1
  <1>4. ASSUME NEW a \in t.allocations, NEW b \in t.allocations, b < a,
               <<"allocation", a>> \in t.held
        PROVE  JoinedRows(b)' \subseteq t.held
    <2>1. JoinedRows(b) \subseteq t.held
      BY <1>4 DEF ParentsInOrder
    <2> QED BY <1>3, <2>1
  <1>5. ASSUME NEW p \in Ids, <<"project", p>> \in t.held
        PROVE  \E a \in t.allocations :
                   <<"allocation", a>> \in t.held /\ allocation'[a].project = p
    <2>1. PICK a \in t.allocations : <<"allocation", a>> \in t.held /\ allocation[a].project = p
      BY <1>5 DEF ParentsInOrder
    <2> QED BY <1>2, <2>1
  <1>6. ASSUME NEW r \in Ids, <<"request", r>> \in t.held, NEW a \in t.allocations
        PROVE  JoinedRows(a)' \subseteq t.held
    <2>1. JoinedRows(a) \subseteq t.held
      BY <1>6 DEF ParentsInOrder
    <2> QED BY <1>3, <2>1
  <1> QED BY <1>4, <1>5, <1>6 DEF ParentsInOrder

LEMMA FrameProjectsHeld ==
    ASSUME NEW t, NEW fresh, RowsThere(t), Frame(t.held, fresh), ProjectsHeld(t)
    PROVE  ProjectsHeld(t)'
  <1>1. ASSUME NEW p \in Ids, <<"project", p>> \in t.held, t.call.name = "update_expense"
        PROVE  ProjectOf(t.allocations)' = ProjectOf(t.allocations)
    <2>1. \A a \in t.allocations : <<"allocation", a>> \in t.held
      BY <1>1 DEF ProjectsHeld
    <2>2. \A a \in t.allocations : a \in Allocations /\ HasRow(allocation[a])
      BY <1>1 DEF RowsThere, DirectCalls
    <2>3. \A a \in t.allocations : allocation'[a] = allocation[a]
      BY <2>1, <2>2, HeldAllocationStays
    <2> QED BY <2>3 DEF ProjectOf
  <1>2. ASSUME NEW p \in Ids, <<"project", p>> \in t.held, t.call.name = "update_expense",
               NEW q \in ProjectOf(t.allocations)', <<"project", q>> \notin t.held
        PROVE  p < q
    BY <1>1, <1>2 DEF ProjectsHeld
  <1> QED BY <1>2 DEF ProjectsHeld

LEMMA FrameRequestsHeld ==
    ASSUME LedgerInv, NEW t, NEW fresh, CallFields(t.call), Reads(t), RowsThere(t),
           Frame(t.held, fresh), KeepsOpen(t.held), ParentsInOrder(t), RequestsHeld(t)
    PROVE  RequestsHeld(t)'
  <1> DEFINE c == t.call
  <1>1. ASSUME NEW r \in Ids, <<"request", r>> \in t.held, c.name = "finish_allocation"
        PROVE  SweptRequests(c)' \subseteq SweptRequests(c)
    <2>1. c.a \in t.allocations /\ c.a \in Allocations
      BY <1>1 DEF Reads, CallFields
    <2>2. <<"allocation", c.a>> \in t.held
      BY <1>1, <2>1 DEF ParentsInOrder, ParentCalls, JoinedRows
    <2>3. HasRow(allocation[c.a])
      BY <1>1, <2>1 DEF RowsThere, DirectCalls
    <2>4. OpenRequests(c.a)' \subseteq OpenRequests(c.a)
      BY <2>1, <2>2, <2>3, HeldAllocationStays
    <2> QED BY <1>1, <2>4 DEF SweptRequests
  <1>2. ASSUME NEW r \in Ids, <<"request", r>> \in t.held, c.name = "finish_project"
        PROVE  SweptRequests(c)' \subseteq SweptRequests(c)
    <2>1. c.p \in Projects /\ <<"project", c.p>> \in t.held
      BY <1>2 DEF CallFields, RequestsHeld
    <2> QED BY <1>2, <2>1 DEF SweptRequests, KeepsOpen
  <1>3. ASSUME NEW r \in Ids, <<"request", r>> \in t.held, c.name = "annul_expense"
        PROVE  r \in SweptRequests(c)'
    <2>1. r \in Requests /\ request[r].expense = c.e /\ c.e \in Expenses
      BY <1>3 DEF RequestsHeld, SweptRequests, CallFields
    <2>2. request[r].status = "fulfilled"
      BY <2>1, LedgerAssumption DEF LedgerInv, LifeInv, LifeOf
    <2>3. request'[r] = request[r]
      BY <1>3, <2>1, <2>2, HeldRequestStays DEF HasRow, NoRow
    <2> QED BY <1>3, <2>1, <2>3 DEF SweptRequests
  <1> SUFFICES ASSUME NEW r \in Ids, <<"request", r>> \in t.held
               PROVE  /\ c.name \in RequestCalls \cup {"finish_allocation", "finish_project",
                                                       "annul_expense"}
                      /\ c.name \in RequestCalls => r = c.r
                      /\ c.name \in {"finish_allocation", "finish_project"} =>
                             \A q \in SweptRequests(c)' : <<"request", q>> \notin t.held => r < q
                      /\ c.name = "finish_project" => <<"project", c.p>> \in t.held
                      /\ c.name = "annul_expense" =>
                             <<"expense", c.e>> \in t.held /\ r \in SweptRequests(c)'
    BY DEF RequestsHeld
  <1>4. /\ c.name \in RequestCalls \cup {"finish_allocation", "finish_project", "annul_expense"}
        /\ c.name \in RequestCalls => r = c.r
        /\ c.name \in {"finish_allocation", "finish_project"} =>
               \A q \in SweptRequests(c) : <<"request", q>> \notin t.held => r < q
        /\ c.name = "finish_project" => <<"project", c.p>> \in t.held
        /\ c.name = "annul_expense" => <<"expense", c.e>> \in t.held
    BY DEF RequestsHeld
  <1>5. c.name \in {"finish_allocation", "finish_project"} =>
            SweptRequests(c)' \subseteq SweptRequests(c)
    BY <1>1, <1>2
  <1> QED BY <1>3, <1>4, <1>5

LEMMA FrameAllocationsHeld ==
    ASSUME NEW t, NEW fresh, CallFields(t.call), RowsThere(t), Frame(t.held, fresh),
           AllocationsHeld(t)
    PROVE  AllocationsHeld(t)'
  <1>1. ASSUME t.call.name = "update_request", <<"request", t.call.r>> \in t.held
        PROVE  request'[t.call.r] = request[t.call.r]
    BY <1>1, HeldRequestStays DEF RowsThere, CallFields, RequestCalls
  <1> QED BY <1>1 DEF AllocationsHeld

\* The order of the locks a transaction holds survives what the others commit.
LEMMA FrameOrdered ==
    ASSUME LedgerInv, NEW t, NEW fresh, CallFields(t.call), Reads(t), RowsThere(t),
           Frame(t.held, fresh), KeepsOpen(t.held), Ordered(t)
    PROVE  Ordered(t)'
  <1>1. DonationsFirst(t)' /\ ExpensesHeld(t)'
    BY DEF Ordered, DonationsFirst, FirstDonations, ExpensesHeld
  <1> QED BY <1>1, FrameAllocationsHeld, FrameParentsInOrder, FrameProjectsHeld,
             FrameRequestsHeld DEF Ordered

\* No service deletes a row.
RowsStay ==
    /\ \A a \in Allocations : HasRow(allocation[a]) => HasRow(allocation'[a])
    /\ \A r \in Requests : HasRow(request[r]) => HasRow(request'[r])
    /\ \A e \in Expenses : HasRow(expense[e]) => HasRow(expense'[e])

LEMMA EffectKeepsRows ==
    ASSUME TypeOK, NEW c, CallFields(c), Effect(c)
    PROVE  RowsStay
  <1> USE DEF CallFields, TypeOK, HasRow, NoRow, RowsStay
  <1>1. CASE c.name \in {"update_donation", "annul_donation", "finish_project"}
    BY <1>1 DEF Effect, UpdateDonation, AnnulDonation, FinishProject
  <1>2. CASE c.name \in {"create_allocation", "update_allocation"}
    BY <1>2 DEF Effect, CreateAllocation, UpdateAllocation
  <1>3. CASE c.name \in {"finish_allocation", "annul_allocation"}
    BY <1>3 DEF Effect, FinishAllocation, AnnulAllocation, AllocationRow
  <1>4. CASE c.name \in {"create_request", "update_request"}
    BY <1>4 DEF Effect, CreateRequest, UpdateRequest, RequestRow
  <1>5. CASE c.name \in {"approve_request", "annul_request", "withdraw_request"}
    BY <1>5 DEF Effect, ApproveRequest, AnnulRequest, WithdrawRequest, RequestRow
  <1>6. CASE c.name = "fulfill_request"
    BY <1>6 DEF Effect, FulfillRequest, RequestRow
  <1>7. CASE c.name \in {"create_expense_legacy", "update_expense", "annul_expense"}
    BY <1>7 DEF Effect, CreateExpenseLegacy, UpdateExpense, AnnulExpense, ExpenseRow
  <1> QED BY <1>1, <1>2, <1>3, <1>4, <1>5, <1>6, <1>7 DEF RequestCalls, DecisionCalls

\* Requests are opened by create_expense_request and update_expense_request only.
LEMMA EffectOpensNone ==
    ASSUME TypeOK, NEW c, CallFields(c), Effect(c),
           c.name \notin {"create_request", "update_request"}, NEW a
    PROVE  OpenRequests(a)' \subseteq OpenRequests(a)
  <1> USE DEF CallFields, TypeOK, OpenRequests
  <1>1. CASE c.name \in {"update_donation", "annul_donation", "finish_project"}
    BY <1>1 DEF Effect, UpdateDonation, AnnulDonation, FinishProject
  <1>2. CASE c.name \in {"create_allocation", "update_allocation", "finish_allocation",
                         "annul_allocation"}
    BY <1>2 DEF Effect, CreateAllocation, UpdateAllocation, FinishAllocation, AnnulAllocation
  <1>3. CASE c.name \in {"approve_request", "annul_request", "withdraw_request"}
    <2>1. \A q \in Requests : q # c.r => request'[q] = request[q]
      BY <1>3 DEF Effect, ApproveRequest, AnnulRequest, WithdrawRequest
    <2>2. /\ request'[c.r].allocation = request[c.r].allocation
          /\ request[c.r].status \in OpenFinancialStatuses
      BY <1>3 DEF Effect, ApproveRequest, AnnulRequest, WithdrawRequest, RequestRow,
                  MayApproveRequest, MayAnnulRequest, MayWithdrawRequest, OpenFinancialStatuses
    <2> QED BY <2>1, <2>2
  <1>4. CASE c.name = "fulfill_request"
    <2>1. /\ \A q \in Requests : q # c.r => request'[q] = request[q]
          /\ request'[c.r].status = "fulfilled"
      BY <1>4 DEF Effect, FulfillRequest, RequestRow
    <2> QED BY <2>1 DEF OpenFinancialStatuses
  <1>5. CASE c.name \in {"create_expense_legacy", "update_expense", "annul_expense"}
    BY <1>5 DEF Effect, CreateExpenseLegacy, UpdateExpense, AnnulExpense
  <1> QED BY <1>1, <1>2, <1>3, <1>4, <1>5 DEF RequestCalls, DecisionCalls

LEMMA CommitKeepsOpen ==
    ASSUME TypeOK, NEW held, NEW fresh, Frame(held, fresh), NEW c, CallFields(c), Effect(c),
           c.name \in {"create_request", "update_request"} =>
               <<"project", allocation[c.a].project>> \notin held
    PROVE  KeepsOpen(held)
  <1> SUFFICES ASSUME NEW p \in Projects, <<"project", p>> \in held,
                      NEW a \in Under(p)', NEW r \in OpenRequests(a)'
               PROVE  a \in Under(p) /\ r \in OpenRequests(a)
    BY DEF KeepsOpen, OpenUnder
  <1>1. KeepsProject(p)
    BY DEF Frame, Keeps
  <1>2. a \in Under(p)
    BY <1>1 DEF Under, KeepsProject
  <1>3. CASE c.name \in {"create_request", "update_request"}
    <2>1. /\ \A q \in Requests : q # c.r => request'[q] = request[q]
          /\ request'[c.r].allocation = c.a
          /\ c.r \in Requests
      BY <1>3 DEF Effect, CreateRequest, UpdateRequest, CallFields, TypeOK, RequestRow
    <2>2. a # c.a
      BY <1>2, <1>3 DEF Under
    <2>3. r # c.r /\ r \in Requests
      BY <2>1, <2>2 DEF OpenRequests
    <2> QED BY <1>2, <2>1, <2>3 DEF OpenRequests
  <1>4. CASE c.name \notin {"create_request", "update_request"}
    BY <1>2, <1>4, EffectOpensNone
  <1> QED BY <1>3, <1>4

-------------------------------------------------------------------------------
(* The inductive invariant.                                                *)

\* Only a request that moves has two allocations locked with their rows.
OneAllocation(t) ==
    t.call.name \in ParentCalls /\ t.call.name # "update_request" =>
        \A a, b \in t.allocations : a = b

\* A checked create_expense_request or update_expense_request holds the project
\* of its allocation.
HoldsProject(t, c) ==
    c.name \in {"create_request", "update_request"} =>
        <<"project", allocation[c.a].project>> \in t.held

OrderOf(t) ==
    /\ t.phase \in {"begun", "locking"} =>
           RowsThere(t) /\ OneAllocation(t) /\ t.donations \subseteq Donations
    /\ t.phase = "begun" => t.held = {} /\ t.call.name \notin DirectCalls
    /\ t.phase = "locking" /\ t.call.name # "update_allocation" => Ordered(t)
    /\ t.phase = "checked" => HoldsProject(t, t.call)

OrderInv == \A w \in Workers : OrderOf(tx[w])

LEMMA RowsThereStay ==
    ASSUME NEW t, CallFields(t.call), RowsThere(t), RowsStay
    PROVE  RowsThere(t)'
  BY DEF RowsThere, RowsStay, CallFields, RequestCalls, DecisionCalls

LEMMA HoldsProjectStays ==
    ASSUME NEW t, NEW c, CallFields(c), Passed(t, c), HoldsProject(t, c), NEW fresh,
           Frame(t.held, fresh)
    PROVE  HoldsProject(t, c)'
  <1>1. CASE c.name \in {"create_request", "update_request"}
    <2>1. c.a \in Allocations /\ Editable(c.a)
      BY <1>1 DEF CallFields, Passed, Guard, MayCreateRequest, MayUpdateRequest, AcceptsRequests
    <2>2. <<"allocation", c.a>> \in t.held
      BY <1>1 DEF Passed, Secured
    <2>3. allocation'[c.a] = allocation[c.a]
      BY <2>1, <2>2, HeldAllocationStays DEF Editable, HasRow, NoRow
    <2> QED BY <2>3 DEF HoldsProject
  <1>2. CASE c.name \notin {"create_request", "update_request"}
    BY <1>2 DEF HoldsProject
  <1> QED BY <1>1, <1>2

\* What a step of worker w leaves for the others.
LEMMA OthersFrame ==
    ASSUME LocksInv, OrderInv, NEW w \in Workers, NEW v \in Workers, v # w,
           UNCHANGED vars \/ (tx[w].phase = "checked" /\ Effect(tx[w].call))
    PROVE  Frame(tx[v].held, {}) /\ KeepsOpen(tx[v].held) /\ RowsStay
  <1>1. PICK held : held = tx[v].held
    OBVIOUS
  <1>2. CASE UNCHANGED vars
    <2>1. Frame(held, {})
      BY <1>2, UnchangedFrame
    <2>2. KeepsOpen(held) /\ RowsStay
      BY <1>2 DEF vars, KeepsOpen, RowsStay, OpenUnder, Under, OpenRequests
    <2> QED BY <1>1, <2>1, <2>2
  <1>3. CASE tx[w].phase = "checked" /\ Effect(tx[w].call)
    <2>1. PICK o \in Call : o = tx[w].call
      BY <1>3 DEF LocksInv, Shape
    <2>2. CallFields(o) /\ Secured(o) \subseteq tx[w].held /\ HoldsProject(tx[w], o)
      BY <1>3, <2>1, CallsAreTyped DEF LocksInv, ChecksKept, Passed, OrderInv, OrderOf
    <2>3. tx[w].held \cap held = {}
      BY <1>1 DEF LocksInv, Exclusive
    <2>4. Apart(o, held, {})
      BY <2>2, <2>3 DEF Apart
    <2>5. Effect(o) /\ TypeOK
      BY <1>3, <2>1 DEF LocksInv, LedgerInv
    <2>6. Frame(held, {})
      BY <2>2, <2>4, <2>5, CommitFrame
    <2>7. o.name \in {"create_request", "update_request"} =>
              <<"project", allocation[o.a].project>> \notin held
      BY <2>2, <2>3 DEF HoldsProject
    <2>8. KeepsOpen(held)
      BY <2>2, <2>5, <2>6, <2>7, CommitKeepsOpen
    <2>9. RowsStay
      BY <2>2, <2>5, EffectKeepsRows
    <2> QED BY <1>1, <2>6, <2>8, <2>9
  <1> QED BY <1>2, <1>3

LEMMA OthersKeepOrder ==
    ASSUME LocksInv, OrderInv, NEW w \in Workers, NEW v \in Workers, v # w,
           UNCHANGED vars \/ (tx[w].phase = "checked" /\ Effect(tx[w].call)),
           tx'[v] = tx[v]
    PROVE  OrderOf(tx[v])'
  <1>1. PICK t : t = tx[v]
    OBVIOUS
  <1>2. OrderOf(t) /\ Frame(t.held, {}) /\ KeepsOpen(t.held) /\ RowsStay /\ LedgerInv
    BY <1>1, OthersFrame DEF OrderInv, LocksInv
  <1>3. t.phase # "idle" => CallFields(t.call) /\ Reads(t)
    BY <1>1, CallsAreTyped DEF LocksInv, Shape
  <1>4. t.phase = "checked" => Passed(t, t.call)
    BY <1>1 DEF LocksInv, Shape, ChecksKept
  <1>5. t.phase \in {"begun", "locking"} => RowsThere(t)'
    BY <1>2, <1>3, RowsThereStay DEF OrderOf
  <1>6. t.phase = "locking" /\ t.call.name # "update_allocation" => Ordered(t)'
    BY <1>2, <1>3, FrameOrdered DEF OrderOf
  <1>7. t.phase = "checked" => HoldsProject(t, t.call)'
    BY <1>2, <1>3, <1>4, HoldsProjectStays DEF OrderOf
  <1>8. OrderOf(t)'
    BY <1>2, <1>5, <1>6, <1>7 DEF OrderOf, OneAllocation
  <1> QED BY <1>1, <1>8 DEF OrderOf, RowsThere, OneAllocation, Ordered, HoldsProject

LEMMA QuietOrder ==
    ASSUME UNCHANGED vars, NEW t, OrderOf(t)
    PROVE  OrderOf(t)'
  <1>1. RowsThere(t)' = RowsThere(t) /\ HoldsProject(t, t.call)' = HoldsProject(t, t.call)
    BY DEF vars, RowsThere, HoldsProject
  <1>2. SweptRequests(t.call)' = SweptRequests(t.call)
    BY DEF vars, SweptRequests, OpenUnder, Under, OpenRequests
  <1>3. ProjectsHeld(t)' = ProjectsHeld(t) /\ AllocationsHeld(t)' = AllocationsHeld(t)
    BY DEF vars, ProjectsHeld, ProjectOf, AllocationsHeld
  <1>4. ParentsInOrder(t)' = ParentsInOrder(t)
    BY DEF vars, ParentsInOrder, JoinedRows
  <1>5. Ordered(t)' = Ordered(t)
    BY <1>2, <1>3, <1>4
       DEF Ordered, DonationsFirst, FirstDonations, ExpensesHeld, RequestsHeld
  <1> QED BY <1>1, <1>5 DEF OrderOf, OneAllocation

\* A step of worker w that leaves the order for w.
LEMMA OrderAfterStep ==
    ASSUME LocksInv, OrderInv, NEW w \in Workers, NEW row, tx' = [tx EXCEPT ![w] = row],
           \/ UNCHANGED vars /\ OrderOf(row)
           \/ tx[w].phase = "checked" /\ Effect(tx[w].call) /\ row = NoTx
    PROVE  OrderInv'
  <1>1. tx'[w] = row /\ \A v \in Workers \ {w} : tx'[v] = tx[v]
    BY DEF LocksInv, Shape
  <1>2. OrderOf(row)'
    <2>1. CASE row = NoTx
      BY <2>1 DEF OrderOf, NoTx
    <2>2. CASE UNCHANGED vars /\ OrderOf(row)
      BY <2>2, QuietOrder
    <2> QED BY <2>1, <2>2
  <1>3. OrderOf(tx[w])'
    BY <1>1, <1>2 DEF OrderOf, RowsThere, OneAllocation, Ordered, HoldsProject
  <1>4. ASSUME NEW v \in Workers, v # w PROVE OrderOf(tx[v])'
    BY <1>1, <1>4, OthersKeepOrder
  <1> QED BY <1>3, <1>4 DEF OrderInv

LEMMA NothingHeldIsOrdered == ASSUME NEW t, t.held = {} PROVE Ordered(t)
  BY DEF Ordered, DonationsFirst, AllocationsHeld, ParentsInOrder, ProjectsHeld, ExpensesHeld,
         RequestsHeld

LEMMA ReferencesLeadToRows ==
    ASSUME LedgerInv
    PROVE  /\ \A r \in Requests : HasRow(request[r]) =>
                  request[r].allocation \in Allocations /\ HasRow(allocation[request[r].allocation])
           /\ \A e \in Expenses : HasRow(expense[e]) =>
                  expense[e].allocation \in Allocations /\ HasRow(allocation[expense[e].allocation])
           /\ \A a \in Allocations, p \in Projects :
                  allocation[a].project = p => HasRow(allocation[a])
  BY LedgerAssumption DEF LedgerInv, ReferencesExist, RowReferences, RequestReferences,
     ExpenseReferences, AllocationReferences

LEMMA BeginOrder ==
    ASSUME LocksInv, OrderInv, NEW w \in Workers, NEW c \in Call, Begin(w, c)
    PROVE  OrderInv'
  <1>1. CallFields(c) /\ LedgerInv /\ Found(c)
    BY CallsAreTyped DEF LocksInv, Begin
  <1> DEFINE row == [NoTx EXCEPT !.phase = IF c.name \in DirectCalls THEN "locking" ELSE "begun",
                                 !.call = c,
                                 !.allocations = FirstReference(c)]
  <1>2. /\ row.phase \in {"begun", "locking"}
        /\ row.call = c
        /\ row.allocations = FirstReference(c)
        /\ row.held = {} /\ row.donations = {}
        /\ row.phase = "begun" => c.name \notin DirectCalls
    BY DEF NoTx
  <1>3. UNCHANGED vars /\ tx' = [tx EXCEPT ![w] = row]
    BY DEF Begin
  <1> HIDE DEF row
  <1>4. c.name \in RequestCalls => c.r \in Requests /\ HasRow(request[c.r])
    <2>1. c.name \in RequestCalls => "r" \in DOMAIN c /\ <<"request", c.r>> \notin Inserted(c)
      BY DEF Call, RequestCalls, DecisionCalls, Inserted
    <2> QED BY <1>1, <2>1 DEF Found, CallFields, RequestCalls, DecisionCalls
  <1>5. c.name \in {"update_expense", "annul_expense"} => c.e \in Expenses /\ HasRow(expense[c.e])
    <2>1. c.name \in {"update_expense", "annul_expense"} =>
              "e" \in DOMAIN c /\ <<"expense", c.e>> \notin Inserted(c)
      BY DEF Call, Inserted
    <2> QED BY <1>1, <2>1 DEF Found, CallFields
  <1>6. c.name \notin DirectCalls /\ "a" \in DOMAIN c =>
            c.a \in Allocations /\ HasRow(allocation[c.a])
    <2>1. c.name \notin DirectCalls /\ "a" \in DOMAIN c =>
              c.a \in Allocations /\ <<"allocation", c.a>> \notin Inserted(c)
      BY DEF Call, DirectCalls, Inserted
    <2> QED BY <1>1, <2>1 DEF Found
  <1>7. ASSUME c.name \notin DirectCalls, NEW a \in FirstReference(c)
        PROVE  a \in Allocations /\ HasRow(allocation[a])
    BY <1>1, <1>4, <1>5, <1>6, <1>7, ReferencesLeadToRows DEF FirstReference
  <1>8. RowsThere(row)
    BY <1>2, <1>4, <1>5, <1>7 DEF RowsThere
  <1>9. OneAllocation(row)
    <2>1. c.name \in DecisionCalls => "a" \notin DOMAIN c
      BY DEF Call, DecisionCalls
    <2> QED BY <1>2, <2>1
               DEF OneAllocation, FirstReference, ParentCalls, RequestCalls, DecisionCalls
  <1>10. OrderOf(row)
    BY <1>2, <1>8, <1>9, NothingHeldIsOrdered DEF OrderOf
  <1> QED BY <1>3, <1>10, OrderAfterStep

LEMMA ReferOrder ==
    ASSUME LocksInv, OrderInv, NEW w \in Workers, Refer(w)
    PROVE  OrderInv'
  <1>1. PICK t : t = tx[w]
    OBVIOUS
  <1>2. /\ t.phase = "begun" /\ t.call \in Call /\ CallFields(t.call)
        /\ DOMAIN t = DOMAIN NoTx
        /\ RowsThere(t) /\ OneAllocation(t) /\ t.held = {} /\ t.call.name \notin DirectCalls
        /\ LedgerInv
    BY <1>1, CallsAreTyped DEF Refer, LocksInv, Shape, OrderInv, OrderOf
  <1> DEFINE as == SecondReference(t)
             row == [t EXCEPT !.phase = "locking", !.allocations = as,
                              !.donations = {allocation[a].donation : a \in as}]
  <1>3. /\ row.phase = "locking" /\ row.call = t.call /\ row.held = {}
        /\ row.allocations = as
        /\ row.donations = {allocation[a].donation : a \in as}
    BY <1>2 DEF NoTx
  <1>4. UNCHANGED vars /\ tx' = [tx EXCEPT ![w] = row]
    BY <1>1, <1>2 DEF Refer
  <1> HIDE DEF row
  <1>6. ASSUME NEW a \in as PROVE a \in Allocations /\ HasRow(allocation[a])
    BY <1>2, <1>6, ReferencesLeadToRows DEF SecondReference, RowsThere, CallFields
  <1>7. RowsThere(row)
    BY <1>2, <1>3, <1>6 DEF RowsThere
  <1>8. row.donations \subseteq Donations
    BY <1>2, <1>3, <1>6, JoinedIds
  <1>9. OneAllocation(row)
    BY <1>2, <1>3 DEF OneAllocation, SecondReference, ParentCalls, DecisionCalls
  <1>10. OrderOf(row)
    BY <1>3, <1>7, <1>8, <1>9, NothingHeldIsOrdered DEF OrderOf
  <1> QED BY <1>4, <1>10, OrderAfterStep

\* The next lock of a call is an entry of its plan with everything before it held.
LEMMA NextEntry ==
    ASSUME LedgerInv, NEW t, CallFields(t.call), t.call.name # "update_allocation", RowsThere(t),
           t.donations \subseteq Donations, Missing(t) # {}
    PROVE  \E lock : First(t, lock) /\ Entry(t, lock) /\ lock.row = NextLock(t)
  <1>1. \A a \in t.allocations : t.call.name \in DirectCalls \/ a \in Allocations
    BY DEF RowsThere
  <1>2. \A lock \in LockPlan(t) : Entry(t, lock)
    BY PlanEntries
  <1>3. \A lock \in LockPlan(t) : PlaceTyped(lock)
    BY <1>1, <1>2, EntriesArePlaced
  <1>4. PICK lock : First(t, lock) /\ lock.row = NextLock(t)
    BY <1>3, NextLockIsFirst
  <1> QED BY <1>2, <1>4 DEF First, Missing

LEMMA LockOrder ==
    ASSUME LocksInv, OrderInv, NEW w \in Workers, Lock(w)
    PROVE  OrderInv'
  <1>1. PICK t : t = tx[w]
    OBVIOUS
  <1>2. /\ t.phase = "locking" /\ CallFields(t.call) /\ Missing(t) # {}
        /\ DOMAIN t = DOMAIN NoTx
        /\ OrderOf(t) /\ LedgerInv
    BY <1>1, CallsAreTyped DEF Lock, LocksInv, Shape, OrderInv
  <1> DEFINE row == [t EXCEPT !.held = @ \cup {NextLock(t)}]
  <1>3. /\ row.phase = "locking" /\ row.call = t.call /\ row.held = t.held \cup {NextLock(t)}
        /\ row.allocations = t.allocations /\ row.donations = t.donations
    BY <1>2 DEF NoTx
  <1>4. UNCHANGED vars /\ tx' = [tx EXCEPT ![w] = row]
    BY <1>1, <1>2 DEF Lock
  <1> HIDE DEF row
  <1>5. RowsThere(row) /\ OneAllocation(row) /\ row.donations \subseteq Donations
    BY <1>2, <1>3 DEF OrderOf, RowsThere, OneAllocation
  <1>6. ASSUME t.call.name # "update_allocation" PROVE Ordered(row)
    <2>1. RowsThere(t) /\ t.donations \subseteq Donations /\ Ordered(t)
      BY <1>2, <1>6 DEF OrderOf
    <2>2. PICK lock : First(t, lock) /\ Entry(t, lock) /\ lock.row = NextLock(t)
      BY <1>2, <1>6, <2>1, NextEntry
    <2>3. Locked(t, row, lock)
      BY <1>3, <2>2 DEF Locked
    <2> QED BY <1>2, <1>6, <2>1, <2>3, LockOrdered
  <1>7. OrderOf(row)
    BY <1>3, <1>5, <1>6 DEF OrderOf
  <1> QED BY <1>4, <1>7, OrderAfterStep

LEMMA PassOrder ==
    ASSUME LocksInv, OrderInv, NEW w \in Workers, Pass(w)
    PROVE  OrderInv'
  <1>1. PICK t : t = tx[w]
    OBVIOUS
  <1>2. /\ t.phase = "locking" /\ Reads(t) /\ Missing(t) = {}
        /\ DOMAIN t = DOMAIN NoTx
    BY <1>1 DEF Pass, LocksInv, Shape
  <1> DEFINE row == [t EXCEPT !.phase = "checked"]
  <1>3. row.phase = "checked" /\ row.call = t.call /\ row.held = t.held
    BY <1>2 DEF NoTx
  <1>4. UNCHANGED vars /\ tx' = [tx EXCEPT ![w] = row]
    BY <1>1, <1>2 DEF Pass
  <1> HIDE DEF row
  <1>5. ASSUME t.call.name \in {"create_request", "update_request"}
        PROVE  <<"project", allocation[t.call.a].project>> \in t.held
    <2>1. t.call.a \in t.allocations /\ t.call.name \in ParentCalls
      BY <1>2, <1>5 DEF Reads, ParentCalls
    <2>2. LockAt(2, t.call.a, 2, "project", allocation[t.call.a].project) \in LockPlan(t)
      BY <2>1, ParentPlan DEF Joined
    <2>3. LockAt(2, t.call.a, 2, "project", allocation[t.call.a].project).row \in t.held
      BY <1>2, <2>2 DEF Missing
    <2> QED BY <2>3 DEF LockAt
  <1>6. OrderOf(row)
    BY <1>3, <1>5 DEF OrderOf, HoldsProject
  <1> QED BY <1>4, <1>6, OrderAfterStep

LEMMA EndOrder ==
    ASSUME LocksInv, OrderInv, NEW w \in Workers, Commit(w) \/ Reject(w) \/ Abort(w)
    PROVE  OrderInv'
  <1>1. /\ tx' = [tx EXCEPT ![w] = NoTx]
        /\ UNCHANGED vars \/ (tx[w].phase = "checked" /\ Effect(tx[w].call))
    BY DEF Commit, Reject, Abort
  <1>2. OrderOf(NoTx)
    BY DEF OrderOf, NoTx
  <1> QED BY <1>1, <1>2, OrderAfterStep

LEMMA StepOrder ==
    ASSUME LocksInv, OrderInv, [LocksNext]_allVars
    PROVE  OrderInv'
  <1>1. CASE UNCHANGED allVars
    <2>1. UNCHANGED vars /\ UNCHANGED tx
      BY <1>1 DEF allVars
    <2>2. ASSUME NEW w \in Workers PROVE OrderOf(tx[w])'
      <3>1. PICK t : t = tx[w]
        OBVIOUS
      <3>2. OrderOf(t)'
        BY <2>1, <3>1, QuietOrder DEF OrderInv
      <3> QED BY <2>1, <3>1, <3>2 DEF OrderOf, RowsThere, OneAllocation, Ordered, HoldsProject
    <2> QED BY <2>2 DEF OrderInv
  <1>2. CASE LocksNext
    BY <1>2, BeginOrder, ReferOrder, LockOrder, PassOrder, EndOrder DEF LocksNext
  <1> QED BY <1>1, <1>2


-------------------------------------------------------------------------------
(* Who waits ascends: the row it waits for comes after the rows it holds.  *)

Rank(table) ==
    CASE table = "donation" -> 0
      [] table = "expense"  -> 1
      [] table = "project"  -> 2
      [] table = "request"  -> 3

RankedTables == {"donation", "expense", "project", "request"}

\* One row comes after the other.
After(low, high) ==
    \/ Rank(low[1]) < Rank(high[1])
    \/ low[1] = high[1] /\ low[2] < high[2]

\* A transaction in order, which waits for the row of lock.
Waiting(t, lock) ==
    /\ t.phase = "locking"
    /\ CallFields(t.call)
    /\ OrderOf(t)
    /\ ~OutOfOrder(t)
    /\ First(t, lock)
    /\ Entry(t, lock)

LEMMA WaitingHas ==
    ASSUME NEW t, NEW lock, Waiting(t, lock)
    PROVE  /\ t.call.name # "update_allocation"
           /\ RowsThere(t) /\ OneAllocation(t) /\ t.donations \subseteq Donations
           /\ Ordered(t)
           /\ lock.row \notin t.held
           /\ t.call.name \notin DirectCalls =>
                  \A a \in t.allocations : allocation[a].donation \in FirstDonations(t)
           /\ t.call.name = "update_request" =>
                  /\ request[t.call.r].allocation \in t.allocations
                  /\ \A a, b \in t.allocations :
                         a < b => ~(allocation[b].project < allocation[a].project)
  BY DEF Waiting, OrderOf, OutOfOrder, Outdated, Crossed, First, Missing, FirstDonations

LEMMA DonationAscends ==
    ASSUME NEW t, NEW lock, Waiting(t, lock), NEW table \in RankedTables, NEW i \in Ids,
           <<table, i>> \in t.held, NEW j \in Ids, lock.row = <<"donation", j>>
    PROVE  table = "donation" /\ i < j
  <1>1. DonationEntry(t, lock, j)
    BY EntryByTable DEF Waiting
  <1>2. j \in FirstDonations(t)
    <2>1. t.call.name \in ParentCalls => t.call.name \notin DirectCalls
      BY DEF ParentCalls, DirectCalls, DecisionCalls
    <2> QED BY <1>1, <2>1, WaitingHas DEF DonationEntry
  <1>3. <<"donation", j>> \notin t.held /\ DonationsFirst(t)
    BY WaitingHas DEF Ordered
  <1>4. table = "donation"
    BY <1>2, <1>3 DEF DonationsFirst, RankedTables
  <1> QED BY <1>2, <1>3, <1>4 DEF DonationsFirst

LEMMA ExpenseAscends ==
    ASSUME NEW t, NEW lock, Waiting(t, lock), NEW table \in RankedTables, NEW i \in Ids,
           <<table, i>> \in t.held, NEW j \in Ids, lock.row = <<"expense", j>>
    PROVE  table = "donation"
  <1>1. ExpenseEntry(t, lock, j)
    BY EntryByTable DEF Waiting
  <1>2. t.call.name \in {"update_expense", "annul_expense"} /\ j = t.call.e
    BY <1>1 DEF ExpenseEntry
  <1>3. <<"expense", j>> \notin t.held /\ ExpensesHeld(t) /\ ProjectsHeld(t) /\ RequestsHeld(t)
    BY WaitingHas DEF Ordered
  <1>4. table # "expense"
    BY <1>2, <1>3 DEF ExpensesHeld
  <1>5. table # "project"
    BY <1>2, <1>3 DEF ProjectsHeld, ParentCalls, DecisionCalls
  <1>6. table # "request"
    BY <1>2, <1>3 DEF RequestsHeld, RequestCalls, DecisionCalls
  <1> QED BY <1>4, <1>5, <1>6 DEF RankedTables

\* The projects joined to the allocations a call locks.
LEMMA JoinedProjectAscends ==
    ASSUME NEW t, NEW lock, Waiting(t, lock), t.call.name \in ParentCalls, NEW i \in Ids,
           <<"project", i>> \in t.held, NEW j \in Ids, lock.row = <<"project", j>>
    PROVE  i < j
  <1>1. ProjectEntry(t, lock, j)
    BY EntryByTable DEF Waiting
  <1>2. PICK a \in t.allocations : j = allocation[a].project
    BY <1>1 DEF ProjectEntry, ParentCalls, DecisionCalls
  <1>3. <<"project", j>> \notin t.held /\ ParentsInOrder(t)
    BY WaitingHas DEF Ordered
  <1>4. PICK b \in t.allocations : <<"allocation", b>> \in t.held /\ allocation[b].project = i
    BY <1>3 DEF ParentsInOrder
  <1>5. i # j
    BY <1>3
  <1>6. ~(a < b)
    BY <1>2, <1>3, <1>4 DEF ParentsInOrder, JoinedRows
  <1>7. t.call.name = "update_request"
    BY <1>2, <1>4, <1>5, WaitingHas DEF OneAllocation
  <1>8. a \in Nat /\ b \in Nat /\ i \in Nat /\ j \in Nat
    BY <1>7, WaitingHas, IdsAreNat, LocksAssumption DEF RowsThere, DirectCalls
  <1>9. a # b
    BY <1>2, <1>4, <1>5
  <1>10. b < a
    BY <1>6, <1>8, <1>9
  <1>11. ~(j < i)
    BY <1>2, <1>4, <1>7, <1>10, WaitingHas
  <1> QED BY <1>5, <1>8, <1>11

LEMMA ProjectAscends ==
    ASSUME NEW t, NEW lock, Waiting(t, lock), NEW table \in RankedTables, NEW i \in Ids,
           <<table, i>> \in t.held, NEW j \in Ids, lock.row = <<"project", j>>
    PROVE  table # "request" /\ (table = "project" => i < j)
  <1>1. ProjectEntry(t, lock, j)
    BY EntryByTable DEF Waiting
  <1>2. <<"project", j>> \notin t.held /\ ParentsInOrder(t) /\ ProjectsHeld(t) /\ RequestsHeld(t)
    BY WaitingHas DEF Ordered
  <1>3. CASE t.call.name \in ParentCalls
    <2>1. PICK a \in t.allocations : j = allocation[a].project
      BY <1>1, <1>3 DEF ProjectEntry, ParentCalls, DecisionCalls
    <2>2. table # "request"
      BY <1>2, <1>3, <2>1 DEF ParentsInOrder, JoinedRows
    <2> QED BY <1>3, <2>2, JoinedProjectAscends
  <1>4. CASE t.call.name = "create_allocation"
    <2>1. j = t.call.p
      BY <1>1, <1>4 DEF ProjectEntry, ParentCalls, DecisionCalls
    <2>2. table # "request"
      BY <1>2, <1>4 DEF RequestsHeld, RequestCalls, DecisionCalls
    <2>3. table # "project"
      BY <1>2, <1>4, <2>1 DEF ProjectsHeld
    <2> QED BY <2>2, <2>3
  <1>5. CASE t.call.name = "finish_project"
    <2>1. j = t.call.p
      BY <1>1, <1>5 DEF ProjectEntry, ParentCalls, DecisionCalls
    <2>2. table # "request"
      BY <1>2, <1>5, <2>1 DEF RequestsHeld
    <2>3. table # "project"
      BY <1>2, <1>5, <2>1 DEF ProjectsHeld
    <2> QED BY <2>2, <2>3
  <1>6. CASE t.call.name = "update_expense"
    <2>1. j \in ProjectOf(t.allocations)
      BY <1>1, <1>6 DEF ProjectEntry, ParentCalls, DecisionCalls
    <2>2. table # "request"
      BY <1>2, <1>6 DEF RequestsHeld, RequestCalls, DecisionCalls
    <2>3. table = "project" => i < j
      BY <1>2, <1>6, <2>1 DEF ProjectsHeld
    <2> QED BY <2>2, <2>3
  <1> QED BY <1>1, <1>3, <1>4, <1>5, <1>6 DEF ProjectEntry

LEMMA RequestAscends ==
    ASSUME LedgerInv, NEW t, NEW lock, Waiting(t, lock), NEW i \in Ids,
           <<"request", i>> \in t.held, NEW j \in Ids, lock.row = <<"request", j>>
    PROVE  i < j
  <1>1. RequestEntry(t, lock, j)
    BY EntryByTable DEF Waiting
  <1>2. <<"request", j>> \notin t.held /\ RequestsHeld(t) /\ CallFields(t.call)
    BY WaitingHas DEF Ordered, Waiting
  <1>3. CASE t.call.name \in RequestCalls
    BY <1>1, <1>2, <1>3 DEF RequestEntry, RequestsHeld, RequestCalls, DecisionCalls
  <1>4. CASE t.call.name \in {"finish_allocation", "finish_project"}
    BY <1>1, <1>2, <1>4 DEF RequestEntry, RequestsHeld, RequestCalls, DecisionCalls
  <1>5. CASE t.call.name = "annul_expense"
    <2>1. i \in SweptRequests(t.call) /\ j \in SweptRequests(t.call)
      BY <1>1, <1>2, <1>5 DEF RequestEntry, RequestsHeld, RequestCalls, DecisionCalls
    <2>2. /\ i \in Requests /\ j \in Requests /\ t.call.e \in Expenses
          /\ request[i].expense = t.call.e /\ request[j].expense = t.call.e
      BY <1>2, <1>5, <2>1 DEF SweptRequests, CallFields
    <2>3. i = j
      BY <2>2, LedgerAssumption DEF LedgerInv, LifeInv, OneRequestEach
    <2> QED BY <1>2, <2>3
  <1> QED BY <1>1, <1>3, <1>4, <1>5 DEF RequestEntry

\* What is held comes before what is waited for.
LEMMA WaitAscends ==
    ASSUME LedgerInv, NEW t, NEW lock, Waiting(t, lock),
           NEW table \in RankedTables, NEW i \in Ids, <<table, i>> \in t.held,
           NEW next \in RankedTables, NEW j \in Ids, lock.row = <<next, j>>
    PROVE  After(<<table, i>>, <<next, j>>)
  <1>1. CASE next = "donation"
    BY <1>1, DonationAscends DEF After
  <1>2. CASE next = "expense"
    BY <1>2, ExpenseAscends DEF After, Rank
  <1>3. CASE next = "project"
    BY <1>3, ProjectAscends DEF After, Rank, RankedTables
  <1>4. CASE next = "request"
    BY <1>4, RequestAscends DEF After, Rank, RankedTables
  <1> QED BY <1>1, <1>2, <1>3, <1>4 DEF RankedTables

-------------------------------------------------------------------------------
(* Nobody waits long in a circle.                                          *)

LEMMA PlannedAllocation ==
    ASSUME NEW t, NEW lock, Waiting(t, lock), NEW a \in Ids,
           t.call.name \in ParentCalls \cup ReferredCalls,
           \/ a \in t.allocations
           \/ t.call.name = "update_request" /\ a = request[t.call.r].allocation
    PROVE  /\ a \in Allocations /\ HasRow(allocation[a])
           /\ allocation[a].donation \in FirstDonations(t)
  <1>1. t.call.name \notin DirectCalls
    BY DEF ParentCalls, ReferredCalls, DirectCalls, DecisionCalls
  <1>2. a \in t.allocations
    BY WaitingHas
  <1> QED BY <1>1, <1>2, WaitingHas DEF RowsThere

\* The donation of an allocation that is locked, or that is to be locked next, is locked.
LEMMA DonationIsHeld ==
    ASSUME LedgerInv, NEW t, NEW lock, Waiting(t, lock), NEW a \in Ids,
           <<"allocation", a>> \in t.held \/ lock.row = <<"allocation", a>>
    PROVE  <<"donation", allocation[a].donation>> \in t.held
  <1>1. CASE <<"allocation", a>> \in t.held
    <2>1. /\ t.call.name \in ParentCalls \cup ReferredCalls
          /\ \/ a \in t.allocations
             \/ t.call.name = "update_request" /\ a = request[t.call.r].allocation
      BY <1>1, WaitingHas DEF Ordered, AllocationsHeld
    <2>2. allocation[a].donation \in FirstDonations(t)
      BY <2>1, PlannedAllocation
    <2> QED BY <1>1, <2>2, WaitingHas DEF Ordered, DonationsFirst
  <1>2. CASE lock.row = <<"allocation", a>>
    <2>1. AllocationEntry(t, lock, a)
      BY <1>2, EntryByTable DEF Waiting
    <2>2. /\ t.call.name \in ParentCalls \cup ReferredCalls
          /\ \/ a \in t.allocations
             \/ t.call.name = "update_request" /\ a = request[t.call.r].allocation
          /\ lock.at[1] \in {2, 4}
      BY <2>1 DEF AllocationEntry
    <2>3. allocation[a].donation \in FirstDonations(t)
      BY <2>2, PlannedAllocation
    <2>4. CallFields(t.call) /\ t.call.name # "update_allocation" /\ First(t, lock)
      BY WaitingHas DEF Waiting
    <2> QED BY <2>2, <2>3, <2>4, EarlierDonations
  <1> QED BY <1>1, <1>2

LEMMA EntryIsRow ==
    ASSUME NEW t, NEW lock, Entry(t, lock)
    PROVE  \E table \in RankedTables \cup {"allocation"}, i \in Ids : lock.row = <<table, i>>
  BY DEF Entry, DonationEntry, AllocationEntry, ProjectEntry, ExpenseEntry, RequestEntry,
         RankedTables

\* Between two transactions in order that both wait, nobody waits for an allocation.
LEMMA NobodyAwaitsAllocations ==
    ASSUME LedgerInv, NEW t, NEW lock, Waiting(t, lock), NEW u, NEW other, Waiting(u, other),
           t.held \cap u.held = {}, lock.row \in u.held
    PROVE  \E table \in RankedTables, i \in Ids : lock.row = <<table, i>>
  <1>1. ASSUME NEW a \in Ids, lock.row = <<"allocation", a>>
        PROVE  FALSE
    <2>1. <<"donation", allocation[a].donation>> \in t.held
      BY <1>1, DonationIsHeld
    <2>2. <<"donation", allocation[a].donation>> \in u.held
      BY <1>1, DonationIsHeld
    <2> QED BY <2>1, <2>2
  <1>2. Entry(t, lock)
    BY DEF Waiting
  <1> QED BY <1>1, <1>2, EntryIsRow

LEMMA AfterIsOrder ==
    ASSUME NEW x \in RankedTables \X Ids, NEW y \in RankedTables \X Ids,
           NEW z \in RankedTables \X Ids
    PROVE  ~After(x, x) /\ (After(x, y) /\ After(y, z) => After(x, z))
  <1>1. x[2] \in Nat /\ y[2] \in Nat /\ z[2] \in Nat
    BY IdsAreNat
  <1>2. Rank(x[1]) \in Nat /\ Rank(y[1]) \in Nat /\ Rank(z[1]) \in Nat
    BY DEF Rank, RankedTables
  <1> QED BY <1>1, <1>2 DEF After

\* In a finite set some row has no row after it.
LEMMA SomeRowIsLast ==
    ASSUME NEW S, S \subseteq RankedTables \X Ids, IsFiniteSet(S), S # {}
    PROVE  \E x \in S : \A y \in S : ~After(x, y)
  <1> DEFINE Later(x) == {y \in S : After(x, y)}
             Sizes == {Cardinality(Later(x)) : x \in S}
  <1>1. ASSUME NEW x PROVE IsFiniteSet(Later(x)) /\ Cardinality(Later(x)) \in Nat
    BY FS_Subset, FS_CardinalityType
  <1>2. PICK x \in S : \A y \in S : Cardinality(Later(x)) <= Cardinality(Later(y))
    <2>1. Sizes \subseteq Nat /\ Sizes # {}
      BY <1>1
    <2>2. PICK n \in Sizes : \A m \in Sizes : n <= m
      BY <2>1, Smallest
    <2> QED BY <2>2
  <1>3. ASSUME NEW y \in S, After(x, y) PROVE FALSE
    <2>1. Later(y) \subseteq Later(x)
      BY <1>3, AfterIsOrder
    <2>2. y \in Later(x) /\ y \notin Later(y)
      BY <1>3, AfterIsOrder
    <2> HIDE DEF Later
    <2>3. /\ Cardinality(Later(y)) <= Cardinality(Later(x))
          /\ Cardinality(Later(x)) # Cardinality(Later(y))
      BY <1>1, <2>1, <2>2, FS_Subset
    <2>4. Cardinality(Later(x)) <= Cardinality(Later(y))
      BY <1>2
    <2> QED BY <1>1, <2>3, <2>4
  <1> QED BY <1>3

\* What w waits for.
LEMMA WaiterHasEntry ==
    ASSUME LocksInv, OrderInv, NEW w \in Workers, tx[w].phase = "locking",
           Missing(tx[w]) # {}, ~OutOfOrder(tx[w])
    PROVE  \E lock : Waiting(tx[w], lock) /\ lock.row = NextLock(tx[w])
  <1>1. PICK t : t = tx[w]
    OBVIOUS
  <1>2. /\ t.phase = "locking" /\ CallFields(t.call) /\ Missing(t) # {}
        /\ OrderOf(t) /\ LedgerInv /\ ~OutOfOrder(t)
    BY <1>1, CallsAreTyped DEF LocksInv, Shape, OrderInv
  <1>3. t.call.name # "update_allocation" /\ RowsThere(t) /\ t.donations \subseteq Donations
    BY <1>2 DEF OutOfOrder, OrderOf
  <1>4. PICK lock : First(t, lock) /\ Entry(t, lock) /\ lock.row = NextLock(t)
    BY <1>2, <1>3, NextEntry
  <1>5. Waiting(t, lock)
    BY <1>2, <1>4 DEF Waiting
  <1> QED BY <1>1, <1>4, <1>5

LEMMA CirclesAreOutOfOrder ==
    ASSUME LocksInv, OrderInv
    PROVE  DeadlocksAreOutOfOrder
  <1> SUFFICES ASSUME NEW W \in SUBSET Workers, W # {}, IsFiniteSet(W),
                      \A w \in W : \E v \in W : WaitsFor(w, v),
                      \A w \in W : ~OutOfOrder(tx[w])
               PROVE  FALSE
    BY DEF DeadlocksAreOutOfOrder
  <1> DEFINE Row(w) == NextLock(tx[w])
             Rows == {Row(w) : w \in W}
  <1>1. ASSUME NEW w \in W
        PROVE  \E lock : Waiting(tx[w], lock) /\ lock.row = Row(w)
    <2>1. tx[w].phase = "locking" /\ Missing(tx[w]) # {}
      BY DEF WaitsFor
    <2> QED BY <2>1, WaiterHasEntry
  <1>2. ASSUME NEW w \in W
        PROVE  Row(w) \in RankedTables \X Ids /\ \E v \in W : Row(w) \in tx[v].held
    <2>1. PICK v \in W : Row(w) \in tx[v].held
      BY DEF WaitsFor
    <2>2. PICK lock : Waiting(tx[w], lock) /\ lock.row = Row(w)
      BY <1>1
    <2>3. PICK other : Waiting(tx[v], other)
      BY <1>1
    <2>4. v # w
      BY <2>1, <2>2, WaitingHas
    <2>5. tx[w].held \cap tx[v].held = {} /\ LedgerInv
      BY <2>4 DEF LocksInv, Exclusive
    <2>6. lock.row \in tx[v].held
      BY <2>1, <2>2
    <2>7. \E table \in RankedTables, i \in Ids : lock.row = <<table, i>>
      BY <2>2, <2>3, <2>5, <2>6, NobodyAwaitsAllocations
    <2> QED BY <2>1, <2>2, <2>7
  <1>3. ASSUME NEW w \in W, NEW v \in W, Row(w) \in tx[v].held
        PROVE  After(Row(w), Row(v))
    <2>1. PICK table \in RankedTables, i \in Ids : Row(w) = <<table, i>>
      BY <1>2
    <2>2. PICK next \in RankedTables, j \in Ids : Row(v) = <<next, j>>
      BY <1>2
    <2>3. PICK lock : Waiting(tx[v], lock) /\ lock.row = Row(v)
      BY <1>1
    <2>4. LedgerInv
      BY DEF LocksInv
    <2>5. <<table, i>> \in tx[v].held /\ lock.row = <<next, j>>
      BY <1>3, <2>1, <2>2, <2>3
    <2>6. After(<<table, i>>, <<next, j>>)
      BY <2>3, <2>4, <2>5, WaitAscends
    <2> QED BY <2>1, <2>2, <2>6
  <1>4. Rows \subseteq RankedTables \X Ids /\ Rows # {} /\ IsFiniteSet(Rows)
    <2> DEFINE f == [w \in W |-> Row(w)]
    <2>1. f \in Surjection(W, Rows)
      BY DEF Surjection
    <2>2. IsFiniteSet(Rows)
      BY <2>1, FS_Surjection
    <2> QED BY <1>2, <2>2
  <1>5. PICK x \in Rows : \A y \in Rows : ~After(x, y)
    BY <1>4, SomeRowIsLast
  <1>6. PICK w \in W : x = Row(w)
    BY <1>5
  <1>7. PICK v \in W : Row(w) \in tx[v].held
    BY <1>2
  <1>8. After(Row(w), Row(v))
    BY <1>3, <1>7
  <1> QED BY <1>5, <1>6, <1>8

-------------------------------------------------------------------------------
(* The theorems.                                                           *)

\* Nothing is under way yet.
NothingBegun == tx = [w \in Workers |-> NoTx]

LEMMA QuietStart == LedgerInv /\ NothingBegun => LocksInv
  <1> SUFFICES ASSUME LedgerInv, NothingBegun PROVE LocksInv
    OBVIOUS
  <1>1. \A w \in Workers : tx[w].phase = "idle" /\ tx[w].held = {} /\ tx[w] = NoTx
    BY DEF NothingBegun, NoTx
  <1> QED BY <1>1 DEF NothingBegun, LocksInv, Shape, Exclusive, ChecksKept

\* The prepared ledger is one the invariants of Ledger hold of.
LEMMA PreparedInv == Prepared => LedgerInv
  <1> SUFFICES ASSUME Prepared PROVE LedgerInv
    OBVIOUS
  <1>1. /\ 1 \in Donations /\ 1 \in Projects /\ 1 \in Allocations /\ 1 \in Requests
        /\ 2 \in Donations /\ 2 \in Projects /\ 2 \in Allocations /\ 2 \in Requests
        /\ 1 \in Expenses
    BY FixtureAssumption
  <1>2. MaxMoney \in Nat /\ MaxMoney >= 1
    BY MaxMoneyAssumption
  <1>3. TypeOK
    <2>1. donation \in [Donations -> DonationRow]
      BY <1>2 DEF Prepared, DonationRow, DonationStatus, Money
    <2>2. project \in [Projects -> ProjectRow]
      BY DEF Prepared, ProjectRow, ProjectStatus
    <2>3. allocation \in [Allocations -> AllocationRow]
      <3>1. ASSUME NEW a \in Allocations PROVE allocation[a] \in AllocationRow
        <4>1. a \in {1, 2} => a \in Donations /\ a \in Projects
          BY <1>1
        <4>2. 0 \in Money /\ MaxMoney \in Money
          BY <1>2 DEF Money
        <4>3. CASE a \in {1, 2}
          <5>1. allocation[a] = [status |-> "active", amount |-> MaxMoney,
                                 donation |-> a, project |-> a]
            BY <4>3 DEF Prepared
          <5> QED BY <4>1, <4>2, <4>3, <5>1 DEF AllocationRow, AllocationStatus
        <4>4. CASE a \notin {1, 2}
          <5>1. allocation[a] = [status |-> "absent", amount |-> 0,
                                 donation |-> None, project |-> None]
            BY <4>4 DEF Prepared
          <5> QED BY <4>2, <5>1 DEF AllocationRow, AllocationStatus, NoRow
        <4> QED BY <4>3, <4>4
      <3>2. allocation = [a \in Allocations |-> allocation[a]]
        BY DEF Prepared
      <3> QED BY <3>1, <3>2
    <2>4. request \in [Requests -> RequestRow]
      BY <1>1, <1>2 DEF Prepared, RequestRow, RequestStatus, Money
    <2>5. expense \in [Expenses -> ExpenseRow]
      <3>1. 0 \in Money /\ 1 \in Money
        BY <1>2 DEF Money
      <3>2. ASSUME NEW e \in Expenses PROVE expense[e] \in ExpenseRow
        <4>1. CASE e = 1
          <5>1. expense[e] = [status |-> "registered", amount |-> 1, allocation |-> 2]
            BY <4>1 DEF Prepared
          <5> QED BY <1>1, <3>1, <5>1 DEF ExpenseRow, ExpenseStatus
        <4>2. CASE e # 1
          <5>1. expense[e] = [status |-> "absent", amount |-> 0, allocation |-> None]
            BY <4>2 DEF Prepared
          <5> QED BY <3>1, <5>1 DEF ExpenseRow, ExpenseStatus, NoRow
        <4> QED BY <4>1, <4>2
      <3>3. expense = [e \in Expenses |-> expense[e]]
        BY DEF Prepared
      <3> QED BY <3>2, <3>3
    <2>6. trail \in [Requests -> SUBSET ReservationEvent]
      BY DEF Prepared, ReservationEvent
    <2>7. edit \in [Edits -> EditRow] /\ deleting \in SUBSET Expenses
      BY DEF Prepared, EditRow, Idle, ProjectRow, ProjectStatus
    <2> QED BY <2>1, <2>2, <2>3, <2>4, <2>5, <2>6, <2>7 DEF TypeOK
  <1>4. ReferencesExist
    BY <1>1, LedgerAssumption
       DEF Prepared, ReferencesExist, RowReferences, AllocationReferences, RequestReferences,
           ExpenseReferences, EditReferences, Idle, HasRow, NoRow
  <1>5. LifeInv
    <2>1. ASSUME NEW r \in Requests
          PROVE  /\ request[r].expense = None
                 /\ request[r].status \notin {"fulfilled"}
                 /\ request[r].status = "pending_decision" => request[r].requested # 0
                 /\ request[r].status = "approved_reserved" => request[r].reserved # 0
                 /\ request[r].status = "approved_reserved" <=> r = 2
                 /\ trail[r] = IF r = 2 THEN {"RESERVATION_CREATED"} ELSE {}
      BY DEF Prepared
    <2>2. ASSUME NEW r \in Requests PROVE LifeOf(r)
      BY <2>1, <2>2 DEF LifeOf, Settling
    <2>3. OneRequestEach
      BY <2>1, LedgerAssumption DEF OneRequestEach
    <2> QED BY <2>2, <2>3 DEF LifeInv
  <1> QED BY <1>3, <1>4, <1>5 DEF LedgerInv

LEMMA LocksStart == LocksInit => LocksInv
  BY PreparedInv, QuietStart DEF LocksInit, NothingBegun

\* What a checked transaction has passed is its guard, where the request is.
LEMMA PassedSays ==
    ASSUME LocksInv
    PROVE  ChecksStillHold /\ DecidedWhereChecked
  <1>1. ASSUME NEW w \in Workers, tx[w].phase = "checked"
        PROVE  Passed(tx[w], tx[w].call)
    BY <1>1 DEF LocksInv, Shape, ChecksKept
  <1> QED BY <1>1 DEF ChecksStillHold, DecidedWhereChecked, Passed, Placed

\* From any ledger that keeps its own invariants, and whatever the calls, a
\* commit finds the guard of its transaction still true and is a step of Ledger:
\* taken apart into reads, locks and checks, the services are its transactions.
THEOREM CommitsAreLedgerSteps ==
    LedgerInv /\ NothingBegun /\ [][LocksNext]_allVars
        => [](LedgerInv /\ ChecksStillHold /\ DecidedWhereChecked) /\ [][Next]_vars
  <1>1. LocksInv => LedgerInv /\ ChecksStillHold /\ DecidedWhereChecked
    BY PassedSays DEF LocksInv
  <1>2. LocksInv /\ [LocksNext]_allVars => [Next]_vars
    BY LocksStepIsLedgerStep
  <1> QED BY <1>1, <1>2, QuietStart, StepLocks, PTL

\* No transaction makes false what another one has checked and not committed.
THEOREM ChecksHoldUntilCommit == LocksSpec => []ChecksStillHold
  BY LocksStart, StepLocks, PassedSays, PTL DEF LocksSpec

\* Money is decided on where the request is, although the request may have
\* been moved between the reference read and the locks.
THEOREM DecisionsAreWhereChecked == LocksSpec => []DecidedWhereChecked
  BY LocksStart, StepLocks, PassedSays, PTL DEF LocksSpec

LEMMA OrderStart == NothingBegun => OrderInv
  BY DEF NothingBegun, OrderInv, OrderOf, NoTx

\* However many calls wait for each other in a circle, one of them asks for its
\* locks out of order: it is an update_fund_allocation, what it read without a
\* lock has changed since, or it crosses the projects of the two allocations a
\* request moves between.
THEOREM DeadlocksOutOfOrder == LocksSpec => []DeadlocksAreOutOfOrder
  <1>1. LocksInit => LocksInv /\ OrderInv
    BY LocksStart, OrderStart DEF LocksInit, NothingBegun
  <1>2. LocksInv /\ OrderInv /\ [LocksNext]_allVars => (LocksInv /\ OrderInv)'
    BY StepLocks, StepOrder
  <1>3. LocksInv /\ OrderInv => DeadlocksAreOutOfOrder
    BY CirclesAreOutOfOrder
  <1> QED BY <1>1, <1>2, <1>3, PTL DEF LocksSpec

===============================================================================
