------------------------------ MODULE LedgerLocks ------------------------------
(***************************************************************************)
(* The transactions of Ledger taken apart: what each service reads before  *)
(* it locks, the row locks (SELECT ... FOR UPDATE) it takes one at a time, *)
(* the checks it makes once it holds them all, and the commit that saves   *)
(* its rows and releases its locks.                                        *)
(*                                                                         *)
(* PostgreSQL runs the transactions under READ COMMITTED: a statement sees *)
(* what was committed when it started, a locked row is seen as last        *)
(* committed, and a lock is held until the transaction ends.  A            *)
(* transaction may be rolled back at any step (a rejected check, a crash,  *)
(* a row that vanished while it waited, a deadlock victim).                *)
(*                                                                         *)
(* A row is <<table, id>>.  Ids are integers: every lock statement on      *)
(* several rows orders them by pk.  The delete views and the project edit  *)
(* form take no lock and stay in Ledger.                                   *)
(***************************************************************************)
EXTENDS Ledger

CONSTANTS Workers,      \* web workers, each running one transaction at a time
          Enabled,      \* names of the services that are called
          MaxCalls      \* bound: how many transactions are begun

ASSUME LocksAssumption ==
    /\ Donations \cup Projects \cup Allocations \cup Requests \cup Expenses \subseteq Nat
    /\ MaxCalls \in Nat

\* The rows Prepared is about exist.
ASSUME FixtureAssumption ==
    /\ {1, 2} \subseteq Donations \cap Projects \cap Allocations \cap Requests
    /\ 1 \in Expenses

VARIABLES
    tx,      \* the transaction of each worker
    calls    \* how many were begun

allVars == <<vars, tx, calls>>

-------------------------------------------------------------------------------
(* The calls.                                                              *)

Call ==
    UNION {
      [name : {"update_donation"}, d : Donations, m : Positive],
      [name : {"annul_donation"}, d : Donations],
      [name : {"create_allocation", "update_allocation"}, a : Allocations, d : Donations,
       p : Projects, m : Positive],
      [name : {"finish_allocation", "annul_allocation"}, a : Allocations],
      [name : {"finish_project"}, p : Projects],
      [name : {"create_request", "update_request"}, r : Requests, a : Allocations, m : Positive],
      [name : {"approve_request", "annul_request", "withdraw_request"}, r : Requests],
      [name : {"fulfill_request"}, r : Requests, e : Expenses, m : Positive],
      [name : {"create_expense_legacy", "update_expense"}, e : Expenses, a : Allocations,
       m : Positive],
      [name : {"annul_expense"}, e : Expenses]
    }

\* What the service checks of the rows: the guard of the transaction of Ledger.
Guard(c) ==
    CASE c.name = "update_donation"       -> MayUpdateDonation(c.d, c.m)
      [] c.name = "annul_donation"        -> MayAnnulDonation(c.d)
      [] c.name = "create_allocation"     -> MayCreateAllocation(c.a, c.d, c.p, c.m)
      [] c.name = "update_allocation"     -> MayUpdateAllocation(c.a, c.d, c.p, c.m)
      [] c.name = "finish_allocation"     -> MayFinishAllocation(c.a)
      [] c.name = "annul_allocation"      -> MayAnnulAllocation(c.a)
      [] c.name = "finish_project"        -> MayFinishProject(c.p)
      [] c.name = "create_request"        -> MayCreateRequest(c.r, c.a)
      [] c.name = "update_request"        -> MayUpdateRequest(c.r, c.a)
      [] c.name = "approve_request"       -> MayApproveRequest(c.r)
      [] c.name = "annul_request"         -> MayAnnulRequest(c.r)
      [] c.name = "withdraw_request"      -> MayWithdrawRequest(c.r)
      [] c.name = "fulfill_request"       -> MayFulfillRequest(c.r, c.e, c.m)
      [] c.name = "create_expense_legacy" -> MayCreateExpenseLegacy(c.e, c.a, c.m)
      [] c.name = "update_expense"        -> MayUpdateExpense(c.e, c.a, c.m)
      [] c.name = "annul_expense"         -> MayAnnulExpense(c.e)

\* What the call does when it commits: the transaction of Ledger.
Effect(c) ==
    \/ c.name = "update_donation"       /\ UpdateDonation(c.d, c.m)
    \/ c.name = "annul_donation"        /\ AnnulDonation(c.d)
    \/ c.name = "create_allocation"     /\ CreateAllocation(c.a, c.d, c.p, c.m)
    \/ c.name = "update_allocation"     /\ UpdateAllocation(c.a, c.d, c.p, c.m)
    \/ c.name = "finish_allocation"     /\ FinishAllocation(c.a)
    \/ c.name = "annul_allocation"      /\ AnnulAllocation(c.a)
    \/ c.name = "finish_project"        /\ FinishProject(c.p)
    \/ c.name = "create_request"        /\ CreateRequest(c.r, c.a, c.m)
    \/ c.name = "update_request"        /\ UpdateRequest(c.r, c.a, c.m)
    \/ c.name = "approve_request"       /\ ApproveRequest(c.r)
    \/ c.name = "annul_request"         /\ AnnulRequest(c.r)
    \/ c.name = "withdraw_request"      /\ WithdrawRequest(c.r)
    \/ c.name = "fulfill_request"       /\ FulfillRequest(c.r, c.e, c.m)
    \/ c.name = "create_expense_legacy" /\ CreateExpenseLegacy(c.e, c.a, c.m)
    \/ c.name = "update_expense"        /\ UpdateExpense(c.e, c.a, c.m)
    \/ c.name = "annul_expense"         /\ AnnulExpense(c.e)

DecisionCalls == {"approve_request", "annul_request", "withdraw_request", "fulfill_request"}

\* Calls that work on a request there is.
RequestCalls  == DecisionCalls \cup {"update_request"}

\* Calls that lock at once, without a reference read.
DirectCalls  == {"update_donation", "annul_donation", "create_allocation", "update_allocation"}

-------------------------------------------------------------------------------
(* The reference reads, both without a lock.                               *)

\* The allocations the first read finds: of the request, of the expense, and
\* those the form names.
FirstReference(c) ==
    (IF "a" \in DOMAIN c THEN {c.a} ELSE {})
        \cup (IF c.name \in RequestCalls THEN {request[c.r].allocation} ELSE {})
        \cup (IF c.name = "update_expense" THEN {expense[c.e].allocation} ELSE {})

\* finish_project and annul_expense read allocations and donations at once.
SecondReference(t) ==
    CASE t.call.name = "finish_project" ->
             {a \in Allocations : allocation[a].project = t.call.p}
      [] t.call.name = "annul_expense"  -> {expense[t.call.e].allocation}
      [] OTHER                          -> t.allocations

-------------------------------------------------------------------------------
(* The locks.  A plan says which rows are locked and where in the order:   *)
(* the stage of the statement, the pk its rows are ordered by, and, when   *)
(* it joins tables, the place of the table.                                *)

LockAt(stage, pk, place, table, id) == [at |-> <<stage, pk, place>>, row |-> <<table, id>>]

ByPk(stage, table, ids) == {LockAt(stage, id, 0, table, id) : id \in ids}

\* SELECT ... FOR UPDATE with select_related locks the allocation and the rows
\* joined to it.
Joined(stage, a) ==
    {LockAt(stage, a, 0, "allocation", a),
     LockAt(stage, a, 1, "donation", allocation[a].donation),
     LockAt(stage, a, 2, "project", allocation[a].project)}

\* Mutant of Parents: the donations are only locked with their allocations.
ParentsJoinedOnly(t) == UNION {Joined(2, a) : a \in t.allocations}

\* _lock_allocation_parents and _lock_allocations_by_ids
Parents(t) == ByPk(1, "donation", t.donations) \cup UNION {Joined(2, a) : a \in t.allocations}

\* Mutant of Referred: the allocations first.
ReferredAllocationsFirst(t) ==
    ByPk(1, "allocation", t.allocations) \cup ByPk(2, "donation", t.donations)

\* Every donation, then every allocation, as it was referred to.
Referred(t) == ByPk(1, "donation", t.donations) \cup ByPk(2, "allocation", t.allocations)

OpenUnder(as) == UNION {OpenRequests(a) : a \in as}
ProjectOf(as) == {allocation[a].project : a \in as}

\* Mutant of CreationLocks: the project is not locked.
CreationLocksNoProject(c) == ByPk(1, "donation", {c.d})

\* create_fund_allocation
CreationLocks(c) == ByPk(1, "donation", {c.d}) \cup ByPk(2, "project", {c.p})

\* update_fund_allocation: the allocation before its donations.
ReplacementLocks(c) ==
    ByPk(1, "allocation", {c.a})
        \cup ByPk(2, "donation", {allocation[c.a].donation, c.d})
        \cup ByPk(3, "project", {c.p})

\* update_expense_request: the statement that locks the request joins the
\* allocation it has by then.
RequestEditLocks(t) ==
    Parents(t) \cup ByPk(3, "request", {t.call.r})
        \cup ByPk(4, "allocation", {request[t.call.r].allocation})

LockPlan(t) ==
    LET c == t.call IN
    CASE c.name \in {"update_donation", "annul_donation"} -> ByPk(1, "donation", {c.d})
      [] c.name = "create_allocation" -> CreationLocks(c)
      [] c.name = "update_allocation" -> ReplacementLocks(c)
      [] c.name = "finish_allocation" -> Parents(t) \cup ByPk(3, "request", OpenRequests(c.a))
      [] c.name = "annul_allocation" -> Referred(t)
      [] c.name = "finish_project" ->
             Referred(t) \cup ByPk(3, "project", {c.p})
                 \cup ByPk(4, "request",
                           OpenUnder({a \in Allocations : allocation[a].project = c.p}))
      [] c.name \in {"create_request", "create_expense_legacy"} -> Parents(t)
      [] c.name = "update_request" -> RequestEditLocks(t)
      [] c.name \in DecisionCalls -> Parents(t) \cup ByPk(3, "request", {c.r})
      [] c.name = "update_expense" ->
             Referred(t) \cup ByPk(3, "expense", {c.e})
                 \cup ByPk(4, "project", ProjectOf(t.allocations))
      [] c.name = "annul_expense" ->
             Referred(t) \cup ByPk(3, "expense", {c.e})
                 \cup ByPk(4, "request", {r \in Requests : request[r].expense = c.e})

Before(x, y) ==
    \/ x[1] < y[1]
    \/ x[1] = y[1] /\ x[2] < y[2]
    \/ x[1] = y[1] /\ x[2] = y[2] /\ x[3] < y[3]

Missing(t)  == {lock \in LockPlan(t) : lock.row \notin t.held}
NextLock(t) ==
    (CHOOSE lock \in Missing(t) : \A other \in Missing(t) : ~Before(other.at, lock.at)).row

-------------------------------------------------------------------------------
(* The checks, made when every lock of the plan is held.  approve, fulfil  *)
(* and annul check the allocation they locked, which is the one the        *)
(* request pointed at when they started.                                   *)

\* What annulling or fulfilling r gives back to allocation a.
Own(r, a) == IF request[r].allocation = a THEN Held(r) ELSE 0

\* Mutant of ApprovalChecks: the defensive equation is left out.
ApprovalChecksUnconsolidated(r, a) ==
    /\ request[r].status = "pending_decision"
    /\ AcceptsRequests(a)
    /\ request[r].requested <= Available(a)

\* approve_expense_request
ApprovalChecks(r, a) ==
    LET m    == request[r].requested
        took == IF request[r].allocation = a THEN m ELSE 0
    IN  /\ request[r].status = "pending_decision"
        /\ AcceptsRequests(a)
        /\ m <= Available(a)
        /\ Consolidates(a, Unreserved(a) - took, -m)

\* fulfill_expense_request, _validate_expense_balance and Expense.clean
FulfilmentChecks(r, a, m) ==
    LET held == request[r].reserved
    IN  /\ request[r].status = "approved_reserved"
        /\ AcceptsRequests(a)
        /\ m <= held
        /\ m <= Unreserved(a) + held
        /\ m <= Clamp(Unreserved(a) + Own(r, a))
        /\ Consolidates(a, Unreserved(a) + Own(r, a) - m, held - m)

\* annul_expense_request
AnnulmentChecks(r, a) ==
    /\ request[r].status \in OpenFinancialStatuses
    /\ Consolidates(a, Unreserved(a) + Own(r, a), Held(r))

Checks(t) ==
    LET c == t.call IN
    CASE c.name = "approve_request" -> \A a \in t.allocations : ApprovalChecks(c.r, a)
      [] c.name = "fulfill_request" ->
             /\ expense[c.e].status = "absent"
             /\ \A a \in t.allocations : FulfilmentChecks(c.r, a, c.m)
      [] c.name = "annul_request"   -> \A a \in t.allocations : AnnulmentChecks(c.r, a)
      [] c.name = "update_request"  -> request[c.r].allocation \in t.allocations /\ Guard(c)
      [] c.name = "update_expense"  ->
             /\ Guard(c)
             /\ expense[c.e].allocation # c.a => allocation[c.a].donation \in t.donations
      [] OTHER                      -> Guard(c)

-------------------------------------------------------------------------------
(* The steps of a transaction.                                             *)

NoTx == [phase |-> "idle", call |-> None, allocations |-> {}, donations |-> {}, held |-> {}]

\* The row a call inserts: its id comes from a sequence, so it is never handed
\* out twice.
Inserted(c) ==
    CASE c.name = "create_allocation" -> {<<"allocation", c.a>>}
      [] c.name = "create_request"    -> {<<"request", c.r>>}
      [] c.name \in {"fulfill_request", "create_expense_legacy"} -> {<<"expense", c.e>>}
      [] OTHER                        -> {}

\* Every row the call names can be found, except the one it inserts.
Found(c) ==
    /\ "d" \in DOMAIN c => HasRow(donation[c.d])
    /\ "p" \in DOMAIN c => HasRow(project[c.p])
    /\ "a" \in DOMAIN c => (HasRow(allocation[c.a]) <=> <<"allocation", c.a>> \notin Inserted(c))
    /\ "r" \in DOMAIN c => (HasRow(request[c.r]) <=> <<"request", c.r>> \notin Inserted(c))
    /\ "e" \in DOMAIN c =>
           IF <<"expense", c.e>> \in Inserted(c) THEN expense[c.e].status = "absent"
                                                ELSE HasRow(expense[c.e])

\* A worker starts a transaction; the reference read of most services is its
\* first statement.
Begin(w, c) ==
    /\ tx[w].phase = "idle"
    /\ calls < MaxCalls
    /\ Found(c)
    /\ \A v \in Workers : tx[v].phase # "idle" => Inserted(tx[v].call) \cap Inserted(c) = {}
    /\ calls' = calls + 1
    /\ tx' = [tx EXCEPT ![w] =
                 [NoTx EXCEPT !.phase = IF c.name \in DirectCalls THEN "locking" ELSE "begun",
                              !.call = c,
                              !.allocations = FirstReference(c)]]
    /\ UNCHANGED vars

\* The second reference read: the donations of those allocations.
Refer(w) ==
    /\ tx[w].phase = "begun"
    /\ LET as == SecondReference(tx[w])
       IN  tx' = [tx EXCEPT ![w].phase = "locking", ![w].allocations = as,
                            ![w].donations = {allocation[a].donation : a \in as}]
    /\ UNCHANGED <<vars, calls>>

\* The next row lock, once no other transaction holds it.
Lock(w) ==
    /\ tx[w].phase = "locking"
    /\ Missing(tx[w]) # {}
    /\ \A v \in Workers \ {w} : NextLock(tx[w]) \notin tx[v].held
    /\ tx' = [tx EXCEPT ![w].held = @ \cup {NextLock(tx[w])}]
    /\ UNCHANGED <<vars, calls>>

\* Everything is locked and every check passes.
Pass(w) ==
    /\ tx[w].phase = "locking"
    /\ Missing(tx[w]) = {}
    /\ Checks(tx[w])
    /\ tx' = [tx EXCEPT ![w].phase = "checked"]
    /\ UNCHANGED <<vars, calls>>

\* Everything is locked and a check raises: the transaction is rolled back.
Reject(w) ==
    /\ tx[w].phase = "locking"
    /\ Missing(tx[w]) = {}
    /\ ~Checks(tx[w])
    /\ tx' = [tx EXCEPT ![w] = NoTx]
    /\ UNCHANGED <<vars, calls>>

Commit(w) ==
    /\ tx[w].phase = "checked"
    /\ Effect(tx[w].call)
    /\ tx' = [tx EXCEPT ![w] = NoTx]
    /\ UNCHANGED calls

\* The connection drops, the worker is killed, a row a lock statement waited
\* for no longer matches, PostgreSQL picks the transaction as deadlock victim.
Abort(w) ==
    /\ tx[w].phase # "idle"
    /\ tx' = [tx EXCEPT ![w] = NoTx]
    /\ UNCHANGED <<vars, calls>>

-------------------------------------------------------------------------------
(* A ledger the services can build: donation 1 finances allocation 1 of    *)
(* project 1, on which one request is pending and one holds a reservation; *)
(* donation 2 finances allocation 2 of project 2, with a legacy expense.   *)
(* Both are fully assigned; donation 3 and project 3 are not used yet.     *)

Prepared ==
    /\ donation   = [d \in Donations |-> [status |-> "received", amount |-> MaxMoney]]
    /\ project    = [p \in Projects |-> [status |-> "active", public |-> FALSE]]
    /\ allocation = [a \in Allocations |->
                        IF a \in {1, 2}
                          THEN [status |-> "active", amount |-> MaxMoney,
                                donation |-> a, project |-> a]
                          ELSE [status |-> "absent", amount |-> 0,
                                donation |-> None, project |-> None]]
    /\ request = [r \in Requests |->
                        CASE r = 1 -> [status |-> "pending_decision", requested |-> 1,
                                       reserved |-> 0, allocation |-> 1, expense |-> None]
                          [] r = 2 -> [status |-> "approved_reserved", requested |-> 1,
                                       reserved |-> 1, allocation |-> 1, expense |-> None]
                          [] OTHER -> [status |-> "absent", requested |-> 0,
                                       reserved |-> 0, allocation |-> None, expense |-> None]]
    /\ expense = [e \in Expenses |->
                        IF e = 1
                          THEN [status |-> "registered", amount |-> 1, allocation |-> 2]
                          ELSE [status |-> "absent", amount |-> 0, allocation |-> None]]
    /\ trail    = [r \in Requests |-> IF r = 2 THEN {"RESERVATION_CREATED"} ELSE {}]
    /\ deleting = {}
    /\ edit     = [x \in Edits |-> Idle]

LocksInit ==
    /\ Prepared
    /\ tx = [w \in Workers |-> NoTx]
    /\ calls = 0

Advance(w) == Refer(w) \/ Lock(w) \/ Pass(w) \/ Reject(w) \/ Commit(w)

LocksNext ==
    \E w \in Workers :
        \/ \E c \in Call : c.name \in Enabled /\ Begin(w, c)
        \/ Refer(w)
        \/ Lock(w)
        \/ Pass(w)
        \/ Reject(w)
        \/ Commit(w)
        \/ Abort(w)

LocksSpec == LocksInit /\ [][LocksNext]_allVars

\* A worker that can run does: the process is scheduled, a granted lock wakes
\* it up.  Nobody is bound to abort.
FairLocksSpec == LocksSpec /\ \A w \in Workers : WF_allVars(Advance(w))

-------------------------------------------------------------------------------
(* Properties.                                                             *)

\* The locks of every service cover what it checked: between its checks and
\* its commit no other transaction can make a check false, so the commit is
\* the transaction of Ledger, whose guard repeats the checks.
ChecksStillHold ==
    \A w \in Workers : tx[w].phase = "checked" => Guard(tx[w].call)

\* Money is reserved, consumed or released where it was checked: a decision
\* that moves money never gets past its checks on the locks of an allocation
\* the request has left in the meantime.
DecidedWhereChecked ==
    \A w \in Workers :
        LET c == tx[w].call IN
        /\ tx[w].phase = "checked"
        /\ \/ c.name \in {"approve_request", "fulfill_request"}
           \/ c.name = "annul_request" /\ Held(c.r) > 0
        => tx[w].allocations = {request[c.r].allocation}

\* What its transaction read without a lock is out of date, so that it may ask
\* for its locks out of order.
Outdated(t) ==
    /\ t.phase = "locking"
    /\ \/ /\ t.call.name \notin DirectCalls
          /\ \E a \in t.allocations : allocation[a].donation \notin t.donations
       \/ t.call.name = "update_request" /\ request[t.call.r].allocation \notin t.allocations

\* The statement that locks the two allocations of a request that moves locks
\* their projects with them, in the order of the allocations: it crosses those
\* who lock the two projects in the order of the projects.
Crossed(t) ==
    /\ t.phase = "locking"
    /\ t.call.name = "update_request"
    /\ \E a, b \in t.allocations : a < b /\ allocation[b].project < allocation[a].project

OutOfOrder(t) == t.call.name = "update_allocation" \/ Outdated(t) \/ Crossed(t)

\* The next lock of w is held by v.
WaitsFor(w, v) ==
    /\ tx[w].phase = "locking"
    /\ Missing(tx[w]) # {}
    /\ NextLock(tx[w]) \in tx[v].held

\* Calls wait for each other in a circle, of two or of any number, only if one of
\* them is an update_fund_allocation, or has an outdated reference read, or
\* crosses two projects: all others lock in one order, donations before
\* allocations before expenses before projects before requests.
DeadlocksAreOutOfOrder ==
    \A W \in SUBSET Workers :
        /\ W # {} /\ IsFiniteSet(W)
        /\ \A w \in W : \E v \in W : WaitsFor(w, v)
        => \E w \in W : OutOfOrder(tx[w])

\* A call comes to an end without anybody having to abort it, unless one that is
\* out of order competes with it.
EveryCallEnds ==
    \A w \in Workers :
        tx[w].phase # "idle" ~>
            \/ tx[w].phase = "idle"
            \/ \E v \in Workers : tx[v].phase # "idle" /\ OutOfOrder(tx[v])

==============================================================================
