----------------------------- MODULE LedgerProofs -----------------------------
(***************************************************************************)
(* Theorems about Ledger, for any finite tables and any MaxMoney.          *)
(*                                                                         *)
(* The inductive invariant is built in layers: TypeOK; ReferencesExist,    *)
(* which says that a row nobody created yet is pointed at by nobody; and   *)
(* the money and life-cycle invariants, which need it when a row appears.  *)
(***************************************************************************)
EXTENDS Ledger, FiniteSetTheorems, TLAPS

-------------------------------------------------------------------------------
(***************************************************************************)
(* What every balance argument needs to know of Total, without recursion   *)
(* and without induction: a sum over finitely many rows is a natural       *)
(* number, adding a row adds its amount, more rows never make it smaller,  *)
(* and only the amounts of the selected rows matter.                       *)
(***************************************************************************)

\* The units of finitely many rows are finitely many, so a balance is a
\* natural number (aggregate(Sum) or ZERO_MONEY is never negative).
LEMMA TotalType ==
    ASSUME NEW rows, IsFiniteSet(rows), NEW amountOf
    PROVE  /\ IsFiniteSet(UnitsOf(rows, amountOf))
           /\ Total(rows, amountOf) \in Nat
  <1>1. IsFiniteSet(Positive)
    BY FS_Interval, MaxMoneyAssumption DEF Positive
  <1>2. IsFiniteSet(rows \X Positive)
    BY <1>1, FS_Product
  <1>3. IsFiniteSet(UnitsOf(rows, amountOf))
    BY <1>2, FS_Subset DEF UnitsOf
  <1>4. QED
    BY <1>3, FS_CardinalityType DEF Total

\* Selecting fewer rows never makes a sum larger: annulling or deleting a row
\* gives its money back.
LEMMA TotalMonotone ==
    ASSUME NEW rows, IsFiniteSet(rows), NEW fewer \in SUBSET rows, NEW amountOf
    PROVE  Total(fewer, amountOf) <= Total(rows, amountOf)
  <1>1. UnitsOf(fewer, amountOf) \subseteq UnitsOf(rows, amountOf)
    BY DEF UnitsOf
  <1>2. IsFiniteSet(UnitsOf(rows, amountOf))
    BY TotalType
  <1>3. QED
    BY <1>1, <1>2, FS_Subset DEF Total

\* The amounts of rows that are not selected do not matter.
LEMMA TotalCongruence ==
    ASSUME NEW rows, NEW before, NEW after, \A x \in rows : before[x] = after[x]
    PROVE  Total(rows, before) = Total(rows, after)
  <1>1. UnitsOf(rows, before) = UnitsOf(rows, after)
    BY DEF UnitsOf
  <1>2. QED
    BY <1>1 DEF Total

\* No rows, no money.
LEMMA TotalEmpty ==
    ASSUME NEW amountOf
    PROVE  Total({}, amountOf) = 0
  <1>1. UnitsOf({}, amountOf) = {}
    BY DEF UnitsOf
  <1>2. QED
    BY <1>1, FS_EmptySet DEF Total

\* One row holds exactly its amount.
LEMMA TotalOfOne ==
    ASSUME NEW x, NEW amountOf, amountOf[x] \in Money
    PROVE  Total({x}, amountOf) = amountOf[x]
  <1>1. UnitsOf({x}, amountOf) = {x} \X (1..amountOf[x])
    BY MaxMoneyAssumption DEF UnitsOf, Positive, Money
  <1>2. /\ IsFiniteSet({x})
        /\ Cardinality({x}) = 1
    BY FS_Singleton
  <1>3. /\ IsFiniteSet(1..amountOf[x])
        /\ Cardinality(1..amountOf[x]) = amountOf[x]
    <2> DEFINE n == amountOf[x]
    <2>1. n \in Nat /\ n \in Int /\ 1 \in Int
      BY MaxMoneyAssumption DEF Money
    <2> HIDE DEF n
    <2>2. /\ IsFiniteSet(1..n)
          /\ Cardinality(1..n) = IF 1 > n THEN 0 ELSE n - 1 + 1
      BY ONLY <2>1, FS_Interval
    <2>3. IsFiniteSet(1..n) /\ Cardinality(1..n) = n
      BY ONLY <2>1, <2>2
    <2>4. QED
      BY ONLY <2>3 DEF n
  <1> DEFINE units == 1..amountOf[x]
  <1>4. Cardinality({x} \X units) = 1 * amountOf[x]
    <2>1. /\ IsFiniteSet(units)
          /\ Cardinality(units) = amountOf[x]
      BY <1>3
    <2> HIDE DEF units
    <2>2. Cardinality({x} \X units) = Cardinality({x}) * Cardinality(units)
      BY ONLY <1>2, <2>1, FS_Product
    <2> QED
      BY <1>2, <2>1, <2>2
  <1>5. amountOf[x] \in Nat
    BY MaxMoneyAssumption DEF Money
  <1>6. 1 * amountOf[x] = amountOf[x]
    BY <1>5
  <1>7. QED
    BY <1>1, <1>4, <1>6 DEF Total

\* Selecting one more row adds exactly its amount.
LEMMA TotalAdd ==
    ASSUME NEW rows, IsFiniteSet(rows), NEW x, x \notin rows,
           NEW amountOf, amountOf[x] \in Money
    PROVE  Total(rows \cup {x}, amountOf) = Total(rows, amountOf) + amountOf[x]
  <1> DEFINE old == UnitsOf(rows, amountOf)
             new == UnitsOf({x}, amountOf)
  <1>1. UnitsOf(rows \cup {x}, amountOf) = old \cup new
    BY DEF UnitsOf
  <1>2. old \cap new = {}
    BY DEF UnitsOf
  <1>3. IsFiniteSet({x})
    BY FS_Singleton
  <1>4. /\ IsFiniteSet(old)
        /\ IsFiniteSet(new)
    BY <1>3, TotalType
  <1>5. Cardinality(old \cup new)
            = Cardinality(old) + Cardinality(new) - Cardinality(old \cap new)
    BY <1>4, FS_Union
  <1>6. Cardinality(old \cap new) = 0
    BY <1>2, FS_EmptySet
  <1>7. /\ Cardinality(old) \in Nat
        /\ Cardinality(new) \in Nat
    BY <1>4, FS_CardinalityType
  <1>8. Cardinality(new) = amountOf[x]
    BY TotalOfOne DEF Total
  <1>9. Cardinality(old \cup new) = Cardinality(old) + amountOf[x]
    BY <1>5, <1>6, <1>7, <1>8
  <1>10. QED
    BY <1>1, <1>9 DEF Total

\* Replacing the amount of one row and keeping the others: the new sum is the
\* sum of the others plus the new amount.  This is what a service computes
\* when it excludes the row it is about to save (exclude(pk=...)).
LEMMA TotalReplace ==
    ASSUME NEW rows, IsFiniteSet(rows), NEW x,
           NEW before, NEW after, after[x] \in Money,
           \A y \in rows \ {x} : before[y] = after[y]
    PROVE  Total(rows \cup {x}, after) = Total(rows \ {x}, before) + after[x]
  <1>1. IsFiniteSet(rows \ {x})
    BY FS_Subset
  <1>2. rows \cup {x} = (rows \ {x}) \cup {x}
    OBVIOUS
  <1>3. Total((rows \ {x}) \cup {x}, after) = Total(rows \ {x}, after) + after[x]
    BY <1>1, TotalAdd
  <1>4. Total(rows \ {x}, before) = Total(rows \ {x}, after)
    BY TotalCongruence
  <1>5. QED
    BY <1>2, <1>3, <1>4

\* A sum is the amount of one selected row plus the sum of the others.
LEMMA TotalSplit ==
    ASSUME NEW rows, IsFiniteSet(rows), NEW x \in rows,
           NEW amountOf, amountOf[x] \in Money
    PROVE  Total(rows, amountOf) = Total(rows \ {x}, amountOf) + amountOf[x]
  <1>1. IsFiniteSet(rows \ {x})
    BY FS_Subset
  <1>2. Total((rows \ {x}) \cup {x}, amountOf) = Total(rows \ {x}, amountOf) + amountOf[x]
    BY <1>1, TotalAdd
  <1>3. (rows \ {x}) \cup {x} = rows
    OBVIOUS
  <1> QED
    BY <1>2, <1>3

-------------------------------------------------------------------------------
(* Type correctness.                                                       *)

LEMMA InitType == Init => TypeOK
  <1> SUFFICES ASSUME Init PROVE TypeOK
    OBVIOUS
  <1> 0 \in Money
    BY MaxMoneyAssumption DEF Money
  <1> QED
    BY DEF Init, TypeOK, DonationRow, ProjectRow, AllocationRow, RequestRow, ExpenseRow, Idle,
           EditRow, DonationStatus, ProjectStatus, AllocationStatus, RequestStatus,
           ExpenseStatus, NoRow

LEMMA DonationType ==
    ASSUME TypeOK, DonationStep
    PROVE  TypeOK'
  <1> USE DEF TypeOK
  <1> /\ Positive \subseteq Money
      /\ 0 \in Money
    BY MaxMoneyAssumption DEF Positive, Money
  <1> PICK d \in Donations :
        \/ \E m \in Positive : CreateDonation(d, m) \/ UpdateDonation(d, m)
        \/ ReceiveDonation(d)
        \/ AnnulDonation(d)
        \/ DeleteDonation(d)
    BY DEF DonationStep
  <1>1. ASSUME NEW m \in Positive, CreateDonation(d, m) PROVE TypeOK'
    BY <1>1 DEF CreateDonation, DonationRow, DonationStatus
  <1>2. ASSUME NEW m \in Positive, UpdateDonation(d, m) PROVE TypeOK'
    BY <1>2 DEF UpdateDonation, DonationRow, DonationStatus
  <1>3. CASE ReceiveDonation(d)
    BY <1>3 DEF ReceiveDonation, DonationRow, DonationStatus
  <1>4. CASE AnnulDonation(d)
    BY <1>4 DEF AnnulDonation, DonationRow, DonationStatus
  <1>5. CASE DeleteDonation(d)
    BY <1>5 DEF DeleteDonation, DonationRow, DonationStatus, NoRow
  <1> QED
    BY <1>1, <1>2, <1>3, <1>4, <1>5

LEMMA ProjectType ==
    ASSUME TypeOK, ProjectStep
    PROVE  TypeOK'
  <1> USE DEF TypeOK, ProjectRow, ProjectStatus
  <1> PICK p \in Projects :
        CreateProject(p) \/ PublishProject(p) \/ UnpublishProject(p) \/ FinishProject(p)
    BY DEF ProjectStep
  <1>1. CASE CreateProject(p)
    BY <1>1 DEF CreateProject
  <1>2. CASE PublishProject(p)
    BY <1>2 DEF PublishProject
  <1>3. CASE UnpublishProject(p)
    BY <1>3 DEF UnpublishProject
  <1>4. CASE FinishProject(p)
    BY <1>4 DEF FinishProject
  <1> QED
    BY <1>1, <1>2, <1>3, <1>4

LEMMA EditType ==
    ASSUME TypeOK, EditStep
    PROVE  TypeOK'
  <1> USE DEF TypeOK, EditRow
  <1> PICK x \in Edits :
        \/ \E p \in Projects : CheckProjectEdit(x, p) \/ LoadProjectEdit(x, p)
        \/ SaveProjectEdit(x)
        \/ EndProjectEdit(x)
    BY DEF EditStep
  <1>0. Idle \in EditRow
    BY DEF Idle, ProjectRow, ProjectStatus
  <1>1. ASSUME NEW p \in Projects, CheckProjectEdit(x, p) PROVE TypeOK'
    BY <1>0, <1>1 DEF CheckProjectEdit, Idle
  <1>2. ASSUME NEW p \in Projects, LoadProjectEdit(x, p) PROVE TypeOK'
    BY <1>2 DEF LoadProjectEdit
  <1>3. CASE SaveProjectEdit(x)
    BY <1>0, <1>3 DEF SaveProjectEdit
  <1>4. CASE EndProjectEdit(x)
    BY <1>0, <1>4 DEF EndProjectEdit
  <1> QED
    BY <1>1, <1>2, <1>3, <1>4

LEMMA AllocationType ==
    ASSUME TypeOK, AllocationStep
    PROVE  TypeOK'
  <1> USE DEF TypeOK, AllocationRow, AllocationStatus
  <1> /\ Positive \subseteq Money
      /\ 0 \in Money
    BY MaxMoneyAssumption DEF Positive, Money
  <1> PICK a \in Allocations :
        \/ \E d \in Donations, p \in Projects, m \in Positive :
               CreateAllocation(a, d, p, m) \/ UpdateAllocation(a, d, p, m)
        \/ FinishAllocation(a)
        \/ AnnulAllocation(a)
        \/ DeleteAllocation(a)
    BY DEF AllocationStep
  <1>1. ASSUME NEW d \in Donations, NEW p \in Projects, NEW m \in Positive,
               CreateAllocation(a, d, p, m)
        PROVE  TypeOK'
    BY <1>1 DEF CreateAllocation
  <1>2. ASSUME NEW d \in Donations, NEW p \in Projects, NEW m \in Positive,
               UpdateAllocation(a, d, p, m)
        PROVE  TypeOK'
    BY <1>2 DEF UpdateAllocation
  <1>3. CASE FinishAllocation(a)
    BY <1>3 DEF FinishAllocation
  <1>4. CASE AnnulAllocation(a)
    BY <1>4 DEF AnnulAllocation
  <1>5. CASE DeleteAllocation(a)
    BY <1>5 DEF DeleteAllocation, NoRow
  <1> QED
    BY <1>1, <1>2, <1>3, <1>4, <1>5

LEMMA RequestType ==
    ASSUME TypeOK, RequestStep
    PROVE  TypeOK'
  <1> USE DEF TypeOK, RequestRow, RequestStatus
  <1> /\ Positive \subseteq Money
      /\ 0 \in Money
    BY MaxMoneyAssumption DEF Positive, Money
  <1> PICK r \in Requests :
        \/ \E a \in Allocations, m \in Positive : CreateRequest(r, a, m) \/ UpdateRequest(r, a, m)
        \/ WithdrawRequest(r)
        \/ DenyRequest(r)
        \/ ApproveRequest(r)
        \/ \E e \in Expenses, m \in Positive : FulfillRequest(r, e, m)
        \/ AnnulRequest(r)
    BY DEF RequestStep
  <1>1. ASSUME NEW a \in Allocations, NEW m \in Positive, CreateRequest(r, a, m) PROVE TypeOK'
    <2>1. [status |-> "pending_decision", requested |-> m, reserved |-> 0,
           allocation |-> a, expense |-> None] \in RequestRow
      OBVIOUS
    <2>2. request' \in [Requests -> RequestRow]
      BY <1>1, <2>1 DEF CreateRequest
    <2> QED
      BY <1>1, <2>2 DEF CreateRequest
  <1>2. ASSUME NEW a \in Allocations, NEW m \in Positive, UpdateRequest(r, a, m) PROVE TypeOK'
    <2> DEFINE row == [request[r] EXCEPT !.allocation = a, !.requested = m]
    <2>1. request' = [request EXCEPT ![r] = row]
      BY <1>2 DEF UpdateRequest
    <2>2. row \in RequestRow
      OBVIOUS
    <2> HIDE DEF row
    <2>3. request' \in [Requests -> RequestRow]
      BY <2>1, <2>2
    <2> QED
      BY <1>2, <2>3 DEF UpdateRequest
  <1>3. CASE WithdrawRequest(r)
    BY <1>3 DEF WithdrawRequest
  <1>4. CASE DenyRequest(r)
    BY <1>4 DEF DenyRequest
  <1>5. CASE ApproveRequest(r)
    <2> DEFINE row == [request[r] EXCEPT !.status = "approved_reserved",
                                         !.reserved = request[r].requested]
    <2>1. request' \in [Requests -> RequestRow]
      <3>1. request' = [request EXCEPT ![r] = row]
        BY <1>5 DEF ApproveRequest
      <3>2. row \in RequestRow
        OBVIOUS
      <3> HIDE DEF row
      <3> QED
        BY <3>1, <3>2
    <2>2. trail' \in [Requests -> SUBSET ReservationEvent]
      BY <1>5 DEF ApproveRequest, ReservationEvent
    <2> QED
      BY <1>5, <2>1, <2>2 DEF ApproveRequest
  <1>6. ASSUME NEW e \in Expenses, NEW m \in Positive, FulfillRequest(r, e, m) PROVE TypeOK'
    <2> DEFINE row == [request[r] EXCEPT !.status = "fulfilled", !.expense = e]
    <2>1. request' \in [Requests -> RequestRow]
      <3>1. request' = [request EXCEPT ![r] = row]
        BY <1>6 DEF FulfillRequest
      <3>2. row \in RequestRow
        OBVIOUS
      <3> HIDE DEF row
      <3> QED
        BY <3>1, <3>2
    <2>2. trail' \in [Requests -> SUBSET ReservationEvent]
      BY <1>6 DEF FulfillRequest, ReservationEvent
    <2>3. expense' \in [Expenses -> ExpenseRow]
      BY <1>6 DEF FulfillRequest, ExpenseRow, ExpenseStatus
    <2> QED
      BY <1>6, <2>1, <2>2, <2>3 DEF FulfillRequest
  <1>7. CASE AnnulRequest(r)
    <2>1. request' \in [Requests -> RequestRow]
      BY <1>7 DEF AnnulRequest
    <2>2. trail' \in [Requests -> SUBSET ReservationEvent]
      BY <1>7 DEF AnnulRequest, ReservationEvent
    <2> QED
      BY <1>7, <2>1, <2>2 DEF AnnulRequest
  <1> QED
    BY <1>1, <1>2, <1>3, <1>4, <1>5, <1>6, <1>7

LEMMA ExpenseType ==
    ASSUME TypeOK, ExpenseStep
    PROVE  TypeOK'
  <1> USE DEF TypeOK, ExpenseRow, ExpenseStatus
  <1> /\ Positive \subseteq Money
      /\ 0 \in Money
    BY MaxMoneyAssumption DEF Positive, Money
  <1> PICK e \in Expenses :
        \/ \E a \in Allocations, m \in Positive :
               CreateExpenseLegacy(e, a, m) \/ UpdateExpense(e, a, m)
        \/ AnnulExpense(e)
        \/ ConfirmExpenseDeletion(e)
        \/ DeleteExpense(e)
    BY DEF ExpenseStep
  <1>1. ASSUME NEW a \in Allocations, NEW m \in Positive, CreateExpenseLegacy(e, a, m)
        PROVE  TypeOK'
    BY <1>1 DEF CreateExpenseLegacy
  <1>2. ASSUME NEW a \in Allocations, NEW m \in Positive, UpdateExpense(e, a, m) PROVE TypeOK'
    BY <1>2 DEF UpdateExpense
  <1>3. CASE AnnulExpense(e)
    <2>1. expense' \in [Expenses -> ExpenseRow]
      BY <1>3 DEF AnnulExpense
    <2>2. trail' \in [Requests -> SUBSET ReservationEvent]
      BY <1>3 DEF AnnulExpense, ReservationEvent
    <2> QED
      BY <1>3, <2>1, <2>2 DEF AnnulExpense
  <1>4. CASE ConfirmExpenseDeletion(e)
    BY <1>4 DEF ConfirmExpenseDeletion
  <1>5. CASE DeleteExpense(e)
    BY <1>5 DEF DeleteExpense, NoRow
  <1> QED
    BY <1>1, <1>2, <1>3, <1>4, <1>5

LEMMA StepType ==
    ASSUME TypeOK, [Next]_vars
    PROVE  TypeOK'
  <1>1. CASE UNCHANGED vars
    BY <1>1 DEF vars, TypeOK
  <1> QED
    BY <1>1, DonationType, ProjectType, EditType, AllocationType, RequestType, ExpenseType DEF Next

\* Every reachable state of the ledger is well typed.
THEOREM TypeCorrect == Spec => []TypeOK
  BY InitType, StepType, PTL DEF Spec

-------------------------------------------------------------------------------
(* References.                                                             *)

LEMMA InitReferences == Init => ReferencesExist
  BY DEF Init, ReferencesExist, RowReferences, AllocationReferences, RequestReferences,
         ExpenseReferences, EditReferences, Idle, HasRow, NoRow

\* No step makes the row of a project vanish.
LEMMA StepKeepsProjects ==
    ASSUME TypeOK, \A x \in Edits : EditReferences(x), [Next]_vars
    PROVE  \A p \in Projects : HasRow(project[p]) => HasRow(project'[p])
  <1>1. project \in [Projects -> ProjectRow] /\ edit \in [Edits -> EditRow]
    BY DEF TypeOK
  <1>2. ASSUME NEW q \in Projects,
               \/ CreateProject(q)
               \/ PublishProject(q)
               \/ UnpublishProject(q)
               \/ FinishProject(q)
        PROVE  \A p \in Projects : HasRow(project[p]) => HasRow(project'[p])
    BY <1>1, <1>2 DEF CreateProject, PublishProject, UnpublishProject, FinishProject, HasRow,
                      NoRow, ProjectRow
  <1>3. ASSUME NEW x \in Edits, SaveProjectEdit(x)
        PROVE  \A p \in Projects : HasRow(project[p]) => HasRow(project'[p])
    BY <1>1, <1>3 DEF SaveProjectEdit, EditReferences, HasRow
  <1>4. CASE UNCHANGED project
    BY <1>4
  <1>5. EditStep => UNCHANGED project \/ \E x \in Edits : SaveProjectEdit(x)
    BY DEF EditStep, CheckProjectEdit, LoadProjectEdit, EndProjectEdit
  <1>6. DonationStep \/ AllocationStep \/ UNCHANGED vars => UNCHANGED project
    BY DEF DonationStep, AllocationStep, vars, CreateDonation, UpdateDonation, ReceiveDonation,
           AnnulDonation, DeleteDonation, CreateAllocation, UpdateAllocation,
           FinishAllocation, AnnulAllocation, DeleteAllocation
  <1>7. RequestStep \/ ExpenseStep => UNCHANGED project
    BY DEF RequestStep, ExpenseStep, CreateRequest, UpdateRequest, WithdrawRequest, DenyRequest,
           ApproveRequest, FulfillRequest, AnnulRequest, CreateExpenseLegacy, UpdateExpense,
           AnnulExpense, ConfirmExpenseDeletion, DeleteExpense
  <1> QED
    BY <1>2, <1>3, <1>4, <1>5, <1>6, <1>7 DEF Next, ProjectStep

\* Rows an action neither creates, moves nor deletes keep their references:
\* the targets of a reference lose their rows in the delete actions only.
LEMMA StepRowReferences ==
    ASSUME TypeOK, RowReferences, \A x \in Edits : EditReferences(x), [Next]_vars
    PROVE  RowReferences'
  <1> USE DEF RowReferences, AllocationReferences, RequestReferences, ExpenseReferences,
              HasRow, NoRow
  <1> DEFINE Tables == /\ donation \in [Donations -> DonationRow]
                       /\ project \in [Projects -> ProjectRow]
                       /\ allocation \in [Allocations -> AllocationRow]
                       /\ request \in [Requests -> RequestRow]
                       /\ expense \in [Expenses -> ExpenseRow]
  <1>0. Tables
    BY DEF TypeOK
  <1> USE DEF DonationRow, ProjectRow, AllocationRow, RequestRow, ExpenseRow
  <1>1. ASSUME NEW d \in Donations, NEW m \in Positive, CreateDonation(d, m)
        PROVE  RowReferences'
    BY <1>0, <1>1 DEF CreateDonation
  <1>2. ASSUME NEW d \in Donations, NEW m \in Positive, UpdateDonation(d, m)
        PROVE  RowReferences'
    BY <1>0, <1>2 DEF UpdateDonation
  <1>3. ASSUME NEW d \in Donations, ReceiveDonation(d) PROVE RowReferences'
    BY <1>0, <1>3 DEF ReceiveDonation
  <1>4. ASSUME NEW d \in Donations, AnnulDonation(d) PROVE RowReferences'
    BY <1>0, <1>4 DEF AnnulDonation
  <1>5. ASSUME NEW d \in Donations, DeleteDonation(d) PROVE RowReferences'
    <2>1. \A a \in Allocations : AllocationReferences(a)'
      BY <1>0, <1>5 DEF DeleteDonation
    <2> QED
      BY <1>5, <2>1 DEF DeleteDonation
  <1>6. ASSUME NEW p \in Projects, CreateProject(p) PROVE RowReferences'
    BY <1>0, <1>6 DEF CreateProject
  <1>7. ASSUME NEW p \in Projects, PublishProject(p) \/ UnpublishProject(p) \/ FinishProject(p)
        PROVE  RowReferences'
    <2>1. /\ UNCHANGED <<donation, allocation, request, expense>>
          /\ \A q \in Projects : HasRow(project[q]) => HasRow(project'[q])
      BY <1>0, <1>7 DEF PublishProject, UnpublishProject, FinishProject
    <2> QED
      BY <2>1
  <1>8. ASSUME NEW a \in Allocations, NEW d \in Donations, NEW p \in Projects,
               NEW m \in Positive, CreateAllocation(a, d, p, m)
        PROVE  RowReferences'
    BY <1>0, <1>8 DEF CreateAllocation, MayCreateAllocation, CanFund
  <1>9. ASSUME NEW a \in Allocations, NEW d \in Donations, NEW p \in Projects,
               NEW m \in Positive, UpdateAllocation(a, d, p, m)
        PROVE  RowReferences'
    BY <1>0, <1>9 DEF UpdateAllocation, MayUpdateAllocation, CanFund
  <1>10. ASSUME NEW a \in Allocations, FinishAllocation(a) \/ AnnulAllocation(a)
         PROVE  RowReferences'
    <2>1. /\ UNCHANGED <<donation, project, request, expense>>
          /\ allocation[a].status = "active"
          /\ allocation'[a].status \in {"finished", "annulled"}
          /\ allocation'[a].donation = allocation[a].donation
          /\ allocation'[a].project = allocation[a].project
          /\ \A b \in Allocations : b # a => allocation'[b] = allocation[b]
      BY <1>0, <1>10 DEF FinishAllocation, MayFinishAllocation, AnnulAllocation,
                         MayAnnulAllocation, Editable
    <2> QED
      BY <2>1
  <1>11. ASSUME NEW a \in Allocations, DeleteAllocation(a) PROVE RowReferences'
    <2>1. \A b \in Allocations : AllocationReferences(b)'
      BY <1>0, <1>11 DEF DeleteAllocation
    <2>2. \A r \in Requests : RequestReferences(r)'
      BY <1>0, <1>11 DEF DeleteAllocation
    <2>3. \A e \in Expenses : ExpenseReferences(e)'
      BY <1>0, <1>11 DEF DeleteAllocation
    <2> QED
      BY <2>1, <2>2, <2>3
  <1>12. ASSUME NEW r \in Requests, NEW a \in Allocations, NEW m \in Positive,
                CreateRequest(r, a, m) \/ UpdateRequest(r, a, m)
         PROVE  RowReferences'
    <2>1. /\ UNCHANGED <<donation, project, allocation, expense>>
          /\ HasRow(allocation[a])
          /\ \A q \in Requests : q # r => request'[q] = request[q]
      BY <1>0, <1>12 DEF CreateRequest, MayCreateRequest, UpdateRequest, MayUpdateRequest,
                         AcceptsRequests, Editable
    <2>2. request'[r].allocation = a /\ request'[r].status = "pending_decision"
      BY <1>0, <1>12 DEF CreateRequest, MayCreateRequest, UpdateRequest, MayUpdateRequest
    <2> QED
      BY <2>1, <2>2
  <1>13. ASSUME NEW r \in Requests,
                \/ WithdrawRequest(r)
                \/ DenyRequest(r)
                \/ ApproveRequest(r)
                \/ AnnulRequest(r)
         PROVE  RowReferences'
    <2>1. /\ UNCHANGED <<donation, project, allocation, expense>>
          /\ request[r].status \in OpenFinancialStatuses
          /\ request'[r].allocation = request[r].allocation
          /\ request'[r].status \notin NoRow
          /\ \A q \in Requests : q # r => request'[q] = request[q]
      BY <1>0, <1>13
         DEF WithdrawRequest, MayWithdrawRequest, DenyRequest, ApproveRequest, MayApproveRequest,
             AnnulRequest, MayAnnulRequest, OpenFinancialStatuses
    <2> QED
      BY <2>1 DEF OpenFinancialStatuses
  <1>14. ASSUME NEW r \in Requests, NEW e \in Expenses, NEW m \in Positive,
                FulfillRequest(r, e, m)
         PROVE  RowReferences'
    <2>1. \A q \in Requests : RequestReferences(q)'
      BY <1>0, <1>14 DEF FulfillRequest, MayFulfillRequest
    <2>2. \A x \in Expenses : ExpenseReferences(x)'
      BY <1>0, <1>14 DEF FulfillRequest, MayFulfillRequest
    <2> QED
      BY <1>14, <2>1, <2>2 DEF FulfillRequest
  <1>15. ASSUME NEW e \in Expenses, NEW a \in Allocations, NEW m \in Positive,
                CreateExpenseLegacy(e, a, m)
         PROVE  RowReferences'
    BY <1>0, <1>15 DEF CreateExpenseLegacy, MayCreateExpenseLegacy, Editable
  <1>16. ASSUME NEW e \in Expenses, NEW a \in Allocations, NEW m \in Positive,
                UpdateExpense(e, a, m)
         PROVE  RowReferences'
    BY <1>0, <1>16 DEF UpdateExpense, MayUpdateExpense, EligibleForReassignment
  <1>17. ASSUME NEW e \in Expenses, AnnulExpense(e) PROVE RowReferences'
    BY <1>0, <1>17 DEF AnnulExpense, MayAnnulExpense
  <1>18. ASSUME NEW e \in Expenses, ConfirmExpenseDeletion(e) PROVE RowReferences'
    BY <1>18 DEF ConfirmExpenseDeletion
  <1>19. ASSUME NEW e \in Expenses, DeleteExpense(e) PROVE RowReferences'
    BY <1>0, <1>19 DEF DeleteExpense
  <1>20. CASE EditStep
    <2>1. /\ UNCHANGED <<donation, allocation, request, expense>>
          /\ \A q \in Projects : HasRow(project[q]) => HasRow(project'[q])
      BY <1>20, StepKeepsProjects DEF EditStep, CheckProjectEdit, LoadProjectEdit,
         SaveProjectEdit, EndProjectEdit, Next
    <2> QED
      BY <2>1
  <1>21. CASE UNCHANGED vars
    BY <1>21 DEF vars
  <1> QED
    BY <1>1, <1>2, <1>3, <1>4, <1>5, <1>6, <1>7, <1>8, <1>9, <1>10, <1>11, <1>12, <1>13,
       <1>14, <1>15, <1>16, <1>17, <1>18, <1>19, <1>20, <1>21
       DEF Next, DonationStep, ProjectStep, AllocationStep, RequestStep, ExpenseStep

\* An edit keeps a row that exists: projects are never deleted.
LEMMA StepEditReferences ==
    ASSUME TypeOK, \A x \in Edits : EditReferences(x), [Next]_vars
    PROVE  (\A x \in Edits : EditReferences(x))'
  <1>1. \A p \in Projects : HasRow(project[p]) => HasRow(project'[p])
    BY StepKeepsProjects
  <1>2. edit \in [Edits -> EditRow]
    BY DEF TypeOK
  <1>3. CASE UNCHANGED edit
    BY <1>1, <1>3 DEF EditReferences, HasRow
  <1>4. ASSUME NEW x \in Edits, NEW p \in Projects, CheckProjectEdit(x, p)
        PROVE  (\A y \in Edits : EditReferences(y))'
    BY <1>1, <1>2, <1>4 DEF CheckProjectEdit, EditReferences, EditRow, Idle, HasRow, NoRow
  <1>5. ASSUME NEW x \in Edits, NEW p \in Projects, LoadProjectEdit(x, p)
        PROVE  (\A y \in Edits : EditReferences(y))'
    BY <1>1, <1>2, <1>5 DEF LoadProjectEdit, EditReferences, EditRow, HasRow
  <1>6. ASSUME NEW x \in Edits, SaveProjectEdit(x) \/ EndProjectEdit(x)
        PROVE  (\A y \in Edits : EditReferences(y))'
    BY <1>1, <1>2, <1>6 DEF SaveProjectEdit, EndProjectEdit, EditReferences, EditRow, Idle, HasRow
  <1>7. EditStep => (\A x \in Edits : EditReferences(x))'
    BY <1>4, <1>5, <1>6 DEF EditStep
  <1>8. DonationStep \/ ProjectStep \/ AllocationStep \/ UNCHANGED vars => UNCHANGED edit
    BY DEF DonationStep, ProjectStep, AllocationStep, vars, CreateDonation, UpdateDonation,
           ReceiveDonation, AnnulDonation, DeleteDonation, CreateProject, PublishProject,
           UnpublishProject, FinishProject, CreateAllocation, UpdateAllocation,
           FinishAllocation, AnnulAllocation, DeleteAllocation
  <1>9. RequestStep \/ ExpenseStep => UNCHANGED edit
    BY DEF RequestStep, ExpenseStep, CreateRequest, UpdateRequest, WithdrawRequest, DenyRequest,
           ApproveRequest, FulfillRequest, AnnulRequest, CreateExpenseLegacy, UpdateExpense,
           AnnulExpense, ConfirmExpenseDeletion, DeleteExpense
  <1> QED
    BY <1>3, <1>7, <1>8, <1>9 DEF Next

LEMMA StepReferences ==
    ASSUME TypeOK, ReferencesExist, [Next]_vars
    PROVE  ReferencesExist'
  BY StepRowReferences, StepEditReferences DEF ReferencesExist

\* No order of creations, moves and deletions leaves a dangling foreign key.
THEOREM ReferencesCorrect == Spec => []ReferencesExist
  BY InitType, StepType, InitReferences, StepReferences, PTL DEF Spec

-------------------------------------------------------------------------------
(* The balance of a donation.                                              *)

\* The balances are natural numbers: the selected rows are finitely many.
NaturalBalances ==
    /\ \A d : IsFiniteSet(AllocationsOf(d)) /\ Assigned(d) \in Nat
    /\ \A a : IsFiniteSet(ExecutingExpenses(a)) /\ Executed(a) \in Nat
    /\ \A a : IsFiniteSet(ReservingRequests(a)) /\ Reserved(a) \in Nat

LEMMA BalancesAreNatural == NaturalBalances
  <1>1. \A d : IsFiniteSet(AllocationsOf(d))
    BY LedgerAssumption, FS_Subset DEF AllocationsOf
  <1>2. \A a : IsFiniteSet(ExecutingExpenses(a))
    BY LedgerAssumption, FS_Subset DEF ExecutingExpenses
  <1>3. \A a : IsFiniteSet(ReservingRequests(a))
    BY LedgerAssumption, FS_Subset DEF ReservingRequests
  <1> QED
    BY <1>1, <1>2, <1>3, TotalType DEF NaturalBalances, Assigned, Executed, Reserved

\* So are the balances after a step.
LEMMA BalancesStayNatural == NaturalBalances'
  BY BalancesAreNatural, PTL

\* What is assigned does not grow when allocations only leave the donation.
LEMMA AssignsNoMore ==
    ASSUME NEW d, AllocationsOf(d)' \subseteq AllocationsOf(d),
           \A a \in AllocationsOf(d)' : allocation'[a].amount = allocation[a].amount
    PROVE  Assigned(d)' <= Assigned(d)
  <1>1. AllocationsOf(d)' \subseteq Allocations
    BY DEF AllocationsOf
  <1>2. Assigned(d)' = Total(AllocationsOf(d)', AllocationAmounts)
    BY <1>1, TotalCongruence DEF Assigned, AllocationAmounts
  <1>3. Total(AllocationsOf(d)', AllocationAmounts) <= Assigned(d)
    BY BalancesAreNatural, TotalMonotone DEF NaturalBalances, Assigned
  <1> QED
    BY <1>2, <1>3

\* An allocation saved with donation d and amount m: what is assigned is what
\* the other allocations of d hold, plus m.
LEMMA AssignsOneMore ==
    ASSUME NEW d, NEW a \in Allocations, NEW m \in Money,
           AllocationsOf(d)' = AllocationsOf(d) \cup {a},
           allocation'[a].amount = m,
           \A b \in Allocations : b # a => allocation'[b] = allocation[b]
    PROVE  Assigned(d)' = Total(AllocationsOf(d) \ {a}, AllocationAmounts) + m
  <1> DEFINE after == AllocationAmounts'
  <1>1. after[a] = m
    BY DEF AllocationAmounts
  <1>2. \A b \in AllocationsOf(d) \ {a} : AllocationAmounts[b] = after[b]
    BY DEF AllocationAmounts, AllocationsOf
  <1>3. Assigned(d)' = Total(AllocationsOf(d) \cup {a}, after)
    BY DEF Assigned
  <1>4. IsFiniteSet(AllocationsOf(d))
    BY BalancesAreNatural DEF NaturalBalances
  <1> HIDE DEF after
  <1> QED
    BY <1>1, <1>2, <1>3, <1>4, TotalReplace

LEMMA InitAssigned == Init => DonationNotOverAllocated
  BY DEF Init, DonationNotOverAllocated, HasRow, NoRow

LEMMA StepAssigned ==
    ASSUME TypeOK, ReferencesExist, DonationNotOverAllocated, [Next]_vars
    PROVE  DonationNotOverAllocated'
  <1>0. /\ donation \in [Donations -> DonationRow]
        /\ allocation \in [Allocations -> AllocationRow]
        /\ \A d \in Donations : Assigned(d) \in Nat /\ donation[d].amount \in Nat
    BY BalancesAreNatural, MaxMoneyAssumption DEF NaturalBalances, TypeOK, DonationRow, Money
  <1> USE DEF DonationNotOverAllocated
  <1>1. ASSUME UNCHANGED allocation,
               \A x \in Donations : HasRow(donation[x])' =>
                   \/ HasRow(donation[x]) /\ donation'[x].amount = donation[x].amount
                   \/ donation'[x].amount >= Assigned(x) /\ donation'[x].amount \in Nat
        PROVE  DonationNotOverAllocated'
    <2>1. \A x : Assigned(x)' = Assigned(x)
      BY <1>1 DEF Assigned, AllocationsOf, AllocationAmounts
    <2> QED
      BY <1>0, <1>1, <2>1
  <1>2. ASSUME UNCHANGED donation,
               \A x \in Donations : AllocationsOf(x)' \subseteq AllocationsOf(x),
               \A x \in Donations : \A a \in AllocationsOf(x)' :
                   allocation'[a].amount = allocation[a].amount
        PROVE  DonationNotOverAllocated'
    <2>1. \A x \in Donations : Assigned(x)' <= Assigned(x)
      BY <1>2, AssignsNoMore
    <2>2. \A x \in Donations : Assigned(x)' \in Nat
      BY BalancesStayNatural DEF NaturalBalances
    <2> QED
      BY <1>0, <1>2, <2>1, <2>2 DEF HasRow
  <1>3. ASSUME NEW a \in Allocations, NEW d \in Donations, NEW p \in Projects,
               NEW m \in Positive,
               CreateAllocation(a, d, p, m) \/ UpdateAllocation(a, d, p, m)
        PROVE  DonationNotOverAllocated'
    <2>1. /\ UNCHANGED donation
          /\ m <= donation[d].amount - Total(AllocationsOf(d) \ {a}, AllocationAmounts)
          /\ allocation'[a] = [status |-> "active", amount |-> m, donation |-> d, project |-> p]
          /\ \A b \in Allocations : b # a => allocation'[b] = allocation[b]
      BY <1>0, <1>3 DEF CreateAllocation, MayCreateAllocation, UpdateAllocation,
                        MayUpdateAllocation, CanFund
    <2>2. AllocationsOf(d)' = AllocationsOf(d) \cup {a}
      BY <2>1 DEF AllocationsOf
    <2>3. m \in Money /\ m \in Nat
      BY MaxMoneyAssumption DEF Positive, Money
    <2>4. Assigned(d)' = Total(AllocationsOf(d) \ {a}, AllocationAmounts) + m
      BY <2>1, <2>2, <2>3, AssignsOneMore
    <2>5. Total(AllocationsOf(d) \ {a}, AllocationAmounts) \in Nat
      BY BalancesAreNatural, FS_Subset, TotalType DEF NaturalBalances
    <2>6. Assigned(d)' <= donation[d].amount
      BY <1>0, <2>1, <2>3, <2>4, <2>5
    <2>7. ASSUME NEW x \in Donations, x # d PROVE Assigned(x)' <= Assigned(x)
      <3>1. AllocationsOf(x)' \subseteq AllocationsOf(x)
        BY <2>1, <2>7 DEF AllocationsOf
      <3>2. \A b \in AllocationsOf(x)' : allocation'[b].amount = allocation[b].amount
        BY <2>1, <2>7 DEF AllocationsOf
      <3> QED
        BY <3>1, <3>2, AssignsNoMore
    <2>8. \A x \in Donations : Assigned(x)' \in Nat
      BY BalancesStayNatural DEF NaturalBalances
    <2> QED
      BY <1>0, <2>1, <2>6, <2>7, <2>8 DEF HasRow
  <1>4. ASSUME NEW d \in Donations, NEW m \in Positive, CreateDonation(d, m)
        PROVE  DonationNotOverAllocated'
    <2>1. AllocationsOf(d) = {}
      BY <1>4 DEF CreateDonation, AllocationsOf, ReferencesExist, RowReferences,
                  AllocationReferences, HasRow, NoRow
    <2>2. Assigned(d) = 0
      BY <2>1, TotalEmpty DEF Assigned
    <2> QED
      BY <1>0, <1>1, <1>4, <2>2 DEF CreateDonation, HasRow, Positive
  <1>5. ASSUME NEW d \in Donations, NEW m \in Positive, UpdateDonation(d, m)
        PROVE  DonationNotOverAllocated'
    BY <1>0, <1>1, <1>5 DEF UpdateDonation, MayUpdateDonation, DonationRow, HasRow, NoRow, Positive
  <1>6. ASSUME NEW d \in Donations, ReceiveDonation(d) \/ AnnulDonation(d) \/ DeleteDonation(d)
        PROVE  DonationNotOverAllocated'
    BY <1>0, <1>1, <1>6
       DEF ReceiveDonation, MayReceiveDonation, AnnulDonation, MayAnnulDonation, DeleteDonation,
           DonationRow, HasRow, NoRow
  <1>7. ASSUME NEW a \in Allocations,
               FinishAllocation(a) \/ AnnulAllocation(a) \/ DeleteAllocation(a)
        PROVE  DonationNotOverAllocated'
    <2>1. /\ UNCHANGED donation
          /\ \A b \in Allocations : b # a => allocation'[b] = allocation[b]
          /\ \/ allocation'[a].status \notin {"active", "finished"}
             \/ /\ allocation[a].status = "active"
                /\ allocation'[a].amount = allocation[a].amount
                /\ allocation'[a].donation = allocation[a].donation
      BY <1>0, <1>7
         DEF FinishAllocation, MayFinishAllocation, AnnulAllocation, MayAnnulAllocation,
             DeleteAllocation, Editable, AllocationRow
    <2> QED
      BY <1>2, <2>1 DEF AllocationsOf
  <1>8. CASE UNCHANGED <<donation, allocation>>
    BY <1>0, <1>1, <1>8 DEF HasRow
  <1>9. ProjectStep \/ EditStep \/ RequestStep \/ ExpenseStep \/ UNCHANGED vars
            => UNCHANGED <<donation, allocation>>
    BY DEF ProjectStep, EditStep, RequestStep, ExpenseStep, vars,
           CheckProjectEdit, LoadProjectEdit, SaveProjectEdit, EndProjectEdit,
           CreateProject, PublishProject, UnpublishProject, FinishProject,
           CreateRequest, UpdateRequest, WithdrawRequest, DenyRequest, ApproveRequest,
           FulfillRequest, AnnulRequest, CreateExpenseLegacy, UpdateExpense, AnnulExpense,
           ConfirmExpenseDeletion, DeleteExpense
  <1> QED
    BY <1>3, <1>4, <1>5, <1>6, <1>7, <1>8, <1>9 DEF Next, DonationStep, AllocationStep

\* No donation is ever assigned twice: for any number of donations, projects
\* and allocations and any amounts, concurrent edits included, since each
\* service checks under the donation's row lock.
THEOREM NoDonationOverAllocated == Spec => []DonationNotOverAllocated
  BY InitType, StepType, InitReferences, StepReferences, InitAssigned, StepAssigned, PTL DEF Spec

-------------------------------------------------------------------------------
(* The balance of an allocation.                                           *)

\* What is executed does not grow when expenses only leave the allocation.
LEMMA ExecutesNoMore ==
    ASSUME NEW a, ExecutingExpenses(a)' \subseteq ExecutingExpenses(a),
           \A e \in ExecutingExpenses(a)' : expense'[e].amount = expense[e].amount
    PROVE  Executed(a)' <= Executed(a)
  <1>1. ExecutingExpenses(a)' \subseteq Expenses
    BY DEF ExecutingExpenses
  <1>2. Executed(a)' = Total(ExecutingExpenses(a)', ExpenseAmounts)
    BY <1>1, TotalCongruence DEF Executed, ExpenseAmounts
  <1>3. Total(ExecutingExpenses(a)', ExpenseAmounts) <= Executed(a)
    BY BalancesAreNatural, TotalMonotone DEF NaturalBalances, Executed
  <1> QED
    BY <1>2, <1>3

\* An expense saved with allocation a and amount m: what is executed is what
\* the other expenses of a spend, plus m.
LEMMA ExecutesOneMore ==
    ASSUME NEW a, NEW e \in Expenses, NEW m \in Money,
           ExecutingExpenses(a)' = ExecutingExpenses(a) \cup {e},
           expense'[e].amount = m,
           \A x \in Expenses : x # e => expense'[x] = expense[x]
    PROVE  Executed(a)' = Total(ExecutingExpenses(a) \ {e}, ExpenseAmounts) + m
  <1> DEFINE after == ExpenseAmounts'
  <1>1. after[e] = m
    BY DEF ExpenseAmounts
  <1>2. \A x \in ExecutingExpenses(a) \ {e} : ExpenseAmounts[x] = after[x]
    BY DEF ExpenseAmounts, ExecutingExpenses
  <1>3. Executed(a)' = Total(ExecutingExpenses(a) \cup {e}, after)
    BY DEF Executed
  <1>4. IsFiniteSet(ExecutingExpenses(a))
    BY BalancesAreNatural DEF NaturalBalances
  <1> HIDE DEF after
  <1> QED
    BY <1>1, <1>2, <1>3, <1>4, TotalReplace

\* What is executed, with the expense e told apart: this is what
\* _validate_expense_balance reads when it excludes the expense it corrects.
LEMMA ExecutedWithout ==
    ASSUME TypeOK, NEW a, NEW e \in Expenses
    PROVE  /\ Total(ExecutingExpenses(a) \ {e}, ExpenseAmounts) \in Nat
           /\ Executed(a) = Total(ExecutingExpenses(a) \ {e}, ExpenseAmounts)
                 + (IF e \in ExecutingExpenses(a) THEN expense[e].amount ELSE 0)
  <1> DEFINE rows == ExecutingExpenses(a)
  <1>1. IsFiniteSet(rows)
    BY BalancesAreNatural DEF NaturalBalances
  <1>2. Total(rows \ {e}, ExpenseAmounts) \in Nat
    BY <1>1, FS_Subset, TotalType
  <1>3. CASE e \in rows
    <2>1. ExpenseAmounts[e] \in Money /\ ExpenseAmounts[e] = expense[e].amount
      BY DEF TypeOK, ExpenseRow, ExpenseAmounts
    <2>2. Total(rows, ExpenseAmounts) = Total(rows \ {e}, ExpenseAmounts) + ExpenseAmounts[e]
      BY <1>1, <1>3, <2>1, TotalSplit
    <2> QED
      BY <1>2, <1>3, <2>1, <2>2 DEF Executed
  <1>4. CASE e \notin rows
    <2>1. rows \ {e} = rows
      BY <1>4
    <2> QED
      BY <1>2, <1>4, <2>1 DEF Executed
  <1> QED
    BY <1>3, <1>4

\* A reservation is part of what its allocation has reserved.
LEMMA ReservationCounts ==
    ASSUME TypeOK, NEW r \in Requests, request[r].status = "approved_reserved"
    PROVE  /\ request[r].reserved \in Nat
           /\ request[r].reserved <= Reserved(request[r].allocation)
  <1> DEFINE a == request[r].allocation
  <1>1. {r} \in SUBSET ReservingRequests(a)
    BY DEF ReservingRequests
  <1>2. ReservedAmounts[r] \in Money /\ ReservedAmounts[r] = request[r].reserved
    BY DEF TypeOK, RequestRow, ReservedAmounts
  <1>3. Total({r}, ReservedAmounts) = request[r].reserved
    BY <1>2, TotalOfOne
  <1>4. Total({r}, ReservedAmounts) <= Reserved(a)
    BY <1>1, BalancesAreNatural, TotalMonotone DEF NaturalBalances, Reserved
  <1> QED
    BY <1>2, <1>3, <1>4, MaxMoneyAssumption DEF Money

LEMMA InitExecuted == Init => AllocationNotOverExecuted
  BY DEF Init, AllocationNotOverExecuted, HasRow, NoRow

\* An expense may be saved with amount m when m fits what the other expenses
\* leave; every path that saves one has checked at least that.
LEMMA SavedExpenseFits ==
    ASSUME TypeOK, AllocationNotOverExecuted,
           NEW e \in Expenses, NEW a \in Allocations, NEW m \in Positive,
           m <= allocation[a].amount - Total(ExecutingExpenses(a) \ {e}, ExpenseAmounts),
           UNCHANGED allocation,
           expense'[e] = [status |-> "registered", amount |-> m, allocation |-> a],
           \A x \in Expenses : x # e => expense'[x] = expense[x]
    PROVE  AllocationNotOverExecuted'
  <1>0. /\ \A b \in Allocations : allocation[b].amount \in Nat
        /\ m \in Money /\ m \in Nat
    BY MaxMoneyAssumption DEF TypeOK, AllocationRow, Money, Positive
  <1>1. ExecutingExpenses(a)' = ExecutingExpenses(a) \cup {e}
    BY DEF ExecutingExpenses
  <1>2. Executed(a)' = Total(ExecutingExpenses(a) \ {e}, ExpenseAmounts) + m
    BY <1>0, <1>1, ExecutesOneMore
  <1>3. Executed(a)' <= allocation[a].amount
    <2>1. Total(ExecutingExpenses(a) \ {e}, ExpenseAmounts) \in Nat
      BY ExecutedWithout
    <2> QED
      BY <1>0, <1>2, <2>1
  <1>4. ASSUME NEW b \in Allocations, b # a PROVE Executed(b)' <= Executed(b)
    <2>1. ExecutingExpenses(b)' \subseteq ExecutingExpenses(b)
      BY <1>4 DEF ExecutingExpenses
    <2>2. \A x \in ExecutingExpenses(b)' : expense'[x].amount = expense[x].amount
      BY <1>4 DEF ExecutingExpenses
    <2> QED
      BY <2>1, <2>2, ExecutesNoMore
  <1>5. \A b \in Allocations : Executed(b)' \in Nat /\ Executed(b) \in Nat
    BY BalancesAreNatural, BalancesStayNatural DEF NaturalBalances
  <1> QED
    BY <1>0, <1>3, <1>4, <1>5 DEF AllocationNotOverExecuted, HasRow

LEMMA StepExecuted ==
    ASSUME TypeOK, ReferencesExist, AllocationNotOverExecuted, [Next]_vars
    PROVE  AllocationNotOverExecuted'
  <1>0. /\ allocation \in [Allocations -> AllocationRow]
        /\ expense \in [Expenses -> ExpenseRow]
        /\ request \in [Requests -> RequestRow]
        /\ \A a \in Allocations : /\ allocation[a].amount \in Nat
                                  /\ Executed(a) \in Nat
                                  /\ Executed(a)' \in Nat
                                  /\ Reserved(a) \in Nat
        /\ Positive \subseteq Nat
    BY BalancesAreNatural, BalancesStayNatural, MaxMoneyAssumption
       DEF NaturalBalances, TypeOK, AllocationRow, Money, Positive
  <1>1. ASSUME UNCHANGED expense,
               \A a \in Allocations : HasRow(allocation[a])' =>
                   \/ HasRow(allocation[a]) /\ allocation'[a].amount = allocation[a].amount
                   \/ allocation'[a].amount >= Executed(a) /\ allocation'[a].amount \in Nat
        PROVE  AllocationNotOverExecuted'
    <2>1. \A a : Executed(a)' = Executed(a)
      BY <1>1 DEF Executed, ExecutingExpenses, ExpenseAmounts
    <2> QED
      BY <1>0, <1>1, <2>1 DEF AllocationNotOverExecuted
  <1>2. ASSUME UNCHANGED allocation,
               NEW e \in Expenses,
               expense'[e].status # "registered",
               \A x \in Expenses : x # e => expense'[x] = expense[x]
        PROVE  AllocationNotOverExecuted'
    <2>1. \A a : ExecutingExpenses(a)' \subseteq ExecutingExpenses(a)
      BY <1>2 DEF ExecutingExpenses
    <2>2. \A a : \A x \in ExecutingExpenses(a)' : expense'[x].amount = expense[x].amount
      BY <1>2 DEF ExecutingExpenses
    <2>3. \A a \in Allocations : Executed(a)' <= Executed(a)
      BY <2>1, <2>2, ExecutesNoMore
    <2> QED
      BY <1>0, <1>2, <2>3 DEF AllocationNotOverExecuted, HasRow
  <1>3. ASSUME NEW a \in Allocations, NEW d \in Donations, NEW p \in Projects,
               NEW m \in Positive, CreateAllocation(a, d, p, m)
        PROVE  AllocationNotOverExecuted'
    <2>1. ExecutingExpenses(a) = {}
      BY <1>3 DEF CreateAllocation, MayCreateAllocation, ExecutingExpenses, ReferencesExist,
                  RowReferences, ExpenseReferences, HasRow, NoRow
    <2>2. Executed(a) = 0
      BY <2>1, TotalEmpty DEF Executed
    <2>3. /\ UNCHANGED expense
          /\ allocation'[a].amount = m
          /\ \A b \in Allocations : b # a => allocation'[b] = allocation[b]
      BY <1>0, <1>3 DEF CreateAllocation
    <2> QED
      BY <1>0, <1>1, <2>2, <2>3 DEF HasRow
  <1>4. ASSUME NEW a \in Allocations, NEW d \in Donations, NEW p \in Projects,
               NEW m \in Positive, UpdateAllocation(a, d, p, m)
        PROVE  AllocationNotOverExecuted'
    <2>1. /\ UNCHANGED expense
          /\ m >= Executed(a)
          /\ allocation'[a].amount = m
          /\ \A b \in Allocations : b # a => allocation'[b] = allocation[b]
      BY <1>0, <1>4 DEF UpdateAllocation, MayUpdateAllocation
    <2> QED
      BY <1>0, <1>1, <2>1 DEF HasRow
  <1>5. ASSUME NEW a \in Allocations,
               FinishAllocation(a) \/ AnnulAllocation(a) \/ DeleteAllocation(a)
        PROVE  AllocationNotOverExecuted'
    <2>1. /\ UNCHANGED expense
          /\ \/ ~HasRow(allocation'[a])
             \/ HasRow(allocation[a]) /\ allocation'[a].amount = allocation[a].amount
          /\ \A b \in Allocations : b # a => allocation'[b] = allocation[b]
      BY <1>0, <1>5 DEF FinishAllocation, MayFinishAllocation, AnnulAllocation, MayAnnulAllocation,
                        DeleteAllocation, Editable, AllocationRow, HasRow, NoRow
    <2> QED
      BY <1>1, <2>1 DEF HasRow
  <1>6. ASSUME NEW r \in Requests, NEW e \in Expenses, NEW m \in Positive,
               FulfillRequest(r, e, m)
        PROVE  AllocationNotOverExecuted'
    <2> DEFINE a == request[r].allocation
    <2>1. /\ request[r].status = "approved_reserved"
          /\ m <= Unreserved(a) + request[r].reserved
          /\ UNCHANGED allocation
          /\ expense[e].status = "absent"
          /\ expense'[e] = [status |-> "registered", amount |-> m, allocation |-> a]
          /\ \A x \in Expenses : x # e => expense'[x] = expense[x]
      BY <1>0, <1>6 DEF FulfillRequest, MayFulfillRequest
    <2>2. a \in Allocations
      BY <2>1 DEF ReferencesExist, RowReferences, RequestReferences, HasRow, NoRow
    <2>3. e \notin ExecutingExpenses(a)
      BY <2>1 DEF ExecutingExpenses
    <2>4. Executed(a) = Total(ExecutingExpenses(a) \ {e}, ExpenseAmounts)
      BY <2>3, ExecutedWithout
    <2>5. request[r].reserved \in Nat /\ request[r].reserved <= Reserved(a)
      BY <2>1, ReservationCounts
    <2>6. m <= allocation[a].amount - Executed(a)
      <3> HIDE DEF a
      <3> QED
        BY <1>0, <2>1, <2>2, <2>5 DEF Unreserved
    <2> QED
      BY <2>1, <2>2, <2>4, <2>6, SavedExpenseFits
  <1>7. ASSUME NEW e \in Expenses, NEW a \in Allocations, NEW m \in Positive,
               CreateExpenseLegacy(e, a, m)
        PROVE  AllocationNotOverExecuted'
    <2>1. /\ m <= Unreserved(a)
          /\ UNCHANGED allocation
          /\ expense[e].status = "absent"
          /\ expense'[e] = [status |-> "registered", amount |-> m, allocation |-> a]
          /\ \A x \in Expenses : x # e => expense'[x] = expense[x]
      BY <1>0, <1>7 DEF CreateExpenseLegacy, MayCreateExpenseLegacy
    <2>2. Executed(a) = Total(ExecutingExpenses(a) \ {e}, ExpenseAmounts)
      <3>1. e \notin ExecutingExpenses(a)
        BY <2>1 DEF ExecutingExpenses
      <3> QED
        BY <3>1, ExecutedWithout
    <2>3. m <= allocation[a].amount - Executed(a)
      BY <1>0, <2>1 DEF Unreserved
    <2> QED
      BY <2>1, <2>2, <2>3, SavedExpenseFits
  <1>8. ASSUME NEW e \in Expenses, NEW a \in Allocations, NEW m \in Positive,
               UpdateExpense(e, a, m)
        PROVE  AllocationNotOverExecuted'
    <2> DEFINE own == IF expense[e].allocation = a THEN expense[e].amount ELSE 0
               others == Total(ExecutingExpenses(a) \ {e}, ExpenseAmounts)
    <2>1. /\ m <= Unreserved(a) + own
          /\ UNCHANGED allocation
          /\ expense[e].status = "registered"
          /\ expense'[e] = [status |-> "registered", amount |-> m, allocation |-> a]
          /\ \A x \in Expenses : x # e => expense'[x] = expense[x]
      BY <1>0, <1>8 DEF UpdateExpense, MayUpdateExpense, ExpenseRow
    <2>2. others \in Nat /\ Executed(a) = others + own
      BY <2>1, ExecutedWithout DEF ExecutingExpenses
    <2>3. own \in Nat
      BY <1>0, MaxMoneyAssumption DEF ExpenseRow, Money
    <2>4. m <= allocation[a].amount - others
      <3> HIDE DEF own, others
      <3> QED
        BY <1>0, <2>1, <2>2, <2>3 DEF Unreserved
    <2> QED
      BY <2>1, <2>4, SavedExpenseFits
  <1>9. ASSUME NEW e \in Expenses, AnnulExpense(e) PROVE AllocationNotOverExecuted'
    BY <1>0, <1>2, <1>9 DEF AnnulExpense, ExpenseRow
  <1>10. ASSUME NEW e \in Expenses, DeleteExpense(e), UNCHANGED expense
         PROVE  AllocationNotOverExecuted'
    BY <1>1, <1>10 DEF DeleteExpense, HasRow
  <1>11. ASSUME NEW e \in Expenses, DeleteExpense(e), ~UNCHANGED expense
         PROVE  AllocationNotOverExecuted'
    BY <1>0, <1>2, <1>11 DEF DeleteExpense
  <1>12. CASE UNCHANGED <<allocation, expense>>
    BY <1>1, <1>12 DEF HasRow
  <1>13. ASSUME NEW r \in Requests,
                \/ \E a \in Allocations, m \in Positive :
                       CreateRequest(r, a, m) \/ UpdateRequest(r, a, m)
                \/ WithdrawRequest(r) \/ DenyRequest(r) \/ ApproveRequest(r) \/ AnnulRequest(r)
         PROVE  UNCHANGED <<allocation, expense>>
    BY <1>13 DEF CreateRequest, UpdateRequest, WithdrawRequest, DenyRequest, ApproveRequest,
                 AnnulRequest
  <1>14. DonationStep \/ ProjectStep \/ EditStep \/ UNCHANGED vars
             => UNCHANGED <<allocation, expense>>
    BY DEF DonationStep, ProjectStep, EditStep, CheckProjectEdit, LoadProjectEdit,
           SaveProjectEdit, EndProjectEdit, vars, CreateDonation, UpdateDonation, ReceiveDonation,
           AnnulDonation, DeleteDonation, CreateProject, PublishProject, UnpublishProject,
           FinishProject
  <1>15. ASSUME NEW e \in Expenses, ConfirmExpenseDeletion(e)
         PROVE  UNCHANGED <<allocation, expense>>
    BY <1>15 DEF ConfirmExpenseDeletion
  <1>16. AllocationStep => AllocationNotOverExecuted'
    BY <1>3, <1>4, <1>5 DEF AllocationStep
  <1>17. RequestStep => AllocationNotOverExecuted'
    BY <1>6, <1>12, <1>13 DEF RequestStep
  <1>18. ExpenseStep => AllocationNotOverExecuted'
    BY <1>7, <1>8, <1>9, <1>10, <1>11, <1>12, <1>15 DEF ExpenseStep
  <1> QED
    BY <1>12, <1>14, <1>16, <1>17, <1>18 DEF Next

\* No allocation ever spends more than it was given, for any number of
\* expenses and requests: the legacy, fulfilment and correction paths and the
\* resizing of the allocation all respect the same bound.
THEOREM NoAllocationOverExecuted == Spec => []AllocationNotOverExecuted
  BY InitType, StepType, InitReferences, StepReferences, InitExecuted, StepExecuted, PTL DEF Spec

-------------------------------------------------------------------------------
(***************************************************************************)
(* The life cycles: what funds an allocation, what a terminal allocation   *)
(* leaves behind, what a request, its expense and its event trail say of   *)
(* each other, and what a closed project keeps.                            *)
(***************************************************************************)

Tables ==
    /\ donation \in [Donations -> DonationRow]
    /\ project \in [Projects -> ProjectRow]
    /\ allocation \in [Allocations -> AllocationRow]
    /\ request \in [Requests -> RequestRow]
    /\ expense \in [Expenses -> ExpenseRow]
    /\ trail \in [Requests -> SUBSET ReservationEvent]

LEMMA TypedTables == TypeOK => Tables
  BY DEF TypeOK, Tables

-------------------------------------------------------------------------------
(* Funding.                                                                *)

LEMMA StepFunded ==
    ASSUME TypeOK, ReferencesExist, FundedByReceivedDonation, [Next]_vars
    PROVE  FundedByReceivedDonation'
  <1> USE DEF FundedByReceivedDonation
  <1>0. Tables /\ \A a \in Allocations : allocation[a].status \in {"active", "finished"} =>
                      allocation[a].donation \in Donations
    BY TypedTables DEF ReferencesExist, RowReferences, AllocationReferences, HasRow, NoRow
  <1>2. ASSUME NEW d \in Donations,
               \/ \E m \in Positive : CreateDonation(d, m) \/ UpdateDonation(d, m)
               \/ ReceiveDonation(d)
        PROVE  FundedByReceivedDonation'
    BY <1>0, <1>2 DEF CreateDonation, UpdateDonation, ReceiveDonation, Tables, DonationRow
  <1>3. ASSUME NEW d \in Donations, AnnulDonation(d) PROVE FundedByReceivedDonation'
    BY <1>0, <1>3 DEF AnnulDonation, MayAnnulDonation, AllocationsOf, Tables, DonationRow
  <1>4. ASSUME NEW d \in Donations, DeleteDonation(d) PROVE FundedByReceivedDonation'
    BY <1>0, <1>4 DEF DeleteDonation, HasRow, NoRow, Tables, DonationRow
  <1>5. ASSUME NEW a \in Allocations, NEW d \in Donations, NEW p \in Projects,
               NEW m \in Positive, CreateAllocation(a, d, p, m) \/ UpdateAllocation(a, d, p, m)
        PROVE  FundedByReceivedDonation'
    BY <1>0, <1>5 DEF CreateAllocation, MayCreateAllocation, UpdateAllocation, MayUpdateAllocation,
                      CanFund, Tables, AllocationRow
  <1>6. ASSUME NEW a \in Allocations,
               FinishAllocation(a) \/ AnnulAllocation(a) \/ DeleteAllocation(a)
        PROVE  FundedByReceivedDonation'
    BY <1>0, <1>6 DEF FinishAllocation, MayFinishAllocation, AnnulAllocation, MayAnnulAllocation,
                      DeleteAllocation, Editable, Tables, AllocationRow
  <1>7. ProjectStep \/ EditStep \/ RequestStep \/ ExpenseStep \/ UNCHANGED vars =>
            UNCHANGED <<donation, allocation>>
    BY DEF ProjectStep, EditStep, RequestStep, ExpenseStep, vars, CreateProject, PublishProject,
           UnpublishProject, FinishProject, CheckProjectEdit, LoadProjectEdit, SaveProjectEdit,
           EndProjectEdit, CreateRequest, UpdateRequest, WithdrawRequest, DenyRequest,
           ApproveRequest, FulfillRequest, AnnulRequest, CreateExpenseLegacy, UpdateExpense,
           AnnulExpense, ConfirmExpenseDeletion, DeleteExpense
  <1> QED BY <1>2, <1>3, <1>4, <1>5, <1>6, <1>7 DEF Next, DonationStep, AllocationStep

\* FundedByReceivedDonation of Ledger: an allocation that is not annulled keeps a received
\* donation under it (annul_donation, DonationDeleteView against the allocation services).
THEOREM AlwaysFunded == Spec => []FundedByReceivedDonation
  <1>1. Init => FundedByReceivedDonation
    BY DEF Init, FundedByReceivedDonation
  <1>2. TypeOK /\ ReferencesExist /\ FundedByReceivedDonation /\ [Next]_vars =>
            FundedByReceivedDonation'
    BY StepFunded
  <1> QED BY <1>1, <1>2, TypeCorrect, ReferencesCorrect, PTL DEF Spec

-------------------------------------------------------------------------------
(* Terminal allocations.                                                   *)

\* TerminalAllocationIsSettled, row by row.
SettledRows ==
    /\ \A r \in Requests, a \in Allocations :
          request[r].allocation = a /\ request[r].status \in OpenFinancialStatuses =>
              allocation[a].status # "finished"
    /\ \A e \in Expenses, a \in Allocations :
          expense[e].allocation = a /\ expense[e].status = "registered" =>
              allocation[a].status # "annulled"

LEMMA SettledByRow == TerminalAllocationIsSettled <=> SettledRows
  BY DEF TerminalAllocationIsSettled, SettledRows, OpenRequests, ExecutingExpenses

LEMMA StepSettled ==
    ASSUME TypeOK, ReferencesExist, SettledRows, [Next]_vars
    PROVE  SettledRows'
  <1> USE DEF SettledRows
  <1>0. Tables
    BY TypedTables
  <1> USE DEF Tables, AllocationRow, RequestRow, ExpenseRow
  <1>1. ASSUME NEW a \in Allocations, NEW d \in Donations, NEW p \in Projects,
               NEW m \in Positive, CreateAllocation(a, d, p, m) \/ UpdateAllocation(a, d, p, m)
        PROVE  SettledRows'
    <2>1. /\ \A b \in Allocations : b # a => allocation'[b] = allocation[b]
          /\ allocation'[a].status = "active"
          /\ UNCHANGED <<request, expense>>
      BY <1>0, <1>1 DEF CreateAllocation, UpdateAllocation
    <2> QED BY <2>1
  <1>2. ASSUME NEW a \in Allocations,
               FinishAllocation(a) \/ AnnulAllocation(a) \/ DeleteAllocation(a)
        PROVE  SettledRows'
    <2>1. /\ \A b \in Allocations : b # a => allocation'[b] = allocation[b]
          /\ UNCHANGED <<request, expense>>
      BY <1>0, <1>2 DEF FinishAllocation, AnnulAllocation, DeleteAllocation
    <2>2. \/ allocation'[a].status = "finished" /\ OpenRequests(a) = {}
          \/ allocation'[a].status = "annulled" /\ ExecutingExpenses(a) = {}
          \/ allocation'[a].status = "deleted"
      BY <1>0, <1>2 DEF FinishAllocation, MayFinishAllocation, AnnulAllocation, MayAnnulAllocation,
                        DeleteAllocation
    <2>3. OpenRequests(a) = {} =>
              \A r \in Requests : request[r].allocation = a =>
                  request[r].status \notin OpenFinancialStatuses
      BY DEF OpenRequests
    <2>4. ExecutingExpenses(a) = {} =>
              \A e \in Expenses : expense[e].allocation = a => expense[e].status # "registered"
      BY DEF ExecutingExpenses
    <2> QED BY <2>1, <2>2, <2>3, <2>4
  <1>3. ASSUME NEW r \in Requests, NEW a \in Allocations, NEW m \in Positive,
               CreateRequest(r, a, m) \/ UpdateRequest(r, a, m)
        PROVE  SettledRows'
    <2>1. /\ \A q \in Requests : q # r => request'[q] = request[q]
          /\ request'[r].allocation = a
          /\ UNCHANGED <<allocation, expense>>
      BY <1>0, <1>3 DEF CreateRequest, UpdateRequest
    <2>2. allocation[a].status = "active"
      BY <1>3 DEF CreateRequest, MayCreateRequest, UpdateRequest, MayUpdateRequest,
                  AcceptsRequests, Editable
    <2> QED BY <2>1, <2>2
  <1>4. ASSUME NEW r \in Requests,
               WithdrawRequest(r) \/ DenyRequest(r) \/ ApproveRequest(r) \/ AnnulRequest(r)
        PROVE  SettledRows'
    <2>1. /\ \A q \in Requests : q # r => request'[q] = request[q]
          /\ request'[r].allocation = request[r].allocation
          /\ request'[r].status \in OpenFinancialStatuses =>
                 request[r].status \in OpenFinancialStatuses
          /\ UNCHANGED <<allocation, expense>>
      BY <1>0, <1>4 DEF WithdrawRequest, MayWithdrawRequest, DenyRequest, ApproveRequest,
                        MayApproveRequest, AnnulRequest, MayAnnulRequest, OpenFinancialStatuses
    <2> QED BY <2>1
  <1>5. ASSUME NEW r \in Requests, NEW e \in Expenses, NEW m \in Positive,
               FulfillRequest(r, e, m)
        PROVE  SettledRows'
    <2>1. /\ \A q \in Requests : q # r => request'[q] = request[q]
          /\ request'[r].status \notin OpenFinancialStatuses
          /\ \A f \in Expenses : f # e => expense'[f] = expense[f]
          /\ expense'[e].allocation = request[r].allocation
          /\ UNCHANGED allocation
      BY <1>0, <1>5 DEF FulfillRequest, OpenFinancialStatuses
    <2>2. allocation[request[r].allocation].status = "active"
      BY <1>5 DEF FulfillRequest, MayFulfillRequest, AcceptsRequests, Editable
    <2> QED BY <2>1, <2>2
  <1>6. ASSUME NEW e \in Expenses, NEW a \in Allocations, NEW m \in Positive,
               CreateExpenseLegacy(e, a, m) \/ UpdateExpense(e, a, m)
        PROVE  SettledRows'
    <2>1. /\ \A f \in Expenses : f # e => expense'[f] = expense[f]
          /\ expense'[e].allocation = a
          /\ UNCHANGED <<allocation, request>>
      BY <1>0, <1>6 DEF CreateExpenseLegacy, UpdateExpense
    <2>2. \/ allocation[a].status = "active"
          \/ expense[e].allocation = a /\ expense[e].status = "registered"
      BY <1>6 DEF CreateExpenseLegacy, MayCreateExpenseLegacy, UpdateExpense, MayUpdateExpense,
                  Editable, EligibleForReassignment
    <2> QED BY <2>1, <2>2
  <1>7. ASSUME NEW e \in Expenses,
               AnnulExpense(e) \/ ConfirmExpenseDeletion(e) \/ DeleteExpense(e)
        PROVE  SettledRows'
    <2>1. /\ \A f \in Expenses : expense'[f] = expense[f] \/ expense'[f].status # "registered"
          /\ UNCHANGED <<allocation, request>>
      BY <1>0, <1>7 DEF AnnulExpense, ConfirmExpenseDeletion, DeleteExpense
    <2> QED BY <2>1
  <1>8. DonationStep \/ ProjectStep \/ EditStep \/ UNCHANGED vars =>
            UNCHANGED <<allocation, request, expense>>
    BY DEF DonationStep, ProjectStep, EditStep, vars, CreateDonation, UpdateDonation,
           ReceiveDonation, AnnulDonation, DeleteDonation, CreateProject, PublishProject,
           UnpublishProject, FinishProject, CheckProjectEdit, LoadProjectEdit, SaveProjectEdit,
           EndProjectEdit
  <1> QED BY <1>1, <1>2, <1>3, <1>4, <1>5, <1>6, <1>7, <1>8
          DEF Next, AllocationStep, RequestStep, ExpenseStep

\* TerminalAllocationIsSettled of Ledger: nothing checked when an allocation was finished or
\* annulled can come back (finish_fund_allocation, annul_fund_allocation).
THEOREM TerminalStaysSettled == Spec => []TerminalAllocationIsSettled
  <1>1. Init => SettledRows
    BY DEF Init, SettledRows, OpenFinancialStatuses
  <1>2. TypeOK /\ ReferencesExist /\ SettledRows /\ [Next]_vars => SettledRows'
    BY StepSettled
  <1>3. Spec => []SettledRows
    BY <1>1, <1>2, TypeCorrect, ReferencesCorrect, PTL DEF Spec
  <1> QED BY <1>3, SettledByRow, PTL

-------------------------------------------------------------------------------
(* Requests, their expenses and their trails.                              *)

Settling == {"RESERVATION_CREATED", "RESERVATION_CONSUMED", "RESERVATION_RELEASED"}

\* One request: the invariants, and what TrailMatchesRows needs to be inductive - a request
\* asks for money, an approved one reserves some, before the approval the trail is empty.
LifeOf(r) ==
    /\ (request[r].status = "fulfilled") <=> (request[r].expense # None)
    /\ request[r].expense # None =>
           /\ HasRow(expense[request[r].expense])
           /\ expense[request[r].expense].allocation = request[r].allocation
    /\ request[r].status = "pending_decision" => request[r].requested # 0
    /\ request[r].status = "approved_reserved" => request[r].reserved # 0
    /\ request[r].status \in {"absent", "pending_decision"} => trail[r] \cap Settling = {}
    /\ (request[r].status = "approved_reserved") <=>
           trail[r] \cap Settling = {"RESERVATION_CREATED"}
    /\ ("LINKED_EXPENSE_ANNULLED" \in trail[r]) <=>
           (/\ request[r].expense # None
            /\ expense[request[r].expense].status = "annulled")

OneRequestEach ==
    \A q, r \in Requests :
        request[r].expense # None /\ request[q].expense = request[r].expense => q = r

LifeInv == OneRequestEach /\ \A r \in Requests : LifeOf(r)

LEMMA LifeImplies == LifeInv => FulfilmentIsOneToOne /\ TrailMatchesRows
  BY DEF LifeInv, LifeOf, OneRequestEach, FulfilmentIsOneToOne, TrailMatchesRows, Settling

\* A step of one request, which links no expense.
LEMMA RequestLife ==
    ASSUME Tables, LifeInv, NEW r \in Requests,
           \A q \in Requests \ {r} : request'[q] = request[q] /\ trail'[q] = trail[q],
           request'[r].expense = request[r].expense,
           UNCHANGED expense,
           LifeOf(r)'
    PROVE  LifeInv'
  BY DEF LifeInv, LifeOf, OneRequestEach, HasRow

\* A step of one expense, which links no request and loses no linked row.
LEMMA ExpenseLife ==
    ASSUME Tables, LifeInv, NEW e \in Expenses,
           \A f \in Expenses \ {e} : expense'[f] = expense[f],
           UNCHANGED <<request, trail>>,
           \A r \in Requests : request[r].expense = e =>
               /\ HasRow(expense[e]) => HasRow(expense'[e])
               /\ expense'[e].allocation = expense[e].allocation
               /\ (expense'[e].status = "annulled") <=> (expense[e].status = "annulled")
    PROVE  LifeInv'
  <1>1. \A r \in Requests : request[r].expense \in Expenses \cup {None}
    BY DEF Tables, RequestRow
  <1>2. OneRequestEach'
    BY DEF LifeInv, OneRequestEach
  <1>3. ASSUME NEW r \in Requests PROVE LifeOf(r)'
    <2>1. LifeOf(r)
      BY DEF LifeInv
    <2>2. CASE request[r].expense = None
      BY <2>1, <2>2 DEF LifeOf
    <2>3. CASE request[r].expense = e
      BY <2>1, <2>3 DEF LifeOf
    <2>4. CASE request[r].expense \in Expenses \ {e}
      BY <2>1, <2>4 DEF LifeOf, HasRow
    <2> QED BY <1>1, <2>2, <2>3, <2>4
  <1> QED BY <1>2, <1>3 DEF LifeInv

LEMMA StepLife ==
    ASSUME TypeOK, ReferencesExist, LifeInv, [Next]_vars
    PROVE  LifeInv'
  <1>0. Tables
    BY TypedTables
  <1>1. None \notin Expenses
    BY LedgerAssumption
  <1>2. \A r \in Requests : LifeOf(r)
    BY DEF LifeInv
  <1> DEFINE OthersKept(r) ==
                 \A q \in Requests \ {r} : request'[q] = request[q] /\ trail'[q] = trail[q]
  <1>3. ASSUME NEW r \in Requests, NEW a \in Allocations, NEW m \in Positive,
               CreateRequest(r, a, m) \/ UpdateRequest(r, a, m)
        PROVE  LifeInv'
    <2>1. OthersKept(r) /\ UNCHANGED expense
      BY <1>0, <1>3 DEF CreateRequest, UpdateRequest, Tables
    <2>2. /\ request'[r].expense = request[r].expense /\ request[r].expense = None
          /\ request'[r].status = "pending_decision"
          /\ request[r].status \in {"absent", "pending_decision"}
          /\ request'[r].requested = m /\ m # 0 /\ trail' = trail
      BY <1>0, <1>2, <1>3 DEF CreateRequest, MayCreateRequest, UpdateRequest, MayUpdateRequest,
                              Tables, RequestRow, LifeOf, Positive
    <2>3. LifeOf(r)'
      BY <1>2, <2>2 DEF LifeOf
    <2> QED BY <1>0, <2>1, <2>2, <2>3, RequestLife
  <1>4. ASSUME NEW r \in Requests, WithdrawRequest(r) \/ DenyRequest(r) PROVE LifeInv'
    <2>1. OthersKept(r) /\ UNCHANGED expense
      BY <1>0, <1>4 DEF WithdrawRequest, DenyRequest, Tables
    <2>2. /\ request[r].status = "pending_decision" /\ trail' = trail
          /\ request'[r].status \in {"withdrawn", "denied"}
          /\ request'[r].expense = request[r].expense
      BY <1>0, <1>4 DEF WithdrawRequest, MayWithdrawRequest, DenyRequest, Tables, RequestRow
    <2>3. LifeOf(r)'
      BY <1>2, <2>1, <2>2 DEF LifeOf, Settling
    <2> QED BY <1>0, <2>1, <2>2, <2>3, RequestLife
  <1>5. ASSUME NEW r \in Requests, ApproveRequest(r) PROVE LifeInv'
    <2>1. OthersKept(r) /\ UNCHANGED expense
      BY <1>0, <1>5 DEF ApproveRequest, Tables
    <2>2. /\ request[r].status = "pending_decision"
          /\ request'[r].status = "approved_reserved"
          /\ request'[r].expense = request[r].expense
          /\ request'[r].reserved = request[r].requested
          /\ trail'[r] = trail[r] \cup {"RESERVATION_CREATED"}
      BY <1>0, <1>5 DEF ApproveRequest, MayApproveRequest, Tables, RequestRow
    <2>3. LifeOf(r)'
      BY <1>2, <2>1, <2>2 DEF LifeOf, Settling
    <2> QED BY <1>0, <2>1, <2>2, <2>3, RequestLife
  <1>6. ASSUME NEW r \in Requests, AnnulRequest(r) PROVE LifeInv'
    <2>1. OthersKept(r) /\ UNCHANGED expense
      BY <1>0, <1>6 DEF AnnulRequest, Tables
    <2>2. /\ request[r].status \in OpenFinancialStatuses
          /\ request'[r].status = "annulled"
          /\ request'[r].expense = request[r].expense
          /\ trail'[r] = IF Held(r) > 0 THEN trail[r] \cup {"RESERVATION_RELEASED"} ELSE trail[r]
      BY <1>0, <1>6 DEF AnnulRequest, MayAnnulRequest, Tables, RequestRow
    <2>3. /\ request[r].status = "pending_decision" => trail'[r] = trail[r]
          /\ request[r].status = "approved_reserved" =>
                 trail'[r] = trail[r] \cup {"RESERVATION_RELEASED"}
      BY <1>0, <1>2, <2>2 DEF Held, LifeOf, Tables, RequestRow, Money
    <2>4. LifeOf(r)'
      BY <1>2, <2>1, <2>2, <2>3 DEF LifeOf, Settling, OpenFinancialStatuses
    <2> QED BY <1>0, <2>1, <2>2, <2>4, RequestLife
  <1>7. ASSUME NEW r \in Requests, NEW e \in Expenses, NEW m \in Positive,
               FulfillRequest(r, e, m)
        PROVE  LifeInv'
    <2>1. OthersKept(r)
      BY <1>0, <1>7 DEF FulfillRequest, Tables
    <2>2. /\ request[r].status = "approved_reserved" /\ request'[r].status = "fulfilled"
          /\ request'[r].expense = e /\ request'[r].allocation = request[r].allocation
          /\ trail'[r] = trail[r] \cup {"RESERVATION_CONSUMED"}
      BY <1>0, <1>7 DEF FulfillRequest, MayFulfillRequest, Tables, RequestRow
    <2>3. /\ expense[e].status = "absent"
          /\ expense'[e].status = "registered"
          /\ expense'[e].allocation = request[r].allocation
          /\ \A f \in Expenses \ {e} : expense'[f] = expense[f]
      BY <1>0, <1>7 DEF FulfillRequest, MayFulfillRequest, Tables
    <2>4. \A q \in Requests : request[q].expense # e
      BY <1>1, <1>2, <2>3 DEF LifeOf, HasRow, NoRow
    <2>5. LifeOf(r)'
      BY <1>1, <1>2, <2>2, <2>3 DEF LifeOf, Settling, HasRow, NoRow
    <2>6. ASSUME NEW q \in Requests \ {r} PROVE LifeOf(q)'
      <3>1. request[q].expense \in (Expenses \ {e}) \cup {None}
        BY <1>0, <2>4 DEF Tables, RequestRow
      <3>2. LifeOf(q) /\ request'[q] = request[q] /\ trail'[q] = trail[q]
        BY <1>2, <2>1
      <3> QED BY <2>3, <3>1, <3>2 DEF LifeOf, HasRow
    <2>7. OneRequestEach'
      BY <2>1, <2>2, <2>4 DEF LifeInv, OneRequestEach
    <2> QED BY <2>5, <2>6, <2>7 DEF LifeInv
  <1>8. ASSUME NEW e \in Expenses, NEW a \in Allocations, NEW m \in Positive,
               CreateExpenseLegacy(e, a, m) \/ UpdateExpense(e, a, m)
        PROVE  LifeInv'
    <2>1. /\ \A f \in Expenses \ {e} : expense'[f] = expense[f]
          /\ UNCHANGED <<request, trail>>
      BY <1>0, <1>8 DEF CreateExpenseLegacy, UpdateExpense, Tables
    <2>2. \A r \in Requests : request[r].expense = e => HasRow(expense[e])
      BY <1>1, <1>2 DEF LifeOf
    <2>3. \A r \in Requests : request[r].expense = e =>
              /\ expense'[e].status = expense[e].status
              /\ expense'[e].allocation = expense[e].allocation
      BY <1>0, <1>8, <2>2 DEF CreateExpenseLegacy, MayCreateExpenseLegacy, UpdateExpense,
                              MayUpdateExpense, Linked, HasRow, NoRow, Tables, ExpenseRow
    <2> QED BY <1>0, <2>1, <2>3, ExpenseLife DEF HasRow
  <1>9. ASSUME NEW e \in Expenses, AnnulExpense(e) PROVE LifeInv'
    <2>1. /\ \A f \in Expenses \ {e} : expense'[f] = expense[f]
          /\ expense'[e].status = "annulled" /\ expense'[e].allocation = expense[e].allocation
          /\ UNCHANGED request
      BY <1>0, <1>9 DEF AnnulExpense, Tables, ExpenseRow
    <2>2. ASSUME NEW r \in Requests PROVE LifeOf(r)'
      <3>1. LifeOf(r) /\ request[r].expense \in Expenses \cup {None}
        BY <1>0, <1>2 DEF Tables, RequestRow
      <3>2. CASE request[r].expense = e
        <4>1. trail'[r] = trail[r] \cup {"LINKED_EXPENSE_ANNULLED"}
          BY <1>9, <3>2 DEF AnnulExpense
        <4> QED BY <1>1, <2>1, <3>1, <3>2, <4>1 DEF LifeOf, Settling, HasRow, NoRow
      <3>3. CASE request[r].expense # e
        <4>1. trail'[r] = trail[r]
          BY <1>9, <3>3 DEF AnnulExpense
        <4> QED BY <2>1, <3>1, <3>3, <4>1 DEF LifeOf, HasRow
      <3> QED BY <3>2, <3>3
    <2> QED BY <2>1, <2>2 DEF LifeInv, OneRequestEach
  <1>10. ASSUME NEW e \in Expenses, ConfirmExpenseDeletion(e) \/ DeleteExpense(e)
         PROVE  LifeInv'
    <2>1. /\ \A f \in Expenses \ {e} : expense'[f] = expense[f]
          /\ Linked(e) => expense'[e] = expense[e]
          /\ UNCHANGED <<request, trail>>
      BY <1>0, <1>10 DEF ConfirmExpenseDeletion, DeleteExpense, Tables
    <2> QED BY <1>0, <2>1, ExpenseLife DEF Linked, HasRow
  <1>11. DonationStep \/ ProjectStep \/ EditStep \/ AllocationStep \/ UNCHANGED vars =>
            UNCHANGED <<request, expense, trail>>
    BY DEF DonationStep, ProjectStep, EditStep, AllocationStep, vars, CreateDonation,
           UpdateDonation, ReceiveDonation, AnnulDonation, DeleteDonation, CreateProject,
           PublishProject, UnpublishProject, FinishProject, CheckProjectEdit, LoadProjectEdit,
           SaveProjectEdit, EndProjectEdit, CreateAllocation, UpdateAllocation,
           FinishAllocation, AnnulAllocation, DeleteAllocation
  <1>12. UNCHANGED <<request, expense, trail>> => LifeInv'
    BY DEF LifeInv, LifeOf, OneRequestEach, HasRow
  <1> QED BY <1>3, <1>4, <1>5, <1>6, <1>7, <1>8, <1>9, <1>10, <1>11, <1>12
          DEF Next, RequestStep, ExpenseStep

\* Status, amounts, expense and trail of each request fit together after every service.
THEOREM LifeHolds == Spec => []LifeInv
  <1>1. Init => LifeInv
    BY DEF Init, LifeInv, LifeOf, OneRequestEach, Settling
  <1>2. TypeOK /\ ReferencesExist /\ LifeInv /\ [Next]_vars => LifeInv'
    BY StepLife
  <1> QED BY <1>1, <1>2, TypeCorrect, ReferencesCorrect, PTL DEF Spec

\* FulfilmentIsOneToOne of Ledger: a fulfilled request and its expense never come apart
\* (fulfill_expense_request against the edit and delete paths of the expense).
THEOREM FulfilmentStaysOneToOne == Spec => []FulfilmentIsOneToOne
  BY LifeHolds, LifeImplies, PTL

\* TrailMatchesRows of Ledger: the events of a request and its row tell the same story
\* (append_expense_request_event in every service that moves a reservation).
THEOREM TrailTellsTheStory == Spec => []TrailMatchesRows
  BY LifeHolds, LifeImplies, PTL

-------------------------------------------------------------------------------
(* Terminal rows.                                                          *)

\* TerminalIsForever of one step.
TerminalKept ==
    /\ \A d \in Donations : donation[d].status = "annulled" =>
          donation'[d] = donation[d] \/ donation'[d].status = "deleted"
    /\ \A a \in Allocations : allocation[a].status \in {"finished", "annulled"} =>
          allocation'[a] = allocation[a] \/ allocation'[a].status = "deleted"
    /\ \A r \in Requests : request[r].status \in TerminalRequestStatuses =>
          request'[r] = request[r]

LEMMA StepTerminal ==
    ASSUME TypeOK, [Next]_vars PROVE TerminalKept
  <1> USE DEF TerminalKept, TerminalRequestStatuses
  <1>0. Tables
    BY TypedTables
  <1> USE DEF Tables, DonationRow, AllocationRow, RequestRow
  <1>1. ASSUME DonationStep PROVE TerminalKept
    <2>1. PICK d \in Donations :
              \/ \E m \in Positive : CreateDonation(d, m) \/ UpdateDonation(d, m)
              \/ ReceiveDonation(d) \/ AnnulDonation(d) \/ DeleteDonation(d)
      BY <1>1 DEF DonationStep
    <2>2. /\ UNCHANGED <<allocation, request>>
          /\ \A x \in Donations \ {d} : donation'[x] = donation[x]
      BY <1>0, <2>1 DEF CreateDonation, UpdateDonation, ReceiveDonation, AnnulDonation,
                        DeleteDonation
    <2>3. donation[d].status = "annulled" => donation'[d].status = "deleted"
      BY <1>0, <2>1 DEF CreateDonation, UpdateDonation, MayUpdateDonation, ReceiveDonation,
                        MayReceiveDonation, AnnulDonation, MayAnnulDonation, DeleteDonation
    <2> QED BY <2>2, <2>3
  <1>2. ASSUME AllocationStep PROVE TerminalKept
    <2>1. PICK a \in Allocations :
              \/ \E d \in Donations, p \in Projects, m \in Positive :
                     CreateAllocation(a, d, p, m) \/ UpdateAllocation(a, d, p, m)
              \/ FinishAllocation(a) \/ AnnulAllocation(a) \/ DeleteAllocation(a)
      BY <1>2 DEF AllocationStep
    <2>2. /\ UNCHANGED <<donation, request>>
          /\ \A b \in Allocations \ {a} : allocation'[b] = allocation[b]
      BY <1>0, <2>1 DEF CreateAllocation, UpdateAllocation, FinishAllocation, AnnulAllocation,
                        DeleteAllocation
    <2>3. allocation[a].status \in {"finished", "annulled"} => allocation'[a].status = "deleted"
      BY <1>0, <2>1 DEF CreateAllocation, MayCreateAllocation, UpdateAllocation,
                        MayUpdateAllocation, FinishAllocation, MayFinishAllocation,
                        AnnulAllocation, MayAnnulAllocation, DeleteAllocation, Editable
    <2> QED BY <2>2, <2>3
  <1>3. ASSUME RequestStep PROVE TerminalKept
    <2>1. PICK r \in Requests :
              \/ \E a \in Allocations, m \in Positive :
                     CreateRequest(r, a, m) \/ UpdateRequest(r, a, m)
              \/ WithdrawRequest(r) \/ DenyRequest(r) \/ ApproveRequest(r)
              \/ \E e \in Expenses, m \in Positive : FulfillRequest(r, e, m)
              \/ AnnulRequest(r)
      BY <1>3 DEF RequestStep
    <2>2. /\ UNCHANGED <<donation, allocation>>
          /\ \A q \in Requests \ {r} : request'[q] = request[q]
      BY <1>0, <2>1 DEF CreateRequest, UpdateRequest, WithdrawRequest, DenyRequest, ApproveRequest,
                        FulfillRequest, AnnulRequest
    <2>3. request[r].status \in {"absent", "pending_decision", "approved_reserved"}
      BY <2>1 DEF CreateRequest, MayCreateRequest, UpdateRequest, MayUpdateRequest,
                  WithdrawRequest, MayWithdrawRequest, DenyRequest, ApproveRequest,
                  MayApproveRequest, FulfillRequest, MayFulfillRequest, AnnulRequest,
                  MayAnnulRequest, OpenFinancialStatuses
    <2> QED BY <2>2, <2>3
  <1>4. ProjectStep \/ EditStep \/ ExpenseStep \/ UNCHANGED vars =>
            UNCHANGED <<donation, allocation, request>>
    BY DEF ProjectStep, EditStep, ExpenseStep, vars, CreateProject, PublishProject,
           UnpublishProject, FinishProject,
           CheckProjectEdit, LoadProjectEdit, SaveProjectEdit, EndProjectEdit,
           CreateExpenseLegacy, UpdateExpense, AnnulExpense, ConfirmExpenseDeletion, DeleteExpense
  <1> QED BY <1>1, <1>2, <1>3, <1>4 DEF Next

\* TerminalIsForever of Ledger: nothing reopens what was annulled, finished or decided, and
\* no row of it changes but by a delete view.
THEOREM TerminalStays == Spec => TerminalIsForever
  <1>1. TypeOK /\ [Next]_vars => [TerminalKept]_vars
    BY StepTerminal
  <1> QED BY <1>1, TypeCorrect, PTL DEF Spec, TerminalIsForever, TerminalKept

-------------------------------------------------------------------------------
(* Closed projects.                                                        *)

\* Quiet, row by row.
LEMMA QuietByRow ==
    \A p : Quiet(p) <=>
        /\ ~project[p].public
        /\ \A a \in Allocations : allocation[a].project = p =>
               /\ allocation[a].status # "active"
               /\ \A r \in Requests : request[r].allocation = a =>
                      request[r].status \notin OpenFinancialStatuses
  BY DEF Quiet, OpenRequests

LEMMA QuietByRowLater ==
    \A p : Quiet(p)' <=>
        /\ ~project'[p].public
        /\ \A a \in Allocations : allocation'[a].project = p =>
               /\ allocation'[a].status # "active"
               /\ \A r \in Requests : request'[r].allocation = a =>
                      request'[r].status \notin OpenFinancialStatuses
  BY DEF Quiet, OpenRequests

\* A closed project is private, and so is the closed row that a form has loaded.
ClosedIsPrivate ==
    /\ \A p \in Projects : Closed(p) => ~project[p].public
    /\ \A x \in Edits : edit[x].row.status = "closed" => ~edit[x].row.public

\* The steps that write projects or forms.
LEMMA ProjectsMove ==
    ASSUME TypeOK, [Next]_vars
    PROVE  ProjectStep \/ EditStep \/ UNCHANGED <<project, edit>>
  <1>1. ASSUME DonationStep PROVE UNCHANGED <<project, edit>>
    BY <1>1 DEF DonationStep, CreateDonation, UpdateDonation, ReceiveDonation, AnnulDonation,
                DeleteDonation
  <1>2. ASSUME AllocationStep PROVE UNCHANGED <<project, edit>>
    BY <1>2 DEF AllocationStep, CreateAllocation, UpdateAllocation, FinishAllocation,
                AnnulAllocation, DeleteAllocation
  <1>3. ASSUME RequestStep PROVE UNCHANGED <<project, edit>>
    BY <1>3 DEF RequestStep, CreateRequest, UpdateRequest, WithdrawRequest, DenyRequest,
                ApproveRequest, FulfillRequest, AnnulRequest
  <1>4. ASSUME ExpenseStep PROVE UNCHANGED <<project, edit>>
    BY <1>4 DEF ExpenseStep, CreateExpenseLegacy, UpdateExpense, AnnulExpense,
                ConfirmExpenseDeletion, DeleteExpense
  <1> QED BY <1>1, <1>2, <1>3, <1>4 DEF Next, vars

LEMMA StepPrivate ==
    ASSUME TypeOK, ReferencesExist, ClosedIsPrivate, [Next]_vars PROVE ClosedIsPrivate'
  <1> USE DEF ClosedIsPrivate, Closed
  <1>0. /\ project \in [Projects -> ProjectRow] /\ edit \in [Edits -> EditRow]
        /\ \A x \in Edits : EditReferences(x)
    BY DEF TypeOK, ReferencesExist
  <1>1. ASSUME NEW p \in Projects,
               CreateProject(p) \/ PublishProject(p) \/ UnpublishProject(p) \/ FinishProject(p)
        PROVE  ClosedIsPrivate'
    <2>1. edit' = edit /\ \A q \in Projects \ {p} : project'[q] = project[q]
      BY <1>0, <1>1 DEF CreateProject, PublishProject, UnpublishProject, FinishProject
    <2>2. project'[p].status = "closed" => ~project'[p].public
      BY <1>0, <1>1 DEF CreateProject, PublishProject, MayPublishProject, UnpublishProject,
                        MayUnpublishProject, FinishProject, MayFinishProject, ProjectRow
    <2> QED BY <2>1, <2>2
  <1>2. ASSUME NEW x \in Edits, NEW p \in Projects, CheckProjectEdit(x, p) \/ LoadProjectEdit(x, p)
        PROVE  ClosedIsPrivate'
    <2>1. project' = project /\ \A y \in Edits \ {x} : edit'[y] = edit[y]
      BY <1>0, <1>2 DEF CheckProjectEdit, LoadProjectEdit
    <2>2. edit'[x].row.status = "closed" => ~edit'[x].row.public
      <3>1. ASSUME CheckProjectEdit(x, p) PROVE edit'[x].row.status = "absent"
        BY <1>0, <3>1 DEF CheckProjectEdit, Idle
      <3>2. ASSUME LoadProjectEdit(x, p) PROVE edit'[x].row = project[p]
        BY <1>0, <3>2 DEF LoadProjectEdit, EditRow
      <3> QED BY <1>2, <3>1, <3>2
    <2> QED BY <2>1, <2>2
  <1>3. ASSUME NEW x \in Edits, SaveProjectEdit(x) \/ EndProjectEdit(x) PROVE ClosedIsPrivate'
    <2>1. /\ edit'[x].row.status # "closed" /\ \A y \in Edits \ {x} : edit'[y] = edit[y]
      BY <1>0, <1>3 DEF SaveProjectEdit, EndProjectEdit, Idle
    <2>2. \A p \in Projects : project'[p] = project[p] \/ project'[p] = edit[x].row
      BY <1>0, <1>3 DEF SaveProjectEdit, EndProjectEdit
    <2> QED BY <2>1, <2>2
  <1> QED BY <1>1, <1>2, <1>3, ProjectsMove DEF ProjectStep, EditStep

LEMMA AlwaysPrivate == Spec => []ClosedIsPrivate
  <1>1. Init => ClosedIsPrivate
    BY DEF Init, ClosedIsPrivate, Closed, Idle
  <1>2. TypeOK /\ ReferencesExist /\ ClosedIsPrivate /\ [Next]_vars => ClosedIsPrivate'
    BY StepPrivate
  <1> QED BY <1>1, <1>2, TypeCorrect, ReferencesCorrect, PTL DEF Spec

\* ClosedProjectIsQuiet of one step and one project.
KeepsQuiet(p) ==
    Closed(p)' /\ (Closed(p) => Quiet(p)) => Quiet(p)' \/ (~Closed(p) /\ edit' # edit)

\* A quiet closed project cannot get an active allocation or an open request.
LEMMA MoneyKeepsQuiet ==
    ASSUME TypeOK, NEW p \in Projects, Closed(p), Quiet(p), UNCHANGED project,
           DonationStep \/ AllocationStep \/ RequestStep \/ ExpenseStep
    PROVE  Quiet(p)'
  <1>0. Tables /\ None \notin Projects
    BY TypedTables, LedgerAssumption
  <1> USE DEF Tables, AllocationRow, RequestRow
  <1>1. CASE DonationStep \/ ExpenseStep
    <2>1. ASSUME UNCHANGED <<allocation, request>> PROVE Quiet(p)'
      BY <2>1, QuietByRow, QuietByRowLater
    <2>2. CASE DonationStep
      BY <2>1, <2>2 DEF DonationStep, CreateDonation, UpdateDonation, ReceiveDonation,
                        AnnulDonation, DeleteDonation
    <2>3. CASE ExpenseStep
      BY <2>1, <2>3 DEF ExpenseStep, CreateExpenseLegacy, UpdateExpense, AnnulExpense,
                        ConfirmExpenseDeletion, DeleteExpense
    <2> QED BY <1>1, <2>2, <2>3
  <1>2. CASE AllocationStep
    <2>1. PICK a \in Allocations :
              \/ \E d \in Donations, q \in Projects, m \in Positive :
                     CreateAllocation(a, d, q, m) \/ UpdateAllocation(a, d, q, m)
              \/ FinishAllocation(a) \/ AnnulAllocation(a) \/ DeleteAllocation(a)
      BY <1>2 DEF AllocationStep
    <2>2. request' = request /\ \A b \in Allocations \ {a} : allocation'[b] = allocation[b]
      BY <1>0, <2>1 DEF CreateAllocation, UpdateAllocation, FinishAllocation, AnnulAllocation,
                        DeleteAllocation
    <2>3. allocation'[a].project # p
      <3>1. ASSUME NEW d \in Donations, NEW q \in Projects, NEW m \in Positive,
                   CreateAllocation(a, d, q, m) \/ UpdateAllocation(a, d, q, m)
            PROVE  allocation'[a].project # p
        BY <1>0, <3>1 DEF CreateAllocation, MayCreateAllocation, UpdateAllocation,
                          MayUpdateAllocation, CanFund, Closed
      <3>2. ASSUME FinishAllocation(a) \/ AnnulAllocation(a) PROVE allocation'[a].project # p
        BY <1>0, <3>2, QuietByRow DEF FinishAllocation, MayFinishAllocation, AnnulAllocation,
                                      MayAnnulAllocation, Editable
      <3>3. ASSUME DeleteAllocation(a) PROVE allocation'[a].project # p
        BY <1>0, <3>3 DEF DeleteAllocation
      <3> QED BY <2>1, <3>1, <3>2, <3>3
    <2> QED BY <2>2, <2>3, QuietByRow, QuietByRowLater
  <1>3. CASE RequestStep
    <2>1. PICK r \in Requests :
              \/ \E a \in Allocations, m \in Positive :
                     CreateRequest(r, a, m) \/ UpdateRequest(r, a, m)
              \/ WithdrawRequest(r) \/ DenyRequest(r) \/ ApproveRequest(r)
              \/ \E e \in Expenses, m \in Positive : FulfillRequest(r, e, m)
              \/ AnnulRequest(r)
      BY <1>3 DEF RequestStep
    <2>2. allocation' = allocation /\ \A q \in Requests \ {r} : request'[q] = request[q]
      BY <1>0, <2>1 DEF CreateRequest, UpdateRequest, WithdrawRequest, DenyRequest, ApproveRequest,
                        FulfillRequest, AnnulRequest
    <2>3. \/ allocation[request'[r].allocation].status = "active"
          \/ /\ request'[r].allocation = request[r].allocation
             /\ \/ request[r].status \in OpenFinancialStatuses
                \/ request'[r].status \notin OpenFinancialStatuses
      <3>1. ASSUME NEW a \in Allocations, NEW m \in Positive,
                   CreateRequest(r, a, m) \/ UpdateRequest(r, a, m)
            PROVE  allocation[request'[r].allocation].status = "active"
        BY <1>0, <3>1 DEF CreateRequest, MayCreateRequest, UpdateRequest, MayUpdateRequest,
                          AcceptsRequests, Editable
      <3>2. ASSUME \/ WithdrawRequest(r) \/ DenyRequest(r) \/ ApproveRequest(r) \/ AnnulRequest(r)
                   \/ \E e \in Expenses, m \in Positive : FulfillRequest(r, e, m)
            PROVE  /\ request'[r].allocation = request[r].allocation
                   /\ request[r].status \in OpenFinancialStatuses
        BY <1>0, <3>2 DEF WithdrawRequest, MayWithdrawRequest, DenyRequest, ApproveRequest,
                          MayApproveRequest, AnnulRequest, MayAnnulRequest, FulfillRequest,
                          MayFulfillRequest, OpenFinancialStatuses
      <3> QED BY <2>1, <3>1, <3>2
    <2> QED BY <2>2, <2>3, QuietByRow, QuietByRowLater
  <1> QED BY <1>1, <1>2, <1>3

LEMMA StepQuiet ==
    ASSUME TypeOK, ClosedIsPrivate, ClosedIsPrivate', [Next]_vars, NEW p \in Projects
    PROVE  KeepsQuiet(p)
  <1> SUFFICES ASSUME Closed(p)', Closed(p) => Quiet(p), Closed(p) \/ edit' = edit
               PROVE  Quiet(p)'
    BY DEF KeepsQuiet
  <1>0. Tables /\ edit \in [Edits -> EditRow] /\ ~project'[p].public
    BY TypedTables DEF TypeOK, ClosedIsPrivate
  <1>1. CASE ProjectStep \/ EditStep \/ UNCHANGED vars
    <2>1. UNCHANGED <<allocation, request>>
      BY <1>1 DEF ProjectStep, EditStep, vars, CreateProject, PublishProject, UnpublishProject,
                  FinishProject, CheckProjectEdit, LoadProjectEdit, SaveProjectEdit, EndProjectEdit
    <2>2. CASE Closed(p)
      BY <1>0, <2>1, <2>2, QuietByRow, QuietByRowLater
    <2>3. CASE ~Closed(p)
      <3>1. \E q \in Projects : FinishProject(q) /\ project'[p] # project[p]
        <4>1. project'[p] # project[p]
          BY <2>3 DEF Closed
        <4>2. ~EditStep /\ ~UNCHANGED vars
          <5>1. ASSUME NEW x \in Edits, SaveProjectEdit(x) PROVE FALSE
            BY <1>0, <2>3, <5>1 DEF SaveProjectEdit, Idle
          <5> QED BY <4>1, <5>1 DEF EditStep, vars, CheckProjectEdit, LoadProjectEdit,
                                    EndProjectEdit
        <4>3. ASSUME NEW q \in Projects,
                     CreateProject(q) \/ PublishProject(q) \/ UnpublishProject(q)
              PROVE  FALSE
          BY <1>0, <4>1, <4>3 DEF CreateProject, PublishProject, MayPublishProject,
                                  UnpublishProject, MayUnpublishProject, Closed, Tables, ProjectRow
        <4> QED BY <1>1, <4>1, <4>2, <4>3 DEF ProjectStep
      <3>2. FinishProject(p)
        BY <1>0, <3>1 DEF FinishProject, Tables
      <3>3. \A a \in Allocations : allocation[a].project = p =>
                /\ allocation[a].status # "active"
                /\ \A r \in Requests : request[r].allocation = a =>
                       request[r].status \notin OpenFinancialStatuses
        BY <3>2 DEF FinishProject, MayFinishProject, OpenRequests
      <3> QED BY <1>0, <2>1, <3>3, QuietByRowLater
    <2> QED BY <2>2, <2>3
  <1>2. CASE DonationStep \/ AllocationStep \/ RequestStep \/ ExpenseStep
    <2>1. UNCHANGED project
      BY <1>2 DEF DonationStep, AllocationStep, RequestStep, ExpenseStep, CreateDonation,
           UpdateDonation, ReceiveDonation, AnnulDonation, DeleteDonation, CreateAllocation,
           UpdateAllocation, FinishAllocation, AnnulAllocation, DeleteAllocation, CreateRequest,
           UpdateRequest, WithdrawRequest, DenyRequest, ApproveRequest, FulfillRequest,
           AnnulRequest, CreateExpenseLegacy, UpdateExpense, AnnulExpense, ConfirmExpenseDeletion,
           DeleteExpense
    <2>2. Closed(p)
      BY <2>1 DEF Closed
    <2> QED BY <1>2, <2>1, <2>2, MoneyKeepsQuiet
  <1> QED BY <1>1, <1>2 DEF Next

\* ClosedProjectIsQuiet of Ledger: what finish_project checked stays true as long as the
\* project is closed, whatever is moved between projects and whatever a form saves.
THEOREM ClosedStaysQuiet == Spec => ClosedProjectIsQuiet
  <1>1. ASSUME TypeOK, ClosedIsPrivate, ClosedIsPrivate', [Next]_vars
        PROVE  [\A p \in Projects : Closed(p)' /\ (Closed(p) => Quiet(p)) =>
                    Quiet(p)' \/ (~Closed(p) /\ edit' # edit)]_vars
    BY <1>1, StepQuiet DEF KeepsQuiet
  <1> QED BY <1>1, AlwaysPrivate, TypeCorrect, PTL DEF Spec, ClosedProjectIsQuiet

==============================================================================
