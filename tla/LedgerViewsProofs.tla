--------------------------- MODULE LedgerViewsProofs ---------------------------
(***************************************************************************)
(* What is seen of Ledger, for any finite tables.  Custody: each           *)
(* transaction of the services is one of the ways in which it lets money   *)
(* move, or moves none.  The pages: what they offer and what their forms   *)
(* let through is what the services accept.  The figures: the amounts they *)
(* show add up to each other.                                              *)
(***************************************************************************)
EXTENDS LedgerProofs, LedgerCustody, LedgerPages, LedgerFigures

\* What the ledger has promised at any moment: the invariants every step relies on.
Kept ==
    TypeOK /\ ReferencesExist /\ DonationNotOverAllocated /\ AllocationNotOverExecuted
           /\ FundedByReceivedDonation /\ SettledRows /\ LifeInv

LEMMA KeptAlways == Spec => []Kept
  <1>1. Init => SettledRows
    BY DEF Init, SettledRows, OpenFinancialStatuses
  <1>2. TerminalAllocationIsSettled => SettledRows
    BY SettledByRow
  <1> QED
    BY <1>2, TypeCorrect, ReferencesCorrect, NoDonationOverAllocated, NoAllocationOverExecuted,
       AlwaysFunded, TerminalStaysSettled, LifeHolds, PTL DEF Kept

-------------------------------------------------------------------------------
(* Shares: what one row adds to a balance.                                 *)

ExpenseShare(e, a) ==
    IF expense[e].allocation = a /\ expense[e].status = "registered" THEN expense[e].amount ELSE 0

RequestShare(r, a) ==
    IF request[r].allocation = a /\ request[r].status = "approved_reserved"
      THEN request[r].reserved ELSE 0

\* A balance is what the other rows add to it, and the share of one row.
SharesSplit ==
    TypeOK =>
        /\ \A a \in Allocations, e \in Expenses :
              /\ ExpenseShare(e, a) \in Nat
              /\ Total(ExecutingExpenses(a) \ {e}, ExpenseAmounts) \in Nat
              /\ Executed(a) = Total(ExecutingExpenses(a) \ {e}, ExpenseAmounts)
                                  + ExpenseShare(e, a)
        /\ \A a \in Allocations, r \in Requests :
              /\ RequestShare(r, a) \in Nat
              /\ Total(ReservingRequests(a) \ {r}, ReservedAmounts) \in Nat
              /\ Reserved(a) = Total(ReservingRequests(a) \ {r}, ReservedAmounts)
                                  + RequestShare(r, a)

LEMMA Shares == SharesSplit
  <1> SUFFICES ASSUME TypeOK PROVE SharesSplit
    BY DEF SharesSplit
  <1>1. ASSUME NEW a \in Allocations, NEW e \in Expenses
        PROVE  /\ ExpenseShare(e, a) \in Nat
               /\ Total(ExecutingExpenses(a) \ {e}, ExpenseAmounts) \in Nat
               /\ Executed(a) = Total(ExecutingExpenses(a) \ {e}, ExpenseAmounts)
                                  + ExpenseShare(e, a)
    <2>1. ExpenseShare(e, a) \in Nat
      BY MaxMoneyAssumption DEF TypeOK, ExpenseRow, ExpenseShare, Money
    <2> QED
      BY <2>1, ExecutedWithout DEF ExpenseShare, ExecutingExpenses
  <1>2. ASSUME NEW a \in Allocations, NEW r \in Requests
        PROVE  /\ RequestShare(r, a) \in Nat
               /\ Total(ReservingRequests(a) \ {r}, ReservedAmounts) \in Nat
               /\ Reserved(a) = Total(ReservingRequests(a) \ {r}, ReservedAmounts)
                                  + RequestShare(r, a)
    <2> DEFINE rows == ReservingRequests(a)
    <2>1. RequestShare(r, a) \in Nat
      BY MaxMoneyAssumption DEF TypeOK, RequestRow, RequestShare, Money
    <2>2. IsFiniteSet(rows)
      BY BalancesAreNatural DEF NaturalBalances
    <2>3. Total(rows \ {r}, ReservedAmounts) \in Nat
      BY <2>2, FS_Subset, TotalType
    <2>4. ReservedAmounts[r] \in Money /\ ReservedAmounts[r] = request[r].reserved
      BY DEF TypeOK, RequestRow, ReservedAmounts
    <2>5. CASE r \in rows
      <3>1. Total(rows, ReservedAmounts) = Total(rows \ {r}, ReservedAmounts) + ReservedAmounts[r]
        BY <2>2, <2>4, <2>5, TotalSplit
      <3>2. RequestShare(r, a) = request[r].reserved
        BY <2>5 DEF RequestShare, ReservingRequests
      <3> QED BY <2>1, <2>3, <2>4, <3>1, <3>2 DEF Reserved
    <2>6. CASE r \notin rows
      <3>1. rows \ {r} = rows /\ RequestShare(r, a) = 0
        BY <2>6 DEF RequestShare, ReservingRequests
      <3> QED BY <2>3, <3>1 DEF Reserved
    <2> QED BY <2>5, <2>6
  <1> QED BY <1>1, <1>2 DEF SharesSplit

LEMMA SharesLater == SharesSplit'
  BY Shares, PTL

\* A step of one expense moves what is executed by its share.
LEMMA ExecutedMoves ==
    ASSUME TypeOK, TypeOK', NEW e \in Expenses, NEW a \in Allocations,
           \A x \in Expenses \ {e} : expense'[x] = expense[x]
    PROVE  Executed(a)' = Executed(a) - ExpenseShare(e, a) + ExpenseShare(e, a)'
  <1> DEFINE others == ExecutingExpenses(a) \ {e}
  <1>1. ExecutingExpenses(a)' \ {e} = others
    BY DEF ExecutingExpenses
  <1>2. \A x \in others : ExpenseAmounts[x] = ExpenseAmounts'[x]
    BY DEF ExpenseAmounts, ExecutingExpenses
  <1>3. Total(others, ExpenseAmounts) = Total(others, ExpenseAmounts')
    BY <1>2, TotalCongruence
  <1>4. /\ Total(others, ExpenseAmounts) \in Nat
        /\ ExpenseShare(e, a) \in Nat
        /\ Executed(a) = Total(others, ExpenseAmounts) + ExpenseShare(e, a)
    BY Shares DEF SharesSplit
  <1>5. /\ ExpenseShare(e, a)' \in Nat
        /\ Executed(a)' = Total(others, ExpenseAmounts') + ExpenseShare(e, a)'
    BY <1>1, SharesLater DEF SharesSplit
  <1> QED BY <1>3, <1>4, <1>5

\* A step of one request moves what is reserved by its share.
LEMMA ReservedMoves ==
    ASSUME TypeOK, TypeOK', NEW r \in Requests, NEW a \in Allocations,
           \A x \in Requests \ {r} : request'[x] = request[x]
    PROVE  Reserved(a)' = Reserved(a) - RequestShare(r, a) + RequestShare(r, a)'
  <1> DEFINE others == ReservingRequests(a) \ {r}
  <1>1. ReservingRequests(a)' \ {r} = others
    BY DEF ReservingRequests
  <1>2. \A x \in others : ReservedAmounts[x] = ReservedAmounts'[x]
    BY DEF ReservedAmounts, ReservingRequests
  <1>3. Total(others, ReservedAmounts) = Total(others, ReservedAmounts')
    BY <1>2, TotalCongruence
  <1>4. /\ Total(others, ReservedAmounts) \in Nat
        /\ RequestShare(r, a) \in Nat
        /\ Reserved(a) = Total(others, ReservedAmounts) + RequestShare(r, a)
    BY Shares DEF SharesSplit
  <1>5. /\ RequestShare(r, a)' \in Nat
        /\ Reserved(a)' = Total(others, ReservedAmounts') + RequestShare(r, a)'
    BY <1>1, SharesLater DEF SharesSplit
  <1> QED BY <1>3, <1>4, <1>5

-------------------------------------------------------------------------------
(* The refinement mapping.                                                 *)

LEMMA SameCardinality == \A S : Promise!Cardinality(S) = Cardinality(S)
  BY DEF Promise!Cardinality, Cardinality

LEMMA SameTotal == \A rows, amountOf : Promise!Total(rows, amountOf) = Total(rows, amountOf)
  <1>1. \A rows, amountOf : Promise!UnitsOf(rows, amountOf) = UnitsOf(rows, amountOf)
    BY DEF Promise!UnitsOf, Promise!Positive, UnitsOf, Positive
  <1> QED BY <1>1, SameCardinality DEF Promise!Total, Total

LEMMA HandedOutIsAssigned ==
    ASSUME NEW d \in Donations, NEW others \in SUBSET Allocations
    PROVE  Promise!HandedOut(d, others) = Total(AllocationsOf(d) \cap others, AllocationAmounts)
  <1> DEFINE held == [a \in Allocations |-> Contents(a).amount]
             rows == AllocationsOf(d) \cap others
  <1>1. {a \in others : Contents(a).fund = d} = rows
    BY LedgerAssumption DEF Contents, Holding, AllocationsOf
  <1>2. \A a \in rows : held[a] = AllocationAmounts[a]
    BY DEF Contents, Holding, AllocationsOf, AllocationAmounts
  <1>3. {a \in others : [b \in Allocations |-> Contents(b)][a].fund = d} = rows
    BY <1>1
  <1>4. [a \in Allocations |-> [b \in Allocations |-> Contents(b)][a].amount] = held
    OBVIOUS
  <1>5. Promise!HandedOut(d, others) = Total(rows, held)
    BY <1>3, <1>4, SameTotal DEF Promise!HandedOut
  <1> HIDE DEF held, rows
  <1>6. Total(rows, held) = Total(rows, AllocationAmounts)
    BY <1>2, TotalCongruence
  <1> QED BY <1>5, <1>6 DEF rows

\* What an envelope looks like after each kind of change.
Refilled(a, fund, amount) ==
    [fund |-> fund, amount |-> amount, aside |-> Reserved(a), spent |-> Executed(a)]

Moved(a, aside, spent) ==
    [fund |-> Contents(a).fund, amount |-> Contents(a).amount, aside |-> aside, spent |-> spent]

LEMMA EnvelopeFields ==
    ASSUME NEW a \in Allocations
    PROVE  /\ Contents(a).aside = Reserved(a) /\ Contents(a).spent = Executed(a)
           /\ Contents(a) = Moved(a, Reserved(a), Executed(a))
  BY DEF Contents, Moved

LEMMA EnvelopeChanges ==
    ASSUME NEW a \in Allocations
    PROVE  /\ \A f : [Contents(a) EXCEPT !.fund = f] = Refilled(a, f, Contents(a).amount)
           /\ \A n : [Contents(a) EXCEPT !.aside = n] = Moved(a, n, Executed(a))
           /\ \A n : [Contents(a) EXCEPT !.spent = n] = Moved(a, Reserved(a), n)
  BY DEF Contents, Moved, Refilled

\* A step of Custody, envelope by envelope.
LEMMA GiveStep ==
    ASSUME NEW d \in Donations, NEW m \in Money,
           Total(AllocationsOf(d), AllocationAmounts) <= m, Given(d)' = m,
           \A x \in Donations \ {d} : Given(x)' = Given(x),
           \A a \in Allocations : Contents(a)' = Contents(a)
    PROVE  Promise!Next
  <1>1. AllocationsOf(d) \cap Allocations = AllocationsOf(d)
    BY DEF AllocationsOf
  <1>2. Promise!HandedOut(d, Allocations) <= m
    BY <1>1, HandedOutIsAssigned
  <1>3. Promise!Give(d, m)
    BY <1>2 DEF Promise!Give
  <1>4. m \in Promise!Money
    BY DEF Promise!Money, Money
  <1> QED BY <1>3, <1>4 DEF Promise!Next

\* Everything but the envelope a stays as it is.
OnlyMoves(a) ==
    /\ \A d \in Donations : Given(d)' = Given(d)
    /\ \A b \in Allocations \ {a} : Contents(b)' = Contents(b)

LEMMA FillStep ==
    ASSUME NEW a \in Allocations, NEW d \in Donations, NEW m \in Money, OnlyMoves(a),
           Total(AllocationsOf(d) \ {a}, AllocationAmounts) + m <= Given(d),
           Executed(a) <= m,
           Contents(a)' = Refilled(a, d, m)
    PROVE  Promise!Next
  <1>1. AllocationsOf(d) \cap (Allocations \ {a}) = AllocationsOf(d) \ {a}
    BY DEF AllocationsOf
  <1>2. Promise!HandedOut(d, Allocations \ {a}) + m <= Given(d)
    BY <1>1, HandedOutIsAssigned
  <1>3. Contents(a).spent <= m
    BY DEF Contents
  <1>4. Contents(a)' = [Contents(a) EXCEPT !.fund = d, !.amount = m]
    <2>1. [Contents(a) EXCEPT !.fund = d] = Refilled(a, d, Contents(a).amount)
      BY EnvelopeChanges
    <2>2. [Refilled(a, d, Contents(a).amount) EXCEPT !.amount = m] = Refilled(a, d, m)
      BY DEF Refilled
    <2> QED BY <2>1, <2>2, Zenon
  <1>5. Promise!Fill(a, d, m)
    BY <1>2, <1>3, <1>4 DEF Promise!Fill, OnlyMoves
  <1>6. m \in Promise!Money
    BY DEF Promise!Money, Money
  <1> QED BY <1>5, <1>6 DEF Promise!Next

LEMMA EmptyStep ==
    ASSUME NEW a \in Allocations, OnlyMoves(a), Executed(a) = 0,
           Contents(a)' = Refilled(a, None, 0)
    PROVE  Promise!Next
  <1>1. Contents(a).spent = 0
    BY DEF Contents
  <1>2. Contents(a)' = [Contents(a) EXCEPT !.fund = None, !.amount = 0]
    <2>1. [Contents(a) EXCEPT !.fund = None] = Refilled(a, None, Contents(a).amount)
      BY EnvelopeChanges
    <2>2. [Refilled(a, None, Contents(a).amount) EXCEPT !.amount = 0] = Refilled(a, None, 0)
      BY DEF Refilled
    <2> QED BY <2>1, <2>2, Zenon
  <1>3. Promise!Empty(a)
    BY <1>1, <1>2 DEF Promise!Empty, OnlyMoves
  <1> QED BY <1>3 DEF Promise!Next

\* What Custody calls the money left in an envelope.
Free(a) == Contents(a).amount - Contents(a).aside - Contents(a).spent

LEMMA FreeIsLeft == \A a \in Allocations : Promise!Left(a) = Free(a)
  BY DEF Promise!Left, Free

LEMMA SetAsideStep ==
    ASSUME NEW a \in Allocations, NEW m \in Money, OnlyMoves(a), m <= Free(a),
           Contents(a)' = Moved(a, Contents(a).aside + m, Executed(a))
    PROVE  Promise!Next
  <1>1. Contents(a)' = [Contents(a) EXCEPT !.aside = @ + m]
    BY EnvelopeChanges, Zenon
  <1>2. Promise!SetAside(a, m)
    BY <1>1, FreeIsLeft DEF Promise!SetAside, OnlyMoves
  <1> QED BY <1>2 DEF Promise!Next, Promise!Money, Money

LEMMA PutBackStep ==
    ASSUME NEW a \in Allocations, NEW m \in Money, OnlyMoves(a), m <= Contents(a).aside,
           Contents(a)' = Moved(a, Contents(a).aside - m, Executed(a))
    PROVE  Promise!Next
  <1>1. Contents(a)' = [Contents(a) EXCEPT !.aside = @ - m]
    BY EnvelopeChanges, Zenon
  <1>2. Promise!PutBack(a, m)
    BY <1>1 DEF Promise!PutBack, OnlyMoves
  <1> QED BY <1>2 DEF Promise!Next, Promise!Money, Money

LEMMA SpendStep ==
    ASSUME NEW a \in Allocations, NEW m \in Money, OnlyMoves(a), m <= Free(a),
           Contents(a)' = Moved(a, Reserved(a), Contents(a).spent + m)
    PROVE  Promise!Next
  <1>1. Contents(a)' = [Contents(a) EXCEPT !.spent = @ + m]
    BY EnvelopeChanges, Zenon
  <1>2. Promise!Spend(a, m)
    BY <1>1, FreeIsLeft DEF Promise!Spend, OnlyMoves
  <1> QED BY <1>2 DEF Promise!Next, Promise!Money, Money

LEMMA SpendAsideStep ==
    ASSUME NEW a \in Allocations, NEW held \in Money, NEW m \in Money, OnlyMoves(a),
           m <= held, held <= Contents(a).aside, m <= Free(a) + held,
           Contents(a)' = Moved(a, Contents(a).aside - held, Contents(a).spent + m)
    PROVE  Promise!Next
  <1> DEFINE left  == Contents(a).aside - held
             spent == Contents(a).spent + m
  <1>1. Contents(a)' = [Contents(a) EXCEPT !.aside = @ - held, !.spent = @ + m]
    <2> HIDE DEF left, spent
    <2>1. [Contents(a) EXCEPT !.aside = left] = Moved(a, left, Executed(a))
      BY EnvelopeChanges
    <2>2. [Moved(a, left, Executed(a)) EXCEPT !.spent = spent] = Moved(a, left, spent)
      BY DEF Moved
    <2>3. Contents(a)' = [Contents(a) EXCEPT !.aside = left, !.spent = spent]
      <3>1. Contents(a)' = Moved(a, left, spent)
        BY DEF left, spent
      <3> QED BY <2>1, <2>2, <3>1, Zenon
    <2> QED BY <2>3 DEF left, spent
  <1>2. Promise!SpendAside(a, held, m)
    BY <1>1, FreeIsLeft DEF Promise!SpendAside, OnlyMoves
  <1> QED BY <1>2 DEF Promise!Next, Promise!Money, Money

LEMMA RefundStep ==
    ASSUME NEW a \in Allocations, NEW m \in Money, OnlyMoves(a), m <= Contents(a).spent,
           Contents(a)' = Moved(a, Reserved(a), Contents(a).spent - m)
    PROVE  Promise!Next
  <1>1. Contents(a)' = [Contents(a) EXCEPT !.spent = @ - m]
    BY EnvelopeChanges, Zenon
  <1>2. Promise!Refund(a, m)
    BY <1>1 DEF Promise!Refund, OnlyMoves
  <1> QED BY <1>2 DEF Promise!Next, Promise!Money, Money

LEMMA CorrectStep ==
    ASSUME NEW a \in Allocations, NEW m \in Money, NEW b \in Allocations, NEW n \in Money,
           \A d \in Donations : Given(d)' = Given(d),
           \A c \in Allocations \ {a, b} : Contents(c)' = Contents(c),
           m <= Contents(a).spent,
           n <= Free(b) + (IF a = b THEN m ELSE 0),
           IF a = b THEN Contents(a)' = Moved(a, Reserved(a), Contents(a).spent - m + n)
           ELSE /\ Contents(a)' = Moved(a, Reserved(a), Contents(a).spent - m)
                /\ Contents(b)' = Moved(b, Reserved(b), Contents(b).spent + n)
    PROVE  Promise!Next
  <1>1. IF a = b THEN Contents(a)' = [Contents(a) EXCEPT !.spent = @ - m + n]
        ELSE /\ Contents(a)' = [Contents(a) EXCEPT !.spent = @ - m]
             /\ Contents(b)' = [Contents(b) EXCEPT !.spent = @ + n]
    <2>1. CASE a = b
      BY <2>1, EnvelopeChanges, Zenon
    <2>2. CASE a # b
      <3>1. Contents(a)' = [Contents(a) EXCEPT !.spent = @ - m]
        BY <2>2, EnvelopeChanges, Zenon
      <3>2. Contents(b)' = [Contents(b) EXCEPT !.spent = @ + n]
        BY <2>2, EnvelopeChanges, Zenon
      <3> QED BY <2>2, <3>1, <3>2, Zenon
    <2> QED BY <2>1, <2>2
  <1>2. Promise!Correct(a, m, b, n)
    BY <1>1, FreeIsLeft DEF Promise!Correct
  <1> QED BY <1>2 DEF Promise!Next, Promise!Money, Money

LEMMA NothingMoves ==
    ASSUME \A d \in Donations : Given(d)' = Given(d),
           \A a \in Allocations : Contents(a)' = Contents(a)
    PROVE  UNCHANGED Promise!vars
  BY DEF Promise!vars

-------------------------------------------------------------------------------
(* The steps of the ledger.                                                *)

LEMMA DonationCustody ==
    ASSUME Kept, DonationStep
    PROVE  Promise!Next \/ UNCHANGED Promise!vars
  <1>1. Tables /\ 0 \in Money /\ Positive \subseteq Money
    BY TypedTables, MaxMoneyAssumption DEF Kept, Money, Positive
  <1>2. PICK d \in Donations :
            \/ \E m \in Positive : CreateDonation(d, m) \/ UpdateDonation(d, m)
            \/ ReceiveDonation(d) \/ AnnulDonation(d) \/ DeleteDonation(d)
    BY DEF DonationStep
  <1>3. UNCHANGED <<allocation, request, expense>>
    BY <1>2 DEF CreateDonation, UpdateDonation, ReceiveDonation, AnnulDonation, DeleteDonation
  <1>4. \A a \in Allocations : Contents(a)' = Contents(a)
    BY <1>3 DEF Contents, Holding, Reserved, ReservingRequests, ReservedAmounts, Executed,
                ExecutingExpenses, ExpenseAmounts
  <1>5. \A x \in Donations \ {d} : donation'[x] = donation[x]
    BY <1>1, <1>2 DEF CreateDonation, UpdateDonation, ReceiveDonation, AnnulDonation,
                      DeleteDonation, Tables
  <1>6. \A x \in Donations \ {d} : Given(x)' = Given(x)
    BY <1>5 DEF Given
  <1>7. ASSUME AllocationsOf(d) = {} PROVE Total(AllocationsOf(d), AllocationAmounts) = 0
    BY <1>7, TotalEmpty
  <1>8. ASSUME NEW m \in Positive, CreateDonation(d, m) PROVE Promise!Next
    <2>1. AllocationsOf(d) = {}
      BY <1>8 DEF CreateDonation, Kept, ReferencesExist, RowReferences, AllocationReferences,
                  AllocationsOf, HasRow, NoRow
    <2>2. Given(d)' = m
      BY <1>1, <1>8 DEF CreateDonation, Given, Tables
    <2>3. m \in Money /\ 0 <= m
      BY <1>1 DEF Positive
    <2> QED BY <1>4, <1>6, <1>7, <2>1, <2>2, <2>3, GiveStep
  <1>9. ASSUME NEW m \in Positive, UpdateDonation(d, m) PROVE Promise!Next
    <2>1. Given(d)' = m
      BY <1>1, <1>9 DEF UpdateDonation, MayUpdateDonation, Given, Tables, DonationRow
    <2>2. m \in Money /\ Total(AllocationsOf(d), AllocationAmounts) <= m
      BY <1>1, <1>9 DEF UpdateDonation, MayUpdateDonation, Assigned
    <2> QED BY <1>4, <1>6, <2>1, <2>2, GiveStep
  <1>10. ASSUME AnnulDonation(d) \/ DeleteDonation(d) PROVE Promise!Next
    <2>1. AllocationsOf(d) = {}
      BY <1>10 DEF AnnulDonation, MayAnnulDonation, DeleteDonation, AllocationsOf, HasRow, NoRow
    <2>2. Given(d)' = 0
      BY <1>1, <1>10 DEF AnnulDonation, DeleteDonation, Given, Tables, DonationRow
    <2> QED BY <1>1, <1>4, <1>6, <1>7, <2>1, <2>2, GiveStep
  <1>11. ASSUME ReceiveDonation(d) PROVE UNCHANGED Promise!vars
    <2>1. Given(d)' = Given(d)
      BY <1>1, <1>11 DEF ReceiveDonation, MayReceiveDonation, Given, Tables, DonationRow
    <2> QED BY <1>4, <1>6, <2>1, NothingMoves
  <1> QED BY <1>2, <1>8, <1>9, <1>10, <1>11

LEMMA AllocationCustody ==
    ASSUME Kept, AllocationStep
    PROVE  Promise!Next \/ UNCHANGED Promise!vars
  <1>1. Tables /\ Positive \subseteq Money
    BY TypedTables, MaxMoneyAssumption DEF Kept, Money, Positive
  <1>2. PICK a \in Allocations :
            \/ \E d \in Donations, p \in Projects, m \in Positive :
                   CreateAllocation(a, d, p, m) \/ UpdateAllocation(a, d, p, m)
            \/ FinishAllocation(a) \/ AnnulAllocation(a) \/ DeleteAllocation(a)
    BY DEF AllocationStep
  <1>3. UNCHANGED <<donation, request, expense>>
    BY <1>2 DEF CreateAllocation, UpdateAllocation, FinishAllocation, AnnulAllocation,
                DeleteAllocation
  <1>4. \A b \in Allocations : Reserved(b)' = Reserved(b) /\ Executed(b)' = Executed(b)
    BY <1>3 DEF Reserved, ReservingRequests, ReservedAmounts, Executed, ExecutingExpenses,
                ExpenseAmounts
  <1>5. \A b \in Allocations \ {a} : allocation'[b] = allocation[b]
    BY <1>1, <1>2 DEF CreateAllocation, UpdateAllocation, FinishAllocation, AnnulAllocation,
                      DeleteAllocation, Tables
  <1>6. OnlyMoves(a)
    BY <1>3, <1>4, <1>5 DEF OnlyMoves, Given, Contents, Holding
  <1>7. ASSUME ExecutingExpenses(a) = {} PROVE Executed(a) = 0
    BY <1>7, TotalEmpty DEF Executed
  <1>8. ASSUME NEW d \in Donations, NEW p \in Projects, NEW m \in Positive,
               CreateAllocation(a, d, p, m) \/ UpdateAllocation(a, d, p, m)
        PROVE  Promise!Next
    <2>1. allocation'[a] = [status |-> "active", amount |-> m, donation |-> d, project |-> p]
          /\ CanFund(d, p, m, a)
      BY <1>1, <1>8 DEF CreateAllocation, MayCreateAllocation, UpdateAllocation,
                        MayUpdateAllocation, Tables
    <2>2. Contents(a)' = Refilled(a, d, m)
      BY <1>4, <2>1 DEF Contents, Holding, Refilled
    <2>3. /\ m \in Money /\ m \in Nat
          /\ Total(AllocationsOf(d) \ {a}, AllocationAmounts) \in Nat
          /\ donation[d].amount \in Nat
      <3>1. IsFiniteSet(AllocationsOf(d) \ {a})
        BY BalancesAreNatural, FS_Subset DEF NaturalBalances
      <3> QED BY <1>1, <3>1, TotalType, MaxMoneyAssumption DEF Tables, DonationRow, Money, Positive
    <2>4. Total(AllocationsOf(d) \ {a}, AllocationAmounts) + m <= Given(d)
      BY <2>1, <2>3 DEF CanFund, Given
    <2>5. Executed(a) <= m
      <3>1. CASE CreateAllocation(a, d, p, m)
        <4>1. ExecutingExpenses(a) = {}
          BY <3>1 DEF CreateAllocation, MayCreateAllocation, Kept, ReferencesExist, RowReferences,
                      ExpenseReferences, ExecutingExpenses, HasRow, NoRow
        <4> QED BY <1>7, <2>3, <4>1
      <3>2. CASE UpdateAllocation(a, d, p, m)
        BY <3>2 DEF UpdateAllocation, MayUpdateAllocation
      <3> QED BY <1>8, <3>1, <3>2
    <2> QED BY <1>6, <2>2, <2>3, <2>4, <2>5, FillStep
  <1>9. ASSUME FinishAllocation(a) PROVE UNCHANGED Promise!vars
    <2>1. Contents(a)' = Contents(a)
      BY <1>1, <1>4, <1>9 DEF FinishAllocation, MayFinishAllocation, Editable, Contents, Holding,
                              Tables, AllocationRow
    <2> QED BY <1>6, <2>1, NothingMoves DEF OnlyMoves
  <1>10. ASSUME AnnulAllocation(a) \/ DeleteAllocation(a) PROVE Promise!Next
    <2>1. ExecutingExpenses(a) = {}
      BY <1>10 DEF AnnulAllocation, MayAnnulAllocation, DeleteAllocation, ExecutingExpenses
    <2>2. allocation'[a].status \in {"annulled", "deleted"}
      BY <1>1, <1>10 DEF AnnulAllocation, DeleteAllocation, Tables, AllocationRow
    <2>3. Contents(a)' = Refilled(a, None, 0)
      BY <1>4, <2>2 DEF Contents, Holding, Refilled
    <2> QED BY <1>6, <1>7, <2>1, <2>3, EmptyStep
  <1> QED BY <1>2, <1>8, <1>9, <1>10

\* One request moves: only what is set aside of its allocation can change.
LEMMA RequestMoves ==
    ASSUME Kept, TypeOK', NEW r \in Requests, UNCHANGED <<donation, allocation, expense>>,
           \A q \in Requests \ {r} : request'[q] = request[q]
    PROVE  /\ \A d \in Donations : Given(d)' = Given(d)
           /\ \A a \in Allocations :
                 /\ Reserved(a)' = Reserved(a) - RequestShare(r, a) + RequestShare(r, a)'
                 /\ RequestShare(r, a) \in Nat /\ Reserved(a) \in Nat
                 /\ Contents(a)' = Moved(a, Reserved(a)', Executed(a))
  <1>1. \A d \in Donations : Given(d)' = Given(d)
    BY DEF Given
  <1>2. ASSUME NEW a \in Allocations
        PROVE  /\ Reserved(a)' = Reserved(a) - RequestShare(r, a) + RequestShare(r, a)'
               /\ RequestShare(r, a) \in Nat /\ Reserved(a) \in Nat
               /\ Contents(a)' = Moved(a, Reserved(a)', Executed(a))
    <2>1. Reserved(a)' = Reserved(a) - RequestShare(r, a) + RequestShare(r, a)'
      BY ReservedMoves DEF Kept
    <2>2. RequestShare(r, a) \in Nat /\ Reserved(a) \in Nat
      BY Shares, BalancesAreNatural DEF SharesSplit, NaturalBalances, Kept
    <2>3. Executed(a)' = Executed(a)
      BY DEF Executed, ExecutingExpenses, ExpenseAmounts
    <2>4. Contents(a)' = Moved(a, Reserved(a)', Executed(a))
      BY <2>3 DEF Contents, Holding, Moved
    <2> QED BY <2>1, <2>2, <2>4
  <1> QED BY <1>1, <1>2

LEMMA RequestCustody ==
    ASSUME Kept, TypeOK', NEW r \in Requests,
           \/ \E a \in Allocations, m \in Positive :
                  CreateRequest(r, a, m) \/ UpdateRequest(r, a, m)
           \/ WithdrawRequest(r) \/ DenyRequest(r) \/ ApproveRequest(r) \/ AnnulRequest(r)
    PROVE  Promise!Next \/ UNCHANGED Promise!vars
  <1>1. Tables /\ LifeOf(r)
    BY TypedTables DEF Kept, LifeInv
  <1>2. /\ UNCHANGED <<donation, allocation, expense>>
        /\ \A q \in Requests \ {r} : request'[q] = request[q]
    BY <1>1 DEF CreateRequest, UpdateRequest, WithdrawRequest, DenyRequest, ApproveRequest,
                AnnulRequest, Tables
  <1>3. /\ \A d \in Donations : Given(d)' = Given(d)
        /\ \A a \in Allocations :
              /\ Reserved(a)' = Reserved(a) - RequestShare(r, a) + RequestShare(r, a)'
              /\ RequestShare(r, a) \in Nat /\ Reserved(a) \in Nat
              /\ Contents(a)' = Moved(a, Reserved(a)', Executed(a))
    BY <1>2, RequestMoves
  <1>4. ASSUME NEW a \in Allocations, RequestShare(r, a)' = RequestShare(r, a)
        PROVE  Contents(a)' = Contents(a)
    <2>1. Reserved(a)' = Reserved(a)
      BY <1>3, <1>4
    <2> QED BY <1>3, <2>1, EnvelopeFields
  <1>5. ASSUME request[r].status # "approved_reserved", request'[r].status # "approved_reserved"
        PROVE  UNCHANGED Promise!vars
    <2>1. \A a \in Allocations : RequestShare(r, a)' = RequestShare(r, a)
      BY <1>5 DEF RequestShare
    <2> QED BY <1>3, <1>4, <2>1, NothingMoves
  <1>6. ASSUME NEW a \in Allocations, NEW m \in Positive,
               CreateRequest(r, a, m) \/ UpdateRequest(r, a, m)
        PROVE  UNCHANGED Promise!vars
    <2>1. request[r].status # "approved_reserved" /\ request'[r].status # "approved_reserved"
      BY <1>1, <1>6 DEF CreateRequest, MayCreateRequest, UpdateRequest, MayUpdateRequest, Tables,
                        RequestRow
    <2> QED BY <1>5, <2>1
  <1>7. ASSUME WithdrawRequest(r) \/ DenyRequest(r) PROVE UNCHANGED Promise!vars
    <2>1. request[r].status # "approved_reserved" /\ request'[r].status # "approved_reserved"
      BY <1>1, <1>7 DEF WithdrawRequest, MayWithdrawRequest, DenyRequest, Tables, RequestRow
    <2> QED BY <1>5, <2>1
  <1>8. ASSUME request[r].status # "absent"
        PROVE  request[r].allocation \in Allocations
    BY <1>1, <1>8 DEF Kept, ReferencesExist, RowReferences, RequestReferences, HasRow, NoRow,
                      Tables, RequestRow, RequestStatus
  <1>9. ASSUME NEW b \in Allocations, request[r].allocation = b, request'[r].allocation = b
        PROVE  OnlyMoves(b)
    <2>1. \A a \in Allocations \ {b} : RequestShare(r, a)' = RequestShare(r, a)
      BY <1>9 DEF RequestShare
    <2> QED BY <1>3, <1>4, <2>1 DEF OnlyMoves
  <1>10. ASSUME ApproveRequest(r) PROVE Promise!Next
    <2>1. request[r].status = "pending_decision"
      BY <1>10 DEF ApproveRequest, MayApproveRequest
    <2>2. PICK b \in Allocations : b = request[r].allocation
      BY <1>8, <2>1
    <2>3. PICK m \in Money : m = request[r].requested
      BY <1>1 DEF Tables, RequestRow
    <2>4. /\ request'[r].status = "approved_reserved"
          /\ request'[r].reserved = m /\ request'[r].allocation = b
          /\ allocation[b].status = "active"
          /\ m <= Available(b)
      BY <1>1, <1>10, <2>2, <2>3 DEF ApproveRequest, MayApproveRequest, AcceptsRequests, Editable,
                                     Tables, RequestRow
    <2>5. m \in Nat /\ m # 0
      BY <1>1, <2>1, <2>3, MaxMoneyAssumption DEF Money, LifeOf
    <2>6. RequestShare(r, b) = 0 /\ RequestShare(r, b)' = m
      BY <2>1, <2>4 DEF RequestShare
    <2>7. Contents(b)' = Moved(b, Contents(b).aside + m, Executed(b))
      BY <1>3, <2>5, <2>6, EnvelopeFields
    <2>8. allocation[b].amount \in Nat /\ Reserved(b) \in Nat /\ Executed(b) \in Nat
      BY <1>1, BalancesAreNatural, MaxMoneyAssumption
      DEF Tables, AllocationRow, Money, NaturalBalances
    <2>9. m <= Unreserved(b)
      BY <2>4, <2>5, <2>8 DEF Available, Clamp, Unreserved
    <2>10. Free(b) = Unreserved(b)
      BY <2>4, <2>8 DEF Free, Contents, Holding, Unreserved
    <2> QED BY <1>9, <2>2, <2>4, <2>7, <2>9, <2>10, SetAsideStep
  <1>11. ASSUME AnnulRequest(r) PROVE Promise!Next \/ UNCHANGED Promise!vars
    <2>1. /\ request[r].status \in OpenFinancialStatuses
          /\ request'[r].status = "annulled"
          /\ request'[r].allocation = request[r].allocation
      BY <1>1, <1>11 DEF AnnulRequest, MayAnnulRequest, Tables, RequestRow
    <2>2. CASE request[r].status # "approved_reserved"
      BY <1>5, <2>1, <2>2
    <2>3. CASE request[r].status = "approved_reserved"
      <3>1. PICK b \in Allocations : b = request[r].allocation
        BY <1>8, <2>3
      <3>2. PICK m \in Money : m = request[r].reserved
        BY <1>1 DEF Tables, RequestRow
      <3>3. m \in Nat
        BY MaxMoneyAssumption DEF Money
      <3>4. RequestShare(r, b) = m /\ RequestShare(r, b)' = 0
        BY <2>1, <2>3, <3>1, <3>2 DEF RequestShare
      <3>5. m <= Reserved(b)
        BY <2>3, <3>1, <3>2, ReservationCounts DEF Kept
      <3>6. Contents(b)' = Moved(b, Contents(b).aside - m, Executed(b)) /\ m <= Contents(b).aside
        BY <1>3, <3>3, <3>4, <3>5, EnvelopeFields
      <3> QED BY <1>9, <2>1, <3>1, <3>6, PutBackStep
    <2> QED BY <2>2, <2>3
  <1> QED BY <1>6, <1>7, <1>10, <1>11

\* What is left of an envelope that holds money is the unclamped balance of the services.
LEMMA FreeIsUnreserved ==
    ASSUME Tables, NEW a \in Allocations, Holding(a)
    PROVE  /\ Free(a) = Unreserved(a)
           /\ Free(a) \in Int /\ Reserved(a) \in Nat /\ Executed(a) \in Nat
  <1>1. allocation[a].amount \in Nat /\ Reserved(a) \in Nat /\ Executed(a) \in Nat
    BY BalancesAreNatural, MaxMoneyAssumption DEF Tables, AllocationRow, Money, NaturalBalances
  <1> QED BY <1>1 DEF Free, Contents, Unreserved

LEMMA FulfillCustody ==
    ASSUME Kept, TypeOK', NEW r \in Requests, NEW e \in Expenses, NEW m \in Positive,
           FulfillRequest(r, e, m)
    PROVE  Promise!Next
  <1>1. Tables
    BY TypedTables DEF Kept
  <1>2. PICK b \in Allocations : b = request[r].allocation
    BY <1>1 DEF FulfillRequest, MayFulfillRequest, Kept, ReferencesExist, RowReferences,
                RequestReferences, HasRow, NoRow, Tables, RequestRow
  <1>3. PICK held \in Money : held = request[r].reserved
    BY <1>1 DEF Tables, RequestRow
  <1>4. m \in Money /\ m \in Nat /\ held \in Nat
    BY MaxMoneyAssumption DEF Money, Positive
  <1>5. /\ request[r].status = "approved_reserved" /\ expense[e].status = "absent"
        /\ allocation[b].status = "active"
        /\ m <= held /\ m <= Unreserved(b) + held
        /\ UNCHANGED <<donation, allocation>>
    BY <1>2, <1>3 DEF FulfillRequest, MayFulfillRequest, AcceptsRequests, Editable
  <1>6. /\ \A q \in Requests \ {r} : request'[q] = request[q]
        /\ \A x \in Expenses \ {e} : expense'[x] = expense[x]
        /\ request'[r].status = "fulfilled"
        /\ expense'[e] = [status |-> "registered", amount |-> m, allocation |-> b]
    BY <1>1, <1>2 DEF FulfillRequest, Tables, RequestRow
  <1>7. ASSUME NEW a \in Allocations
        PROVE  /\ Reserved(a)' = Reserved(a) - RequestShare(r, a) + RequestShare(r, a)'
               /\ Executed(a)' = Executed(a) - ExpenseShare(e, a) + ExpenseShare(e, a)'
               /\ Reserved(a) \in Nat /\ Executed(a) \in Nat
    BY <1>6, ReservedMoves, ExecutedMoves, BalancesAreNatural DEF Kept, NaturalBalances
  <1>8. ASSUME NEW a \in Allocations
        PROVE  Contents(a)' = Moved(a, Reserved(a)', Executed(a)')
    BY <1>5 DEF Contents, Holding, Moved
  <1>9. OnlyMoves(b)
    <2>1. ASSUME NEW a \in Allocations \ {b} PROVE Contents(a)' = Contents(a)
      <3>1. RequestShare(r, a) = 0 /\ RequestShare(r, a)' = 0
        BY <1>2, <1>6 DEF RequestShare
      <3>2. ExpenseShare(e, a) = 0 /\ ExpenseShare(e, a)' = 0
        BY <1>5, <1>6 DEF ExpenseShare
      <3>3. Reserved(a)' = Reserved(a) /\ Executed(a)' = Executed(a)
        BY <1>7, <3>1, <3>2
      <3> QED BY <1>8, <3>3, EnvelopeFields
    <2> QED BY <1>5, <2>1 DEF OnlyMoves, Given
  <1>10. /\ RequestShare(r, b) = held /\ RequestShare(r, b)' = 0
         /\ ExpenseShare(e, b) = 0 /\ ExpenseShare(e, b)' = m
    BY <1>2, <1>3, <1>5, <1>6 DEF RequestShare, ExpenseShare
  <1>11. held <= Reserved(b)
    BY <1>2, <1>3, <1>5, ReservationCounts DEF Kept
  <1>12. Contents(b)' = Moved(b, Contents(b).aside - held, Contents(b).spent + m)
    <2>1. Reserved(b)' = Reserved(b) - held /\ Executed(b)' = Executed(b) + m
      BY <1>4, <1>7, <1>10
    <2> QED BY <1>8, <2>1, EnvelopeFields
  <1>13. m <= Free(b) + held /\ held <= Contents(b).aside
    BY <1>1, <1>5, <1>11, FreeIsUnreserved, EnvelopeFields DEF Holding
  <1> QED BY <1>4, <1>5, <1>9, <1>12, <1>13, SpendAsideStep

\* One expense moves: only what is spent of allocations can change.
LEMMA ExpenseMoves ==
    ASSUME Kept, TypeOK', NEW e \in Expenses, UNCHANGED <<donation, allocation, request>>,
           \A x \in Expenses \ {e} : expense'[x] = expense[x]
    PROVE  /\ \A d \in Donations : Given(d)' = Given(d)
           /\ \A a \in Allocations :
                 /\ Executed(a)' = Executed(a) - ExpenseShare(e, a) + ExpenseShare(e, a)'
                 /\ ExpenseShare(e, a) \in Nat /\ Executed(a) \in Nat
                 /\ ExpenseShare(e, a) <= Executed(a)
                 /\ Contents(a)' = Moved(a, Reserved(a), Executed(a)')
  <1>1. \A d \in Donations : Given(d)' = Given(d)
    BY DEF Given
  <1>2. ASSUME NEW a \in Allocations
        PROVE  /\ Executed(a)' = Executed(a) - ExpenseShare(e, a) + ExpenseShare(e, a)'
               /\ ExpenseShare(e, a) \in Nat /\ Executed(a) \in Nat
               /\ ExpenseShare(e, a) <= Executed(a)
               /\ Contents(a)' = Moved(a, Reserved(a), Executed(a)')
    <2>1. Executed(a)' = Executed(a) - ExpenseShare(e, a) + ExpenseShare(e, a)'
      BY ExecutedMoves DEF Kept
    <2>2. ExpenseShare(e, a) \in Nat /\ Executed(a) \in Nat /\ ExpenseShare(e, a) <= Executed(a)
      <3>1. PICK rest \in Nat :
                ExpenseShare(e, a) \in Nat /\ Executed(a) = rest + ExpenseShare(e, a)
        BY Shares DEF SharesSplit, Kept
      <3> QED BY <3>1
    <2>3. Reserved(a)' = Reserved(a)
      BY DEF Reserved, ReservingRequests, ReservedAmounts
    <2>4. Contents(a)' = Moved(a, Reserved(a), Executed(a)')
      BY <2>3 DEF Contents, Holding, Moved
    <2> QED BY <2>1, <2>2, <2>4
  <1> QED BY <1>1, <1>2

LEMMA UpdateExpenseCustody ==
    ASSUME Kept, TypeOK', NEW e \in Expenses, NEW a \in Allocations, NEW m \in Positive,
           UpdateExpense(e, a, m)
    PROVE  Promise!Next
  <1>1. Tables
    BY TypedTables DEF Kept
  <1>2. PICK c \in Allocations : c = expense[e].allocation /\ Holding(c)
    <2>1. /\ expense[e].status = "registered" /\ expense[e].allocation \in Allocations
          /\ HasRow(allocation[expense[e].allocation])
      BY DEF UpdateExpense, MayUpdateExpense, Kept, ReferencesExist, RowReferences,
             ExpenseReferences, HasRow, NoRow
    <2>2. allocation[expense[e].allocation].status # "annulled"
      BY <2>1 DEF Kept, SettledRows
    <2>3. allocation[expense[e].allocation].status \in AllocationStatus
      BY <1>1, <2>1 DEF Tables, AllocationRow
    <2> QED BY <2>1, <2>2, <2>3 DEF Holding, HasRow, NoRow, AllocationStatus
  <1>3. PICK k \in Money : k = expense[e].amount
    BY <1>1 DEF Tables, ExpenseRow
  <1>4. m \in Money /\ m \in Nat /\ k \in Nat
    BY MaxMoneyAssumption DEF Money, Positive
  <1>5. Holding(a)
    <2>1. CASE a = c
      BY <1>2, <2>1
    <2>2. CASE a # c
      BY <1>2, <2>2 DEF UpdateExpense, MayUpdateExpense, EligibleForReassignment, Holding
    <2> QED BY <2>1, <2>2
  <1>6. /\ UNCHANGED <<donation, allocation, request>>
        /\ \A x \in Expenses \ {e} : expense'[x] = expense[x]
        /\ expense[e].status = "registered"
        /\ expense'[e].status = "registered" /\ expense'[e].amount = m
        /\ expense'[e].allocation = a
    BY <1>1 DEF UpdateExpense, MayUpdateExpense, Tables, ExpenseRow
  <1>7. m <= Unreserved(a) + (IF c = a THEN k ELSE 0)
    BY <1>2, <1>3 DEF UpdateExpense, MayUpdateExpense
  <1>8. /\ \A d \in Donations : Given(d)' = Given(d)
        /\ \A b \in Allocations :
              /\ Executed(b)' = Executed(b) - ExpenseShare(e, b) + ExpenseShare(e, b)'
              /\ ExpenseShare(e, b) \in Nat /\ Executed(b) \in Nat
              /\ ExpenseShare(e, b) <= Executed(b)
              /\ Contents(b)' = Moved(b, Reserved(b), Executed(b)')
    BY <1>6, ExpenseMoves
  <1>9. \A b \in Allocations :
            /\ ExpenseShare(e, b)  = IF b = c THEN k ELSE 0
            /\ ExpenseShare(e, b)' = IF b = a THEN m ELSE 0
    BY <1>2, <1>3, <1>6 DEF ExpenseShare
  <1>10. \A b \in Allocations \ {c, a} : Contents(b)' = Contents(b)
    BY <1>8, <1>9, EnvelopeFields
  <1>11. k <= Contents(c).spent
    BY <1>8, <1>9, EnvelopeFields
  <1>12. m <= Free(a) + (IF c = a THEN k ELSE 0)
    BY <1>1, <1>5, <1>7, FreeIsUnreserved
  <1>13. IF c = a THEN Contents(c)' = Moved(c, Reserved(c), Contents(c).spent - k + m)
         ELSE /\ Contents(c)' = Moved(c, Reserved(c), Contents(c).spent - k)
              /\ Contents(a)' = Moved(a, Reserved(a), Contents(a).spent + m)
    <2>1. CASE c = a
      <3>1. Executed(c)' = Contents(c).spent - k + m
        BY <1>8, <1>9, <2>1, EnvelopeFields
      <3> QED BY <1>8, <2>1, <3>1
    <2>2. CASE c # a
      <3>1. Executed(c)' = Contents(c).spent - k /\ Executed(a)' = Contents(a).spent + m
        BY <1>4, <1>8, <1>9, <2>2, EnvelopeFields
      <3> QED BY <1>8, <2>2, <3>1
    <2> QED BY <2>1, <2>2
  <1> QED BY <1>4, <1>8, <1>10, <1>11, <1>12, <1>13, CorrectStep

LEMMA ExpenseCustody ==
    ASSUME Kept, TypeOK', NEW e \in Expenses,
           \/ \E a \in Allocations, m \in Positive : CreateExpenseLegacy(e, a, m)
           \/ AnnulExpense(e) \/ DeleteExpense(e)
    PROVE  Promise!Next \/ UNCHANGED Promise!vars
  <1>1. Tables
    BY TypedTables DEF Kept
  <1>2. /\ UNCHANGED <<donation, allocation, request>>
        /\ \A x \in Expenses \ {e} : expense'[x] = expense[x]
    BY <1>1 DEF CreateExpenseLegacy, AnnulExpense, DeleteExpense, Tables
  <1>3. /\ \A d \in Donations : Given(d)' = Given(d)
        /\ \A b \in Allocations :
              /\ Executed(b)' = Executed(b) - ExpenseShare(e, b) + ExpenseShare(e, b)'
              /\ ExpenseShare(e, b) \in Nat /\ Executed(b) \in Nat
              /\ ExpenseShare(e, b) <= Executed(b)
              /\ Contents(b)' = Moved(b, Reserved(b), Executed(b)')
    BY <1>2, ExpenseMoves
  <1>4. ASSUME NEW b \in Allocations, ExpenseShare(e, b)' = ExpenseShare(e, b)
        PROVE  Contents(b)' = Contents(b)
    <2>1. Executed(b)' = Executed(b)
      BY <1>3, <1>4
    <2> QED BY <1>3, <2>1, EnvelopeFields
  <1>5. ASSUME NEW a \in Allocations, NEW m \in Positive, CreateExpenseLegacy(e, a, m)
        PROVE  Promise!Next
    <2>1. /\ expense[e].status = "absent" /\ Holding(a) /\ m <= Unreserved(a)
          /\ expense'[e] = [status |-> "registered", amount |-> m, allocation |-> a]
      BY <1>1, <1>5 DEF CreateExpenseLegacy, MayCreateExpenseLegacy, Editable, Holding, Tables
    <2>2. \A b \in Allocations :
              /\ ExpenseShare(e, b)  = 0
              /\ ExpenseShare(e, b)' = IF b = a THEN m ELSE 0
      BY <2>1 DEF ExpenseShare
    <2>3. m \in Money /\ m \in Nat
      BY MaxMoneyAssumption DEF Money, Positive
    <2>4. OnlyMoves(a)
      BY <1>3, <1>4, <2>2 DEF OnlyMoves
    <2>5. Executed(a)' = Contents(a).spent + m
      BY <1>3, <2>2, <2>3, EnvelopeFields
    <2>6. m <= Free(a)
      BY <1>1, <2>1, FreeIsUnreserved
    <2> QED BY <1>3, <2>3, <2>4, <2>5, <2>6, SpendStep
  <1>6. ASSUME \A b \in Allocations : ExpenseShare(e, b)' = 0
        PROVE  Promise!Next \/ UNCHANGED Promise!vars
    <2>1. CASE expense[e].status = "registered"
      <3>1. PICK c \in Allocations : c = expense[e].allocation
        BY <2>1 DEF Kept, ReferencesExist, RowReferences, ExpenseReferences, HasRow, NoRow
      <3>2. PICK k \in Money : k = expense[e].amount
        BY <1>1 DEF Tables, ExpenseRow
      <3>3. \A b \in Allocations : ExpenseShare(e, b) = IF b = c THEN k ELSE 0
        BY <2>1, <3>1, <3>2 DEF ExpenseShare
      <3>4. OnlyMoves(c)
        BY <1>3, <1>4, <1>6, <3>3 DEF OnlyMoves
      <3>5. k <= Contents(c).spent /\ Executed(c)' = Contents(c).spent - k
        BY <1>3, <1>6, <3>3, EnvelopeFields
      <3> QED BY <1>3, <3>4, <3>5, RefundStep
    <2>2. CASE expense[e].status # "registered"
      <3>1. \A b \in Allocations : ExpenseShare(e, b) = 0
        BY <2>2 DEF ExpenseShare
      <3> QED BY <1>3, <1>4, <1>6, <3>1, NothingMoves
    <2> QED BY <2>1, <2>2
  <1>7. ASSUME AnnulExpense(e) PROVE Promise!Next \/ UNCHANGED Promise!vars
    <2>1. expense'[e].status = "annulled"
      BY <1>1, <1>7 DEF AnnulExpense, Tables, ExpenseRow
    <2> QED BY <1>6, <2>1 DEF ExpenseShare
  <1>8. ASSUME DeleteExpense(e) PROVE Promise!Next \/ UNCHANGED Promise!vars
    <2>1. CASE expense' = expense
      <3>1. \A b \in Allocations : ExpenseShare(e, b)' = ExpenseShare(e, b)
        BY <2>1 DEF ExpenseShare
      <3> QED BY <1>3, <1>4, <3>1, NothingMoves
    <2>2. CASE expense' # expense
      <3>1. expense'[e].status = "deleted"
        BY <1>1, <1>8, <2>2 DEF DeleteExpense, Tables, ExpenseRow
      <3> QED BY <1>6, <3>1 DEF ExpenseShare
    <2> QED BY <2>1, <2>2
  <1> QED BY <1>5, <1>7, <1>8

LEMMA RestCustody ==
    ASSUME UNCHANGED <<donation, allocation, request, expense>>
    PROVE  UNCHANGED Promise!vars
  <1>1. \A d \in Donations : Given(d)' = Given(d)
    BY DEF Given
  <1>2. \A a \in Allocations : Contents(a)' = Contents(a)
    BY DEF Contents, Holding, Reserved, ReservingRequests, ReservedAmounts, Executed,
           ExecutingExpenses, ExpenseAmounts
  <1> QED BY <1>1, <1>2, NothingMoves

LEMMA StepCustody ==
    ASSUME Kept, TypeOK', [Next]_vars
    PROVE  [Promise!Next]_(Promise!vars)
  <1>1. CASE DonationStep
    BY <1>1, DonationCustody
  <1>2. CASE AllocationStep
    BY <1>2, AllocationCustody
  <1>3. CASE RequestStep
    <2>1. PICK r \in Requests :
              \/ \E a \in Allocations, m \in Positive :
                     CreateRequest(r, a, m) \/ UpdateRequest(r, a, m)
              \/ WithdrawRequest(r) \/ DenyRequest(r) \/ ApproveRequest(r)
              \/ \E e \in Expenses, m \in Positive : FulfillRequest(r, e, m)
              \/ AnnulRequest(r)
      BY <1>3 DEF RequestStep
    <2>2. CASE \E e \in Expenses, m \in Positive : FulfillRequest(r, e, m)
      BY <2>2, FulfillCustody
    <2> QED BY <2>1, <2>2, RequestCustody
  <1>4. CASE ExpenseStep
    <2>1. PICK e \in Expenses :
              \/ \E a \in Allocations, m \in Positive :
                     CreateExpenseLegacy(e, a, m) \/ UpdateExpense(e, a, m)
              \/ AnnulExpense(e) \/ ConfirmExpenseDeletion(e) \/ DeleteExpense(e)
      BY <1>4 DEF ExpenseStep
    <2>2. CASE \E a \in Allocations, m \in Positive : UpdateExpense(e, a, m)
      BY <2>2, UpdateExpenseCustody
    <2>3. CASE ConfirmExpenseDeletion(e)
      BY <2>3, RestCustody DEF ConfirmExpenseDeletion
    <2> QED BY <2>1, <2>2, <2>3, ExpenseCustody
  <1>5. CASE ProjectStep \/ EditStep \/ UNCHANGED vars
    <2>1. UNCHANGED <<donation, allocation, request, expense>>
      BY <1>5 DEF ProjectStep, EditStep, vars, CreateProject, PublishProject, UnpublishProject,
                  FinishProject, CheckProjectEdit, LoadProjectEdit, SaveProjectEdit, EndProjectEdit
    <2> QED BY <2>1, RestCustody
  <1> QED BY <1>1, <1>2, <1>3, <1>4, <1>5 DEF Next

LEMMA InitCustody == Init => Promise!Init
  <1> SUFFICES ASSUME Init PROVE Promise!Init
    OBVIOUS
  <1>1. \A d \in Donations : Given(d) = 0
    BY DEF Init, Given
  <1>2. ASSUME NEW a \in Allocations
        PROVE  Contents(a) = [fund |-> None, amount |-> 0, aside |-> 0, spent |-> 0]
    <2>1. ReservingRequests(a) = {} /\ ExecutingExpenses(a) = {}
      BY DEF Init, ReservingRequests, ExecutingExpenses
    <2>2. Reserved(a) = 0 /\ Executed(a) = 0
      BY <2>1, TotalEmpty DEF Reserved, Executed
    <2> QED BY <2>2 DEF Init, Contents, Holding
  <1> QED BY <1>1, <1>2 DEF Promise!Init, Promise!Nothing

\* KeepsCustody of LedgerCustody: whatever the services, the delete views and the project edits
\* do to donations, allocations, requests and expenses, money moves only as Custody allows.
THEOREM LedgerKeepsCustody == Spec => KeepsCustody
  <1>1. Kept /\ TypeOK' /\ [Next]_vars => [Promise!Next]_(Promise!vars)
    BY StepCustody
  <1> QED BY <1>1, InitCustody, KeptAlways, TypeCorrect, PTL DEF Spec, KeepsCustody, Promise!Spec

-------------------------------------------------------------------------------
(* Reservations stay covered.                                              *)

\* ReservationsStayCovered of one step and one allocation.
StaysCovered(a) ==
    Unreserved(a) >= 0 /\ allocation'[a].amount >= allocation[a].amount => Unreserved(a)' >= 0

\* An allocation whose rows add no more to its balances than before.
LEMMA CoveredWhenLighter ==
    ASSUME Tables, Tables', NEW a \in Allocations,
           Reserved(a)' + Executed(a)' <= Reserved(a) + Executed(a)
    PROVE  StaysCovered(a)
  <1>1. /\ allocation[a].amount \in Nat /\ allocation'[a].amount \in Nat
        /\ Reserved(a) \in Nat /\ Executed(a) \in Nat
        /\ Reserved(a)' \in Nat /\ Executed(a)' \in Nat
    BY BalancesAreNatural, BalancesStayNatural, MaxMoneyAssumption
    DEF Tables, AllocationRow, Money, NaturalBalances
  <1> QED BY <1>1 DEF StaysCovered, Unreserved

\* An allocation whose rows add at most what was left of it.
LEMMA CoveredWhenLeft ==
    ASSUME Tables, NEW a \in Allocations, UNCHANGED allocation, NEW m \in Nat,
           Reserved(a)' + Executed(a)' <= Reserved(a) + Executed(a) + m, m <= Unreserved(a)
    PROVE  StaysCovered(a)
  <1>1. /\ allocation[a].amount \in Nat /\ Reserved(a) \in Nat /\ Executed(a) \in Nat
        /\ Reserved(a)' \in Nat /\ Executed(a)' \in Nat
    BY BalancesAreNatural, BalancesStayNatural, MaxMoneyAssumption
    DEF Tables, AllocationRow, Money, NaturalBalances
  <1> QED BY <1>1 DEF StaysCovered, Unreserved

LEMMA RequestCovered ==
    ASSUME Kept, Tables', TypeOK', NEW r \in Requests, NEW a \in Allocations,
           \/ \E b \in Allocations, m \in Positive :
                  CreateRequest(r, b, m) \/ UpdateRequest(r, b, m)
           \/ WithdrawRequest(r) \/ DenyRequest(r) \/ ApproveRequest(r) \/ AnnulRequest(r)
    PROVE  StaysCovered(a)
  <1>1. Tables /\ LifeOf(r)
    BY TypedTables DEF Kept, LifeInv
  <1>2. /\ UNCHANGED <<donation, allocation, expense>>
        /\ \A q \in Requests \ {r} : request'[q] = request[q]
    BY <1>1 DEF CreateRequest, UpdateRequest, WithdrawRequest, DenyRequest, ApproveRequest,
                AnnulRequest, Tables
  <1>3. /\ Reserved(a)' = Reserved(a) - RequestShare(r, a) + RequestShare(r, a)'
        /\ RequestShare(r, a) \in Nat /\ Reserved(a) \in Nat /\ Executed(a) \in Nat
    BY <1>2, RequestMoves, BalancesAreNatural DEF NaturalBalances
  <1>4. Executed(a)' = Executed(a)
    BY <1>2 DEF Executed, ExecutingExpenses, ExpenseAmounts
  <1>5. CASE request'[r].status # "approved_reserved"
    <2>1. RequestShare(r, a)' = 0
      BY <1>5 DEF RequestShare
    <2> QED BY <1>1, <1>3, <1>4, <2>1, CoveredWhenLighter
  <1>6. CASE request'[r].status = "approved_reserved"
    <2>1. ApproveRequest(r)
      <3>1. ASSUME NEW b \in Allocations, NEW m \in Positive,
                   CreateRequest(r, b, m) \/ UpdateRequest(r, b, m)
            PROVE  FALSE
        BY <1>1, <1>6, <3>1 DEF CreateRequest, MayCreateRequest, UpdateRequest, MayUpdateRequest,
                                Tables, RequestRow
      <3>2. ~(WithdrawRequest(r) \/ DenyRequest(r) \/ AnnulRequest(r))
        BY <1>1, <1>6 DEF WithdrawRequest, DenyRequest, AnnulRequest, Tables, RequestRow
      <3> QED BY <3>1, <3>2
    <2>2. PICK m \in Money : m = request[r].requested
      BY <1>1 DEF Tables, RequestRow
    <2>3. /\ request[r].status = "pending_decision"
          /\ request'[r].reserved = m /\ request'[r].allocation = request[r].allocation
          /\ m <= Available(request[r].allocation)
      BY <1>1, <2>1, <2>2 DEF ApproveRequest, MayApproveRequest, Tables, RequestRow
    <2>4. m \in Nat /\ m # 0
      BY <1>1, <2>2, <2>3, MaxMoneyAssumption DEF Money, LifeOf
    <2>5. RequestShare(r, a) = 0
      BY <2>3 DEF RequestShare
    <2>6. CASE request[r].allocation = a
      <3>1. RequestShare(r, a)' = m
        BY <1>6, <2>3, <2>6 DEF RequestShare
      <3>2. allocation[a].amount \in Nat
        BY <1>1, MaxMoneyAssumption DEF Tables, AllocationRow, Money
      <3>3. m <= Unreserved(a)
        BY <1>3, <2>3, <2>4, <2>6, <3>2 DEF Available, Clamp, Unreserved
      <3> QED BY <1>1, <1>2, <1>3, <1>4, <2>4, <2>5, <3>1, <3>3, CoveredWhenLeft
    <2>7. CASE request[r].allocation # a
      <3>1. RequestShare(r, a)' = 0
        BY <2>3, <2>7 DEF RequestShare
      <3> QED BY <1>1, <1>3, <1>4, <2>5, <3>1, CoveredWhenLighter
    <2> QED BY <2>6, <2>7
  <1> QED BY <1>5, <1>6

LEMMA FulfillCovered ==
    ASSUME Kept, Tables', TypeOK', NEW r \in Requests, NEW e \in Expenses, NEW m \in Positive,
           NEW a \in Allocations, FulfillRequest(r, e, m)
    PROVE  StaysCovered(a)
  <1>1. Tables /\ m \in Nat
    BY TypedTables, MaxMoneyAssumption DEF Kept, Positive
  <1>2. PICK held \in Money : held = request[r].reserved
    BY <1>1 DEF Tables, RequestRow
  <1>3. /\ request[r].status = "approved_reserved" /\ expense[e].status = "absent"
        /\ m <= held /\ held \in Nat
        /\ \A q \in Requests \ {r} : request'[q] = request[q]
        /\ \A x \in Expenses \ {e} : expense'[x] = expense[x]
        /\ request'[r].status = "fulfilled"
        /\ expense'[e] = [status |-> "registered", amount |-> m,
                          allocation |-> request[r].allocation]
    BY <1>1, <1>2, MaxMoneyAssumption DEF FulfillRequest, MayFulfillRequest, Tables, RequestRow,
                                          Money
  <1>4. /\ Reserved(a)' = Reserved(a) - RequestShare(r, a) + RequestShare(r, a)'
        /\ Executed(a)' = Executed(a) - ExpenseShare(e, a) + ExpenseShare(e, a)'
        /\ Reserved(a) \in Nat /\ Executed(a) \in Nat
    BY <1>3, ReservedMoves, ExecutedMoves, BalancesAreNatural DEF Kept, NaturalBalances
  <1>5. /\ ExpenseShare(e, a) = 0 /\ RequestShare(r, a)' = 0
        /\ RequestShare(r, a) = IF request[r].allocation = a THEN held ELSE 0
        /\ ExpenseShare(e, a)' = IF request[r].allocation = a THEN m ELSE 0
    BY <1>2, <1>3 DEF ExpenseShare, RequestShare
  <1>6. Reserved(a)' + Executed(a)' <= Reserved(a) + Executed(a)
    BY <1>1, <1>3, <1>4, <1>5
  <1> QED BY <1>1, <1>6, CoveredWhenLighter

LEMMA ExpenseCovered ==
    ASSUME Kept, Tables', TypeOK', ExpenseStep, NEW a \in Allocations
    PROVE  StaysCovered(a)
  <1>1. Tables
    BY TypedTables DEF Kept
  <1>2. PICK e \in Expenses :
            \/ \E b \in Allocations, m \in Positive :
                   CreateExpenseLegacy(e, b, m) \/ UpdateExpense(e, b, m)
            \/ AnnulExpense(e) \/ ConfirmExpenseDeletion(e) \/ DeleteExpense(e)
    BY DEF ExpenseStep
  <1>3. /\ UNCHANGED <<donation, allocation, request>>
        /\ \A x \in Expenses \ {e} : expense'[x] = expense[x]
    BY <1>1, <1>2 DEF CreateExpenseLegacy, UpdateExpense, AnnulExpense, ConfirmExpenseDeletion,
                      DeleteExpense, Tables
  <1>4. /\ Executed(a)' = Executed(a) - ExpenseShare(e, a) + ExpenseShare(e, a)'
        /\ ExpenseShare(e, a) \in Nat /\ Executed(a) \in Nat /\ Reserved(a) \in Nat
    BY <1>3, ExpenseMoves, BalancesAreNatural DEF NaturalBalances
  <1>5. Reserved(a)' = Reserved(a)
    BY <1>3 DEF Reserved, ReservingRequests, ReservedAmounts
  <1>6. ASSUME ExpenseShare(e, a)' = 0 \/ ExpenseShare(e, a)' = ExpenseShare(e, a)
        PROVE  StaysCovered(a)
    BY <1>1, <1>4, <1>5, <1>6, CoveredWhenLighter
  <1>7. ASSUME NEW b \in Allocations, NEW m \in Positive,
               CreateExpenseLegacy(e, b, m) \/ UpdateExpense(e, b, m)
        PROVE  StaysCovered(a)
    <2>1. m \in Nat /\ allocation[a].amount \in Nat
      BY <1>1, MaxMoneyAssumption DEF Positive, Tables, AllocationRow, Money
    <2>2. /\ expense'[e].status = "registered" /\ expense'[e].amount = m
          /\ expense'[e].allocation = b
      BY <1>1, <1>7 DEF CreateExpenseLegacy, MayCreateExpenseLegacy, UpdateExpense,
                        MayUpdateExpense, Tables, ExpenseRow
    <2>3. CASE b = a
      <3>1. ExpenseShare(e, a)' = m
        BY <2>2, <2>3 DEF ExpenseShare
      <3>2. m <= Unreserved(a) + ExpenseShare(e, a)
        <4>1. CASE CreateExpenseLegacy(e, b, m)
          <5>1. m <= Unreserved(a) /\ ExpenseShare(e, a) = 0
            BY <2>3, <4>1 DEF CreateExpenseLegacy, MayCreateExpenseLegacy, ExpenseShare
          <5>2. Unreserved(a) \in Int
            BY <1>4, <2>1 DEF Unreserved
          <5> QED BY <2>1, <5>1, <5>2
        <4>2. CASE UpdateExpense(e, b, m)
          BY <2>3, <4>2 DEF UpdateExpense, MayUpdateExpense, ExpenseShare
        <4> QED BY <1>7, <4>1, <4>2
      <3>3. Unreserved(a)' = Unreserved(a) + ExpenseShare(e, a) - m
        BY <1>3, <1>4, <1>5, <2>1, <3>1 DEF Unreserved
      <3>4. Unreserved(a) \in Int
        BY <1>4, <2>1 DEF Unreserved
      <3> QED BY <1>4, <2>1, <3>2, <3>3, <3>4 DEF StaysCovered
    <2>4. CASE b # a
      <3>1. ExpenseShare(e, a)' = 0
        BY <2>2, <2>4 DEF ExpenseShare
      <3> QED BY <1>6, <3>1
    <2> QED BY <2>3, <2>4
  <1>8. ASSUME AnnulExpense(e) \/ ConfirmExpenseDeletion(e) \/ DeleteExpense(e)
        PROVE  StaysCovered(a)
    <2>1. expense'[e] = expense[e] \/ expense'[e].status # "registered"
      BY <1>1, <1>8 DEF AnnulExpense, ConfirmExpenseDeletion, DeleteExpense, Tables, ExpenseRow
    <2>2. ExpenseShare(e, a)' = 0 \/ ExpenseShare(e, a)' = ExpenseShare(e, a)
      BY <2>1 DEF ExpenseShare
    <2> QED BY <1>6, <2>2
  <1> QED BY <1>2, <1>7, <1>8

LEMMA StepCovered ==
    ASSUME Kept, TypeOK', [Next]_vars, NEW a \in Allocations
    PROVE  StaysCovered(a)
  <1>1. Tables /\ Tables'
    BY DEF Kept, TypeOK, Tables
  <1>2. CASE RequestStep
    <2>1. PICK r \in Requests :
              \/ \E b \in Allocations, m \in Positive :
                     CreateRequest(r, b, m) \/ UpdateRequest(r, b, m)
              \/ WithdrawRequest(r) \/ DenyRequest(r) \/ ApproveRequest(r)
              \/ \E e \in Expenses, m \in Positive : FulfillRequest(r, e, m)
              \/ AnnulRequest(r)
      BY <1>2 DEF RequestStep
    <2>2. CASE \E e \in Expenses, m \in Positive : FulfillRequest(r, e, m)
      BY <1>1, <2>2, FulfillCovered
    <2> QED BY <1>1, <2>1, <2>2, RequestCovered
  <1>3. CASE ExpenseStep
    BY <1>1, <1>3, ExpenseCovered
  <1>4. CASE DonationStep \/ ProjectStep \/ EditStep \/ AllocationStep \/ UNCHANGED vars
    <2>1. UNCHANGED <<request, expense>>
      BY <1>4 DEF DonationStep, ProjectStep, EditStep, AllocationStep, vars, CreateDonation,
                  UpdateDonation, ReceiveDonation, AnnulDonation, DeleteDonation, CreateProject,
                  PublishProject, UnpublishProject, FinishProject, CheckProjectEdit,
                  LoadProjectEdit, SaveProjectEdit, EndProjectEdit, CreateAllocation,
                  UpdateAllocation, FinishAllocation, AnnulAllocation, DeleteAllocation
    <2>2. Reserved(a)' = Reserved(a) /\ Executed(a)' = Executed(a)
      BY <2>1 DEF Reserved, ReservingRequests, ReservedAmounts, Executed, ExecutingExpenses,
                  ExpenseAmounts
    <2>3. Reserved(a) \in Nat /\ Executed(a) \in Nat
      BY BalancesAreNatural DEF NaturalBalances
    <2>4. Reserved(a)' + Executed(a)' <= Reserved(a) + Executed(a)
      BY <2>2, <2>3
    <2> QED BY <1>1, <2>4, CoveredWhenLighter
  <1> QED BY <1>2, <1>3, <1>4 DEF Next

\* ReservationsStayCovered of Ledger: only making an allocation smaller can leave its
\* reservations and expenses uncovered.
THEOREM CoverIsKept == Spec => ReservationsStayCovered
  <1>1. ASSUME Kept, TypeOK', [Next]_vars
        PROVE  [\A a \in Allocations :
                   /\ Unreserved(a) >= 0
                   /\ allocation'[a].amount >= allocation[a].amount
                   => Unreserved(a)' >= 0]_vars
    BY <1>1, StepCovered DEF StaysCovered
  <1> QED BY <1>1, KeptAlways, TypeCorrect, PTL DEF Spec, ReservationsStayCovered

-------------------------------------------------------------------------------
(***************************************************************************)
(* The pages.  Buttons and forms repeat the conditions of the services in  *)
(* other words; they agree because of what is always true of the rows.     *)
(***************************************************************************)

\* An allocation that works belongs to a project that works.  Only the save of a project
\* form could close the project under it.
WorksInActive ==
    \A a \in Allocations :
        allocation[a].status = "active" => project[allocation[a].project].status = "active"

LEMMA StepWorksInActive ==
    ASSUME Edits = {}, TypeOK, ReferencesExist, WorksInActive, [Next]_vars
    PROVE  WorksInActive'
  <1>1. Tables
    BY TypedTables
  <1>2. \A a \in Allocations :
            allocation[a].status = "active" => allocation[a].project \in Projects
    BY DEF ReferencesExist, RowReferences, AllocationReferences, HasRow, NoRow
  <1>3. CASE ProjectStep
    <2>1. PICK p \in Projects :
              CreateProject(p) \/ PublishProject(p) \/ UnpublishProject(p) \/ FinishProject(p)
      BY <1>3 DEF ProjectStep
    <2>2. UNCHANGED allocation
      BY <2>1 DEF CreateProject, PublishProject, UnpublishProject, FinishProject
    <2>3. CASE FinishProject(p)
      BY <1>1, <1>2, <2>2, <2>3
         DEF WorksInActive, FinishProject, MayFinishProject, Tables
    <2>4. CASE CreateProject(p) \/ PublishProject(p) \/ UnpublishProject(p)
      <3>1. \A q \in Projects : project[q].status = "active" => project'[q].status = "active"
        BY <1>1, <2>4 DEF CreateProject, PublishProject, UnpublishProject, Tables, ProjectRow
      <3> QED BY <1>2, <2>2, <3>1 DEF WorksInActive
    <2> QED BY <2>1, <2>3, <2>4
  <1>4. CASE AllocationStep
    <2>1. PICK a \in Allocations :
              \/ \E d \in Donations, p \in Projects, m \in Positive :
                     CreateAllocation(a, d, p, m) \/ UpdateAllocation(a, d, p, m)
              \/ FinishAllocation(a)
              \/ AnnulAllocation(a)
              \/ DeleteAllocation(a)
      BY <1>4 DEF AllocationStep
    <2>2. CASE \E d \in Donations, p \in Projects, m \in Positive :
                   CreateAllocation(a, d, p, m) \/ UpdateAllocation(a, d, p, m)
      <3>1. PICK d \in Donations, p \in Projects, m \in Positive :
                CreateAllocation(a, d, p, m) \/ UpdateAllocation(a, d, p, m)
        BY <2>2
      <3>2. /\ UNCHANGED project /\ project[p].status = "active"
            /\ allocation' = [allocation EXCEPT ![a] = [status |-> "active", amount |-> m,
                                                        donation |-> d, project |-> p]]
        BY <3>1 DEF CreateAllocation, UpdateAllocation, MayCreateAllocation,
                    MayUpdateAllocation, CanFund
      <3> QED BY <1>1, <3>2 DEF WorksInActive, Tables
    <2>3. CASE FinishAllocation(a) \/ AnnulAllocation(a) \/ DeleteAllocation(a)
      <3>1. /\ UNCHANGED project
            /\ \A b \in Allocations \ {a} : allocation'[b] = allocation[b]
            /\ allocation'[a].status # "active"
        BY <1>1, <2>3 DEF FinishAllocation, AnnulAllocation, DeleteAllocation, Tables,
                          AllocationRow
      <3> QED BY <3>1 DEF WorksInActive
    <2> QED BY <2>1, <2>2, <2>3
  <1>5. CASE DonationStep \/ RequestStep \/ ExpenseStep \/ UNCHANGED vars
    <2>1. UNCHANGED <<project, allocation>>
      BY <1>5 DEF DonationStep, RequestStep, ExpenseStep, vars, CreateDonation, UpdateDonation,
                  ReceiveDonation, AnnulDonation, DeleteDonation, CreateRequest, UpdateRequest,
                  WithdrawRequest, DenyRequest, ApproveRequest, FulfillRequest, AnnulRequest,
                  CreateExpenseLegacy, UpdateExpense, AnnulExpense, ConfirmExpenseDeletion,
                  DeleteExpense
    <2> QED BY <2>1 DEF WorksInActive
  <1>6. ~EditStep
    BY DEF EditStep
  <1> QED BY <1>3, <1>4, <1>5, <1>6 DEF Next

\* What is left of a donation when one of its allocations is left out.
LEMMA AssignedWithout ==
    ASSUME TypeOK, NEW d \in Donations, NEW a
    PROVE  LET others == Total(AllocationsOf(d) \ {a}, AllocationAmounts)
           IN  /\ others \in Nat
               /\ a \in AllocationsOf(d) =>
                      Assigned(d) = others + allocation[a].amount
               /\ a \notin AllocationsOf(d) => Assigned(d) = others
  <1>1. IsFiniteSet(AllocationsOf(d)) /\ IsFiniteSet(AllocationsOf(d) \ {a})
    BY BalancesAreNatural, FS_Subset DEF NaturalBalances
  <1>2. Total(AllocationsOf(d) \ {a}, AllocationAmounts) \in Nat
    BY <1>1, TotalType
  <1>3. ASSUME a \in AllocationsOf(d)
        PROVE  Assigned(d) = Total(AllocationsOf(d) \ {a}, AllocationAmounts)
                                 + allocation[a].amount
    <2>1. a \in Allocations /\ AllocationAmounts[a] = allocation[a].amount
      BY <1>3 DEF AllocationsOf, AllocationAmounts
    <2>2. AllocationAmounts[a] \in Money
      BY <2>1 DEF TypeOK, AllocationRow
    <2> QED BY <1>1, <1>3, <2>1, <2>2, TotalSplit DEF Assigned
  <1>4. a \notin AllocationsOf(d) => AllocationsOf(d) \ {a} = AllocationsOf(d)
    OBVIOUS
  <1> QED BY <1>2, <1>3, <1>4 DEF Assigned

\* The numbers and rows the pages compare.
LEMMA Amounts ==
    ASSUME Kept
    PROVE  /\ \A d \in Donations : donation[d].amount \in Nat /\ Assigned(d) \in Nat
           /\ \A a \in Allocations : allocation[a].amount \in Nat /\ Unreserved(a) \in Int
           /\ \A e \in Expenses : expense[e].amount \in Nat
           /\ \A r \in Requests : request[r].reserved \in Nat
  <1>1. /\ \A d \in Donations : donation[d].amount \in Nat
        /\ \A a \in Allocations : allocation[a].amount \in Nat
        /\ \A e \in Expenses : expense[e].amount \in Nat
        /\ \A r \in Requests : request[r].reserved \in Nat
    BY MaxMoneyAssumption
       DEF Kept, TypeOK, DonationRow, AllocationRow, ExpenseRow, RequestRow, Money
  <1>2. /\ \A d \in Donations : Assigned(d) \in Nat
        /\ \A a \in Allocations : Executed(a) \in Nat /\ Reserved(a) \in Nat
    BY BalancesAreNatural DEF NaturalBalances
  <1> QED BY <1>1, <1>2 DEF Unreserved

\* Page by page and form by form, given what the ledger keeps.
LEMMA DonationPages ==
    ASSUME Kept, NEW role, NEW d \in Donations, HasRow(donation[d])
    PROVE  /\ DonationOffersWork(role, d)
           /\ \A m \in Positive : DonationFormFits(d, m)
  <1>1. /\ donation[d].amount \in Nat /\ Assigned(d) \in Nat
        /\ Assigned(d) <= donation[d].amount
    BY Amounts DEF Kept, DonationNotOverAllocated
  <1>2. donation[d].status \in {"registered", "received", "annulled"}
    BY DEF Kept, TypeOK, DonationRow, DonationStatus, HasRow
  <1>3. Total(AllocationsOf(d) \ {None}, AllocationAmounts) = Assigned(d)
    <2>1. None \notin AllocationsOf(d)
      BY LedgerAssumption DEF AllocationsOf
    <2> QED BY <2>1, AssignedWithout DEF Kept
  <1>4. CanAllocate(role, d) =>
            \A p \in Projects : project[p].status = "active" => CanFund(d, p, 1, None)
    BY <1>1, <1>3 DEF CanAllocate, AvailableOf, CanFund
  <1>5. CanEditDonation(role, d) => MayUpdateDonation(d, donation[d].amount)
    BY <1>1, <1>2 DEF CanEditDonation, MayUpdateDonation
  <1>6. DonationOffersWork(role, d)
    BY <1>4, <1>5 DEF DonationOffersWork, CanReceive, MayReceiveDonation, CanAnnulDonation,
                      MayAnnulDonation
  <1>7. \A m \in Positive : DonationFormFits(d, m)
    BY <1>2 DEF DonationFormFits, CanEditDonation, DonationFormAccepts, MayUpdateDonation
  <1> QED BY <1>6, <1>7

LEMMA AllocationPages ==
    ASSUME Kept, WorksInActive, NEW role, NEW a \in Allocations, HasRow(allocation[a])
    PROVE  AllocationOffersWork(role, a)
  <1> DEFINE d == allocation[a].donation
             p == allocation[a].project
             others == Total(AllocationsOf(d) \ {a}, AllocationAmounts)
  <1>1. allocation[a].status \in {"active", "finished", "annulled"}
    BY DEF Kept, TypeOK, AllocationRow, AllocationStatus, HasRow
  <1>2. d \in Donations /\ p \in Projects /\ HasRow(donation[d])
    BY DEF Kept, ReferencesExist, RowReferences, AllocationReferences
  <1>3. ASSUME CanEditAllocation(role, a)
        PROVE  MayUpdateAllocation(a, d, p, allocation[a].amount)
    <2>1. allocation[a].status = "active"
      BY <1>1, <1>3 DEF CanEditAllocation
    <2>2. donation[d].status = "received" /\ project[p].status = "active"
      BY <2>1 DEF Kept, FundedByReceivedDonation, WorksInActive
    <2>3. a \in AllocationsOf(d)
      BY <2>1 DEF AllocationsOf
    <2>4. Assigned(d) = others + allocation[a].amount /\ others \in Nat
      BY <1>2, <2>3, AssignedWithout DEF Kept
    <2>5. Assigned(d) <= donation[d].amount /\ Executed(a) <= allocation[a].amount
      BY <1>2 DEF Kept, DonationNotOverAllocated, AllocationNotOverExecuted
    <2>6. donation[d].amount \in Nat /\ allocation[a].amount \in Nat
      BY <1>2, Amounts
    <2>7. allocation[a].amount <= donation[d].amount - others
      <3> HIDE DEF others, d
      <3> QED BY <2>4, <2>5, <2>6
    <2> QED BY <2>1, <2>2, <2>5, <2>7 DEF MayUpdateAllocation, Editable, CanFund
  <1>4. CanRequestFrom(role, a) => CanRequestFor(role, p) /\ AcceptsRequests(a)
    BY DEF CanRequestFrom, CanRequestFor, OffersBalance, AcceptsRequests, Editable, Closed
  <1>5. /\ CanFinishAllocation(role, a) <=>
               Holds(role, "change", "fundallocation") /\ MayFinishAllocation(a)
        /\ CanAnnulAllocation(role, a) <=>
               Holds(role, "change", "fundallocation") /\ MayAnnulAllocation(a)
    BY DEF CanFinishAllocation, MayFinishAllocation, CanAnnulAllocation, MayAnnulAllocation,
           Editable
  <1> QED BY <1>3, <1>4, <1>5 DEF AllocationOffersWork

LEMMA AllocationForms ==
    ASSUME Kept, WorksInActive, NEW d \in Donations, NEW p \in Projects, NEW m \in Positive,
           HasRow(donation[d])
    PROVE  AllocationFormFits(d, p, m)
  <1>1. /\ donation[d].amount \in Nat /\ Assigned(d) \in Nat /\ m \in Nat
        /\ Assigned(d) <= donation[d].amount
    BY Amounts, MaxMoneyAssumption DEF Kept, DonationNotOverAllocated, Positive
  <1>2. None \notin Allocations
    BY LedgerAssumption
  <1>3. AllocationFormAccepts(None, d, p, m) <=> CanFund(d, p, m, None)
    <2>1. Total(AllocationsOf(d) \ {None}, AllocationAmounts) = Assigned(d)
      BY <1>2, AssignedWithout DEF Kept, AllocationsOf
    <2>2. m <= Clamp(AvailableOf(d)) + 0 <=> m <= donation[d].amount - Assigned(d)
      BY <1>1 DEF Clamp, AvailableOf
    <2> QED BY <2>1, <2>2 DEF AllocationFormAccepts, CanFund
  <1>4. ASSUME NEW a \in Allocations, HasRow(allocation[a]), CanEditAllocation("admin", a)
        PROVE  AllocationFormAccepts(a, d, p, m) <=> CanFund(d, p, m, a)
    <2> DEFINE others == Total(AllocationsOf(d) \ {a}, AllocationAmounts)
               own == IF allocation[a].donation = d THEN allocation[a].amount ELSE 0
    <2>1. allocation[a].status = "active"
      BY <1>4 DEF CanEditAllocation, Kept, TypeOK, AllocationRow, AllocationStatus, HasRow
    <2>2. a \in AllocationsOf(d) <=> allocation[a].donation = d
      BY <2>1 DEF AllocationsOf
    <2>3. Assigned(d) = others + own /\ others \in Nat /\ own \in Nat
      BY <2>2, AssignedWithout, Amounts DEF Kept
    <2>4. m <= Clamp(donation[d].amount - Assigned(d)) + own <=> m <= donation[d].amount - others
      <3> HIDE DEF others, own
      <3> QED BY <1>1, <2>3 DEF Clamp
    <2>5. allocation[a].project = p => project[p].status = "active"
      BY <2>1 DEF WorksInActive
    <2>6. a # None
      BY <1>2
    <2> QED BY <2>4, <2>5, <2>6 DEF AllocationFormAccepts, AvailableOf, CanFund
  <1> QED BY <1>3, <1>4 DEF AllocationFormFits

LEMMA ProjectPages ==
    ASSUME Kept, NEW role, NEW p \in Projects, HasRow(project[p])
    PROVE  ProjectOffersWork(role, p)
  <1>1. project[p].status \in {"active", "closed"}
    BY DEF Kept, TypeOK, ProjectRow, ProjectStatus, HasRow, NoRow
  <1>2. CanFinishProject(role, p) <=> Holds(role, "change", "project") /\ MayFinishProject(p)
    BY DEF CanFinishProject, HasOpenFinancialWork, MayFinishProject
  <1> QED BY <1>1, <1>2 DEF ProjectOffersWork, CanEditProject, Closed, CanPublish, CanUnpublish,
                            MayPublishProject, MayUnpublishProject

LEMMA ExpensePages ==
    ASSUME Kept, NEW role, NEW e \in Expenses, HasRow(expense[e])
    PROVE  ExpenseOffersWork(role, e)
  <1>1. expense[e].status \in {"registered", "annulled"} /\ expense[e].allocation \in Allocations
    BY DEF Kept, TypeOK, ExpenseRow, ExpenseStatus, HasRow, ReferencesExist, RowReferences,
           ExpenseReferences
  <1>2. Unreserved(expense[e].allocation) \in Int /\ expense[e].amount \in Nat
    BY <1>1, Amounts
  <1>3. CanEditExpense(role, e) /\ Unreserved(expense[e].allocation) >= 0 =>
            MayUpdateExpense(e, expense[e].allocation, expense[e].amount)
    BY <1>1, <1>2 DEF CanEditExpense, MayUpdateExpense
  <1>4. \A r \in Requests : request[r].expense = e => request[r].status = "fulfilled"
    BY LedgerAssumption DEF Kept, LifeInv, LifeOf
  <1> QED BY <1>1, <1>3, <1>4 DEF ExpenseOffersWork, CanEditExpense, CanAnnulExpense,
                                  MayAnnulExpense, CanDeleteExpense, MayDeleteExpense

LEMMA ExpenseForms ==
    ASSUME Kept, NEW e \in Expenses, NEW a \in Allocations, NEW m \in Positive
    PROVE  ExpenseFormFits(e, a, m)
  <1>1. Unreserved(a) \in Int /\ expense[e].amount \in Nat /\ m \in Nat
    BY Amounts, MaxMoneyAssumption DEF Positive
  <1>2. /\ Unreserved(a) >= 0 => Available(a) = Unreserved(a)
        /\ Unreserved(a) <= Available(a) /\ Available(a) \in Nat
    BY <1>1 DEF Available, Clamp
  <1> QED BY <1>1, <1>2 DEF ExpenseFormFits, ExpenseFormAccepts, MayUpdateExpense

LEMMA RequestForms ==
    ASSUME Kept, NEW r \in Requests, NEW a \in Allocations, HasRow(allocation[a])
    PROVE  RequestFormFits(r, a)
  <1>1. project[allocation[a].project].status \in {"active", "closed"}
    BY DEF Kept, TypeOK, ProjectRow, ProjectStatus, ReferencesExist, RowReferences,
           AllocationReferences, HasRow, NoRow
  <1> QED BY <1>1 DEF RequestFormFits, RequestFormOffers, EligibleForReassignment,
                      MayUpdateRequest, AcceptsRequests, Editable, Closed

LEMMA FulfillmentForms ==
    ASSUME Kept, NEW r \in Requests, NEW e \in Expenses, NEW m \in Positive
    PROVE  FulfillmentFormFits(r, e, m)
  <1> SUFFICES ASSUME request[r].status = "approved_reserved", FulfillmentFormAccepts(r, m),
                      AcceptsRequests(request[r].allocation),
                      Unreserved(request[r].allocation) >= 0, expense[e].status = "absent"
               PROVE  MayFulfillRequest(r, e, m)
    BY DEF FulfillmentFormFits
  <1>1. request[r].allocation \in Allocations
    BY DEF Kept, ReferencesExist, RowReferences, RequestReferences, HasRow, NoRow
  <1>2. /\ Unreserved(request[r].allocation) \in Int /\ request[r].reserved \in Nat
        /\ m \in Nat /\ m <= request[r].reserved
    BY <1>1, Amounts, MaxMoneyAssumption DEF Positive, FulfillmentFormAccepts
  <1> DEFINE left == Unreserved(request[r].allocation)
             held == request[r].reserved
  <1>3. m <= left + held /\ Clamp(left + held - m) = Clamp(left) + (held - m)
    <2>1. left \in Int /\ left >= 0 /\ held \in Nat /\ m <= held
      BY <1>2
    <2> HIDE DEF left, held
    <2> QED BY <1>2, <2>1 DEF Clamp
  <1> QED BY <1>2, <1>3 DEF MayFulfillRequest, Consolidates, Available

LEMMA OffersFollow ==
    ASSUME Kept, WorksInActive
    PROVE  OffersWork
  <1>1. FormsFit
    BY DonationPages, AllocationForms, ExpenseForms, FulfillmentForms, RequestForms DEF FormsFit
  <1> QED BY <1>1, DonationPages, AllocationPages, ProjectPages, ExpensePages DEF OffersWork

\* The pages disagree with the services in one case only: a project form saved over a newer
\* row has closed a project that had an active allocation by then.
THEOREM OffersAgreeInActive == Spec => [](WorksInActive => OffersWork)
  <1>1. Kept => (WorksInActive => OffersWork)
    BY OffersFollow
  <1> QED BY <1>1, KeptAlways, PTL

\* OffersWork: what a role is offered can be done and the forms agree with the services, as
\* long as nobody saves a project form over the status the project has by then.
THEOREM OffersAgree ==
    ASSUME Edits = {}
    PROVE  Spec => []OffersWork
  <1>1. Init => WorksInActive
    BY DEF Init, WorksInActive
  <1>2. TypeOK /\ ReferencesExist /\ WorksInActive /\ [Next]_vars => WorksInActive'
    BY StepWorksInActive
  <1>3. Spec => []WorksInActive
    BY <1>1, <1>2, TypeCorrect, ReferencesCorrect, PTL DEF Spec
  <1> QED BY <1>3, KeptAlways, OffersFollow, PTL

-------------------------------------------------------------------------------
(***************************************************************************)
(* The figures.  A sum over all rows equals a sum of sums by owner (the    *)
(* donation of an allocation, the allocation of an expense).  No induction *)
(* is needed: sums are cardinalities, and bijections between the units of  *)
(* each owner make up one between all of them.                             *)
(***************************************************************************)

Class(X, f, i) == {x \in X : f[x] = i}

\* Two finite sets with as many elements in each class have as many elements.
LEMMA SameByClass ==
    ASSUME NEW X, NEW Y, NEW classes, NEW f \in [X -> classes], NEW g \in [Y -> classes],
           IsFiniteSet(X), IsFiniteSet(Y),
           \A i \in classes : Cardinality(Class(X, f, i)) = Cardinality(Class(Y, g, i))
    PROVE  Cardinality(X) = Cardinality(Y)
  <1> USE DEF Class
  <1> DEFINE In(i) == Class(X, f, i)
             Out(i) == Class(Y, g, i)
             pick == [i \in classes |-> CHOOSE b : b \in Bijection(In(i), Out(i))]
             glue == [x \in X |-> pick[f[x]][x]]
  <1>1. ASSUME NEW i \in classes PROVE pick[i] \in Bijection(In(i), Out(i))
    <2>1. IsFiniteSet(In(i)) /\ IsFiniteSet(Out(i))
      BY FS_Subset
    <2>2. ExistsBijection(In(i), Out(i))
      BY <2>1, FS_SameCardinalityBij
    <2> QED BY <2>2 DEF ExistsBijection
  <1>2. ASSUME NEW i \in classes
        PROVE  /\ pick[i] \in [In(i) -> Out(i)]
               /\ \A x, z \in In(i) : pick[i][x] = pick[i][z] => x = z
               /\ \A y \in Out(i) : \E x \in In(i) : pick[i][x] = y
    BY <1>1 DEF Bijection, Injection, IsInjective, Surjection
  <1> HIDE DEF pick
  <1>3. ASSUME NEW x \in X PROVE glue[x] \in Y /\ g[glue[x]] = f[x]
    <2>1. PICK i \in classes : i = f[x]
      OBVIOUS
    <2>2. x \in In(i)
      BY <2>1
    <2>3. pick[i][x] \in Out(i)
      <3>1. pick[i] \in [In(i) -> Out(i)]
        BY <1>2
      <3> HIDE DEF Class
      <3> QED BY ONLY <2>2, <3>1
    <2>4. glue[x] = pick[i][x]
      BY <2>1
    <2>5. glue[x] \in Out(i)
      BY ONLY <2>3, <2>4
    <2> QED BY ONLY <2>1, <2>5
  <1>4. ASSUME NEW x \in X, NEW z \in X, glue[x] = glue[z] PROVE x = z
    <2>1. f[x] = f[z]
      BY <1>3, <1>4
    <2>2. x \in In(f[x]) /\ z \in In(f[x])
      BY <2>1
    <2>3. pick[f[x]][x] = pick[f[x]][z]
      BY <1>4, <2>1
    <2> QED BY <1>2, <2>2, <2>3
  <1>5. ASSUME NEW y \in Y PROVE \E x \in X : glue[x] = y
    <2>1. y \in Out(g[y])
      OBVIOUS
    <2>2. PICK x \in In(g[y]) : pick[g[y]][x] = y
      BY <1>2, <2>1
    <2> QED BY <2>2
  <1>6. glue \in [X -> Y]
    BY <1>3
  <1> HIDE DEF glue
  <1>7. DOMAIN glue = X
    BY <1>6
  <1>8. glue \in Bijection(X, Y)
    BY <1>4, <1>5, <1>6, <1>7 DEF Bijection, Injection, IsInjective, Surjection
  <1>9. ExistsBijection(X, Y)
    BY <1>8 DEF ExistsBijection
  <1> QED BY <1>9, FS_Bijection

\* Each row belongs to an owner, and takes its amount from what the owner has.
SharedOut(owners, rows, ownerOf, amountOf, whole, rest) ==
    /\ IsFiniteSet(owners) /\ IsFiniteSet(rows)
    /\ \A x \in rows : ownerOf[x] \in owners
    /\ \A o \in owners :
           /\ whole[o] \in Money /\ rest[o] \in Nat
           /\ Total(Class(rows, ownerOf, o), amountOf) + rest[o] = whole[o]

\* What the owners have is what their rows take, and what that leaves each of them.
LEMMA TotalsByOwner ==
    ASSUME NEW owners, NEW rows, NEW ownerOf, NEW amountOf, NEW whole, NEW rest,
           SharedOut(owners, rows, ownerOf, amountOf, whole, rest)
    PROVE  /\ Total(owners, whole) = Total(rows, amountOf) + Total(owners, rest)
           /\ Total(rows, amountOf) <= Total(owners, whole)
           /\ Total(owners, whole) \in Nat /\ Total(rows, amountOf) \in Nat
           /\ Total(owners, rest) \in Nat
  <1> USE DEF SharedOut
  <1> DEFINE all == UnitsOf(owners, whole)
             left == UnitsOf(owners, rest)
             taken == all \ left
             units == UnitsOf(rows, amountOf)
             f == [unit \in taken |-> unit[1]]
             g == [unit \in units |-> ownerOf[unit[1]]]
  <1>1. /\ IsFiniteSet(all) /\ IsFiniteSet(left) /\ IsFiniteSet(units)
        /\ Total(owners, whole) \in Nat /\ Total(rows, amountOf) \in Nat
        /\ Total(owners, rest) \in Nat
    BY TotalType
  <1>2. IsFiniteSet(taken)
    BY <1>1, FS_Subset
  <1>3. f \in [taken -> owners] /\ g \in [units -> owners]
    BY DEF UnitsOf
  <1>4. ASSUME NEW o \in owners
        PROVE  Cardinality(Class(taken, f, o)) = Cardinality(Class(units, g, o))
    <2> DEFINE own == Class(rows, ownerOf, o)
    <2>1. Class(units, g, o) = UnitsOf(own, amountOf)
      BY DEF UnitsOf, Class
    <2>2. IsFiniteSet(own)
      BY FS_Subset DEF Class
    <2>3. Total(own, amountOf) \in Nat
      BY <2>2, TotalType
    <2>4. whole[o] \in Nat /\ whole[o] <= MaxMoney /\ rest[o] \in Nat /\ rest[o] <= whole[o]
      BY <2>3, MaxMoneyAssumption DEF Money
    <2>5. Class(taken, f, o) = {o} \X ((rest[o] + 1)..whole[o])
      BY <2>4, MaxMoneyAssumption DEF UnitsOf, Positive, Class
    <2>6. /\ IsFiniteSet((rest[o] + 1)..whole[o])
          /\ Cardinality((rest[o] + 1)..whole[o]) = whole[o] - rest[o]
      <3>1. rest[o] + 1 \in Int /\ whole[o] \in Int
        BY <2>4
      <3>2. /\ IsFiniteSet((rest[o] + 1)..whole[o])
            /\ Cardinality((rest[o] + 1)..whole[o])
                   = IF rest[o] + 1 > whole[o] THEN 0 ELSE whole[o] - (rest[o] + 1) + 1
        BY <3>1, FS_Interval
      <3> QED BY <2>4, <3>2
    <2>7. IsFiniteSet({o}) /\ Cardinality({o}) = 1
      BY FS_Singleton
    <2>8. Cardinality({o} \X ((rest[o] + 1)..whole[o])) = 1 * (whole[o] - rest[o])
      <3> DEFINE span == (rest[o] + 1)..whole[o]
      <3>1. IsFiniteSet(span) /\ Cardinality(span) = whole[o] - rest[o]
        BY <2>6
      <3> HIDE DEF span
      <3>2. Cardinality({o} \X span) = Cardinality({o}) * Cardinality(span)
        BY <2>7, <3>1, FS_Product
      <3>3. Cardinality({o} \X span) = 1 * (whole[o] - rest[o])
        BY <2>7, <3>1, <3>2
      <3> QED BY <3>3 DEF span
    <2>9. Total(own, amountOf) = whole[o] - rest[o]
      BY <2>3, <2>4
    <2> HIDE DEF taken, f, units, g
    <2>10. Cardinality(Class(taken, f, o)) = whole[o] - rest[o]
      BY <2>4, <2>5, <2>8
    <2>11. Cardinality(Class(units, g, o)) = whole[o] - rest[o]
      BY <2>1, <2>9 DEF Total
    <2> QED BY <2>10, <2>11
  <1>5. Cardinality(taken) = Cardinality(units)
    <2>1. IsFiniteSet(taken) /\ IsFiniteSet(units)
      BY <1>1, <1>2
    <2>2. \A i \in owners : Cardinality(Class(taken, f, i)) = Cardinality(Class(units, g, i))
      BY <1>4
    <2> HIDE DEF taken, units, f, g
    <2> QED BY ONLY <1>3, <2>1, <2>2, SameByClass
  <1>6. all \cap left = left
    <2>1. \A o \in owners : rest[o] <= whole[o] /\ rest[o] \in Nat /\ whole[o] \in Nat
      <3> TAKE o \in owners
      <3>1. IsFiniteSet(Class(rows, ownerOf, o))
        BY FS_Subset DEF Class
      <3>2. Total(Class(rows, ownerOf, o), amountOf) \in Nat
        BY <3>1, TotalType
      <3> QED BY <3>2, MaxMoneyAssumption DEF Money
    <2> QED BY <2>1, MaxMoneyAssumption DEF UnitsOf, Positive
  <1>7. Cardinality(taken) = Cardinality(all) - Cardinality(left)
    <2> HIDE DEF all, left
    <2>1. Cardinality(all \ left) = Cardinality(all) - Cardinality(all \cap left)
      BY <1>1, FS_Difference
    <2> QED BY <1>6, <2>1
  <1> QED BY <1>1, <1>5, <1>7 DEF Total

\* Where the rows that are counted belong, whatever filter counts them.
LEMMA CountedRows ==
    ASSUME Kept
    PROVE  /\ \A a \in Allocations : HasRow(allocation[a]) =>
                  /\ allocation[a].donation \in Donations /\ allocation[a].project \in Projects
                  /\ allocation[a].status \in {"active", "finished", "annulled"}
           /\ \A a \in Allocations : allocation[a].status \in {"active", "finished"} =>
                  /\ HasRow(allocation[a])
                  /\ donation[allocation[a].donation].status = "received"
           /\ \A e \in Expenses : expense[e].status = "registered" =>
                  /\ expense[e].allocation \in Allocations
                  /\ allocation[expense[e].allocation].status \in {"active", "finished"}
           /\ \A r \in Requests : request[r].status = "approved_reserved" =>
                  /\ request[r].allocation \in Allocations
                  /\ HasRow(allocation[request[r].allocation])
  <1>1. \A a \in Allocations : HasRow(allocation[a]) =>
            /\ allocation[a].donation \in Donations /\ allocation[a].project \in Projects
            /\ allocation[a].status \in {"active", "finished", "annulled"}
    BY DEF Kept, TypeOK, AllocationRow, AllocationStatus, ReferencesExist, RowReferences,
           AllocationReferences, HasRow
  <1>2. \A a \in Allocations : allocation[a].status \in {"active", "finished"} =>
            /\ HasRow(allocation[a])
            /\ donation[allocation[a].donation].status = "received"
    BY DEF Kept, FundedByReceivedDonation, HasRow, NoRow
  <1>3. ASSUME NEW e \in Expenses, expense[e].status = "registered"
        PROVE  /\ expense[e].allocation \in Allocations
               /\ allocation[expense[e].allocation].status \in {"active", "finished"}
    <2>1. expense[e].allocation \in Allocations /\ HasRow(allocation[expense[e].allocation])
      BY <1>3 DEF Kept, ReferencesExist, RowReferences, ExpenseReferences, HasRow, NoRow
    <2>2. allocation[expense[e].allocation].status # "annulled"
      BY <1>3, <2>1 DEF Kept, SettledRows
    <2> QED BY <1>1, <2>1, <2>2
  <1>4. \A r \in Requests : request[r].status = "approved_reserved" =>
            /\ request[r].allocation \in Allocations
            /\ HasRow(allocation[request[r].allocation])
    BY DEF Kept, ReferencesExist, RowReferences, RequestReferences, HasRow, NoRow
  <1> QED BY <1>1, <1>2, <1>3, <1>4

\* What is left of an allocation when its expenses are paid.
Unspent == [a \in Allocations |-> allocation[a].amount - Executed(a)]

\* Expenses counted with all the allocations they lie in fit into these.
LEMMA SpentFits ==
    ASSUME Kept, NEW owners \in SUBSET Allocations, NEW rows \in SUBSET Expenses,
           \A a \in owners : allocation[a].status \in {"active", "finished"},
           \A e \in Expenses :
               e \in rows <=> expense[e].status = "registered" /\ expense[e].allocation \in owners
    PROVE  /\ Total(owners, AllocationAmounts)
                  = Total(rows, ExpenseAmounts) + Total(owners, Unspent)
           /\ Total(rows, ExpenseAmounts) <= Total(owners, AllocationAmounts)
           /\ Total(owners, AllocationAmounts) \in Nat /\ Total(rows, ExpenseAmounts) \in Nat
           /\ Total(owners, Unspent) \in Nat
  <1> DEFINE ownerOf == [e \in Expenses |-> expense[e].allocation]
  <1>1. IsFiniteSet(owners) /\ IsFiniteSet(rows)
    BY LedgerAssumption, FS_Subset
  <1>2. \A e \in rows : ownerOf[e] \in owners
    OBVIOUS
  <1>3. ASSUME NEW a \in owners
        PROVE  /\ AllocationAmounts[a] \in Money /\ Unspent[a] \in Nat
               /\ Total(Class(rows, ownerOf, a), ExpenseAmounts) + Unspent[a]
                      = AllocationAmounts[a]
    <2>1. Class(rows, ownerOf, a) = ExecutingExpenses(a)
      BY DEF ExecutingExpenses, Class
    <2>2. allocation[a].amount \in Money /\ allocation[a].amount \in Nat
      BY MaxMoneyAssumption DEF Kept, TypeOK, AllocationRow, Money
    <2>3. Executed(a) \in Nat /\ Executed(a) <= allocation[a].amount
      BY BalancesAreNatural, CountedRows DEF NaturalBalances, Kept, AllocationNotOverExecuted
    <2>4. Total(Class(rows, ownerOf, a), ExpenseAmounts) = Executed(a)
      BY <2>1 DEF Executed
    <2> QED BY <2>2, <2>3, <2>4 DEF AllocationAmounts, Unspent
  <1> HIDE DEF ownerOf
  <1>4. SharedOut(owners, rows, ownerOf, ExpenseAmounts, AllocationAmounts, Unspent)
    BY <1>1, <1>2, <1>3 DEF SharedOut
  <1> QED BY ONLY <1>4, TotalsByOwner

DonationOf == [a \in Allocations |-> allocation[a].donation]

\* The allocations of received donations fit into these.
LEMMA AssignedFits ==
    ASSUME Kept, NEW owners \in SUBSET Donations, NEW rows \in SUBSET Allocations, NEW rest,
           \A a \in rows : allocation[a].donation \in owners,
           \A d \in owners :
               rest[d] = donation[d].amount
                             - Total(Class(rows, DonationOf, d), AllocationAmounts),
           \A d \in owners : donation[d].status = "received",
           \A a \in rows : allocation[a].status \in {"active", "finished"}
    PROVE  /\ Total(owners, DonationAmounts)
                  = Total(rows, AllocationAmounts) + Total(owners, rest)
           /\ Total(rows, AllocationAmounts) <= Total(owners, DonationAmounts)
           /\ Total(owners, DonationAmounts) \in Nat
           /\ Total(rows, AllocationAmounts) \in Nat
           /\ Total(owners, rest) \in Nat
  <1>1. IsFiniteSet(owners) /\ IsFiniteSet(rows)
    BY LedgerAssumption, FiguresAssumption, FS_Subset
  <1>2. \A a \in rows : DonationOf[a] \in owners
    BY DEF DonationOf
  <1>3. ASSUME NEW d \in owners
        PROVE  /\ DonationAmounts[d] \in Money /\ rest[d] \in Nat
               /\ Total(Class(rows, DonationOf, d), AllocationAmounts) + rest[d]
                      = DonationAmounts[d]
    <2> DEFINE own == Class(rows, DonationOf, d)
    <2>2. own \in SUBSET AllocationsOf(d)
      BY DEF AllocationsOf, Class, DonationOf
    <2>3. IsFiniteSet(AllocationsOf(d)) /\ Assigned(d) \in Nat
      BY BalancesAreNatural DEF NaturalBalances
    <2>4. IsFiniteSet(own) /\ Total(own, AllocationAmounts) \in Nat
      BY <2>2, <2>3, FS_Subset, TotalType
    <2>5. Total(own, AllocationAmounts) <= Assigned(d)
      <3> HIDE DEF own
      <3> QED BY <2>2, <2>3, TotalMonotone DEF Assigned
    <2>6. donation[d].amount \in Money /\ donation[d].amount \in Nat
      BY MaxMoneyAssumption DEF Kept, TypeOK, DonationRow, Money
    <2>7. Assigned(d) <= donation[d].amount
      BY DEF Kept, DonationNotOverAllocated, HasRow, NoRow
    <2>8. rest[d] = donation[d].amount - Total(own, AllocationAmounts)
      OBVIOUS
    <2> HIDE DEF own
    <2>9. /\ DonationAmounts[d] \in Money /\ rest[d] \in Nat
          /\ Total(own, AllocationAmounts) + rest[d] = DonationAmounts[d]
      BY <2>3, <2>4, <2>5, <2>6, <2>7, <2>8 DEF DonationAmounts
    <2> QED BY <2>9 DEF own
  <1>4. SharedOut(owners, rows, DonationOf, AllocationAmounts, DonationAmounts, rest)
    BY <1>1, <1>2, <1>3 DEF SharedOut
  <1> QED BY ONLY <1>4, TotalsByOwner

LEMMA FigureRows ==
    ASSUME Kept
    PROVE  RowsOfProjects
  <1>1. AllAllocations = UNION {ProjectAllocations(p) : p \in Projects}
    BY CountedRows DEF AllAllocations, ProjectAllocations
  <1>2. AllExpenses = UNION {ProjectExpenses(p) : p \in Projects}
    BY CountedRows DEF AllExpenses, ProjectExpenses
  <1> QED BY <1>1, <1>2 DEF RowsOfProjects

LEMMA FigureUnallocated ==
    ASSUME Kept
    PROVE  UnallocatedIsThere /\ TotalAssigned <= TotalReceived
           /\ TotalAssigned \in Nat /\ TotalReceived \in Nat
  <1>1. ASSUME NEW d \in ReceivedDonations
        PROVE  DonationBalances[d] = donation[d].amount
                   - Total(Class(AllAllocations, DonationOf, d), AllocationAmounts)
    <2>1. Class(AllAllocations, DonationOf, d) = AllocationsOf(d)
      BY DEF AllAllocations, AllocationsOf, Class, DonationOf
    <2>2. d \in Donations /\ donation[d].status = "received"
      BY DEF ReceivedDonations
    <2>3. Assigned(d) <= donation[d].amount
      BY <2>2 DEF Kept, DonationNotOverAllocated, HasRow, NoRow
    <2>4. Assigned(d) \in Nat /\ donation[d].amount \in Nat
      BY <2>2, Amounts
    <2>5. Clamp(donation[d].amount - Assigned(d)) = donation[d].amount - Assigned(d)
      BY <2>3, <2>4 DEF Clamp
    <2> QED BY <2>1, <2>2, <2>5 DEF DonationBalances, DonationBalance, Assigned
  <1>2. /\ ReceivedDonations \in SUBSET Donations /\ AllAllocations \in SUBSET Allocations
        /\ \A a \in AllAllocations : /\ allocation[a].donation \in ReceivedDonations
                                     /\ allocation[a].status \in {"active", "finished"}
        /\ \A d \in ReceivedDonations : donation[d].status = "received"
    BY CountedRows DEF ReceivedDonations, AllAllocations
  <1>3. /\ TotalReceived = TotalAssigned + Total(ReceivedDonations, DonationBalances)
        /\ TotalAssigned <= TotalReceived
        /\ TotalReceived \in Nat /\ TotalAssigned \in Nat
        /\ Total(ReceivedDonations, DonationBalances) \in Nat
    BY <1>1, <1>2, AssignedFits DEF TotalReceived, TotalAssigned
  <1> QED BY <1>3 DEF UnallocatedIsThere, Unallocated, Clamp

\* What no expense has taken is reserved or left.
LEMMA FigureProjects ==
    ASSUME Kept
    PROVE  ProjectsAddUp
  <1> SUFFICES ASSUME NEW p \in Projects, InBalance(p)
               PROVE  ProjectBalance(p) = Total(ProjectAllocations(p), AllocationBalances)
    BY DEF ProjectsAddUp
  <1> DEFINE owners == ProjectAllocations(p)
             holds == ProjectReservations(p)
             ownerOf == [r \in Requests |-> request[r].allocation]
  <1>1. Spent(p) \in Nat /\ Funded(p) \in Nat
        /\ Funded(p) = Spent(p) + Total(owners, Unspent)
    <2>1. /\ owners \in SUBSET Allocations /\ ProjectExpenses(p) \in SUBSET Expenses
          /\ \A a \in owners : allocation[a].status \in {"active", "finished"}
      BY DEF ProjectAllocations, ProjectExpenses
    <2>2. \A e \in Expenses :
              e \in ProjectExpenses(p)
                  <=> expense[e].status = "registered" /\ expense[e].allocation \in owners
      BY CountedRows DEF ProjectAllocations, ProjectExpenses
    <2> HIDE DEF owners
    <2>3. /\ Total(owners, AllocationAmounts)
                 = Total(ProjectExpenses(p), ExpenseAmounts) + Total(owners, Unspent)
          /\ Total(owners, AllocationAmounts) \in Nat
          /\ Total(ProjectExpenses(p), ExpenseAmounts) \in Nat
      BY <2>1, <2>2, SpentFits
    <2> QED BY <2>3 DEF Spent, Funded, owners
  <1>2. IsFiniteSet(owners) /\ IsFiniteSet(holds)
    BY LedgerAssumption, FS_Subset DEF ProjectAllocations, ProjectReservations
  <1>3. \A r \in holds : ownerOf[r] \in owners
    BY CountedRows DEF ProjectReservations, ProjectAllocations, InBalance
  <1>4. ASSUME NEW a \in owners
        PROVE  /\ Unspent[a] \in Money /\ AllocationBalances[a] \in Nat
               /\ Total(Class(holds, ownerOf, a), ReservedAmounts) + AllocationBalances[a]
                      = Unspent[a]
    <2>1. a \in Allocations /\ allocation[a].project = p
      BY DEF ProjectAllocations
    <2>2. Class(holds, ownerOf, a) = ReservingRequests(a)
      BY <2>1 DEF ReservingRequests, ProjectReservations, Class
    <2>3. Unreserved(a) >= 0
      BY DEF InBalance
    <2>4. Executed(a) \in Nat /\ Reserved(a) \in Nat
      BY <2>1, BalancesAreNatural DEF NaturalBalances
    <2>5. allocation[a].amount \in Nat /\ allocation[a].amount <= MaxMoney
      BY <2>1, MaxMoneyAssumption DEF Kept, TypeOK, AllocationRow, Money
    <2>6. Total(Class(holds, ownerOf, a), ReservedAmounts) = Reserved(a)
      BY <2>2 DEF Reserved
    <2>7. Unspent[a] = allocation[a].amount - Executed(a)
      BY <2>1 DEF Unspent
    <2>8. AllocationBalances[a] = Clamp(allocation[a].amount - Executed(a) - Reserved(a))
      BY <2>1 DEF AllocationBalances
    <2>9. AllocationBalances[a] = allocation[a].amount - Executed(a) - Reserved(a)
      BY <2>3, <2>4, <2>5, <2>8 DEF Clamp, Unreserved
    <2>10. Unspent[a] \in Money /\ AllocationBalances[a] \in Nat
      BY <2>3, <2>4, <2>5, <2>7, <2>9, MaxMoneyAssumption DEF Money, Unreserved
    <2>11. Reserved(a) + AllocationBalances[a] = Unspent[a]
      BY <2>4, <2>5, <2>7, <2>9
    <2> QED BY <2>6, <2>10, <2>11
  <1> HIDE DEF owners, holds, ownerOf
  <1>5. SharedOut(owners, holds, ownerOf, ReservedAmounts, Unspent, AllocationBalances)
    BY <1>2, <1>3, <1>4 DEF SharedOut
  <1>6. /\ Total(owners, Unspent)
               = Total(holds, ReservedAmounts) + Total(owners, AllocationBalances)
        /\ Total(holds, ReservedAmounts) \in Nat /\ Total(owners, AllocationBalances) \in Nat
        /\ Total(owners, Unspent) \in Nat
    BY ONLY <1>5, TotalsByOwner
  <1>7. Funded(p) - Spent(p) - SetAside(p) = Total(owners, AllocationBalances)
    BY <1>1, <1>6 DEF SetAside, holds
  <1>8. ProjectBalance(p) = Total(owners, AllocationBalances)
    BY <1>6, <1>7 DEF ProjectBalance, Clamp
  <1> QED BY <1>8 DEF owners

\* A part rounds to at most 1000 tenths of a percent of the whole.
LEMMA TenthsFit ==
    ASSUME NEW part \in Nat, NEW whole \in Nat, part <= whole, whole # 0
    PROVE  Tenths(part, whole) <= 1000 /\ Tenths(part, whole) \in Int
  <1> DEFINE top == 2000 * part + whole
             bottom == 2 * whole
             q == top \div bottom
  <1>1. top \in Nat /\ bottom \in Nat /\ bottom > 0
    OBVIOUS
  <1>2. top < 1001 * bottom
    OBVIOUS
  <1>3. q \in Int /\ bottom * q <= top
    <2> HIDE DEF top, bottom
    <2> QED BY <1>1
  <1>4. q <= 1000
    <2> HIDE DEF top, bottom, q
    <2> SUFFICES ASSUME q >= 1001 PROVE FALSE
      BY <1>3
    <2>1. bottom * q >= bottom * 1001
      BY <1>1, <1>3
    <2> QED BY <1>1, <1>2, <1>3, <2>1
  <1> QED BY <1>3, <1>4 DEF Tenths

LEMMA PartFits ==
    ASSUME NEW part \in Nat, NEW whole \in Nat, part <= whole
    PROVE  ShareFits(part, whole, Bar(part, whole))
  <1>1. CASE whole = 0
    BY <1>1 DEF ShareFits
  <1>2. CASE whole # 0
    <2>1. Tenths(part, whole) <= 1000 /\ Tenths(part, whole) \in Int
      BY <1>2, TenthsFit
    <2> QED BY <1>2, <2>1 DEF ShareFits, Bar
  <1> QED BY <1>1, <1>2

\* What all allocations, or those of one project, have spent.
LEMMA SpentFigures ==
    ASSUME Kept
    PROVE  /\ TotalSpent <= TotalAssigned /\ TotalSpent \in Nat /\ TotalAssigned \in Nat
           /\ \A p \in Projects : Spent(p) <= Funded(p) /\ Spent(p) \in Nat /\ Funded(p) \in Nat
  <1>1. TotalSpent <= TotalAssigned /\ TotalSpent \in Nat /\ TotalAssigned \in Nat
    <2>1. /\ AllAllocations \in SUBSET Allocations /\ AllExpenses \in SUBSET Expenses
          /\ \A a \in AllAllocations : allocation[a].status \in {"active", "finished"}
          /\ \A e \in Expenses :
                 e \in AllExpenses <=> /\ expense[e].status = "registered"
                                       /\ expense[e].allocation \in AllAllocations
      BY CountedRows DEF AllAllocations, AllExpenses
    <2> QED BY <2>1, SpentFits DEF TotalSpent, TotalAssigned
  <1>2. ASSUME NEW p \in Projects
        PROVE  Spent(p) <= Funded(p) /\ Spent(p) \in Nat /\ Funded(p) \in Nat
    <2>1. /\ ProjectAllocations(p) \in SUBSET Allocations
          /\ ProjectExpenses(p) \in SUBSET Expenses
          /\ \A a \in ProjectAllocations(p) : allocation[a].status \in {"active", "finished"}
          /\ \A e \in Expenses :
                 e \in ProjectExpenses(p) <=> /\ expense[e].status = "registered"
                                              /\ expense[e].allocation \in ProjectAllocations(p)
      BY CountedRows DEF ProjectAllocations, ProjectExpenses
    <2> QED BY <2>1, SpentFits DEF Spent, Funded
  <1> QED BY <1>1, <1>2

LEMMA FigureShares ==
    ASSUME Kept
    PROVE  SharesFit
  <1>1. ShareFits(TotalAssigned, TotalReceived, AssignmentBar)
    BY FigureUnallocated, PartFits DEF AssignmentBar
  <1>2. ShareFits(TotalSpent, TotalAssigned, ExecutionBar)
    BY SpentFigures, PartFits DEF ExecutionBar
  <1>3. \A p \in Projects : ShareFits(Spent(p), Funded(p), ProjectBar(p))
    BY SpentFigures, PartFits DEF ProjectBar
  <1> QED BY <1>1, <1>2, <1>3 DEF SharesFit

\* The rows the portal counts are rows the panel counts.
LEMMA PublicRows ==
    ASSUME Kept
    PROVE  /\ PublicAllocations \in SUBSET Allocations
           /\ PublicExpenses \in SUBSET Expenses
           /\ LinkedDonations \in SUBSET Donations
           /\ \A a \in PublicAllocations :
                  /\ allocation[a].status \in {"active", "finished"}
                  /\ allocation[a].donation \in LinkedDonations
           /\ \A d \in LinkedDonations : donation[d].status = "received"
           /\ \A e \in Expenses :
                  e \in PublicExpenses <=> /\ expense[e].status = "registered"
                                           /\ expense[e].allocation \in PublicAllocations
           /\ \A p \in Projects : Shown(p) =>
                  /\ PublicAllocationsOf(p) = ProjectAllocations(p)
                  /\ PublicExpensesOf(p) = ProjectExpenses(p)
  <1>1. /\ PublicAllocations \in SUBSET Allocations
        /\ PublicExpenses \in SUBSET Expenses
        /\ LinkedDonations \in SUBSET Donations
        /\ \A d \in LinkedDonations : donation[d].status = "received"
    BY DEF PublicAllocations, PublicExpenses, LinkedDonations, ReceivedDonations
  <1>2. \A a \in PublicAllocations : allocation[a].status \in {"active", "finished"}
    BY CountedRows DEF PublicAllocations
  <1>3. \A a \in PublicAllocations : allocation[a].donation \in LinkedDonations
    BY <1>2, CountedRows DEF PublicAllocations, LinkedDonations, ReceivedDonations
  <1>4. ASSUME NEW p \in Projects, Shown(p)
        PROVE  /\ PublicAllocationsOf(p) = ProjectAllocations(p)
               /\ PublicExpensesOf(p) = ProjectExpenses(p)
    <2>1. ASSUME NEW a \in ProjectAllocations(p) PROVE a \in PublicAllocations
      <3>1. /\ a \in Allocations /\ allocation[a].project = p
            /\ allocation[a].status \in {"active", "finished"}
        BY DEF ProjectAllocations
      <3>2. HasRow(allocation[a]) /\ donation[allocation[a].donation].status = "received"
        BY <3>1, CountedRows
      <3> QED BY <1>4, <3>1, <3>2 DEF PublicAllocations
    <2>2. PublicAllocationsOf(p) = ProjectAllocations(p)
      BY <1>1, <1>2, <2>1 DEF PublicAllocationsOf, ProjectAllocations
    <2>3. ASSUME NEW e \in ProjectExpenses(p)
          PROVE  e \in PublicExpenses /\ expense[e].allocation \in PublicAllocationsOf(p)
      <3>1. expense[e].allocation \in ProjectAllocations(p)
        BY CountedRows DEF ProjectExpenses, ProjectAllocations
      <3> QED BY <2>1, <2>2, <3>1 DEF PublicExpenses, ProjectExpenses
    <2>4. ASSUME NEW e \in PublicExpensesOf(p) PROVE e \in ProjectExpenses(p)
      BY <2>2 DEF PublicExpensesOf, PublicExpenses, ProjectExpenses, ProjectAllocations
    <2>5. PublicExpensesOf(p) = ProjectExpenses(p)
      BY <2>3, <2>4 DEF PublicExpensesOf
    <2> QED BY <2>2, <2>5
  <1> QED BY <1>1, <1>2, <1>3, <1>4 DEF PublicExpenses

LEMMA FigurePortal ==
    ASSUME Kept
    PROVE  PortalAgrees
  <1> DEFINE rest == [d \in Donations |->
                 donation[d].amount
                     - Total(Class(PublicAllocations, DonationOf, d), AllocationAmounts)]
  <1>1. \A d \in LinkedDonations :
            rest[d] = donation[d].amount
                          - Total(Class(PublicAllocations, DonationOf, d), AllocationAmounts)
    BY PublicRows
  <1> HIDE DEF rest
  <1>2. PublicAssigned <= PublicReceived
    <2>1. /\ PublicAllocations \in SUBSET Allocations /\ LinkedDonations \in SUBSET Donations
          /\ \A a \in PublicAllocations : /\ allocation[a].donation \in LinkedDonations
                                          /\ allocation[a].status \in {"active", "finished"}
          /\ \A d \in LinkedDonations : donation[d].status = "received"
      BY PublicRows
    <2>2. Total(PublicAllocations, AllocationAmounts) <= Total(LinkedDonations, DonationAmounts)
      BY <1>1, <2>1, AssignedFits
    <2> QED BY <2>2 DEF PublicAssigned, PublicReceived
  <1>3. PublicSpent <= PublicAssigned
    <2>1. /\ PublicAllocations \in SUBSET Allocations /\ PublicExpenses \in SUBSET Expenses
          /\ \A a \in PublicAllocations : allocation[a].status \in {"active", "finished"}
          /\ \A e \in Expenses :
                 e \in PublicExpenses <=> /\ expense[e].status = "registered"
                                          /\ expense[e].allocation \in PublicAllocations
      BY PublicRows
    <2>2. Total(PublicExpenses, ExpenseAmounts) <= Total(PublicAllocations, AllocationAmounts)
      BY <2>1, SpentFits
    <2> QED BY <2>2 DEF PublicSpent, PublicAssigned
  <1> QED BY <1>2, <1>3, PublicRows DEF PortalAgrees

\* Only an approval reserves, and an annulment that had something to release says so.
ReleaseRecorded(r) ==
    /\ request[r].status \in {"absent", "pending_decision"} => request[r].reserved = 0
    /\ request[r].status = "annulled" =>
           request[r].reserved = 0 \/ "RESERVATION_RELEASED" \in trail[r]

AllReleasesRecorded == \A r \in Requests : ReleaseRecorded(r)

\* Every other request keeps its row and its trail.
OthersAsBefore(r) == \A q \in Requests \ {r} : request'[q] = request[q] /\ trail'[q] = trail[q]

LEMMA ReleaseByRow ==
    ASSUME AllReleasesRecorded, NEW r \in Requests, OthersAsBefore(r), ReleaseRecorded(r)'
    PROVE  AllReleasesRecorded'
  BY DEF AllReleasesRecorded, ReleaseRecorded, OthersAsBefore

LEMMA StepReleases ==
    ASSUME TypeOK, AllReleasesRecorded, [Next]_vars
    PROVE  AllReleasesRecorded'
  <1>1. Tables
    BY TypedTables
  <1>2. \A r \in Requests : ReleaseRecorded(r)
    BY DEF AllReleasesRecorded
  <1>3. ASSUME NEW r \in Requests, NEW a \in Allocations, NEW m \in Positive,
               CreateRequest(r, a, m) \/ UpdateRequest(r, a, m)
        PROVE  AllReleasesRecorded'
    <2>1. OthersAsBefore(r)
      BY <1>1, <1>3 DEF CreateRequest, UpdateRequest, Tables, OthersAsBefore
    <2>2. /\ request'[r].status = "pending_decision"
          /\ request[r].status \in {"absent", "pending_decision"}
          /\ request'[r].reserved \in {0, request[r].reserved}
      BY <1>1, <1>3 DEF CreateRequest, MayCreateRequest, UpdateRequest, MayUpdateRequest,
                        Tables, RequestRow
    <2>3. ReleaseRecorded(r)'
      BY <1>2, <2>2 DEF ReleaseRecorded
    <2> QED BY <2>1, <2>3, ReleaseByRow
  <1>4. ASSUME NEW r \in Requests,
               \/ WithdrawRequest(r) \/ DenyRequest(r) \/ ApproveRequest(r)
               \/ \E e \in Expenses, m \in Positive : FulfillRequest(r, e, m)
        PROVE  AllReleasesRecorded'
    <2>1. OthersAsBefore(r)
      BY <1>1, <1>4 DEF WithdrawRequest, DenyRequest, ApproveRequest, FulfillRequest, Tables,
                        OthersAsBefore
    <2>2. request'[r].status \in {"withdrawn", "denied", "approved_reserved", "fulfilled"}
      BY <1>1, <1>4 DEF WithdrawRequest, DenyRequest, ApproveRequest, FulfillRequest, Tables,
                        RequestRow
    <2>3. ReleaseRecorded(r)'
      BY <2>2 DEF ReleaseRecorded
    <2> QED BY <2>1, <2>3, ReleaseByRow
  <1>5. ASSUME NEW r \in Requests, AnnulRequest(r) PROVE AllReleasesRecorded'
    <2>1. OthersAsBefore(r)
      BY <1>1, <1>5 DEF AnnulRequest, Tables, OthersAsBefore
    <2>2. /\ request[r].status \in {"pending_decision", "approved_reserved"}
          /\ request'[r].status = "annulled" /\ request'[r].reserved = request[r].reserved
          /\ trail'[r] = IF Held(r) > 0 THEN trail[r] \cup {"RESERVATION_RELEASED"} ELSE trail[r]
      BY <1>1, <1>5 DEF AnnulRequest, MayAnnulRequest, OpenFinancialStatuses, Tables, RequestRow
    <2>3. request[r].reserved \in Nat
      BY <1>1, MaxMoneyAssumption DEF Tables, RequestRow, Money
    <2>4. request[r].reserved = 0 \/ "RESERVATION_RELEASED" \in trail'[r]
      BY <1>2, <2>2, <2>3 DEF ReleaseRecorded, Held
    <2>5. ReleaseRecorded(r)'
      BY <2>2, <2>4 DEF ReleaseRecorded
    <2> QED BY <2>1, <2>5, ReleaseByRow
  <1>6. ASSUME NEW e \in Expenses, AnnulExpense(e) PROVE AllReleasesRecorded'
    BY <1>2, <1>6 DEF AnnulExpense, AllReleasesRecorded, ReleaseRecorded
  <1>7. UNCHANGED <<request, trail>> => AllReleasesRecorded'
    BY DEF AllReleasesRecorded, ReleaseRecorded
  <1>8. ASSUME NEW e \in Expenses, NEW a \in Allocations, NEW m \in Positive,
               CreateExpenseLegacy(e, a, m) \/ UpdateExpense(e, a, m)
        PROVE  UNCHANGED <<request, trail>>
    BY <1>8 DEF CreateExpenseLegacy, UpdateExpense
  <1>9. ASSUME NEW e \in Expenses, ConfirmExpenseDeletion(e) \/ DeleteExpense(e)
        PROVE  UNCHANGED <<request, trail>>
    BY <1>9 DEF ConfirmExpenseDeletion, DeleteExpense
  <1>10. DonationStep \/ ProjectStep \/ EditStep \/ AllocationStep \/ UNCHANGED vars =>
             UNCHANGED <<request, trail>>
    BY DEF DonationStep, ProjectStep, EditStep, AllocationStep, vars, CreateDonation,
           UpdateDonation, ReceiveDonation, AnnulDonation, DeleteDonation, CreateProject,
           PublishProject, UnpublishProject, FinishProject, CheckProjectEdit, LoadProjectEdit,
           SaveProjectEdit, EndProjectEdit, CreateAllocation, UpdateAllocation,
           FinishAllocation, AnnulAllocation, DeleteAllocation
  <1> QED BY <1>3, <1>4, <1>5, <1>6, <1>7, <1>8, <1>9, <1>10
          DEF Next, RequestStep, ExpenseStep

LEMMA FiguresFollow ==
    ASSUME Kept, AllReleasesRecorded
    PROVE  FiguresAgree
  <1>1. ReleasesAreWhole
    BY DEF AllReleasesRecorded, ReleaseRecorded, ReleasesAreWhole, Released
  <1> QED BY <1>1, FigureRows, FigureUnallocated, FigureProjects, FigureShares, FigurePortal
          DEF FiguresAgree

\* FiguresAgree of LedgerFigures: the lists, the project pages, the dashboard and the portal
\* show amounts that add up to each other, whatever filter each of them applies.
THEOREM FiguresAlwaysAgree == Spec => []FiguresAgree
  <1>1. Init => AllReleasesRecorded
    BY DEF Init, AllReleasesRecorded, ReleaseRecorded
  <1>2. TypeOK /\ AllReleasesRecorded /\ [Next]_vars => AllReleasesRecorded'
    BY StepReleases
  <1>3. Spec => []AllReleasesRecorded
    BY <1>1, <1>2, TypeCorrect, PTL DEF Spec
  <1> QED BY <1>3, KeptAlways, FiguresFollow, PTL

===============================================================================
