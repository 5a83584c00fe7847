------------------------------- MODULE MCLedger -------------------------------
(* Instances of Ledger for TLC.  Row ids are interchangeable, so each kind *)
(* of id is a symmetry set; the runs check safety only.                    *)
EXTENDS LedgerCustody, LedgerPages, LedgerFigures, TLC

IdSymmetry ==
    Permutations(Donations) \cup Permutations(Projects) \cup Permutations(Allocations)
        \cup Permutations(Requests) \cup Permutations(Expenses)

Existing(table) == {i \in DOMAIN table : table[i].status # "absent"}

InFlight == {x \in Edits : edit[x].phase # "idle"}

\* Bound: while a project edit is in flight there is one donation of one unit, one allocation
\* and no expense; while two are, also one project.
MCEditsAreCheap ==
    /\ InFlight # {} => /\ \A d \in Donations : donation[d].amount <= 1
                       /\ Cardinality(Existing(donation)) <= 1
                       /\ Existing(expense) = {}
                       /\ Cardinality(Existing(allocation)) <= 1
    /\ Cardinality(InFlight) > 1 => Cardinality(Existing(project)) <= 1

\* Bound: two requests and two expenses compete for one allocation of one
\* donation, or one request and one expense move between two of each.
MCDeepOrWide ==
    \/ Cardinality(Existing(donation)) <= 1 /\ Cardinality(Existing(allocation)) <= 1
    \/ Cardinality(Existing(request)) <= 1 /\ Cardinality(Existing(expense)) <= 1

\* Bound: allocations move between two projects, or one project has both a request and an
\* expense.
MCMovesOrSpends ==
    \/ Cardinality(Existing(project)) <= 1
    \/ Existing(request) = {}
    \/ Existing(expense) = {}

==============================================================================
