----------------------------- MODULE LedgerCustody -----------------------------
(***************************************************************************)
(* The ledger keeps the promises of Custody: each transaction of the       *)
(* services moves money in one of the ways Custody allows, or not at all.  *)
(***************************************************************************)
EXTENDS Ledger

\* A donation that was annulled or deleted gives nothing any more.
Given(d) == IF donation[d].status \in {"registered", "received"} THEN donation[d].amount ELSE 0

\* An allocation that was annulled or deleted holds nothing any more; what is
\* reserved on it stays set aside until its requests are annulled.
Holding(a) == allocation[a].status \in {"active", "finished"}

Contents(a) ==
    [fund   |-> IF Holding(a) THEN allocation[a].donation ELSE None,
     amount |-> IF Holding(a) THEN allocation[a].amount ELSE 0,
     aside  |-> Reserved(a),
     spent  |-> Executed(a)]

Promise == INSTANCE Custody WITH
    Funds     <- Donations,
    Envelopes <- Allocations,
    given     <- [d \in Donations |-> Given(d)],
    envelope  <- [a \in Allocations |-> Contents(a)]

\* However requests, expenses, allocations and donations are created, corrected,
\* moved, annulled and deleted, money moves only as Custody allows.
KeepsCustody == Promise!Spec

==============================================================================
