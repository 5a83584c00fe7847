---------------------------- MODULE MCLedgerLocks ----------------------------
(* Instances of LedgerLocks for TLC.  Row ids are ordered (locks are taken *)
(* by pk), so only the workers are interchangeable.                        *)
EXTENDS LedgerLocks, TLC

WorkerSymmetry == Permutations(Workers)

==============================================================================
