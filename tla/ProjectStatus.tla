---------------------------- MODULE ProjectStatus ----------------------------
(***************************************************************************)
(* The part of a project that everything it owns depends on: whether it is *)
(* still ACTIVE.  Advances and Milestones share it.                        *)
(***************************************************************************)
CONSTANTS Projects, None

VARIABLE project        \* "active" or "closed"

\* project_allows_operational_mutation
Open(p) == project[p] = "active"

\* The end of finish_project; that its money is settled is Ledger's part.
Close(p) ==
    /\ Open(p)
    /\ project' = [project EXCEPT ![p] = "closed"]

==============================================================================
