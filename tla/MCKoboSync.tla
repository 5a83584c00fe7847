------------------------------ MODULE MCKoboSync ------------------------------
(* Instances of KoboSync for TLC.                                          *)
EXTENDS KoboSync, TLC

MCSymmetry == Permutations(Submissions) \cup Permutations(Runs)

Touched(x) == remote[x].edit > 0

\* Bound: either one submission is edited MaxEdits times, by itself, or each is
\* edited twice at most, without webhooks, approvals and imports.
MCOneOrMany ==
    \/ Cardinality({x \in Submissions : Touched(x)}) <= 1
    \/ /\ failing = {}
       /\ \A x \in Submissions :
              /\ remote[x].edit <= 2
              /\ staged[x].status = "absent" \/ (staged[x].status = "open" /\ staged[x].at > 0)

==============================================================================
