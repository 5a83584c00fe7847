---------------------------- MODULE MCProjectWork ----------------------------
(* Instances of ProjectWork for TLC.  Rows of a kind are interchangeable.  *)
EXTENDS ProjectWork, TLC

IdSymmetry ==
    Permutations(Workers) \cup Permutations(Projects) \cup Permutations(Advances)
        \cup Permutations(Files) \cup Permutations(Milestones)

\* Bound: the milestones change only as long as there is no advance.
MCOneAfterTheOther ==
    \/ \A m \in Milestones : milestone[m] = NoMilestone
    \/ /\ \A u \in Advances : advance[u].status = "absent"
       /\ \A w \in Workers : tx[w].phase # "idle" => tx[w].call.name = "finish_project"

\* Bound: two files before the review, one from then on; after the decision only
\* files of the remediation and an advance that was not edited; a second project only
\* as long as nothing is published.
MCFewFiles ==
    /\ \A u \in Advances : review[u] => Cardinality({k \in Files : file[k].status # "absent"}) <= 1
    /\ \A u \in Advances : decision[u] # None =>
           advance[u].text = 1 /\ \A k \in Files : file[k].status # "absent" => file[k].of = "remediation"
    /\ (\E u \in Advances : advance[u].status = "published") =>
           \A u \in Advances : \A w \in Workers :
               tx[w].phase # "idle" /\ tx[w].call.p # None => tx[w].call.p = advance[u].project

==============================================================================
