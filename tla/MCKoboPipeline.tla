---------------------------- MODULE MCKoboPipeline ----------------------------
(* Instances of KoboPipeline for TLC.                                      *)
EXTENDS KoboPipeline, TLC

CONSTANTS c1, c2, z1, z2

Payload(c, z) == [code |-> c, zone |-> z, valid |-> TRUE]

Unreadable == [code |-> None, zone |-> None, valid |-> FALSE]

MCOneCode == {Payload(c1, z1), Payload(c1, z2), Unreadable}

MCTwoCodes == {Payload(c1, z1), Payload(c1, z2), Payload(c2, z1)}

MCSymmetry == Permutations(Workers)

Touched == {s \in Submissions : row[s].status # "absent"}

Busy == {w \in Workers : ~At(w, "idle")}

CONSTANTS m1, m2, p2

\* Bound: the first zone is never mapped to the second project, nor both zones to
\* the same one; and either one submission, corrected at will, or two, which came
\* by webhook and keep their payloads, with workers at different ones only while
\* one of them routes, and no identity under observation.
MCOneOrTwo ==
    /\ mapping[z1] # p2
    /\ mapping[z2] # None => mapping[z1] # mapping[z2]
    /\ m2 \in Touched => m1 \in Touched
    /\ \/ Cardinality(Touched) <= 1
       \/ /\ Cardinality(Touched) = 2
          /\ \A s \in Touched : ~row[s].timed /\ row[s].raw = Payload(c1, IF s = m2 THEN z2 ELSE z1)
          /\ \A c \in Codes : identity[c].status # "observed"
          /\ \A v, w \in Busy : task[v].sub # task[w].sub =>
                 "routing" \in {task[v].at, task[w].at}

==============================================================================
