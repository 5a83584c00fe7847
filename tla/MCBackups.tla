------------------------------- MODULE MCBackups -------------------------------
(* Instances of Backups for TLC.  Ids and names of a kind are interchangeable. *)
EXTENDS Backups, TLC

CONSTANTS n1, n2, a1, a2, t1, t2

MCNames == DocumentNames \cup AttachmentNames \cup Tokens

IdSymmetry ==
    Permutations(Expenses) \cup Permutations(Attachments) \cup Permutations(Clerks)
        \cup Permutations(Downloaders) \cup Permutations(DocumentNames)
        \cup Permutations(AttachmentNames) \cup Permutations(Tokens)

Kinds ==
    [support |-> expense # [e \in Expenses |-> "absent"]
                   \/ \E w \in Clerks : job[w].of \in Expenses,
     request |-> (\E a \in Attachments : attachment[a] # NoAttachment)
                   \/ AttachmentNames \cap objects # {} \/ cut # {}
                   \/ \E w \in Clerks : job[w].of \in Requests,
     kobo    |-> \E a \in Evidence : evidence[a].status # "pending"]

\* Bound: files of one kind only; they share nothing but the store.
MCOneKind == Cardinality({k \in DOMAIN Kinds : Kinds[k]}) <= 1

\* Bound: backups of one file, and one process at work beside them.
MCFewFiles ==
    stamps > 0 \/ runner # Stopped \/ drill # NoDrill =>
        /\ Cardinality(objects) <= 1
        /\ Cardinality({w \in Clerks : job[w] # Idle}) <= 1
        /\ Cardinality({v \in Downloaders : download[v] # NoDownload}) <= 1

\* Bound: sets of one version, of which one breaks; the files stay as they are after
\* the second one; drills of the first one only.
MCFewSets ==
    /\ Cardinality({sets[b].version : b \in Stamps} \ {0}) <= 1
    /\ Cardinality({b \in Stamps : sets[b] # NoSet /\ ~sets[b].whole}) <= 1
    /\ stamps > 1 => Quiet
    /\ drill # NoDrill => stamps = 1 /\ runner = Stopped /\ Quiet

==============================================================================
