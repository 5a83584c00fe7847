------------------------------ MODULE Milestones ------------------------------
(***************************************************************************)
(* The milestones of the projects (apps/operations/services.py 719-1000).  *)
(*                                                                         *)
(* Every service locks the project first and then all of its milestones,   *)
(* so each is one atomic action.  What may go wrong is inside: positions   *)
(* are unique in the database after every single UPDATE, and the audit of  *)
(* a completion crossing compares the project before and after the change. *)
(***************************************************************************)
EXTENDS Naturals, FiniteSets, Sequences, ProjectStatus

CONSTANT Milestones

ASSUME MilestonesAssumption == IsFiniteSet(Milestones) /\ None \notin Projects

VARIABLES
    milestone,      \* [project, position, done] of each row
    crossing        \* the last completion crossing audited for each project

milestoneVars == <<milestone, crossing>>

MilestoneRow == [project : Projects \cup {None}, position : Nat, done : BOOLEAN]

\* No audit row yet counts as "left": a project without milestones is not done.
Crossing == {"left", "reached"}

NoMilestone == [project |-> None, position |-> 0, done |-> FALSE]

MilestonesInit ==
    /\ milestone = [m \in Milestones |-> NoMilestone]
    /\ crossing  = [p \in Projects |-> "left"]

Of(p) == {m \in Milestones : milestone[m].project = p}

\* get_milestone_progress(...).is_completed
Completed(p) == Of(p) # {} /\ \A m \in Of(p) : milestone[m].done

Positions(p) == {milestone[m].position : m \in Of(p)}

\* _ensure_consecutive_milestone_positions
Consecutive(p) == Positions(p) = 1..Cardinality(Of(p))

\* _audit_project_milestone_completion_crossing: p becomes done or not done.
Audit(p, done) ==
    crossing' = IF Completed(p) = done THEN crossing
                ELSE [crossing EXCEPT ![p] = IF done THEN "reached" ELSE "left"]

\* unique_project_milestone_position, which no statement may violate.
Unique(ms, position) == \A m, n \in ms : position[m] = position[n] => m = n

-------------------------------------------------------------------------------

\* create_project_milestone: appended, pending.
CreateMilestone(m, p) ==
    /\ Open(p)
    /\ milestone[m] = NoMilestone
    /\ Consecutive(p)
    /\ milestone' = [milestone EXCEPT ![m] =
                        [project |-> p, position |-> Cardinality(Of(p)) + 1, done |-> FALSE]]
    /\ Audit(p, FALSE)
    /\ UNCHANGED project

\* Mutant of CompleteMilestone: the progress before is computed from the rows
\* that were already changed.
CompleteMilestoneLateRead(m) ==
    LET p == milestone[m].project IN
    /\ p # None
    /\ Open(p)
    /\ ~milestone[m].done
    /\ milestone' = [milestone EXCEPT ![m].done = TRUE]
    /\ UNCHANGED <<crossing, project>>

\* complete_project_milestone
CompleteMilestone(m) ==
    LET p == milestone[m].project IN
    /\ p # None
    /\ Open(p)
    /\ ~milestone[m].done
    /\ milestone' = [milestone EXCEPT ![m].done = TRUE]
    /\ Audit(p, \A n \in Of(p) \ {m} : milestone[n].done)
    /\ UNCHANGED project

\* reopen_project_milestone
ReopenMilestone(m) ==
    LET p == milestone[m].project IN
    /\ p # None
    /\ Open(p)
    /\ milestone[m].done
    /\ milestone' = [milestone EXCEPT ![m].done = FALSE]
    /\ Audit(p, FALSE)
    /\ UNCHANGED project

\* Mutant of Compacted: what is behind the deleted milestone keeps its place.
NotCompacted(m) == [n \in Milestones |-> milestone[n].position]

\* The positions after the deletion of m.
Compacted(m) ==
    [n \in Milestones |->
        IF milestone[n].position > milestone[m].position
          THEN milestone[n].position - 1
          ELSE milestone[n].position]

\* delete_project_milestone: the rows behind it move up one by one, in order, so
\* that each moves to the place the one before it has just left.
DeleteMilestone(m) ==
    LET p    == milestone[m].project
        rest == Of(p) \ {m}
    IN  /\ p # None
        /\ Open(p)
        /\ Consecutive(p)
        /\ milestone' = [n \in Milestones |->
                            IF n = m THEN NoMilestone
                            ELSE IF n \in rest
                              THEN [milestone[n] EXCEPT !.position = Compacted(m)[n]]
                            ELSE milestone[n]]
        /\ Audit(p, rest # {} /\ \A n \in rest : milestone[n].done)
        /\ UNCHANGED project

\* The three saves of _move_project_milestone, through the free place behind
\* the last one.
Saves(m, n, position) ==
    LET one   == [position EXCEPT ![m] = Cardinality(Of(milestone[m].project)) + 1]
        two   == [one EXCEPT ![n] = position[m]]
        three == [two EXCEPT ![m] = position[n]]
    IN  <<one, two, three>>

Adjacent(m, n) ==
    /\ milestone[n].project = milestone[m].project
    /\ \/ milestone[n].position = milestone[m].position + 1
       \/ milestone[m].position = milestone[n].position + 1

PositionsNow == [m \in Milestones |-> milestone[m].position]

\* move_project_milestone_up and _down: m changes places with its neighbour n.
\* A save that collides rolls everything back.
Movable(m, n) ==
    LET p == milestone[m].project
    IN  /\ p # None
        /\ Open(p)
        /\ Consecutive(p)
        /\ Adjacent(m, n)
        /\ \A i \in 1..3 : Unique(Of(p), Saves(m, n, PositionsNow)[i])

MoveMilestone(m, n) ==
    /\ Movable(m, n)
    /\ milestone' = [x \in Milestones |->
                        [milestone[x] EXCEPT !.position = Saves(m, n, PositionsNow)[3][x]]]
    /\ UNCHANGED <<crossing, project>>

MilestoneStep ==
    \E m \in Milestones :
        \/ \E p \in Projects : CreateMilestone(m, p)
        \/ CompleteMilestone(m)
        \/ ReopenMilestone(m)
        \/ DeleteMilestone(m)
        \/ \E n \in Milestones : MoveMilestone(m, n)

-------------------------------------------------------------------------------
(* Properties.                                                             *)

MilestonesTypeOK ==
    /\ milestone \in [Milestones -> MilestoneRow]
    /\ crossing \in [Projects -> Crossing]

\* After any sequence of creations, moves and deletions the milestones of a
\* project are numbered 1..N, and as long as the project is open each of them can
\* change places with its neighbours without any save colliding with the unique
\* constraint: a gap, a repetition or a collision would make every later service
\* refuse the project (_ensure_consecutive_milestone_positions).
MilestonesStayMovable ==
    /\ \A p \in Projects :
           Consecutive(p) /\ Unique(Of(p), PositionsNow)
    /\ \A m, n \in Milestones :
           milestone[m].project # None /\ Open(milestone[m].project) /\ Adjacent(m, n)
               => Movable(m, n)

\* The audit log tells whether a project is at 100 %: its last crossing row
\* says so exactly when every milestone is completed, whatever was created,
\* completed, reopened or deleted.
LastCrossingIsTrue ==
    \A p \in Projects : crossing[p] = "reached" <=> Completed(p)

==============================================================================
