------------------------------ MODULE ProjectWork ------------------------------
(***************************************************************************)
(* The work on a project, advances and milestones together: they share the *)
(* project, whose row each milestone service locks first, so that none of  *)
(* them runs while a transaction of Advances holds it.                     *)
(***************************************************************************)
EXTENDS Advances, Milestones

allVars == <<vars, milestoneVars>>

WorkInit == Init /\ MilestonesInit

\* _lock_project_milestones waits for the project and then has everything it
\* needs, as nothing else locks milestones.
MilestoneWork ==
    /\ \E p \in Projects :
           /\ \A w \in Workers : Lock("project", p) \notin tx[w].held
           /\ MilestoneStep
           /\ \A m \in Milestones :
                  milestone'[m] # milestone[m] => p \in {milestone[m].project, milestone'[m].project}
    /\ UNCHANGED <<advance, review, decision, remediation, file, tx>>

WorkNext ==
    \/ Next /\ UNCHANGED milestoneVars
    \/ MilestoneWork

WorkSpec == WorkInit /\ [][WorkNext]_allVars

WorkTypeOK == TypeOK /\ MilestonesTypeOK

==============================================================================
