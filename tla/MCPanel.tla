------------------------------ MODULE MCPanel ------------------------------
(***************************************************************************)
(* The panel and the portal for TLC.  A behaviour is one of four scenes:   *)
(* the accounts alone, with two superusers at work; the expense requests,  *)
(* while one superuser changes roles and access; the public portal; the    *)
(* operational codes, beside their inspection.  What a scene is not about  *)
(* stands still.                                                           *)
(***************************************************************************)
EXTENDS ExpenseDesk, PublicPortal, OperationalCodes, TLC

VARIABLE scene

vars == <<scene, accountVars, deskVars, portalVars, codeVars>>

Busy(calls) == {x \in DOMAIN calls : calls[x] # Idle}

MCLegacy == [form : {"padded", "typed", "word"}, number : {1}]

\* Everybody works here: accounts that exist, with a role and a session.
MCStaff ==
    /\ account = [u \in Users |-> [active |-> TRUE, password |-> 1, must |-> FALSE]]
    /\ groups \in [Users -> {{role} : role \in Roles}]
    /\ sessions = {[user |-> u, password |-> 1] : u \in Users}
    /\ issued = MaxPasswords
    /\ call = [s \in Superusers |-> Idle]
    /\ own = [u \in Users |-> Idle]

MCInit ==
    /\ scene \in {"accounts", "desk", "portal", "codes"}
    /\ IF scene = "desk" THEN MCStaff ELSE AccountsInit
    /\ DeskInit
    /\ PortalInit
    /\ \E legacy \in SUBSET Legacy :
          /\ legacy = {} \/ scene = "codes"
          /\ CodesInit(legacy)

\* At their desks people keep their passwords; once, a role changes or access ends.
MCRolesMove ==
    \E s \in Superusers :
        \/ \E u \in Users : \/ LoadDeactivate(s, u)
                            \/ \E role \in Given \ groups[u] : LoadUpdate(s, u, role, TRUE)
        \/ UpdateRow(s) \/ ReadGroups(s) \/ CommitUpdate(s) \/ CommitDeactivate(s)

MCNext ==
    \/ /\ scene = "accounts"
       /\ AccountsNext
       /\ UNCHANGED <<scene, deskVars, portalVars, codeVars>>
    \/ /\ scene = "desk"
       /\ MCRolesMove
       /\ scene' = IF Busy(call') = {} THEN "moved" ELSE "desk"
       /\ UNCHANGED <<deskVars, portalVars, codeVars>>
    \/ /\ scene \in {"desk", "moved"}
       /\ DeskNext
       /\ UNCHANGED <<scene, accountVars, portalVars, codeVars>>
    \/ /\ scene = "portal"
       /\ PortalNext
       /\ UNCHANGED <<scene, accountVars, deskVars, codeVars>>
    \/ /\ scene = "codes"
       /\ CodesNext
       /\ UNCHANGED <<scene, accountVars, deskVars, portalVars>>

\* Bounds: alone, one account and two calls for it, of superusers and owner together; at the
\* desks, one change of a role or of access.
MCFewCalls ==
    \/ scene \in {"portal", "codes", "moved"}
    \/ /\ scene = "accounts"
       /\ Cardinality({u \in Users : Exists(u)}) <= 1
       /\ Cardinality(Busy(call)) + Cardinality(Busy(own)) <= 2
    \/ scene = "desk" /\ Cardinality(Busy(call)) <= 1

MCSymmetry == Permutations(Users) \cup Permutations(Superusers) \cup
              Permutations(Tabs) \cup Permutations(Processes) \cup
              Permutations(Creators)

MCSpec == MCInit /\ [][MCNext]_vars
=============================================================================
