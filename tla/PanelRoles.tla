----------------------------- MODULE PanelRoles -----------------------------
(***************************************************************************)
(* The permissions of the internal panel: what sync_operation_roles writes *)
(* into the four functional groups.  A permission is a pair <<verb, thing>>*)
(* for Django's "operations.verb_thing"; those of the Kobo app are tagged  *)
(* by their things, which no model of the operations app shares.           *)
(***************************************************************************)
Roles == {"admin", "operator", "auditor", "committee"}

\* The models of the operations app; Django creates four permissions for each.
Models ==
    {"operationalcodesequence", "institution", "project", "projectmilestone",
     "projectupdate", "projectupdatereview", "projectupdatereviewdecision",
     "projectdocument", "projectupdateattachment", "projectupdateremediation",
     "projectupdateremediationattachment", "donation", "fundallocation", "expense",
     "supportingdocument", "expenserequest", "expenserequestattachment",
     "expenserequestevent", "auditlog", "useraccessprofile"}

Verbs == {"view", "add", "change", "delete"}

\* Meta.permissions of the models.
CustomPermissions ==
    {<<"manage", "project_publication">>, <<"complete", "projectmilestone">>,
     <<"reorder", "projectmilestone">>, <<"publish", "projectupdate">>,
     <<"review", "projectupdate">>, <<"decide", "projectupdate">>,
     <<"submit", "projectupdateremediation">>, <<"resolve", "projectupdateremediation">>,
     <<"decide", "expenserequest">>, <<"fulfill", "expenserequest">>,
     <<"withdraw", "expenserequest">>, <<"annul", "expenserequest">>}

TerritorialAdministration ==
    {<<"view", "territorial_administration">>, <<"manage", "pastoral_zone_mappings">>,
     <<"resolve", "territorial_conflicts">>, <<"change", "territorial_identity_status">>,
     <<"run", "territorial_reconciliation">>}

TerritorialReading == {<<"view", "territorial_administration">>}

\* ADMIN_EXCLUDED_PERMISSION_CODENAMES
AdminExcluded ==
    (Verbs \ {"view"}) \X {"auditlog", "projectupdatereview", "projectupdatereviewdecision",
                           "expenserequestevent"}
    \cup {<<"review", "projectupdate">>, <<"decide", "projectupdate">>,
          <<"resolve", "projectupdateremediation">>, <<"decide", "expenserequest">>,
          <<"delete", "expenserequest">>, <<"delete", "project">>}

OperatorPermissions ==
    {"view"} \X {"project", "projectupdate", "projectupdateattachment", "supportingdocument",
                 "projectupdateremediation", "projectupdateremediationattachment",
                 "expenserequest", "expenserequestattachment", "expenserequestevent"}
    \cup {"add"} \X {"projectupdate", "supportingdocument", "projectupdateremediation",
                     "projectupdateremediationattachment", "expenserequest",
                     "expenserequestattachment"}
    \cup {"change"} \X {"projectupdateremediation", "expenserequest"}
    \cup {"delete"} \X {"projectupdateremediationattachment", "expenserequestattachment"}
    \cup {<<"submit", "projectupdateremediation">>, <<"withdraw", "expenserequest">>}

AuditorPermissions ==
    {"view"} \X {"institution", "project", "donation", "fundallocation", "expense",
                 "supportingdocument", "projectupdate", "auditlog", "expenserequest",
                 "expenserequestattachment", "expenserequestevent"}

CommitteePermissions ==
    {"view"} \X {"project", "projectupdate", "projectdocument", "projectupdateattachment",
                 "projectupdatereview", "projectupdatereviewdecision",
                 "projectupdateremediation", "projectupdateremediationattachment",
                 "expenserequest", "expenserequestattachment", "expenserequestevent"}
    \cup {<<"review", "projectupdate">>, <<"decide", "projectupdate">>,
          <<"resolve", "projectupdateremediation">>, <<"decide", "expenserequest">>}

\* Mutant of Permissions: the administrator simply gets every permission of the app.
PermissionsWithoutExclusions ==
    [role \in Roles |->
     CASE role = "admin" -> (Verbs \X Models) \cup CustomPermissions
                           \cup TerritorialAdministration
      [] role = "operator" -> OperatorPermissions
      [] role = "auditor" -> AuditorPermissions \cup TerritorialReading
      [] role = "committee" -> CommitteePermissions \cup TerritorialReading]

\* sync_operation_roles; a user without a functional role has none of these.
Permissions ==
    [role \in Roles |->
     CASE role = "admin" -> (((Verbs \X Models) \cup CustomPermissions) \ AdminExcluded)
                           \cup TerritorialAdministration
      [] role = "operator" -> OperatorPermissions
      [] role = "auditor" -> AuditorPermissions \cup TerritorialReading
      [] role = "committee" -> CommitteePermissions \cup TerritorialReading]

Holds(role, verb, thing) == <<verb, thing>> \in Permissions[role]
=============================================================================
